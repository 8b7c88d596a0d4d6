----------------------------- MODULE WarmProofs -----------------------------
(***************************************************************************)
(* Proofs about WarmStore: its types, that with Redis the prefix and the   *)
(* binding implement WarmSession, and that the prefix by itself does in    *)
(* memory too, for any number of tasks, cleaners, models, contents and     *)
(* epochs.                                                                 *)
(***************************************************************************)
EXTENDS WarmStore, TLAPS

Labels == TaskPc \cup CleanerPc

PublishPc == {"load", "drop_binding", "store", "insert"}
BindingPc == {"find", "hgetall", "lapse", "backfill", "touch"}

(* What TypeOK says of one task at label l with call c.                    *)
CallFits(l, c) ==
  /\ c \in Call \cup {None}
  /\ (l = "idle") = (c = None)
  /\ l \in BindingPc \ {"find"} => c.seen \in Epochs
  /\ l \in PublishPc \/ (l \in BindingPc /\ c.op = "publish")
       => c.epoch \in Epochs /\ c.messages \in Contents

StoreTypes ==
  /\ prefix \in Prefix \cup {None}
  /\ binding \in Binding \cup {None}

CallTypes ==
  /\ pc \in [Tasks \cup Cleaners -> Labels]
  /\ call \in [Tasks -> Call \cup {None}]
  /\ \A t \in Tasks : CallFits(pc[t], call[t])

LEMMA TypeParts == TypeOK <=> StoreTypes /\ CallTypes
  BY DEF TypeOK, StoreTypes, CallTypes, CallFits, Publishing, PublishPc, BindingPc, Labels

LEMMA TypePartsNext == TypeOK' <=> StoreTypes' /\ CallTypes'
  BY DEF TypeOK, StoreTypes, CallTypes, CallFits, Publishing, PublishPc, BindingPc, Labels

(* None is not a record: a call that is under way is a Call.               *)
LEMMA CallStep ==
  ASSUME CallTypes, NEW t \in Tasks, NEW l \in TaskPc, NEW c, CallFits(l, c),
         pc' = [pc EXCEPT ![t] = l], call' = [call EXCEPT ![t] = c]
  PROVE  CallTypes'
<1>1. pc' \in [Tasks \cup Cleaners -> Labels]
  BY DEF CallTypes, Labels
<1>2. call' \in [Tasks -> Call \cup {None}]
  BY DEF CallTypes, CallFits
<1>3. ASSUME NEW u \in Tasks PROVE CallFits(pc'[u], call'[u])
  <2>1. CASE u = t
    BY <2>1 DEF CallTypes
  <2>2. CASE u # t
    BY <2>2 DEF CallTypes
  <2> QED BY <2>1, <2>2
<1> QED BY <1>1, <1>2, <1>3 DEF CallTypes, CallFits

LEMMA CleanerStep ==
  ASSUME CallTypes, NEW c \in Cleaners, NEW l \in CleanerPc,
         pc' = [pc EXCEPT ![c] = l], call' = call
  PROVE  CallTypes'
<1>1. pc' \in [Tasks \cup Cleaners -> Labels]
  BY DEF CallTypes, Labels
<1>2. \A t \in Tasks : pc'[t] = pc[t]
  BY WarmAssumption DEF CallTypes
<1> QED BY <1>1, <1>2 DEF CallTypes, CallFits

LEMMA TypeInit == Init => TypeOK
  BY DEF Init, TypeOK, TaskPc, CleanerPc, Publishing

LEMMA ReturnTypes ==
  ASSUME CallTypes, NEW t \in Tasks, Return(t)
  PROVE  CallTypes'
<1>1. CallFits("idle", None)
  BY DEF CallFits, PublishPc, BindingPc
<1> QED BY <1>1, CallStep DEF Return, Goto, TaskPc

(* A call that is neither idle nor None is a record of Call.               *)
LEMMA CallIsRecord ==
  ASSUME CallTypes, NEW t \in Tasks, pc[t] # "idle"
  PROVE  call[t] \in Call /\ CallFits(pc[t], call[t])
  BY DEF CallTypes, CallFits
LEMMA BindTypes ==
  ASSUME CallTypes, NEW t \in Tasks, NEW m \in Model, pc[t] \in BindingPc, Bind(t, m)
  PROVE  CallTypes'
<1>1. CASE Return(t)
  BY <1>1, ReturnTypes
<1>2. CASE ~Return(t)
  <2> DEFINE l == IF call[t].op = "publish" THEN "load" ELSE "assemble"
             c == [call[t] EXCEPT !.seen = None, !.bound = None,
                                  !.model = IF call[t].model = None THEN m ELSE call[t].model]
  <2>1. call[t] \in Call /\ CallFits(pc[t], call[t])
    BY CallIsRecord DEF BindingPc
  <2>2. c \in Call /\ c.epoch = call[t].epoch /\ c.messages = call[t].messages
                   /\ c.op = call[t].op
    BY <2>1 DEF Call, Model
  <2>3. c # None
    BY <2>2, NoneAssumption
  <2>4. CallFits(l, c)
    BY <2>1, <2>2, <2>3 DEF CallFits, BindingPc, PublishPc
  <2>5. pc' = [pc EXCEPT ![t] = l] /\ call' = [call EXCEPT ![t] = c]
    BY <1>2 DEF Bind, Goto
  <2> QED BY <2>4, <2>5, CallStep DEF TaskPc
<1> QED BY <1>1, <1>2

(* One lemma for each group of actions: the calls keep their types.        *)
LEMMA NewCallTypes ==
  ASSUME CallTypes, NEW t \in Tasks, CallPublish(t) \/ CallChat(t) \/ CallDelete(t)
  PROVE  CallTypes'
<1> DEFINE New(op, e, messages, m) ==
             [op |-> op, epoch |-> e, messages |-> messages, model |-> m,
              seen |-> None, bound |-> None]
<1>1. CASE CallPublish(t)
  <2>1. PICK e \in Epochs, messages \in Contents, m \in Model :
          call' = [call EXCEPT ![t] = New("publish", e, messages, m)]
    BY <1>1 DEF CallPublish, NewCall
  <2>2. New("publish", e, messages, m) \in Call
    BY DEF Call, Model
  <2>3. CallFits("find", New("publish", e, messages, m))
    BY <2>2, NoneAssumption DEF CallFits, BindingPc, PublishPc
  <2> QED BY <1>1, <2>1, <2>3, CallStep DEF CallPublish, Goto, TaskPc
<1>2. CASE CallChat(t)
  <2>1. PICK e \in Epochs, m \in Models :
          call' = [call EXCEPT ![t] = New("chat", e, None, m)]
    BY <1>2 DEF CallChat, NewCall
  <2>2. New("chat", e, None, m) \in Call
    BY DEF Call, Model
  <2>3. CallFits("find", New("chat", e, None, m))
    BY <2>2, NoneAssumption DEF CallFits, BindingPc, PublishPc
  <2> QED BY <1>2, <2>1, <2>3, CallStep DEF CallChat, Goto, TaskPc
<1>3. CASE CallDelete(t)
  <2>1. New("delete", None, None, None) \in Call
    BY DEF Call, Model
  <2>2. CallFits("delete", New("delete", None, None, None))
    BY <2>1, NoneAssumption DEF CallFits, BindingPc, PublishPc
  <2> QED BY <1>3, <2>2, CallStep DEF CallDelete, NewCall, Goto, TaskPc
<1> QED BY <1>1, <1>2, <1>3

LEMMA AnswerTypes ==
  ASSUME CallTypes, NEW t \in Tasks, Answer(t)
  PROVE  CallTypes'
<1> DEFINE c == [op |-> "publish", epoch |-> None, messages |-> None, model |-> None,
                 seen |-> None, bound |-> None]
<1>1. c \in Call
  BY DEF Call, Model
<1>2. CallFits("reread", c)
  BY <1>1, NoneAssumption DEF CallFits, BindingPc, PublishPc
<1> QED BY <1>2, CallStep DEF Answer, Goto, NewCall, TaskPc

(* A task that only moves on from one label to the next.                   *)
LEMMA GotoTypes ==
  ASSUME CallTypes, NEW t \in Tasks, NEW l \in TaskPc, CallFits(l, call[t]),
         Goto(t, l), UNCHANGED call
  PROVE  CallTypes'
<1>1. call' = [call EXCEPT ![t] = call[t]]
  BY DEF CallTypes
<1> QED BY <1>1, CallStep DEF Goto

LEMMA BindingForTypes ==
  ASSUME TypeOK, NEW t \in Tasks, BindingFor(t)
  PROVE  TypeOK'
<1> USE TypeParts, TypePartsNext
<1> DEFINE Read(b, e) == [call[t] EXCEPT !.bound = b, !.seen = e]
<1>1. CASE FindInMemory(t)
  <2>1. CallTypes'
    BY <1>1, BindTypes DEF FindInMemory, StoreTypes, Binding, Model, BindingPc
  <2> QED BY <1>1, <2>1 DEF FindInMemory, StoreTypes
<1>2. CASE Find(t)
  <2>1. call[t] \in Call /\ CallFits("find", call[t])
    BY <1>2, CallIsRecord DEF Find
  <2>2. CASE Return(t)
    BY <1>2, <2>2, ReturnTypes DEF Find, GetKey, StoreTypes
  <2>3. CASE Bind(t, None)
    <3>1. CallTypes'
      BY <1>2, <2>3, BindTypes DEF Find, Model, BindingPc
    <3> QED BY <1>2, <3>1 DEF Find, GetKey, StoreTypes
  <2>4. CASE /\ prefix # None
             /\ Goto(t, "hgetall")
             /\ call' = [call EXCEPT ![t].seen = prefix.epoch]
    <3> DEFINE c == [call[t] EXCEPT !.seen = prefix.epoch]
    <3>1. prefix.epoch \in Epochs
      BY <2>4 DEF StoreTypes, Prefix
    <3>2. c \in Call /\ c.seen = prefix.epoch /\ c.op = call[t].op
            /\ c.epoch = call[t].epoch /\ c.messages = call[t].messages
      BY <2>1, <3>1 DEF Call
    <3>3. CallFits("hgetall", c)
      BY <2>1, <3>1, <3>2, NoneAssumption DEF CallFits, BindingPc, PublishPc
    <3>4. CallTypes'
      BY <2>4, <3>3, CallStep DEF Goto, TaskPc
    <3> QED BY <1>2, <3>4 DEF Find, GetKey, StoreTypes
  <2> QED BY <1>2, <2>2, <2>3, <2>4 DEF Find
<1>3. CASE HGetAll(t)
  <2>1. call[t] \in Call /\ CallFits("hgetall", call[t])
    BY <1>3, CallIsRecord DEF HGetAll
  <2> DEFINE c == [call[t] EXCEPT !.bound = binding.model]
  <2>2. CASE Bind(t, None)
    <3>1. CallTypes'
      BY <1>3, <2>2, BindTypes DEF HGetAll, Model, BindingPc
    <3> QED BY <1>3, <3>1 DEF HGetAll, StoreTypes
  <2>3. CASE Return(t)
    BY <1>3, <2>3, ReturnTypes DEF HGetAll, StoreTypes
  <2>4. CASE Goto(t, "lapse") /\ UNCHANGED call
    <3>1. CallFits("lapse", call[t])
      BY <2>1 DEF CallFits, BindingPc, PublishPc
    <3>2. CallTypes'
      BY <2>4, <3>1, GotoTypes DEF TaskPc
    <3> QED BY <1>3, <3>2 DEF HGetAll, StoreTypes
  <2>5. ASSUME NEW l \in {"backfill", "touch"}, binding # None, Goto(t, l),
               call' = [call EXCEPT ![t].bound = binding.model]
        PROVE  TypeOK'
    <3>1. binding.model \in Model
      BY <2>5 DEF StoreTypes, Binding
    <3>2. c \in Call /\ c.seen = call[t].seen /\ c.op = call[t].op
            /\ c.epoch = call[t].epoch /\ c.messages = call[t].messages
      BY <2>1, <3>1 DEF Call
    <3>3. CallFits(l, c)
      BY <2>1, <2>5, <3>2, NoneAssumption DEF CallFits, BindingPc, PublishPc
    <3>4. l \in TaskPc /\ pc' = [pc EXCEPT ![t] = l] /\ call' = [call EXCEPT ![t] = c]
      BY <2>5 DEF Goto, TaskPc
    <3> HIDE DEF c
    <3>5. CallTypes'
      BY <3>3, <3>4, CallStep
    <3> QED BY <1>3, <3>5 DEF HGetAll, StoreTypes
  <2> QED BY <1>3, <2>2, <2>3, <2>4, <2>5 DEF HGetAll
<1>4. CASE Lapse(t)
  <2>1. CallTypes'
    BY <1>4, BindTypes DEF Lapse, Model, BindingPc
  <2> QED BY <1>4, <2>1 DEF Lapse, StoreTypes
<1>5. CASE Backfill(t)
  <2>1. call[t] \in Call /\ CallFits("backfill", call[t]) /\ call[t].seen \in Epochs
    BY <1>5, CallIsRecord DEF Backfill, CallFits, BindingPc
  <2>2. StoreTypes'
    BY <1>5, <2>1 DEF Backfill, Partial, StoreTypes, Binding, Model
  <2>3. CASE Bind(t, None)
    <3>1. CallTypes'
      BY <1>5, <2>3, BindTypes DEF Backfill, Model, BindingPc
    <3> QED BY <2>2, <3>1
  <2>4. CASE Goto(t, "touch") /\ UNCHANGED call
    <3>1. CallFits("touch", call[t])
      BY <2>1 DEF CallFits, BindingPc, PublishPc
    <3>2. CallTypes'
      BY <2>4, <3>1, GotoTypes DEF TaskPc
    <3> QED BY <2>2, <3>2
  <2> QED BY <1>5, <2>3, <2>4 DEF Backfill
<1>6. CASE Touch(t)
  <2>1. call[t].bound \in Model
    BY <1>6, CallIsRecord DEF Touch, Call
  <2>2. CallTypes'
    BY <1>6, <2>1, BindTypes DEF Touch, BindingPc
  <2>3. StoreTypes'
    BY <1>6 DEF Touch, Partial, StoreTypes, Binding, Model
  <2> QED BY <2>2, <2>3
<1> QED BY <1>1, <1>2, <1>3, <1>4, <1>5, <1>6 DEF BindingFor

LEMMA StoredIsPrefix ==
  ASSUME CallTypes, NEW t \in Tasks, pc[t] \in PublishPc
  PROVE  Stored(t) \in Prefix /\ call[t].model \in Model /\ call[t].epoch \in Epochs
<1>1. call[t] \in Call /\ CallFits(pc[t], call[t])
  BY CallIsRecord DEF PublishPc
<1> QED BY <1>1 DEF CallFits, Stored, Prefix, Call, Age

LEMMA PublishTypes ==
  ASSUME TypeOK, NEW t \in Tasks,
         Load(t) \/ DropBinding(t) \/ PublishInMemory(t) \/ Insert(t) \/ PublishScript(t)
  PROVE  TypeOK'
<1> USE TypeParts, TypePartsNext
<1>1. CASE Load(t)
  <2>1. CallFits("drop_binding", call[t]) /\ CallFits("store", call[t])
    BY <1>1, CallIsRecord DEF Load, CallFits, BindingPc, PublishPc
  <2>2. CallTypes'
    BY <1>1, <2>1, GotoTypes DEF Load, TaskPc
  <2> QED BY <1>1, <2>2 DEF Load, GetKey, StoreTypes
<1>2. CASE DropBinding(t)
  <2>1. CallFits("store", call[t])
    BY <1>2, CallIsRecord DEF DropBinding, CallFits, BindingPc, PublishPc
  <2>2. CallTypes'
    BY <1>2, <2>1, GotoTypes DEF DropBinding, TaskPc
  <2> QED BY <1>2, <2>2 DEF DropBinding, RemoveBinding, StoreTypes
<1>3. CASE PublishInMemory(t)
  <2>1. StoreTypes'
    BY <1>3, StoredIsPrefix DEF PublishInMemory, StoreTypes, PublishPc
  <2>2. CallFits("insert", call[t])
    BY <1>3, CallIsRecord DEF PublishInMemory, CallFits, BindingPc, PublishPc
  <2>3. CallTypes'
    BY <1>3, <2>2, ReturnTypes, AnswerTypes, GotoTypes DEF PublishInMemory, TaskPc
  <2> QED BY <2>1, <2>3
<1>4. CASE Insert(t)
  <2>1. call[t].model \in Model
    BY <1>4, StoredIsPrefix DEF Insert, PublishPc
  <2>2. StoreTypes'
    BY <1>4, <2>1 DEF Insert, StoreTypes, Binding
  <2> QED BY <1>4, <2>2, AnswerTypes DEF Insert
<1>5. CASE PublishScript(t)
  <2>1. Stored(t) \in Prefix /\ call[t].model \in Model /\ call[t].epoch \in Epochs
    BY <1>5, StoredIsPrefix DEF PublishScript, PublishPc
  <2>2. StoreTypes'
    BY <1>5, <2>1 DEF PublishScript, StoreTypes, Binding, Age
  <2>3. CallTypes'
    BY <1>5, ReturnTypes, AnswerTypes DEF PublishScript
  <2> QED BY <2>2, <2>3
<1> QED BY <1>1, <1>2, <1>3, <1>4, <1>5

LEMMA EndingTypes ==
  ASSUME TypeOK, NEW t \in Tasks,
         Reread(t) \/ Assemble(t) \/ Delete(t) \/ DeleteBinding(t) \/ Fail(t)
  PROVE  TypeOK'
<1> USE TypeParts, TypePartsNext
<1>1. StoreTypes'
  BY DEF Reread, Assemble, Delete, DeleteBinding, Fail, GetKey, StoreTypes
<1>2. CASE Return(t)
  BY <1>1, <1>2, ReturnTypes
<1>3. CASE Delete(t) /\ ~Return(t)
  <2>1. CallFits("delete_binding", call[t])
    BY <1>3, CallIsRecord DEF Delete, CallFits, BindingPc, PublishPc
  <2>2. Goto(t, "delete_binding") /\ UNCHANGED call
    BY <1>3 DEF Delete
  <2>3. CallTypes'
    BY <2>1, <2>2, GotoTypes DEF TaskPc
  <2> QED BY <1>1, <2>3
<1> QED BY <1>2, <1>3 DEF Reread, Assemble, DeleteBinding, Fail

LEMMA CleanerTypes ==
  ASSUME TypeOK, NEW c \in Cleaners, Cleaner(c) \/ CleanupFails(c)
  PROVE  TypeOK'
<1> USE TypeParts, TypePartsNext
<1>1. StoreTypes'
  BY DEF Cleaner, CleanupFails, PurgeStore, Scan, InspectInRedis, InspectInMemory, GetRemove,
         Remove, GetKey, StoreTypes
<1>2. UNCHANGED call
  BY DEF Cleaner, CleanupFails, PurgeStore, Scan, InspectInRedis, InspectInMemory, GetRemove,
         Remove
<1>3. \E l \in CleanerPc : pc' = [pc EXCEPT ![c] = l]
  BY DEF Cleaner, CleanupFails, PurgeStore, Scan, InspectInRedis, InspectInMemory, GetRemove,
         Remove, Goto, CleanerPc
<1> QED BY <1>1, <1>2, <1>3, CleanerStep

LEMMA TimeTypes ==
  ASSUME TypeOK, Time
  PROVE  TypeOK'
<1> USE TypeParts, TypePartsNext
<1>1. StoreTypes'
  BY DEF Time, GrowOld, PrefixIdles, BindingIdles, StoreTypes, Prefix, Binding, Age
<1>2. CallTypes'
  BY DEF Time, GrowOld, PrefixIdles, BindingIdles, CallTypes, CallFits
<1> QED BY <1>1, <1>2

LEMMA TypeNext == TypeOK /\ [Next]_vars => TypeOK'
<1> SUFFICES ASSUME TypeOK, [Next]_vars PROVE TypeOK'
  OBVIOUS
<1> USE TypeParts, TypePartsNext
<1>1. ASSUME NEW t \in Tasks, CallPublish(t) \/ CallChat(t) \/ CallDelete(t) PROVE TypeOK'
  <2>1. StoreTypes'
    BY <1>1 DEF CallPublish, CallChat, CallDelete, StoreTypes
  <2> QED BY <1>1, <2>1, NewCallTypes
<1>2. ASSUME NEW t \in Tasks, Task(t) PROVE TypeOK'
  BY <1>1, <1>2, BindingForTypes, PublishTypes, EndingTypes DEF Task
<1>3. CASE UNCHANGED vars
  BY <1>3 DEF vars, StoreTypes, CallTypes, CallFits
<1> QED BY <1>2, <1>3, CleanerTypes, TimeTypes DEF Next

(* Every entry, call and label stays well formed, whatever Redis, the      *)
(* clients and the clock do.                                               *)
THEOREM WarmTypeCorrect == Spec => []TypeOK
  BY TypeInit, TypeNext, PTL DEF Spec

----------------------------------------------------------------------------
(* The refinement.                                                         *)

(* Nothing that a request can see has changed, or the session or its       *)
(* binding is gone.                                                        *)
LEMMA LossRefines ==
  ASSUME TypeOK,
         \/ prefix' = prefix
         \/ prefix' = None
         \/ prefix # None /\ prefix' = [prefix EXCEPT !.created = "old"],
         \/ binding' = None
         \/ binding # None /\ binding' # None /\ binding'.model = binding.model
         \/ binding = None /\ (binding' # None => binding'.model = None)
  PROVE  [Warm!Next]_CurrentSession
<1>1. prefix \in Prefix \cup {None} /\ None \notin Prefix
  BY TypeParts, NoneAssumption DEF StoreTypes
<1>2. CASE prefix = None
  BY <1>1, <1>2, NoneAssumption DEF CurrentSession, Expired
<1>3. CASE Expired \/ (prefix # None /\ prefix' # prefix)
  <2>1. CurrentSession' = None
    BY <1>1, <1>3 DEF CurrentSession, Expired, Prefix
  <2> QED BY <2>1 DEF Warm!Next, Warm!Drop
<1>4. CASE prefix # None /\ ~Expired /\ prefix' = prefix
  <2> DEFINE ModelOf(b) == IF b = None THEN None ELSE b.model
  <2>1. CurrentSession = [epoch |-> prefix.epoch, messages |-> prefix.messages,
                          model |-> ModelOf(binding)]
    BY <1>4 DEF CurrentSession
  <2>2. CurrentSession' = [epoch |-> prefix.epoch, messages |-> prefix.messages,
                           model |-> ModelOf(binding')]
    BY <1>4 DEF CurrentSession, Expired
  <2>3. ModelOf(binding') = ModelOf(binding) \/ ModelOf(binding') = None
    OBVIOUS
  <2>4. CASE ModelOf(binding') = ModelOf(binding)
    BY <2>1, <2>2, <2>4
  <2>5. CASE ModelOf(binding') = None
    <3>1. CurrentSession \in Session
      BY <1>1, <1>4, <2>1, TypeParts DEF StoreTypes, Prefix, Binding, Session, Model
    <3>2. CurrentSession # None
      BY <3>1, NoneAssumption
    <3>3. CurrentSession' = [CurrentSession EXCEPT !.model = None]
      BY <2>1, <2>2, <2>5
    <3> QED BY <3>2, <3>3 DEF Warm!Next, Warm!Unbind
  <2> QED BY <2>3, <2>4, <2>5
<1> QED BY <1>2, <1>3, <1>4

(* The steps of a task other than a publish that stores.                   *)
LEMMA TaskRefines ==
  ASSUME TypeOK, Redis, NEW t \in Tasks, Task(t), ~PublishScript(t)
  PROVE  [Warm!Next]_CurrentSession
<1>1. prefix' = prefix \/ prefix' = None
  BY DEF Task, CallPublish, CallChat, CallDelete, BindingFor, FindInMemory, Find, HGetAll, Lapse,
         Backfill, Touch, Load, DropBinding, RemoveBinding, PublishInMemory, Insert, Reread,
         Assemble, Delete, DeleteBinding, Fail, GetKey
<1>2. CASE Backfill(t) \/ Touch(t)
  <2>1. CASE binding = None
    BY <1>1, <1>2, <2>1, LossRefines DEF Backfill, Touch, Partial
  <2>2. CASE binding # None
    <3>1. binding \in Binding
      BY <2>2, TypeParts DEF StoreTypes
    <3>2. binding' \in Binding
      <4>1. CASE Touch(t)
        BY <2>2, <3>1, <4>1 DEF Touch
      <4>2. CASE Backfill(t)
        <5>1. call[t].seen \in Epochs
          BY <4>2, TypeParts, CallIsRecord DEF Backfill, CallFits, BindingPc
        <5> QED BY <2>2, <3>1, <4>2, <5>1 DEF Backfill, Binding
      <4> QED BY <1>2, <4>1, <4>2
    <3>3. binding'.model = binding.model
      BY <1>2, <2>2, <3>1 DEF Backfill, Touch, Binding
    <3> QED BY <1>1, <2>2, <3>2, <3>3, LossRefines, NoneAssumption
  <2> QED BY <2>1, <2>2
<1>3. ~Insert(t) /\ ~PublishInMemory(t)
  BY DEF Insert, PublishInMemory
<1>4. CASE binding' = binding \/ binding' = None
  <2>1. CASE binding' = None
    BY <1>1, <2>1, LossRefines
  <2>2. CASE binding' = binding
    BY <1>1, <2>2, LossRefines
  <2> QED BY <1>4, <2>1, <2>2
<1>5. Backfill(t) \/ Touch(t) \/ binding' = binding \/ binding' = None
  BY <1>3 DEF Task, CallPublish, CallChat, CallDelete, BindingFor, FindInMemory, Find, HGetAll, Lapse,
         Load, DropBinding, RemoveBinding, PublishInMemory, Reread, Assemble, Delete,
         DeleteBinding, Fail
<1> QED BY <1>2, <1>3, <1>4, <1>5

(* The publish script: what it checks and what it writes agree.            *)
LEMMA ScriptRefines ==
  ASSUME TypeOK, NEW t \in Tasks, PublishScript(t)
  PROVE  [Warm!Next]_CurrentSession
<1> DEFINE b == IF Expired THEN None ELSE binding
           m == call[t].model
           bound == IF m # None THEN m ELSE IF b # None THEN b.model ELSE None
           e == call[t].epoch
           messages == call[t].messages
<1>1. CASE UNCHANGED <<prefix, binding>>
  BY <1>1 DEF CurrentSession, Expired
<1>2. CASE /\ Accepts(e, messages)
           /\ ~Refused(t, b)
           /\ prefix' = Stored(t)
           /\ binding' = IF bound = None THEN b
                         ELSE [model |-> bound, epoch |-> e, created |-> "young"]
  <2>1. Stored(t) \in Prefix /\ m \in Model /\ e \in Epochs /\ messages \in Contents
    <3>1. call[t] \in Call /\ CallFits("store", call[t])
      BY TypeParts, CallIsRecord DEF PublishScript
    <3> QED BY <3>1, TypeParts, StoredIsPrefix DEF PublishScript, CallFits, PublishPc
  <2>2. bound \in Model
    BY <2>1, TypeParts DEF StoreTypes, Binding, Model
  <2>3. prefix' # None /\ ~Expired'
    BY <1>2, <2>1, NoneAssumption DEF Expired, Stored
  <2>4. (IF binding' = None THEN None ELSE binding'.model) = bound
    <3>1. CASE bound = None
      BY <1>2, <3>1
    <3>2. CASE bound # None
      <4>1. [model |-> bound, epoch |-> e, created |-> "young"] \in Binding
        BY <2>1, <2>2 DEF Binding, Age
      <4> QED BY <1>2, <3>2, <4>1, NoneAssumption
    <3> QED BY <3>1, <3>2
  <2>5. CurrentSession' = [epoch |-> e, messages |-> messages, model |-> bound]
    BY <1>2, <2>3, <2>4 DEF CurrentSession, Stored
  <2>6. CASE CurrentSession = None
    BY <2>1, <2>2, <2>5, <2>6 DEF Warm!Next, Warm!Publish, Warm!Bound, Warm!Model, Model
  <2>7. CASE CurrentSession # None
    <3>1. prefix # None /\ ~Expired /\ b = binding
      BY <2>7 DEF CurrentSession
    <3>2. CurrentSession = [epoch |-> prefix.epoch, messages |-> prefix.messages,
                            model |-> IF b = None THEN None ELSE b.model]
      BY <3>1 DEF CurrentSession
    <3>3. CurrentSession.model = None \/ CurrentSession.model = bound
      BY <1>2, <3>2 DEF Refused, Conflicting
    <3>4. CurrentSession.epoch < e
            \/ (CurrentSession.epoch = e /\ CurrentSession.messages = messages)
      BY <1>2, <3>1, <3>2, <2>1, TypeParts DEF Accepts, StoreTypes, Prefix, Epochs
    <3>5. Warm!Bound(bound) = bound
      BY <3>3 DEF Warm!Bound
    <3> QED BY <2>1, <2>2, <2>5, <3>4, <3>5 DEF Warm!Next, Warm!Publish, Warm!Model, Model
  <2> QED BY <2>6, <2>7
<1> QED BY <1>1, <1>2 DEF PublishScript

LEMMA RestRefines ==
  ASSUME TypeOK, Redis,
         (\E c \in Cleaners : Cleaner(c) \/ CleanupFails(c)) \/ Time \/ UNCHANGED vars
  PROVE  [Warm!Next]_CurrentSession
<1>1. \/ prefix' = prefix
      \/ prefix' = None
      \/ prefix # None /\ prefix' = [prefix EXCEPT !.created = "old"]
  BY DEF Cleaner, CleanupFails, PurgeStore, Scan, InspectInRedis, InspectInMemory, GetRemove,
         Remove, GetKey, Time, GrowOld, PrefixIdles, BindingIdles, vars
<1>2. \/ binding' = binding
      \/ binding' = None
      \/ binding # None /\ binding' = [binding EXCEPT !.created = "old"]
  BY DEF Cleaner, CleanupFails, PurgeStore, Scan, InspectInRedis, InspectInMemory, GetRemove,
         Remove, Time, GrowOld, PrefixIdles, BindingIdles, vars
<1>3. CASE binding # None /\ binding' = [binding EXCEPT !.created = "old"]
  <2>1. binding' \in Binding /\ binding'.model = binding.model
    BY <1>3, TypeParts DEF StoreTypes, Binding, Age
  <2> QED BY <1>1, <1>3, <2>1, LossRefines, NoneAssumption
<1>4. CASE binding' = None
  BY <1>1, <1>4, LossRefines
<1>5. CASE binding' = binding
  BY <1>1, <1>5, LossRefines
<1> QED BY <1>2, <1>3, <1>4, <1>5

(* With Redis the store implements the abstract session: atomic publishes, *)
(* monotonic epochs, one content for each epoch, one model for a session,  *)
(* whatever is interleaved, fails half-way or expires.                     *)
THEOREM WarmSessionImplemented ==
  ASSUME Redis
  PROVE  Spec => ImplementsWarmSession
<1>1. Init => Warm!Init
  BY DEF Init, Warm!Init, CurrentSession
<1>2. TypeOK /\ [Next]_vars => [Warm!Next]_CurrentSession
  BY TaskRefines, ScriptRefines, RestRefines DEF Next
<1> QED BY <1>1, <1>2, WarmTypeCorrect, PTL DEF Spec, ImplementsWarmSession, Warm!Spec

(* With Redis a session that a request finds bound to a model, and that    *)
(* the next one still finds, has the same model or has lost its binding:   *)
(* no step replaces a session's model by another one.                      *)
THEOREM ModelsAreKept ==
  ASSUME Redis
  PROVE  Spec => [][ CurrentSession # None /\ CurrentSession' # None =>
                       CurrentSession.model = None
                         \/ CurrentSession'.model \in {CurrentSession.model, None}
                   ]_CurrentSession
<1> DEFINE Kept == CurrentSession # None /\ CurrentSession' # None =>
                     CurrentSession.model = None
                       \/ CurrentSession'.model \in {CurrentSession.model, None}
<1>1. [Warm!Next]_CurrentSession => [Kept]_CurrentSession
  <2> SUFFICES ASSUME Warm!Next, CurrentSession # None, CurrentSession' # None,
                      CurrentSession.model # None
               PROVE  CurrentSession'.model \in {CurrentSession.model, None}
    OBVIOUS
  <2>1. CASE \E e \in Epochs, messages \in Contents, m \in Warm!Model :
               Warm!Publish(e, messages, m)
    BY <2>1 DEF Warm!Publish, Warm!Bound
  <2>2. CASE Warm!Unbind
    <3>1. CurrentSession = [epoch |-> CurrentSession.epoch,
                            messages |-> CurrentSession.messages,
                            model |-> CurrentSession.model]
      BY DEF CurrentSession
    <3> QED  BY <2>2, <3>1 DEF Warm!Unbind
  <2>3. ~Warm!Drop
    BY DEF Warm!Drop
  <2> QED  BY <2>1, <2>2, <2>3 DEF Warm!Next
<1> QED  BY <1>1, WarmSessionImplemented, PTL DEF ImplementsWarmSession, Warm!Spec

----------------------------------------------------------------------------
(* The prefix by itself, with either store.                                *)

(* What a request sees of the prefix.                                      *)
CurrentPrefix ==
  IF prefix = None \/ Expired THEN None
  ELSE [epoch |-> prefix.epoch, messages |-> prefix.messages, model |-> None]

(* A session that is never bound to a model.                               *)
Content == INSTANCE WarmSession WITH session <- CurrentPrefix, Models <- {}

(* Every step leaves the prefix, ages it, loses it or publishes one.       *)
LEMMA PrefixSteps ==
  ASSUME [Next]_vars
  PROVE  \/ prefix' = prefix
         \/ prefix' = None
         \/ prefix # None /\ prefix' = [prefix EXCEPT !.created = "old"]
         \/ \E t \in Tasks : /\ pc[t] = "store"
                             /\ Accepts(call[t].epoch, call[t].messages)
                             /\ prefix' = Stored(t)
<1>1. ASSUME NEW t \in Tasks, Task(t), ~PublishScript(t), ~PublishInMemory(t)
      PROVE  prefix' = prefix \/ prefix' = None
  BY <1>1 DEF Task, CallPublish, CallChat, CallDelete, BindingFor, FindInMemory, Find, HGetAll,
              Lapse, Backfill, Touch, Load, DropBinding, RemoveBinding, Insert, Reread,
              Assemble, Delete, DeleteBinding, Fail, GetKey
<1>2. ASSUME NEW t \in Tasks, PublishScript(t) \/ PublishInMemory(t)
      PROVE  \/ prefix' = prefix
             \/ /\ pc[t] = "store"
                /\ Accepts(call[t].epoch, call[t].messages)
                /\ prefix' = Stored(t)
  BY <1>2 DEF PublishScript, PublishInMemory
<1>3. CASE (\E c \in Cleaners : Cleaner(c) \/ CleanupFails(c)) \/ Time \/ UNCHANGED vars
  BY <1>3 DEF Cleaner, CleanupFails, PurgeStore, Scan, InspectInRedis, InspectInMemory,
              GetRemove, Remove, GetKey, Time, GrowOld, PrefixIdles, BindingIdles, vars
<1> QED  BY <1>1, <1>2, <1>3 DEF Next

(* With either store, however publishes, chats, deletes and cleanups       *)
(* interleave: the prefix that a request finds is one session whose        *)
(* publishes are atomic, whose epoch does not go back and whose content    *)
(* does not change within an epoch, until it is deleted or expires.  In    *)
(* memory this is all that holds: the binding is written in a later step.  *)
THEOREM PrefixImplementsSession == Spec => Content!Spec
<1>1. Init => Content!Init
  BY DEF Init, Content!Init, CurrentPrefix
<1>2. TypeOK /\ [Next]_vars => [Content!Next]_CurrentPrefix
  <2> SUFFICES ASSUME TypeOK, [Next]_vars
               PROVE  [Content!Next]_CurrentPrefix
    OBVIOUS
  <2>1. prefix \in Prefix \cup {None} /\ None \notin Prefix
    BY TypeParts, NoneAssumption DEF StoreTypes
  <2>2. CASE prefix' = prefix
    BY <2>2 DEF CurrentPrefix, Expired
  <2>3. CASE prefix' = None \/ (prefix # None /\ prefix' = [prefix EXCEPT !.created = "old"])
    <3>1. CurrentPrefix' = None
      BY <2>1, <2>3 DEF CurrentPrefix, Expired, Prefix
    <3> QED  BY <3>1 DEF Content!Next, Content!Drop
  <2>4. ASSUME NEW t \in Tasks, pc[t] = "store",
               Accepts(call[t].epoch, call[t].messages), prefix' = Stored(t)
        PROVE  Content!Next
    <3>1. Stored(t) \in Prefix /\ call[t].epoch \in Epochs /\ call[t].messages \in Contents
      <4>1. call[t] \in Call /\ CallFits("store", call[t])
        BY <2>4, TypeParts, CallIsRecord
      <4> QED  BY <2>4, <4>1, TypeParts, StoredIsPrefix DEF CallFits, PublishPc
    <3>2. CurrentPrefix' = [epoch |-> call[t].epoch, messages |-> call[t].messages, model |-> None]
      BY <2>1, <2>4, <3>1 DEF CurrentPrefix, Expired, Stored
    <3>3. None \in Content!Model /\ Content!Bound(None) = None
      BY DEF Content!Model, Content!Bound, CurrentPrefix
    <3>4. \/ CurrentPrefix = None
          \/ CurrentPrefix.epoch < call[t].epoch
          \/ CurrentPrefix.epoch = call[t].epoch /\ CurrentPrefix.messages = call[t].messages
      BY <2>1, <2>4, <3>1 DEF CurrentPrefix, Accepts, Prefix, Epochs
    <3>5. Content!Publish(call[t].epoch, call[t].messages, None)
      BY <3>2, <3>3, <3>4 DEF Content!Publish
    <3> QED  BY <3>1, <3>3, <3>5 DEF Content!Next
  <2> QED  BY <2>2, <2>3, <2>4, PrefixSteps
<1> QED  BY <1>1, <1>2, WarmTypeCorrect, PTL DEF Spec, Content!Spec
=============================================================================
