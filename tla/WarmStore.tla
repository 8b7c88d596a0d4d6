----------------------------- MODULE WarmStore -----------------------------
(***************************************************************************)
(* The Warm session store of src/src/warm/mod.rs, for one session key: the *)
(* published prefix (kept by UniGateway's session store, external) and the *)
(* Virtual Model binding that SmartGate keeps beside it, in a map of the   *)
(* process or in Redis.                                                    *)
(*                                                                         *)
(* A task is one API call: a publish, a chat with a Warm context, or a     *)
(* delete; a cleaner is the cleanup loop of one server.  Each command sent *)
(* to Redis, and each time the map is locked, is one action: between two   *)
(* of them every other task may run, on this replica or on another one.    *)
(*                                                                         *)
(* A definition named Faulty<Name> is a wrong variant of <Name>: no action *)
(* refers to it, it documents a fault that the properties notice.          *)
(***************************************************************************)
EXTENDS Integers

CONSTANTS
  Tasks,      (* API calls that can be under way at the same time.         *)
  Cleaners,   (* Servers that run the cleanup loop.                        *)
  Models,     (* Virtual Models.                                           *)
  Contents,   (* Message lists; equal elements have equal fingerprints.    *)
  MaxEpoch,   (* Bound: epochs are 1..MaxEpoch.                            *)
  Redis,      (* binding_store.is_some().                                  *)
  None        (* An absent value (Rust's None, a missing Redis field).     *)

Epochs == 1..MaxEpoch
Model == Models \cup {None}

ASSUME WarmAssumption ==
  /\ Tasks \cap Cleaners = {}
  /\ MaxEpoch \in Nat
  /\ Redis \in BOOLEAN

VARIABLES
  prefix,    (* The stored prefix, None if there is none.  "publisher" is  *)
             (* history: the Virtual Model it was published for.           *)
  binding,   (* The binding entry.  In Redis a hash, each field of which   *)
             (* may be missing; in memory only its model matters.          *)
  pc,        (* Where each task and each cleaner is.                       *)
  call       (* What each task was called with and has read so far.        *)

vars == <<prefix, binding, pc, call>>

(* created_at against max_lifetime.                                        *)
Age == {"young", "old"}

Prefix == [epoch: Epochs, messages: Contents, created: Age, publisher: Model]
Binding == [model: Model, epoch: Epochs \cup {None}, created: Age \cup {None}]
Call == [op: {"publish", "chat", "delete"}, epoch: Epochs \cup {None},
         messages: Contents \cup {None}, model: Model,
         seen: Epochs \cup {None}, bound: Model]

(* What a request sees of the two entries.                                 *)
Session == [epoch: Epochs, messages: Contents, model: Model]

ASSUME NoneAssumption ==
  /\ None \notin Models /\ None \notin Contents /\ None \notin Epochs
  /\ None \notin Prefix /\ None \notin Binding /\ None \notin Call
  /\ None \notin Session

TaskPc == {"idle", "find", "hgetall", "lapse", "backfill", "touch",
           "load", "drop_binding", "store", "insert", "reread",
           "assemble", "delete", "delete_binding"}
CleanerPc == {"idle", "scan", "inspect", "get_remove", "remove"}

Publishing(t) ==
  \/ pc[t] \in {"load", "drop_binding", "store", "insert"}
  \/ pc[t] \in {"find", "hgetall", "lapse", "backfill", "touch"} /\ call[t].op = "publish"

(* Every command of binding_for on the binding knows the epoch it expects, *)
(* and a publish knows what it stores until it has.                        *)
TypeOK ==
  /\ prefix \in Prefix \cup {None}
  /\ binding \in Binding \cup {None}
  /\ pc \in [Tasks \cup Cleaners -> TaskPc \cup CleanerPc]
  /\ call \in [Tasks -> Call \cup {None}]
  /\ \A t \in Tasks : (pc[t] = "idle") = (call[t] = None)
  /\ \A t \in Tasks :
       pc[t] \in {"hgetall", "lapse", "backfill", "touch"} => call[t].seen \in Epochs
  /\ \A t \in Tasks :
       Publishing(t) => call[t].epoch \in Epochs /\ call[t].messages \in Contents

----------------------------------------------------------------------------
(* The external session store.                                             *)

Expired == prefix # None /\ prefix.created = "old"

(* get_key: an expired entry answers SessionError::Expired, and may be     *)
(* gone after it.                                                          *)
GetKey == \/ UNCHANGED prefix
          \/ Expired /\ prefix' = None

(* The rule of publish_key, and of the publish script.                     *)
Accepts(e, messages) ==
  prefix # None /\ ~Expired =>
    e > prefix.epoch \/ (e = prefix.epoch /\ messages = prefix.messages)

----------------------------------------------------------------------------
(* A task.                                                                 *)

Goto(t, label) == pc' = [pc EXCEPT ![t] = label]
Return(t) == Goto(t, "idle") /\ call' = [call EXCEPT ![t] = None]

Conflicting(m, n) == m # None /\ n # None /\ m # n

NewCall(t, op, e, messages, m) ==
  call' = [call EXCEPT ![t] = [op |-> op, epoch |-> e, messages |-> messages,
                               model |-> m, seen |-> None, bound |-> None]]

(* The publish is done; what it was called with does not matter any more.  *)
Answer(t) == Goto(t, "reread") /\ NewCall(t, "publish", None, None, None)

(* POST publish and a chat both start with binding_for.                    *)
CallPublish(t) ==
  /\ pc[t] = "idle"
  /\ \E e \in Epochs, messages \in Contents, m \in Model :
       NewCall(t, "publish", e, messages, m)
  /\ Goto(t, "find")
  /\ UNCHANGED <<prefix, binding>>

CallChat(t) ==
  /\ pc[t] = "idle"
  /\ \E e \in Epochs, m \in Models : NewCall(t, "chat", e, None, m)
  /\ Goto(t, "find")
  /\ UNCHANGED <<prefix, binding>>

CallDelete(t) ==
  /\ pc[t] = "idle"
  /\ NewCall(t, "delete", None, None, None)
  /\ Goto(t, "delete")
  /\ UNCHANGED <<prefix, binding>>

(* The answer m of binding_for, compared with the model of the request.    *)
(* From here on the call goes by input.virtual_model_id.or(m).             *)
Bind(t, m) ==
  \/ Conflicting(m, call[t].model) /\ Return(t)
  \/ /\ ~Conflicting(m, call[t].model)
     /\ Goto(t, IF call[t].op = "publish" THEN "load" ELSE "assemble")
     /\ call' = [call EXCEPT ![t].seen = None, ![t].bound = None,
                             ![t].model = IF @ = None THEN m ELSE @]

(* binding_for in memory: one look at the map.                             *)
FindInMemory(t) ==
  /\ ~Redis
  /\ pc[t] = "find"
  /\ Bind(t, IF binding = None THEN None ELSE binding.model)
  /\ UNCHANGED <<prefix, binding>>

FaultyFind(t) ==
  /\ Redis
  /\ pc[t] = "find"
  /\ \/ Expired /\ Return(t)
     \/ ~Expired /\ Goto(t, "hgetall")
        /\ call' = [call EXCEPT ![t].seen = IF prefix = None THEN None ELSE prefix.epoch]
  /\ GetKey
  /\ UNCHANGED binding

(* binding_for with Redis: no prefix, no binding; an expired prefix is an  *)
(* error; otherwise the binding is read, expecting the epoch of the prefix.*)
Find(t) ==
  /\ Redis
  /\ pc[t] = "find"
  /\ \/ prefix = None /\ Bind(t, None)
     \/ Expired /\ Return(t)
     \/ /\ prefix # None /\ ~Expired
        /\ Goto(t, "hgetall")
        /\ call' = [call EXCEPT ![t].seen = prefix.epoch]
  /\ GetKey
  /\ UNCHANGED binding

(* RedisBindingStore::get, one action for each command.  A chat refuses a  *)
(* binding of another epoch, a publish does not.                           *)
HGetAll(t) ==
  /\ pc[t] = "hgetall"
  /\ IF binding = None THEN Bind(t, None)
     ELSE \/ binding.created = "old" /\ Goto(t, "lapse") /\ UNCHANGED call
          \/ /\ binding.created # "old" /\ binding.epoch = None
             /\ Goto(t, "backfill")
             /\ call' = [call EXCEPT ![t].bound = binding.model]
          \/ /\ binding.created # "old" /\ binding.epoch # None
             /\ IF call[t].op = "chat" /\ binding.epoch # call[t].seen THEN Return(t)
                ELSE IF binding.model = None THEN Bind(t, None)
                ELSE Goto(t, "touch") /\ call' = [call EXCEPT ![t].bound = binding.model]
  /\ UNCHANGED <<prefix, binding>>

(* DEL of a binding past its lifetime.                                     *)
Lapse(t) ==
  /\ pc[t] = "lapse"
  /\ binding' = None
  /\ Bind(t, None)
  /\ UNCHANGED prefix

(* HSET on a hash that may be gone by now creates it with one field.       *)
Partial(e) == [model |-> None, epoch |-> e, created |-> None]

Backfill(t) ==
  /\ pc[t] = "backfill"
  /\ binding' = IF binding = None THEN Partial(call[t].seen)
                ELSE [binding EXCEPT !.epoch = call[t].seen]
  /\ IF call[t].bound = None THEN Bind(t, None) ELSE Goto(t, "touch") /\ UNCHANGED call
  /\ UNCHANGED prefix

(* EXPIRE, which needs an existing hash, and HSET last_accessed_at.        *)
Touch(t) ==
  /\ pc[t] = "touch"
  /\ binding' = IF binding = None THEN Partial(None) ELSE binding
  /\ Bind(t, call[t].bound)
  /\ UNCHANGED prefix

(* publish, after the comparison: the prefix is read again, and an expired *)
(* one takes the binding with it.                                          *)
Load(t) ==
  /\ pc[t] = "load"
  /\ Goto(t, IF Expired THEN "drop_binding" ELSE "store")
  /\ GetKey
  /\ UNCHANGED <<binding, call>>

(* remove_binding; in Redis the delete script removes both keys.           *)
RemoveBinding ==
  /\ binding' = None
  /\ IF Redis THEN prefix' = None ELSE UNCHANGED prefix

DropBinding(t) ==
  /\ pc[t] = "drop_binding"
  /\ RemoveBinding
  /\ Goto(t, "store")
  /\ UNCHANGED call

Stored(t) ==
  [epoch |-> call[t].epoch, messages |-> call[t].messages, created |-> "young",
   publisher |-> call[t].model]

(* The memory store's publish_key; the binding follows in a step of its    *)
(* own.  A prefix over the size limits is rejected before.                 *)
PublishInMemory(t) ==
  /\ ~Redis
  /\ pc[t] = "store"
  /\ \/ /\ Accepts(call[t].epoch, call[t].messages)
        /\ prefix' = Stored(t)
        /\ IF call[t].model = None THEN Answer(t) ELSE Goto(t, "insert") /\ UNCHANGED call
     \/ Return(t) /\ UNCHANGED prefix
  /\ UNCHANGED binding

(* virtual_models.insert.                                                  *)
Insert(t) ==
  /\ ~Redis
  /\ pc[t] = "insert"
  /\ binding' = [model |-> call[t].model, epoch |-> None, created |-> None]
  /\ Answer(t)
  /\ UNCHANGED prefix

FaultyRefused(t, b) == FALSE

(* What the script answers with -3: the session is bound to another model. *)
Refused(t, b) == b # None /\ Conflicting(b.model, call[t].model)

(* The publish script: an expired session loses both keys first, then the  *)
(* prefix and the binding are checked and written together.                *)
PublishScript(t) ==
  /\ Redis
  /\ pc[t] = "store"
  /\ LET b == IF Expired THEN None ELSE binding
         bound == IF call[t].model # None THEN call[t].model
                  ELSE IF b # None THEN b.model ELSE None
     IN  \/ /\ Accepts(call[t].epoch, call[t].messages)
            /\ ~Refused(t, b)
            /\ prefix' = Stored(t)
            /\ binding' = IF bound = None THEN b
                          ELSE [model |-> bound, epoch |-> call[t].epoch, created |-> "young"]
            /\ Answer(t)
         \/ Return(t) /\ UNCHANGED <<prefix, binding>>

(* The snapshot for the response is read back.                             *)
Reread(t) ==
  /\ pc[t] = "reread"
  /\ Return(t)
  /\ GetKey
  /\ UNCHANGED binding

(* DeltaAssemblyMiddleware: the prefix of the epoch that the request names,*)
(* or no prefix (a full request, or a refused delta).                      *)
Assemble(t) ==
  /\ pc[t] = "assemble"
  /\ Return(t)
  /\ GetKey
  /\ UNCHANGED binding

Assembled(t) ==
  pc[t] = "assemble" /\ Assemble(t) /\ prefix # None /\ ~Expired
    /\ prefix.epoch = call[t].epoch

(* DELETE: in memory the prefix and then the binding, in Redis one script. *)
Delete(t) ==
  /\ pc[t] = "delete"
  /\ prefix' = None
  /\ IF Redis THEN binding' = None /\ Return(t)
     ELSE Goto(t, "delete_binding") /\ UNCHANGED <<binding, call>>

DeleteBinding(t) ==
  /\ pc[t] = "delete_binding"
  /\ binding' = None
  /\ Return(t)
  /\ UNCHANGED prefix

(* Redis does not answer, or the client goes away and the future is        *)
(* dropped; the last command may have been executed all the same.          *)
Fail(t) ==
  /\ Redis
  /\ pc[t] # "idle"
  /\ Return(t)
  /\ UNCHANGED <<prefix, binding>>

----------------------------------------------------------------------------
(* The cleanup loop.                                                       *)

(* purge_expired of the session store.                                     *)
PurgeStore(c) ==
  /\ pc[c] = "idle"
  /\ prefix' = IF Expired THEN None ELSE prefix
  /\ Goto(c, "scan")
  /\ UNCHANGED <<binding, call>>

FaultyListed == prefix # None

(* The session is among the keys of the map, or of the SCAN.               *)
Listed == binding # None

Scan(c) ==
  /\ pc[c] = "scan"
  /\ Goto(c, IF Listed THEN "inspect" ELSE "idle")
  /\ UNCHANGED <<prefix, binding, call>>

(* Redis: HGET created_at.                                                 *)
InspectInRedis(c) ==
  /\ Redis
  /\ pc[c] = "inspect"
  /\ Goto(c, IF binding # None /\ binding.created = "old" THEN "remove" ELSE "idle")
  /\ UNCHANGED <<prefix, binding, call>>

(* Memory: self.get, which removes the binding of a session that is over.  *)
InspectInMemory(c) ==
  /\ ~Redis
  /\ pc[c] = "inspect"
  /\ Goto(c, IF prefix = None \/ Expired THEN "get_remove" ELSE "idle")
  /\ GetKey
  /\ UNCHANGED <<binding, call>>

GetRemove(c) ==
  /\ pc[c] = "get_remove"
  /\ binding' = None
  /\ Goto(c, "remove")
  /\ UNCHANGED <<prefix, call>>

(* DEL of the binding, or bindings.remove for all that were found over.    *)
Remove(c) ==
  /\ pc[c] = "remove"
  /\ binding' = None
  /\ Goto(c, "idle")
  /\ UNCHANGED <<prefix, call>>

CleanupFails(c) ==
  /\ Redis
  /\ pc[c] # "idle"
  /\ Goto(c, "idle")
  /\ UNCHANGED <<prefix, binding, call>>

----------------------------------------------------------------------------
(* Time.                                                                   *)

(* max_lifetime passes; a publish stamps both entries with the same time.  *)
GrowOld ==
  /\ prefix' = IF prefix = None THEN None ELSE [prefix EXCEPT !.created = "old"]
  /\ binding' = IF binding = None \/ binding.created = None THEN binding
                ELSE [binding EXCEPT !.created = "old"]
  /\ UNCHANGED <<pc, call>>

(* The idle TTL of either Redis key runs out.  A hash without a model was  *)
(* created by HSET and has no TTL.                                         *)
PrefixIdles ==
  /\ Redis /\ prefix # None
  /\ prefix' = None
  /\ UNCHANGED <<binding, pc, call>>

BindingIdles ==
  /\ Redis /\ binding # None /\ binding.model # None
  /\ binding' = None
  /\ UNCHANGED <<prefix, pc, call>>

----------------------------------------------------------------------------

BindingFor(t) ==
  FindInMemory(t) \/ Find(t) \/ HGetAll(t) \/ Lapse(t) \/ Backfill(t) \/ Touch(t)

Task(t) ==
  \/ CallPublish(t) \/ CallChat(t) \/ CallDelete(t) \/ BindingFor(t)
  \/ Load(t) \/ DropBinding(t) \/ PublishInMemory(t) \/ Insert(t)
  \/ PublishScript(t) \/ Reread(t) \/ Assemble(t)
  \/ Delete(t) \/ DeleteBinding(t) \/ Fail(t)

Cleaner(c) ==
  \/ PurgeStore(c) \/ Scan(c) \/ InspectInRedis(c) \/ InspectInMemory(c)
  \/ GetRemove(c) \/ Remove(c)

Time == GrowOld \/ PrefixIdles \/ BindingIdles

Init ==
  /\ prefix = None
  /\ binding = None
  /\ pc = [a \in Tasks \cup Cleaners |-> "idle"]
  /\ call = [t \in Tasks |-> None]

Next ==
  \/ \E t \in Tasks : Task(t)
  \/ \E c \in Cleaners : Cleaner(c) \/ CleanupFails(c)
  \/ Time

Spec == Init /\ [][Next]_vars

(* The cleanup task runs at every tick of its interval, for as long as the *)
(* server does.                                                            *)
FairSpec == Spec /\ \A c \in Cleaners : WF_vars(Cleaner(c))

----------------------------------------------------------------------------
(* Properties.                                                             *)

(* The session as the next request finds it.                               *)
CurrentSession ==
  IF prefix = None \/ Expired THEN None
  ELSE [epoch |-> prefix.epoch, messages |-> prefix.messages,
        model |-> IF binding = None THEN None ELSE binding.model]

(* With Redis, prefix and binding behave as one session with atomic        *)
(* publishes: however binding_for, the script, the cleanup and the TTLs    *)
(* interleave, epochs do not go back, an epoch keeps its content, and the  *)
(* session changes its model only by losing it first.                      *)
Warm == INSTANCE WarmSession WITH session <- CurrentSession

ImplementsWarmSession == Warm!Spec

(* The cleanup reaches every binding whose session is over ("Removes       *)
(* expired snapshots and their SmartGate-only model bindings").            *)
NoOrphanBinding ==
  LET orphan == binding # None /\ (prefix = None \/ Expired)
  IN  orphan ~> ~orphan

(* "The cleanup task only removes expired sessions."                       *)
CleanupOnlyExpired ==
  [][ \A c \in Cleaners :
        Cleaner(c) /\ pc[c] # "idle" /\ binding # None /\ binding' = None
          => prefix = None \/ Expired \/ binding.created = "old" ]_vars

(* "Different models must not share a prefix or KV state by accident": a   *)
(* delta is never assembled on a prefix that was published for another     *)
(* model than the request's.                                               *)
DeltaUsesOwnModel ==
  [][ \A t \in Tasks :
        Assembled(t) => ~Conflicting(prefix.publisher, call[t].model) ]_vars

(* "an accepted Redis publish cannot expose a new prefix with an old       *)
(* binding".                                                               *)
NoOldBinding ==
  prefix # None /\ binding # None =>
    binding.epoch = None \/ binding.epoch >= prefix.epoch
=============================================================================
