---------------------------- MODULE WarmSession ----------------------------
(***************************************************************************)
(* What a client of the Warm API may rely on, for one session: publishing  *)
(* is atomic, an epoch never goes back and never changes its content, and  *)
(* a session that is bound to a Virtual Model stays bound to it until the  *)
(* binding or the session is gone.                                         *)
(***************************************************************************)
EXTENDS Integers

CONSTANTS Epochs, Contents, Models, None

VARIABLE session   (* None, or the record [epoch, messages, model].        *)

Model == Models \cup {None}
Session == [epoch: Epochs, messages: Contents, model: Model]

(* The model after a publish that names m, or names none (m = None).       *)
Bound(m) ==
  IF session = None \/ session.model = None THEN m ELSE session.model

(* A new session, a newer epoch, or the same epoch once more.              *)
Publish(e, messages, m) ==
  /\ \/ session = None
     \/ session.epoch < e
     \/ session.epoch = e /\ session.messages = messages
  /\ session' = [epoch |-> e, messages |-> messages, model |-> Bound(m)]

(* The binding lapses before the prefix does.                              *)
Unbind ==
  /\ session # None
  /\ session' = [session EXCEPT !.model = None]

(* The session is deleted or expires.                                      *)
Drop ==
  /\ session # None
  /\ session' = None

Init == session = None

Next ==
  \/ \E e \in Epochs, messages \in Contents, m \in Model : Publish(e, messages, m)
  \/ Unbind
  \/ Drop

Spec == Init /\ [][Next]_session
=============================================================================
