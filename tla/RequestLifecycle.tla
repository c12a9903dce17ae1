-------------------------- MODULE RequestLifecycle --------------------------
(***************************************************************************)
(* What a request engine (EasyHttpInterface) promises its owner, with no   *)
(* threads and no queues in it.  A request that was sent is called back    *)
(* exactly once, unless the engine's requests were forgotten first, in     *)
(* which case it is dropped without a callback; and an engine that was     *)
(* destroyed owes nothing.  The owner is told neither the order nor the    *)
(* moment.                                                                 *)
(***************************************************************************)
CONSTANT Request

VARIABLES
    status,   \* "unsent", "active", "forgotten", "called" or "dropped"
    engine    \* "open", "abandoned" (its requests were forgotten) or "gone"

vars == <<status, engine>>

Init ==
    /\ status = [r \in Request |-> "unsent"]
    /\ engine = "open"

Send(r) ==
    /\ engine = "open"
    /\ status[r] = "unsent"
    /\ status' = [status EXCEPT ![r] = "active"]
    /\ UNCHANGED engine

\* on_complete is called.
Call(r) ==
    /\ status[r] = "active"
    /\ status' = [status EXCEPT ![r] = "called"]
    /\ UNCHANGED engine

\* A forgotten request comes to its end in silence.
Drop(r) ==
    /\ status[r] = "forgotten"
    /\ status' = [status EXCEPT ![r] = "dropped"]
    /\ UNCHANGED engine

ForgetAll ==
    /\ engine = "open"
    /\ engine' = "abandoned"
    /\ status' = [r \in Request |-> IF status[r] = "active" THEN "forgotten"
                                                            ELSE status[r]]

Destroy ==
    /\ engine # "gone"
    /\ \A r \in Request : status[r] \notin {"active", "forgotten"}
    /\ engine' = "gone"
    /\ UNCHANGED status

Next ==
    \/ \E r \in Request : Send(r) \/ Call(r) \/ Drop(r)
    \/ ForgetAll
    \/ Destroy

Spec == Init /\ [][Next]_vars
=============================================================================
