------------------------------- MODULE Calls -------------------------------
(***************************************************************************)
(* What the controller (src/src/p2p/controller.rs) promises its callers,   *)
(* and the handlers of src/src/grpc/mod.rs and the verifier rely on: a     *)
(* call is answered at most once, only while its caller waits, an answer   *)
(* does not change until the caller returns or is cancelled, and nothing   *)
(* is answered after the loop of the swarm has ended.                      *)
(***************************************************************************)
CONSTANT Callers

VARIABLES running,  \* the swarm's loop
          waiting,  \* the callers whose call has not returned
          given     \* the answer of each caller's last call

vars == <<running, waiting, given>>

Init == /\ running = TRUE
        /\ waiting = {}
        /\ given = [c \in Callers |-> "none"]

Call(c) == /\ running /\ c \notin waiting
           /\ waiting' = waiting \cup {c}
           /\ given' = [given EXCEPT ![c] = "none"]
           /\ UNCHANGED running

GiveAnswer(c) == /\ running /\ c \in waiting /\ given[c] = "none"
                 /\ \E result \in {"ok", "err"} : given' = [given EXCEPT ![c] = result]
                 /\ UNCHANGED <<running, waiting>>

\* A call returns with its answer, or is cancelled.
Leave(c) == /\ running /\ c \in waiting
            /\ waiting' = waiting \ {c}
            /\ UNCHANGED <<running, given>>

End == /\ running /\ running' = FALSE
       /\ UNCHANGED <<waiting, given>>

Next == End \/ \E c \in Callers : Call(c) \/ GiveAnswer(c) \/ Leave(c)

Spec == Init /\ [][Next]_vars
=============================================================================
