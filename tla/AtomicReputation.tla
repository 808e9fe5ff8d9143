-------------------------- MODULE AtomicReputation --------------------------
(***************************************************************************)
(* What increase_reputation promises to concurrent callers: the table of   *)
(* reputations changes only by adding the amount of one call to the peer   *)
(* of that call, in one step, and at most once per call.                   *)
(***************************************************************************)
EXTENDS Integers

CONSTANTS Nodes,   \* the callers
          Peers,   \* the peers that have a reputation
          Amounts  \* the amounts reputation is changed by

VARIABLES reputation, job, applied

vars == <<reputation, job, applied>>

Jobs == [peer : Peers, amount : Amounts]

Init == /\ reputation = [p \in Peers |-> 0]
        /\ job \in [Nodes -> Jobs]
        /\ applied = [n \in Nodes |-> FALSE]

\* Node n calls increase_reputation with new arguments.
Begin(n) == /\ \E j \in Jobs : job' = [job EXCEPT ![n] = j]
            /\ applied' = [applied EXCEPT ![n] = FALSE]
            /\ UNCHANGED reputation

\* The call of node n takes effect.
TakeEffect(n) == /\ ~applied[n]
                 /\ reputation' = [reputation EXCEPT ![job[n].peer] = @ + job[n].amount]
                 /\ applied' = [applied EXCEPT ![n] = TRUE]
                 /\ UNCHANGED job

Next == \E n \in Nodes : Begin(n) \/ TakeEffect(n)

Spec == Init /\ [][Next]_vars
=============================================================================
