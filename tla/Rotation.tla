------------------------------ MODULE Rotation ------------------------------
(***************************************************************************)
(* The rotation of the verifiers over the file key space                   *)
(* (src/src/verifier/mod.rs).  In every cycle a verifier audits the files  *)
(* whose uuid lies in its current window, then next_iteration moves the    *)
(* window on.  Every verifier starts from the same window and moves at its *)
(* own pace.                                                               *)
(***************************************************************************)
EXTENDS KeySpace

CONSTANT Verifiers  \* the nodes that run a verifier

VARIABLES window,  \* the fields iteration, starting_uuid, ending_uuid of each verifier
          covered  \* history: the uuids in the windows of the verifier's current round

rotationVars == <<window, covered>>

Init == /\ window = [v \in Verifiers |-> FirstWindow]
        /\ covered = [v \in Verifiers |-> UuidsOf(FirstWindow)]

\* A cycle of verifier v ends: it moves to its next window.  A new round
\* begins when the iteration is set back to 0.
NextIteration(v) ==
  LET next == NextWindow(window[v]) IN
  /\ window' = [window EXCEPT ![v] = next]
  /\ covered' = [covered EXCEPT ![v] =
       UuidsOf(next) \cup (IF next.iteration = 0 THEN {} ELSE covered[v])]

Next == \E v \in Verifiers : NextIteration(v)

Moves == Init /\ [][Next]_rotationVars

\* A verifier's loop sleeps until its next cycle begins, and goes on.
Spec == /\ Moves
        /\ \A v \in Verifiers : WF_rotationVars(NextIteration(v))

-----------------------------------------------------------------------------
(* The fields keep their ranges: the iteration stays within 0 .. NUM_PEERS. *)
RotationTypeOK == /\ window \in [Verifiers -> Window]
                  /\ covered \in [Verifiers -> SUBSET Uuid]

(* A round leaves out no file: when a verifier reaches the part its round   *)
(* ends with, the windows of the round have held every uuid, the remainder  *)
(* of the division by NUM_PEERS included.                                   *)
RoundCoversKeySpace ==
  \A v \in Verifiers : window[v].iteration = NUM_PEERS => covered[v] = Uuid

(* The sums of next_iteration stay within u128, so no window wraps around:  *)
(* the start moves on by Share without overflow, and so does the end unless *)
(* it is set to u128::MAX.                                                  *)
NoWrapAround ==
  \A v \in Verifiers :
    LET w == window[v] IN
    /\ w.starting_uuid <= w.ending_uuid
    /\ ~RoundEnds(w.iteration) => w.starting_uuid + Share <= MaxUuid
    /\ w.iteration + 1 < NUM_PEERS => w.starting_uuid + Share + Share <= MaxUuid

(* Consecutive windows of a verifier meet in exactly one uuid: within a     *)
(* round a file is audited twice only where two parts touch.                *)
WindowsMeetInOneUuid ==
  [][\A v \in Verifiers :
       window'[v] # window[v] /\ window'[v].iteration # 0
         => UuidsOf(window[v]) \cap UuidsOf(window'[v])
              = {window'[v].starting_uuid}]_rotationVars

(* No file is forgotten: every verifier audits every uuid again and again.  *)
EveryUuidAuditedAgain ==
  \A v \in Verifiers, u \in Uuid : []<>(u \in UuidsOf(window[v]))
=============================================================================
