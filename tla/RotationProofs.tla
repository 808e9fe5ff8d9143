--------------------------- MODULE RotationProofs ---------------------------
(***************************************************************************)
(* Proofs about the rotation of the verifiers, for every number of peers   *)
(* and every size of the key space, u128::MAX included.                    *)
(***************************************************************************)
EXTENDS Rotation, KeySpaceProofs

(* The inductive invariant of the rotation. *)
RotationInv == /\ RotationTypeOK
               /\ \A v \in Verifiers : WindowInv(window[v], covered[v])

-----------------------------------------------------------------------------
(* The constructor of the verifier establishes the invariant and every      *)
(* next_iteration keeps it.                                                 *)
THEOREM RotationInvariant == Spec => []RotationInv
<1>1. Init => RotationInv
  <2>1. FirstWindow \in Window /\ UuidsOf(FirstWindow) \subseteq Uuid
    BY FirstWindowInv DEF WindowInv, UuidsOf
  <2>. QED
    BY <2>1, FirstWindowInv DEF Init, RotationInv, RotationTypeOK
<1>2. RotationInv /\ [Next]_rotationVars => RotationInv'
  <2>. SUFFICES ASSUME RotationInv, [Next]_rotationVars PROVE RotationInv'
    OBVIOUS
  <2>1. ASSUME NEW v \in Verifiers, NextIteration(v) PROVE RotationInv'
    <3>1. WindowInv(window'[v], covered'[v])
      BY <2>1, NextWindowInv DEF RotationInv, RotationTypeOK, NextIteration
    <3>2. covered'[v] \in SUBSET Uuid
      BY <3>1, KeySpaceAssumption DEF WindowInv, Window, Uuid
    <3>3. /\ window' = [window EXCEPT ![v] = window'[v]]
          /\ covered' = [covered EXCEPT ![v] = covered'[v]]
      BY <2>1 DEF RotationInv, RotationTypeOK, NextIteration
    <3>. QED
      BY Zenon, <3>1, <3>2, <3>3 DEF RotationInv, RotationTypeOK, WindowInv
  <2>2. CASE UNCHANGED rotationVars
    BY <2>2 DEF RotationInv, RotationTypeOK, rotationVars
  <2>. QED
    BY <2>1, <2>2 DEF Next
<1>. QED
  BY <1>1, <1>2, PTL DEF Spec, Moves

(* The fields of the verifier keep their ranges. *)
THEOREM RotationTypeCorrect == Spec => []RotationTypeOK
BY RotationInvariant, PTL DEF RotationInv

(* The windows of a round hold every uuid of the key space. *)
THEOREM RotationCoverage == Spec => []RoundCoversKeySpace
<1>1. RotationInv => RoundCoversKeySpace
  BY KeySpaceAssumption DEF RotationInv, WindowInv, RoundCoversKeySpace, Uuid
<1>. QED
  BY <1>1, RotationInvariant, PTL

(* In a state of the invariant the sums of next_iteration stay in range.    *)
LEMMA RotationNoWrap == RotationInv => NoWrapAround
<1>1. ASSUME RotationInv, NEW v \in Verifiers
      PROVE  /\ window[v].starting_uuid <= window[v].ending_uuid
             /\ ~RoundEnds(window[v].iteration)
                  => window[v].starting_uuid + Share <= MaxUuid
             /\ window[v].iteration + 1 < NUM_PEERS
                  => window[v].starting_uuid + Share + Share <= MaxUuid
  <2>. DEFINE w == window[v]
  <2>1. /\ w \in Window /\ WindowInv(w, covered[v])
        /\ w.iteration \in Nat /\ w.iteration <= NUM_PEERS /\ w.starting_uuid \in Nat
    BY <1>1, KeySpaceAssumption DEF RotationInv, WindowInv, Window, Uuid
  <2>2. w.starting_uuid <= w.iteration * Share
    BY <2>1 DEF WindowInv
  <2>3. /\ w.iteration * Share \in Nat /\ w.iteration * Share <= MaxUuid
        /\ (w.iteration + 1) * Share = w.iteration * Share + Share
    BY <2>1, PartFits
  <2>4. w.iteration < NUM_PEERS =>
          /\ (w.iteration + 1) * Share \in Nat /\ (w.iteration + 1) * Share <= MaxUuid
          /\ (w.iteration + 1 + 1) * Share = (w.iteration + 1) * Share + Share
    BY <2>1, PartFits, KeySpaceAssumption
  <2>5. w.iteration + 1 < NUM_PEERS => (w.iteration + 1 + 1) * Share <= MaxUuid
    BY <2>1, PartFits, KeySpaceAssumption
  <2>6. w.starting_uuid <= w.ending_uuid
    BY <2>1, <2>2, <2>3, ShareBound, KeySpaceAssumption DEF WindowInv
  <2>7. ~RoundEnds(w.iteration) => w.starting_uuid + Share <= MaxUuid
    BY <2>1, <2>2, <2>3, <2>4, ShareBound, KeySpaceAssumption DEF RoundEnds
  <2>8. w.iteration + 1 < NUM_PEERS => w.starting_uuid + Share + Share <= MaxUuid
    BY <2>1, <2>2, <2>3, <2>4, <2>5, ShareBound, KeySpaceAssumption
  <2>. QED
    BY <2>6, <2>7, <2>8
<1>. QED
  BY <1>1 DEF NoWrapAround

(* No sum of next_iteration overflows 128 bits. *)
THEOREM RotationNoOverflow == Spec => []NoWrapAround
BY RotationNoWrap, RotationInvariant, PTL

(* Two consecutive windows of a round share exactly the uuid where they     *)
(* touch.                                                                   *)
THEOREM RotationMeets == Spec => WindowsMeetInOneUuid
<1>. DEFINE Meet(v) == window'[v] # window[v] /\ window'[v].iteration # 0
                         => UuidsOf(window[v]) \cap UuidsOf(window'[v])
                              = {window'[v].starting_uuid}
<1>1. ASSUME RotationInv, RotationInv', [Next]_rotationVars, NEW v \in Verifiers
      PROVE  Meet(v)
  <2>. SUFFICES ASSUME window'[v] # window[v], window'[v].iteration # 0
                PROVE  UuidsOf(window[v]) \cap UuidsOf(window'[v])
                         = {window'[v].starting_uuid}
    OBVIOUS
  <2>1. PICK u \in Verifiers : NextIteration(u)
    BY <1>1 DEF Next, rotationVars
  <2>2. window'[v] = NextWindow(window[v])
    BY <1>1, <2>1 DEF NextIteration, RotationInv, RotationTypeOK
  <2>3. /\ window[v] \in Window /\ window'[v] \in Window
        /\ WindowInv(window[v], covered[v]) /\ WindowInv(window'[v], covered'[v])
    BY <1>1 DEF RotationInv, WindowInv
  <2>4. window[v].iteration < NUM_PEERS
    BY <2>2, <2>3, KeySpaceAssumption DEF NextWindow, RoundEnds, Window
  <2>5. window[v].ending_uuid = window[v].starting_uuid + Share
    BY <2>3, <2>4 DEF WindowInv
  <2>6. window'[v].starting_uuid = window[v].ending_uuid
    BY <2>2, <2>3, <2>4, <2>5, ShareBound, KeySpaceAssumption
    DEF NextWindow, RoundEnds, NextStart, U128Add, Window, Uuid
  <2>7. window[v].starting_uuid <= window[v].ending_uuid
    BY <2>3, <2>5, ShareBound DEF Window, Uuid
  <2>8. window'[v].starting_uuid <= window'[v].ending_uuid
    <3>1. RotationInv' => NoWrapAround'
      BY RotationNoWrap, PTL
    <3>. QED
      BY <1>1, <3>1 DEF NoWrapAround
  <2>. QED
    BY <2>3, <2>6, <2>7, <2>8, ShareBound, KeySpaceAssumption
    DEF UuidsOf, Window, Uuid
<1>2. RotationInv /\ RotationInv' /\ [Next]_rotationVars
        => [\A v \in Verifiers : Meet(v)]_rotationVars
  BY <1>1
<1>. QED
  BY <1>2, RotationInvariant, PTL DEF Spec, Moves, WindowsMeetInOneUuid
=============================================================================
