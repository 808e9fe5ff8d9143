--------------------------- MODULE KeySpaceProofs ---------------------------
(***************************************************************************)
(* Lemmas about the windows that next_iteration computes, for every number *)
(* of peers and every size of the key space, u128::MAX included.           *)
(***************************************************************************)
EXTENDS KeySpace, TLAPS

(* What a window is between two calls of next_iteration.  The start lies at *)
(* a multiple of Share that is at most iteration * Share; the end is one    *)
(* Share further, or u128::MAX in the last part; and the windows of the     *)
(* round so far cover everything up to the end.                             *)
WindowInv(w, c) == /\ w \in Window
                   /\ w.starting_uuid <= w.iteration * Share
                   /\ w.iteration < NUM_PEERS
                        => w.ending_uuid = w.starting_uuid + Share
                   /\ w.iteration = NUM_PEERS => w.ending_uuid = MaxUuid
                   /\ c = 0 .. w.ending_uuid

-----------------------------------------------------------------------------
(* NUM_PEERS parts of size Share fit into the key space of 128-bit uuids.   *)
LEMMA ShareBound == Share \in Nat /\ NUM_PEERS * Share <= MaxUuid
BY KeySpaceAssumption DEF Share

(* The start of the window that follows part i lies within the key space.   *)
LEMMA PartFits == ASSUME NEW i \in Nat, i <= NUM_PEERS
                  PROVE  /\ i * Share \in Nat
                         /\ i * Share <= MaxUuid
                         /\ (i + 1) * Share = i * Share + Share
<1>1. i * Share <= NUM_PEERS * Share
  BY ShareBound, KeySpaceAssumption
<1>2. i * Share \in Nat /\ (i + 1) * Share = i * Share + Share
  BY ShareBound
<1>. QED
  BY <1>1, <1>2, ShareBound, KeySpaceAssumption

(* The window of the constructor.                                           *)
LEMMA FirstWindowInv == WindowInv(FirstWindow, UuidsOf(FirstWindow))
<1>1. 1 * Share = Share /\ Share <= MaxUuid
  BY PartFits, ShareBound, KeySpaceAssumption
<1>2. FirstWindow \in Window /\ UuidsOf(FirstWindow) = 0 .. Share
  BY <1>1, ShareBound, KeySpaceAssumption DEF FirstWindow, Window, Uuid, UuidsOf
<1>3. NUM_PEERS = 1 => Share = MaxUuid
  BY KeySpaceAssumption DEF Share
<1>. QED
  BY <1>1, <1>2, <1>3, ShareBound, KeySpaceAssumption DEF FirstWindow, WindowInv

(* next_iteration keeps what WindowInv says of a window, with the set of    *)
(* uuids covered so far brought up to date.                                 *)
LEMMA NextWindowInv ==
  ASSUME NEW w, NEW c, WindowInv(w, c)
  PROVE  LET n == NextWindow(w) IN
         WindowInv(n, UuidsOf(n) \cup (IF n.iteration = 0 THEN {} ELSE c))
<1>. USE KeySpaceAssumption, ShareBound DEF Window, Uuid
<1>1. w \in Window /\ w.iteration \in 0 .. NUM_PEERS
  BY DEF WindowInv
<1>2. CASE w.iteration = NUM_PEERS
  <2>1. Share <= MaxUuid
    BY PartFits, 1 \in Nat, 1 * Share = Share
  <2>2. NextWindow(w) = [iteration |-> 0, starting_uuid |-> 0, ending_uuid |-> Share]
    BY <1>2, <2>1 DEF NextWindow, RoundEnds, U128Add
  <2>. QED
    BY <2>1, <2>2 DEF WindowInv, UuidsOf
<1>3. CASE w.iteration < NUM_PEERS
  <2>. DEFINE i == w.iteration + 1
              s == w.starting_uuid + Share
  <2>1. i \in Nat /\ i <= NUM_PEERS /\ w.starting_uuid \in Nat
    BY <1>1, <1>3
  <2>2. s <= i * Share /\ s <= MaxUuid /\ i * Share <= MaxUuid
    <3>1. w.iteration * Share \in Nat /\ i * Share = w.iteration * Share + Share
      BY PartFits, <1>1, <1>3
    <3>2. i * Share \in Nat /\ i * Share <= MaxUuid
      BY PartFits, <2>1
    <3>3. w.starting_uuid <= w.iteration * Share
      BY DEF WindowInv
    <3>. QED
      BY <3>1, <3>2, <3>3, <2>1
  <2>3. i < NUM_PEERS => s + Share <= MaxUuid
    <3>. SUFFICES ASSUME i < NUM_PEERS PROVE s + Share <= MaxUuid
      OBVIOUS
    <3>1. i * Share + Share = (i + 1) * Share /\ i * Share \in Nat
      BY PartFits, <2>1
    <3>2. (i + 1) * Share <= MaxUuid /\ (i + 1) * Share \in Nat
      BY PartFits, <2>1
    <3>. QED
      BY <3>1, <3>2, <2>1, <2>2
  <2>4. /\ NextWindow(w).iteration = i
        /\ NextWindow(w).starting_uuid = s
        /\ NextWindow(w).ending_uuid = IF i = NUM_PEERS THEN MaxUuid ELSE s + Share
        /\ NextWindow(w) \in Window
    BY <1>1, <1>3, <2>1, <2>2, <2>3
    DEF NextWindow, RoundEnds, NextStart, PartEnd, U128Add
  <2>5. c = 0 .. s
    BY <1>3 DEF WindowInv
  <2>6. UuidsOf(NextWindow(w)) \cup c = 0 .. NextWindow(w).ending_uuid
    BY <2>1, <2>2, <2>3, <2>4, <2>5 DEF UuidsOf
  <2>. HIDE DEF i, s
  <2>. QED
    BY <2>1, <2>2, <2>4, <2>6 DEF WindowInv, i, s
<1>. QED
  BY <1>1, <1>2, <1>3
=============================================================================
