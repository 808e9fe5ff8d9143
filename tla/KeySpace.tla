------------------------------ MODULE KeySpace ------------------------------
(***************************************************************************)
(* The key space of the files and its division into the parts a verifier   *)
(* audits one after the other (src/src/verifier/mod.rs).  File uuids are   *)
(* 128-bit integers: the key space is 0 .. MaxUuid, where MaxUuid stands   *)
(* for u128::MAX.                                                          *)
(***************************************************************************)
EXTENDS Naturals

CONSTANTS NUM_PEERS,  \* consts::NUM_PEERS, the number of parts of the key space
          MaxUuid     \* u128::MAX

ASSUME KeySpaceAssumption == NUM_PEERS \in Nat \ {0} /\ MaxUuid \in Nat

Uuid == 0 .. MaxUuid

Window == [iteration : 0 .. NUM_PEERS, starting_uuid : Uuid, ending_uuid : Uuid]

\* The size of one part of the key space.
Share == MaxUuid \div NUM_PEERS

\* Addition of u128 as a release build does it.
U128Add(a, b) == IF a + b > MaxUuid THEN a + b - (MaxUuid + 1) ELSE a + b

\* The uuids audited in a window: both ends are included.
UuidsOf(w) == {u \in Uuid : ~(u < w.starting_uuid \/ u > w.ending_uuid)}

FirstWindow == [iteration |-> 1, starting_uuid |-> 0, ending_uuid |-> Share]

\* The iteration after this one is past the last part.
RoundEndsLate(iteration) == iteration = NUM_PEERS + 1
RoundEnds(iteration) == iteration + 1 = NUM_PEERS + 1

\* Where the part after the one that starts at starting_uuid starts.
NextStartExclusive(starting_uuid) == U128Add(starting_uuid, Share + 1)
NextStart(starting_uuid) == U128Add(starting_uuid, Share)

\* The last part takes what the division leaves over.
PartEndNoRemainder(iteration, starting_uuid) == U128Add(starting_uuid, Share)
PartEnd(iteration, starting_uuid) ==
  IF iteration = NUM_PEERS THEN MaxUuid ELSE U128Add(starting_uuid, Share)

\* Verifier::next_iteration.
NextWindow(w) ==
  IF RoundEnds(w.iteration)
  THEN [iteration |-> 0, starting_uuid |-> 0, ending_uuid |-> U128Add(0, Share)]
  ELSE LET iteration     == w.iteration + 1
           starting_uuid == NextStart(w.starting_uuid)
       IN  [iteration |-> iteration, starting_uuid |-> starting_uuid,
            ending_uuid |-> PartEnd(iteration, starting_uuid)]
=============================================================================
