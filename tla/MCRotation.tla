----------------------------- MODULE MCRotation -----------------------------
(* Three verifiers, NUM_PEERS as in the code, and a key space whose size is *)
(* not a multiple of NUM_PEERS, so that the last part has a remainder.      *)
EXTENDS Rotation
=============================================================================
