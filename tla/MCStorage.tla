----------------------------- MODULE MCStorage -----------------------------
(* Small instances of a keeper's disk: enough records that one can be put,  *)
(* read or removed while the loop is among the others.                      *)
EXTENDS Storage
=============================================================================
