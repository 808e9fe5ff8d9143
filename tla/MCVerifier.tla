----------------------------- MODULE MCVerifier -----------------------------
(* Small instances of the audit loop: files where two parts meet and in the  *)
(* last part, a node that is verifier and keeper, clocks that agree or       *)
(* differ by a tick.                                                         *)
EXTENDS Verifier

CONSTANTS n1, n2, k1

NoSkew == [v \in Verifiers |-> 0]
OneAhead == [v \in Verifiers |-> IF v = n2 THEN 1 ELSE 0]
=============================================================================
