------------------------------- MODULE MCPor -------------------------------
(* Chunks of two bytes in words of three, and bytes of 3 values, modulo 11: *)
(* every shift of the layout is used.  One alignment of rows is three       *)
(* chunks; the longest files have two slices, and the longest copies two    *)
(* alignments.                                                              *)
EXTENDS Por

Repeat(s, n) == [i \in 1 .. n |-> s[((i - 1) % Len(s)) + 1]]

MCUploads == {Repeat(s, n) : s \in {<<2>>, <<1, 2, 0>>, <<0, 0, 1, 0, 2>>},
                             n \in {0, 1, 5, 7, 18}}

\* Shorter and longer ones, and one byte changed in the others.
MCCopies == MCUploads \cup {Repeat(<<1, 0>>, n) : n \in {19, 20}}
              \cup {[Repeat(<<2>>, n) EXCEPT ![i] = 0] : n \in {5, 7}, i \in {1, 4, 5}}
=============================================================================
