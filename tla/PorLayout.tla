------------------------------ MODULE PorLayout ------------------------------
(***************************************************************************)
(* How a file is laid out as a matrix for the proofs of retrievability     *)
(* (src/src/verifier/por.rs, from_file on both sides and                   *)
(* fulfill_challenge).  The file, padded with zeros, is cut into cols      *)
(* slices of rows chunks.  A chunk is BYTES_UNDER_P bytes (7), a word one  *)
(* byte more (8), and as many chunks as a word has bytes are read from as  *)
(* many words as a chunk has bytes, with shifts and a mask.                *)
(***************************************************************************)
EXTENDS Naturals, FiniteSetsExt

CONSTANTS BYTES_UNDER_P,  \* bytes of a chunk
          CHUNK_ALIGN     \* rows are a multiple of this

WORD == BYTES_UNDER_P + 1

ASSUME LayoutAssumption == /\ BYTES_UNDER_P \in Nat \ {0}
                           /\ CHUNK_ALIGN \in Nat \ {0} /\ CHUNK_ALIGN % WORD = 0

\* num_chunks for a file of len bytes; len - 1 underflows for an empty one.
NumChunks(len) == 1 + (len - 1) \div BYTES_UNDER_P

\* (sqrt(num_chunks) / CHUNK_ALIGN).ceil() * CHUNK_ALIGN.
Rows(len) ==
  LET c == NumChunks(len) IN
  CHUNK_ALIGN * Min({k \in 1 .. c : c <= (CHUNK_ALIGN * k) * (CHUNK_ALIGN * k)})

Cols(len) == 1 + (NumChunks(len) - 1) \div Rows(len)

BytesPerRow(len) == BYTES_UNDER_P * Rows(len)

-----------------------------------------------------------------------------
\* A word is a function from 1 .. WORD to bytes, the least significant first:
\* >> 8 * n drops n bytes in front, << 8 * n puts n zeros there, & chunk_mask
\* takes the last byte away.
ShiftRight(word, n) == [i \in 1 .. WORD |-> IF i + n <= WORD THEN word[i + n] ELSE 0]
ShiftLeft(word, n) == [i \in 1 .. WORD |-> IF i > n THEN word[i - n] ELSE 0]
Mask(word) == [i \in 1 .. WORD |-> IF i < WORD THEN word[i] ELSE 0]
Or(v, w) == [i \in 1 .. WORD |-> IF v[i] = 0 THEN w[i] ELSE v[i]]

\* Chunk k, from 0, of the WORD chunks in the given BYTES_UNDER_P words.
ChunkUnmasked(words, k) ==
  IF k = 0 THEN words[1]
  ELSE IF k < BYTES_UNDER_P THEN Or(ShiftRight(words[k], WORD - k), ShiftLeft(words[k + 1], k))
  ELSE ShiftRight(words[BYTES_UNDER_P], 1)
Chunk(words, k) ==
  IF k = 0 THEN Mask(words[1])
  ELSE IF k < BYTES_UNDER_P
       THEN Or(ShiftRight(words[k], WORD - k), Mask(ShiftLeft(words[k + 1], k)))
  ELSE ShiftRight(words[BYTES_UNDER_P], 1)

-----------------------------------------------------------------------------
(* The slices bytes_per_row * i .. bytes_per_row * (i + 1) of the padded    *)
(* file are within it, so that no index panics, and they leave no byte of   *)
(* the file out.                                                            *)
SlicesHold(len) ==
  /\ BytesPerRow(len) * Cols(len) <= len + BytesPerRow(len)
  /\ len <= BytesPerRow(len) * Cols(len)

(* No column of the matrix is only padding, it is at least as tall as it is *)
(* wide, and with one alignment less its square would not hold the file:    *)
(* the secrets of a contract stay of the order of the root of its length.   *)
Tight(len) ==
  LET c == NumChunks(len)
      less == Rows(len) - CHUNK_ALIGN
  IN  /\ (Cols(len) - 1) * Rows(len) < c
      /\ Cols(len) <= Rows(len)
      /\ less > 0 => less * less < c
=============================================================================
