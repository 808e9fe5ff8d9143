-------------------------------- MODULE Por --------------------------------
(***************************************************************************)
(* The proof of retrievability between a verifier and a keeper             *)
(* (src/src/verifier/por.rs).  The uploading node lays the file out as a   *)
(* matrix, draws the secret m, computes the secret n from both, and writes *)
(* them to a contract as bytes.  A verifier decodes them and sends a       *)
(* challenge; the keeper answers with products of its own copy, laid out   *)
(* by the length of that copy, and the challenge; the audit compares two   *)
(* sums modulo P57, here the small prime P.                                *)
(***************************************************************************)
EXTENDS Integers, Sequences, PorLayout, Sums

CONSTANTS P,        \* P57
          BYTE,     \* 256, the values of a byte
          U64,      \* 8, the bytes of a u64 in a contract
          Uploads,  \* the files, sequences of bytes
          Copies,   \* what a keeper's disk may hold instead of the file
          Draws     \* the numbers rand_mod_p may return

ASSUME PorAssumption ==
  /\ P \in Nat \ {0, 1} /\ BYTE \in Nat \ {0, 1} /\ U64 \in Nat \ {0}
  /\ Power(BYTE, BYTES_UNDER_P) <= P /\ P <= Power(BYTE, U64)
  /\ Uploads \cup Copies \subseteq Seq(0 .. BYTE - 1)
  /\ Draws \subseteq 0 .. P - 1

\* P57 is a prime.
ASSUME PrimeAssumption == \A a, b \in 1 .. P - 1 : (a * b) % P # 0

\* The values of a u128.
U128 == Power(BYTE, 2 * U64)

\* A message of gRPC or of the swarm and a record hold less than 1 GiB.
ASSUME LengthAssumption ==
  \A f \in Uploads \cup Copies :
    f # <<>> => Rows(Len(f)) * ((Power(BYTE, BYTES_UNDER_P) - 1) * (P - 1)) < U128

VARIABLES pc,
          file,       \* what was uploaded
          copy,       \* what the keeper's storage reads: a file, or none
          contract,   \* the row the upload writes, or none
          challenge,
          response,
          verdict     \* the result of the audit

vars == <<pc, file, copy, contract, challenge, response, verdict>>

Init == /\ pc = "upload"
        /\ file \in Uploads /\ copy = {file}
        /\ contract = {}
        /\ challenge = <<>> /\ response = <<>>
        /\ verdict = FALSE

-----------------------------------------------------------------------------
\* The number with these bytes, from_le_bytes, and the bytes of a number.
FromLeBytes(bytes) ==
  Sum([i \in 1 .. Len(bytes) |-> bytes[i] * Power(BYTE, i - 1)], Len(bytes))
ToLeBytes(x) == [i \in 1 .. U64 |-> (x \div Power(BYTE, i - 1)) % BYTE]

\* Byte x is byte (x - 1) % U64 + 1 of its number.
U64ToBytesNoTop(v) ==
  [x \in 1 .. U64 * Len(v) |-> IF x % U64 = 0 THEN 0
                              ELSE ToLeBytes(v[(x - 1) \div U64 + 1])[((x - 1) % U64) + 1]]
U64ToBytes(v) ==
  [x \in 1 .. U64 * Len(v) |-> ToLeBytes(v[(x - 1) \div U64 + 1])[((x - 1) % U64) + 1]]

\* chunks_exact(8).
BytesToU64(b) ==
  [i \in 1 .. Len(b) \div U64 |-> FromLeBytes(SubSeq(b, U64 * (i - 1) + 1, U64 * i))]

\* Byte x, from 0, of the file followed by zeros.
Extended(f, x) == IF x < Len(f) THEN f[x + 1] ELSE 0

\* The words of raw_row that chunk k of slice i, both from 0, is read from.
Words(f, i, k) ==
  LET first == BytesPerRow(Len(f)) * i + BYTES_UNDER_P * WORD * (k \div WORD)
  IN  [w \in 1 .. BYTES_UNDER_P |->
         [b \in 1 .. WORD |-> Extended(f, first + WORD * (w - 1) + b - 1)]]

\* data_val.
DataVal(f, i, k) == FromLeBytes(Chunk(Words(f, i, k), k % WORD))

\* rand_vector draws numbers below P57.  Its seeds are constants of the code,
\* so the vectors depend on the size only; here they are any vectors.
RandVector(size) == [1 .. size -> Draws]

-----------------------------------------------------------------------------
\* VerificationClientConfig::from_file: partials1[k], before and after % P57.
Partials1(f, m, k) ==
  Sum([i \in 1 .. Cols(Len(f)) |-> DataVal(f, i - 1, k - 1) * m[i]], Cols(Len(f)))
SecretN(f, m) == [k \in 1 .. Rows(Len(f)) |-> Partials1(f, m, k) % P]

\* The length of an empty file minus one panics in a debug build.  A release
\* build wraps it: the layout has some 2^30 rows and as many slices, and the
\* upload runs out of memory or panics at the second slice.  "panic" is the
\* end of the upload, without a contract, in all of these.
FromFile ==
  /\ pc = "upload"
  /\ IF file = <<>> THEN pc' = "panic" /\ UNCHANGED contract
     ELSE /\ \E m \in RandVector(Cols(Len(file))) :
               contract' = {[secret_n |-> U64ToBytes(SecretN(file, m)),
                             secret_m |-> U64ToBytes(m),
                             rows |-> Rows(Len(file)), cols |-> Cols(Len(file))]}
          /\ pc' = "stored"
  /\ UNCHANGED <<file, copy, challenge, response, verdict>>

\* The keeper's disk loses the file, or reads as another one.
Damage == /\ pc = "stored" /\ copy = {file}
          /\ copy' \in {{}} \cup {{f} : f \in Copies}
          /\ UNCHANGED <<pc, file, contract, challenge, response, verdict>>

ChallengeOfWidth(row) == RandVector(row.cols)
Challenges(row) == RandVector(row.rows)

MakeChallengeVector ==
  /\ pc = "stored"
  /\ \E row \in contract : challenge' \in Challenges(row)
  /\ pc' = "challenged"
  /\ UNCHANGED <<file, copy, contract, response, verdict>>

\* fulfill_challenge: dot_prods1[i], before and after % P57.
DotProds1(f, c, i) ==
  Sum([k \in 1 .. Rows(Len(f)) |-> DataVal(f, i - 1, k - 1) * c[k]], Rows(Len(f)))
Fulfil(f, c) == [i \in 1 .. Cols(Len(f)) |-> DotProds1(f, c, i) % P]

\* A keeper without the file answers an empty vector.  It gives no answer
\* for an empty copy (as in FromFile), and where its copy has more rows than
\* the challenge has numbers.
FulfillChallenge ==
  /\ pc = "challenged"
  /\ \/ copy = {} /\ response' = <<>> /\ pc' = "answered"
     \/ \E f \in copy :
          IF f = <<>> \/ ~ (1 .. Rows(Len(f)) \subseteq DOMAIN challenge)
          THEN pc' = "panic" /\ UNCHANGED response
          ELSE response' = Fulfil(f, challenge) /\ pc' = "answered"
  /\ UNCHANGED <<file, copy, contract, challenge, verdict>>

\* A sum of products as audit computes it, reduced when it is above P.
Reduce(s) == IF s > P THEN s % P ELSE s
SumFromSecond(a, b, n) ==
  Loop([i \in Nat |-> [acc \in Nat |-> IF i = 1 THEN acc ELSE Reduce(acc + a[i] * b[i])]], 0, n)
ReducedSum(a, b, n) ==
  Loop([i \in Nat |-> [acc \in Nat |-> Reduce(acc + a[i] * b[i])]], 0, n)

\* from_contract and audit, which compares the lengths first.
Audit ==
  /\ pc = "answered"
  /\ \E row \in contract :
       verdict' = (/\ Len(response) = row.cols /\ Len(challenge) = row.rows
                   /\ ReducedSum(response, BytesToU64(row.secret_m), row.cols)
                        = ReducedSum(challenge, BytesToU64(row.secret_n), row.rows))
  /\ pc' = "audited"
  /\ UNCHANGED <<file, copy, contract, challenge, response>>

Next == FromFile \/ Damage \/ MakeChallengeVector \/ FulfillChallenge \/ Audit

Spec == Init /\ [][Next]_vars

-----------------------------------------------------------------------------
\* The reference: chunk n, from 0, of a file, as a number.
ChunkNumber(f, n) ==
  FromLeBytes([b \in 1 .. BYTES_UNDER_P |-> Extended(f, BYTES_UNDER_P * n + b - 1)])

\* The sum that a challenge and a secret m make of a file.
Weighed(f, m, c) ==
  LET rows == Rows(Len(f)) IN
  Sum([n \in 1 .. NumChunks(Len(f)) |->
         ChunkNumber(f, n - 1) * m[(n - 1) \div rows + 1] * c[((n - 1) % rows) + 1]],
      NumChunks(Len(f)))

Same(f, g) == {n \in 0 .. NumChunks(Len(f)) - 1 : ChunkNumber(f, n) = ChunkNumber(g, n)}

(* The matrix is the file: read with slices, words, shifts and masks, it    *)
(* has chunk number rows * i + k of the file at slice i and row k, nothing  *)
(* but zeros after the file, and no chunk of the file is missing.           *)
MatrixIsTheFile ==
  file # <<>> =>
    LET len == Len(file) IN
    /\ SlicesHold(len) /\ Tight(len)
    /\ \A i \in 0 .. Cols(len) - 1, k \in 0 .. Rows(len) - 1 :
         DataVal(file, i, k) = ChunkNumber(file, Rows(len) * i + k)

(* What audit accepts weighs the same as the file, modulo P57: never a      *)
(* deleted file or one of another width, and a copy with one changed chunk  *)
(* only where the secret m or the challenge is 0 for it.                    *)
DamageDetected ==
  pc = "audited" /\ verdict =>
    \E f \in copy, row \in contract :
      LET m == BytesToU64(row.secret_m)
          changed == (0 .. NumChunks(Len(file)) - 1) \ Same(file, f)
      IN  /\ Cols(Len(f)) = Cols(Len(file))
          /\ Weighed(f, m, challenge) % P = Weighed(file, m, challenge) % P
          /\ \A n \in changed :
               Len(f) = Len(file) /\ changed = {n} =>
                 m[n \div row.rows + 1] = 0 \/ challenge[(n % row.rows) + 1] = 0

(* A copy of the file's length is accepted by luck only: where the secret n *)
(* of the copy differs in row k, the audit would refuse the copy for every  *)
(* other number in row k of the challenge.                                  *)
AcceptedByOneDraw ==
  pc = "audited" /\ verdict =>
    \A f \in copy, row \in contract :
      LET m == BytesToU64(row.secret_m) IN
      Len(f) = Len(file) =>
        \A k \in 1 .. row.rows :
          SecretN(f, m)[k] # SecretN(file, m)[k] =>
            \A draw \in Draws \ {challenge[k]} :
              LET c == [challenge EXCEPT ![k] = draw] IN
              ReducedSum(Fulfil(f, c), m, row.cols)
                # ReducedSum(c, BytesToU64(row.secret_n), row.rows)

(* The audit refuses an undamaged copy only where `>` leaves a sum at P57   *)
(* that is 0 on the other side; the secrets come back from the bytes of the *)
(* contract as they were.                                                   *)
HonestRefusedOnlyAtZero ==
  pc = "audited" /\ copy = {file} /\ ~verdict =>
    \E row \in contract : Weighed(file, BytesToU64(row.secret_m), challenge) % P = 0

(* The sums that from_file and fulfill_challenge reduce only at the end do  *)
(* not overflow their u128.                                                 *)
SumsFitU128 ==
  /\ \A row \in contract : \A k \in 1 .. row.rows :
       Partials1(file, BytesToU64(row.secret_m), k) < U128
  /\ pc \in {"answered", "audited"} =>
       \A f \in copy : \A i \in 1 .. Cols(Len(f)) : DotProds1(f, challenge, i) < U128

(* The index arithmetic never leaves the vectors: an upload ends without a  *)
(* contract for an empty file only, and a keeper's answer fails only for an *)
(* empty copy or one that is longer than the file.                          *)
OnlyOddLengthsPanic ==
  pc = "panic" => file = <<>> \/ \E f \in copy : f = <<>> \/ Len(f) > Len(file)
=============================================================================
