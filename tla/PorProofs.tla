----------------------------- MODULE PorProofs -----------------------------
(***************************************************************************)
(* Proofs about the proof of retrievability, for files of any length, any  *)
(* size of chunks, any alignment and any prime P57: the layout of a file   *)
(* and the shifts that read it are the file; the two sums that an audit    *)
(* compares are congruent to what the file and the copy weigh; so an audit *)
(* accepts no damage to one chunk that it weighs with numbers other than   *)
(* 0, accepts other damage for one number of the challenge at most,        *)
(* refuses an undamaged copy only where it weighs 0, and no sum overflows. *)
(*                                                                         *)
(* What a loop computes is proved by induction, here as the least          *)
(* counterexample in a set of numbers.                                     *)
(***************************************************************************)
EXTENDS Por, WellFoundedInduction, TLAPS

-----------------------------------------------------------------------------
\* Induction, loops and sums.

(* A nonempty set of natural numbers has a least element, which Min chooses. *)
LEMMA MinIsLeast ==
  ASSUME NEW S, S \subseteq Nat, S # {}
  PROVE  Min(S) \in S /\ \A y \in S : Min(S) <= y
<1> DEFINE R == {ss \in Nat \X Nat : ss[1] < ss[2]}
<1>1. IsWellFoundedOn(R, Nat)
  BY NatLessThanWellFounded, Zenon DEF OpToRel
<1>2. \E x \in S : \A y \in S : ~ (<<y, x>> \in R)
  <2> HIDE DEF R
  <2> QED BY Zenon, <1>1, WFMin
<1>3. \E x \in S : \A y \in S : x <= y
  <2>1. PICK x \in S : \A y \in S : ~ (<<y, x>> \in R)
    BY Zenon, <1>2
  <2>2. ASSUME NEW y \in S PROVE x <= y
    <3>1. <<y, x>> \notin R
      BY Zenon, <2>1
    <3>2. ~ (y < x)
      BY Zenon, <3>1
    <3> QED BY <3>2
  <2> QED BY Zenon, <2>2
<1> QED BY Zenon, <1>3 DEF Min

(* Induction, stated for a set of numbers: a number outside it would have a  *)
(* least one.                                                               *)
LEMMA Induction ==
  ASSUME NEW S, 0 \in S, \A j \in Nat : j \in S => j + 1 \in S
  PROVE  Nat \subseteq S
<1> DEFINE T == Nat \ S
<1> SUFFICES ASSUME T # {} PROVE FALSE
  BY Zenon
<1>1. Min(T) \in T /\ \A y \in T : Min(T) <= y
  <2>1. T \subseteq Nat
    BY Zenon
  <2> HIDE DEF T
  <2> QED BY Zenon, <2>1, MinIsLeast
<1> DEFINE m == Min(T)
<1>2. m \in Nat /\ m \notin S /\ \A y \in T : m <= y
  BY Zenon, <1>1
<1> HIDE DEF m
<1>3. m - 1 \in Nat /\ m = (m - 1) + 1 /\ ~ (m <= m - 1)
  <2>1. m # 0
    BY Zenon, <1>2
  <2> QED BY <1>2, <2>1
<1>4. m - 1 \notin T
  BY Zenon, <1>2, <1>3
<1> QED BY Zenon, <1>2, <1>3, <1>4

(* Induction up to a bound.                                                 *)
LEMMA InductionTo ==
  ASSUME NEW n \in Nat, NEW S, 0 \in S, \A j \in 0 .. n - 1 : j \in S => j + 1 \in S
  PROVE  0 .. n \subseteq S
<1> DEFINE T == {j \in Nat : j <= n => j \in S}
<1>1. 0 \in T
  BY Zenon
<1>2. ASSUME NEW j \in Nat, j \in T PROVE j + 1 \in T
  <2>1. CASE j + 1 <= n
    <3>1. j \in 0 .. n - 1 /\ j <= n /\ j + 1 \in Nat
      BY <2>1
    <3> QED BY Zenon, <1>2, <3>1
  <2>2. CASE ~ (j + 1 <= n)
    <3>1. j + 1 \in Nat
      OBVIOUS
    <3> QED BY Zenon, <2>2, <3>1
  <2> QED BY Zenon, <2>1, <2>2
<1>3. Nat \subseteq T
  <2> HIDE DEF T
  <2> QED BY Zenon, <1>1, <1>2, Induction
<1>4. ASSUME NEW j \in 0 .. n PROVE j \in Nat /\ j <= n
  OBVIOUS
<1> QED BY Zenon, <1>3, <1>4

\* The first n rounds of a loop keep its accumulator in V.
StepsIn(step, V, n) == \A j \in 1 .. n : \A x \in V : step[j][x] \in V

\* What Loop computes in each round.
IsLoop(s, step, start, n) ==
  s = [j \in 0 .. n |-> IF j = 0 THEN start ELSE step[j][s[j - 1]]]

(* A loop of n rounds over values of V has a run.                           *)
LEMMA LoopExists ==
  ASSUME NEW V, NEW start \in V, NEW n \in Nat, NEW step, StepsIn(step, V, n)
  PROVE  \E s \in [0 .. n -> V] : IsLoop(s, step, start, n)
<1> DEFINE S == {k \in 0 .. n : \E s \in [0 .. k -> V] : IsLoop(s, step, start, k)}
<1>1. 0 \in S
  <2> DEFINE s == [j \in 0 .. 0 |-> start]
  <2>0. 0 \in 0 .. n
    OBVIOUS
  <2>1. s \in [0 .. 0 -> V]
    BY Zenon
  <2>2. \A j \in 0 .. 0 : j = 0
    OBVIOUS
  <2>3. IsLoop(s, step, start, 0)
    BY Zenon, <2>2 DEF IsLoop
  <2> QED BY Zenon, <2>0, <2>1, <2>3
<1>2. ASSUME NEW k \in 0 .. n - 1, k \in S PROVE k + 1 \in S
  <2>1. PICK s \in [0 .. k -> V] : IsLoop(s, step, start, k)
    BY Zenon, <1>2
  <2> DEFINE t == [j \in 0 .. k + 1 |-> IF j = k + 1 THEN step[k + 1][s[k]] ELSE s[j]]
  <2>2. /\ k \in 0 .. k /\ k + 1 \in 0 .. n /\ k + 1 \in 1 .. n /\ k + 1 \in 0 .. k + 1 /\ k + 1 # 0
        /\ (k + 1) - 1 = k /\ k \in 0 .. k + 1 /\ k # k + 1
        /\ \A j \in 0 .. k + 1 : j # k + 1 => j \in 0 .. k
        /\ \A j \in 0 .. k : j # 0 => j - 1 \in 0 .. k + 1 /\ j - 1 \in 0 .. k /\ j - 1 # k + 1
    BY SMT
  <2>3. t \in [0 .. k + 1 -> V]
    BY Zenon, <1>2, <2>2 DEF StepsIn
  <2>4. ASSUME NEW j \in 0 .. k + 1 PROVE t[j] = IF j = 0 THEN start ELSE step[j][t[j - 1]]
    <3>1. CASE j = k + 1
      BY Zenon, <2>2, <3>1
    <3>2. CASE j # k + 1
      <4>1. j \in 0 .. k /\ t[j] = s[j]
        BY Zenon, <2>2, <3>2
      <4>2. s[j] = IF j = 0 THEN start ELSE step[j][s[j - 1]]
        BY Zenon, <2>1, <4>1 DEF IsLoop
      <4>3. j # 0 => t[j - 1] = s[j - 1]
        BY Zenon, <2>2, <4>1
      <4> QED BY Zenon, <4>1, <4>2, <4>3
    <3> QED BY Zenon, <3>1, <3>2
  <2>5. IsLoop(t, step, start, k + 1)
    <3>1. t = [j \in 0 .. k + 1 |-> t[j]]
      BY Zenon
    <3> HIDE DEF t
    <3> QED BY Zenon, <2>4, <3>1 DEF IsLoop
  <2> HIDE DEF t
  <2> QED BY Zenon, <2>2, <2>3, <2>5
<1>3. 0 .. n \subseteq S
  <2> HIDE DEF S
  <2> QED BY Zenon, <1>1, <1>2, InductionTo
<1>4. n \in 0 .. n
  OBVIOUS
<1> QED BY Zenon, <1>3, <1>4

(* Two runs of a loop agree as far as both go.                              *)
LEMMA LoopUnique ==
  ASSUME NEW n \in Nat, NEW m \in 0 .. n, NEW step, NEW start, NEW s, NEW t,
         IsLoop(s, step, start, n), IsLoop(t, step, start, m)
  PROVE  \A j \in 0 .. m : s[j] = t[j]
<1> DEFINE S == {j \in 0 .. m : s[j] = t[j]}
<1>0. m \in Nat /\ 0 \in 0 .. m /\ 0 \in 0 .. n
  OBVIOUS
<1>1. 0 \in S
  BY Zenon, <1>0 DEF IsLoop
<1>2. ASSUME NEW k \in 0 .. m - 1, k \in S PROVE k + 1 \in S
  <2>1. k + 1 \in 0 .. m /\ k + 1 \in 0 .. n /\ k + 1 # 0 /\ (k + 1) - 1 = k
    BY SMT
  <2>2. s[k + 1] = step[k + 1][s[(k + 1) - 1]] /\ t[k + 1] = step[k + 1][t[(k + 1) - 1]]
    BY Zenon, <2>1 DEF IsLoop
  <2> QED BY Zenon, <1>2, <2>1, <2>2
<1>3. 0 .. m \subseteq S
  <2> HIDE DEF S
  <2> QED BY Zenon, <1>0, <1>1, <1>2, InductionTo
<1> QED BY Zenon, <1>3

\* Loop returns its start after no round, and does one step more in each.
Unfolds(step, start, V, n) ==
  /\ Loop(step, start, 0) = start
  /\ \A j \in 0 .. n : Loop(step, start, j) \in V
  /\ \A j \in 1 .. n : Loop(step, start, j) = step[j][Loop(step, start, j - 1)]

(* Loop computes what its definition says, for every number of rounds.      *)
LEMMA LoopSteps ==
  ASSUME NEW V, NEW start \in V, NEW n \in Nat, NEW step, StepsIn(step, V, n)
  PROVE  Unfolds(step, start, V, n)
<1>1. PICK s \in [0 .. n -> V] : IsLoop(s, step, start, n)
  BY Zenon, LoopExists
<1>2. ASSUME NEW m \in 0 .. n PROVE Loop(step, start, m) = s[m]
  <2>0. m \in Nat /\ m \in 0 .. m /\ \A j \in 1 .. m : j \in 1 .. n
    BY SMT
  <2>1. PICK t \in [0 .. m -> V] : IsLoop(t, step, start, m)
    <3>1. StepsIn(step, V, m)
      BY Zenon, <2>0 DEF StepsIn
    <3> QED BY Zenon, <2>0, <3>1, LoopExists
  <2>2. PICK u : IsLoop(u, step, start, m) /\ Loop(step, start, m) = u[m]
    BY Zenon, <2>1 DEF IsLoop, Loop
  <2>3. \A j \in 0 .. m : s[j] = u[j]
    BY <1>1, <2>2, LoopUnique
  <2> QED BY Zenon, <2>0, <2>2, <2>3
<1>3. 0 \in 0 .. n /\ \A j \in 1 .. n : j \in 0 .. n /\ j # 0 /\ j - 1 \in 0 .. n
  BY SMT
<1>4. s[0] = start /\ \A j \in 1 .. n : s[j] = step[j][s[j - 1]]
  BY Zenon, <1>1, <1>3 DEF IsLoop
<1> QED BY Zenon, <1>1, <1>2, <1>3, <1>4 DEF Unfolds

(* Sums of integers: the empty sum, one term more, and that they are        *)
(* integers.                                                                *)
LEMMA SumSteps ==
  ASSUME NEW n \in Nat, NEW g, \A j \in 1 .. n : g[j] \in Int
  PROVE  /\ Sum(g, 0) = 0
         /\ \A j \in 0 .. n : Sum(g, j) \in Int
         /\ \A j \in 1 .. n : Sum(g, j) = Sum(g, j - 1) + g[j]
<1> DEFINE step == [j \in Nat |-> [acc \in Int |-> acc + g[j]]]
<1>1. \A j \in 1 .. n : j \in Nat /\ j - 1 \in 0 .. n
  BY SMT
<1>2. \A j \in 1 .. n : \A x \in Int : step[j][x] = x + g[j]
  BY Zenon, <1>1
<1>3. \A j \in 1 .. n : \A x \in Int : x + g[j] \in Int
  BY SMT
<1>4. \A j : Sum(g, j) = Loop(step, 0, j)
  BY Zenon DEF Sum
<1>5. 0 \in Int
  BY SMT
<1> HIDE DEF step
<1>6. StepsIn(step, Int, n)
  BY Zenon, <1>2, <1>3 DEF StepsIn
<1>7. /\ Loop(step, 0, 0) = 0
      /\ \A j \in 0 .. n : Loop(step, 0, j) \in Int
      /\ \A j \in 1 .. n : Loop(step, 0, j) = step[j][Loop(step, 0, j - 1)]
  <2>1. Unfolds(step, 0, Int, n)
    BY Zenon, <1>5, <1>6, LoopSteps
  <2> QED BY Zenon, <2>1 DEF Unfolds
<1>8. \A j \in 1 .. n : Sum(g, j) = Sum(g, j - 1) + g[j]
  <2> TAKE j \in 1 .. n
  <2>1. Loop(step, 0, j) = step[j][Loop(step, 0, j - 1)] /\ Loop(step, 0, j - 1) \in Int
    BY Zenon, <1>1, <1>7
  <2>2. Loop(step, 0, j) = Loop(step, 0, j - 1) + g[j]
    BY Zenon, <1>2, <2>1
  <2> QED BY Zenon, <1>4, <2>2
<1> QED BY Zenon, <1>4, <1>7, <1>8

(* Sums of natural numbers are natural numbers, and at most as many times a *)
(* bound on the terms as there are terms.                                   *)
LEMMA SumBound ==
  ASSUME NEW n \in Nat, NEW g, NEW b \in Nat, \A j \in 1 .. n : g[j] \in 0 .. b
  PROVE  \A j \in 0 .. n : Sum(g, j) \in Nat /\ Sum(g, j) <= j * b
<1> DEFINE S == {j \in 0 .. n : Sum(g, j) \in Nat /\ Sum(g, j) <= j * b}
<1>0. \A j \in 1 .. n : g[j] \in Int /\ g[j] \in Nat /\ g[j] <= b
  BY SMT
<1>s. /\ Sum(g, 0) = 0
      /\ \A j \in 1 .. n : Sum(g, j) = Sum(g, j - 1) + g[j]
  BY Zenon, <1>0, SumSteps
<1>1. 0 \in S
  <2>1. 0 <= 0 * b /\ 0 \in Nat /\ 0 \in 0 .. n
    BY SMT
  <2> QED BY Zenon, <1>s, <2>1
<1>2. ASSUME NEW k \in 0 .. n - 1, k \in S PROVE k + 1 \in S
  <2>1. k + 1 \in 1 .. n /\ k + 1 \in 0 .. n /\ (k + 1) - 1 = k
    BY SMT
  <2>2. Sum(g, k + 1) = Sum(g, k) + g[k + 1]
    BY Zenon, <1>s, <2>1
  <2>3. Sum(g, k) \in Nat /\ Sum(g, k) <= k * b /\ g[k + 1] \in Nat /\ g[k + 1] <= b
    BY Zenon, <1>0, <1>2, <2>1
  <2>4. (k + 1) * b = k * b + b /\ k * b \in Int
    BY SMT
  <2>5. Sum(g, k + 1) \in Nat /\ Sum(g, k + 1) <= (k + 1) * b
    BY SMT, <2>2, <2>3, <2>4
  <2> QED BY Zenon, <2>1, <2>5
<1>3. 0 .. n \subseteq S
  <2> HIDE DEF S
  <2> QED BY Zenon, <1>1, <1>2, InductionTo
<1> QED BY Zenon, <1>3

(* Equal terms have equal sums.                                             *)
LEMMA SumSame ==
  ASSUME NEW n \in Nat, NEW g, NEW h, \A j \in 1 .. n : g[j] \in Int /\ h[j] = g[j]
  PROVE  Sum(g, n) = Sum(h, n)
<1> DEFINE S == {j \in 0 .. n : Sum(g, j) = Sum(h, j)}
<1>s. /\ Sum(g, 0) = 0 /\ Sum(h, 0) = 0
      /\ \A j \in 1 .. n : Sum(g, j) = Sum(g, j - 1) + g[j]
      /\ \A j \in 1 .. n : Sum(h, j) = Sum(h, j - 1) + h[j]
  <2>1. \A j \in 1 .. n : g[j] \in Int /\ h[j] \in Int
    BY Zenon
  <2> QED BY Zenon, <2>1, SumSteps
<1>0. 0 \in 0 .. n /\ n \in 0 .. n
  BY SMT
<1>1. 0 \in S
  BY Zenon, <1>0, <1>s
<1>2. ASSUME NEW k \in 0 .. n - 1, k \in S PROVE k + 1 \in S
  <2>1. k + 1 \in 1 .. n /\ k + 1 \in 0 .. n /\ (k + 1) - 1 = k
    BY SMT
  <2>2. Sum(g, k + 1) = Sum(g, k) + g[k + 1] /\ Sum(h, k + 1) = Sum(h, k) + h[k + 1]
    BY Zenon, <1>s, <2>1
  <2> QED BY Zenon, <1>2, <2>1, <2>2
<1>3. 0 .. n \subseteq S
  <2> HIDE DEF S
  <2> QED BY Zenon, <1>1, <1>2, InductionTo
<1> QED BY Zenon, <1>0, <1>3

(* A sum of sums of two terms is the sum of the two sums.                   *)
LEMMA SumPlus ==
  ASSUME NEW n \in Nat, NEW g, NEW h, NEW t,
         \A j \in 1 .. n : g[j] \in Int /\ h[j] \in Int /\ t[j] = g[j] + h[j]
  PROVE  Sum(t, n) = Sum(g, n) + Sum(h, n)
<1> DEFINE S == {j \in 0 .. n : Sum(t, j) = Sum(g, j) + Sum(h, j)}
<1>0. 0 \in 0 .. n /\ n \in 0 .. n
  BY SMT
<1>s. /\ Sum(g, 0) = 0 /\ Sum(h, 0) = 0 /\ Sum(t, 0) = 0
      /\ \A j \in 0 .. n : Sum(g, j) \in Int /\ Sum(h, j) \in Int
      /\ \A j \in 1 .. n : Sum(g, j) = Sum(g, j - 1) + g[j]
      /\ \A j \in 1 .. n : Sum(h, j) = Sum(h, j - 1) + h[j]
      /\ \A j \in 1 .. n : Sum(t, j) = Sum(t, j - 1) + t[j]
  <2>1. \A j \in 1 .. n : g[j] \in Int /\ h[j] \in Int /\ t[j] \in Int
    BY SMT
  <2> QED BY Zenon, <2>1, SumSteps
<1>1. 0 \in S
  <2>1. 0 = 0 + 0
    BY SMT
  <2> QED BY Zenon, <1>0, <1>s, <2>1
<1>2. ASSUME NEW k \in 0 .. n - 1, k \in S PROVE k + 1 \in S
  <2>1. k + 1 \in 1 .. n /\ k + 1 \in 0 .. n /\ (k + 1) - 1 = k
    BY SMT
  <2>2. /\ Sum(g, k + 1) = Sum(g, k) + g[k + 1] /\ Sum(h, k + 1) = Sum(h, k) + h[k + 1]
        /\ Sum(t, k + 1) = (Sum(g, k) + Sum(h, k)) + (g[k + 1] + h[k + 1])
    BY Zenon, <1>2, <1>s, <2>1
  <2>3. Sum(g, k) \in Int /\ Sum(h, k) \in Int /\ g[k + 1] \in Int /\ h[k + 1] \in Int
    BY Zenon, <1>2, <1>s, <2>1
  <2>4. Sum(t, k + 1) = Sum(g, k + 1) + Sum(h, k + 1)
    BY SMT, <2>2, <2>3
  <2> QED BY Zenon, <2>1, <2>4
<1>3. 0 .. n \subseteq S
  <2> HIDE DEF S
  <2> QED BY Zenon, <1>1, <1>2, InductionTo
<1> QED BY Zenon, <1>0, <1>3

(* A factor of all the terms is a factor of their sum.                      *)
LEMMA SumTimes ==
  ASSUME NEW n \in Nat, NEW g, NEW t, NEW a \in Int,
         \A j \in 1 .. n : g[j] \in Int /\ t[j] = a * g[j]
  PROVE  Sum(t, n) = a * Sum(g, n)
<1> DEFINE S == {j \in 0 .. n : Sum(t, j) = a * Sum(g, j)}
<1>0. 0 \in 0 .. n /\ n \in 0 .. n
  BY SMT
<1>s. /\ Sum(g, 0) = 0 /\ Sum(t, 0) = 0
      /\ \A j \in 0 .. n : Sum(g, j) \in Int
      /\ \A j \in 1 .. n : Sum(g, j) = Sum(g, j - 1) + g[j]
      /\ \A j \in 1 .. n : Sum(t, j) = Sum(t, j - 1) + t[j]
  <2>1. ASSUME NEW x \in Int PROVE a * x \in Int
    BY SMT
  <2>2. \A j \in 1 .. n : g[j] \in Int /\ t[j] \in Int
    BY Zenon, <2>1
  <2> QED BY Zenon, <2>2, SumSteps
<1>1. 0 \in S
  <2>1. a * 0 = 0
    BY SMT
  <2> QED BY Zenon, <1>0, <1>s, <2>1
<1>2. ASSUME NEW k \in 0 .. n - 1, k \in S PROVE k + 1 \in S
  <2>1. k + 1 \in 1 .. n /\ k + 1 \in 0 .. n /\ (k + 1) - 1 = k
    BY SMT
  <2>2. /\ Sum(g, k + 1) = Sum(g, k) + g[k + 1]
        /\ Sum(t, k + 1) = a * Sum(g, k) + a * g[k + 1]
        /\ Sum(g, k) \in Int /\ g[k + 1] \in Int
    BY Zenon, <1>2, <1>s, <2>1
  <2>3. ASSUME NEW x \in Int, NEW y \in Int PROVE a * (x + y) = a * x + a * y
    BY SMT
  <2>4. Sum(t, k + 1) = a * Sum(g, k + 1)
    BY Zenon, <2>2, <2>3
  <2> QED BY Zenon, <2>1, <2>4
<1>3. 0 .. n \subseteq S
  <2> HIDE DEF S
  <2> QED BY Zenon, <1>1, <1>2, InductionTo
<1> QED BY Zenon, <1>0, <1>3

(* Zeros after the first m terms add nothing.                               *)
LEMMA SumTail ==
  ASSUME NEW n \in Nat, NEW m \in 0 .. n, NEW g,
         \A j \in 1 .. n : g[j] \in Int /\ (j > m => g[j] = 0)
  PROVE  Sum(g, n) = Sum(g, m)
<1> DEFINE S == {j \in 0 .. n : j >= m => Sum(g, j) = Sum(g, m)}
<1>0. 0 \in 0 .. n /\ n \in 0 .. n /\ n >= m /\ (0 >= m => m = 0)
  BY SMT
<1>s. /\ \A j \in 0 .. n : Sum(g, j) \in Int
      /\ \A j \in 1 .. n : Sum(g, j) = Sum(g, j - 1) + g[j]
  BY Zenon, SumSteps
<1>1. 0 \in S
  BY Zenon, <1>0
<1>2. ASSUME NEW k \in 0 .. n - 1, k \in S PROVE k + 1 \in S
  <2>1. k + 1 \in 1 .. n /\ k + 1 \in 0 .. n /\ (k + 1) - 1 = k
    BY SMT
  <2>2. Sum(g, k + 1) = Sum(g, k) + g[k + 1] /\ Sum(g, k) \in Int
    BY Zenon, <1>2, <1>s, <2>1
  <2>3. CASE k >= m
    <3>1. Sum(g, k) = Sum(g, m)
      BY Zenon, <1>2, <2>3
    <3>2. k + 1 > m
      BY SMT, <2>3
    <3>3. g[k + 1] = 0
      BY Zenon, <2>1, <3>2
    <3>4. Sum(g, k + 1) = Sum(g, m)
      BY SMT, <2>2, <3>1, <3>3
    <3> QED BY Zenon, <2>1, <3>4
  <2>4. CASE ~ (k >= m)
    <3>1. k + 1 >= m => k + 1 = m
      BY SMT, <2>4
    <3> QED BY Zenon, <2>1, <3>1
  <2> QED BY Zenon, <2>3, <2>4
<1>3. 0 .. n \subseteq S
  <2> HIDE DEF S
  <2> QED BY Zenon, <1>1, <1>2, InductionTo
<1> QED BY Zenon, <1>0, <1>3

(* Two sums whose terms differ at one place differ by as much.              *)
LEMMA SumOneTerm ==
  ASSUME NEW n \in Nat, NEW p \in 1 .. n, NEW g, NEW h,
         \A j \in 1 .. n : g[j] \in Int /\ h[j] \in Int /\ (j # p => g[j] = h[j])
  PROVE  Sum(g, n) - Sum(h, n) = g[p] - h[p]
<1> DEFINE S == {j \in 0 .. n : Sum(g, j) - Sum(h, j) = IF j < p THEN 0 ELSE g[p] - h[p]}
<1>0. 0 \in 0 .. n /\ n \in 0 .. n /\ ~ (n < p) /\ 0 < p /\ 0 - 0 = 0
  BY SMT
<1>s. /\ Sum(g, 0) = 0 /\ Sum(h, 0) = 0
      /\ \A j \in 0 .. n : Sum(g, j) \in Int /\ Sum(h, j) \in Int
      /\ \A j \in 1 .. n : Sum(g, j) = Sum(g, j - 1) + g[j]
      /\ \A j \in 1 .. n : Sum(h, j) = Sum(h, j - 1) + h[j]
  BY Zenon, SumSteps
<1>1. 0 \in S
  BY Zenon, <1>0, <1>s
<1>2. ASSUME NEW k \in 0 .. n - 1, k \in S PROVE k + 1 \in S
  <2>1. k + 1 \in 1 .. n /\ k + 1 \in 0 .. n /\ (k + 1) - 1 = k
    BY SMT
  <2>2. /\ Sum(g, k + 1) = Sum(g, k) + g[k + 1] /\ Sum(h, k + 1) = Sum(h, k) + h[k + 1]
        /\ Sum(g, k) \in Int /\ Sum(h, k) \in Int /\ g[k + 1] \in Int /\ h[k + 1] \in Int
        /\ Sum(g, k) - Sum(h, k) = IF k < p THEN 0 ELSE g[p] - h[p]
        /\ (k + 1 # p => g[k + 1] = h[k + 1])
    BY Zenon, <1>2, <1>s, <2>1
  <2>3. Sum(g, k + 1) - Sum(h, k + 1) = (Sum(g, k) - Sum(h, k)) + (g[k + 1] - h[k + 1])
    BY SMT, <2>2
  <2>4. CASE k + 1 = p
    <3>1. k < p /\ ~ (k + 1 < p)
      BY SMT, <2>4
    <3>2. Sum(g, k + 1) - Sum(h, k + 1) = 0 + (g[k + 1] - h[k + 1])
      BY Zenon, <2>2, <2>3, <3>1
    <3>3. Sum(g, k + 1) - Sum(h, k + 1) = g[k + 1] - h[k + 1]
      BY SMT, <2>2, <3>2
    <3> QED BY Zenon, <2>1, <2>4, <3>1, <3>3
  <2>5. CASE k + 1 # p
    <3>1. Sum(g, k + 1) - Sum(h, k + 1) = Sum(g, k) - Sum(h, k)
      BY SMT, <2>2, <2>3, <2>5
    <3>2. (k + 1 < p) <=> (k < p)
      BY SMT, <2>5
    <3> QED BY Zenon, <2>1, <2>2, <3>1, <3>2
  <2> QED BY Zenon, <2>4, <2>5
<1>3. 0 .. n \subseteq S
  <2> HIDE DEF S
  <2> QED BY Zenon, <1>1, <1>2, InductionTo
<1> QED BY Zenon, <1>0, <1>3

(* A sum continues where a shorter one ends.                                *)
LEMMA SumSplit ==
  ASSUME NEW n \in Nat, NEW m \in Nat, NEW g, NEW h,
         \A j \in 1 .. m + n : g[j] \in Int, \A j \in 1 .. n : h[j] = g[m + j]
  PROVE  Sum(g, m + n) = Sum(g, m) + Sum(h, n)
<1> DEFINE S == {j \in 0 .. n : Sum(g, m + j) = Sum(g, m) + Sum(h, j)}
<1>0. 0 \in 0 .. n /\ n \in 0 .. n /\ m + n \in Nat /\ m \in 0 .. m + n /\ m + 0 = m
  BY SMT
<1>s. /\ \A j \in 0 .. m + n : Sum(g, j) \in Int
      /\ \A j \in 1 .. m + n : Sum(g, j) = Sum(g, j - 1) + g[j]
  BY Zenon, <1>0, SumSteps
<1>h. /\ Sum(h, 0) = 0
      /\ \A j \in 0 .. n : Sum(h, j) \in Int
      /\ \A j \in 1 .. n : Sum(h, j) = Sum(h, j - 1) + h[j]
  <2>1. \A j \in 1 .. n : m + j \in 1 .. m + n
    BY SMT
  <2>2. \A j \in 1 .. n : h[j] \in Int
    BY Zenon, <2>1
  <2> QED BY Zenon, <2>2, SumSteps
<1>1. 0 \in S
  <2>1. \A x \in Int : x + 0 = x
    BY SMT
  <2> QED BY Zenon, <1>0, <1>s, <1>h, <2>1
<1>2. ASSUME NEW k \in 0 .. n - 1, k \in S PROVE k + 1 \in S
  <2>1. /\ k + 1 \in 1 .. n /\ k + 1 \in 0 .. n /\ (k + 1) - 1 = k /\ k \in 0 .. n
        /\ m + (k + 1) \in 1 .. m + n /\ (m + (k + 1)) - 1 = m + k
    BY SMT
  <2>2. /\ Sum(g, m + (k + 1)) = (Sum(g, m) + Sum(h, k)) + g[m + (k + 1)]
        /\ Sum(h, k + 1) = Sum(h, k) + g[m + (k + 1)]
    BY Zenon, <1>2, <1>s, <1>h, <2>1
  <2>3. Sum(g, m) \in Int /\ Sum(h, k) \in Int /\ g[m + (k + 1)] \in Int
    BY Zenon, <1>0, <1>s, <1>h, <2>1
  <2>4. Sum(g, m + (k + 1)) = Sum(g, m) + Sum(h, k + 1)
    BY SMT, <2>2, <2>3
  <2> QED BY Zenon, <2>1, <2>4
<1>3. 0 .. n \subseteq S
  <2> HIDE DEF S
  <2> QED BY Zenon, <1>1, <1>2, InductionTo
<1> QED BY Zenon, <1>0, <1>3

\* The sum of the sums of c rows of r terms.
SumOfSums(d, c, r) == Sum([i \in 1 .. c |-> Sum(d[i], r)], c)

(* A sum of c * r terms is the sum of the sums of c blocks of r terms.      *)
LEMMA SumBlocks ==
  ASSUME NEW c \in Nat, NEW r \in Nat, NEW g, NEW d,
         \A j \in 1 .. r * c : g[j] \in Int,
         \A i \in 1 .. c, k \in 1 .. r : d[i][k] = g[r * (i - 1) + k]
  PROVE  SumOfSums(d, c, r) = Sum(g, r * c)
<1> DEFINE b == [i \in 1 .. c |-> Sum(d[i], r)]
           S == {i \in 0 .. c : Sum(b, i) = Sum(g, r * i)}
<1>0. 0 \in 0 .. c /\ c \in 0 .. c /\ r * 0 = 0 /\ 0 \in Nat
  BY SMT
<1>1. ASSUME NEW i \in 1 .. c
      PROVE  /\ r * (i - 1) \in Nat /\ r * (i - 1) + r = r * i /\ r * i <= r * c
             /\ \A k \in 1 .. r : r * (i - 1) + k \in 1 .. r * c
             /\ \A k \in 1 .. r * (i - 1) + r : k \in 1 .. r * c
  <2>1. r * (i - 1) \in Nat /\ r * (i - 1) + r = r * i
    BY SMT
  <2>2. r * i <= r * c
    BY SMT
  <2>3. r * i \in Int /\ r * c \in Int
    BY SMT
  <2> DEFINE x == r * (i - 1)
             y == r * i
             z == r * c
  <2>4. x \in Nat /\ x + r = y /\ y <= z /\ y \in Int /\ z \in Int
    BY Zenon, <2>1, <2>2, <2>3
  <2> HIDE DEF x, y, z
  <2>5. \A k \in 1 .. r : x + k \in 1 .. z
    BY SMT, <2>4
  <2>6. \A k \in 1 .. x + r : k \in 1 .. z
    BY SMT, <2>4
  <2> QED BY Zenon, <2>1, <2>2, <2>5, <2>6 DEF x, y, z
<1>2. ASSUME NEW i \in 1 .. c PROVE b[i] \in Int
  <2>1. \A k \in 1 .. r : d[i][k] \in Int
    BY Zenon, <1>1
  <2>2. r \in 0 .. r
    BY SMT
  <2>3. \A j \in 0 .. r : Sum(d[i], j) \in Int
    BY Zenon, <2>1, SumSteps
  <2>4. b[i] = Sum(d[i], r)
    BY Zenon
  <2> HIDE DEF b
  <2> QED BY Zenon, <2>2, <2>3, <2>4
<1>s. /\ Sum(b, 0) = 0
      /\ \A j \in 1 .. c : Sum(b, j) = Sum(b, j - 1) + b[j]
  <2> HIDE DEF b
  <2> QED BY Zenon, <1>2, SumSteps
<1>3. 0 \in S
  <2>1. \A j \in 1 .. 0 : g[j] \in Int
    BY SMT
  <2>2. Sum(g, 0) = 0
    BY Zenon, <1>0, <2>1, SumSteps
  <2> QED BY Zenon, <1>0, <1>s, <2>2
<1>4. ASSUME NEW k \in 0 .. c - 1, k \in S PROVE k + 1 \in S
  <2>1. k + 1 \in 1 .. c /\ k + 1 \in 0 .. c /\ (k + 1) - 1 = k
    BY SMT
  <2>2. Sum(b, k + 1) = Sum(g, r * k) + Sum(d[k + 1], r)
    BY Zenon, <1>4, <1>s, <2>1
  <2>3. /\ r * k \in Nat /\ r * k + r = r * (k + 1)
        /\ \A j \in 1 .. r * k + r : g[j] \in Int
        /\ \A j \in 1 .. r : d[k + 1][j] = g[r * k + j]
    BY Zenon, <1>1, <2>1
  <2>4. Sum(g, r * k + r) = Sum(g, r * k) + Sum(d[k + 1], r)
    <3> DEFINE x == r * k
               w == d[k + 1]
    <3> HIDE DEF x, w
    <3>1. x \in Nat /\ (\A j \in 1 .. x + r : g[j] \in Int) /\ (\A j \in 1 .. r : w[j] = g[x + j])
      BY Zenon, <2>3 DEF x, w
    <3>2. Sum(g, x + r) = Sum(g, x) + Sum(w, r)
      BY SMT, <3>1, SumSplit
    <3> QED BY Zenon, <3>2 DEF x, w
  <2> QED BY Zenon, <2>1, <2>2, <2>3, <2>4
<1>5. 0 .. c \subseteq S
  <2> HIDE DEF S
  <2> QED BY Zenon, <1>3, <1>4, InductionTo
<1> QED BY Zenon, <1>0, <1>5 DEF SumOfSums

(* The sum of the sums of the rows of a matrix is that of its columns.      *)
LEMMA SumExchange ==
  ASSUME NEW c \in Nat, NEW r \in Nat, NEW d, NEW e,
         \A i \in 1 .. c, k \in 1 .. r : d[i][k] \in Int /\ e[k][i] = d[i][k]
  PROVE  SumOfSums(d, c, r) = SumOfSums(e, r, c)
<1> DEFINE b == [i \in 1 .. c |-> Sum(d[i], r)]
           a(j) == [k \in 1 .. r |-> Sum(e[k], j)]
           S == {j \in 0 .. c : Sum(b, j) = Sum(a(j), r)}
<1>0. 0 \in 0 .. c /\ c \in 0 .. c /\ 0 \in 0 .. r /\ r \in 0 .. r
  BY SMT
<1>e. ASSUME NEW k \in 1 .. r
      PROVE  /\ Sum(e[k], 0) = 0
             /\ \A j \in 0 .. c : Sum(e[k], j) \in Int
             /\ \A j \in 1 .. c : Sum(e[k], j) = Sum(e[k], j - 1) + e[k][j]
  <2>1. \A i \in 1 .. c : e[k][i] \in Int
    BY Zenon
  <2> QED BY Zenon, <2>1, SumSteps
<1>b. /\ Sum(b, 0) = 0
      /\ \A j \in 1 .. c : Sum(b, j) = Sum(b, j - 1) + b[j]
  <2>1. ASSUME NEW i \in 1 .. c PROVE b[i] \in Int
    <3>1. \A k \in 1 .. r : d[i][k] \in Int
      BY Zenon
    <3> QED BY Zenon, <1>0, <3>1, SumSteps
  <2> HIDE DEF b
  <2> QED BY Zenon, <2>1, SumSteps
<1>1. 0 \in S
  <2> DEFINE z == a(0)
  <2>1. \A k \in 1 .. r : z[k] = 0
    BY Zenon, <1>e
  <2> HIDE DEF z
  <2>2. \A k \in 1 .. r : z[k] \in Int /\ (k > 0 => z[k] = 0)
    BY SMT, <2>1
  <2>3. Sum(z, r) = Sum(z, 0)
    BY Zenon, <1>0, <2>2, SumTail
  <2>4. Sum(z, 0) = 0
    BY Zenon, <2>2, SumSteps
  <2>5. Sum(b, 0) = Sum(z, r)
    BY Zenon, <1>b, <2>3, <2>4
  <2> QED BY Zenon, <1>0, <2>5 DEF z
<1>2. ASSUME NEW j \in 0 .. c - 1, j \in S PROVE j + 1 \in S
  <2>1. j + 1 \in 1 .. c /\ j + 1 \in 0 .. c /\ (j + 1) - 1 = j /\ j \in 0 .. c
    BY SMT
  <2> DEFINE x == a(j)
             y == a(j + 1)
             w == d[j + 1]
  <2>2. \A k \in 1 .. r : x[k] \in Int /\ w[k] \in Int /\ y[k] = x[k] + w[k]
    <3> TAKE k \in 1 .. r
    <3>1. x[k] = Sum(e[k], j) /\ y[k] = Sum(e[k], j + 1)
      BY Zenon
    <3>2. Sum(e[k], j) \in Int /\ Sum(e[k], j + 1) = Sum(e[k], j) + e[k][j + 1]
      BY Zenon, <1>e, <2>1
    <3>3. w[k] \in Int /\ e[k][j + 1] = w[k]
      BY Zenon, <2>1
    <3> QED BY Zenon, <3>1, <3>2, <3>3
  <2>3. Sum(b, j + 1) = Sum(x, r) + Sum(w, r)
    BY Zenon, <1>2, <1>b, <2>1
  <2>4. Sum(y, r) = Sum(x, r) + Sum(w, r)
    <3> HIDE DEF x, y, w
    <3> QED BY Zenon, <2>2, SumPlus
  <2> QED BY Zenon, <2>1, <2>3, <2>4
<1>3. 0 .. c \subseteq S
  <2> HIDE DEF S
  <2> QED BY Zenon, <1>1, <1>2, InductionTo
<1> QED BY Zenon, <1>0, <1>3 DEF SumOfSums

-----------------------------------------------------------------------------
\* Powers, and numbers that are equal modulo P57.

(* Powers: the first one, one factor more, and that they are positive.      *)
LEMMA PowerSteps ==
  ASSUME NEW b \in Nat \ {0}
  PROVE  /\ Power(b, 0) = 1
         /\ \A n \in Nat : Power(b, n) \in Nat \ {0} /\ Power(b, n + 1) = Power(b, n) * b
<1> DEFINE step == [j \in Nat |-> [acc \in Nat |-> acc * b]]
           V == Nat \ {0}
<1>1. \A n : Power(b, n) = Loop(step, 1, n)
  BY Zenon DEF Power
<1>2. 1 \in V /\ \A x \in V : x \in Nat /\ x * b \in V
  BY SMT
<1>3. \A j \in Nat : \A x \in V : step[j][x] = x * b
  BY Zenon
<1> HIDE DEF step, V
<1>4. ASSUME NEW n \in Nat PROVE Unfolds(step, 1, V, n)
  <2>1. \A j \in 1 .. n : j \in Nat
    BY SMT
  <2>2. StepsIn(step, V, n)
    BY Zenon, <1>2, <1>3, <2>1 DEF StepsIn
  <2> QED BY Zenon, <1>2, <2>2, LoopSteps
<1>5. Power(b, 0) = 1
  <2>1. Unfolds(step, 1, V, 0)
    BY SMT, <1>4
  <2> QED BY Zenon, <1>1, <2>1 DEF Unfolds
<1>6. ASSUME NEW n \in Nat PROVE Power(b, n) \in V /\ Power(b, n + 1) = Power(b, n) * b
  <2>1. n + 1 \in Nat /\ n + 1 \in 1 .. n + 1 /\ n \in 0 .. n + 1 /\ (n + 1) - 1 = n
    BY SMT
  <2>2. Unfolds(step, 1, V, n + 1)
    BY Zenon, <1>4, <2>1
  <2>3. Loop(step, 1, n) \in V /\ Loop(step, 1, n + 1) = step[n + 1][Loop(step, 1, n)]
    BY Zenon, <2>1, <2>2 DEF Unfolds
  <2>4. Loop(step, 1, n + 1) = Loop(step, 1, n) * b
    BY Zenon, <1>3, <2>1, <2>3
  <2> QED BY Zenon, <1>1, <2>3, <2>4
<1> QED BY Zenon, <1>5, <1>6 DEF V

-----------------------------------------------------------------------------
\* a and b differ by a multiple of p.
Congruent(p, a, b) == \E q \in Int : a = b + p * q

(* What a division leaves over is unique.                                   *)
LEMMA Remainder ==
  ASSUME NEW p \in Nat \ {0}, NEW x \in Int, NEW q \in Int, NEW r \in 0 .. p - 1, x = r + p * q
  PROVE  x % p = r /\ x \div p = q
<1> DEFINE s == x % p
           t == x \div p
<1>1. s \in 0 .. p - 1 /\ t \in Int /\ x = p * t + s
  BY SMT
<1> HIDE DEF s, t
<1>2. p * t + s = p * q + r
  BY SMT, <1>1
<1>3. t = q
  <2>1. ASSUME t >= q + 1 PROVE FALSE
    <3>1. p * t >= p * (q + 1) /\ p * (q + 1) = p * q + p
      BY SMT, <1>1, <2>1
    <3>2. p * t \in Int /\ p * q \in Int
      BY SMT, <1>1
    <3> QED BY SMT, <1>1, <1>2, <3>1, <3>2
  <2>2. ASSUME q >= t + 1 PROVE FALSE
    <3>1. p * q >= p * (t + 1) /\ p * (t + 1) = p * t + p
      BY SMT, <1>1, <2>2
    <3>2. p * t \in Int /\ p * q \in Int
      BY SMT, <1>1
    <3> QED BY SMT, <1>1, <1>2, <3>1, <3>2
  <2> QED BY SMT, <1>1, <2>1, <2>2
<1>4. s = r
  <2>1. p * q \in Int
    BY SMT
  <2> QED BY SMT, <1>1, <1>2, <1>3, <2>1
<1> QED BY Zenon, <1>3, <1>4 DEF s, t

(* Numbers are congruent when they leave the same over.                     *)
LEMMA CongruentMod ==
  ASSUME NEW p \in Nat \ {0}, NEW a \in Int, NEW b \in Int
  PROVE  Congruent(p, a, b) <=> a % p = b % p
<1> DEFINE r == b % p
           t == b \div p
<1>1. r \in 0 .. p - 1 /\ t \in Int /\ b = r + p * t
  BY SMT
<1>2. a % p \in Int /\ a \div p \in Int /\ a = (a % p) + p * (a \div p)
  BY SMT
<1>3. ASSUME Congruent(p, a, b) PROVE a % p = b % p
  <2>1. PICK q \in Int : a = b + p * q
    BY Zenon, <1>3 DEF Congruent
  <2> HIDE DEF r, t
  <2>2. a = r + p * (t + q) /\ t + q \in Int
    BY SMT, <1>1, <2>1
  <2>3. a % p = r
    BY Zenon, <1>1, <2>2, Remainder
  <2> QED BY Zenon, <2>3 DEF r
<1>4. ASSUME a % p = b % p PROVE Congruent(p, a, b)
  <2> DEFINE u == a \div p
  <2>1. u \in Int /\ a = r + p * u
    BY Zenon, <1>2, <1>4
  <2> HIDE DEF r, t, u
  <2>2. a = b + p * (u - t) /\ u - t \in Int
    BY SMT, <1>1, <2>1
  <2> QED BY Zenon, <2>2 DEF Congruent
<1> QED BY Zenon, <1>3, <1>4

(* A number is congruent to what it leaves over.                            *)
LEMMA ModCongruent ==
  ASSUME NEW p \in Nat \ {0}, NEW a \in Int
  PROVE  a % p \in 0 .. p - 1 /\ Congruent(p, a % p, a)
<1> DEFINE r == a % p
           t == a \div p
<1>1. r \in 0 .. p - 1 /\ t \in Int /\ a = r + p * t
  BY SMT
<1> HIDE DEF r, t
<1>2. r = a + p * (0 - t) /\ 0 - t \in Int
  BY SMT, <1>1
<1>3. Congruent(p, r, a)
  BY Zenon, <1>2 DEF Congruent
<1> QED BY Zenon, <1>1, <1>3 DEF r

(* Congruence is symmetric                                                  *)
LEMMA CongruentSym ==
  ASSUME NEW p \in Nat, NEW a \in Int, NEW b \in Int, Congruent(p, a, b)
  PROVE  Congruent(p, b, a)
<1>1. PICK q \in Int : a = b + p * q
  BY Zenon DEF Congruent
<1>2. b = a + p * (0 - q) /\ 0 - q \in Int
  BY SMT, <1>1
<1> QED BY Zenon, <1>2 DEF Congruent

(* and transitive.                                                          *)
LEMMA CongruentTrans ==
  ASSUME NEW p \in Nat, NEW a \in Int, NEW b \in Int, NEW c \in Int,
         Congruent(p, a, b), Congruent(p, b, c)
  PROVE  Congruent(p, a, c)
<1>1. PICK q \in Int : a = b + p * q
  BY Zenon DEF Congruent
<1>2. PICK r \in Int : b = c + p * r
  BY Zenon DEF Congruent
<1>3. a = c + p * (q + r) /\ q + r \in Int
  BY SMT, <1>1, <1>2
<1> QED BY Zenon, <1>3 DEF Congruent

(* Congruence is kept by sums                                               *)
LEMMA CongruentPlus ==
  ASSUME NEW p \in Nat, NEW a \in Int, NEW b \in Int, NEW c \in Int, NEW d \in Int,
         Congruent(p, a, b), Congruent(p, c, d)
  PROVE  Congruent(p, a + c, b + d)
<1>1. PICK q \in Int : a = b + p * q
  BY Zenon DEF Congruent
<1>2. PICK r \in Int : c = d + p * r
  BY Zenon DEF Congruent
<1>3. a + c = (b + d) + p * (q + r) /\ q + r \in Int
  BY SMT, <1>1, <1>2
<1> QED BY Zenon, <1>3 DEF Congruent

(* and by products with a number.                                           *)
LEMMA CongruentTimes ==
  ASSUME NEW p \in Nat, NEW a \in Int, NEW b \in Int, NEW c \in Int, Congruent(p, a, b)
  PROVE  Congruent(p, a * c, b * c) /\ Congruent(p, c * a, c * b)
<1>1. PICK q \in Int : a = b + p * q
  BY Zenon DEF Congruent
<1>2. a * c = b * c + p * (q * c) /\ c * a = c * b + p * (q * c) /\ q * c \in Int
  BY SMT, <1>1
<1> QED BY Zenon, <1>2 DEF Congruent

(* Sums of congruent terms are congruent.                                   *)
LEMMA SumCongruent ==
  ASSUME NEW p \in Nat \ {0}, NEW n \in Nat, NEW g, NEW h,
         \A j \in 1 .. n : g[j] \in Int /\ h[j] \in Int /\ Congruent(p, g[j], h[j])
  PROVE  Congruent(p, Sum(g, n), Sum(h, n))
<1> DEFINE S == {j \in 0 .. n : Congruent(p, Sum(g, j), Sum(h, j))}
<1>0. 0 \in 0 .. n /\ n \in 0 .. n /\ p \in Nat
  BY SMT
<1>s. /\ Sum(g, 0) = 0 /\ Sum(h, 0) = 0
      /\ \A j \in 0 .. n : Sum(g, j) \in Int /\ Sum(h, j) \in Int
      /\ \A j \in 1 .. n : Sum(g, j) = Sum(g, j - 1) + g[j]
      /\ \A j \in 1 .. n : Sum(h, j) = Sum(h, j - 1) + h[j]
  BY Zenon, SumSteps
<1>1. 0 \in S
  <2>1. 0 = 0 + p * 0 /\ 0 \in Int
    BY SMT
  <2>2. Congruent(p, 0, 0)
    BY Zenon, <2>1 DEF Congruent
  <2> QED BY Zenon, <1>0, <1>s, <2>2
<1>2. ASSUME NEW k \in 0 .. n - 1, k \in S PROVE k + 1 \in S
  <2>1. k + 1 \in 1 .. n /\ k + 1 \in 0 .. n /\ (k + 1) - 1 = k
    BY SMT
  <2>2. /\ Sum(g, k) \in Int /\ Sum(h, k) \in Int /\ g[k + 1] \in Int /\ h[k + 1] \in Int
        /\ Congruent(p, Sum(g, k), Sum(h, k)) /\ Congruent(p, g[k + 1], h[k + 1])
    BY Zenon, <1>2, <1>s, <2>1
  <2>3. Congruent(p, Sum(g, k) + g[k + 1], Sum(h, k) + h[k + 1])
    BY Zenon, <1>0, <2>2, CongruentPlus
  <2>4. Congruent(p, Sum(g, k + 1), Sum(h, k + 1))
    BY Zenon, <1>s, <2>1, <2>3
  <2> QED BY Zenon, <2>1, <2>4
<1>3. 0 .. n \subseteq S
  <2> HIDE DEF S
  <2> QED BY Zenon, <1>1, <1>2, InductionTo
<1> QED BY Zenon, <1>0, <1>3

-----------------------------------------------------------------------------
\* Bytes and numbers.

(* A byte has at least two values.                                          *)
LEMMA ByteIsBase == BYTE \in Nat \ {0} /\ BYTE \in Nat /\ BYTE >= 2
BY SMT, PorAssumption

(* The powers of the number of values of a byte are positive numbers.       *)
LEMMA BytePowers ==
  /\ Power(BYTE, 0) = 1
  /\ \A n \in Nat : Power(BYTE, n) \in Nat \ {0} /\ Power(BYTE, n + 1) = Power(BYTE, n) * BYTE
BY Zenon, ByteIsBase, PowerSteps

\* The terms of FromLeBytes.
Digits(bytes, n) == [i \in 1 .. n |-> bytes[i] * Power(BYTE, i - 1)]

(* The number of n bytes is a sum of n terms, and below the n-th power.     *)
LEMMA FromLeBytesSum ==
  ASSUME NEW n \in Nat, NEW bytes \in [1 .. n -> 0 .. BYTE - 1]
  PROVE  /\ Len(bytes) = n
         /\ FromLeBytes(bytes) = Sum(Digits(bytes, n), n)
         /\ \A i \in 1 .. n : Digits(bytes, n)[i] \in Nat
         /\ \A j \in 0 .. n : Sum(Digits(bytes, n), j) \in 0 .. Power(BYTE, j) - 1
<1> DEFINE d == Digits(bytes, n)
<1>0. 0 \in 0 .. n /\ n \in 0 .. n /\ \A i \in 1 .. n : i - 1 \in Nat
  BY SMT
<1>1. Len(bytes) = n
  BY SMT
<1>2. FromLeBytes(bytes) = Sum(d, n)
  BY Zenon, <1>1 DEF FromLeBytes, Digits
<1>3. ASSUME NEW i \in 1 .. n
      PROVE  d[i] = bytes[i] * Power(BYTE, i - 1) /\ d[i] \in Nat /\ d[i] \in Int
             /\ bytes[i] \in Nat /\ bytes[i] <= BYTE - 1 /\ Power(BYTE, i - 1) \in Nat \ {0}
  <2>1. d[i] = bytes[i] * Power(BYTE, i - 1)
    BY Zenon DEF Digits
  <2>2. bytes[i] \in Nat /\ bytes[i] <= BYTE - 1
    BY SMT, ByteIsBase
  <2>3. Power(BYTE, i - 1) \in Nat \ {0}
    BY Zenon, <1>0, BytePowers
  <2>4. \A x \in Nat, y \in Nat \ {0} : x * y \in Nat /\ x * y \in Int
    BY SMT
  <2> QED BY Zenon, <2>1, <2>2, <2>3, <2>4
<1> HIDE DEF d
<1>s. /\ Sum(d, 0) = 0
      /\ \A j \in 1 .. n : Sum(d, j) = Sum(d, j - 1) + d[j]
  BY Zenon, <1>3, SumSteps
<1> DEFINE S == {j \in 0 .. n : Sum(d, j) \in 0 .. Power(BYTE, j) - 1}
<1>4. 0 \in S
  <2>1. 0 \in 0 .. 1 - 1
    BY SMT
  <2> QED BY Zenon, <1>0, <1>s, <2>1, BytePowers
<1>5. ASSUME NEW k \in 0 .. n - 1, k \in S PROVE k + 1 \in S
  <2>1. k + 1 \in 1 .. n /\ k + 1 \in 0 .. n /\ (k + 1) - 1 = k /\ k \in Nat
    BY SMT
  <2> DEFINE p == Power(BYTE, k)
             x == Sum(d, k)
             y == bytes[k + 1]
  <2>2. /\ Sum(d, k + 1) = x + y * p /\ Power(BYTE, k + 1) = p * BYTE
        /\ p \in Nat \ {0} /\ x \in 0 .. p - 1 /\ y \in Nat /\ y <= BYTE - 1
    BY Zenon, <1>3, <1>5, <1>s, <2>1, BytePowers
  <2> HIDE DEF p, x, y
  <2>3. x + y * p \in 0 .. p * BYTE - 1
    <3>1. BYTE \in Nat /\ p \in Nat
      BY SMT, <2>2, ByteIsBase
    <3>2. y * p <= (BYTE - 1) * p /\ (BYTE - 1) * p = p * BYTE - p
      BY SMT, <2>2, <3>1
    <3> DEFINE u == y * p
               v == p * BYTE
    <3>3. u \in Nat /\ v \in Int /\ u <= v - p
      BY SMT, <2>2, <3>1, <3>2
    <3> HIDE DEF u, v
    <3>4. x + u \in 0 .. v - 1
      BY SMT, <2>2, <3>1, <3>3
    <3> QED BY Zenon, <3>4 DEF u, v
  <2>4. Sum(d, k + 1) \in 0 .. Power(BYTE, k + 1) - 1
    BY Zenon, <2>2, <2>3
  <2> QED BY Zenon, <2>1, <2>4
<1>6. 0 .. n \subseteq S
  <2> HIDE DEF S
  <2> QED BY Zenon, <1>4, <1>5, InductionTo
<1> QED BY Zenon, <1>1, <1>2, <1>3, <1>6 DEF d

(* from_le_bytes gives back the number whose bytes it is given.             *)
LEMMA LeBytesBack ==
  ASSUME NEW x \in 0 .. Power(BYTE, U64) - 1
  PROVE  ToLeBytes(x) \in [1 .. U64 -> 0 .. BYTE - 1] /\ FromLeBytes(ToLeBytes(x)) = x
<1> DEFINE b == ToLeBytes(x)
           d == Digits(b, U64)
<1>0. U64 \in Nat /\ 0 \in 0 .. U64 /\ U64 \in 0 .. U64 /\ \A i \in 1 .. U64 : i - 1 \in Nat
  BY SMT, PorAssumption
<1>x. x \in Nat
  <2>1. Power(BYTE, U64) \in Nat
    BY Zenon, <1>0, BytePowers
  <2> QED BY SMT, <2>1
<1>1. \A p \in Nat \ {0} : (x \div p) % BYTE \in 0 .. BYTE - 1
  BY SMT, <1>x, ByteIsBase
<1>2. b \in [1 .. U64 -> 0 .. BYTE - 1]
  <2>1. \A i \in 1 .. U64 : (x \div Power(BYTE, i - 1)) % BYTE \in 0 .. BYTE - 1
    BY Zenon, <1>0, <1>1, BytePowers
  <2> QED BY Zenon, <2>1 DEF ToLeBytes
<1>3. \A i \in 1 .. U64 : d[i] = ((x \div Power(BYTE, i - 1)) % BYTE) * Power(BYTE, i - 1)
  BY Zenon DEF Digits, ToLeBytes
<1> HIDE DEF b
<1>4. FromLeBytes(b) = Sum(d, U64) /\ \A i \in 1 .. U64 : d[i] \in Nat
  BY Zenon, <1>0, <1>2, FromLeBytesSum
<1> HIDE DEF d
<1>s. /\ Sum(d, 0) = 0
      /\ \A j \in 1 .. U64 : Sum(d, j) = Sum(d, j - 1) + d[j]
  <2>1. \A i \in 1 .. U64 : d[i] \in Int
    BY SMT, <1>4
  <2> QED BY Zenon, <1>0, <2>1, SumSteps
<1> DEFINE S == {j \in 0 .. U64 : Sum(d, j) = x % Power(BYTE, j)}
<1>5. 0 \in S
  <2>1. x % 1 = 0
    BY SMT, <1>x
  <2> QED BY Zenon, <1>0, <1>s, <2>1, BytePowers
<1>6. ASSUME NEW k \in 0 .. U64 - 1, k \in S PROVE k + 1 \in S
  <2>1. k + 1 \in 1 .. U64 /\ k + 1 \in 0 .. U64 /\ (k + 1) - 1 = k /\ k \in Nat
    BY SMT, <1>0
  <2> DEFINE p == Power(BYTE, k)
             q == x \div p
             r == x % p
             e == q % BYTE
             t == q \div BYTE
  <2>2. /\ Sum(d, k + 1) = r + e * p /\ Power(BYTE, k + 1) = p * BYTE /\ p \in Nat \ {0}
    BY Zenon, <1>3, <1>6, <1>s, <2>1, BytePowers
  <2>3. q \in Nat /\ r \in 0 .. p - 1 /\ x = r + p * q
    <3> HIDE DEF p
    <3> QED BY SMT, <1>x, <2>2
  <2>4. e \in 0 .. BYTE - 1 /\ t \in Nat /\ q = e + BYTE * t
    <3> HIDE DEF q
    <3> QED BY SMT, <2>3, ByteIsBase
  <2> HIDE DEF p, q, r, e, t
  <2>5. x = (r + e * p) + (p * BYTE) * t
    BY SMT, <2>2, <2>3, <2>4, ByteIsBase
  <2>6. r + e * p \in 0 .. p * BYTE - 1 /\ p * BYTE \in Nat \ {0}
    <3>1. BYTE \in Nat \ {0} /\ p \in Nat /\ e \in Nat /\ e <= BYTE - 1 /\ r \in Nat /\ r <= p - 1
      BY SMT, <2>2, <2>3, <2>4, ByteIsBase
    <3>2. e * p <= (BYTE - 1) * p /\ (BYTE - 1) * p = p * BYTE - p
      BY SMT, <3>1
    <3>3. e * p \in Nat /\ p * BYTE \in Nat /\ p * BYTE # 0
      BY SMT, <2>2, <3>1
    <3> QED BY SMT, <3>1, <3>2, <3>3
  <2>7. x % (p * BYTE) = r + e * p
    <3>1. x \in Int /\ t \in Int
      BY SMT, <1>x, <2>4
    <3> DEFINE y == r + e * p
               w == p * BYTE
    <3>2. x = y + w * t /\ y \in 0 .. w - 1 /\ w \in Nat \ {0}
      BY Zenon, <2>5, <2>6
    <3> HIDE DEF y, w
    <3>3. x % w = y
      BY Zenon, <3>1, <3>2, Remainder
    <3> QED BY Zenon, <3>3 DEF y, w
  <2> QED BY Zenon, <2>1, <2>2, <2>7
<1>7. 0 .. U64 \subseteq S
  <2> HIDE DEF S
  <2> QED BY Zenon, <1>0, <1>5, <1>6, InductionTo
<1>8. Sum(d, U64) = x % Power(BYTE, U64)
  BY Zenon, <1>0, <1>7
<1>9. x % Power(BYTE, U64) = x
  <2>1. Power(BYTE, U64) \in Nat \ {0}
    BY Zenon, <1>0, BytePowers
  <2> QED BY SMT, <1>x, <2>1
<1> QED BY Zenon, <1>2, <1>4, <1>8, <1>9 DEF b

-----------------------------------------------------------------------------
\* The layout of a file of any length.

(* The chunks hold the file, and all but the last are full.                 *)
LEMMA ChunksHold ==
  ASSUME NEW len \in Nat \ {0}
  PROVE  /\ NumChunks(len) \in Nat \ {0}
         /\ BYTES_UNDER_P * (NumChunks(len) - 1) < len
         /\ len <= BYTES_UNDER_P * NumChunks(len)
<1> DEFINE q == (len - 1) \div BYTES_UNDER_P
<1>1. q \in Nat /\ BYTES_UNDER_P * q <= len - 1 /\ len - 1 < BYTES_UNDER_P * (q + 1)
  BY LayoutAssumption
<1>2. NumChunks(len) = q + 1
  BY <1>1 DEF NumChunks
<1> QED BY <1>1, <1>2, LayoutAssumption

(* The number of rows is the least multiple of CHUNK_ALIGN whose square     *)
(* holds the chunks.                                                        *)
LEMMA RowsIsLeast ==
  ASSUME NEW len \in Nat \ {0}
  PROVE  \E k \in 1 .. NumChunks(len) :
           /\ Rows(len) = CHUNK_ALIGN * k
           /\ NumChunks(len) <= (CHUNK_ALIGN * k) * (CHUNK_ALIGN * k)
           /\ \A j \in 1 .. NumChunks(len) :
                NumChunks(len) <= (CHUNK_ALIGN * j) * (CHUNK_ALIGN * j) => k <= j
<1> DEFINE c == NumChunks(len)
           S == {k \in 1 .. c : c <= (CHUNK_ALIGN * k) * (CHUNK_ALIGN * k)}
<1>1. c \in Nat /\ c >= 1
  BY ChunksHold
<1>2. c <= (CHUNK_ALIGN * c) * (CHUNK_ALIGN * c)
  <2>1. ASSUME NEW x \in Nat, NEW a \in Nat, x >= 1, a >= 1
        PROVE  x <= (a * x) * (a * x)
    <3>1. a * x \in Nat /\ a * x >= x
      BY <2>1
    <3>2. ASSUME NEW y \in Nat, y >= x PROVE y * y >= x
      BY <2>1, <3>2
    <3> QED BY Zenon, <3>1, <3>2
  <2> QED BY <1>1, <2>1, LayoutAssumption
<1>3. c \in S /\ S \subseteq Nat
  BY <1>1, <1>2
<1>4. Min(S) \in S /\ \A y \in S : Min(S) <= y
  BY Zenon, <1>3, MinIsLeast
<1>5. Rows(len) = CHUNK_ALIGN * Min(S)
  BY Zenon DEF Rows
<1> QED BY Zenon, <1>4, <1>5

(* What Tight says of the rows: they hold the chunks, and one alignment     *)
(* less would not.                                                          *)
LEMMA RowsBounds ==
  ASSUME NEW len \in Nat \ {0}
  PROVE  /\ Rows(len) \in Nat /\ Rows(len) >= CHUNK_ALIGN
         /\ NumChunks(len) <= Rows(len) * Rows(len)
         /\ LET less == Rows(len) - CHUNK_ALIGN IN less > 0 => less * less < NumChunks(len)
<1> DEFINE c == NumChunks(len)
<1>1. PICK k \in 1 .. c :
        /\ Rows(len) = CHUNK_ALIGN * k
        /\ c <= (CHUNK_ALIGN * k) * (CHUNK_ALIGN * k)
        /\ \A j \in 1 .. c : c <= (CHUNK_ALIGN * j) * (CHUNK_ALIGN * j) => k <= j
  BY Zenon, RowsIsLeast
<1>2. c \in Nat
  BY Zenon, ChunksHold
<1> HIDE DEF c
<1>3. Rows(len) \in Nat /\ Rows(len) >= CHUNK_ALIGN
  <2>1. ASSUME NEW a \in Nat, NEW n \in Nat, n >= 1 PROVE a * n \in Nat /\ a * n >= a
    BY <2>1
  <2> QED BY <1>1, <1>2, <2>1, LayoutAssumption
<1>4. ASSUME Rows(len) - CHUNK_ALIGN > 0
      PROVE  (Rows(len) - CHUNK_ALIGN) * (Rows(len) - CHUNK_ALIGN) < c
  <2>1. Rows(len) - CHUNK_ALIGN = CHUNK_ALIGN * (k - 1)
    BY <1>1, <1>2, LayoutAssumption
  <2>2. k - 1 \in 1 .. c
    <3>1. k # 1
      BY <1>4, <2>1, LayoutAssumption
    <3> QED BY <1>2, <3>1
  <2>3. ~ (c <= (CHUNK_ALIGN * (k - 1)) * (CHUNK_ALIGN * (k - 1)))
    BY <1>1, <1>2, <2>2
  <2>4. (CHUNK_ALIGN * (k - 1)) * (CHUNK_ALIGN * (k - 1)) \in Int
    BY <1>2, LayoutAssumption
  <2> QED BY <1>2, <2>1, <2>3, <2>4
<1> QED BY Zenon, <1>1, <1>3, <1>4 DEF c

(* The columns hold the chunks, and the last one is not empty.              *)
LEMMA ColsBounds ==
  ASSUME NEW len \in Nat \ {0}
  PROVE  /\ Cols(len) \in Nat \ {0}
         /\ Rows(len) * (Cols(len) - 1) < NumChunks(len)
         /\ NumChunks(len) <= Rows(len) * Cols(len)
<1> DEFINE c == NumChunks(len)
           r == Rows(len)
           q == (c - 1) \div r
<1>1. c \in Nat /\ c >= 1 /\ r \in Nat /\ r >= 1
  BY ChunksHold, RowsBounds, LayoutAssumption
<1>2. Cols(len) = 1 + q
  BY Zenon DEF Cols
<1> HIDE DEF c, r
<1>3. q \in Nat /\ r * q <= c - 1 /\ c - 1 < r * (q + 1)
  BY <1>1
<1>4. Cols(len) - 1 = q /\ Cols(len) = q + 1
  BY <1>2, <1>3
<1> HIDE DEF q
<1>5. r * (Cols(len) - 1) < c /\ c <= r * Cols(len)
  BY <1>1, <1>3, <1>4
<1> QED BY <1>3, <1>4, <1>5 DEF c, r

(* For every length, chunk size and alignment, the slices of the matrix are *)
(* within the padded file, so that from_file and fulfill_challenge index    *)
(* nothing out of bounds, and they hold the whole file.                     *)
THEOREM LayoutHolds == \A len \in Nat \ {0} : SlicesHold(len)
<1> SUFFICES ASSUME NEW len \in Nat \ {0} PROVE SlicesHold(len)
  BY Zenon
<1> DEFINE b == BYTES_UNDER_P
           c == NumChunks(len)
           r == Rows(len)
           k == Cols(len)
<1>1. b \in Nat /\ c \in Nat /\ r \in Nat /\ k \in Nat /\ b >= 1 /\ k >= 1
  BY ChunksHold, RowsBounds, ColsBounds, LayoutAssumption
<1>2. b * (c - 1) < len /\ len <= b * c /\ r * (k - 1) <= c - 1 /\ c <= r * k
  BY ChunksHold, RowsBounds, ColsBounds, <1>1
<1>3. BytesPerRow(len) = b * r
  BY Zenon DEF BytesPerRow
<1> HIDE DEF b, c, r, k
<1>4. ASSUME NEW x \in Int, NEW y \in Int, x <= y PROVE b * x <= b * y
  BY <1>1, <1>4
<1>5. b * (r * (k - 1)) <= b * (c - 1) /\ b * c <= b * (r * k)
  BY <1>1, <1>2, <1>4
<1>6. (b * r) * k = b * (r * k) /\ b * (r * k) = b * (r * (k - 1)) + b * r
  BY <1>1
<1>7. b * (r * (k - 1)) \in Int /\ b * (c - 1) \in Int /\ b * (r * k) \in Int /\ b * r \in Int
      /\ b * c \in Int
  BY <1>1
<1>8. (b * r) * k <= len + b * r /\ len <= (b * r) * k
  BY <1>2, <1>5, <1>6, <1>7
<1> QED BY Zenon, <1>3, <1>8 DEF SlicesHold, k

(* For every length the matrix is as tight as Tight says: the secrets of a  *)
(* contract grow with the root of the file's length.                        *)
THEOREM LayoutTight == \A len \in Nat \ {0} : Tight(len)
<1> SUFFICES ASSUME NEW len \in Nat \ {0} PROVE Tight(len)
  BY Zenon
<1> DEFINE c == NumChunks(len)
           r == Rows(len)
           k == Cols(len)
<1>1. c \in Nat /\ r \in Nat /\ k \in Nat /\ k >= 1 /\ r >= 1
  BY ChunksHold, RowsBounds, ColsBounds, LayoutAssumption
<1>2. r * (k - 1) < c /\ c <= r * r
  BY Zenon, RowsBounds, ColsBounds
<1>3. LET less == r - CHUNK_ALIGN IN less > 0 => less * less < c
  BY Zenon, RowsBounds
<1> HIDE DEF c, r, k
<1>4. (k - 1) * r < c
  BY <1>1, <1>2
<1>5. k <= r
  <2>1. ASSUME k - 1 >= r PROVE FALSE
    <3>1. r * (k - 1) >= r * r
      BY <1>1, <2>1
    <3> QED BY <1>1, <1>2, <3>1
  <2> QED BY <1>1, <2>1
<1> QED BY Zenon, <1>3, <1>4, <1>5 DEF Tight, c, r, k

(* A longer file does not have fewer rows.                                  *)
LEMMA RowsMonotone ==
  ASSUME NEW l \in Nat \ {0}, NEW m \in Nat, l <= m
  PROVE  Rows(l) <= Rows(m)
<1>1. m \in Nat \ {0}
  OBVIOUS
<1> DEFINE c == NumChunks(l)
           d == NumChunks(m)
<1>2. c \in Nat /\ d \in Nat /\ c <= d
  <2>1. (l - 1) \div BYTES_UNDER_P <= (m - 1) \div BYTES_UNDER_P
    <3> DEFINE p == (l - 1) \div BYTES_UNDER_P
               q == (m - 1) \div BYTES_UNDER_P
    <3>1. p \in Nat /\ q \in Nat /\ BYTES_UNDER_P * p <= l - 1
          /\ m - 1 < BYTES_UNDER_P * (q + 1)
      BY <1>1, LayoutAssumption
    <3> HIDE DEF p, q
    <3>2. BYTES_UNDER_P * p < BYTES_UNDER_P * (q + 1)
      BY <1>1, <3>1, LayoutAssumption
    <3>3. p < q + 1
      BY <3>1, <3>2, LayoutAssumption
    <3> QED BY <3>1, <3>3 DEF p, q
  <2>2. c \in Nat /\ d \in Nat
    BY Zenon, <1>1, ChunksHold
  <2>3. (l - 1) \div BYTES_UNDER_P \in Int /\ (m - 1) \div BYTES_UNDER_P \in Int
    BY LayoutAssumption
  <2>4. c = 1 + (l - 1) \div BYTES_UNDER_P /\ d = 1 + (m - 1) \div BYTES_UNDER_P
    BY Zenon DEF NumChunks
  <2> QED BY <2>1, <2>2, <2>3, <2>4
<1>3. PICK i \in 1 .. c :
        /\ Rows(l) = CHUNK_ALIGN * i
        /\ \A j \in 1 .. c : c <= (CHUNK_ALIGN * j) * (CHUNK_ALIGN * j) => i <= j
  BY Zenon, RowsIsLeast
<1>4. PICK k \in 1 .. d : /\ Rows(m) = CHUNK_ALIGN * k
                          /\ d <= (CHUNK_ALIGN * k) * (CHUNK_ALIGN * k)
  BY Zenon, <1>1, RowsIsLeast
<1> HIDE DEF c, d
<1>5. i <= k
  <2>1. CASE k <= c
    <3>1. (CHUNK_ALIGN * k) * (CHUNK_ALIGN * k) \in Int
      BY <1>2, LayoutAssumption
    <3>2. c <= (CHUNK_ALIGN * k) * (CHUNK_ALIGN * k)
      BY <1>2, <1>4, <3>1
    <3> QED BY <1>2, <1>3, <2>1, <3>2
  <2>2. CASE k > c
    BY <1>2, <1>3, <2>2
  <2> QED BY <1>2, <2>1, <2>2
<1> QED BY <1>2, <1>3, <1>4, <1>5, LayoutAssumption

(* The shifts and masks read consecutive bytes: of WORD chunks that are     *)
(* read from BYTES_UNDER_P words, chunk k is the bytes that follow chunk    *)
(* k - 1, and a zero on top.                                                *)
LEMMA ChunkReads ==
  ASSUME NEW g, NEW words, NEW k \in 0 .. BYTES_UNDER_P, NEW i \in 1 .. WORD,
         words = [w \in 1 .. BYTES_UNDER_P |-> [b \in 1 .. WORD |-> g[WORD * (w - 1) + b - 1]]]
  PROVE  Chunk(words, k)[i] = IF i < WORD THEN g[BYTES_UNDER_P * k + i - 1] ELSE 0
<1> DEFINE B == BYTES_UNDER_P
<1>1. B \in Nat /\ B >= 1 /\ WORD = B + 1
  BY LayoutAssumption DEF WORD
<1>2. ASSUME NEW w \in 1 .. B, NEW b \in 1 .. WORD
      PROVE  words[w][b] = g[WORD * (w - 1) + b - 1]
  BY Zenon
<1>3. CASE k = 0
  <2>1. Chunk(words, k)[i] = IF i < WORD THEN words[1][i] ELSE 0
    BY Zenon, <1>3 DEF Chunk, Mask
  <2>2. words[1][i] = g[WORD * 0 + i - 1]
    BY <1>1, <1>2
  <2>3. WORD * 0 + i - 1 = B * k + i - 1
    BY <1>1, <1>3
  <2> QED BY Zenon, <2>1, <2>2, <2>3
<1>4. CASE k > 0 /\ k < B
  <2> DEFINE low == ShiftRight(words[k], WORD - k)
             high == Mask(ShiftLeft(words[k + 1], k))
  <2>1. Chunk(words, k) = Or(low, high)
    BY <1>1, <1>4 DEF Chunk
  <2>2. Chunk(words, k)[i] = IF low[i] = 0 THEN high[i] ELSE low[i]
    BY Zenon, <2>1 DEF Or
  <2>3. CASE i <= k
    <3>1. low[i] = words[k][i + (WORD - k)]
      BY <1>1, <1>4, <2>3 DEF ShiftRight
    <3>2. i + (WORD - k) \in 1 .. WORD /\ k \in 1 .. B
      BY <1>1, <1>4, <2>3
    <3>3. WORD * (k - 1) + (i + (WORD - k)) - 1 = B * k + i - 1
      BY <1>1, <1>4
    <3>4. low[i] = g[B * k + i - 1]
      BY Zenon, <3>1, <1>2, <3>2, <3>3
    <3>5. high[i] = 0
      BY <1>1, <1>4, <2>3 DEF Mask, ShiftLeft
    <3>6. i < WORD
      BY <1>1, <1>4, <2>3
    <3> QED BY Zenon, <2>2, <3>4, <3>5, <3>6
  <2>4. CASE i > k
    <3>1. low[i] = 0
      BY <1>1, <1>4, <2>4 DEF ShiftRight
    <3>2. high[i] = IF i < WORD THEN words[k + 1][i - k] ELSE 0
      BY <1>1, <1>4, <2>4 DEF Mask, ShiftLeft
    <3>3. i - k \in 1 .. WORD /\ k + 1 \in 1 .. B
      BY <1>1, <1>4, <2>4
    <3>4. words[k + 1][i - k] = g[WORD * ((k + 1) - 1) + (i - k) - 1]
      BY Zenon, <1>2, <3>3
    <3>5. WORD * ((k + 1) - 1) + (i - k) - 1 = B * k + i - 1
      BY <1>1, <1>4
    <3> QED BY Zenon, <2>2, <3>1, <3>2, <3>4, <3>5
  <2> QED BY <1>1, <1>4, <2>3, <2>4
<1>5. CASE k = B
  <2>1. Chunk(words, k)[i] = IF i < WORD THEN words[B][i + 1] ELSE 0
    BY <1>1, <1>5 DEF Chunk, ShiftRight
  <2>2. CASE i < WORD
    <3>1. words[B][i + 1] = g[WORD * (B - 1) + (i + 1) - 1]
      BY <1>1, <1>2, <2>2
    <3>2. WORD * (B - 1) + (i + 1) - 1 = B * k + i - 1
      BY <1>1, <1>5
    <3> QED BY Zenon, <2>1, <2>2, <3>1, <3>2
  <2>3. CASE ~ (i < WORD)
    BY Zenon, <2>1, <2>3
  <2> QED BY Zenon, <2>2, <2>3
<1> QED BY <1>1, <1>3, <1>4, <1>5

(* For every file, the number at slice i and row k of the matrix is read    *)
(* from the bytes of chunk rows * i + k of the file, with zeros after its   *)
(* end and a zero on top, which keeps it below P57.                         *)
THEOREM MatrixBytes ==
  ASSUME NEW f \in Seq(0 .. BYTE - 1), f # <<>>,
         NEW i \in Nat, NEW k \in 0 .. Rows(Len(f)) - 1, NEW b \in 1 .. WORD
  PROVE  Chunk(Words(f, i, k), k % WORD)[b] =
           IF b < WORD THEN Extended(f, BYTES_UNDER_P * (Rows(Len(f)) * i + k) + b - 1) ELSE 0
<1> DEFINE B == BYTES_UNDER_P
           R == Rows(Len(f))
           first == BytesPerRow(Len(f)) * i + B * WORD * (k \div WORD)
           g == [x \in Nat |-> Extended(f, first + x)]
           q == k \div WORD
           r == k % WORD
<1>1. B \in Nat /\ B >= 1 /\ WORD = B + 1
  BY LayoutAssumption DEF WORD
<1>2. R \in Nat
  <2>1. Len(f) \in Nat \ {0}
    OBVIOUS
  <2> QED BY Zenon, <2>1, RowsBounds
<1>3. q \in Nat /\ r \in 0 .. B /\ k = WORD * q + r
  <2>1. ASSUME NEW x \in Nat, NEW d \in Nat, d >= 1
        PROVE  x \div d \in Nat /\ x % d \in 0 .. d - 1 /\ x = d * (x \div d) + (x % d)
    BY <2>1
  <2>2. k \in Nat /\ WORD \in Nat /\ WORD >= 1 /\ WORD - 1 = B
    BY <1>1, <1>2
  <2> QED BY Zenon, <2>1, <2>2
<1>4. first = B * R * i + B * WORD * q /\ first \in Nat
  <2>1. first = B * R * i + B * WORD * q
    BY Zenon DEF BytesPerRow
  <2>2. ASSUME NEW x \in Nat, NEW y \in Nat PROVE x * y \in Nat
    BY <2>2
  <2> HIDE DEF B, R, q, first
  <2> QED BY <1>1, <1>2, <1>3, <2>1, <2>2
<1> HIDE DEF first
<1>5. Words(f, i, k) = [w \in 1 .. B |-> [c \in 1 .. WORD |-> g[WORD * (w - 1) + c - 1]]]
  <2>1. ASSUME NEW w \in 1 .. B, NEW c \in 1 .. WORD
        PROVE  g[WORD * (w - 1) + c - 1] = Extended(f, first + WORD * (w - 1) + c - 1)
    <3>1. WORD * (w - 1) \in Nat
      BY <1>1, <2>1
    <3> DEFINE z == WORD * (w - 1)
    <3>2. z + c - 1 \in Nat /\ first + (z + c - 1) = first + z + c - 1
      <4> HIDE DEF z
      <4> QED BY <1>1, <1>4, <3>1, <2>1 DEF z
    <3> QED BY Zenon, <3>2
  <2>2. Words(f, i, k) = [w \in 1 .. B |->
                            [c \in 1 .. WORD |-> Extended(f, first + WORD * (w - 1) + c - 1)]]
    BY Zenon DEF Words, first
  <2> HIDE DEF g
  <2> QED BY Zenon, <2>1, <2>2
<1>6. Chunk(Words(f, i, k), r)[b] = IF b < WORD THEN g[B * r + b - 1] ELSE 0
  <2> HIDE DEF g, r
  <2> QED BY <1>3, <1>5, ChunkReads
<1>7. B * r + b - 1 \in Nat
  <2>1. B * r \in Nat
    BY <1>1, <1>3
  <2> HIDE DEF r
  <2> QED BY <1>1, <2>1
<1>8. first + (B * r + b - 1) = B * (R * i + k) + b - 1
  <2> HIDE DEF B, R, q, r
  <2>1. B * (R * i + k) = B * R * i + B * (WORD * q + r)
    BY <1>1, <1>2, <1>3
  <2>2. B * (WORD * q + r) = B * WORD * q + B * r
    BY <1>1, <1>3
  <2>3. B * R * i \in Int /\ B * WORD * q \in Int /\ B * r \in Int
    BY <1>1, <1>2, <1>3
  <2> QED BY <1>1, <1>4, <2>1, <2>2, <2>3
<1> QED BY Zenon, <1>6, <1>7, <1>8

-----------------------------------------------------------------------------
\* The numbers of the matrix are the chunks of the file.

(* A contract gives back the numbers that were written to it as bytes.      *)
LEMMA BytesBack ==
  ASSUME NEW n \in Nat, NEW v \in [1 .. n -> 0 .. Power(BYTE, U64) - 1]
  PROVE  BytesToU64(U64ToBytes(v)) = v
<1> DEFINE b == U64ToBytes(v)
<1>0. U64 \in Nat \ {0} /\ U64 \in Nat
  BY SMT, PorAssumption
<1>1. Len(v) = n
  BY SMT
<1>2. b = [x \in 1 .. U64 * n |-> ToLeBytes(v[(x - 1) \div U64 + 1])[((x - 1) % U64) + 1]]
  BY Zenon, <1>1 DEF U64ToBytes
<1>3. U64 * n \in Nat /\ (U64 * n) \div U64 = n
  <2>1. /\ U64 * n \in Int /\ n \in Int /\ U64 * n = 0 + U64 * n
        /\ 0 \in 0 .. U64 - 1 /\ U64 * n \in Nat
    BY SMT, <1>0
  <2> QED BY Zenon, <1>0, <2>1, Remainder
<1>4. Len(b) = U64 * n
  <2> DEFINE w == U64 * n
  <2> HIDE DEF w
  <2>1. w \in Nat /\ b = [x \in 1 .. w |-> ToLeBytes(v[(x - 1) \div U64 + 1])[((x - 1) % U64) + 1]]
    BY Zenon, <1>2, <1>3 DEF w
  <2> HIDE DEF b
  <2>2. Len(b) = w
    BY SMT, <2>1
  <2> QED BY Zenon, <2>2 DEF w
<1> HIDE DEF b
<1>5. ASSUME NEW i \in 1 .. n PROVE SubSeq(b, U64 * (i - 1) + 1, U64 * i) = ToLeBytes(v[i])
  <2> DEFINE z == U64 * (i - 1)
  <2>1. z \in Nat /\ U64 * i = z + U64 /\ z + U64 <= U64 * n
    BY SMT, <1>0
  <2>2. ASSUME NEW y \in 1 .. U64 PROVE b[z + y] = ToLeBytes(v[i])[y]
    <3> DEFINE x == z + y
    <3>1. /\ x \in 1 .. U64 * n /\ x - 1 \in Int /\ y - 1 \in 0 .. U64 - 1 /\ i - 1 \in Int
          /\ (i - 1) + 1 = i /\ (y - 1) + 1 = y
      <4> HIDE DEF z
      <4> QED BY SMT, <1>0, <1>3, <2>1
    <3>2. x - 1 = (y - 1) + U64 * (i - 1)
      <4> HIDE DEF z
      <4>1. x - 1 = (y - 1) + z
        BY SMT, <1>0, <2>1
      <4> QED BY Zenon, <4>1 DEF z
    <3>3. (x - 1) % U64 = y - 1 /\ (x - 1) \div U64 = i - 1
      <4> HIDE DEF x
      <4> QED BY Zenon, <1>0, <3>1, <3>2, Remainder
    <3>4. b[x] = ToLeBytes(v[(x - 1) \div U64 + 1])[((x - 1) % U64) + 1]
      BY Zenon, <1>2, <3>1
    <3> QED BY Zenon, <3>1, <3>3, <3>4
  <2>3. SubSeq(b, z + 1, z + U64) = [y \in 1 .. U64 |-> b[z + y]]
    <3> HIDE DEF z
    <3>1. (z + U64) - (z + 1) + 1 = U64 /\ \A y \in 1 .. U64 : (z + 1) + y - 1 = z + y
      BY SMT, <1>0, <2>1
    <3> QED BY SMT, <1>0, <2>1, <3>1
  <2>4. ToLeBytes(v[i]) = [y \in 1 .. U64 |-> ToLeBytes(v[i])[y]]
    BY Zenon DEF ToLeBytes
  <2> QED BY Zenon, <2>1, <2>2, <2>3, <2>4
<1>6. \A i \in 1 .. n : FromLeBytes(ToLeBytes(v[i])) = v[i]
  BY Zenon, LeBytesBack
<1>7. BytesToU64(b) = [i \in 1 .. n |-> v[i]]
  <2>1. BytesToU64(b) = [i \in 1 .. n |-> FromLeBytes(SubSeq(b, U64 * (i - 1) + 1, U64 * i))]
    BY Zenon, <1>3, <1>4 DEF BytesToU64
  <2> QED BY Zenon, <1>5, <1>6, <2>1
<1> QED BY Zenon, <1>7 DEF b

(* A byte of a file, or a zero after its end, is a byte.                    *)
LEMMA ExtendedIsByte ==
  ASSUME NEW f \in Seq(0 .. BYTE - 1), NEW x \in Nat PROVE Extended(f, x) \in 0 .. BYTE - 1
<1>1. 0 \in 0 .. BYTE - 1
  BY SMT, ByteIsBase
<1>2. x < Len(f) => f[x + 1] \in 0 .. BYTE - 1
  <2> DEFINE T == 0 .. BYTE - 1
  <2> HIDE DEF T
  <2>1. f \in Seq(T)
    BY Zenon DEF T
  <2>2. x < Len(f) => f[x + 1] \in T
    BY SMT, <2>1
  <2> QED BY Zenon, <2>2 DEF T
<1> QED BY Zenon, <1>1, <1>2 DEF Extended

\* The bytes of chunk n of a file.
ChunkBytes(f, n) == [b \in 1 .. BYTES_UNDER_P |-> Extended(f, BYTES_UNDER_P * n + b - 1)]

(* A chunk is a number below P57.                                           *)
LEMMA ChunkNumberBound ==
  ASSUME NEW f \in Seq(0 .. BYTE - 1), NEW n \in Nat
  PROVE  /\ ChunkBytes(f, n) \in [1 .. BYTES_UNDER_P -> 0 .. BYTE - 1]
         /\ ChunkNumber(f, n) = FromLeBytes(ChunkBytes(f, n))
         /\ ChunkNumber(f, n) \in 0 .. Power(BYTE, BYTES_UNDER_P) - 1
<1>0. BYTES_UNDER_P \in Nat /\ BYTES_UNDER_P \in 0 .. BYTES_UNDER_P
  BY SMT, LayoutAssumption
<1>1. \A b \in 1 .. BYTES_UNDER_P : BYTES_UNDER_P * n + b - 1 \in Nat
  BY SMT, <1>0
<1>2. ChunkBytes(f, n) \in [1 .. BYTES_UNDER_P -> 0 .. BYTE - 1]
  BY Zenon, <1>1, ExtendedIsByte DEF ChunkBytes
<1>3. ChunkNumber(f, n) = FromLeBytes(ChunkBytes(f, n))
  BY Zenon DEF ChunkNumber, ChunkBytes
<1>4. FromLeBytes(ChunkBytes(f, n)) \in 0 .. Power(BYTE, BYTES_UNDER_P) - 1
  <2> DEFINE c == ChunkBytes(f, n)
  <2> HIDE DEF c
  <2>1. /\ FromLeBytes(c) = Sum(Digits(c, BYTES_UNDER_P), BYTES_UNDER_P)
        /\ Sum(Digits(c, BYTES_UNDER_P), BYTES_UNDER_P) \in 0 .. Power(BYTE, BYTES_UNDER_P) - 1
    BY Zenon, <1>0, <1>2, FromLeBytesSum DEF c
  <2> QED BY Zenon, <2>1 DEF c
<1> QED BY Zenon, <1>2, <1>3, <1>4

(* There is nothing but zeros after the last chunk.                         *)
LEMMA ChunksEnd ==
  ASSUME NEW f \in Seq(0 .. BYTE - 1), NEW n \in Nat, Len(f) <= BYTES_UNDER_P * n
  PROVE  ChunkNumber(f, n) = 0
<1> DEFINE B == BYTES_UNDER_P
           c == ChunkBytes(f, n)
           d == Digits(c, B)
<1>0. B \in Nat /\ B \in 0 .. B /\ 0 \in 0 .. B
  BY SMT, LayoutAssumption
<1>1. \A b \in 1 .. B : ~ (B * n + b - 1 < Len(f))
  <2>1. B * n \in Nat /\ Len(f) \in Nat
    BY SMT, <1>0
  <2> QED BY SMT, <1>0, <2>1
<1>2. \A b \in 1 .. B : c[b] = 0
  BY Zenon, <1>1 DEF ChunkBytes, Extended
<1>3. ASSUME NEW b \in 1 .. B PROVE d[b] = 0
  <2>1. b - 1 \in Nat
    BY SMT, <1>0
  <2>2. \A x \in Nat \ {0} : 0 * x = 0
    BY SMT
  <2>3. d[b] = c[b] * Power(BYTE, b - 1)
    BY Zenon DEF Digits
  <2>4. Power(BYTE, b - 1) \in Nat \ {0} /\ c[b] = 0
    BY Zenon, <1>2, <2>1, BytePowers
  <2> HIDE DEF c, d
  <2> QED BY Zenon, <2>2, <2>3, <2>4
<1>4. ChunkNumber(f, n) = Sum(d, B)
  <2> HIDE DEF c
  <2> QED BY Zenon, <1>0, ChunkNumberBound, FromLeBytesSum DEF c
<1> HIDE DEF d
<1>5. \A b \in 1 .. B : d[b] \in Int /\ (b > 0 => d[b] = 0)
  BY SMT, <1>3
<1>6. Sum(d, B) = Sum(d, 0) /\ Sum(d, 0) = 0
  <2>1. Sum(d, B) = Sum(d, 0)
    BY Zenon, <1>0, <1>5, SumTail
  <2>2. Sum(d, 0) = 0
    BY Zenon, <1>0, <1>5, SumSteps
  <2> QED BY Zenon, <2>1, <2>2
<1> QED BY Zenon, <1>4, <1>6

(* For every file, the number that is read at slice i and row k of the      *)
(* matrix is chunk rows * i + k of the file, a number below P57.            *)
THEOREM MatrixNumbers ==
  ASSUME NEW f \in Seq(0 .. BYTE - 1), f # <<>>, NEW i \in Nat, NEW k \in 0 .. Rows(Len(f)) - 1
  PROVE  /\ DataVal(f, i, k) = ChunkNumber(f, Rows(Len(f)) * i + k)
         /\ DataVal(f, i, k) \in 0 .. Power(BYTE, BYTES_UNDER_P) - 1
<1> DEFINE B == BYTES_UNDER_P
           n == Rows(Len(f)) * i + k
           c == ChunkBytes(f, n)
           w == Chunk(Words(f, i, k), k % WORD)
<1>0. B \in Nat /\ WORD \in Nat /\ WORD = B + 1
  BY SMT, LayoutAssumption DEF WORD
<1>1. n \in Nat
  <2>1. Rows(Len(f)) \in Nat
    <3>1. Len(f) \in Nat \ {0}
      BY SMT
    <3> QED BY Zenon, <3>1, RowsBounds
  <2>2. \A x, y \in Nat : \A z \in 0 .. x - 1 : x * y + z \in Nat
    BY SMT
  <2> QED BY Zenon, <2>1, <2>2
<1>2. c \in [1 .. B -> 0 .. BYTE - 1] /\ ChunkNumber(f, n) = FromLeBytes(c)
      /\ ChunkNumber(f, n) \in 0 .. Power(BYTE, B) - 1
  BY Zenon, <1>1, ChunkNumberBound
<1>3. \A b \in 1 .. WORD : w[b] = IF b < WORD THEN Extended(f, B * n + b - 1) ELSE 0
  BY Zenon, MatrixBytes
<1>4. \A b \in 1 .. WORD : w[b] = IF b < WORD THEN c[b] ELSE 0
  <2>1. \A b \in 1 .. WORD : b < WORD => b \in 1 .. B
    BY SMT, <1>0
  <2>2. \A b \in 1 .. B : c[b] = Extended(f, B * n + b - 1)
    BY Zenon DEF ChunkBytes
  <2> HIDE DEF w, c, n
  <2> QED BY Zenon, <1>3, <2>1, <2>2
<1>5. w = [b \in 1 .. WORD |-> w[b]]
  BY Zenon DEF Chunk, Mask, Or, ShiftRight
<1> HIDE DEF w, c
<1>6. w \in [1 .. WORD -> 0 .. BYTE - 1]
  <2>1. \A b \in 1 .. WORD : b < WORD => b \in 1 .. B
    BY SMT, <1>0
  <2>2. 0 \in 0 .. BYTE - 1
    BY SMT, ByteIsBase
  <2>3. \A b \in 1 .. WORD : w[b] \in 0 .. BYTE - 1
    BY Zenon, <1>2, <1>4, <2>1, <2>2
  <2> QED BY Zenon, <1>5, <2>3
<1> DEFINE d == Digits(w, WORD)
           e == Digits(c, B)
<1>7. FromLeBytes(w) = Sum(d, WORD) /\ \A b \in 1 .. WORD : d[b] \in Nat
  BY Zenon, <1>0, <1>6, FromLeBytesSum
<1>8. FromLeBytes(c) = Sum(e, B) /\ \A b \in 1 .. B : e[b] \in Nat
  BY Zenon, <1>0, <1>2, FromLeBytesSum
<1>9. \A b \in 1 .. B : b \in 1 .. WORD /\ d[b] = e[b]
  <2>1. \A b \in 1 .. B : b \in 1 .. WORD /\ b < WORD
    BY SMT, <1>0
  <2> QED BY Zenon, <1>4, <2>1 DEF Digits
<1>10. d[WORD] = 0
  <2>1. WORD \in 1 .. WORD /\ ~ (WORD < WORD) /\ WORD - 1 = B
    BY SMT, <1>0
  <2>2. \A x \in Nat \ {0} : 0 * x = 0
    BY SMT
  <2>3. Power(BYTE, B) \in Nat \ {0}
    BY Zenon, <1>0, BytePowers
  <2> QED BY Zenon, <1>4, <2>1, <2>2, <2>3 DEF Digits
<1> HIDE DEF d, e
<1>11. Sum(d, WORD) = Sum(d, B)
  <2>1. B \in 0 .. WORD
    BY SMT, <1>0
  <2>2. \A b \in 1 .. WORD : d[b] \in Int /\ (b > B => d[b] = 0)
    BY SMT, <1>0, <1>7, <1>10
  <2> QED BY Zenon, <1>0, <2>1, <2>2, SumTail
<1>12. Sum(d, B) = Sum(e, B)
  <2>1. \A b \in 1 .. B : d[b] \in Int /\ e[b] = d[b]
    BY SMT, <1>8, <1>9
  <2> QED BY Zenon, <1>0, <2>1, SumSame
<1>13. DataVal(f, i, k) = FromLeBytes(w)
  BY Zenon DEF DataVal, w
<1> QED BY Zenon, <1>2, <1>7, <1>8, <1>11, <1>12, <1>13

(* What audit accumulates, reducing it only above P57, is at most P57 and   *)
(* congruent to the sum of the products.                                    *)
LEMMA ReducedSumCongruent ==
  ASSUME NEW n \in Nat, NEW a, NEW b, NEW t,
         \A i \in 1 .. n : a[i] \in Nat /\ b[i] \in Nat /\ t[i] = a[i] * b[i]
  PROVE  ReducedSum(a, b, n) \in 0 .. P /\ Congruent(P, ReducedSum(a, b, n), Sum(t, n))
<1> DEFINE step == [i \in Nat |-> [acc \in Nat |-> Reduce(acc + a[i] * b[i])]]
<1>0. P \in Nat \ {0} /\ P \in Nat /\ 0 \in 0 .. n /\ n \in 0 .. n /\ 0 \in 0 .. P
  BY SMT, PorAssumption
<1>1. \A j : ReducedSum(a, b, j) = Loop(step, 0, j)
  BY Zenon DEF ReducedSum
<1>2. \A i \in 1 .. n : t[i] \in Nat /\ t[i] \in Int /\ i \in Nat
  BY SMT
<1>3. \A i \in 1 .. n : \A x \in 0 .. P : x \in Nat /\ step[i][x] = Reduce(x + t[i])
  <2>1. \A x \in 0 .. P : x \in Nat
    BY SMT, <1>0
  <2> QED BY Zenon, <1>2, <2>1
<1>4. ASSUME NEW s \in Nat PROVE Reduce(s) \in 0 .. P /\ Congruent(P, Reduce(s), s)
  <2>1. CASE s > P
    <3>1. s \in Int
      BY SMT
    <3>2. s % P \in 0 .. P - 1 /\ Congruent(P, s % P, s)
      BY Zenon, <1>0, <3>1, ModCongruent
    <3>3. \A r \in 0 .. P - 1 : r \in 0 .. P
      BY SMT, <1>0
    <3> QED BY Zenon, <2>1, <3>2, <3>3 DEF Reduce
  <2>2. CASE ~ (s > P)
    <3>1. s \in 0 .. P /\ s = s + P * 0 /\ 0 \in Int
      BY SMT, <1>0, <2>2
    <3> QED BY Zenon, <2>2, <3>1 DEF Reduce, Congruent
  <2> QED BY Zenon, <2>1, <2>2
<1> HIDE DEF step
<1>5. \A x \in 0 .. P, y \in Nat : x + y \in Nat
  BY SMT, <1>0
<1>6. Unfolds(step, 0, 0 .. P, n)
  <2>1. StepsIn(step, 0 .. P, n)
    BY Zenon, <1>2, <1>3, <1>4, <1>5 DEF StepsIn
  <2> QED BY Zenon, <1>0, <2>1, LoopSteps
<1>s. /\ Sum(t, 0) = 0
      /\ \A j \in 0 .. n : Sum(t, j) \in Int
      /\ \A j \in 1 .. n : Sum(t, j) = Sum(t, j - 1) + t[j]
  BY Zenon, <1>2, SumSteps
<1> DEFINE S == {j \in 0 .. n : Congruent(P, Loop(step, 0, j), Sum(t, j))}
<1>7. 0 \in S
  <2>1. 0 = 0 + P * 0 /\ 0 \in Int
    BY SMT, <1>0
  <2>2. Congruent(P, 0, 0)
    BY Zenon, <2>1 DEF Congruent
  <2> QED BY Zenon, <1>0, <1>6, <1>s, <2>2 DEF Unfolds
<1>8. ASSUME NEW k \in 0 .. n - 1, k \in S PROVE k + 1 \in S
  <2>1. k + 1 \in 1 .. n /\ k + 1 \in 0 .. n /\ (k + 1) - 1 = k /\ k \in 0 .. n
    BY SMT
  <2> DEFINE x == Loop(step, 0, k)
             y == Sum(t, k)
             z == t[k + 1]
  <2>2. /\ x \in 0 .. P /\ y \in Int /\ z \in Nat /\ z \in Int /\ Congruent(P, x, y)
        /\ Sum(t, k + 1) = y + z
    BY Zenon, <1>2, <1>6, <1>8, <1>s, <2>1 DEF Unfolds
  <2>3. Loop(step, 0, k + 1) = Reduce(x + z)
    <3>1. Loop(step, 0, k + 1) = step[k + 1][x]
      BY Zenon, <1>6, <2>1 DEF Unfolds
    <3> QED BY Zenon, <1>3, <2>1, <2>2, <3>1
  <2> HIDE DEF x, y, z
  <2>4. PICK q \in Int : x = y + P * q
    BY Zenon, <2>2 DEF Congruent
  <2>5. PICK r \in Int : Reduce(x + z) = (x + z) + P * r
    BY Zenon, <1>4, <1>5, <2>2 DEF Congruent
  <2>6. Reduce(x + z) = (y + z) + P * (q + r) /\ q + r \in Int
    BY SMT, <1>0, <2>2, <2>4, <2>5
  <2>7. Congruent(P, Loop(step, 0, k + 1), Sum(t, k + 1))
    <3>1. Congruent(P, Reduce(x + z), y + z)
      BY Zenon, <2>6 DEF Congruent
    <3> QED BY Zenon, <2>2, <2>3, <3>1
  <2> QED BY Zenon, <2>1, <2>7
<1>9. 0 .. n \subseteq S
  <2> HIDE DEF S
  <2> QED BY Zenon, <1>7, <1>8, InductionTo
<1>10. Congruent(P, Loop(step, 0, n), Sum(t, n))
  BY Zenon, <1>0, <1>9
<1>11. Loop(step, 0, n) \in 0 .. P
  BY Zenon, <1>0, <1>6 DEF Unfolds
<1> QED BY Zenon, <1>1, <1>10, <1>11

-----------------------------------------------------------------------------
\* What the two sums of an audit weigh.

\* The number at slice i and row k, both from 1, weighed with m and c.
Entry(f, m, c, i, k) == DataVal(f, i - 1, k - 1) * m[i] * c[k]
Slices(f, m, c) ==
  [i \in 1 .. Cols(Len(f)) |-> [k \in 1 .. Rows(Len(f)) |-> Entry(f, m, c, i, k)]]
RowsOf(f, m, c) ==
  [k \in 1 .. Rows(Len(f)) |-> [i \in 1 .. Cols(Len(f)) |-> Entry(f, m, c, i, k)]]

\* The sum of all entries, slice by slice.
Total(f, m, c) == SumOfSums(Slices(f, m, c), Cols(Len(f)), Rows(Len(f)))

\* m and c have a natural number for every slice and every row of f.
Weights(f, m, c) == /\ f \in Seq(0 .. BYTE - 1) /\ f # <<>>
                    /\ \A i \in 1 .. Cols(Len(f)) : m[i] \in Nat
                    /\ \A k \in 1 .. Rows(Len(f)) : c[k] \in Nat

(* The sizes of a matrix and what its entries are.                          *)
LEMMA Entries ==
  ASSUME NEW f, NEW m, NEW c, Weights(f, m, c)
  PROVE  /\ Cols(Len(f)) \in Nat \ {0} /\ Rows(Len(f)) \in Nat \ {0} /\ NumChunks(Len(f)) \in Nat
         /\ Cols(Len(f)) \in Nat /\ Rows(Len(f)) \in Nat
         /\ \A i \in 1 .. Cols(Len(f)), k \in 1 .. Rows(Len(f)) :
              /\ DataVal(f, i - 1, k - 1) = ChunkNumber(f, Rows(Len(f)) * (i - 1) + (k - 1))
              /\ DataVal(f, i - 1, k - 1) \in Nat /\ Entry(f, m, c, i, k) \in Int
<1>0. f \in Seq(0 .. BYTE - 1) /\ f # <<>>
  BY Zenon DEF Weights
<1>1. Len(f) \in Nat \ {0}
  BY SMT, <1>0
<1>2. /\ Cols(Len(f)) \in Nat \ {0} /\ Rows(Len(f)) \in Nat /\ Rows(Len(f)) >= CHUNK_ALIGN
      /\ NumChunks(Len(f)) \in Nat \ {0}
  BY Zenon, <1>1, ColsBounds, RowsBounds, ChunksHold
<1> DEFINE C == Cols(Len(f))
           R == Rows(Len(f))
<1> HIDE DEF C, R
<1>3. C \in Nat /\ R \in Nat \ {0} /\ NumChunks(Len(f)) \in Nat
  BY SMT, <1>2, LayoutAssumption DEF C, R
<1>4. ASSUME NEW i \in 1 .. C, NEW k \in 1 .. R
      PROVE  /\ DataVal(f, i - 1, k - 1) = ChunkNumber(f, R * (i - 1) + (k - 1))
             /\ DataVal(f, i - 1, k - 1) \in Nat /\ Entry(f, m, c, i, k) \in Int
  <2>1. i - 1 \in Nat /\ k - 1 \in 0 .. R - 1
    BY SMT, <1>3
  <2>2. /\ DataVal(f, i - 1, k - 1) = ChunkNumber(f, R * (i - 1) + (k - 1))
        /\ DataVal(f, i - 1, k - 1) \in 0 .. Power(BYTE, BYTES_UNDER_P) - 1
    BY Zenon, <1>0, <2>1, MatrixNumbers DEF R
  <2>3. DataVal(f, i - 1, k - 1) \in Nat
    <3>1. Power(BYTE, BYTES_UNDER_P) \in Nat \ {0}
      BY Zenon, BytePowers, LayoutAssumption
    <3>2. \A x \in Nat \ {0} : \A y \in 0 .. x - 1 : y \in Nat
      BY SMT
    <3> QED BY Zenon, <2>2, <3>1, <3>2
  <2>4. \A x, y, z \in Nat : x * y * z \in Int
    BY SMT
  <2>5. m[i] \in Nat /\ c[k] \in Nat
    BY Zenon DEF Weights, C, R
  <2> QED BY Zenon, <2>2, <2>3, <2>4, <2>5 DEF Entry
<1> QED BY Zenon, <1>2, <1>3, <1>4 DEF C, R

(* The matrix weighs as much as the chunks of the file.                     *)
LEMMA WeighedIsTotal ==
  ASSUME NEW f, NEW m, NEW c, Weights(f, m, c)
  PROVE  Weighed(f, m, c) = Total(f, m, c) /\ Weighed(f, m, c) \in Int
<1> DEFINE C == Cols(Len(f))
           R == Rows(Len(f))
           N == NumChunks(Len(f))
           T(n) == ChunkNumber(f, n - 1) * m[(n - 1) \div R + 1] * c[((n - 1) % R) + 1]
           g == [n \in 1 .. R * C |-> T(n)]
           d == Slices(f, m, c)
           h == [n \in 1 .. N |-> T(n)]
<1>0. f \in Seq(0 .. BYTE - 1) /\ f # <<>> /\ Len(f) \in Nat \ {0}
  <2>1. f \in Seq(0 .. BYTE - 1) /\ f # <<>>
    BY Zenon DEF Weights
  <2> QED BY SMT, <2>1
<1>1. C \in Nat \ {0} /\ R \in Nat \ {0} /\ N \in Nat /\ C \in Nat /\ R \in Nat
  BY Zenon, Entries
<1>2. N <= R * C /\ Len(f) <= BYTES_UNDER_P * N
  BY Zenon, <1>0, ColsBounds, ChunksHold
<1>3. \A i \in 1 .. C, k \in 1 .. R :
        /\ DataVal(f, i - 1, k - 1) = ChunkNumber(f, R * (i - 1) + (k - 1))
        /\ d[i][k] = DataVal(f, i - 1, k - 1) * m[i] * c[k]
  BY Zenon, Entries DEF Slices, Entry
<1>4. Weighed(f, m, c) = Sum(h, N)
  BY Zenon DEF Weighed
<1>5. Total(f, m, c) = SumOfSums(d, C, R)
  BY Zenon DEF Total
<1>c. ASSUME NEW n \in Nat PROVE ChunkNumber(f, n) \in Nat /\ (n >= N => ChunkNumber(f, n) = 0)
  <2>1. ChunkNumber(f, n) \in Nat
    <3>1. ChunkNumber(f, n) \in 0 .. Power(BYTE, BYTES_UNDER_P) - 1
      BY Zenon, <1>0, ChunkNumberBound
    <3>2. Power(BYTE, BYTES_UNDER_P) \in Nat \ {0}
      BY Zenon, BytePowers, LayoutAssumption
    <3>3. \A x \in Nat \ {0} : \A y \in 0 .. x - 1 : y \in Nat
      BY SMT
    <3> QED BY Zenon, <3>1, <3>2, <3>3
  <2>2. ASSUME n >= N PROVE ChunkNumber(f, n) = 0
    <3> HIDE DEF N
    <3>1. BYTES_UNDER_P * N <= BYTES_UNDER_P * n
      BY SMT, <1>1, <2>2, LayoutAssumption
    <3>2. BYTES_UNDER_P * N \in Int /\ BYTES_UNDER_P * n \in Int /\ Len(f) \in Int
      BY SMT, <1>0, <1>1, LayoutAssumption
    <3>3. Len(f) <= BYTES_UNDER_P * n
      BY SMT, <1>2, <3>1, <3>2
    <3> QED BY Zenon, <1>0, <3>3, ChunksEnd
  <2> QED BY Zenon, <2>1, <2>2
<1> HIDE DEF C, R, N
<1>6. R * C \in Nat
  BY SMT, <1>1
<1>7. ASSUME NEW n \in 1 .. R * C
      PROVE  T(n) \in Int /\ (n > N => T(n) = 0)
  <2> DEFINE q == (n - 1) \div R
             r == (n - 1) % R
  <2>1. n - 1 \in Nat /\ (n > N => n - 1 >= N)
    BY SMT, <1>1, <1>6
  <2>2. q \in Nat /\ r \in 0 .. R - 1 /\ n - 1 = R * q + r
    BY SMT, <1>1, <2>1
  <2> HIDE DEF q, r
  <2>3. q < C
    <3>1. ASSUME q >= C PROVE FALSE
      <4>1. R * q >= R * C /\ R * q \in Int
        BY SMT, <1>1, <2>2, <3>1
      <4> QED BY SMT, <1>6, <2>2, <4>1
    <3> QED BY SMT, <1>1, <2>2, <3>1
  <2>4. q + 1 \in 1 .. C /\ r + 1 \in 1 .. R
    BY SMT, <1>1, <2>2, <2>3
  <2>5. m[q + 1] \in Nat /\ c[r + 1] \in Nat
    BY Zenon, <2>4 DEF Weights, C, R
  <2>6. \A x, y, z \in Nat : x * y * z \in Int /\ (x = 0 => x * y * z = 0)
    BY SMT
  <2> DEFINE x == ChunkNumber(f, n - 1)
  <2>7. x \in Nat /\ (n > N => x = 0)
    BY Zenon, <1>c, <2>1
  <2> HIDE DEF x
  <2>8. /\ x * m[q + 1] * c[r + 1] \in Int
        /\ x = 0 => x * m[q + 1] * c[r + 1] = 0
    BY Zenon, <2>5, <2>6, <2>7
  <2>9. T(n) = x * m[q + 1] * c[r + 1]
    BY Zenon DEF x, q, r
  <2> HIDE DEF T
  <2> QED BY Zenon, <2>7, <2>8, <2>9
<1>8. ASSUME NEW i \in 1 .. C, NEW k \in 1 .. R
      PROVE  R * (i - 1) + k \in 1 .. R * C /\ d[i][k] = T(R * (i - 1) + k)
  <2> DEFINE n == R * (i - 1) + k
             z == R * (i - 1)
  <2>1. z \in Nat /\ z + R <= R * C /\ R * C \in Nat
    <3>1. R * (i - 1) + R = R * i /\ R * i <= R * C
      BY SMT, <1>1
    <3> QED BY SMT, <1>1, <1>6, <3>1
  <2>2. /\ n \in 1 .. R * C /\ n - 1 \in Int /\ k - 1 \in 0 .. R - 1 /\ i - 1 \in Int
        /\ (i - 1) + 1 = i /\ (k - 1) + 1 = k /\ n - 1 = z + (k - 1) /\ n - 1 = (k - 1) + z
    <3> HIDE DEF z
    <3>1. n = z + k
      BY Zenon DEF z
    <3> HIDE DEF n
    <3> QED BY SMT, <1>1, <2>1, <3>1
  <2>3. (n - 1) % R = k - 1 /\ (n - 1) \div R = i - 1
    <3> HIDE DEF n
    <3> QED BY Zenon, <1>1, <2>2, Remainder DEF z
  <2>4. T(n) = ChunkNumber(f, z + (k - 1)) * m[i] * c[k]
    <3> HIDE DEF n, z
    <3> QED BY Zenon, <2>2, <2>3
  <2> QED BY Zenon, <1>3, <2>2, <2>4
<1> HIDE DEF d, T
<1>9. /\ \A j \in 1 .. R * C : g[j] \in Int
      /\ \A i \in 1 .. C, k \in 1 .. R : d[i][k] = g[R * (i - 1) + k]
  BY Zenon, <1>7, <1>8
<1>10. SumOfSums(d, C, R) = Sum(g, R * C)
  <2> HIDE DEF g
  <2> QED BY Zenon, <1>1, <1>9, SumBlocks
<1>11. Sum(g, R * C) = Sum(g, N)
  <2>1. N \in 0 .. R * C
    BY SMT, <1>1, <1>2, <1>6
  <2>2. \A j \in 1 .. R * C : g[j] \in Int /\ (j > N => g[j] = 0)
    BY Zenon, <1>7
  <2> HIDE DEF g
  <2> QED BY Zenon, <1>6, <2>1, <2>2, SumTail
<1>12. Sum(g, N) = Sum(h, N) /\ Sum(g, N) \in Int
  <2>1. \A j \in 1 .. N : j \in 1 .. R * C
    BY SMT, <1>1, <1>2, <1>6
  <2>2. \A j \in 1 .. N : g[j] \in Int /\ h[j] = g[j]
    BY Zenon, <1>7, <2>1
  <2>3. N \in 0 .. N
    BY SMT, <1>1
  <2> HIDE DEF g, h
  <2> QED BY Zenon, <1>1, <2>2, <2>3, SumSame, SumSteps
<1> QED BY Zenon, <1>4, <1>5, <1>10, <1>11, <1>12

(* The sums of fulfill_challenge, which are reduced only at the end, times  *)
(* the secret m of their slice are the sums of the entries of the slice.    *)
LEMMA DotProducts ==
  ASSUME NEW f, NEW m, NEW c, Weights(f, m, c), NEW i \in 1 .. Cols(Len(f))
  PROVE  /\ DotProds1(f, c, i) \in Int
         /\ Sum(Slices(f, m, c)[i], Rows(Len(f))) = m[i] * DotProds1(f, c, i)
<1> DEFINE R == Rows(Len(f))
           g == [k \in 1 .. R |-> DataVal(f, i - 1, k - 1) * c[k]]
           d == Slices(f, m, c)[i]
<1>1. R \in Nat /\ R \in 0 .. R
  <2>1. R \in Nat
    BY Zenon, Entries
  <2> QED BY SMT, <2>1
<1>2. \A x, y, z \in Nat : x * y * z = y * (x * z) /\ x * z \in Int
  BY SMT
<1>3. m[i] \in Nat /\ \A k \in 1 .. R : c[k] \in Nat
  BY Zenon DEF Weights
<1>4. m[i] \in Int
  BY SMT, <1>3
<1>5. \A k \in 1 .. R : g[k] \in Int /\ d[k] = m[i] * g[k]
  <2> TAKE k \in 1 .. R
  <2>1. d[k] = DataVal(f, i - 1, k - 1) * m[i] * c[k]
    BY Zenon DEF Slices, Entry
  <2>2. DataVal(f, i - 1, k - 1) \in Nat
    BY Zenon, Entries
  <2> QED BY Zenon, <1>2, <1>3, <2>1, <2>2
<1>6. DotProds1(f, c, i) = Sum(g, R)
  BY Zenon DEF DotProds1
<1> HIDE DEF g, d
<1>7. Sum(d, R) = m[i] * Sum(g, R) /\ Sum(g, R) \in Int
  BY Zenon, <1>1, <1>4, <1>5, SumTimes, SumSteps
<1> QED BY Zenon, <1>6, <1>7 DEF d

(* The same for the sums of from_file, of the numbers of a row.             *)
LEMMA PartialProducts ==
  ASSUME NEW f, NEW m, NEW c, Weights(f, m, c), NEW k \in 1 .. Rows(Len(f))
  PROVE  /\ Partials1(f, m, k) \in Int
         /\ Sum(RowsOf(f, m, c)[k], Cols(Len(f))) = c[k] * Partials1(f, m, k)
<1> DEFINE C == Cols(Len(f))
           g == [i \in 1 .. C |-> DataVal(f, i - 1, k - 1) * m[i]]
           d == RowsOf(f, m, c)[k]
<1>1. C \in Nat /\ C \in 0 .. C
  <2>1. C \in Nat
    BY Zenon, Entries
  <2> QED BY SMT, <2>1
<1>2. \A x, y, z \in Nat : x * y * z = z * (x * y) /\ x * y \in Int
  BY SMT
<1>3. c[k] \in Nat /\ \A i \in 1 .. C : m[i] \in Nat
  BY Zenon DEF Weights
<1>4. c[k] \in Int
  BY SMT, <1>3
<1>5. \A i \in 1 .. C : g[i] \in Int /\ d[i] = c[k] * g[i]
  <2> TAKE i \in 1 .. C
  <2>1. d[i] = DataVal(f, i - 1, k - 1) * m[i] * c[k]
    BY Zenon DEF RowsOf, Entry
  <2>2. DataVal(f, i - 1, k - 1) \in Nat
    BY Zenon, Entries
  <2> QED BY Zenon, <1>2, <1>3, <2>1, <2>2
<1>6. Partials1(f, m, k) = Sum(g, C)
  BY Zenon DEF Partials1
<1> HIDE DEF g, d
<1>7. Sum(d, C) = c[k] * Sum(g, C) /\ Sum(g, C) \in Int
  BY Zenon, <1>1, <1>4, <1>5, SumTimes, SumSteps
<1> QED BY Zenon, <1>6, <1>7 DEF d

(* What audit computes from the keeper's answer is what the keeper's copy   *)
(* weighs, modulo P57.                                                      *)
THEOREM AnswerWeighs ==
  ASSUME NEW f, NEW m, NEW c, Weights(f, m, c)
  PROVE  /\ ReducedSum(Fulfil(f, c), m, Cols(Len(f))) \in 0 .. P
         /\ Congruent(P, ReducedSum(Fulfil(f, c), m, Cols(Len(f))), Weighed(f, m, c))
<1> DEFINE C == Cols(Len(f))
           R == Rows(Len(f))
           a == Fulfil(f, c)
           t == [i \in 1 .. C |-> a[i] * m[i]]
           u == [i \in 1 .. C |-> Sum(Slices(f, m, c)[i], R)]
<1>0. P \in Nat \ {0} /\ P \in Nat
  BY SMT, PorAssumption
<1>1. C \in Nat /\ C \in 0 .. C
  <2>1. C \in Nat
    BY Zenon, Entries
  <2> QED BY SMT, <2>1
<1>2. ASSUME NEW i \in 1 .. C
      PROVE  /\ a[i] \in Nat /\ m[i] \in Nat /\ t[i] = a[i] * m[i]
             /\ t[i] \in Int /\ u[i] \in Int /\ Congruent(P, t[i], u[i])
  <2> DEFINE x == DotProds1(f, c, i)
  <2>1. x \in Int /\ u[i] = m[i] * x /\ a[i] = x % P /\ t[i] = a[i] * m[i]
    BY Zenon, DotProducts DEF Fulfil
  <2>2. m[i] \in Nat
    BY Zenon DEF Weights
  <2> HIDE DEF x, a, t, u
  <2>3. a[i] \in 0 .. P - 1 /\ Congruent(P, a[i], x)
    BY Zenon, <1>0, <2>1, ModCongruent
  <2>4. a[i] \in Nat /\ a[i] \in Int /\ m[i] \in Int
    BY SMT, <1>0, <2>2, <2>3
  <2>5. Congruent(P, a[i] * m[i], x * m[i])
    BY Zenon, <1>0, <2>1, <2>3, <2>4, CongruentTimes
  <2>6. \A y, z \in Int : y * z = z * y /\ y * z \in Int
    BY SMT
  <2> QED BY Zenon, <2>1, <2>2, <2>4, <2>5, <2>6
<1>3. Weighed(f, m, c) = Sum(u, C) /\ Weighed(f, m, c) \in Int
  BY Zenon, WeighedIsTotal DEF Total, SumOfSums
<1> DEFINE r == ReducedSum(a, m, C)
<1> HIDE DEF a, t, u
<1>4. r \in 0 .. P /\ Congruent(P, r, Sum(t, C))
  BY Zenon, <1>1, <1>2, ReducedSumCongruent
<1>5. Congruent(P, Sum(t, C), Sum(u, C)) /\ Sum(t, C) \in Int
  BY Zenon, <1>0, <1>1, <1>2, SumCongruent, SumSteps
<1>6. r \in Int
  BY SMT, <1>0, <1>4
<1>7. Congruent(P, r, Sum(u, C))
  <2> HIDE DEF r
  <2> QED BY Zenon, <1>0, <1>3, <1>4, <1>5, <1>6, CongruentTrans
<1> QED BY Zenon, <1>3, <1>4, <1>7 DEF a

(* What a file weighs is the sum of its rows, each with its number of the   *)
(* challenge.                                                               *)
LEMMA WeighedByRows ==
  ASSUME NEW f, NEW m, NEW c, Weights(f, m, c)
  PROVE  Weighed(f, m, c) =
           Sum([k \in 1 .. Rows(Len(f)) |-> c[k] * Partials1(f, m, k)], Rows(Len(f)))
<1> DEFINE C == Cols(Len(f))
           R == Rows(Len(f))
           d == Slices(f, m, c)
           e == RowsOf(f, m, c)
           u == [k \in 1 .. R |-> Sum(e[k], C)]
           v == [k \in 1 .. R |-> c[k] * Partials1(f, m, k)]
<1>1. C \in Nat /\ R \in Nat
  BY Zenon, Entries
<1>2. \A i \in 1 .. C, k \in 1 .. R : d[i][k] \in Int /\ e[k][i] = d[i][k]
  BY Zenon, Entries DEF Slices, RowsOf
<1>3. SumOfSums(d, C, R) = SumOfSums(e, R, C)
  <2> HIDE DEF d, e, C, R
  <2> QED BY Zenon, <1>1, <1>2, SumExchange
<1>4. u = v
  <2>1. \A k \in 1 .. R : Sum(e[k], C) = c[k] * Partials1(f, m, k)
    BY Zenon, PartialProducts
  <2> HIDE DEF e, C, R
  <2> QED BY Zenon, <2>1
<1>5. Weighed(f, m, c) = Sum(u, R)
  BY Zenon, <1>3, WeighedIsTotal DEF Total, SumOfSums
<1> QED BY Zenon, <1>4, <1>5

(* What audit computes from the secret n is what the uploaded file weighs,  *)
(* modulo P57.                                                              *)
THEOREM SecretWeighs ==
  ASSUME NEW f, NEW m, NEW c, Weights(f, m, c)
  PROVE  /\ ReducedSum(c, SecretN(f, m), Rows(Len(f))) \in 0 .. P
         /\ Congruent(P, ReducedSum(c, SecretN(f, m), Rows(Len(f))), Weighed(f, m, c))
<1> DEFINE R == Rows(Len(f))
           a == SecretN(f, m)
           t == [k \in 1 .. R |-> c[k] * a[k]]
           u == [k \in 1 .. R |-> c[k] * Partials1(f, m, k)]
<1>0. P \in Nat \ {0} /\ P \in Nat
  BY SMT, PorAssumption
<1>1. R \in Nat /\ R \in 0 .. R
  <2>1. R \in Nat
    BY Zenon, Entries
  <2> QED BY SMT, <2>1
<1>2. ASSUME NEW k \in 1 .. R
      PROVE  /\ a[k] \in Nat /\ c[k] \in Nat /\ t[k] = c[k] * a[k]
             /\ t[k] \in Int /\ u[k] \in Int /\ Congruent(P, t[k], u[k])
  <2> DEFINE x == Partials1(f, m, k)
  <2>1. x \in Int /\ u[k] = c[k] * x /\ a[k] = x % P /\ t[k] = c[k] * a[k]
    BY Zenon, PartialProducts DEF SecretN
  <2>2. c[k] \in Nat
    BY Zenon DEF Weights
  <2> HIDE DEF x, a, t, u
  <2>3. a[k] \in 0 .. P - 1 /\ Congruent(P, a[k], x)
    BY Zenon, <1>0, <2>1, ModCongruent
  <2>4. a[k] \in Nat /\ a[k] \in Int /\ c[k] \in Int
    BY SMT, <1>0, <2>2, <2>3
  <2>5. Congruent(P, c[k] * a[k], c[k] * x)
    BY Zenon, <1>0, <2>1, <2>3, <2>4, CongruentTimes
  <2>6. \A y, z \in Int : y * z \in Int
    BY SMT
  <2> QED BY Zenon, <2>1, <2>2, <2>4, <2>5, <2>6
<1>3. Weighed(f, m, c) = Sum(u, R) /\ Weighed(f, m, c) \in Int
  BY Zenon, WeighedByRows, WeighedIsTotal
<1> DEFINE r == ReducedSum(c, a, R)
<1> HIDE DEF a, t, u
<1>4. r \in 0 .. P /\ Congruent(P, r, Sum(t, R))
  BY Zenon, <1>1, <1>2, ReducedSumCongruent
<1>5. Congruent(P, Sum(t, R), Sum(u, R)) /\ Sum(t, R) \in Int
  BY Zenon, <1>0, <1>1, <1>2, SumCongruent, SumSteps
<1>6. r \in Int
  BY SMT, <1>0, <1>4
<1>7. Congruent(P, r, Sum(u, R))
  <2> HIDE DEF r
  <2> QED BY Zenon, <1>0, <1>3, <1>4, <1>5, <1>6, CongruentTrans
<1> QED BY Zenon, <1>3, <1>4, <1>7 DEF a

(* A product of three numbers that P57 does not divide is not divided.      *)
LEMMA PrimeProduct ==
  ASSUME NEW x \in 1 .. P - 1, NEW y \in 1 .. P - 1, NEW z \in 1 .. P - 1
  PROVE  ~ Congruent(P, x * y * z, 0)
<1> DEFINE r == (x * y) % P
<1>0. P \in Nat \ {0} /\ P \in Nat /\ x * y \in Int /\ z \in Int /\ 0 \in Int
  BY SMT, PorAssumption
<1>1. r \in 0 .. P - 1 /\ Congruent(P, r, x * y)
  BY Zenon, <1>0, ModCongruent
<1>2. r # 0
  BY Zenon, PrimeAssumption
<1> HIDE DEF r
<1>3. r \in 1 .. P - 1 /\ r \in Int
  BY SMT, <1>0, <1>1, <1>2
<1>4. (r * z) % P # 0
  BY Zenon, <1>3, PrimeAssumption
<1>5. Congruent(P, r * z, x * y * z)
  BY Zenon, <1>0, <1>1, <1>3, CongruentTimes
<1>6. ASSUME Congruent(P, x * y * z, 0) PROVE FALSE
  <2>1. x * y * z \in Int /\ r * z \in Int
    BY SMT, <1>0, <1>3
  <2>2. Congruent(P, r * z, 0)
    BY Zenon, <1>0, <1>5, <1>6, <2>1, CongruentTrans
  <2>3. (r * z) % P = 0 % P
    BY Zenon, <1>0, <2>1, <2>2, CongruentMod
  <2>4. 0 % P = 0
    BY SMT, <1>0
  <2> QED BY Zenon, <1>4, <2>3, <2>4
<1> QED BY Zenon, <1>6

(* Two files of one length that differ in one chunk weigh the same, modulo  *)
(* P57, only where a weight of that chunk is 0.                             *)
THEOREM OneChunkShows ==
  ASSUME NEW f, NEW g, NEW m, NEW c, Weights(f, m, c), Weights(g, m, c), Len(f) = Len(g),
         \A i \in 1 .. Cols(Len(f)) : m[i] \in 0 .. P - 1,
         \A k \in 1 .. Rows(Len(f)) : c[k] \in 0 .. P - 1,
         NEW n \in 0 .. NumChunks(Len(f)) - 1, ChunkNumber(f, n) # ChunkNumber(g, n),
         \A j \in 0 .. NumChunks(Len(f)) - 1 : j # n => ChunkNumber(f, j) = ChunkNumber(g, j),
         Weighed(f, m, c) % P = Weighed(g, m, c) % P
  PROVE  m[n \div Rows(Len(f)) + 1] = 0 \/ c[(n % Rows(Len(f))) + 1] = 0
<1> DEFINE N == NumChunks(Len(f))
           R == Rows(Len(f))
           C == Cols(Len(f))
           mm(j) == m[j \div R + 1]
           cc(j) == c[(j % R) + 1]
           u == [j \in 1 .. N |-> ChunkNumber(f, j - 1) * mm(j - 1) * cc(j - 1)]
           v == [j \in 1 .. N |-> ChunkNumber(g, j - 1) * mm(j - 1) * cc(j - 1)]
<1>0. /\ P \in Nat \ {0} /\ P \in Nat
      /\ f \in Seq(0 .. BYTE - 1) /\ g \in Seq(0 .. BYTE - 1) /\ f # <<>>
  BY Zenon, PorAssumption, SMT DEF Weights
<1>1. N \in Nat /\ R \in Nat \ {0} /\ C \in Nat /\ N <= R * C
  <2>1. Len(f) \in Nat \ {0}
    BY SMT, <1>0
  <2> QED BY Zenon, <2>1, Entries, ColsBounds
<1>2. Weighed(f, m, c) = Sum(u, N) /\ Weighed(g, m, c) = Sum(v, N)
  BY Zenon DEF Weighed
<1>3. Weighed(f, m, c) \in Int /\ Weighed(g, m, c) \in Int
  BY Zenon, WeighedIsTotal
<1>4. ASSUME NEW j \in Nat
      PROVE  /\ ChunkNumber(f, j) \in 0 .. Power(BYTE, BYTES_UNDER_P) - 1
             /\ ChunkNumber(g, j) \in 0 .. Power(BYTE, BYTES_UNDER_P) - 1
  BY Zenon, <1>0, ChunkNumberBound
<1>5. Power(BYTE, BYTES_UNDER_P) \in Nat /\ Power(BYTE, BYTES_UNDER_P) <= P
  <2>1. Power(BYTE, BYTES_UNDER_P) \in Nat \ {0}
    BY Zenon, BytePowers, LayoutAssumption
  <2> QED BY Zenon, <2>1, PorAssumption
<1>6. ASSUME NEW j \in Nat
      PROVE  ChunkNumber(f, j) \in 0 .. P - 1 /\ ChunkNumber(g, j) \in 0 .. P - 1
  <2>1. \A w \in Nat : w <= P => \A x \in 0 .. w - 1 : x \in 0 .. P - 1
    BY SMT, <1>0
  <2> QED BY Zenon, <1>4, <1>5, <2>1
<1> HIDE DEF N, R, C
<1>7. ASSUME NEW j \in 0 .. N - 1 PROVE mm(j) \in 0 .. P - 1 /\ cc(j) \in 0 .. P - 1
  <2> DEFINE q == j \div R
             r == j % R
  <2>1. q \in Nat /\ r \in 0 .. R - 1 /\ j = R * q + r
    BY SMT, <1>1
  <2> HIDE DEF q, r
  <2>2. q < C
    <3>1. ASSUME q >= C PROVE FALSE
      <4>1. R * q >= R * C /\ R * q \in Int /\ R * C \in Int
        BY SMT, <1>1, <2>1, <3>1
      <4> QED BY SMT, <1>1, <2>1, <4>1
    <3> QED BY SMT, <1>1, <2>1, <3>1
  <2>3. q + 1 \in 1 .. C /\ r + 1 \in 1 .. R
    BY SMT, <1>1, <2>1, <2>2
  <2> QED BY Zenon, <2>3 DEF C, R, q, r
<1>8. n \in Nat /\ n + 1 \in 1 .. N /\ (n + 1) - 1 = n /\ n \in 0 .. N - 1
  BY SMT, <1>1 DEF N
<1> DEFINE x == ChunkNumber(f, n)
           y == ChunkNumber(g, n)
           a == mm(n)
           b == cc(n)
<1>9. x \in 0 .. P - 1 /\ y \in 0 .. P - 1 /\ a \in 0 .. P - 1 /\ b \in 0 .. P - 1 /\ x # y
  BY Zenon, <1>6, <1>7, <1>8
<1>10. Sum(u, N) - Sum(v, N) = x * a * b - y * a * b
  <2>1. \A i, j, k \in 0 .. P - 1 : i * j * k \in Int
    BY SMT, <1>0
  <2>2. \A j \in 1 .. N : j - 1 \in Nat /\ j - 1 \in 0 .. N - 1 /\ (j # n + 1 => j - 1 # n)
    BY SMT, <1>1, <1>8
  <2>3. \A j \in 1 .. N : u[j] \in Int /\ v[j] \in Int /\ (j # n + 1 => u[j] = v[j])
    <3> TAKE j \in 1 .. N
    <3> DEFINE aj == mm(j - 1)
               bj == cc(j - 1)
               xj == ChunkNumber(f, j - 1)
               yj == ChunkNumber(g, j - 1)
    <3>1. aj \in 0 .. P - 1 /\ bj \in 0 .. P - 1 /\ xj \in 0 .. P - 1 /\ yj \in 0 .. P - 1
      BY Zenon, <1>6, <1>7, <2>2
    <3>2. j # n + 1 => xj = yj
      BY Zenon, <2>2 DEF N
    <3>3. u[j] = xj * aj * bj /\ v[j] = yj * aj * bj
      BY Zenon
    <3> HIDE DEF aj, bj, xj, yj, u, v
    <3> QED BY Zenon, <2>1, <3>1, <3>2, <3>3
  <2>4. u[n + 1] = x * a * b /\ v[n + 1] = y * a * b
    BY Zenon, <1>8
  <2> HIDE DEF u, v
  <2>5. Sum(u, N) - Sum(v, N) = u[n + 1] - v[n + 1]
    BY SMT, <1>1, <1>8, <2>3, SumOneTerm
  <2> QED BY Zenon, <2>4, <2>5
<1>11. PICK q \in Int : Sum(u, N) = Sum(v, N) + P * q
  <2>1. Congruent(P, Weighed(f, m, c), Weighed(g, m, c))
    BY Zenon, <1>0, <1>3, CongruentMod
  <2>2. Congruent(P, Sum(u, N), Sum(v, N))
    BY Zenon, <1>2, <2>1
  <2> HIDE DEF u, v
  <2> QED BY Zenon, <2>2 DEF Congruent
<1>12. Sum(u, N) \in Int /\ Sum(v, N) \in Int
  BY Zenon, <1>2, <1>3
<1> HIDE DEF x, y, a, b, u, v
<1>13. ASSUME a # 0, b # 0 PROVE FALSE
  <2>1. a \in 1 .. P - 1 /\ b \in 1 .. P - 1
    BY SMT, <1>0, <1>9, <1>13
  <2>2. (x - y) * a * b = P * q
    <3>1. (x - y) * a * b = x * a * b - y * a * b
      BY SMT, <1>0, <1>9
    <3>2. P * q \in Int
      BY SMT, <1>0
    <3> QED BY SMT, <1>10, <1>11, <1>12, <3>1, <3>2
  <2>3. CASE x > y
    <3>1. x - y \in 1 .. P - 1
      BY SMT, <1>0, <1>9, <2>3
    <3>2. (x - y) * a * b = 0 + P * q
      BY SMT, <1>0, <2>2
    <3> QED BY Zenon, <2>1, <3>1, <3>2, PrimeProduct DEF Congruent
  <2>4. CASE y > x
    <3>1. y - x \in 1 .. P - 1
      BY SMT, <1>0, <1>9, <2>4
    <3>2. (y - x) * a * b = 0 - (x - y) * a * b
      BY SMT, <1>0, <1>9
    <3>3. (y - x) * a * b = 0 + P * (0 - q) /\ 0 - q \in Int
      BY SMT, <1>0, <2>2, <3>2
    <3> QED BY Zenon, <2>1, <3>1, <3>3, PrimeProduct DEF Congruent
  <2> QED BY SMT, <1>0, <1>9, <2>3, <2>4
<1> QED BY Zenon, <1>13 DEF a, b, R

(* Two factors whose product P57 divides: one of them is divided.           *)
LEMMA PrimeDifference ==
  ASSUME NEW x \in 0 .. P - 1, NEW y \in 0 .. P - 1, x # y, NEW u \in Int, NEW v \in Int,
         Congruent(P, (x - y) * (u - v), 0)
  PROVE  u % P = v % P
<1> DEFINE r == u % P
           s == v % P
<1>0. P \in Nat \ {0} /\ P \in Nat /\ P \in Int
  BY SMT, PorAssumption
<1>1. r \in 0 .. P - 1 /\ s \in 0 .. P - 1 /\ Congruent(P, r, u) /\ Congruent(P, s, v)
  BY Zenon, <1>0, ModCongruent
<1> HIDE DEF r, s
<1>2. PICK a \in Int : r = u + P * a
  BY Zenon, <1>1 DEF Congruent
<1>3. PICK b \in Int : s = v + P * b
  BY Zenon, <1>1 DEF Congruent
<1>4. PICK q \in Int : (x - y) * (u - v) = 0 + P * q
  BY Zenon DEF Congruent
<1> DEFINE w == x - y
           t == q + w * (a - b)
<1>5. w \in Int /\ t \in Int /\ w * (r - s) = P * t
  <2>1. x \in Int /\ y \in Int
    BY SMT, <1>0
  <2>2. w \in Int /\ w * (u - v) = P * q
    BY SMT, <1>0, <1>4, <2>1
  <2> HIDE DEF w
  <2>3. r - s = (u - v) + P * (a - b)
    BY SMT, <1>0, <1>2, <1>3
  <2>4. w * (r - s) = w * (u - v) + w * (P * (a - b))
    BY SMT, <1>0, <2>2, <2>3
  <2>5. w * (P * (a - b)) = P * (w * (a - b)) /\ w * (a - b) \in Int
    BY SMT, <1>0, <2>2
  <2>6. P * (q + w * (a - b)) = P * q + P * (w * (a - b))
    BY SMT, <1>0, <2>5
  <2> QED BY SMT, <1>0, <2>2, <2>4, <2>5, <2>6
<1> HIDE DEF t
<1>6. ASSUME r # s PROVE FALSE
  <2>1. ASSUME NEW i \in 1 .. P - 1, NEW j \in 1 .. P - 1, NEW z \in Int, i * j = P * z PROVE FALSE
    <3>1. i * j \in Int /\ 0 \in Int /\ i * j = 0 + P * z /\ 0 % P = 0
      BY SMT, <1>0, <2>1
    <3>2. Congruent(P, i * j, 0)
      BY Zenon, <3>1 DEF Congruent
    <3>3. (i * j) % P = 0 % P
      BY Zenon, <1>0, <3>1, <3>2, CongruentMod
    <3> QED BY Zenon, <3>1, <3>3, PrimeAssumption
  <2>2. /\ w > 0 => w \in 1 .. P - 1
        /\ w < 0 => 0 - w \in 1 .. P - 1
        /\ w # 0
    BY SMT, <1>0
  <2> DEFINE e == r - s
  <2>3. /\ e > 0 => e \in 1 .. P - 1
        /\ e < 0 => 0 - e \in 1 .. P - 1
        /\ e # 0 /\ e \in Int
    BY SMT, <1>0, <1>1, <1>6
  <2>4. w * e = P * t
    BY Zenon, <1>5
  <2> HIDE DEF w, e
  <2>5. /\ w * (0 - e) = P * (0 - t) /\ (0 - w) * e = P * (0 - t)
        /\ (0 - w) * (0 - e) = P * t /\ 0 - t \in Int
    BY SMT, <1>0, <1>5, <2>3, <2>4
  <2>6. (w > 0 \/ w < 0) /\ (e > 0 \/ e < 0)
    BY SMT, <1>5, <2>2, <2>3
  <2> QED BY Zenon, <1>5, <2>1, <2>2, <2>3, <2>4, <2>5, <2>6
<1> QED BY Zenon, <1>6 DEF r, s

\* Two files of one length that weigh the same, modulo P57.
WeighSame(f, g, m, c) == /\ Len(f) = Len(g) /\ Weights(f, m, c) /\ Weights(g, m, c)
                         /\ Congruent(P, Weighed(f, m, c), Weighed(g, m, c))

\* Two challenges that differ in row k of f only.
OneRowApart(f, c, d, k) == /\ k \in 1 .. Rows(Len(f)) /\ c[k] # d[k]
                           /\ c[k] \in 0 .. P - 1 /\ d[k] \in 0 .. P - 1
                           /\ \A j \in 1 .. Rows(Len(f)) : j # k => c[j] = d[j]

(* Two challenges that differ in one row only change what a file weighs by  *)
(* a multiple of that row: if two files weigh the same with both, they have *)
(* the same secret n there.                                                 *)
THEOREM TwoDrawsShow ==
  ASSUME NEW f, NEW g, NEW m, NEW c, NEW d, NEW k,
         WeighSame(f, g, m, c), WeighSame(f, g, m, d), OneRowApart(f, c, d, k)
  PROVE  SecretN(f, m)[k] = SecretN(g, m)[k]
<1> DEFINE R == Rows(Len(f))
           row(h, b) == [j \in 1 .. R |-> b[j] * Partials1(h, m, j)]
           u == Partials1(f, m, k)
           v == Partials1(g, m, k)
           x == c[k]
           y == d[k]
<1>0. P \in Nat \ {0} /\ P \in Nat
  BY SMT, PorAssumption
<1>a. /\ Weights(f, m, c) /\ Weights(g, m, c) /\ Weights(f, m, d) /\ Weights(g, m, d)
      /\ Congruent(P, Weighed(f, m, c), Weighed(g, m, c))
      /\ Congruent(P, Weighed(f, m, d), Weighed(g, m, d)) /\ Len(f) = Len(g)
  BY Zenon DEF WeighSame
<1>b. k \in 1 .. R /\ x \in 0 .. P - 1 /\ y \in 0 .. P - 1 /\ x # y
  BY Zenon DEF OneRowApart
<1>c. \A j \in 1 .. R : j # k => c[j] = d[j]
  BY Zenon DEF OneRowApart
<1>1. R \in Nat /\ u \in Int /\ v \in Int
  BY Zenon, <1>a, <1>b, Entries, PartialProducts
<1>2. ASSUME NEW h, Weights(h, m, c), Weights(h, m, d), Len(h) = Len(f)
      PROVE  Weighed(h, m, c) - Weighed(h, m, d) = x * Partials1(h, m, k) - y * Partials1(h, m, k)
  <2> DEFINE s == row(h, c)
             t == row(h, d)
  <2>1. Weighed(h, m, c) = Sum(s, R) /\ Weighed(h, m, d) = Sum(t, R)
    BY Zenon, <1>2, WeighedByRows
  <2>2. \A a \in Nat, b \in Int : a * b \in Int
    BY SMT
  <2>3. \A j \in 1 .. R : s[j] \in Int /\ t[j] \in Int /\ (j # k => s[j] = t[j])
    <3> TAKE j \in 1 .. R
    <3>1. c[j] \in Nat /\ d[j] \in Nat /\ Partials1(h, m, j) \in Int
      BY Zenon, <1>2, PartialProducts DEF Weights
    <3>2. s[j] = c[j] * Partials1(h, m, j) /\ t[j] = d[j] * Partials1(h, m, j)
      BY Zenon
    <3> HIDE DEF s, t
    <3> QED BY Zenon, <1>c, <2>2, <3>1, <3>2
  <2>4. s[k] = x * Partials1(h, m, k) /\ t[k] = y * Partials1(h, m, k) /\ k \in 1 .. R
    BY Zenon, <1>b
  <2> HIDE DEF s, t, R
  <2>5. Sum(s, R) - Sum(t, R) = s[k] - t[k]
    BY SMT, <1>1, <2>3, <2>4, SumOneTerm
  <2> QED BY Zenon, <2>1, <2>4, <2>5
<1>3. PICK q \in Int : Weighed(f, m, c) = Weighed(g, m, c) + P * q
  BY Zenon, <1>a DEF Congruent
<1>4. PICK r \in Int : Weighed(f, m, d) = Weighed(g, m, d) + P * r
  BY Zenon, <1>a DEF Congruent
<1> DEFINE fc == Weighed(f, m, c)
           fd == Weighed(f, m, d)
           gc == Weighed(g, m, c)
           gd == Weighed(g, m, d)
<1>5. fc \in Int /\ fd \in Int /\ gc \in Int /\ gd \in Int
  BY Zenon, <1>a, WeighedIsTotal
<1>6. fc - fd = x * u - y * u /\ gc - gd = x * v - y * v
  BY Zenon, <1>2, <1>a
<1>7. fc = gc + P * q /\ fd = gd + P * r
  BY Zenon, <1>3, <1>4
<1>8. x \in 0 .. P - 1 /\ y \in 0 .. P - 1 /\ x # y
  BY Zenon, <1>b
<1> HIDE DEF fc, fd, gc, gd, u, v, x, y
<1>9. (x - y) * (u - v) = 0 + P * (q - r) /\ q - r \in Int
  <2>1. x \in Int /\ y \in Int
    BY SMT, <1>0, <1>8
  <2>2. (x - y) * (u - v) = (x * u - y * u) - (x * v - y * v)
    BY SMT, <1>1, <2>1
  <2>3. P * (q - r) = P * q - P * r /\ P * q \in Int /\ P * r \in Int
    BY SMT, <1>0
  <2>4. (fc - fd) - (gc - gd) = P * q - P * r
    <3> DEFINE a == P * q
               b == P * r
    <3>1. a \in Int /\ b \in Int /\ fc = gc + a /\ fd = gd + b
      BY Zenon, <1>7, <2>3
    <3> HIDE DEF a, b
    <3>2. (fc - fd) - (gc - gd) = a - b
      BY SMT, <1>5, <3>1
    <3> QED BY Zenon, <3>2 DEF a, b
  <2> DEFINE z == P * (q - r)
  <2>5. (x - y) * (u - v) = z
    BY Zenon, <1>6, <2>2, <2>3, <2>4
  <2>6. z \in Int
    BY SMT, <1>0
  <2> HIDE DEF z
  <2>7. z = 0 + z
    BY SMT, <2>6
  <2>8. q - r \in Int
    BY SMT
  <2> QED BY Zenon, <2>5, <2>7, <2>8 DEF z
<1>10. Congruent(P, (x - y) * (u - v), 0)
  BY Zenon, <1>9 DEF Congruent
<1>11. u % P = v % P
  BY SMT, <1>1, <1>8, <1>10, PrimeDifference
<1>12. SecretN(f, m)[k] = u % P /\ SecretN(g, m)[k] = v % P
  BY Zenon, <1>a, <1>b DEF SecretN, u, v
<1> QED BY Zenon, <1>11, <1>12

-----------------------------------------------------------------------------
\* From the upload to the audit.

\* The contract that from_file writes for the secret m, and what audit says.
Row(f, m) == [secret_n |-> U64ToBytes(SecretN(f, m)), secret_m |-> U64ToBytes(m),
              rows |-> Rows(Len(f)), cols |-> Cols(Len(f))]
AuditSays(row) == /\ Len(response) = row.cols /\ Len(challenge) = row.rows
                  /\ ReducedSum(response, BytesToU64(row.secret_m), row.cols)
                       = ReducedSum(challenge, BytesToU64(row.secret_n), row.rows)

\* Where every file and every copy comes from.
FilesInv == /\ file \in Uploads /\ copy \subseteq Uploads \cup Copies
            /\ copy = {} \/ \E f \in Uploads \cup Copies : copy = {f}

\* The contract is the one of the file and of some secret m.
ContractInv == contract # {} =>
  file # <<>> /\ \E m \in RandVector(Cols(Len(file))) : contract = {Row(file, m)}

\* From the challenge on there are a contract and a number for every row.
ChallengeInv == /\ pc = "upload" => contract = {}
                /\ pc \in {"stored", "challenged", "answered", "audited"} => contract # {}
                /\ pc \in {"challenged", "answered", "audited"} =>
                     challenge \in RandVector(Rows(Len(file)))

\* An answer is empty or what fulfill_challenge computes of the copy.
Answered == \/ copy = {} /\ response = <<>>
            \/ \E f \in Uploads \cup Copies :
                 /\ copy = {f} /\ f # <<>> /\ Rows(Len(f)) <= Rows(Len(file))
                 /\ response = Fulfil(f, challenge)

AuditInv == /\ pc \in {"upload", "stored", "challenged", "answered", "audited", "panic"}
            /\ FilesInv /\ ContractInv /\ ChallengeInv
            /\ pc \in {"answered", "audited"} => Answered
            /\ pc = "audited" => \A row \in contract : verdict = AuditSays(row)
            /\ OnlyOddLengthsPanic

(* Every file that is uploaded and every copy is a sequence of bytes.       *)
LEMMA FilesAreBytes ==
  ASSUME NEW f \in Uploads \cup Copies
  PROVE  f \in Seq(0 .. BYTE - 1)
BY Zenon, PorAssumption

(* A secret m or a challenge has numbers below P57, which fit a u64.        *)
LEMMA Drawn ==
  ASSUME NEW n \in Nat, NEW v \in RandVector(n)
  PROVE  /\ v \in [1 .. n -> 0 .. P - 1] /\ v \in [1 .. n -> 0 .. Power(BYTE, U64) - 1]
         /\ \A i \in 1 .. n : v[i] \in 0 .. P - 1 /\ v[i] \in Nat
         /\ Len(v) = n /\ DOMAIN v = 1 .. n
<1>1. Power(BYTE, U64) \in Nat \ {0} /\ P \in Nat /\ P <= Power(BYTE, U64)
  BY Zenon, BytePowers, PorAssumption
<1>2. \A x \in 0 .. P - 1 : x \in Nat /\ x \in 0 .. Power(BYTE, U64) - 1
  <2>1. \A w \in Nat \ {0} : P <= w => \A x \in 0 .. P - 1 : x \in Nat /\ x \in 0 .. w - 1
    BY SMT, <1>1
  <2> QED BY Zenon, <1>1, <2>1
<1>3. v \in [1 .. n -> Draws] /\ Draws \subseteq 0 .. P - 1
  BY Zenon, PorAssumption DEF RandVector
<1>4. \A i \in 1 .. n : v[i] \in 0 .. P - 1
  BY Zenon, <1>3
<1>5. Len(v) = n
  BY SMT, <1>3
<1>6. v \in [1 .. n -> 0 .. P - 1] /\ v \in [1 .. n -> 0 .. Power(BYTE, U64) - 1]
  BY Zenon, <1>2, <1>3, <1>4
<1> QED BY Zenon, <1>2, <1>3, <1>4, <1>5, <1>6

\* The largest product of a number of the matrix and a number below P57.
LargestProduct == (Power(BYTE, BYTES_UNDER_P) - 1) * (P - 1)

(* A product of a number of the matrix and a number that was drawn.         *)
LEMMA ProductBound ==
  ASSUME NEW f \in Seq(0 .. BYTE - 1), f # <<>>, NEW i \in 1 .. Cols(Len(f)),
         NEW k \in 1 .. Rows(Len(f)), NEW y \in 0 .. P - 1
  PROVE  LargestProduct \in Nat /\ DataVal(f, i - 1, k - 1) * y \in 0 .. LargestProduct
<1> DEFINE w == Power(BYTE, BYTES_UNDER_P)
           x == DataVal(f, i - 1, k - 1)
<1>1. Len(f) \in Nat \ {0}
  BY SMT
<1>2. Cols(Len(f)) \in Nat \ {0} /\ Rows(Len(f)) \in Nat
  BY Zenon, <1>1, ColsBounds, RowsBounds
<1>3. i - 1 \in Nat /\ k - 1 \in 0 .. Rows(Len(f)) - 1
  BY SMT, <1>2
<1>4. x \in 0 .. w - 1
  BY Zenon, <1>3, MatrixNumbers
<1>5. w \in Nat \ {0} /\ P \in Nat \ {0, 1}
  BY Zenon, BytePowers, LayoutAssumption, PorAssumption
<1> HIDE DEF w, x
<1>6. /\ (w - 1) * (P - 1) \in Nat /\ x * y \in Nat
      /\ x * y <= x * (P - 1) /\ x * (P - 1) <= (w - 1) * (P - 1)
  <2>1. w - 1 \in Nat /\ P - 1 \in Nat /\ x \in Nat /\ y \in Nat /\ x <= w - 1 /\ y <= P - 1
    BY SMT, <1>4, <1>5
  <2>2. \A a, b, c, d \in Nat : a <= c /\ b <= d => /\ c * d \in Nat /\ a * b \in Nat
                                                  /\ a * b <= a * d /\ a * d <= c * d
    BY SMT
  <2> QED BY Zenon, <2>1, <2>2
<1>7. \A a, b, c \in Nat : a <= b /\ b <= c => a \in 0 .. c
  BY SMT
<1>8. x * (P - 1) \in Nat
  BY SMT, <1>4, <1>5
<1> QED BY Zenon, <1>6, <1>7, <1>8 DEF LargestProduct, w, x

(* The sums of from_file stay below the number of slices, those of          *)
(* fulfill_challenge below the number of rows, times the largest product.   *)
LEMMA ProductSums ==
  ASSUME NEW f \in Seq(0 .. BYTE - 1), f # <<>>, NEW v
  PROVE  /\ (\A i \in 1 .. Cols(Len(f)) : v[i] \in 0 .. P - 1) =>
              \A k \in 1 .. Rows(Len(f)) : /\ Partials1(f, v, k) \in Nat
                                           /\ Partials1(f, v, k) <= Cols(Len(f)) * LargestProduct
         /\ (\A k \in 1 .. Rows(Len(f)) : v[k] \in 0 .. P - 1) =>
              \A i \in 1 .. Cols(Len(f)) : /\ DotProds1(f, v, i) \in Nat
                                           /\ DotProds1(f, v, i) <= Rows(Len(f)) * LargestProduct
<1> DEFINE C == Cols(Len(f))
           R == Rows(Len(f))
<1>1. Len(f) \in Nat \ {0}
  BY SMT
<1>2. C \in Nat \ {0} /\ R \in Nat /\ C \in Nat /\ R >= CHUNK_ALIGN
  BY Zenon, <1>1, ColsBounds, RowsBounds
<1>3. 1 \in 1 .. C /\ 1 \in 1 .. R /\ 0 \in 0 .. P - 1 /\ C \in 0 .. C /\ R \in 0 .. R
  BY SMT, <1>2, LayoutAssumption, PorAssumption
<1>4. LargestProduct \in Nat
  BY Zenon, <1>3, ProductBound
<1>5. ASSUME \A i \in 1 .. C : v[i] \in 0 .. P - 1, NEW k \in 1 .. R
      PROVE  Partials1(f, v, k) \in Nat /\ Partials1(f, v, k) <= C * LargestProduct
  <2> DEFINE g == [i \in 1 .. C |-> DataVal(f, i - 1, k - 1) * v[i]]
  <2>1. \A i \in 1 .. C : g[i] \in 0 .. LargestProduct
    BY Zenon, <1>5, ProductBound
  <2>2. Partials1(f, v, k) = Sum(g, C)
    BY Zenon DEF Partials1
  <2> HIDE DEF g, C
  <2>3. \A j \in 0 .. C : Sum(g, j) \in Nat /\ Sum(g, j) <= j * LargestProduct
    BY Zenon, <1>2, <1>4, <2>1, SumBound
  <2> QED BY Zenon, <1>3, <2>2, <2>3
<1>6. ASSUME \A k \in 1 .. R : v[k] \in 0 .. P - 1, NEW i \in 1 .. C
      PROVE  DotProds1(f, v, i) \in Nat /\ DotProds1(f, v, i) <= R * LargestProduct
  <2> DEFINE g == [k \in 1 .. R |-> DataVal(f, i - 1, k - 1) * v[k]]
  <2>1. \A k \in 1 .. R : g[k] \in 0 .. LargestProduct
    BY Zenon, <1>6, ProductBound
  <2>2. DotProds1(f, v, i) = Sum(g, R)
    BY Zenon DEF DotProds1
  <2> HIDE DEF g, R
  <2>3. \A j \in 0 .. R : Sum(g, j) \in Nat /\ Sum(g, j) <= j * LargestProduct
    BY Zenon, <1>2, <1>4, <2>1, SumBound
  <2> QED BY Zenon, <1>3, <2>2, <2>3
<1> QED BY Zenon, <1>5, <1>6

(* The secrets come back from the bytes of a contract as they were.         *)
LEMMA SecretsBack ==
  ASSUME NEW f \in Seq(0 .. BYTE - 1), f # <<>>, NEW m \in RandVector(Cols(Len(f)))
  PROVE  /\ Row(f, m).rows = Rows(Len(f)) /\ Row(f, m).cols = Cols(Len(f))
         /\ BytesToU64(Row(f, m).secret_m) = m
         /\ BytesToU64(Row(f, m).secret_n) = SecretN(f, m)
<1>1. /\ Row(f, m).rows = Rows(Len(f)) /\ Row(f, m).cols = Cols(Len(f))
      /\ Row(f, m).secret_m = U64ToBytes(m) /\ Row(f, m).secret_n = U64ToBytes(SecretN(f, m))
  BY Zenon DEF Row
<1>2. Len(f) \in Nat \ {0}
  BY SMT
<1>3. Cols(Len(f)) \in Nat \ {0} /\ Rows(Len(f)) \in Nat
  BY Zenon, <1>2, ColsBounds, RowsBounds
<1>4. Cols(Len(f)) \in Nat
  BY Zenon, <1>3
<1>5. BytesToU64(U64ToBytes(m)) = m
  BY Zenon, <1>4, Drawn, BytesBack
<1>6. SecretN(f, m) \in [1 .. Rows(Len(f)) -> 0 .. Power(BYTE, U64) - 1]
  <2>1. Power(BYTE, U64) \in Nat \ {0} /\ P \in Nat \ {0} /\ P <= Power(BYTE, U64)
    BY Zenon, BytePowers, PorAssumption
  <2>2. \A w \in Nat \ {0} : P <= w => \A x \in Int : x % P \in 0 .. w - 1
    BY SMT, <2>1
  <2>3. ASSUME NEW k \in 1 .. Rows(Len(f)) PROVE Partials1(f, m, k) \in Int
    <3>1. Partials1(f, m, k) \in Nat
      BY Zenon, <1>4, Drawn, ProductSums
    <3> QED BY SMT, <3>1
  <2>4. \A k \in 1 .. Rows(Len(f)) : Partials1(f, m, k) % P \in 0 .. Power(BYTE, U64) - 1
    BY Zenon, <2>1, <2>2, <2>3
  <2> QED BY Zenon, <2>4 DEF SecretN
<1>7. BytesToU64(U64ToBytes(SecretN(f, m))) = SecretN(f, m)
  BY Zenon, <1>3, <1>6, BytesBack
<1> QED BY Zenon, <1>1, <1>5, <1>7

(* The keeper answers without a panic for a copy that is not empty and not  *)
(* longer than the file, since it has no more rows.                         *)
LEMMA ShorterCopyAnswers ==
  ASSUME NEW f \in Seq(0 .. BYTE - 1), NEW g \in Seq(0 .. BYTE - 1), f # <<>>,
         g # <<>>, Len(f) <= Len(g), DOMAIN challenge = 1 .. Rows(Len(g))
  PROVE  1 .. Rows(Len(f)) \subseteq DOMAIN challenge
<1>1. Len(f) \in Nat \ {0} /\ Len(g) \in Nat \ {0}
  BY SMT
<1>2. Rows(Len(f)) \in Nat /\ Rows(Len(g)) \in Nat
  BY Zenon, <1>1, RowsBounds
<1>3. Rows(Len(f)) <= Rows(Len(g))
  BY SMT, <1>1, RowsMonotone
<1> QED BY SMT, <1>2, <1>3

(* A file that is not empty has a length and rows to speak of.              *)
LEMMA RowsOfFile ==
  ASSUME NEW f \in Uploads \cup Copies, f # <<>>
  PROVE  /\ f \in Seq(0 .. BYTE - 1) /\ Len(f) \in Nat \ {0}
         /\ Rows(Len(f)) \in Nat /\ 1 <= Rows(Len(f))
         /\ Cols(Len(f)) \in Nat /\ 1 <= Cols(Len(f))
<1>1. f \in Seq(0 .. BYTE - 1)
  BY Zenon, FilesAreBytes
<1>2. Len(f) \in Nat \ {0}
  BY SMT, <1>1
<1>3. Rows(Len(f)) \in Nat /\ Rows(Len(f)) >= CHUNK_ALIGN /\ Cols(Len(f)) \in Nat \ {0}
  BY Zenon, <1>2, RowsBounds, ColsBounds
<1>4. \A x \in Nat \ {0} : x \in Nat /\ 1 <= x
  BY SMT
<1>5. 1 <= Rows(Len(f))
  BY SMT, <1>3, LayoutAssumption
<1> QED BY Zenon, <1>1, <1>2, <1>3, <1>4, <1>5

(* from_file keeps the audit's invariant: it writes the contract of the     *)
(* file or panics for an empty one.                                         *)
LEMMA FromFileKeeps == AuditInv /\ FromFile => AuditInv'
<1> SUFFICES ASSUME AuditInv, FromFile PROVE AuditInv'
  BY Zenon
<1>1. /\ pc = "upload" /\ UNCHANGED <<file, copy, challenge, response, verdict>>
      /\ contract = {} /\ FilesInv
  BY Zenon DEF FromFile, AuditInv, ChallengeInv
<1>2. FilesInv'
  BY Zenon, <1>1 DEF FilesInv
<1>3. CASE file = <<>>
  <2>1. pc' = "panic" /\ contract' = contract
    BY Zenon, <1>3 DEF FromFile
  <2> QED BY Zenon, <1>1, <1>2, <1>3, <2>1
          DEF AuditInv, ContractInv, ChallengeInv, OnlyOddLengthsPanic
<1>4. CASE file # <<>>
  <2>1. pc' = "stored" /\ \E m \in RandVector(Cols(Len(file))) : contract' = {Row(file, m)}
    BY Zenon, <1>4 DEF FromFile, Row
  <2>2. ContractInv' /\ contract' # {}
    BY Zenon, <1>1, <1>4, <2>1 DEF ContractInv
  <2> QED BY Zenon, <1>1, <1>2, <2>1, <2>2 DEF AuditInv, ChallengeInv, OnlyOddLengthsPanic
<1> QED BY Zenon, <1>3, <1>4

(* So does damage to the keeper's copy before the challenge,                *)
LEMMA DamageKeeps == AuditInv /\ Damage => AuditInv'
<1> SUFFICES ASSUME AuditInv, Damage PROVE AuditInv'
  BY Zenon
<1>1. pc = "stored" /\ UNCHANGED <<pc, file, contract, challenge, response, verdict>>
  BY Zenon DEF Damage
<1>2. copy' = {} \/ \E f \in Copies : copy' = {f}
  BY Zenon DEF Damage
<1>3. FilesInv'
  BY Zenon, <1>1, <1>2 DEF FilesInv, AuditInv
<1>4. ContractInv' /\ ChallengeInv'
  BY Zenon, <1>1 DEF ContractInv, ChallengeInv, AuditInv
<1> QED BY Zenon, <1>1, <1>3, <1>4 DEF AuditInv, OnlyOddLengthsPanic

(* the challenge, which has a number for every row of the contract,         *)
LEMMA ChallengeKeeps == AuditInv /\ MakeChallengeVector => AuditInv'
<1> SUFFICES ASSUME AuditInv, MakeChallengeVector PROVE AuditInv'
  BY Zenon
<1>1. /\ pc = "stored" /\ pc' = "challenged"
      /\ UNCHANGED <<file, copy, contract, response, verdict>>
  BY Zenon DEF MakeChallengeVector
<1>2. PICK row \in contract : challenge' \in RandVector(row.rows)
  BY Zenon DEF MakeChallengeVector, Challenges
<1>3. file # <<>> /\ \E m \in RandVector(Cols(Len(file))) : contract = {Row(file, m)}
  BY Zenon, <1>2 DEF AuditInv, ContractInv
<1>4. row.rows = Rows(Len(file))
  <2>1. PICK m : row = Row(file, m)
    BY Zenon, <1>2, <1>3
  <2> QED BY SMT, <2>1 DEF Row
<1>5. challenge' \in RandVector(Rows(Len(file)))
  BY Zenon, <1>2, <1>4
<1>6. FilesInv' /\ ContractInv'
  BY Zenon, <1>1 DEF AuditInv, FilesInv, ContractInv
<1>7. contract' # {}
  BY Zenon, <1>1, <1>2
<1>8. ChallengeInv'
  <2>1. /\ Rows(Len(file))' = Rows(Len(file))
        /\ RandVector(Rows(Len(file)))' = RandVector(Rows(Len(file)))
    BY Zenon, <1>1
  <2> QED BY Zenon, <1>1, <1>5, <1>7, <2>1 DEF ChallengeInv
<1> QED BY Zenon, <1>1, <1>6, <1>8 DEF AuditInv, OnlyOddLengthsPanic

(* the keeper's answer, which is computed from its copy where it does not   *)
(* panic,                                                                   *)
LEMMA FulfilKeeps == AuditInv /\ FulfillChallenge => AuditInv'
<1> SUFFICES ASSUME AuditInv, FulfillChallenge PROVE AuditInv'
  BY Zenon
<1>1. pc = "challenged" /\ UNCHANGED <<file, copy, contract, challenge, verdict>>
  BY Zenon DEF FulfillChallenge
<1>2. contract # {} /\ challenge \in RandVector(Rows(Len(file))) /\ FilesInv /\ file # <<>>
  BY Zenon, <1>1 DEF AuditInv, ChallengeInv, ContractInv
<1>3. file \in Uploads \cup Copies
  BY Zenon, <1>2 DEF FilesInv
<1>4. /\ file \in Seq(0 .. BYTE - 1) /\ Len(file) \in Nat
      /\ Rows(Len(file)) \in Nat /\ DOMAIN challenge = 1 .. Rows(Len(file))
  <2>1. file \in Seq(0 .. BYTE - 1) /\ Rows(Len(file)) \in Nat
    BY Zenon, <1>2, <1>3, RowsOfFile
  <2>2. Len(file) \in Nat
    BY SMT, <2>1
  <2> QED BY Zenon, <1>2, <2>1, <2>2, Drawn
<1>5. FilesInv' /\ ContractInv' /\ Rows(Len(file))' = Rows(Len(file))
  BY Zenon, <1>1 DEF AuditInv, FilesInv, ContractInv
<1>6. CASE copy = {}
  <2>1. pc' = "answered" /\ response' = <<>>
    BY Zenon, <1>6 DEF FulfillChallenge
  <2> QED BY Zenon, <1>1, <1>2, <1>5, <1>6, <2>1
          DEF AuditInv, ChallengeInv, Answered, OnlyOddLengthsPanic, RandVector
<1>7. ASSUME NEW f \in copy, pc' = "panic",
             f = <<>> \/ ~ (1 .. Rows(Len(f)) \subseteq DOMAIN challenge)
      PROVE  AuditInv'
  <2>1. f \in Seq(0 .. BYTE - 1)
    BY Zenon, <1>2, FilesAreBytes DEF FilesInv
  <2>2. f = <<>> \/ ~ (Len(f) <= Len(file))
    BY Zenon, <1>2, <1>4, <1>7, <2>1, ShorterCopyAnswers
  <2>3. Len(f) \in Nat
    BY SMT, <2>1
  <2>4. \A x, y \in Nat : x > y \/ x <= y
    BY SMT
  <2>5. f = <<>> \/ Len(f) > Len(file)
    BY Zenon, <1>4, <2>2, <2>3, <2>4
  <2> QED BY Zenon, <1>1, <1>2, <1>5, <1>7, <2>5
          DEF AuditInv, ChallengeInv, OnlyOddLengthsPanic
<1>8. ASSUME NEW f \in copy, pc' = "answered", f # <<>>,
             1 .. Rows(Len(f)) \subseteq DOMAIN challenge, response' = Fulfil(f, challenge)
      PROVE  AuditInv'
  <2>1. f \in Uploads \cup Copies /\ copy = {f}
    BY Zenon, <1>2 DEF FilesInv
  <2>2. Rows(Len(f)) \in Nat /\ 1 <= Rows(Len(f))
    BY Zenon, <1>8, <2>1, RowsOfFile
  <2>3. Rows(Len(f)) \in 1 .. Rows(Len(f))
    BY SMT, <2>2
  <2>4. Rows(Len(f)) \in 1 .. Rows(Len(file))
    BY Zenon, <1>4, <1>8, <2>3
  <2>5. Rows(Len(f)) <= Rows(Len(file))
    BY SMT, <1>4, <2>4
  <2>6. Fulfil(f, challenge)' = Fulfil(f, challenge)
    BY Zenon, <1>1
  <2>7. Answered'
    BY Zenon, <1>1, <1>5, <1>8, <2>1, <2>5 DEF Answered
  <2> QED BY Zenon, <1>1, <1>2, <1>5, <1>8, <2>7
          DEF AuditInv, ChallengeInv, OnlyOddLengthsPanic, RandVector
<1> QED BY Zenon, <1>6, <1>7, <1>8 DEF FulfillChallenge

(* and the audit itself.                                                    *)
LEMMA AuditKeeps == AuditInv /\ Audit => AuditInv'
<1> SUFFICES ASSUME AuditInv, Audit PROVE AuditInv'
  BY Zenon
<1>1. /\ pc = "answered" /\ pc' = "audited"
      /\ UNCHANGED <<file, copy, contract, challenge, response>>
  BY Zenon DEF Audit
<1>2. PICK row \in contract : verdict' = AuditSays(row)
  BY Zenon DEF Audit, AuditSays
<1>3. \E m : contract = {Row(file, m)}
  BY Zenon, <1>2 DEF AuditInv, ContractInv
<1>4. \A r \in contract : verdict' = AuditSays(r)
  BY Zenon, <1>2, <1>3
<1>5. \A r \in contract' : verdict' = AuditSays(r)'
  BY Zenon, <1>1, <1>4 DEF AuditSays
<1>6. FilesInv' /\ ContractInv' /\ ChallengeInv' /\ Answered'
  BY Zenon, <1>1 DEF AuditInv, FilesInv, ContractInv, ChallengeInv, Answered
<1> QED BY Zenon, <1>1, <1>5, <1>6 DEF AuditInv, OnlyOddLengthsPanic

(* From the upload to the audit, the contract is that of the file, the      *)
(* challenge fits it, and the answer is that of the copy.                   *)
THEOREM AuditInvariant == Spec => []AuditInv
<1>1. Init => AuditInv
  BY Zenon DEF Init, AuditInv, FilesInv, ContractInv, ChallengeInv, OnlyOddLengthsPanic
<1>2. AuditInv /\ UNCHANGED vars => AuditInv'
  BY Zenon DEF vars, AuditInv, FilesInv, ContractInv, ChallengeInv, Answered, AuditSays,
               OnlyOddLengthsPanic
<1>3. AuditInv /\ [Next]_vars => AuditInv'
  BY Zenon, <1>2, FromFileKeeps, DamageKeeps, ChallengeKeeps, FulfilKeeps, AuditKeeps DEF Next
<1> QED BY <1>1, <1>3, PTL DEF Spec

-----------------------------------------------------------------------------
\* What the specification keeps.

(* What the invariant says of the contract: its secrets, read back from     *)
(* their bytes, are a drawn m and the n that from_file computes.            *)
LEMMA ContractReads ==
  ASSUME AuditInv, NEW row \in contract
  PROVE  /\ file \in Uploads \cup Copies /\ file # <<>> /\ contract = {row}
         /\ row.rows = Rows(Len(file)) /\ row.cols = Cols(Len(file))
         /\ BytesToU64(row.secret_m) \in RandVector(Cols(Len(file)))
         /\ BytesToU64(row.secret_n) = SecretN(file, BytesToU64(row.secret_m))
<1>1. file \in Uploads \cup Copies /\ file # <<>>
  BY Zenon DEF AuditInv, FilesInv, ContractInv
<1>2. PICK m \in RandVector(Cols(Len(file))) : row = Row(file, m) /\ contract = {row}
  BY Zenon DEF AuditInv, ContractInv
<1>3. file \in Seq(0 .. BYTE - 1)
  BY Zenon, <1>1, FilesAreBytes
<1>4. /\ row.rows = Rows(Len(file)) /\ row.cols = Cols(Len(file))
      /\ BytesToU64(row.secret_m) = m /\ BytesToU64(row.secret_n) = SecretN(file, m)
  BY Zenon, <1>1, <1>2, <1>3, SecretsBack
<1> QED BY Zenon, <1>1, <1>2, <1>4

(* A copy with as many slices as the file and no more rows is weighed with  *)
(* the secret m and the challenge of the file.                              *)
LEMMA CopyIsWeighed ==
  ASSUME NEW f \in Uploads \cup Copies, f # <<>>, NEW g \in Uploads \cup Copies, g # <<>>,
         NEW m \in RandVector(Cols(Len(g))), NEW c \in RandVector(Rows(Len(g))),
         Cols(Len(f)) = Cols(Len(g)), Rows(Len(f)) <= Rows(Len(g))
  PROVE  /\ Weights(f, m, c)
         /\ \A i \in 1 .. Cols(Len(f)) : m[i] \in 0 .. P - 1
         /\ \A k \in 1 .. Rows(Len(f)) : c[k] \in 0 .. P - 1
<1>1. /\ f \in Seq(0 .. BYTE - 1) /\ Rows(Len(f)) \in Nat
      /\ Rows(Len(g)) \in Nat /\ Cols(Len(g)) \in Nat
  BY Zenon, RowsOfFile
<1>2. /\ \A i \in 1 .. Cols(Len(g)) : m[i] \in 0 .. P - 1 /\ m[i] \in Nat
      /\ \A k \in 1 .. Rows(Len(g)) : c[k] \in 0 .. P - 1 /\ c[k] \in Nat
  BY Zenon, <1>1, Drawn
<1>3. \A k \in 1 .. Rows(Len(f)) : k \in 1 .. Rows(Len(g))
  BY SMT, <1>1
<1> QED BY Zenon, <1>1, <1>2, <1>3 DEF Weights

(* What audit compares, in a state that was audited: the two sums that      *)
(* AnswerWeighs and SecretWeighs are about.                                 *)
LEMMA AuditCompares ==
  ASSUME AuditInv, pc = "audited", NEW row \in contract
  PROVE  verdict = (/\ Len(response) = Cols(Len(file))
                    /\ ReducedSum(response, BytesToU64(row.secret_m), Cols(Len(file)))
                         = ReducedSum(challenge, SecretN(file, BytesToU64(row.secret_m)),
                                      Rows(Len(file))))
<1>1. verdict = AuditSays(row) /\ challenge \in RandVector(Rows(Len(file)))
  BY Zenon DEF AuditInv, ChallengeInv
<1>2. /\ file \in Uploads \cup Copies /\ file # <<>>
      /\ row.rows = Rows(Len(file)) /\ row.cols = Cols(Len(file))
      /\ BytesToU64(row.secret_n) = SecretN(file, BytesToU64(row.secret_m))
  BY Zenon, ContractReads
<1>3. Len(challenge) = Rows(Len(file))
  BY Zenon, <1>1, <1>2, RowsOfFile, Drawn
<1> QED BY Zenon, <1>1, <1>2, <1>3 DEF AuditSays

(* The answer of a copy has one number per slice.                           *)
LEMMA AnswerLength ==
  ASSUME NEW f \in Uploads \cup Copies, f # <<>>, NEW c
  PROVE  Len(Fulfil(f, c)) = Cols(Len(f))
<1>1. Cols(Len(f)) \in Nat
  BY Zenon, RowsOfFile
<1> QED BY SMT, <1>1 DEF Fulfil

(* For every file: the matrix that from_file and fulfill_challenge read     *)
(* with slices, words, shifts and masks is the file, chunk by chunk.        *)
THEOREM PorMatrix == Spec => []MatrixIsTheFile
<1>1. AuditInv => MatrixIsTheFile
  <2> SUFFICES ASSUME AuditInv, file # <<>>
               PROVE  /\ SlicesHold(Len(file)) /\ Tight(Len(file))
                      /\ \A i \in 0 .. Cols(Len(file)) - 1, k \in 0 .. Rows(Len(file)) - 1 :
                           DataVal(file, i, k) = ChunkNumber(file, Rows(Len(file)) * i + k)
    BY Zenon DEF MatrixIsTheFile
  <2>1. file \in Uploads \cup Copies
    BY Zenon DEF AuditInv, FilesInv
  <2>2. file \in Seq(0 .. BYTE - 1) /\ Len(file) \in Nat \ {0} /\ Cols(Len(file)) \in Nat
    BY Zenon, <2>1, RowsOfFile
  <2>3. SlicesHold(Len(file)) /\ Tight(Len(file))
    BY Zenon, <2>2, LayoutHolds, LayoutTight
  <2>4. \A i \in 0 .. Cols(Len(file)) - 1 : i \in Nat
    BY SMT, <2>2
  <2>5. \A i \in 0 .. Cols(Len(file)) - 1, k \in 0 .. Rows(Len(file)) - 1 :
          DataVal(file, i, k) = ChunkNumber(file, Rows(Len(file)) * i + k)
    BY Zenon, <2>2, <2>4, MatrixNumbers
  <2> QED BY Zenon, <2>3, <2>5
<1> QED BY <1>1, AuditInvariant, PTL

(* For every file, secret m and challenge: the audit refuses an undamaged   *)
(* copy only where the file weighs 0, so that one sum is P57 and one is 0.  *)
THEOREM PorHonest == Spec => []HonestRefusedOnlyAtZero
<1>1. AuditInv => HonestRefusedOnlyAtZero
  <2> SUFFICES ASSUME AuditInv, pc = "audited", copy = {file}, ~ verdict
               PROVE  \E row \in contract :
                        Weighed(file, BytesToU64(row.secret_m), challenge) % P = 0
    BY Zenon DEF HonestRefusedOnlyAtZero
  <2>1. contract # {} /\ challenge \in RandVector(Rows(Len(file))) /\ Answered
    BY Zenon DEF AuditInv, ChallengeInv
  <2>2. PICK row : row \in contract
    BY Zenon, <2>1
  <2> DEFINE m == BytesToU64(row.secret_m)
             w == Weighed(file, m, challenge)
             answer == ReducedSum(Fulfil(file, challenge), m, Cols(Len(file)))
             secret == ReducedSum(challenge, SecretN(file, m), Rows(Len(file)))
  <2>3. file \in Uploads \cup Copies /\ file # <<>> /\ m \in RandVector(Cols(Len(file)))
    BY Zenon, <2>2, ContractReads
  <2>4. response = Fulfil(file, challenge)
    BY Zenon, <2>1 DEF Answered
  <2>5. answer # secret
    BY Zenon, <2>2, <2>3, <2>4, AuditCompares, AnswerLength
  <2>6. Weights(file, m, challenge)
    <3>1. Rows(Len(file)) \in Nat /\ \A x \in Nat : x <= x
      BY Zenon, <2>3, RowsOfFile, SMT
    <3> QED BY Zenon, <2>1, <2>3, <3>1, CopyIsWeighed
  <2>7. /\ answer \in 0 .. P /\ secret \in 0 .. P /\ w \in Int
        /\ Congruent(P, answer, w) /\ Congruent(P, secret, w)
    BY Zenon, <2>6, AnswerWeighs, SecretWeighs, WeighedIsTotal
  <2> HIDE DEF m, w, answer, secret
  <2>8. P \in Nat \ {0} /\ P \in Int
    BY SMT, PorAssumption
  <2>9. answer \in Int /\ secret \in Int
    BY SMT, <2>7, <2>8
  <2>10. answer % P = w % P /\ secret % P = w % P
    BY Zenon, <2>7, <2>8, <2>9, CongruentMod
  <2>11. \A x \in 0 .. P : x % P = IF x = P THEN 0 ELSE x
    BY SMT, <2>8
  <2>12. w % P = 0
    BY SMT, <2>5, <2>7, <2>8, <2>10, <2>11
  <2> QED BY Zenon, <2>2, <2>12 DEF m, w
<1> QED BY <1>1, AuditInvariant, PTL

(* Where the two sums of an audit are equal, the copy and the file weigh    *)
(* the same, modulo P57.                                                    *)
LEMMA EqualSums ==
  ASSUME NEW f \in Uploads \cup Copies, f # <<>>, NEW g \in Uploads \cup Copies, g # <<>>,
         NEW m \in RandVector(Cols(Len(g))), NEW c \in RandVector(Rows(Len(g))),
         Cols(Len(f)) = Cols(Len(g)), Rows(Len(f)) <= Rows(Len(g)),
         ReducedSum(Fulfil(f, c), m, Cols(Len(g))) = ReducedSum(c, SecretN(g, m), Rows(Len(g)))
  PROVE  /\ Weights(f, m, c) /\ Weights(g, m, c)
         /\ Weighed(f, m, c) \in Int /\ Weighed(g, m, c) \in Int
         /\ Congruent(P, Weighed(f, m, c), Weighed(g, m, c))
<1> DEFINE answer == ReducedSum(Fulfil(f, c), m, Cols(Len(f)))
           w == Weighed(f, m, c)
           v == Weighed(g, m, c)
<1>1. Weights(f, m, c)
  BY Zenon, CopyIsWeighed
<1>2. Weights(g, m, c)
  <2>1. Rows(Len(g)) \in Nat /\ \A x \in Nat : x <= x
    BY Zenon, RowsOfFile, SMT
  <2> QED BY Zenon, <2>1, CopyIsWeighed
<1>3. answer = ReducedSum(c, SecretN(g, m), Rows(Len(g)))
  BY Zenon
<1>4. /\ answer \in 0 .. P /\ w \in Int /\ v \in Int
      /\ Congruent(P, answer, w) /\ Congruent(P, answer, v)
  BY Zenon, <1>1, <1>2, <1>3, AnswerWeighs, SecretWeighs, WeighedIsTotal
<1> HIDE DEF answer, w, v
<1>5. P \in Nat /\ answer \in Int
  BY SMT, <1>4, PorAssumption
<1>6. Congruent(P, w, answer)
  BY Zenon, <1>4, <1>5, CongruentSym
<1>7. Congruent(P, w, v)
  BY Zenon, <1>4, <1>5, <1>6, CongruentTrans
<1> QED BY Zenon, <1>1, <1>2, <1>4, <1>7 DEF w, v

(* What an audit accepts is an answer, computed from a copy that is there,  *)
(* with as many slices as the file and no more rows.                        *)
LEMMA AcceptedCopy ==
  ASSUME AuditInv, pc = "audited", verdict, NEW row \in contract
  PROVE  \E f \in Uploads \cup Copies :
           /\ copy = {f} /\ f # <<>> /\ Cols(Len(f)) = Cols(Len(file))
           /\ Rows(Len(f)) <= Rows(Len(file))
           /\ ReducedSum(Fulfil(f, challenge), BytesToU64(row.secret_m), Cols(Len(file)))
                = ReducedSum(challenge, SecretN(file, BytesToU64(row.secret_m)), Rows(Len(file)))
<1>1. Answered
  BY Zenon DEF AuditInv
<1>2. file \in Uploads \cup Copies /\ file # <<>>
  BY Zenon, ContractReads
<1>3. /\ Len(response) = Cols(Len(file))
      /\ ReducedSum(response, BytesToU64(row.secret_m), Cols(Len(file)))
           = ReducedSum(challenge, SecretN(file, BytesToU64(row.secret_m)), Rows(Len(file)))
  BY Zenon, AuditCompares
<1>4. response # <<>>
  <2>1. Cols(Len(file)) \in Nat /\ 1 <= Cols(Len(file))
    BY Zenon, <1>2, RowsOfFile
  <2>2. Len(<<>>) = 0
    BY SMT
  <2> QED BY SMT, <1>3, <2>1, <2>2
<1>5. PICK f \in Uploads \cup Copies :
        /\ copy = {f} /\ f # <<>> /\ Rows(Len(f)) <= Rows(Len(file))
        /\ response = Fulfil(f, challenge)
  BY Zenon, <1>1, <1>4 DEF Answered
<1>6. Cols(Len(f)) = Cols(Len(file))
  BY Zenon, <1>3, <1>5, AnswerLength
<1> QED BY Zenon, <1>3, <1>5, <1>6

(* For every file, every damage to the keeper's copy, every secret m and    *)
(* every challenge: the audit accepts no deleted file, none of another      *)
(* width, none that weighs differently, and a copy with one changed chunk   *)
(* only where the secret or the challenge is 0 for that chunk.              *)
THEOREM PorDamage == Spec => []DamageDetected
<1>1. AuditInv => DamageDetected
  <2> SUFFICES ASSUME AuditInv, pc = "audited", verdict PROVE DamageDetected
    BY Zenon DEF DamageDetected
  <2>1. contract # {} /\ challenge \in RandVector(Rows(Len(file)))
    BY Zenon DEF AuditInv, ChallengeInv
  <2>2. PICK row : row \in contract
    BY Zenon, <2>1
  <2> DEFINE m == BytesToU64(row.secret_m)
  <2>3. /\ file \in Uploads \cup Copies /\ file # <<>> /\ m \in RandVector(Cols(Len(file)))
        /\ row.rows = Rows(Len(file))
    BY Zenon, <2>2, ContractReads
  <2>4. PICK f \in Uploads \cup Copies :
          /\ copy = {f} /\ f # <<>> /\ Cols(Len(f)) = Cols(Len(file))
          /\ Rows(Len(f)) <= Rows(Len(file))
          /\ ReducedSum(Fulfil(f, challenge), m, Cols(Len(file)))
               = ReducedSum(challenge, SecretN(file, m), Rows(Len(file)))
    BY Zenon, <2>2, AcceptedCopy
  <2> HIDE DEF m
  <2> DEFINE w == Weighed(f, m, challenge)
             v == Weighed(file, m, challenge)
  <2>5. /\ Weights(f, m, challenge) /\ Weights(file, m, challenge)
        /\ w \in Int /\ v \in Int /\ Congruent(P, w, v)
    BY Zenon, <2>1, <2>3, <2>4, EqualSums
  <2>6. /\ \A i \in 1 .. Cols(Len(file)) : m[i] \in 0 .. P - 1
        /\ \A k \in 1 .. Rows(Len(file)) : challenge[k] \in 0 .. P - 1
    BY Zenon, <2>1, <2>3, RowsOfFile, Drawn
  <2>7. w % P = v % P
    <3>1. P \in Nat \ {0}
      BY SMT, PorAssumption
    <3> HIDE DEF w, v
    <3> QED BY Zenon, <2>5, <3>1, CongruentMod
  <2> DEFINE changed == (0 .. NumChunks(Len(file)) - 1) \ Same(file, f)
  <2>8. ASSUME NEW n \in changed, Len(f) = Len(file), changed = {n}
        PROVE  m[n \div row.rows + 1] = 0 \/ challenge[(n % row.rows) + 1] = 0
    <3>1. n \in 0 .. NumChunks(Len(file)) - 1 /\ ChunkNumber(file, n) # ChunkNumber(f, n)
      BY Zenon DEF Same
    <3>2. ASSUME NEW j \in 0 .. NumChunks(Len(file)) - 1, j # n
          PROVE  ChunkNumber(file, j) = ChunkNumber(f, j)
      <4> HIDE DEF changed
      <4>1. j \notin changed
        BY Zenon, <2>8, <3>2
      <4>2. j \in Same(file, f)
        BY Zenon, <4>1 DEF changed
      <4> QED BY Zenon, <4>2 DEF Same
    <3> HIDE DEF changed
    <3>3. m[n \div Rows(Len(file)) + 1] = 0 \/ challenge[(n % Rows(Len(file))) + 1] = 0
      BY Zenon, <2>5, <2>6, <2>7, <2>8, <3>1, <3>2, OneChunkShows
    <3> QED BY Zenon, <2>3, <3>3
  <2> HIDE DEF w, v, changed
  <2>9. f \in copy
    BY Zenon, <2>4
  <2> QED BY Zenon, <2>2, <2>4, <2>7, <2>8, <2>9 DEF DamageDetected, m, w, v, changed
<1> QED BY <1>1, AuditInvariant, PTL

(* For every file, every damage that keeps the length, however many chunks  *)
(* it changes, every secret m and every challenge: in a row where the copy  *)
(* has another secret n than the file, the audit accepts the copy for one   *)
(* number of the challenge at most.                                         *)
THEOREM PorLuck == Spec => []AcceptedByOneDraw
<1>1. AuditInv => AcceptedByOneDraw
  <2> SUFFICES ASSUME AuditInv, pc = "audited", verdict, NEW f \in copy, NEW row \in contract,
                      Len(f) = Len(file), NEW k \in 1 .. row.rows,
                      NEW draw \in Draws \ {challenge[k]},
                      ReducedSum(Fulfil(f, [challenge EXCEPT ![k] = draw]),
                                 BytesToU64(row.secret_m), row.cols)
                        = ReducedSum([challenge EXCEPT ![k] = draw],
                                     BytesToU64(row.secret_n), row.rows)
               PROVE  SecretN(f, BytesToU64(row.secret_m))[k]
                        = SecretN(file, BytesToU64(row.secret_m))[k]
    BY Zenon DEF AcceptedByOneDraw
  <2> DEFINE m == BytesToU64(row.secret_m)
             c == [challenge EXCEPT ![k] = draw]
             R == Rows(Len(file))
  <2>1. /\ file \in Uploads \cup Copies /\ file # <<>> /\ m \in RandVector(Cols(Len(file)))
        /\ row.rows = R /\ row.cols = Cols(Len(file))
        /\ BytesToU64(row.secret_n) = SecretN(file, m)
    BY Zenon, ContractReads
  <2>2. challenge \in RandVector(R)
    BY Zenon DEF AuditInv, ChallengeInv
  <2>3. /\ f \in Uploads \cup Copies /\ f # <<>>
        /\ ReducedSum(Fulfil(f, challenge), m, Cols(Len(file)))
             = ReducedSum(challenge, SecretN(file, m), R)
    BY Zenon, AcceptedCopy
  <2>4. ReducedSum(Fulfil(f, c), m, Cols(Len(file))) = ReducedSum(c, SecretN(file, m), R)
    BY Zenon, <2>1
  <2> HIDE DEF m
  <2>5. k \in 1 .. R /\ challenge \in [1 .. R -> Draws]
    BY Zenon, <2>1, <2>2 DEF RandVector
  <2>6. c \in RandVector(R) /\ c[k] = draw /\ \A j \in 1 .. R : j # k => challenge[j] = c[j]
    <3> HIDE DEF R
    <3> QED BY Zenon, <2>5 DEF RandVector
  <2> HIDE DEF c
  <2>7. Cols(Len(f)) = Cols(Len(file)) /\ Rows(Len(f)) = R /\ R <= R
    <3>1. R \in Nat
      BY Zenon, <2>1, RowsOfFile
    <3>2. \A x \in Nat : x <= x
      BY SMT
    <3> QED BY Zenon, <3>1, <3>2
  <2>8. /\ Weights(f, m, challenge) /\ Weights(file, m, challenge)
        /\ Congruent(P, Weighed(f, m, challenge), Weighed(file, m, challenge))
    BY Zenon, <2>1, <2>2, <2>3, <2>7, EqualSums
  <2>9. /\ Weights(f, m, c) /\ Weights(file, m, c)
        /\ Congruent(P, Weighed(f, m, c), Weighed(file, m, c))
    BY Zenon, <2>1, <2>3, <2>4, <2>6, <2>7, EqualSums
  <2>10. /\ challenge[k] \in 0 .. P - 1 /\ c[k] \in 0 .. P - 1 /\ challenge[k] # c[k]
         /\ k \in 1 .. Rows(Len(f))
    <3>1. R \in Nat
      BY Zenon, <2>1, RowsOfFile
    <3> QED BY Zenon, <2>2, <2>5, <2>6, <2>7, <3>1, Drawn
  <2>11. \A j \in 1 .. Rows(Len(f)) : j # k => challenge[j] = c[j]
    BY Zenon, <2>6, <2>7
  <2>12. WeighSame(f, file, m, challenge) /\ WeighSame(f, file, m, c)
    BY Zenon, <2>8, <2>9 DEF WeighSame
  <2>13. OneRowApart(f, challenge, c, k)
    BY Zenon, <2>10, <2>11 DEF OneRowApart
  <2>14. SecretN(f, m)[k] = SecretN(file, m)[k]
    BY SMT, <2>12, <2>13, TwoDrawsShow
  <2> QED BY Zenon, <2>14 DEF m
<1> QED BY <1>1, AuditInvariant, PTL

(* For every file and copy of the lengths the code lets through: the sums   *)
(* that from_file and fulfill_challenge reduce only at the end fit a u128.  *)
THEOREM PorSumsFit == Spec => []SumsFitU128
<1> USE DEF LargestProduct
<1>0. U128 \in Nat
  <2>1. 2 * U64 \in Nat
    BY SMT, PorAssumption
  <2> QED BY Zenon, <2>1, BytePowers DEF U128
<1>1. ASSUME NEW f \in Uploads \cup Copies, f # <<>>
      PROVE  /\ LargestProduct \in Nat /\ Cols(Len(f)) <= Rows(Len(f))
             /\ Rows(Len(f)) * LargestProduct < U128
             /\ Cols(Len(f)) * LargestProduct < U128
  <2>1. /\ f \in Seq(0 .. BYTE - 1) /\ Len(f) \in Nat \ {0}
        /\ Rows(Len(f)) \in Nat /\ 1 <= Rows(Len(f))
        /\ Cols(Len(f)) \in Nat /\ 1 <= Cols(Len(f))
    BY Zenon, <1>1, RowsOfFile
  <2>2. 1 \in 1 .. Cols(Len(f)) /\ 1 \in 1 .. Rows(Len(f)) /\ 0 \in 0 .. P - 1
    BY SMT, <2>1, PorAssumption
  <2>3. LargestProduct \in Nat
    BY Zenon, <1>1, <2>1, <2>2, ProductBound
  <2>4. Cols(Len(f)) <= Rows(Len(f))
    BY Zenon, <2>1, LayoutTight DEF Tight
  <2>5. Rows(Len(f)) * LargestProduct < U128
    BY Zenon, <1>1, LengthAssumption
  <2> HIDE DEF LargestProduct
  <2>6. \A a, b, c, u \in Nat : a <= b /\ b * c < u => a * c < u
    BY SMT
  <2> QED BY Zenon, <1>0, <2>1, <2>3, <2>4, <2>5, <2>6
<1> HIDE DEF LargestProduct
<1>2. \A x, y, u \in Nat : x <= y /\ y < u => x < u
  BY SMT
<1>3. \A x, y \in Nat : x * y \in Nat
  BY SMT
<1>4. AuditInv => SumsFitU128
  <2> SUFFICES ASSUME AuditInv PROVE SumsFitU128
    BY Zenon
  <2>1. ASSUME NEW row \in contract, NEW k \in 1 .. row.rows
        PROVE  Partials1(file, BytesToU64(row.secret_m), k) < U128
    <3> DEFINE m == BytesToU64(row.secret_m)
    <3>1. /\ file \in Uploads \cup Copies /\ file # <<>> /\ m \in RandVector(Cols(Len(file)))
          /\ row.rows = Rows(Len(file))
      BY Zenon, ContractReads
    <3> HIDE DEF m
    <3>2. file \in Seq(0 .. BYTE - 1) /\ Cols(Len(file)) \in Nat
      BY Zenon, <3>1, RowsOfFile
    <3>3. \A i \in 1 .. Cols(Len(file)) : m[i] \in 0 .. P - 1
      BY Zenon, <3>1, <3>2, Drawn
    <3>4. /\ Partials1(file, m, k) \in Nat
          /\ Partials1(file, m, k) <= Cols(Len(file)) * LargestProduct
      BY Zenon, <3>1, <3>2, <3>3, ProductSums
    <3> QED BY Zenon, <1>0, <1>1, <1>2, <1>3, <3>1, <3>2, <3>4 DEF m
  <2>2. ASSUME pc \in {"answered", "audited"}, NEW f \in copy, NEW i \in 1 .. Cols(Len(f))
        PROVE  DotProds1(f, challenge, i) < U128
    <3>1. Answered /\ challenge \in RandVector(Rows(Len(file))) /\ contract # {}
      BY Zenon, <2>2 DEF AuditInv, ChallengeInv
    <3>2. f \in Uploads \cup Copies /\ f # <<>> /\ Rows(Len(f)) <= Rows(Len(file))
      BY Zenon, <3>1 DEF Answered
    <3>3. file \in Uploads \cup Copies /\ file # <<>>
      BY Zenon, <3>1, ContractReads
    <3>4. f \in Seq(0 .. BYTE - 1) /\ Rows(Len(f)) \in Nat /\ Rows(Len(file)) \in Nat
      BY Zenon, <3>2, <3>3, RowsOfFile
    <3>5. \A k \in 1 .. Rows(Len(f)) : k \in 1 .. Rows(Len(file))
      BY SMT, <3>2, <3>4
    <3>6. \A k \in 1 .. Rows(Len(f)) : challenge[k] \in 0 .. P - 1
      BY Zenon, <3>1, <3>4, <3>5, Drawn
    <3>7. /\ DotProds1(f, challenge, i) \in Nat
          /\ DotProds1(f, challenge, i) <= Rows(Len(f)) * LargestProduct
      BY Zenon, <3>2, <3>4, <3>6, ProductSums
    <3> QED BY Zenon, <1>0, <1>1, <1>2, <1>3, <3>2, <3>4, <3>7
  <2> QED BY Zenon, <2>1, <2>2 DEF SumsFitU128
<1> QED BY <1>4, AuditInvariant, PTL

(* For every file and every damage to the keeper's copy: an upload panics   *)
(* only for an empty file, the keeper only for an empty or a longer copy.   *)
THEOREM PorPanics == Spec => []OnlyOddLengthsPanic
<1>1. AuditInv => OnlyOddLengthsPanic
  BY Zenon DEF AuditInv
<1> QED BY <1>1, AuditInvariant, PTL

-----------------------------------------------------------------------------
\* The numbers of the code.

(* Powers add their exponents.                                              *)
LEMMA PowerPlus ==
  ASSUME NEW b \in Nat \ {0}, NEW n \in Nat, NEW k \in Nat
  PROVE  Power(b, n + k) = Power(b, n) * Power(b, k)
<1> DEFINE S == {j \in Nat : Power(b, n + j) = Power(b, n) * Power(b, j)}
<1>1. Power(b, 0) = 1 /\ \A j \in Nat : Power(b, j) \in Nat /\ Power(b, j + 1) = Power(b, j) * b
  BY Zenon, PowerSteps
<1>2. 0 \in S
  <2>1. n + 0 = n /\ \A x \in Nat : x = x * 1
    BY SMT
  <2> QED BY Zenon, <1>1, <2>1
<1>3. ASSUME NEW j \in S PROVE j + 1 \in S
  <2>1. j \in Nat /\ n + j \in Nat /\ n + (j + 1) = (n + j) + 1 /\ j + 1 \in Nat
    BY SMT
  <2>2. Power(b, n + (j + 1)) = (Power(b, n) * Power(b, j)) * b
    BY Zenon, <1>1, <1>3, <2>1
  <2> DEFINE x == Power(b, n)
             y == Power(b, j)
             z == Power(b, j + 1)
  <2>3. x \in Nat /\ y \in Nat /\ z = y * b
    BY Zenon, <1>1, <2>1
  <2> HIDE DEF x, y, z
  <2>4. (x * y) * b = x * z
    BY SMT, <2>3
  <2> QED BY Zenon, <2>1, <2>2, <2>4 DEF x, y, z
<1> HIDE DEF S
<1>4. k \in S
  BY Zenon, <1>2, <1>3, Induction
<1> QED BY Zenon, <1>4 DEF S

(* The values of a u128, by those of a chunk and of two bytes.              *)
LEMMA PowerSixteen ==
  ASSUME NEW b \in Nat \ {0}
  PROVE  Power(b, 7) \in Nat \ {0} /\ Power(b, 16) = (Power(b, 7) * Power(b, 7)) * (b * b)
<1>0. /\ 0 \in Nat /\ 1 \in Nat /\ 2 \in Nat /\ 7 \in Nat /\ 14 \in Nat
      /\ 0 + 1 = 1 /\ 1 + 1 = 2 /\ 7 + 7 = 14 /\ 14 + 2 = 16 /\ 1 * b = b
  BY SMT
<1>1. /\ Power(b, 0) = 1
      /\ \A n \in Nat : Power(b, n) \in Nat \ {0} /\ Power(b, n + 1) = Power(b, n) * b
  BY Zenon, PowerSteps
<1>2. Power(b, 1) = b
  BY Zenon, <1>0, <1>1
<1>3. Power(b, 2) = b * b
  BY Zenon, <1>0, <1>1, <1>2
<1>4. Power(b, 14) = Power(b, 7) * Power(b, 7) /\ Power(b, 16) = Power(b, 14) * Power(b, 2)
  <2>1. /\ Power(b, 7 + 7) = Power(b, 7) * Power(b, 7)
        /\ Power(b, 14 + 2) = Power(b, 14) * Power(b, 2)
    BY SMT, PowerPlus
  <2> QED BY Zenon, <1>0, <2>1
<1> QED BY Zenon, <1>0, <1>1, <1>3, <1>4

(* LengthAssumption is no more than the 1 GiB that a message of gRPC or of  *)
(* the swarm holds: for the code's chunks of 7 bytes, rows in multiples of  *)
(* 56, u64 and a P57 below 2^57, a file below 2^30 bytes has fewer than     *)
(* 2^15 rows, so that a sum stays below 2^15 * 2^56 * 2^57 = 2^128.         *)
THEOREM SumsFit ==
  ASSUME BYTES_UNDER_P = 7, CHUNK_ALIGN = 56, BYTE = 256, U64 = 8, P <= 2 * Power(BYTE, 7),
         NEW len \in Nat \ {0}, len < 1073741824
  PROVE  Rows(len) * ((Power(BYTE, BYTES_UNDER_P) - 1) * (P - 1)) < U128
<1> DEFINE c == NumChunks(len)
           R == Rows(len)
           w == Power(BYTE, 7)
<1>1. c \in Nat /\ 7 * (c - 1) < len
  BY SMT, ChunksHold
<1>2. R \in Nat /\ (R - 56 > 0 => (R - 56) * (R - 56) < c)
  BY SMT, RowsBounds
<1>3. w \in Nat \ {0} /\ U128 = 65536 * (w * w)
  <2>1. w \in Nat \ {0} /\ Power(BYTE, 16) = (w * w) * (BYTE * BYTE)
    BY SMT, PowerSixteen
  <2>2. U128 = Power(BYTE, 16)
    BY SMT DEF U128
  <2> HIDE DEF w
  <2> QED BY SMT, <2>1, <2>2
<1> HIDE DEF c, R, w
<1>4. R < 32768
  <2>1. ASSUME R >= 32768 PROVE FALSE
    <3>1. R - 56 >= 12386 /\ R - 56 \in Int
      BY SMT, <1>2, <2>1
    <3>2. ASSUME NEW x \in Int, x >= 12386 PROVE x * x >= 153412996
      BY SMT, <3>2
    <3>3. c <= 153391689
      BY SMT, <1>1
    <3> QED BY SMT, <1>1, <1>2, <3>1, <3>2, <3>3
  <2> QED BY SMT, <1>2, <2>1
<1>5. (w - 1) * (P - 1) \in Nat /\ (w - 1) * (P - 1) < w * (2 * w)
  <2>1. w - 1 \in Nat /\ P - 1 \in Nat /\ w - 1 < w /\ P - 1 < 2 * w /\ 2 * w \in Nat /\ w \in Nat
    BY SMT, <1>3, PorAssumption DEF w
  <2>2. \A x, y, u, v \in Nat : x < u /\ y < v => x * y \in Nat /\ x * y < u * v
    BY SMT
  <2> QED BY SMT, <2>1, <2>2
<1> DEFINE y == (w - 1) * (P - 1)
           v == w * (2 * w)
<1>6. v \in Nat /\ 32768 * v = 65536 * (w * w)
  BY SMT, <1>3
<1>7. y \in Nat /\ y < v
  BY SMT, <1>5
<1> HIDE DEF y, v
<1>8. R * y < 32768 * v
  BY SMT, <1>2, <1>4, <1>6, <1>7
<1>9. R * y < U128
  BY SMT, <1>3, <1>6, <1>8
<1> QED BY SMT, <1>9 DEF R, y, w
=============================================================================
