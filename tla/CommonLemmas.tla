---------------------------- MODULE CommonLemmas ----------------------------
(***************************************************************************)
(* Facts about numbers, loops and sequences that the proofs of several     *)
(* modules need.                                                           *)
(*                                                                         *)
(* Induction and recursion over the natural numbers are stated with sets   *)
(* and functions in place of operators, so that the first-order provers    *)
(* can instantiate them.  The loops of the program are recursive functions *)
(* in the model: these are the facts to reason about them with.            *)
(***************************************************************************)
EXTENDS Integers, Sequences, FiniteSetsExt, SequenceTheorems, WellFoundedInduction, TLAPS

\* A nonempty set of natural numbers has a least element.
LEMMA LeastElement ==
  ASSUME NEW T \in SUBSET Nat, T # {}
  PROVE  \E x \in T : \A y \in T : x <= y
<1>1. PICK x \in T : \A y \in T : ~(<<y, x>> \in OpToRel(<, Nat))
  BY NatLessThanWellFounded, WFMin
<1>2. \A y \in T : x <= y
  <2> TAKE y \in T
  <2>1. x \in Nat /\ y \in Nat OBVIOUS
  <2>2. ~(y < x) BY <1>1, <2>1 DEF OpToRel
  <2> QED BY <2>1, <2>2
<1> QED BY <1>2

\* A set that contains 0 and, with a number, the next one, contains them all.
LEMMA NatInductionSet ==
  ASSUME NEW S, 0 \in S, \A n \in Nat : n \in S => n + 1 \in S
  PROVE  \A n \in Nat : n \in S
<1> DEFINE T == { n \in Nat : n \notin S }
<1> SUFFICES ASSUME T # {} PROVE FALSE OBVIOUS
<1>1. PICK x \in T : \A y \in T : x <= y BY LeastElement
<1>2. x \in Nat /\ x # 0 /\ x - 1 \in Nat /\ ~(x <= x - 1) OBVIOUS
<1>3. x - 1 \in S BY <1>1, <1>2
<1>4. (x - 1) + 1 \in S /\ (x - 1) + 1 = x BY <1>2, <1>3
<1> QED BY <1>4

\* The same for the numbers up to n.
LEMMA UpToInduction ==
  ASSUME NEW S, NEW n \in Nat, 0 \in S,
         \A k \in 0..(n - 1) : k \in S => k + 1 \in S
  PROVE  \A k \in 0..n : k \in S
<1> DEFINE T == { k \in Nat : k <= n => k \in S }
<1>1. 0 \in T OBVIOUS
<1>2. \A k \in Nat : k \in T => k + 1 \in T OBVIOUS
<1> HIDE DEF T
<1>3. \A k \in Nat : k \in T BY <1>1, <1>2, NatInductionSet
<1> QED BY <1>3 DEF T

\* The first number from h on that is not in S.
FirstGap(S, h) ==
    CHOOSE e \in {h} \cup { i + 1 : i \in S } :
        e >= h /\ e \notin S /\ \A i \in h..(e - 1) : i \in S

\* The numbers of S that begin with h go up to there.
LEMMA FirstGapFacts ==
  ASSUME NEW n \in Nat, NEW S \in SUBSET (0..(n - 1)), NEW h \in S
  PROVE  LET e == FirstGap(S, h)
         IN  /\ e \in Nat /\ h < e /\ e <= n /\ e \notin S
             /\ \A i \in h..(e - 1) : i \in S
<1> DEFINE T == { e \in Nat : h < e /\ e \notin S }
           P(e) == e >= h /\ e \notin S /\ \A i \in h..(e - 1) : i \in S
           C == {h} \cup { i + 1 : i \in S }
<1>1. n \in T OBVIOUS
<1>2. PICK m \in T : \A y \in T : m <= y BY <1>1, LeastElement
<1>3. \A i \in h..(m - 1) : i \in S
  <2> TAKE i \in h..(m - 1)
  <2>1. i \in Nat /\ i < m BY <1>2
  <2>2. i \notin T BY <1>2, <2>1
  <2> QED BY <2>1, <2>2
<1>4. m - 1 \in S BY <1>2, <1>3
<1>5. m = (m - 1) + 1 BY <1>2
<1>6. m \in C BY <1>4, <1>5
<1>7. P(m) BY <1>2, <1>3
<1>8. FirstGap(S, h) = CHOOSE e \in C : P(e) BY DEF FirstGap
<1> DEFINE r == FirstGap(S, h)
<1>9. r \in C /\ P(r) BY <1>6, <1>7, <1>8
<1> HIDE DEF r
<1>10. r # h BY <1>9
<1>11. r \in Nat /\ r <= n BY <1>9, <1>10
<1>12. h < r BY <1>9, <1>10, <1>11
<1> QED BY <1>9, <1>11, <1>12 DEF r

-----------------------------------------------------------------------------
\* f holds the values of a loop before and after each of its n passes, the
\* k-th of which turns the value x into step[k][x].
Iterates(f, n, base, step) ==
    f = [ k \in 0..n |-> IF k = 0 THEN base ELSE step[k][f[k - 1]] ]

\* A loop whose passes stay in A has such values, all of them in A.
LEMMA IterationExists ==
  ASSUME NEW A, NEW base \in A, NEW n \in Nat, NEW step \in [1..n -> [A -> A]]
  PROVE  \E f \in [0..n -> A] : Iterates(f, n, base, step)
<1> DEFINE S == { m \in 0..n : \E f \in [0..m -> A] : Iterates(f, m, base, step) }
<1>1. 0 \in S
  <2> DEFINE f == [ k \in 0..0 |-> base ]
  <2>1. f \in [0..0 -> A] OBVIOUS
  <2>2. Iterates(f, 0, base, step)
    <3>1. \A k \in 0..0 : f[k] = IF k = 0 THEN base ELSE step[k][f[k - 1]] OBVIOUS
    <3> QED BY <3>1 DEF Iterates
  <2> QED BY <2>1, <2>2
<1>2. ASSUME NEW m \in 0..(n - 1), m \in S PROVE m + 1 \in S
  <2>1. PICK f \in [0..m -> A] : Iterates(f, m, base, step) BY <1>2
  <2> DEFINE x == step[m + 1][f[m]]
             g == [ k \in 0..(m + 1) |-> IF k = m + 1 THEN x ELSE f[k] ]
  <2>2. x \in A
    <3>1. m \in 0..m /\ m + 1 \in 1..n OBVIOUS
    <3> QED BY <3>1
  <2> HIDE DEF x
  <2>3. g \in [0..(m + 1) -> A]
    <3>1. \A k \in 0..(m + 1) : k # m + 1 => k \in 0..m OBVIOUS
    <3> QED BY <2>2, <3>1
  <2>4. ASSUME NEW k \in 0..(m + 1)
        PROVE  g[k] = IF k = 0 THEN base ELSE step[k][g[k - 1]]
    <3>1. CASE k = m + 1
      <4>1. k # 0 /\ k - 1 = m /\ m # m + 1 /\ m \in 0..(m + 1) BY <3>1
      <4>2. g[k - 1] = f[m] BY <4>1
      <4> QED BY <3>1, <4>1, <4>2 DEF x
    <3>2. CASE k # m + 1 /\ k # 0
      <4>1. k \in 0..m /\ k - 1 \in 0..(m + 1) /\ k - 1 # m + 1 BY <3>2
      <4>2. f[k] = step[k][f[k - 1]] BY <2>1, <3>2, <4>1 DEF Iterates
      <4> QED BY <3>2, <4>1, <4>2
    <3>3. CASE k = 0 /\ k # m + 1
      <4>1. f[0] = base
        <5>1. 0 \in 0..m OBVIOUS
        <5> QED BY <2>1, <5>1 DEF Iterates
      <4> QED BY <3>3, <4>1
    <3> QED BY <3>1, <3>2, <3>3
  <2> HIDE DEF g
  <2>5. g = [ k \in 0..(m + 1) |-> IF k = 0 THEN base ELSE step[k][g[k - 1]] ]
    BY <2>3, <2>4
  <2>6. Iterates(g, m + 1, base, step) BY <2>5 DEF Iterates
  <2>7. m + 1 \in 0..n OBVIOUS
  <2> QED BY <2>3, <2>6, <2>7
<1> HIDE DEF S
<1>3. \A m \in 0..n : m \in S BY <1>1, <1>2, UpToInduction
<1>4. n \in S BY <1>3
<1> QED BY <1>4 DEF S

\* The values of the first passes do not depend on how many passes follow.
LEMMA IterationUnique ==
  ASSUME NEW n \in Nat, NEW m \in 0..n, NEW base, NEW step,
         NEW f, Iterates(f, m, base, step), NEW g, Iterates(g, n, base, step)
  PROVE  \A k \in 0..m : f[k] = g[k]
<1> DEFINE S == { k \in 0..m : f[k] = g[k] }
<1>1. 0 \in S
  <2>1. 0 \in 0..m /\ 0 \in 0..n OBVIOUS
  <2> QED BY <2>1 DEF Iterates
<1>2. ASSUME NEW k \in 0..(m - 1), k \in S PROVE k + 1 \in S
  <2>1. k + 1 \in 0..m /\ k + 1 \in 0..n /\ k + 1 # 0 /\ (k + 1) - 1 = k OBVIOUS
  <2>2. f[k + 1] = step[k + 1][f[k]] BY <2>1 DEF Iterates
  <2>3. g[k + 1] = step[k + 1][g[k]] BY <2>1 DEF Iterates
  <2> QED BY <1>2, <2>1, <2>2, <2>3
<1> HIDE DEF S
<1>3. \A k \in 0..m : k \in S BY <1>1, <1>2, UpToInduction
<1> QED BY <1>3 DEF S

-----------------------------------------------------------------------------
\* The m elements of a sequence that follow the first i.
LEMMA PieceFacts ==
  ASSUME NEW S, NEW s \in Seq(S), NEW i \in Nat, NEW n \in Nat, i + n <= Len(s)
  PROVE  /\ SubSeq(s, i + 1, i + n) \in Seq(S)
         /\ Len(SubSeq(s, i + 1, i + n)) = n
         /\ \A k \in 1..n : SubSeq(s, i + 1, i + n)[k] = s[i + k]
<1>1. \A k \in (i + 1)..(i + n) : s[k] \in S BY ElementOfSeq, LenProperties
<1> DEFINE p == SubSeq(s, i + 1, i + n)
<1>2. /\ p \in Seq(S)
      /\ Len(p) = IF i + 1 <= i + n THEN (i + n) - (i + 1) + 1 ELSE 0
      /\ \A k \in 1..((i + n) - (i + 1) + 1) : p[k] = s[(i + 1) + k - 1]
  BY <1>1, SubSeqProperties
<1> HIDE DEF p
<1>3. Len(p) = n /\ \A k \in 1..n : p[k] = s[i + k] BY <1>2
<1> QED BY <1>2, <1>3 DEF p

\* A piece of a piece of a sequence is a piece of the sequence.
LEMMA PieceOfPiece ==
  ASSUME NEW S, NEW s \in Seq(S), NEW i \in Nat, NEW n \in Nat, i + n <= Len(s),
         NEW a \in 0..n, NEW b \in a..n
  PROVE  SubSeq(SubSeq(s, i + 1, i + n), a + 1, b) = SubSeq(s, i + a + 1, i + b)
<1> DEFINE p == SubSeq(s, i + 1, i + n)
           t == SubSeq(p, a + 1, b)
           u == SubSeq(s, i + a + 1, i + b)
           m == b - a
<1>1. p \in Seq(S) /\ Len(p) = n /\ \A k \in 1..n : p[k] = s[i + k] BY PieceFacts, SMTT(30)
<1>2. m \in Nat /\ a + m = b /\ i + a \in Nat /\ (i + a) + m = i + b /\ i + b <= Len(s)
  BY LenProperties
<1>3. u \in Seq(S) /\ Len(u) = m /\ \A k \in 1..m : u[k] = s[(i + a) + k]
  <2>1. /\ SubSeq(s, (i + a) + 1, (i + a) + m) \in Seq(S)
        /\ Len(SubSeq(s, (i + a) + 1, (i + a) + m)) = m
        /\ \A k \in 1..m : SubSeq(s, (i + a) + 1, (i + a) + m)[k] = s[(i + a) + k]
    <3> HIDE DEF m
    <3>1. (i + a) + m <= Len(s) BY <1>2, LenProperties
    <3> QED BY <1>2, <3>1, PieceFacts, ZenonT(30)
  <2> QED BY <1>2, <2>1
<1> HIDE DEF p, u
<1>4. t \in Seq(S) /\ Len(t) = m /\ \A k \in 1..m : t[k] = p[a + k]
  <2>1. /\ SubSeq(p, a + 1, a + m) \in Seq(S)
        /\ Len(SubSeq(p, a + 1, a + m)) = m
        /\ \A k \in 1..m : SubSeq(p, a + 1, a + m)[k] = p[a + k]
    <3> HIDE DEF m
    <3>1. a \in Nat /\ m \in Nat /\ a + m <= Len(p) /\ p \in Seq(S) BY <1>1, <1>2
    <3> QED BY <3>1, PieceFacts, ZenonT(30)
  <2> QED BY <1>2, <2>1
<1> HIDE DEF t
<1>5. \A k \in 1..m : t[k] = u[k]
  <2> TAKE k \in 1..m
  <2>1. a + k \in 1..n /\ i + (a + k) = (i + a) + k BY <1>2
  <2> QED BY <1>1, <1>3, <1>4, <2>1
<1> HIDE DEF m
<1>6. t = u BY <1>3, <1>4, <1>5, SeqEqual
<1> QED BY <1>6 DEF t, u, p

-----------------------------------------------------------------------------
\* The same for a loop whose passes all do the same.
Repeats(f, n, base, step) ==
    f = [ k \in 0..n |-> IF k = 0 THEN base ELSE step[f[k - 1]] ]

\* The values of a loop that stays in A exist, and are in A.
LEMMA RepetitionExists ==
  ASSUME NEW A, NEW base \in A, NEW n \in Nat, NEW step \in [A -> A]
  PROVE  \E f \in [0..n -> A] : Repeats(f, n, base, step)
<1> DEFINE steps == [ k \in 1..n |-> step ]
<1>1. steps \in [1..n -> [A -> A]] OBVIOUS
<1> HIDE DEF steps
<1>2. PICK f \in [0..n -> A] : Iterates(f, n, base, steps) BY <1>1, IterationExists
<1>3. ASSUME NEW k \in 0..n
      PROVE  f[k] = IF k = 0 THEN base ELSE step[f[k - 1]]
  <2>1. f[k] = IF k = 0 THEN base ELSE steps[k][f[k - 1]] BY <1>2 DEF Iterates
  <2>2. k # 0 => k \in 1..n OBVIOUS
  <2> QED BY <2>1, <2>2 DEF steps
<1>4. f = [ k \in 0..n |-> f[k] ] OBVIOUS
<1>5. f = [ k \in 0..n |-> IF k = 0 THEN base ELSE step[f[k - 1]] ] BY <1>3, <1>4
<1> QED BY <1>5 DEF Repeats

\* The first value has size n, and every pass that changes the value makes it
\* smaller.
Shrinks(A, base, n, step, size) ==
    /\ base \in A /\ size[base] = n /\ size \in [A -> Nat]
    /\ \A x \in A : step[x] = x \/ size[step[x]] < size[x]

\* A value that a further pass leaves alone.
Settled(A, step, x) == x \in A /\ step[x] = x

\* If every pass that changes the value makes it smaller, a loop with as many
\* passes as the size of its first value ends at a value it leaves alone.
LEMMA RepetitionSettles ==
  ASSUME NEW A, NEW base, NEW n, NEW step, NEW size, NEW f,
         step \in [A -> A], f \in [0..n -> A],
         Repeats(f, n, base, step), Shrinks(A, base, n, step, size)
  PROVE  Settled(A, step, f[n])
<1>0. /\ base \in A /\ size[base] = n /\ size \in [A -> Nat] /\ n \in Nat
      /\ \A x \in A : step[x] = x \/ size[step[x]] < size[x]
  BY DEF Shrinks
<1> DEFINE S == { k \in 0..n : step[f[k]] = f[k] \/ size[f[k]] + k <= n }
<1>1. 0 \in S
  <2>1. f[0] = base BY <1>0 DEF Repeats
  <2> QED BY <1>0, <2>1
<1>2. ASSUME NEW k \in 0..(n - 1), k \in S PROVE k + 1 \in S
  <2>1. k + 1 \in 0..n /\ k + 1 # 0 /\ (k + 1) - 1 = k /\ k \in 0..n BY <1>0
  <2>2. f[k + 1] = step[f[k]] BY <2>1 DEF Repeats
  <2>3. f[k] \in A /\ f[k + 1] \in A BY <2>1
  <2>4. CASE step[f[k]] = f[k] BY <2>1, <2>2, <2>4
  <2>5. CASE step[f[k]] # f[k]
    <3>1. size[f[k + 1]] < size[f[k]] BY <1>0, <2>2, <2>3, <2>5
    <3>2. size[f[k]] \in Nat /\ size[f[k + 1]] \in Nat BY <1>0, <2>3
    <3>3. size[f[k]] + k <= n BY <1>2, <2>5
    <3> QED BY <1>0, <2>1, <3>1, <3>2, <3>3
  <2> QED BY <2>4, <2>5
<1> HIDE DEF S
<1>3. \A k \in 0..n : k \in S BY <1>0, <1>1, <1>2, UpToInduction
<1>4. n \in S BY <1>0, <1>3
<1>5. f[n] \in A BY <1>0
<1>6. size[f[n]] \in Nat /\ size[step[f[n]]] \in Nat /\ step[f[n]] \in A BY <1>0, <1>5
<1>7. CASE step[f[n]] = f[n] BY <1>5, <1>7 DEF Settled
<1>8. CASE size[f[n]] + n <= n
  <2>1. step[f[n]] = f[n] BY <1>0, <1>5, <1>6, <1>8
  <2> QED BY <1>5, <2>1 DEF Settled
<1> QED BY <1>4, <1>7, <1>8 DEF S

-----------------------------------------------------------------------------
\* The greatest of some of the first numbers.
LEMMA MaxFacts ==
  ASSUME NEW n \in Nat, NEW s \in SUBSET (1..n), s # {}
  PROVE  Max(s) \in s /\ \A y \in s : y <= Max(s)
<1> DEFINE T == { n - x : x \in s }
<1>1. T \in SUBSET Nat /\ T # {}
  <2>1. \A x \in s : n - x \in Nat OBVIOUS
  <2>2. PICK x \in s : TRUE OBVIOUS
  <2>3. n - x \in T BY <2>2
  <2> QED BY <2>1, <2>3
<1>2. PICK t \in T : \A u \in T : t <= u
  <2> HIDE DEF T
  <2> QED BY <1>1, LeastElement
<1>3. PICK x \in s : t = n - x BY <1>2
<1>4. \A y \in s : x >= y
  <2> TAKE y \in s
  <2>1. n - x <= n - y BY <1>2, <1>3
  <2> QED BY <2>1
<1>5. Max(s) \in s /\ \A y \in s : Max(s) >= y BY <1>4 DEF Max
<1> QED BY <1>5

LEMMA MaxUpTo ==
  ASSUME NEW k \in Nat, k > 0
  PROVE  1..k # {} /\ Max(1..k) = k /\ (1..k) \ {k} = 1..(k - 1)
<1>1. 1..k # {} BY k \in 1..k
<1>2. Max(1..k) \in 1..k /\ \A y \in 1..k : y <= Max(1..k) BY <1>1, MaxFacts
<1>3. k \in 1..k OBVIOUS
<1>4. Max(1..k) = k BY <1>2, <1>3
<1> QED BY <1>1, <1>4

\* A fold over the numbers from 1 to n: f holds its value for every subset.
Folding(f, n, base, step) ==
    f = [ s \in SUBSET (1..n) |->
            IF s = {} THEN base ELSE step[Max(s)][f[s \ {Max(s)}]] ]

\* A fold whose steps stay in A has values, all of them in A.
LEMMA FoldExists ==
  ASSUME NEW A, NEW base \in A, NEW n \in Nat, NEW step \in [1..n -> [A -> A]]
  PROVE  \E f \in [SUBSET (1..n) -> A] : Folding(f, n, base, step)
<1> DEFINE S == { m \in 0..n : \E f \in [SUBSET (1..m) -> A] : Folding(f, m, base, step) }
<1>1. 0 \in S
  <2> DEFINE f == [ s \in SUBSET (1..0) |-> base ]
  <2>1. f \in [SUBSET (1..0) -> A] OBVIOUS
  <2>2. \A s \in SUBSET (1..0) : s = {} OBVIOUS
  <2>3. Folding(f, 0, base, step) BY <2>2 DEF Folding
  <2> QED BY <2>1, <2>3
<1>2. ASSUME NEW m \in 0..(n - 1), m \in S PROVE m + 1 \in S
  <2> DEFINE p == m + 1
  <2>1. PICK f \in [SUBSET (1..m) -> A] : Folding(f, m, base, step) BY <1>2
  <2>2. m \in Nat /\ p \in 1..n /\ p \in Nat /\ 1..m \subseteq 1..p OBVIOUS
  <2>3. \A s \in SUBSET (1..p) : s \ {p} \in SUBSET (1..m) OBVIOUS
  <2> DEFINE g == [ s \in SUBSET (1..p) |->
                      IF p \in s THEN step[p][f[s \ {p}]] ELSE f[s] ]
  <2>4. \A s \in SUBSET (1..p) : p \notin s => s \in SUBSET (1..m) OBVIOUS
  <2>5. g \in [SUBSET (1..p) -> A]
    <3>1. ASSUME NEW s \in SUBSET (1..p)
          PROVE  (IF p \in s THEN step[p][f[s \ {p}]] ELSE f[s]) \in A
      <4>1. CASE p \in s
        <5>1. f[s \ {p}] \in A BY <2>3
        <5>2. step[p] \in [A -> A] BY <2>2
        <5> QED BY <4>1, <5>1, <5>2
      <4>2. CASE p \notin s BY <2>4, <4>2
      <4> QED BY <4>1, <4>2
    <3> QED BY <3>1
  <2>6. ASSUME NEW s \in SUBSET (1..p)
        PROVE  g[s] = IF s = {} THEN base ELSE step[Max(s)][g[s \ {Max(s)}]]
    <3>1. CASE s = {}
      <4>1. f[{}] = base
        <5>1. {} \in SUBSET (1..m) OBVIOUS
        <5> QED BY <2>1, <5>1 DEF Folding
      <4>2. p \notin s BY <3>1
      <4> QED BY <3>1, <4>1, <4>2
    <3>2. CASE p \in s
      <4>1. Max(s) \in s /\ \A y \in s : y <= Max(s) BY <2>2, <3>2, MaxFacts
      <4>2. Max(s) = p
        <5>1. Max(s) \in 1..p /\ p <= Max(s) BY <3>2, <4>1
        <5> QED BY <2>2, <5>1
      <4>3. g[s] = step[p][f[s \ {p}]] BY <3>2
      <4>4. s \ {p} \in SUBSET (1..p) /\ p \notin s \ {p} OBVIOUS
      <4>5. g[s \ {p}] = f[s \ {p}] BY <4>4
      <4> QED BY <3>2, <4>2, <4>3, <4>5
    <3>3. CASE s # {} /\ p \notin s
      <4>1. s \in SUBSET (1..m) BY <2>4, <3>3
      <4>2. f[s] = step[Max(s)][f[s \ {Max(s)}]] BY <2>1, <3>3, <4>1 DEF Folding
      <4>3. s \ {Max(s)} \in SUBSET (1..p) /\ p \notin s \ {Max(s)} BY <3>3
      <4>4. g[s \ {Max(s)}] = f[s \ {Max(s)}] BY <4>3
      <4> QED BY <3>3, <4>2, <4>4
    <3> QED BY <3>1, <3>2, <3>3
  <2> HIDE DEF g
  <2>7. g = [ s \in SUBSET (1..p) |->
                IF s = {} THEN base ELSE step[Max(s)][g[s \ {Max(s)}]] ]
    BY <2>5, <2>6
  <2>8. Folding(g, p, base, step) BY <2>7 DEF Folding
  <2>9. p \in 0..n OBVIOUS
  <2> QED BY <2>5, <2>8, <2>9
<1> HIDE DEF S
<1>3. \A m \in 0..n : m \in S BY <1>1, <1>2, UpToInduction
<1>4. n \in S BY <1>3
<1> QED BY <1>4 DEF S

-----------------------------------------------------------------------------
\* A number in 0..m-1 that differs from a by a multiple of m is the remainder of a.
LEMMA ModUnique ==
  ASSUME NEW a \in Int, NEW m \in Nat \ {0}, NEW q \in Int, NEW r \in 0..(m-1), a = q * m + r
  PROVE  a % m = r
  OBVIOUS

\* What the remainder of a division by m is.
LEMMA ModDef ==
  ASSUME NEW a \in Int, NEW m \in Nat \ {0}
  PROVE  /\ a % m \in 0..(m-1)
         /\ \E q \in Int : a = q * m + (a % m)
<1>1. a = (a \div m) * m + (a % m) /\ a \div m \in Int /\ a % m \in 0..(m-1)
  OBVIOUS
<1> QED BY <1>1

\* wrap with the modulus m, and unwrap with the moduli m and big: the arithmetic of
\* WrappingIntegers, whose lemmas the proofs that use it state for its constants.
WrapMod(n, isn, m) == ((n % m) + isn) % m
UnwrapMod(n, isn, c, half, m, big) ==
    LET diff == (n - WrapMod(c, isn, m)) % m
        res  == (diff + c) % big
    IN  IF diff >= half /\ res >= m THEN res - m ELSE res

\* WrapMod(n, isn, m) is congruent to n + isn modulo m.
LEMMA WrapModCongruent ==
  ASSUME NEW m \in Nat \ {0}, NEW n \in Int, NEW isn \in Int
  PROVE  /\ WrapMod(n, isn, m) \in 0..(m - 1)
         /\ \E q \in Int : n + isn = q * m + WrapMod(n, isn, m)
<1> DEFINE s == (n % m) + isn
<1>1. m \in Nat \ {0} OBVIOUS
<1>2. PICK p \in Int : n = p * m + (n % m) BY <1>1, ModDef
<1>3. n % m \in Int BY <1>1, ModDef
<1>4. s \in Int BY <1>3
<1> HIDE DEF s
<1>5. s % m \in 0..(m - 1) /\ \E r \in Int : s = r * m + (s % m)
  BY <1>1, <1>4, ModDef
<1>6. WrapMod(n, isn, m) = s % m BY DEF WrapMod, s
<1>7. PICK r \in Int : s = r * m + WrapMod(n, isn, m) BY <1>5, <1>6
<1>8. (p + r) * m = p * m + r * m BY <1>1
<1>9. WrapMod(n, isn, m) \in Int BY <1>1, <1>5, <1>6
<1>10. n + isn = p * m + s BY <1>1, <1>2, <1>3 DEF s
<1>11. p * m \in Int /\ r * m \in Int BY <1>1
<1>12. n + isn = (p + r) * m + WrapMod(n, isn, m)
  BY <1>7, <1>8, <1>9, <1>10, <1>11
<1> QED BY <1>5, <1>6, <1>12

\* UnwrapMod inverts WrapMod for every number within half of the checkpoint.
LEMMA UnwrapModNearest ==
  ASSUME NEW half \in Nat \ {0}, NEW m, m = 2 * half, NEW big \in Nat,
         NEW x \in 0..(big - 1), NEW isn \in Int, NEW c \in 0..(big - 1),
         x - c < half, c - x <= half, c + m <= big
  PROVE  UnwrapMod(WrapMod(x, isn, m), isn, c, half, m, big) = x
<1> DEFINE wx == WrapMod(x, isn, m)
           wc == WrapMod(c, isn, m)
           e  == wx - wc
           d  == e % m
<1>1. /\ m \in Nat \ {0} /\ big \in Nat \ {0} /\ m <= big
      /\ m = 2 * half /\ half \in Nat \ {0}
      /\ x \in Int /\ c \in Int /\ isn \in Int
      /\ x >= 0 /\ c >= 0 /\ x < big /\ c < big
  OBVIOUS
<1>2. /\ wx \in 0..(m - 1) /\ wc \in 0..(m - 1)
      /\ \E p \in Int : x + isn = p * m + wx
      /\ \E q \in Int : c + isn = q * m + wc
  BY <1>1, WrapModCongruent
<1> HIDE DEF wx, wc
<1>3. wx \in Int /\ wc \in Int /\ wx - wc \in Int BY <1>1, <1>2
<1>4. PICK p \in Int : x + isn = p * m + wx BY <1>2
<1>5. PICK q \in Int : c + isn = q * m + wc BY <1>2
<1>6. /\ (q - p) * m = q * m - p * m
      /\ (q - p - 1) * m = q * m - p * m - m
      /\ q * m \in Int /\ p * m \in Int
  BY <1>1
<1>7. /\ e = (q - p) * m + (x - c)
      /\ e = (q - p - 1) * m + (x - c + m)
  BY <1>1, <1>3, <1>4, <1>5, <1>6
<1>8. UnwrapMod(WrapMod(x, isn, m), isn, c, half, m, big) =
        IF d >= half /\ (d + c) % big >= m THEN ((d + c) % big) - m ELSE (d + c) % big
  BY DEF UnwrapMod, wx, wc, e
<1>e. e \in Int BY <1>3
<1> HIDE DEF e
<1>9. CASE x >= c
  <2>1. x - c \in 0..(m - 1) BY <1>1, <1>9
  <2>2. d = x - c
    <3> DEFINE k == q - p
    <3>1. k \in Int OBVIOUS
    <3>2. e = k * m + (x - c) BY <1>7
    <3> HIDE DEF k
    <3> QED BY <1>1, <1>e, <2>1, <3>1, <3>2, ModUnique
  <2> HIDE DEF d
  <2>3. d + c = 0 * big + x /\ d + c \in Int /\ x \in 0..(big - 1) BY <1>1, <2>2
  <2>4. (d + c) % big = x BY <1>1, <2>3, ModUnique
  <2> QED BY <1>1, <1>8, <2>2, <2>4
<1>10. CASE x < c
  <2>1. x - c + m \in 0..(m - 1) BY <1>1, <1>10
  <2>2. d = x - c + m
    <3> DEFINE k == q - p - 1
    <3>1. k \in Int OBVIOUS
    <3>2. e = k * m + (x - c + m) BY <1>7
    <3> HIDE DEF k
    <3> QED BY <1>1, <1>e, <2>1, <3>1, <3>2, ModUnique
  <2> HIDE DEF d
  <2>3. /\ d + c = 0 * big + (x + m) /\ d + c \in Int
        /\ x + m \in 0..(big - 1)
    BY <1>1, <1>10, <2>2
  <2>4. (d + c) % big = x + m BY <1>1, <2>3, ModUnique
  <2> QED BY <1>1, <1>8, <1>10, <2>2, <2>4
<1> QED BY <1>1, <1>9, <1>10
=============================================================================
