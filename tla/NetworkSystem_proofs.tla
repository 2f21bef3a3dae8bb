------------------------ MODULE NetworkSystem_proofs ------------------------
(***************************************************************************)
(* Longest-prefix routing picks the right route, and the interfaces learn  *)
(* true mappings, for every network, table and traffic.                    *)
(***************************************************************************)
EXTENDS NetworkSystem, FiniteSetTheorems, CommonLemmas

-----------------------------------------------------------------------------
\* What find_longest_prefix needs to know of a table.
RouteSet == [ prefix : Address, length : 0..AddressBits,
              next_hop : SUBSET Address, interface : ToSet(RouterIfcs) ]
RouteTable == Seq(RouteSet)

LEMMA RouteFacts ==
  ASSUME NEW rs \in RouteTable
  PROVE  /\ Len(rs) \in Nat /\ DOMAIN rs = 1..Len(rs)
         /\ \A k \in 1..Len(rs) :
               /\ rs[k].prefix \in Address /\ rs[k].length \in Nat
               /\ rs[k].length \in 0..AddressBits
               /\ rs[k].next_hop \in SUBSET Address
               /\ rs[k].interface \in ToSet(RouterIfcs)
<1>1. rs \in Seq(RouteSet) BY DEF RouteTable
<1>2. Len(rs) \in Nat /\ DOMAIN rs = 1..Len(rs) BY <1>1, LenProperties
<1>3. \A k \in 1..Len(rs) : rs[k] \in RouteSet BY <1>1, ElementOfSeq
<1>4. \A r \in RouteSet :
        /\ r.prefix \in Address /\ r.length \in Nat /\ r.length \in 0..AddressBits
        /\ r.next_hop \in SUBSET Address /\ r.interface \in ToSet(RouterIfcs)
  BY RouterAssumption DEF RouteSet
<1> QED BY <1>2, <1>3, <1>4

\* The best route among the first k: none matches, or idx is the first of the
\* longest that match.
BestOf(rs, dst, k, best) ==
    IF best.idx = 0
      THEN best.length = -1 /\ \A j \in 1..k : ~Matches(rs[j], dst)
      ELSE /\ best.idx \in 1..k /\ best.length = rs[best.idx].length
           /\ Matches(rs[best.idx], dst)
           /\ \A j \in 1..k : Matches(rs[j], dst) =>
                 \/ rs[j].length < best.length
                 \/ rs[j].length = best.length /\ best.idx <= j

Chosen == [ length : Int, idx : Nat ]

\* One more route.
BetterOf(rs, dst, best, k) ==
    IF Matches(rs[k], dst) /\ Better(best, rs[k])
      THEN [ length |-> rs[k].length, idx |-> k ] ELSE best

\* f holds the choice among every subset of the routes.
BestChoices(rs, dst, f) ==
    /\ find_longest_prefix(rs, dst) = f[DOMAIN rs].idx
    /\ f = [ s \in SUBSET DOMAIN rs |->
               IF s = {} THEN [ length |-> -1, idx |-> 0 ]
               ELSE BetterOf(rs, dst, f[s \ {Max(s)}], Max(s)) ]

LEMMA FindIsFold ==
  ASSUME NEW rs \in RouteTable, NEW dst
  PROVE  \E f : BestChoices(rs, dst, f)
<1> DEFINE D    == DOMAIN rs
           n    == Len(rs)
           base == [ length |-> -1, idx |-> 0 ]
           Raw(f) == f = [ s \in SUBSET D |->
                             IF s = {} THEN base
                             ELSE LET x == Max(s)
                                  IN  IF /\ Matches(rs[[ i \in D |-> i ][x]], dst)
                                         /\ Better(f[s \ {x}], rs[[ i \in D |-> i ][x]])
                                        THEN [ length |-> rs[[ i \in D |-> i ][x]].length,
                                               idx |-> [ i \in D |-> i ][x] ]
                                        ELSE f[s \ {x}] ]
           Fine(f) == f = [ s \in SUBSET D |->
                              IF s = {} THEN base
                              ELSE BetterOf(rs, dst, f[s \ {Max(s)}], Max(s)) ]
<1>1. find_longest_prefix(rs, dst) = (CHOOSE f : Raw(f))[D].idx
  BY DEF find_longest_prefix, FoldLeftDomain, FoldLeft, MapThenFoldSet
<1>2. n \in Nat /\ D = 1..n BY RouteFacts
<1>3. ASSUME NEW f, Fine(f) PROVE Raw(f)
  <2> SUFFICES ASSUME NEW s \in SUBSET D, s # {}
               PROVE  [ i \in D |-> i ][Max(s)] = Max(s)
    BY <1>3, ZenonT(30) DEF BetterOf
  <2>1. Max(s) \in s BY <1>2, MaxFacts
  <2> QED BY <2>1
<1>4. ASSUME NEW f, Raw(f) PROVE Fine(f)
  <2> SUFFICES ASSUME NEW s \in SUBSET D, s # {}
               PROVE  [ i \in D |-> i ][Max(s)] = Max(s)
    BY <1>4, ZenonT(30) DEF BetterOf
  <2>1. Max(s) \in s BY <1>2, MaxFacts
  <2> QED BY <2>1
<1>5. \E f : Fine(f)
  <2> DEFINE step == [ k \in 1..n |-> [ best \in Chosen |-> BetterOf(rs, dst, best, k) ] ]
  <2>1. base \in Chosen BY DEF Chosen
  <2>2. \A k \in 1..n, best \in Chosen : BetterOf(rs, dst, best, k) \in Chosen
    <3> TAKE k \in 1..n, best \in Chosen
    <3>1. rs[k].length \in Int /\ k \in Nat BY <1>2, RouteFacts
    <3> QED BY <3>1 DEF BetterOf, Chosen
  <2>3. step \in [1..n -> [Chosen -> Chosen]] BY <2>2
  <2> HIDE DEF base, step
  <2>4. PICK f \in [SUBSET (1..n) -> Chosen] : Folding(f, n, base, step)
    BY <1>2, <2>1, <2>3, FoldExists
  <2>5. ASSUME NEW s \in SUBSET (1..n)
        PROVE  f[s] = IF s = {} THEN base ELSE BetterOf(rs, dst, f[s \ {Max(s)}], Max(s))
    <3>1. f[s] = IF s = {} THEN base ELSE step[Max(s)][f[s \ {Max(s)}]]
      BY <2>4 DEF Folding
    <3>2. CASE s = {} BY <3>1, <3>2
    <3>3. CASE s # {}
      <4>1. Max(s) \in 1..n /\ s \ {Max(s)} \in SUBSET (1..n) BY <1>2, <3>3, MaxFacts
      <4>2. f[s \ {Max(s)}] \in Chosen BY <4>1
      <4> QED BY <3>1, <3>3, <4>1, <4>2 DEF step
    <3> QED BY <3>2, <3>3
  <2>6. f = [ s \in SUBSET (1..n) |-> f[s] ] OBVIOUS
  <2>7. Fine(f) BY <1>2, <2>5, <2>6
  <2> QED BY <2>7
<1> HIDE DEF Raw, Fine
<1>6. Raw(CHOOSE f : Raw(f)) BY <1>3, <1>5
<1>7. Fine(CHOOSE f : Raw(f)) BY <1>4, <1>6
<1> QED BY <1>1, <1>7 DEF Fine, BestChoices

\* The route find_longest_prefix takes is the best of all.
LEMMA FindsBest ==
  ASSUME NEW rs \in RouteTable, NEW dst
  PROVE  \E best \in Chosen :
            find_longest_prefix(rs, dst) = best.idx /\ BestOf(rs, dst, Len(rs), best)
<1> DEFINE n == Len(rs)
<1>1. n \in Nat /\ DOMAIN rs = 1..n BY RouteFacts
<1>2. PICK f : BestChoices(rs, dst, f) BY FindIsFold
<1> DEFINE S == { k \in 0..n : f[1..k] \in Chosen /\ BestOf(rs, dst, k, f[1..k]) }
<1>3. 0 \in S
  <2>1. 1..0 = {} /\ {} \in SUBSET DOMAIN rs OBVIOUS
  <2>2. f[1..0] = [ length |-> -1, idx |-> 0 ] BY <1>2, <2>1 DEF BestChoices
  <2>3. BestOf(rs, dst, 0, [ length |-> -1, idx |-> 0 ]) BY DEF BestOf
  <2> QED BY <1>1, <2>2, <2>3 DEF Chosen
<1>4. ASSUME NEW k \in 0..(n - 1), k \in S PROVE k + 1 \in S
  <2> DEFINE m == k + 1
             x == f[1..k]
             y == f[1..m]
  <2>1. m \in Nat /\ m > 0 /\ m \in 1..n /\ m - 1 = k /\ k \in Nat /\ m \in 0..n BY <1>1
  <2>2. 1..m # {} /\ Max(1..m) = m /\ (1..m) \ {m} = 1..k BY <2>1, MaxUpTo
  <2>3. 1..m \in SUBSET DOMAIN rs BY <1>1, <2>1
  <2>4. y = BetterOf(rs, dst, x, m) BY <1>2, <2>2, <2>3 DEF BestChoices
  <2>5. x \in Chosen /\ BestOf(rs, dst, k, x) BY <1>4
  <2>6. \A j \in 1..n : rs[j].length \in Nat BY <1>1, RouteFacts
  <2> HIDE DEF x, y, m
  <2>7. \A j \in 1..m : j \in 1..k \/ j = m BY <2>1
  <2>8. x.length \in Int /\ x.idx \in Nat BY <2>5 DEF Chosen
  <2>9. CASE Matches(rs[m], dst) /\ Better(x, rs[m])
    <3>1. y = [ length |-> rs[m].length, idx |-> m ] BY <2>4, <2>9 DEF BetterOf
    <3>2. y.length = rs[m].length /\ y.idx = m BY <3>1
    <3>3. y \in Chosen BY <2>1, <2>6, <3>1 DEF Chosen
    <3>4. x.length < rs[m].length BY <2>9 DEF Better
    <3>5. ASSUME NEW j \in 1..m, Matches(rs[j], dst)
          PROVE  rs[j].length < y.length \/ (rs[j].length = y.length /\ y.idx <= j)
      <4>1. CASE j = m BY <2>1, <3>2, <4>1
      <4>2. CASE j \in 1..k
        <5>1. x.idx # 0 BY <2>5, <3>5, <4>2 DEF BestOf
        <5>2. rs[j].length <= x.length BY <2>5, <2>6, <2>8, <3>5, <4>2, <5>1, SMTT(30) DEF BestOf
        <5>3. j \in 1..n BY <2>1, <4>2
        <5> QED BY <2>1, <2>6, <2>8, <3>2, <3>4, <5>2, <5>3
      <4> QED BY <2>7, <4>1, <4>2
    <3>6. y.idx # 0 /\ y.idx \in 1..m BY <2>1, <3>2
    <3>7. BestOf(rs, dst, m, y) BY <2>9, <3>2, <3>5, <3>6 DEF BestOf
    <3> QED BY <2>1, <3>3, <3>7 DEF m, y
  <2>10. CASE ~(Matches(rs[m], dst) /\ Better(x, rs[m]))
    <3>1. y = x BY <2>4, <2>10 DEF BetterOf
    <3>2. CASE x.idx = 0
      <4>1. x.length = -1 /\ \A j \in 1..k : ~Matches(rs[j], dst) BY <2>5, <3>2 DEF BestOf
      <4>2. Better(x, rs[m]) BY <2>1, <2>6, <4>1 DEF Better
      <4>3. \A j \in 1..m : ~Matches(rs[j], dst) BY <2>7, <2>10, <4>1, <4>2
      <4> QED BY <2>1, <2>5, <3>1, <3>2, <4>1, <4>3 DEF BestOf, m, y
    <3>3. CASE x.idx # 0
      <4>1. /\ x.idx \in 1..k /\ x.length = rs[x.idx].length
            /\ Matches(rs[x.idx], dst)
            /\ \A j \in 1..k : Matches(rs[j], dst) =>
                  rs[j].length < x.length \/ (rs[j].length = x.length /\ x.idx <= j)
        BY <2>5, <3>3 DEF BestOf
      <4>2. Matches(rs[m], dst) => rs[m].length <= x.length
        BY <2>1, <2>6, <2>8, <2>10 DEF Better
      <4>3. x.idx <= m /\ x.idx \in 1..m BY <2>1, <4>1
      <4>4. ASSUME NEW j \in 1..m, Matches(rs[j], dst)
            PROVE  rs[j].length < x.length \/ (rs[j].length = x.length /\ x.idx <= j)
        <5>1. CASE j = m BY <2>1, <2>6, <2>8, <4>2, <4>3, <4>4, <5>1
        <5>2. CASE j \in 1..k BY <4>1, <4>4, <5>2
        <5> QED BY <2>7, <5>1, <5>2
      <4>5. BestOf(rs, dst, m, x) BY <3>3, <4>1, <4>3, <4>4 DEF BestOf
      <4> QED BY <2>1, <2>5, <3>1, <4>5 DEF m, y
    <3> QED BY <3>2, <3>3
  <2> QED BY <2>9, <2>10
<1> HIDE DEF S
<1>5. \A k \in 0..n : k \in S BY <1>1, <1>3, <1>4, UpToInduction
<1>6. n \in S BY <1>1, <1>5
<1>7. f[1..n] \in Chosen /\ BestOf(rs, dst, n, f[1..n]) BY <1>6 DEF S
<1> QED BY <1>1, <1>2, <1>7 DEF BestChoices

-----------------------------------------------------------------------------
\* Pow2 is the function its recursion describes.
LEMMA Pow2Facts ==
  /\ \A k \in 0..AddressBits : Pow2[k] \in Nat /\ Pow2[k] > 0
  /\ Pow2[0] = 1
  /\ \A k \in 0..(AddressBits - 1) : Pow2[k + 1] = 2 * Pow2[k]
<1> DEFINE n == AddressBits
           Def(f) == f = [ k \in 0..n |-> IF k = 0 THEN 1 ELSE 2 * f[k - 1] ]
<1>1. n \in Nat /\ n > 0 BY RouterAssumption
<1>2. \E f : Def(f)
  <2> DEFINE step == [ x \in Nat |-> 2 * x ]
  <2>1. step \in [Nat -> Nat] OBVIOUS
  <2> HIDE DEF step
  <2>2. PICK f \in [0..n -> Nat] : Repeats(f, n, 1, step) BY <1>1, <2>1, RepetitionExists
  <2>3. ASSUME NEW k \in 0..n PROVE f[k] = IF k = 0 THEN 1 ELSE 2 * f[k - 1]
    <3>1. f[k] = IF k = 0 THEN 1 ELSE step[f[k - 1]] BY <2>2 DEF Repeats
    <3>2. k # 0 => k - 1 \in 0..n BY <1>1
    <3>3. k # 0 => f[k - 1] \in Nat BY <3>2
    <3> QED BY <3>1, <3>3 DEF step
  <2>4. f = [ k \in 0..n |-> f[k] ] OBVIOUS
  <2>5. Def(f) BY <2>3, <2>4
  <2> QED BY <2>5
<1>3. Def(Pow2)
  <2>1. Pow2 = CHOOSE f : Def(f) BY DEF Pow2
  <2> HIDE DEF Def
  <2> QED BY <1>2, <2>1
<1>4. \A k \in 0..n : Pow2[k] = IF k = 0 THEN 1 ELSE 2 * Pow2[k - 1] BY <1>3
<1> HIDE DEF Def
<1> DEFINE S == { k \in 0..n : Pow2[k] \in Nat /\ Pow2[k] > 0 }
<1>5. 0 \in S BY <1>1, <1>4
<1>6. ASSUME NEW k \in 0..(n - 1), k \in S PROVE k + 1 \in S
  <2>1. k + 1 \in 0..n /\ k + 1 # 0 /\ (k + 1) - 1 = k BY <1>1
  <2>2. Pow2[k + 1] = 2 * Pow2[k] BY <1>4, <2>1
  <2>3. Pow2[k] \in Nat /\ Pow2[k] > 0 BY <1>6
  <2> DEFINE p == Pow2[k]
  <2>4. 2 * p \in Nat /\ 2 * p > 0 BY <2>3
  <2> QED BY <2>1, <2>2, <2>4
<1> HIDE DEF S
<1>7. \A k \in 0..n : k \in S BY <1>1, <1>5, <1>6, UpToInduction
<1>8. \A k \in 0..(n - 1) : Pow2[k + 1] = 2 * Pow2[k]
  <2> TAKE k \in 0..(n - 1)
  <2>1. k + 1 \in 0..n /\ k + 1 # 0 /\ (k + 1) - 1 = k BY <1>1
  <2> QED BY <1>4, <2>1
<1>9. Pow2[0] = 1 BY <1>1, <1>4
<1> QED BY <1>7, <1>8, <1>9 DEF S

\* Quotients, for a positive divisor.
LEMMA Quotient ==
  ASSUME NEW x \in Nat, NEW w \in Nat, w > 0
  PROVE  /\ x \div w \in Nat
         /\ (x \div w) * w <= x
         /\ x < (x \div w) * w + w
  OBVIOUS

LEMMA QuotientUnique ==
  ASSUME NEW x \in Nat, NEW w \in Nat, w > 0, NEW q \in Nat, q * w <= x, x < q * w + w
  PROVE  x \div w = q
<1> DEFINE p == x \div w
<1>1. p \in Nat /\ p * w <= x /\ x < p * w + w BY Quotient
<1> HIDE DEF p
<1>2. ~(p < q)
  <2> SUFFICES ASSUME p < q PROVE FALSE OBVIOUS
  <2>1. p + 1 <= q BY <1>1
  <2>2. (p + 1) * w <= q * w BY <1>1, <2>1
  <2>3. (p + 1) * w = p * w + w BY <1>1
  <2> QED BY <1>1, <2>2, <2>3
<1>3. ~(q < p)
  <2> SUFFICES ASSUME q < p PROVE FALSE OBVIOUS
  <2>1. q + 1 <= p BY <1>1
  <2>2. (q + 1) * w <= p * w BY <1>1, <2>1
  <2>3. (q + 1) * w = q * w + w BY <1>1
  <2> QED BY <1>1, <2>2, <2>3
<1>4. p = q BY <1>1, <1>2, <1>3
<1> QED BY <1>4 DEF p

\* Dividing by w is dividing by twice w with one more binary digit.
LEMMA OneMoreBit ==
  ASSUME NEW x \in Nat, NEW w \in Nat, w > 0
  PROVE  x \div w = 2 * (x \div (2 * w)) + ((x \div w) % 2)
<1> DEFINE q == x \div w
           h == q \div 2
           b == q % 2
<1>1. q \in Nat /\ q * w <= x /\ x < q * w + w BY Quotient
<1>2. h \in Nat /\ (b = 0 \/ b = 1) /\ q = 2 * h + b
  <2> HIDE DEF q
  <2> QED BY <1>1
<1> HIDE DEF q, h, b
<1>3. h * (2 * w) <= x
  <2>1. 2 * h <= q BY <1>1, <1>2
  <2>2. (2 * h) * w <= q * w BY <1>1, <1>2, <2>1
  <2>3. h * (2 * w) = (2 * h) * w BY <1>2
  <2>4. (2 * h) * w \in Nat /\ q * w \in Nat BY <1>1, <1>2
  <2> QED BY <1>1, <2>2, <2>3, <2>4
<1>4. x < h * (2 * w) + 2 * w
  <2>1. q + 1 <= 2 * h + 2 BY <1>1, <1>2
  <2>2. (q + 1) * w <= (2 * h + 2) * w BY <1>1, <1>2, <2>1
  <2>3. (q + 1) * w = q * w + w /\ (2 * h + 2) * w = h * (2 * w) + 2 * w BY <1>1, <1>2
  <2>4. q * w \in Nat /\ h * (2 * w) \in Nat BY <1>1, <1>2
  <2> QED BY <1>1, <2>2, <2>3, <2>4
<1>5. 2 * w \in Nat /\ 2 * w > 0 OBVIOUS
<1>6. x \div (2 * w) = h BY <1>2, <1>3, <1>4, <1>5, QuotientUnique
<1> QED BY <1>2, <1>6 DEF q, b

\* Two addresses agree in their first bits exactly if they do bit by bit.
LEMMA PrefixBits ==
  ASSUME NEW x \in Address, NEW y \in Address, NEW l \in 0..AddressBits
  PROVE  (x \div Pow2[AddressBits - l] = y \div Pow2[AddressBits - l])
           <=> (\A k \in 1..l : Bit(x, k) = Bit(y, k))
<1> DEFINE n == AddressBits
           Agree(m) == (x \div Pow2[n - m] = y \div Pow2[n - m])
                         <=> (\A k \in 1..m : Bit(x, k) = Bit(y, k))
           S == { m \in 0..n : Agree(m) }
<1>1. n \in Nat /\ n > 0 BY RouterAssumption
<1>2. x \in Nat /\ y \in Nat /\ x < Pow2[n] /\ y < Pow2[n] /\ Pow2[n] \in Nat /\ Pow2[n] > 0
  <2>1. Pow2[n] \in Nat /\ Pow2[n] > 0 BY <1>1, Pow2Facts
  <2> QED BY <2>1 DEF Address
<1>3. 0 \in S
  <2> DEFINE w == Pow2[n]
  <2>1. w \in Nat /\ w > 0 /\ x < w /\ y < w BY <1>2
  <2> HIDE DEF w
  <2>2. 0 * w <= x /\ x < 0 * w + w /\ 0 * w <= y /\ y < 0 * w + w BY <1>2, <2>1
  <2>3. x \div w = 0 /\ y \div w = 0 BY <1>2, <2>1, <2>2, QuotientUnique
  <2>4. n - 0 = n BY <1>1
  <2> QED BY <1>1, <2>3, <2>4 DEF w
<1>4. ASSUME NEW m \in 0..(n - 1), m \in S PROVE m + 1 \in S
  <2> DEFINE w == Pow2[n - (m + 1)]
             v == Pow2[n - m]
             a == Bit(x, m + 1)
             b == Bit(y, m + 1)
  <2>1. m + 1 \in 0..n /\ n - (m + 1) \in 0..(n - 1) /\ (n - (m + 1)) + 1 = n - m
        /\ n - (m + 1) \in 0..n
    BY <1>1
  <2>2. w \in Nat /\ w > 0 /\ v = 2 * w BY <2>1, Pow2Facts
  <2>3. a = (x \div w) % 2 /\ b = (y \div w) % 2 BY DEF Bit
  <2>4. Agree(m) BY <1>4
  <2> HIDE DEF w, v, a, b
  <2>5. x \div w = 2 * (x \div v) + a /\ y \div w = 2 * (y \div v) + b
    BY <1>2, <2>2, <2>3, OneMoreBit
  <2>6. x \div v \in Nat /\ y \div v \in Nat /\ a \in 0..1 /\ b \in 0..1
    <3>1. v \in Nat /\ v > 0 BY <2>2
    <3>2. x \div v \in Nat /\ y \div v \in Nat BY <1>2, <3>1, Quotient
    <3>3. x \div w \in Nat /\ y \div w \in Nat BY <1>2, <2>2, Quotient
    <3> QED BY <2>3, <3>2, <3>3
  <2>7. (x \div w = y \div w) <=> (x \div v = y \div v /\ a = b)
    <3> DEFINE p == x \div v
               q == y \div v
    <3> HIDE DEF p, q
    <3>1. p \in Nat /\ q \in Nat /\ x \div w = 2 * p + a /\ y \div w = 2 * q + b
      BY <2>5, <2>6 DEF p, q
    <3>2. (2 * p + a = 2 * q + b) <=> (p = q /\ a = b) BY <2>6, <3>1
    <3> QED BY <3>1, <3>2 DEF p, q
  <2>8. (\A k \in 1..(m + 1) : Bit(x, k) = Bit(y, k))
          <=> ((\A k \in 1..m : Bit(x, k) = Bit(y, k)) /\ a = b)
    <3>1. \A k \in 1..(m + 1) : k \in 1..m \/ k = m + 1 OBVIOUS
    <3>2. \A k \in 1..m : k \in 1..(m + 1) OBVIOUS
    <3>3. m + 1 \in 1..(m + 1) OBVIOUS
    <3> QED BY <3>1, <3>2, <3>3 DEF a, b
  <2>9. Agree(m + 1) BY <2>4, <2>7, <2>8 DEF v, w
  <2> QED BY <2>1, <2>9
<1> HIDE DEF S
<1>5. \A m \in 0..n : m \in S BY <1>1, <1>3, <1>4, UpToInduction
<1> QED BY <1>5 DEF S

\* The masks compare what Applies compares bit by bit.
LEMMA MatchesApplies ==
  ASSUME NEW r \in RouteSet, NEW dst \in Address
  PROVE  Matches(r, dst) <=> Applies(r, dst)
<1>1. r.prefix \in Address /\ r.length \in 0..AddressBits BY DEF RouteSet
<1>2. (r.prefix \div Pow2[AddressBits - r.length] = dst \div Pow2[AddressBits - r.length])
        <=> (\A k \in 1..r.length : Bit(r.prefix, k) = Bit(dst, k))
  BY <1>1, PrefixBits
<1>3. r.length = 0 => Applies(r, dst) BY DEF Applies
<1> QED BY <1>2, <1>3 DEF Matches, Applies

\* The route taken for an address is the first of the longest that apply.
LEMMA FindFacts ==
  ASSUME NEW rs \in RouteTable, NEW dst \in Address
  PROVE  LET idx == find_longest_prefix(rs, dst)
         IN  /\ idx \in Nat
             /\ idx = 0 => \A k \in DOMAIN rs : ~Applies(rs[k], dst)
             /\ idx # 0 =>
                  /\ idx \in DOMAIN rs /\ Applies(rs[idx], dst)
                  /\ \A k \in DOMAIN rs : Applies(rs[k], dst) =>
                        \/ rs[k].length < rs[idx].length
                        \/ rs[k].length = rs[idx].length /\ idx <= k
<1>1. DOMAIN rs = 1..Len(rs) BY RouteFacts
<1>2. PICK best \in Chosen :
        find_longest_prefix(rs, dst) = best.idx /\ BestOf(rs, dst, Len(rs), best)
  BY FindsBest
<1>3. \A k \in DOMAIN rs : Matches(rs[k], dst) <=> Applies(rs[k], dst)
  <2> TAKE k \in DOMAIN rs
  <2>1. rs[k] \in RouteSet BY <1>1, ElementOfSeq DEF RouteTable
  <2> QED BY <2>1, MatchesApplies
<1>4. best.idx \in Nat BY DEF Chosen
<1>5. CASE best.idx = 0 BY <1>1, <1>2, <1>3, <1>5 DEF BestOf
<1>6. CASE best.idx # 0
  <2>1. /\ best.idx \in 1..Len(rs) /\ best.length = rs[best.idx].length
        /\ Matches(rs[best.idx], dst)
        /\ \A j \in 1..Len(rs) : Matches(rs[j], dst) =>
              \/ rs[j].length < best.length
              \/ rs[j].length = best.length /\ best.idx <= j
    BY <1>2, <1>6 DEF BestOf
  <2> QED BY <1>1, <1>2, <1>3, <1>4, <1>6, <2>1
<1> QED BY <1>5, <1>6

\* Every operation leaves the routing table a sequence of well-formed routes.
LEMMA TableTyped == Spec => [](routes \in RouteTable)
<1>1. Init => routes \in RouteTable
  <2>1. <<>> \in RouteTable BY DEF RouteTable
  <2> QED BY <2>1 DEF Init
<1>2. routes \in RouteTable /\ [Next]_vars => (routes \in RouteTable)'
  <2> SUFFICES ASSUME routes \in RouteTable, [Next]_vars PROVE routes' \in RouteTable
    OBVIOUS
  <2>1. ASSUME NEW r \in Candidates, AddRoute(r) PROVE routes' \in RouteTable
    <3>1. r \in RouteSet BY NetworkAssumption DEF RouteSet
    <3> QED BY <2>1, <3>1 DEF AddRoute, add_route, RouteTable
  <2>2. ASSUME NEW t \in Traffic, HostSends(t) PROVE routes' = routes BY <2>2 DEF HostSends
  <2>3. ASSUME NEW i \in Ifc, Transfer(i) \/ Lose(i) \/ Tick(i) PROVE routes' = routes
    BY <2>3 DEF Transfer, Lose, Tick
  <2>4. ASSUME Route PROVE routes' = routes BY <2>4 DEF Route
  <2>5. ASSUME NEW h \in Hosts, HostChecks(h) \/ TransferAndRoute(h) PROVE routes' = routes
    BY <2>5 DEF HostChecks, TransferAndRoute
  <2>6. CASE UNCHANGED vars BY <2>6 DEF vars
  <2> QED BY <2>1, <2>2, <2>3, <2>4, <2>5, <2>6 DEF Next
<1> QED BY <1>1, <1>2, PTL DEF Spec

\* The route Router::find_longest_prefix takes for any address, from whatever
\* table the calls of add_route built: it applies, none that applies is longer,
\* the first of equally long ones is taken, and there is none only if none applies.
THEOREM AlwaysLongestPrefix == Spec => []LongestPrefix
<1>1. ASSUME routes \in RouteTable PROVE LongestPrefix
  <2> SUFFICES ASSUME NEW dst \in Address
               PROVE  LET idx == find_longest_prefix(routes, dst)
                      IN  IF idx = 0 THEN \A k \in DOMAIN routes : ~Applies(routes[k], dst)
                          ELSE /\ Applies(routes[idx], dst)
                               /\ \A k \in DOMAIN routes : Applies(routes[k], dst) =>
                                     \/ routes[k].length < routes[idx].length
                                     \/ routes[k].length = routes[idx].length /\ idx <= k
    BY DEF LongestPrefix
  <2> QED BY <1>1, FindFacts
<1>2. routes \in RouteTable => LongestPrefix BY <1>1
<1> QED BY <1>2, TableTyped, PTL

-----------------------------------------------------------------------------
\* What an interface can hold: O are the datagrams it may be asked to send, with
\* their next hops, and D those it may receive.
Datagram == [ id : Nat, dst : Address, ttl : Int ]
Cell     == [ hop : Address, dgram : Datagram ]

\* An ARP message of interface i tells the truth about i.
ArpMessage(i) == [ opcode : {"request", "reply"}, sender_eth : {i}, sender_ip : {Ip[i]},
                   target_ip : Address ]
ArpFrame(i)   == [ type : {"arp"}, dst : Ifc \cup {BROADCAST}, body : ArpMessage(i) ]

\* A datagram goes to the interface that has the address of its next hop.
IpFrame(O) == { f \in [ type : {"ip"}, dst : Ifc, body : Datagram ] :
                  [ hop |-> Ip[f.dst], dgram |-> f.body ] \in O }
FrameOf(i, O) == ArpFrame(i) \cup IpFrame(O)

AddrMap   == UNION { [ s -> Ifc ] : s \in SUBSET Address }
MapStatus == UNION { [ s -> Int ] : s \in SUBSET Address }

Interface(i, O, D) ==
    [ ethernet_address : {i}, ip_address : {Ip[i]}, addr_map : AddrMap, map_status : MapStatus,
      dgram_stage : Seq(O), frames_out : Seq(FrameOf(i, O)), datagrams_out : Seq(D),
      failure : {"none", "wrong size", "crash"} ]

\* The mappings are those that have not expired, and they are true.
MappingOf(n) ==
    /\ DOMAIN n.addr_map = { a \in DOMAIN n.map_status : n.map_status[a] >= 0 }
    /\ \A a \in DOMAIN n.addr_map : Ip[n.addr_map[a]] = a

State(i, O, D) == { n \in Interface(i, O, D) : MappingOf(n) }

LEMMA StateFacts ==
  ASSUME NEW i, NEW O, NEW D, NEW n \in State(i, O, D)
  PROVE  /\ n.ethernet_address = i /\ n.ip_address = Ip[i]
         /\ DOMAIN n.addr_map \subseteq Address /\ n.addr_map \in [DOMAIN n.addr_map -> Ifc]
         /\ DOMAIN n.map_status \subseteq Address /\ n.map_status \in [DOMAIN n.map_status -> Int]
         /\ n.dgram_stage \in Seq(O) /\ n.frames_out \in Seq(FrameOf(i, O))
         /\ n.datagrams_out \in Seq(D) /\ MappingOf(n)
<1>1. n \in Interface(i, O, D) /\ MappingOf(n) BY DEF State
<1>2. /\ n.ethernet_address = i /\ n.ip_address = Ip[i]
      /\ n.addr_map \in AddrMap /\ n.map_status \in MapStatus
      /\ n.dgram_stage \in Seq(O) /\ n.frames_out \in Seq(FrameOf(i, O))
      /\ n.datagrams_out \in Seq(D)
  BY <1>1 DEF Interface
<1>3. PICK s \in SUBSET Address : n.addr_map \in [s -> Ifc] BY <1>2 DEF AddrMap
<1>4. PICK t \in SUBSET Address : n.map_status \in [t -> Int] BY <1>2 DEF MapStatus
<1> QED BY <1>1, <1>2, <1>3, <1>4

\* Changing one field at a time.
LEMMA WithFrames ==
  ASSUME NEW i, NEW O, NEW D, NEW n \in State(i, O, D), NEW q \in Seq(FrameOf(i, O))
  PROVE  [ n EXCEPT !.frames_out = q ] \in State(i, O, D)
<1> DEFINE m == [ n EXCEPT !.frames_out = q ]
<1>1. n \in Interface(i, O, D) /\ MappingOf(n) BY DEF State
<1>2. m \in Interface(i, O, D) BY <1>1 DEF Interface
<1>3. m.addr_map = n.addr_map /\ m.map_status = n.map_status BY <1>1 DEF Interface
<1> HIDE DEF m
<1>4. MappingOf(m) BY <1>1, <1>3 DEF MappingOf
<1>5. m \in State(i, O, D) BY <1>2, <1>4 DEF State
<1> QED BY <1>5 DEF m

LEMMA WithStage ==
  ASSUME NEW i, NEW O, NEW D, NEW n \in State(i, O, D), NEW q \in Seq(O)
  PROVE  [ n EXCEPT !.dgram_stage = q ] \in State(i, O, D)
<1> DEFINE m == [ n EXCEPT !.dgram_stage = q ]
<1>1. n \in Interface(i, O, D) /\ MappingOf(n) BY DEF State
<1>2. m \in Interface(i, O, D) BY <1>1 DEF Interface
<1>3. m.addr_map = n.addr_map /\ m.map_status = n.map_status BY <1>1 DEF Interface
<1> HIDE DEF m
<1>4. MappingOf(m) BY <1>1, <1>3 DEF MappingOf
<1>5. m \in State(i, O, D) BY <1>2, <1>4 DEF State
<1> QED BY <1>5 DEF m

LEMMA WithDatagrams ==
  ASSUME NEW i, NEW O, NEW D, NEW n \in State(i, O, D), NEW q \in Seq(D)
  PROVE  [ n EXCEPT !.datagrams_out = q ] \in State(i, O, D)
<1> DEFINE m == [ n EXCEPT !.datagrams_out = q ]
<1>1. n \in Interface(i, O, D) /\ MappingOf(n) BY DEF State
<1>2. m \in Interface(i, O, D) BY <1>1 DEF Interface
<1>3. m.addr_map = n.addr_map /\ m.map_status = n.map_status BY <1>1 DEF Interface
<1> HIDE DEF m
<1>4. MappingOf(m) BY <1>1, <1>3 DEF MappingOf
<1>5. m \in State(i, O, D) BY <1>2, <1>4 DEF State
<1> QED BY <1>5 DEF m

LEMMA WithFailure ==
  ASSUME NEW i, NEW O, NEW D, NEW n \in State(i, O, D), NEW f \in {"none", "wrong size", "crash"}
  PROVE  [ n EXCEPT !.failure = f ] \in State(i, O, D)
<1> DEFINE m == [ n EXCEPT !.failure = f ]
<1>1. n \in Interface(i, O, D) /\ MappingOf(n) BY DEF State
<1>2. m \in Interface(i, O, D) BY <1>1 DEF Interface
<1>3. m.addr_map = n.addr_map /\ m.map_status = n.map_status BY <1>1 DEF Interface
<1> HIDE DEF m
<1>4. MappingOf(m) BY <1>1, <1>3 DEF MappingOf
<1>5. m \in State(i, O, D) BY <1>2, <1>4 DEF State
<1> QED BY <1>5 DEF m

\* The two maps change together.
LEMMA WithMaps ==
  ASSUME NEW i, NEW O, NEW D, NEW n \in State(i, O, D),
         NEW am \in AddrMap, NEW ms \in MapStatus,
         DOMAIN am = { a \in DOMAIN ms : ms[a] >= 0 },
         \A a \in DOMAIN am : Ip[am[a]] = a
  PROVE  [ n EXCEPT !.addr_map = am, !.map_status = ms ] \in State(i, O, D)
<1> DEFINE p == [ n EXCEPT !.addr_map = am ]
           m == [ p EXCEPT !.map_status = ms ]
<1>1. n \in Interface(i, O, D) BY DEF State
<1>2. p \in Interface(i, O, D) BY <1>1 DEF Interface
<1>3. p.addr_map = am BY <1>1 DEF Interface
<1>4. [ n EXCEPT !.addr_map = am, !.map_status = ms ] = m BY <1>1 DEF Interface
<1> HIDE DEF p
<1>5. m \in Interface(i, O, D) BY <1>2 DEF Interface
<1>6. m.addr_map = am /\ m.map_status = ms BY <1>2, <1>3 DEF Interface
<1> HIDE DEF m
<1>7. MappingOf(m) BY <1>6 DEF MappingOf
<1>8. m \in State(i, O, D) BY <1>5, <1>7 DEF State
<1> QED BY <1>4, <1>8

LEMMA FreshInterface ==
  ASSUME NEW i \in Ifc, NEW O, NEW D
  PROVE  NewNetworkInterface(i, Ip[i]) \in State(i, O, D)
<1> DEFINE n == NewNetworkInterface(i, Ip[i])
<1>1. \A s : <<>> \in Seq(s) OBVIOUS
<1>2. <<>> \in AddrMap /\ <<>> \in MapStatus
  <2>1. DOMAIN <<>> = {} /\ {} \in SUBSET Address OBVIOUS
  <2>2. <<>> \in [{} -> Ifc] /\ <<>> \in [{} -> Int] OBVIOUS
  <2> QED BY <2>1, <2>2 DEF AddrMap, MapStatus
<1>3. n \in Interface(i, O, D) BY <1>1, <1>2 DEF NewNetworkInterface, Interface
<1>4. n.addr_map = <<>> /\ n.map_status = <<>> BY DEF NewNetworkInterface
<1>5. MappingOf(n) BY <1>4 DEF MappingOf
<1> QED BY <1>3, <1>5 DEF State

-----------------------------------------------------------------------------
\* The operations of an interface keep what it holds within O and D.
LEMMA PushArp ==
  ASSUME NEW i \in Ifc, NEW O, NEW D, NEW n \in State(i, O, D),
         NEW dst \in Ifc \cup {BROADCAST}, NEW body \in ArpMessage(i)
  PROVE  PushFrame(n, "arp", dst, body) \in State(i, O, D)
<1> DEFINE f == [ type |-> "arp", dst |-> dst, body |-> body ]
           q == Append(n.frames_out, f)
<1>1. f \in FrameOf(i, O) BY DEF ArpFrame, FrameOf
<1>2. n.frames_out \in Seq(FrameOf(i, O)) BY StateFacts
<1>3. q \in Seq(FrameOf(i, O)) BY <1>1, <1>2, AppendProperties
<1>4. PushFrame(n, "arp", dst, body) = [ n EXCEPT !.frames_out = q ]
  BY DEF PushFrame
<1> HIDE DEF q
<1> QED BY <1>3, <1>4, WithFrames

LEMMA PushIp ==
  ASSUME NEW i \in Ifc, NEW O \in SUBSET Cell, NEW D, NEW n \in State(i, O, D),
         NEW j \in Ifc, NEW dgram, [ hop |-> Ip[j], dgram |-> dgram ] \in O
  PROVE  PushFrame(n, "ip", j, dgram) \in State(i, O, D)
<1> DEFINE f == [ type |-> "ip", dst |-> j, body |-> dgram ]
           q == Append(n.frames_out, f)
<1>1. dgram \in Datagram BY DEF Cell
<1>2. f \in IpFrame(O) BY <1>1 DEF IpFrame
<1>3. f \in FrameOf(i, O) BY <1>2 DEF FrameOf
<1>4. n.frames_out \in Seq(FrameOf(i, O)) BY StateFacts
<1>5. q \in Seq(FrameOf(i, O)) BY <1>3, <1>4, AppendProperties
<1>6. PushFrame(n, "ip", j, dgram) = [ n EXCEPT !.frames_out = q ]
  BY DEF PushFrame
<1> HIDE DEF q
<1> QED BY <1>5, <1>6, WithFrames

LEMMA StageState ==
  ASSUME NEW i \in Ifc, NEW O \in SUBSET Cell, NEW D, NEW n \in State(i, O, D),
         NEW dgram, NEW hop, [ hop |-> hop, dgram |-> dgram ] \in O
  PROVE  Stage(n, dgram, hop) \in State(i, O, D)
<1> DEFINE q == Append(n.dgram_stage, [ hop |-> hop, dgram |-> dgram ])
<1>1. n.dgram_stage \in Seq(O) BY StateFacts
<1>2. q \in Seq(O) BY <1>1, AppendProperties
<1>3. Stage(n, dgram, hop) = [ n EXCEPT !.dgram_stage = q ] BY DEF Stage
<1> HIDE DEF q
<1> QED BY <1>2, <1>3, WithStage

\* A request makes its target an address without a mapping.
LEMMA RequestState ==
  ASSUME NEW i \in Ifc, NEW O \in SUBSET Cell, NEW D, NEW n \in State(i, O, D),
         NEW dgram, NEW hop, [ hop |-> hop, dgram |-> dgram ] \in O,
         hop \notin DOMAIN n.map_status
  PROVE  RequestFor(n, dgram, hop) \in State(i, O, D)
<1> DEFINE s  == Stage(n, dgram, hop)
           ms == Put(s.map_status, hop, -1)
           t  == [ s EXCEPT !.map_status = ms ]
           am == s.addr_map
           body == [ opcode |-> "request", sender_eth |-> n.ethernet_address,
                     sender_ip |-> n.ip_address, target_ip |-> hop ]
<1>1. s \in State(i, O, D) BY StageState
<1>2. s.addr_map = n.addr_map /\ s.map_status = n.map_status
  <2>1. n \in Interface(i, O, D) BY DEF State
  <2> QED BY <2>1 DEF Interface, Stage
<1>3. hop \in Address BY DEF Cell
<1> HIDE DEF s
<1>4. /\ DOMAIN am \subseteq Address /\ am \in [DOMAIN am -> Ifc]
      /\ DOMAIN s.map_status \subseteq Address /\ s.map_status \in [DOMAIN s.map_status -> Int]
      /\ MappingOf(s)
  BY <1>1, StateFacts
<1>5. ms \in [DOMAIN s.map_status \cup {hop} -> Int] BY <1>4 DEF Put
<1>6. DOMAIN ms \in SUBSET Address BY <1>3, <1>4 DEF Put
<1>7. am \in AddrMap BY <1>4 DEF AddrMap
<1>8. ms \in MapStatus BY <1>5, <1>6 DEF MapStatus
<1>9. DOMAIN am = { a \in DOMAIN ms : ms[a] >= 0 }
  <2>1. DOMAIN am = { a \in DOMAIN s.map_status : s.map_status[a] >= 0 } BY <1>4 DEF MappingOf
  <2>2. DOMAIN ms = DOMAIN s.map_status \cup {hop} BY DEF Put
  <2>3. ms[hop] = -1 /\ ~(-1 >= 0) BY DEF Put
  <2>4. \A a \in DOMAIN s.map_status : a # hop /\ ms[a] = s.map_status[a] BY <1>2 DEF Put
  <2> HIDE DEF ms, am
  <2> QED BY <2>1, <2>2, <2>3, <2>4
<1>10. \A a \in DOMAIN am : Ip[am[a]] = a BY <1>4 DEF MappingOf
<1>11. t \in State(i, O, D)
  <2> HIDE DEF ms, am
  <2>1. [ s EXCEPT !.addr_map = am, !.map_status = ms ] \in State(i, O, D)
    BY <1>1, <1>7, <1>8, <1>9, <1>10, WithMaps
  <2>2. s \in Interface(i, O, D) BY <1>1 DEF State
  <2>3. [ s EXCEPT !.addr_map = am, !.map_status = ms ] = [ s EXCEPT !.map_status = ms ]
    BY <2>2 DEF Interface, am
  <2> QED BY <2>1, <2>3
<1>12. body \in ArpMessage(i)
  <2>1. n.ethernet_address = i /\ n.ip_address = Ip[i] BY StateFacts
  <2> QED BY <1>3, <2>1 DEF ArpMessage
<1>13. RequestFor(n, dgram, hop) = PushFrame(t, "arp", BROADCAST, body)
  BY DEF RequestFor, s
<1> HIDE DEF t, body
<1> QED BY <1>11, <1>12, <1>13, PushArp

LEMMA SendState ==
  ASSUME NEW i \in Ifc, NEW O \in SUBSET Cell, NEW D, NEW n \in State(i, O, D),
         NEW dgram, NEW hop, [ hop |-> hop, dgram |-> dgram ] \in O
  PROVE  send_datagram(n, dgram, hop) \in State(i, O, D)
<1>1. /\ n.addr_map \in [DOMAIN n.addr_map -> Ifc]
      /\ n.map_status \in [DOMAIN n.map_status -> Int] /\ MappingOf(n)
  BY StateFacts
<1>2. CASE hop \in DOMAIN n.addr_map
  <2>1. n.addr_map[hop] \in Ifc /\ Ip[n.addr_map[hop]] = hop BY <1>1, <1>2 DEF MappingOf
  <2>2. PushFrame(n, "ip", n.addr_map[hop], dgram) \in State(i, O, D) BY <2>1, PushIp
  <2> QED BY <1>2, <2>2 DEF send_datagram
<1>3. CASE hop \notin DOMAIN n.addr_map /\ hop \notin DOMAIN n.map_status
  BY <1>3, RequestState DEF send_datagram
<1>4. CASE hop \notin DOMAIN n.addr_map /\ hop \in DOMAIN n.map_status
  <2>1. n.map_status[hop] < 0
    <3>1. ~(n.map_status[hop] >= 0) BY <1>1, <1>4 DEF MappingOf
    <3>2. n.map_status[hop] \in Int BY <1>1, <1>4
    <3> QED BY <3>1, <3>2
  <2> QED BY <1>4, <2>1, StageState DEF send_datagram
<1> QED BY <1>2, <1>3, <1>4

\* What the loop of send_stage_datagram has left: no more cells than it began with.
Passes(i, O, D, cells) ==
    { p \in [ n : State(i, O, D), hops : [1..cells -> Address] ] : Len(p.n.dgram_stage) <= cells }

LEMMA VisitState ==
  ASSUME NEW i \in Ifc, NEW O \in SUBSET Cell, NEW D, NEW cells \in Nat,
         NEW p \in Passes(i, O, D, cells), NEW k \in 1..cells
  PROVE  StageVisit(p, k) \in Passes(i, O, D, cells)
<1> DEFINE n    == p.n
           size == Len(n.dgram_stage)
           hop  == n.dgram_stage[k].hop
           dg   == n.dgram_stage[k].dgram
<1>1. /\ p \in [ n : State(i, O, D), hops : [1..cells -> Address] ]
      /\ n \in State(i, O, D) /\ p.hops \in [1..cells -> Address] /\ size <= cells
      /\ p = [ n |-> p.n, hops |-> p.hops ]
  BY DEF Passes
<1>2. n.dgram_stage \in Seq(O) /\ MappingOf(n) BY <1>1, StateFacts
<1>3. size \in Nat /\ DOMAIN n.dgram_stage = 1..size BY <1>2, LenProperties
<1>4. n \in Interface(i, O, D) BY <1>1 DEF State
<1>5. CASE n.failure # "none" BY <1>5 DEF StageVisit
<1>6. CASE n.failure = "none" /\ k > size
  <2> DEFINE v == IF Resolved(n, p.hops[k]) THEN "wrong size" ELSE n.failure
             m == [ n EXCEPT !.failure = v ]
  <2>1. v \in {"none", "wrong size", "crash"} BY <1>6
  <2>2. m \in State(i, O, D)
    <3> HIDE DEF v, n
    <3> QED BY <1>1, <2>1, WithFailure
  <2>3. m.dgram_stage = n.dgram_stage BY <1>4 DEF Interface
  <2>4. StageVisit(p, k) = [ p EXCEPT !.n.failure = v ] BY <1>6 DEF StageVisit
  <2> HIDE DEF v
  <2>5. [ p EXCEPT !.n.failure = v ] = [ n |-> m, hops |-> p.hops ]
    <3>1. [ p EXCEPT !.n.failure = v ] = [ p EXCEPT !.n = m ] OBVIOUS
    <3> HIDE DEF m, n
    <3> QED BY <1>1, <3>1
  <2> HIDE DEF m, n
  <2> QED BY <1>1, <2>2, <2>3, <2>4, <2>5 DEF Passes
<1>7. CASE n.failure = "none" /\ k <= size /\ ~Resolved(n, hop)
  <2>1. ~(k > size) BY <1>3, <1>7
  <2>2. StageVisit(p, k) = p
    <3> HIDE DEF size
    <3> QED BY <1>7, <2>1 DEF StageVisit, size
  <2> QED BY <2>2
<1>8. CASE n.failure = "none" /\ k <= size /\ Resolved(n, hop)
  <2> DEFINE s == send_datagram(n, dg, hop)
             q == SubSeq(n.dgram_stage, 1, k - 1) \o SubSeq(n.dgram_stage, k + 1, size)
             m == [ s EXCEPT !.dgram_stage = q ]
             h == [ j \in DOMAIN p.hops |-> p.hops[IF j \in k..(size - 1) THEN j + 1 ELSE j] ]
  <2>1. n.dgram_stage[k] \in O BY <1>2, <1>3, <1>8, ElementOfSeq
  <2>2. [ hop |-> hop, dgram |-> dg ] \in O
    <3>1. n.dgram_stage[k] \in Cell BY <2>1
    <3>2. n.dgram_stage[k] = [ hop |-> hop, dgram |-> dg ] BY <3>1 DEF Cell
    <3> QED BY <2>1, <3>2
  <2>3. s \in State(i, O, D)
    <3> HIDE DEF n, hop, dg
    <3> QED BY <1>1, <2>2, SendState
  <2>4. s.dgram_stage = n.dgram_stage
    <3>1. hop \in DOMAIN n.addr_map BY <1>2, <1>8 DEF MappingOf, Resolved
    <3>2. s = PushFrame(n, "ip", n.addr_map[hop], dg) BY <3>1 DEF send_datagram
    <3> QED BY <1>4, <3>2 DEF PushFrame, Interface
  <2>5. q \in Seq(O) /\ Len(q) <= size
    <3>1. k \in 1..size BY <1>3, <1>8
    <3>2. SubSeq(n.dgram_stage, 1, k - 1) \in Seq(O) /\ Len(SubSeq(n.dgram_stage, 1, k - 1)) = k - 1
      <4>1. 1 \in 1..(size + 1) /\ k - 1 \in 0..size BY <1>3, <3>1
      <4>2. \A j \in 1..(k - 1) : n.dgram_stage[j] \in O BY <1>2, <1>3, <3>1, ElementOfSeq
      <4> HIDE DEF size, n
      <4> QED BY <1>2, <1>3, <3>1, <4>1, <4>2, SubSeqProperties DEF size
    <3>3. SubSeq(n.dgram_stage, k + 1, size) \in Seq(O) /\ Len(SubSeq(n.dgram_stage, k + 1, size)) = size - k
      <4>1. k + 1 \in 1..(size + 1) /\ size \in 0..size BY <1>3, <3>1
      <4>2. \A j \in (k + 1)..size : n.dgram_stage[j] \in O BY <1>2, <1>3, <3>1, ElementOfSeq
      <4> HIDE DEF size, n
      <4> QED BY <1>2, <1>3, <3>1, <4>1, <4>2, SubSeqProperties DEF size
    <3>4. q \in Seq(O)
          /\ Len(q) = Len(SubSeq(n.dgram_stage, 1, k - 1)) + Len(SubSeq(n.dgram_stage, k + 1, size))
      BY <3>2, <3>3, ConcatProperties
    <3> HIDE DEF q, size, n
    <3> QED BY <1>3, <3>1, <3>2, <3>3, <3>4
  <2>6. m \in State(i, O, D) /\ m.dgram_stage = q
    <3>1. s \in Interface(i, O, D) BY <2>3 DEF State
    <3>2. m.dgram_stage = q
      <4> HIDE DEF s, q
      <4> QED BY <3>1 DEF Interface
    <3> HIDE DEF q, s
    <3> QED BY <2>3, <2>5, <3>2, WithStage
  <2>7. h \in [1..cells -> Address]
    <3>1. \A j \in 1..cells : (IF j \in k..(size - 1) THEN j + 1 ELSE j) \in 1..cells
      <4> HIDE DEF size
      <4> QED BY <1>1, <1>3
    <3> HIDE DEF size
    <3> QED BY <1>1, <3>1
  <2>8. StageVisit(p, k) = [ n |-> m, hops |-> h ]
    <3>1. ~(k > size) BY <1>3, <1>8
    <3>2. [ s EXCEPT !.dgram_stage = SubSeq(@, 1, k - 1) \o SubSeq(@, k + 1, size) ] = m
      BY <2>4
    <3> QED BY <1>8, <3>1, <3>2, ZenonT(30) DEF StageVisit
  <2> HIDE DEF m, h, q
  <2>9. Len(m.dgram_stage) <= cells
    <3>1. Len(q) \in Nat BY <2>5, LenProperties
    <3> HIDE DEF size
    <3> QED BY <1>1, <1>3, <2>5, <2>6, <3>1
  <2> QED BY <2>6, <2>7, <2>8, <2>9 DEF Passes
<1> HIDE DEF n, size, hop, dg
<1>9. k > size \/ k <= size BY <1>3
<1> QED BY <1>5, <1>6, <1>7, <1>8, <1>9

LEMMA SendStageState ==
  ASSUME NEW i \in Ifc, NEW O \in SUBSET Cell, NEW D, NEW n \in State(i, O, D)
  PROVE  send_stage_datagram(n) \in State(i, O, D)
<1> DEFINE cells == Len(n.dgram_stage)
           base  == [ n |-> n, hops |-> [ j \in 1..cells |-> n.dgram_stage[j].hop ] ]
           P     == Passes(i, O, D, cells)
           Raw(f) == f = [ k \in 0..cells |-> IF k = 0 THEN base ELSE StageVisit(f[k - 1], k) ]
           step  == [ k \in 1..cells |-> [ p \in P |-> StageVisit(p, k) ] ]
<1>1. n.dgram_stage \in Seq(O) BY StateFacts
<1>2. cells \in Nat /\ DOMAIN n.dgram_stage = 1..cells BY <1>1, LenProperties
<1>3. base \in P
  <2>1. \A j \in 1..cells : n.dgram_stage[j].hop \in Address
    <3> TAKE j \in 1..cells
    <3>1. n.dgram_stage[j] \in O BY <1>1, ElementOfSeq
    <3>2. n.dgram_stage[j] \in Cell BY <3>1
    <3> QED BY <3>2 DEF Cell
  <2>2. base.hops \in [1..cells -> Address] /\ base.n = n BY <2>1
  <2>3. base \in [ n : State(i, O, D), hops : [1..cells -> Address] ] BY <2>1
  <2>4. Len(base.n.dgram_stage) <= cells BY <1>2, <2>2
  <2> HIDE DEF base
  <2> QED BY <2>3, <2>4 DEF Passes
<1>4. \A k \in 1..cells, p \in P : StageVisit(p, k) \in P
  <2> HIDE DEF cells
  <2> QED BY <1>2, VisitState
<1>5. step \in [1..cells -> [P -> P]] BY <1>4
<1>6. send_stage_datagram(n) = (CHOOSE f : Raw(f))[cells].n BY ZenonT(30) DEF send_stage_datagram
<1> HIDE DEF cells, base, P, step
<1>7. PICK f \in [0..cells -> P] : Iterates(f, cells, base, step)
  BY <1>2, <1>3, <1>5, IterationExists
<1>8. Raw(f)
  <2>1. ASSUME NEW k \in 0..cells, k # 0 PROVE step[k][f[k - 1]] = StageVisit(f[k - 1], k)
    <3>1. k \in 1..cells /\ k - 1 \in 0..cells BY <1>2, <2>1
    <3>2. f[k - 1] \in P BY <3>1
    <3> QED BY <3>1, <3>2 DEF step
  <2>2. \A k \in 0..cells : f[k] = IF k = 0 THEN base ELSE step[k][f[k - 1]]
    BY <1>7 DEF Iterates
  <2>3. \A k \in 0..cells : f[k] = IF k = 0 THEN base ELSE StageVisit(f[k - 1], k)
    BY <2>1, <2>2
  <2>4. f = [ k \in 0..cells |-> f[k] ] BY <1>7
  <2> QED BY <2>3, <2>4
<1> DEFINE g == CHOOSE h : Raw(h)
<1>9. Raw(g) BY <1>8
<1> HIDE DEF g
<1> DEFINE S == { k \in 0..cells : g[k] \in P }
<1>10. 0 \in S BY <1>2, <1>3, <1>9
<1>11. ASSUME NEW k \in 0..(cells - 1), k \in S PROVE k + 1 \in S
  <2>1. k + 1 \in 1..cells /\ k + 1 \in 0..cells /\ k + 1 # 0 /\ (k + 1) - 1 = k BY <1>2
  <2>2. g[k + 1] = StageVisit(g[k], k + 1) BY <1>9, <2>1
  <2> QED BY <1>4, <1>11, <2>1, <2>2
<1> HIDE DEF S, Raw
<1>12. \A k \in 0..cells : k \in S BY <1>2, <1>10, <1>11, UpToInduction
<1>13. g[cells] \in P BY <1>2, <1>12 DEF S
<1> QED BY <1>6, <1>13 DEF g, P, Passes

\* Every ARP message is true, so the interface learns a true mapping.
LEMMA LearnState ==
  ASSUME NEW i \in Ifc, NEW O \in SUBSET Cell, NEW D, NEW n \in State(i, O, D),
         NEW j \in Ifc, NEW msg \in ArpMessage(j)
  PROVE  Learn(n, msg) \in State(i, O, D)
<1> DEFINE ip == Ip[j]
           am == Put(n.addr_map, ip, j)
           ms == Put(n.map_status, ip, 0)
<1>1. msg.sender_ip = ip /\ msg.sender_eth = j BY DEF ArpMessage
<1>2. ip \in Address BY NetworkAssumption
<1>3. /\ DOMAIN n.addr_map \subseteq Address /\ n.addr_map \in [DOMAIN n.addr_map -> Ifc]
      /\ DOMAIN n.map_status \subseteq Address /\ n.map_status \in [DOMAIN n.map_status -> Int]
      /\ MappingOf(n)
  BY StateFacts
<1>4. n \in Interface(i, O, D) BY DEF State
<1>5. Learn(n, msg) = [ n EXCEPT !.addr_map = am, !.map_status = ms ]
  BY <1>1 DEF Learn
<1> HIDE DEF ip
<1>6. am \in AddrMap
  <2>1. am \in [DOMAIN n.addr_map \cup {ip} -> Ifc] BY <1>3 DEF Put
  <2>2. DOMAIN n.addr_map \cup {ip} \in SUBSET Address BY <1>2, <1>3
  <2> HIDE DEF am
  <2> QED BY <2>1, <2>2 DEF AddrMap
<1>7. ms \in MapStatus
  <2>1. ms \in [DOMAIN n.map_status \cup {ip} -> Int] BY <1>3 DEF Put
  <2>2. DOMAIN n.map_status \cup {ip} \in SUBSET Address BY <1>2, <1>3
  <2> HIDE DEF ms
  <2> QED BY <2>1, <2>2 DEF MapStatus
<1>8. /\ DOMAIN am = DOMAIN n.addr_map \cup {ip} /\ am[ip] = j
      /\ \A a \in DOMAIN n.addr_map : a # ip => am[a] = n.addr_map[a]
      /\ DOMAIN ms = DOMAIN n.map_status \cup {ip} /\ ms[ip] = 0
      /\ \A a \in DOMAIN n.map_status : a # ip => ms[a] = n.map_status[a]
  BY DEF Put
<1> HIDE DEF am, ms
<1>9. DOMAIN am = { a \in DOMAIN ms : ms[a] >= 0 }
  <2>1. DOMAIN n.addr_map = { a \in DOMAIN n.map_status : n.map_status[a] >= 0 }
    BY <1>3 DEF MappingOf
  <2>2. 0 >= 0 OBVIOUS
  <2>3. \A a \in DOMAIN ms : ms[a] >= 0 <=> a \in DOMAIN am BY <1>8, <2>1, <2>2
  <2> QED BY <1>8, <2>1, <2>3
<1>10. \A a \in DOMAIN am : Ip[am[a]] = a
  <2>1. Ip[j] = ip BY DEF ip
  <2> QED BY <1>3, <1>8, <2>1 DEF MappingOf
<1>11. [ n EXCEPT !.addr_map = am, !.map_status = ms ] \in State(i, O, D)
  BY <1>6, <1>7, <1>9, <1>10, WithMaps
<1> QED BY <1>5, <1>11

LEMMA AnswerState ==
  ASSUME NEW i \in Ifc, NEW O \in SUBSET Cell, NEW D, NEW n \in State(i, O, D),
         NEW j \in Ifc, NEW msg \in ArpMessage(j)
  PROVE  Answer(n, msg) \in State(i, O, D)
<1> DEFINE body == [ opcode |-> "reply", sender_eth |-> n.ethernet_address,
                     sender_ip |-> n.ip_address, target_ip |-> msg.sender_ip ]
<1>1. msg.sender_ip = Ip[j] /\ msg.sender_eth = j BY DEF ArpMessage
<1>2. Ip[j] \in Address BY NetworkAssumption
<1>3. n.ethernet_address = i /\ n.ip_address = Ip[i] BY StateFacts
<1>4. body \in ArpMessage(i) BY <1>1, <1>2, <1>3 DEF ArpMessage
<1>5. Answer(n, msg) = IF msg.opcode = "request" /\ msg.target_ip = n.ip_address
                         THEN PushFrame(n, "arp", j, body) ELSE n
  BY <1>1 DEF Answer
<1> HIDE DEF body
<1>6. PushFrame(n, "arp", j, body) \in State(i, O, D) BY <1>4, PushArp
<1> QED BY <1>5, <1>6

LEMMA HandUpState ==
  ASSUME NEW i \in Ifc, NEW O \in SUBSET Cell, NEW D, NEW n \in State(i, O, D), NEW d \in D
  PROVE  HandUp(n, d) \in State(i, O, D)
<1> DEFINE q == Append(n.datagrams_out, d)
<1>1. n.datagrams_out \in Seq(D) BY StateFacts
<1>2. q \in Seq(D) BY <1>1, AppendProperties
<1>3. HandUp(n, d) = [ n EXCEPT !.datagrams_out = q ] BY DEF HandUp
<1> HIDE DEF q
<1> QED BY <1>2, <1>3, WithDatagrams

\* A frame of interface j, if what j sends to i is what i may receive.
LEMMA ReceiveState ==
  ASSUME NEW i \in Ifc, NEW O \in SUBSET Cell, NEW D, NEW n \in State(i, O, D),
         NEW j \in Ifc, NEW Oj \in SUBSET Cell, NEW frame \in FrameOf(j, Oj),
         \A c \in Oj : c.hop = Ip[i] => c.dgram \in D
  PROVE  recv_frame(n, frame) \in State(i, O, D)
<1>1. n.ethernet_address = i BY StateFacts
<1>2. CASE frame \in IpFrame(Oj)
  <2>1. /\ frame.type = "ip" /\ frame.type # "arp"
        /\ [ hop |-> Ip[frame.dst], dgram |-> frame.body ] \in Oj
    BY <1>2 DEF IpFrame
  <2>2. CASE frame.dst = i
    <3>1. frame.body \in D BY <2>1, <2>2
    <3> QED BY <1>1, <2>1, <2>2, <3>1, HandUpState DEF recv_frame
  <2>3. CASE frame.dst # i BY <1>1, <2>1, <2>3, SendStageState DEF recv_frame
  <2> QED BY <2>2, <2>3
<1>3. CASE frame \in ArpFrame(j)
  <2> DEFINE m == Learn(n, frame.body)
  <2>1. frame.type = "arp" /\ frame.type # "ip" /\ frame.body \in ArpMessage(j)
    BY <1>3 DEF ArpFrame
  <2>2. m \in State(i, O, D) BY <2>1, LearnState
  <2>3. Answer(m, frame.body) \in State(i, O, D)
    <3> HIDE DEF m
    <3> QED BY <2>1, <2>2, AnswerState
  <2>4. send_stage_datagram(Answer(m, frame.body)) \in State(i, O, D)
    BY <2>3, SendStageState
  <2> QED BY <2>1, <2>4 DEF recv_frame
<1> QED BY <1>2, <1>3 DEF FrameOf

\* Forgetting some keys and giving the others an age of the same sign.
LEMMA ExpireState ==
  ASSUME NEW i \in Ifc, NEW O \in SUBSET Cell, NEW D, NEW n \in State(i, O, D),
         NEW keys \in SUBSET DOMAIN n.map_status,
         NEW st \in [DOMAIN n.map_status \ keys -> Int],
         \A k \in DOMAIN st : st[k] >= 0 <=> n.map_status[k] >= 0
  PROVE  [ Expire(n, keys) EXCEPT !.map_status = st ] \in State(i, O, D)
<1> DEFINE known == { k \in keys : n.map_status[k] >= 0 }
           am    == Erase(n.addr_map, known)
<1>1. /\ DOMAIN n.addr_map \subseteq Address /\ n.addr_map \in [DOMAIN n.addr_map -> Ifc]
      /\ DOMAIN n.map_status \subseteq Address /\ MappingOf(n)
  BY StateFacts
<1>2. n \in Interface(i, O, D) BY DEF State
<1>3. [ Expire(n, keys) EXCEPT !.map_status = st ] = [ n EXCEPT !.addr_map = am, !.map_status = st ]
  <2> DEFINE er == Erase(n.map_status, keys)
             p  == [ n EXCEPT !.addr_map = am ]
  <2>1. Expire(n, keys) = [ n EXCEPT !.map_status = er, !.addr_map = am ] BY DEF Expire
  <2> HIDE DEF er, am
  <2> QED BY <1>2, <2>1 DEF Interface
<1>4. DOMAIN am = DOMAIN n.addr_map \ known /\ \A a \in DOMAIN am : am[a] = n.addr_map[a]
  BY DEF Erase
<1>5. am \in AddrMap
  <2>1. am \in [DOMAIN n.addr_map \ known -> Ifc] BY <1>1 DEF Erase
  <2>2. DOMAIN n.addr_map \ known \in SUBSET Address BY <1>1
  <2> HIDE DEF am, known
  <2> QED BY <2>1, <2>2 DEF AddrMap
<1>6. st \in MapStatus
  <2>1. DOMAIN n.map_status \ keys \in SUBSET Address BY <1>1
  <2> QED BY <2>1 DEF MapStatus
<1> HIDE DEF am
<1>7. DOMAIN am = { a \in DOMAIN st : st[a] >= 0 }
  <2>1. DOMAIN n.addr_map = { a \in DOMAIN n.map_status : n.map_status[a] >= 0 }
    BY <1>1 DEF MappingOf
  <2>2. DOMAIN st = DOMAIN n.map_status \ keys OBVIOUS
  <2> QED BY <1>4, <2>1, <2>2
<1>8. \A a \in DOMAIN am : Ip[am[a]] = a BY <1>1, <1>4 DEF MappingOf
<1>9. [ n EXCEPT !.addr_map = am, !.map_status = st ] \in State(i, O, D)
  BY <1>5, <1>6, <1>7, <1>8, WithMaps
<1> QED BY <1>3, <1>9

\* Time passes: the mappings left are those that have not expired, whichever
\* keys the loop reaches.
LEMMA TickState ==
  ASSUME NEW i \in Ifc, NEW O \in SUBSET Cell, NEW D, NEW n \in State(i, O, D),
         NEW ms \in Nat, NEW m \in tick(n, ms)
  PROVE  m \in State(i, O, D)
<1> DEFINE aged    == [ k \in DOMAIN n.map_status |-> Aged(n.map_status[k], ms) ]
           expired == { k \in DOMAIN aged : aged[k] >= MAPPING_TTL \/ aged[k] <= -(REQUEST_TTL + 1) }
           early(last) == { k \in expired : k <= last }
           some(last)  == [ k \in DOMAIN n.map_status \ early(last) |->
                              IF k <= last THEN aged[k] ELSE n.map_status[k] ]
           every       == [ k \in DOMAIN n.map_status \ expired |-> aged[k] ]
           upto(last)  == [ Expire(n, early(last)) EXCEPT !.map_status = some(last) ]
           all         == [ Expire(n, expired) EXCEPT !.map_status = every ]
           crash       == [ n EXCEPT !.failure = "crash" ]
<1>1. n.map_status \in [DOMAIN n.map_status -> Int] /\ n \in Interface(i, O, D)
  BY StateFacts DEF State
<1>2. aged \in [DOMAIN n.map_status -> Int]
      /\ \A k \in DOMAIN n.map_status : aged[k] >= 0 <=> n.map_status[k] >= 0
  BY <1>1 DEF Aged
<1>3. expired \in SUBSET DOMAIN n.map_status OBVIOUS
<1>4. m \in { send_stage_datagram(x) : x \in { upto(k) : k \in expired } \cup {all} } \cup {crash}
  <2>1. \A keys \in SUBSET DOMAIN n.map_status :
          Expire(n, keys).map_status = [ k \in DOMAIN n.map_status \ keys |-> n.map_status[k] ]
    BY <1>1 DEF Expire, Erase, Interface
  <2>2. \A last \in expired :
          upto(last) = [ Expire(n, { k \in expired : k <= last }) EXCEPT
                           !.map_status = [ k \in DOMAIN @ |-> IF k <= last THEN aged[k] ELSE @[k] ] ]
    <3> TAKE last \in expired
    <3> DEFINE e == Expire(n, { k \in expired : k <= last })
    <3>1. e.map_status = [ k \in DOMAIN n.map_status \ early(last) |-> n.map_status[k] ] BY <1>3, <2>1
    <3>2. [ k \in DOMAIN e.map_status |-> IF k <= last THEN aged[k] ELSE e.map_status[k] ] = some(last)
      <4> HIDE DEF e, aged, expired
      <4> QED BY <3>1
    <3>3. upto(last) = [ e EXCEPT !.map_status = some(last) ] OBVIOUS
    <3> HIDE DEF upto, some
    <3> QED BY <3>2, <3>3
  <2>3. all = [ Expire(n, expired) EXCEPT !.map_status = [ k \in DOMAIN @ |-> aged[k] ] ]
    <3>1. DOMAIN Expire(n, expired).map_status = DOMAIN n.map_status \ expired BY <1>3, <2>1
    <3> QED BY <3>1
  <2> DEFINE raw(last) == [ Expire(n, { k \in expired : k <= last }) EXCEPT
                             !.map_status = [ k \in DOMAIN @ |-> IF k <= last THEN aged[k] ELSE @[k] ] ]
             rawall    == [ Expire(n, expired) EXCEPT !.map_status = [ k \in DOMAIN @ |-> aged[k] ] ]
  <2>4. m \in { send_stage_datagram(x) : x \in { raw(last) : last \in expired } \cup {rawall} }
              \cup {crash}
    BY DEF tick
  <2>5. (\A last \in expired : upto(last) = raw(last)) /\ all = rawall BY <2>2, <2>3
  <2> HIDE DEF upto, all, crash, aged, expired, raw, rawall
  <2> QED BY <2>4, <2>5
<1>5. \A k \in expired : upto(k) \in State(i, O, D)
  <2> TAKE last \in expired
  <2>1. early(last) \in SUBSET DOMAIN n.map_status BY <1>3
  <2>2. some(last) \in [DOMAIN n.map_status \ early(last) -> Int]
    <3> HIDE DEF aged, expired
    <3> QED BY <1>1, <1>2
  <2>3. \A k \in DOMAIN some(last) : some(last)[k] >= 0 <=> n.map_status[k] >= 0
    <3> HIDE DEF aged, expired
    <3> QED BY <1>2
  <2> HIDE DEF some, early
  <2> QED BY <2>1, <2>2, <2>3, ExpireState
<1>6. all \in State(i, O, D)
  <2>1. every \in [DOMAIN n.map_status \ expired -> Int] BY <1>2
  <2>2. \A k \in DOMAIN every : every[k] >= 0 <=> n.map_status[k] >= 0 BY <1>2
  <2> HIDE DEF every, expired
  <2> QED BY <1>3, <2>1, <2>2, ExpireState
<1>7. crash \in State(i, O, D) BY WithFailure
<1> HIDE DEF upto, all, crash, expired
<1> QED BY <1>4, <1>5, <1>6, <1>7, SendStageState

-----------------------------------------------------------------------------
\* The sequences of a sequence, one after the other.
LEMMA FlattenTyped ==
  ASSUME NEW R, NEW seqs \in Seq(Seq(R))
  PROVE  FlattenSeq(seqs) \in Seq(R)
<1> DEFINE n == Len(seqs)
           Raw(f) == f = [ i \in 1..n |-> IF i = 1 THEN seqs[i] ELSE f[i - 1] \o seqs[i] ]
           A == Seq(R)
<1>1. n \in Nat /\ \A i \in 1..n : seqs[i] \in A BY LenProperties, ElementOfSeq
<1>2. CASE n = 0
  <2>1. seqs = <<>> BY <1>2, EmptySeq
  <2> QED BY <1>2, <2>1 DEF FlattenSeq
<1>3. CASE n # 0
  <2>1. FlattenSeq(seqs) = (CHOOSE f : Raw(f))[n] BY <1>3, ZenonT(30) DEF FlattenSeq
  <2> HIDE DEF n
  <2>2. n - 1 \in Nat /\ 1 \in 1..n BY <1>1, <1>3
  <2> DEFINE m == n - 1
             step == [ k \in 1..m |-> [ x \in A |-> x \o seqs[k + 1] ] ]
  <2>3. \A k \in 1..m, x \in A : x \o seqs[k + 1] \in A
    <3> TAKE k \in 1..m, x \in A
    <3>1. k + 1 \in 1..n BY <1>1
    <3>2. seqs[k + 1] \in A BY <1>1, <3>1
    <3> QED BY <3>2, ConcatProperties
  <2>4. seqs[1] \in A BY <1>1, <2>2
  <2>5. step \in [1..m -> [A -> A]] BY <2>3
  <2> HIDE DEF step, A
  <2>6. PICK g \in [0..m -> A] : Iterates(g, m, seqs[1], step)
    BY <2>2, <2>4, <2>5, IterationExists
  <2> DEFINE f == [ i \in 1..n |-> g[i - 1] ]
  <2>7. Raw(f)
    <3>1. ASSUME NEW i \in 1..n
          PROVE  f[i] = IF i = 1 THEN seqs[i] ELSE f[i - 1] \o seqs[i]
      <4>1. i - 1 \in 0..m /\ f[i] = g[i - 1] BY <1>1
      <4>2. CASE i = 1
        <5>1. g[0] = seqs[1]
          <6>1. 0 \in 0..m BY <2>2
          <6> QED BY <2>6, <6>1 DEF Iterates
        <5> QED BY <4>1, <4>2, <5>1
      <4>3. CASE i # 1
        <5>1. i - 1 \in 1..m /\ i - 1 \in 1..n /\ (i - 1) - 1 \in 0..m /\ (i - 1) + 1 = i
              /\ i - 1 # 0
          BY <1>1, <4>3
        <5>2. g[i - 1] = step[i - 1][g[(i - 1) - 1]] BY <2>6, <4>1, <5>1 DEF Iterates
        <5>3. step[i - 1][g[(i - 1) - 1]] = g[(i - 1) - 1] \o seqs[i]
          <6>1. g[(i - 1) - 1] \in A BY <5>1
          <6> QED BY <5>1, <6>1 DEF step
        <5>4. f[i - 1] = g[(i - 1) - 1] BY <5>1
        <5> QED BY <4>1, <4>3, <5>2, <5>3, <5>4
      <4> QED BY <4>2, <4>3
    <3> HIDE DEF f
    <3>2. \A i \in 1..n : f[i] = IF i = 1 THEN seqs[i] ELSE f[i - 1] \o seqs[i] BY <3>1
    <3>3. f = [ i \in 1..n |-> f[i] ] BY DEF f
    <3> QED BY <3>2, <3>3
  <2> HIDE DEF f
  <2> DEFINE h == CHOOSE x : Raw(x)
  <2>8. Raw(h) BY <2>7
  <2> HIDE DEF h
  <2> DEFINE S == { k \in 0..m : h[k + 1] \in A }
  <2>9. 0 \in S
    <3>1. h[1] = seqs[1] BY <2>2, <2>8
    <3> QED BY <2>2, <2>4, <3>1
  <2>10. ASSUME NEW k \in 0..(m - 1), k \in S PROVE k + 1 \in S
    <3>1. /\ (k + 1) + 1 \in 1..n /\ (k + 1) + 1 # 1 /\ ((k + 1) + 1) - 1 = k + 1
          /\ k + 1 \in 1..m /\ k + 1 \in 0..m
      BY <1>1, <2>2
    <3>2. h[(k + 1) + 1] = h[k + 1] \o seqs[(k + 1) + 1] BY <2>8, <3>1
    <3>3. seqs[(k + 1) + 1] \in A BY <1>1, <3>1
    <3>4. h[k + 1] \in A BY <2>10
    <3>5. h[k + 1] \o seqs[(k + 1) + 1] \in A BY <3>3, <3>4, ConcatProperties DEF A
    <3> QED BY <3>1, <3>2, <3>5
  <2> HIDE DEF S, Raw, m
  <2>11. \A k \in 0..m : k \in S BY <2>2, <2>9, <2>10, UpToInduction DEF m
  <2>12. m \in S /\ m + 1 = n BY <2>2, <2>11, <1>1 DEF m
  <2> QED BY <2>1, <2>12 DEF S, A, h
<1> QED BY <1>2, <1>3

-----------------------------------------------------------------------------
\* All interfaces: OO and DD say of each what it may send and receive.
Bounds(OO, DD) == OO \in [Ifc -> SUBSET Cell] /\ DD \in [Ifc -> SUBSET Datagram]

Ifcs(OO, DD) ==
    { f \in [ Ifc -> UNION { State(i, OO[i], DD[i]) : i \in Ifc } ] :
        \A i \in Ifc : f[i] \in State(i, OO[i], DD[i]) }

\* What an interface sends to another on its link is what that one may receive.
Deliverable(OO, DD) ==
    \A i \in Ifc : \A j \in Ifc \ {i} : j \in LinkOf(i) =>
        \A c \in OO[i] : c.hop = Ip[j] => c.dgram \in DD[j]

NextHopOf(rs, idx, dst) ==
    IF rs[idx].next_hop = {} THEN dst ELSE CHOOSE h \in rs[idx].next_hop : TRUE

\* What the router makes of the datagrams in R is what its interfaces may send.
Forwards(rs, R, OO) ==
    \A d \in R :
        d.ttl > 1 /\ find_longest_prefix(rs, d.dst) # 0 =>
          [ hop |-> NextHopOf(rs, find_longest_prefix(rs, d.dst), d.dst),
            dgram |-> Forwarded(d) ] \in OO[rs[find_longest_prefix(rs, d.dst)].interface]

LEMMA OneChanged ==
  ASSUME NEW OO, NEW DD, NEW f \in Ifcs(OO, DD), NEW i \in Ifc,
         NEW n \in State(i, OO[i], DD[i])
  PROVE  [ f EXCEPT ![i] = n ] \in Ifcs(OO, DD)
BY DEF Ifcs

LEMMA IfcsFacts ==
  ASSUME NEW OO, NEW DD, NEW f \in Ifcs(OO, DD)
  PROVE  DOMAIN f = Ifc /\ \A i \in Ifc : f[i] \in State(i, OO[i], DD[i])
BY DEF Ifcs

LEMMA IfcsTyped ==
  ASSUME NEW OO, NEW DD, NEW f, DOMAIN f = Ifc, f = [ i \in Ifc |-> f[i] ],
         \A i \in Ifc : f[i] \in State(i, OO[i], DD[i])
  PROVE  f \in Ifcs(OO, DD)
<1>1. \A i \in Ifc : f[i] \in UNION { State(j, OO[j], DD[j]) : j \in Ifc } OBVIOUS
<1>2. f \in [ Ifc -> UNION { State(i, OO[i], DD[i]) : i \in Ifc } ] BY <1>1
<1> QED BY <1>2 DEF Ifcs

LEMMA RouteOneState ==
  ASSUME NEW OO, NEW DD, Bounds(OO, DD), NEW rs \in RouteTable,
         NEW R \in SUBSET Datagram, Forwards(rs, R, OO),
         NEW f \in Ifcs(OO, DD), NEW d \in R
  PROVE  route_one_datagram(f, rs, d) \in Ifcs(OO, DD)
<1> DEFINE idx == find_longest_prefix(rs, d.dst)
           out == rs[idx].interface
           hop == NextHopOf(rs, idx, d.dst)
           n   == send_datagram(f[out], Forwarded(d), hop)
<1>1. d.dst \in Address BY DEF Datagram
<1>2. CASE d.ttl <= 1 \/ idx = 0
  <2>1. route_one_datagram(f, rs, d) = f BY <1>2, ZenonT(30) DEF route_one_datagram
  <2> QED BY <2>1
<1>3. CASE ~(d.ttl <= 1 \/ idx = 0)
  <2>1. d.ttl > 1 /\ idx # 0
    <3>1. d.ttl \in Int BY DEF Datagram
    <3> HIDE DEF idx
    <3> QED BY <1>3, <3>1
  <2>2. [ hop |-> hop, dgram |-> Forwarded(d) ] \in OO[out] BY <2>1 DEF Forwards
  <2>3. idx \in DOMAIN rs BY <1>1, <2>1, FindFacts
  <2>4. out \in ToSet(RouterIfcs)
    <3> HIDE DEF idx
    <3> QED BY <2>3, RouteFacts
  <2>5. out \in Ifc BY <2>4 DEF Ifc
  <2>6. route_one_datagram(f, rs, d) = [ f EXCEPT ![out] = n ]
    BY <1>3, ZenonT(30) DEF route_one_datagram, NextHopOf
  <2> HIDE DEF idx, out, hop
  <2>7. f[out] \in State(out, OO[out], DD[out]) BY <2>5, IfcsFacts
  <2>8. OO[out] \in SUBSET Cell BY <2>5 DEF Bounds
  <2>9. n \in State(out, OO[out], DD[out]) BY <2>2, <2>5, <2>7, <2>8, SendState
  <2> HIDE DEF n
  <2>10. [ f EXCEPT ![out] = n ] \in Ifcs(OO, DD) BY <2>5, <2>9, OneChanged
  <2> QED BY <2>6, <2>10, ZenonT(30)
<1> QED BY <1>2, <1>3

\* Routing the datagrams one after the other.
LEMMA RouteAllState ==
  ASSUME NEW OO, NEW DD, Bounds(OO, DD), NEW rs \in RouteTable,
         NEW R \in SUBSET Datagram, Forwards(rs, R, OO),
         NEW f \in Ifcs(OO, DD), NEW ds \in Seq(R)
  PROVE  FoldLeft(LAMBDA acc, d : route_one_datagram(acc, rs, d), f, ds) \in Ifcs(OO, DD)
<1> DEFINE n == Len(ds)
           A == Ifcs(OO, DD)
           Raw(g) == g = [ s \in SUBSET (1..n) |->
                             IF s = {} THEN f
                             ELSE LET x == Max(s)
                                  IN  route_one_datagram(g[s \ {x}], rs, ds[x]) ]
           step == [ k \in 1..n |-> [ x \in A |-> route_one_datagram(x, rs, ds[k]) ] ]
<1>1. n \in Nat /\ DOMAIN ds = 1..n /\ \A k \in 1..n : ds[k] \in R
  BY LenProperties, ElementOfSeq
<1>2. FoldLeft(LAMBDA acc, d : route_one_datagram(acc, rs, d), f, ds)
        = (CHOOSE g : Raw(g))[1..n]
  <2>1. FoldLeft(LAMBDA acc, d : route_one_datagram(acc, rs, d), f, ds)
          = (CHOOSE g : g = [ s \in SUBSET DOMAIN ds |->
                               IF s = {} THEN f
                               ELSE LET x == Max(s)
                                    IN  route_one_datagram(g[s \ {x}], rs, ds[x]) ])[DOMAIN ds]
    BY DEF FoldLeft, MapThenFoldSet
  <2> HIDE DEF n
  <2> QED BY <1>1, <2>1
<1> HIDE DEF n
<1>3. \A k \in 1..n, x \in A : route_one_datagram(x, rs, ds[k]) \in A
  BY <1>1, RouteOneState
<1>4. step \in [1..n -> [A -> A]] BY <1>3
<1> HIDE DEF step, A
<1>5. f \in A BY DEF A
<1>6. PICK g \in [SUBSET (1..n) -> A] : Folding(g, n, f, step)
  BY <1>1, <1>4, <1>5, FoldExists
<1>7. Raw(g)
  <2>1. ASSUME NEW s \in SUBSET (1..n)
        PROVE  g[s] = IF s = {} THEN f ELSE route_one_datagram(g[s \ {Max(s)}], rs, ds[Max(s)])
    <3>1. g[s] = IF s = {} THEN f ELSE step[Max(s)][g[s \ {Max(s)}]] BY <1>6 DEF Folding
    <3>2. CASE s = {} BY <3>1, <3>2
    <3>3. CASE s # {}
      <4>1. Max(s) \in 1..n /\ s \ {Max(s)} \in SUBSET (1..n) BY <1>1, <3>3, MaxFacts
      <4>2. g[s \ {Max(s)}] \in A BY <4>1
      <4> QED BY <3>1, <3>3, <4>1, <4>2 DEF step
    <3> QED BY <3>2, <3>3
  <2>2. g = [ s \in SUBSET (1..n) |-> g[s] ] OBVIOUS
  <2>3. g = [ s \in SUBSET (1..n) |-> IF s = {} THEN f
                ELSE route_one_datagram(g[s \ {Max(s)}], rs, ds[Max(s)]) ]
    BY <2>1, <2>2
  <2> QED BY <2>3, ZenonT(30)
<1> DEFINE h == CHOOSE x : Raw(x)
<1>8. Raw(h) BY <1>7
<1> HIDE DEF h
<1> DEFINE S == { k \in 0..n : h[1..k] \in A }
<1>9. 0 \in S
  <2>1. 1..0 = {} /\ {} \in SUBSET (1..n) /\ 0 \in 0..n BY <1>1
  <2>2. h[{}] = f BY <1>8, <2>1
  <2> QED BY <1>5, <2>1, <2>2
<1>10. ASSUME NEW k \in 0..(n - 1), k \in S PROVE k + 1 \in S
  <2>1. k + 1 \in 1..n /\ k + 1 \in 0..n /\ (k + 1) - 1 = k /\ k + 1 \in Nat /\ k + 1 > 0
    BY <1>1
  <2>2. 1..(k + 1) # {} /\ Max(1..(k + 1)) = k + 1 /\ (1..(k + 1)) \ {k + 1} = 1..k
    BY <2>1, MaxUpTo
  <2>3. 1..(k + 1) \in SUBSET (1..n) BY <1>1, <2>1
  <2>4. h[1..(k + 1)] = route_one_datagram(h[1..k], rs, ds[k + 1])
    <3> DEFINE s == 1..(k + 1)
    <3>1. h[s] = route_one_datagram(h[s \ {Max(s)}], rs, ds[Max(s)])
      <4> HIDE DEF s
      <4>1. s \in SUBSET (1..n) /\ s # {} BY <2>2, <2>3 DEF s
      <4> QED BY <1>8, <4>1
    <3> QED BY <2>2, <3>1
  <2>5. h[1..k] \in A BY <1>10
  <2> QED BY <1>3, <2>1, <2>4, <2>5
<1> HIDE DEF S, Raw
<1>11. \A k \in 0..n : k \in S BY <1>1, <1>9, <1>10, UpToInduction
<1>12. n \in S BY <1>1, <1>11
<1> QED BY <1>2, <1>12 DEF S, A, h

\* Routing everything the router's interfaces have received.
LEMMA RouteState ==
  ASSUME NEW OO, NEW DD, Bounds(OO, DD), NEW rs \in RouteTable,
         NEW R \in SUBSET Datagram, Forwards(rs, R, OO),
         \A i \in ToSet(RouterIfcs) : DD[i] \subseteq R,
         NEW f \in Ifcs(OO, DD)
  PROVE  route(f, RouterIfcs, rs) \in Ifcs(OO, DD)
<1> DEFINE queues  == [ k \in DOMAIN RouterIfcs |-> f[RouterIfcs[k]].datagrams_out ]
           received == FlattenSeq(queues)
           emptied == [ i \in DOMAIN f |-> IF i \in ToSet(RouterIfcs)
                                            THEN [ f[i] EXCEPT !.datagrams_out = <<>> ] ELSE f[i] ]
<1>1. RouterIfcs \in Seq(ToSet(RouterIfcs)) BY NetworkAssumption
<1>2. Len(RouterIfcs) \in Nat /\ DOMAIN RouterIfcs = 1..Len(RouterIfcs)
      /\ \A k \in 1..Len(RouterIfcs) : RouterIfcs[k] \in ToSet(RouterIfcs)
  BY <1>1, LenProperties, ElementOfSeq
<1>3. ASSUME NEW k \in 1..Len(RouterIfcs) PROVE queues[k] \in Seq(R)
  <2>1. RouterIfcs[k] \in Ifc BY <1>2 DEF Ifc
  <2>2. f[RouterIfcs[k]].datagrams_out \in Seq(DD[RouterIfcs[k]])
    BY <2>1, IfcsFacts, StateFacts
  <2>3. DD[RouterIfcs[k]] \subseteq R BY <1>2
  <2>4. f[RouterIfcs[k]].datagrams_out \in Seq(R) BY <2>2, <2>3
  <2> QED BY <1>2, <2>4
<1>4. queues \in Seq(Seq(R))
  <2>1. queues \in [1..Len(RouterIfcs) -> Seq(R)] BY <1>2, <1>3
  <2> HIDE DEF queues
  <2> QED BY <1>2, <2>1, SeqDef
<1>5. received \in Seq(R)
  <2> HIDE DEF queues
  <2> QED BY <1>4, FlattenTyped
<1>6. emptied \in Ifcs(OO, DD)
  <2>1. DOMAIN f = Ifc /\ \A i \in Ifc : f[i] \in State(i, OO[i], DD[i]) BY IfcsFacts
  <2>2. ASSUME NEW i \in Ifc PROVE emptied[i] \in State(i, OO[i], DD[i])
    <3>1. <<>> \in Seq(DD[i]) OBVIOUS
    <3>2. [ f[i] EXCEPT !.datagrams_out = <<>> ] \in State(i, OO[i], DD[i])
      BY <2>1, <3>1, WithDatagrams
    <3> QED BY <2>1, <3>2
  <2>3. DOMAIN emptied = Ifc BY <2>1
  <2>4. emptied = [ i \in Ifc |-> emptied[i] ] BY <2>1
  <2> HIDE DEF emptied
  <2> QED BY <2>2, <2>3, <2>4, IfcsTyped
<1>7. route(f, RouterIfcs, rs)
        = FoldLeft(LAMBDA acc, d : route_one_datagram(acc, rs, d), emptied, received)
  BY DEF route
<1> HIDE DEF emptied, received
<1> QED BY <1>5, <1>6, <1>7, RouteAllState

-----------------------------------------------------------------------------
\* One step of the network.
LEMMA DeliveredState ==
  ASSUME NEW OO, NEW DD, Bounds(OO, DD), Deliverable(OO, DD), ifcs \in Ifcs(OO, DD),
         NEW i \in Ifc, ifcs[i].frames_out # <<>>
  PROVE  Delivered(i) \in Ifcs(OO, DD)
<1> DEFINE f == ifcs[i].frames_out
<1>1. \A j \in Ifc : ifcs[j] \in State(j, OO[j], DD[j]) BY IfcsFacts
<1>2. f \in Seq(FrameOf(i, OO[i])) BY <1>1, StateFacts
<1>3. Head(f) \in FrameOf(i, OO[i]) /\ Tail(f) \in Seq(FrameOf(i, OO[i]))
  <2> HIDE DEF f
  <2>1. f # <<>> BY DEF f
  <2> QED BY <1>2, <2>1, HeadTailProperties
<1>4. ASSUME NEW j \in Ifc PROVE Delivered(i)[j] \in State(j, OO[j], DD[j])
  <2> DEFINE q == Tail(f)
             here == [ ifcs[i] EXCEPT !.frames_out = q ]
             there == recv_frame(ifcs[j], Head(f))
  <2>1. Delivered(i)[j] = IF j = i THEN here ELSE IF j \in LinkOf(i) THEN there ELSE ifcs[j]
    BY DEF Delivered
  <2>2. here \in State(i, OO[i], DD[i])
    <3>1. q \in Seq(FrameOf(i, OO[i])) BY <1>3
    <3> HIDE DEF q
    <3> QED BY <1>1, <3>1, WithFrames
  <2>3. ASSUME j # i, j \in LinkOf(i) PROVE there \in State(j, OO[j], DD[j])
    <3>1. \A c \in OO[i] : c.hop = Ip[j] => c.dgram \in DD[j] BY <2>3 DEF Deliverable
    <3>2. OO[i] \in SUBSET Cell /\ OO[j] \in SUBSET Cell BY DEF Bounds
    <3>3. Head(f) \in FrameOf(i, OO[i]) BY <1>3
    <3> HIDE DEF f
    <3> QED BY <1>1, <3>1, <3>2, <3>3, ReceiveState
  <2> HIDE DEF here, there
  <2> QED BY <1>1, <2>1, <2>2, <2>3
<1>5. DOMAIN Delivered(i) = Ifc /\ Delivered(i) = [ j \in Ifc |-> Delivered(i)[j] ]
  BY DEF Delivered
<1> QED BY <1>4, <1>5, IfcsTyped

\* The steps of Next keep the interfaces within bounds that allow what hosts
\* send and what the router forwards.
Permitted(OO, DD, R) ==
    /\ Bounds(OO, DD) /\ Deliverable(OO, DD)
    /\ R \in SUBSET Datagram /\ Forwards(routes, R, OO)
    /\ \A i \in ToSet(RouterIfcs) : DD[i] \subseteq R

Original(t) == [ id |-> t.id, dst |-> t.dst, ttl |-> t.ttl ]

LEMMA NetworkStep ==
  ASSUME NEW OO, NEW DD, NEW R, Permitted(OO, DD, R), routes \in RouteTable,
         ifcs \in Ifcs(OO, DD), [Next]_vars,
         \A t \in Traffic : HostSends(t) =>
            [ hop |-> NextHop[t.from], dgram |-> Original(t) ] \in OO[t.from]
  PROVE  ifcs' \in Ifcs(OO, DD)
<1>1. /\ Bounds(OO, DD) /\ Deliverable(OO, DD)
      /\ R \in SUBSET Datagram /\ Forwards(routes, R, OO)
      /\ \A i \in ToSet(RouterIfcs) : DD[i] \subseteq R
  BY DEF Permitted
<1>2. \A i \in Ifc : ifcs[i] \in State(i, OO[i], DD[i]) BY IfcsFacts
<1>3. \A i \in Ifc : OO[i] \in SUBSET Cell BY <1>1 DEF Bounds
<1>4. ASSUME NEW r \in Candidates, AddRoute(r) PROVE ifcs' \in Ifcs(OO, DD)
  BY <1>4 DEF AddRoute
<1>5. ASSUME NEW t \in Traffic, HostSends(t) PROVE ifcs' \in Ifcs(OO, DD)
  <2> DEFINE h == t.from
             n == send_datagram(ifcs[h], Original(t), NextHop[h])
  <2>1. h \in Ifc BY NetworkAssumption DEF Ifc
  <2>2. ifcs' = [ ifcs EXCEPT ![h] = n ] BY <1>5 DEF HostSends, Original
  <2>3. [ hop |-> NextHop[h], dgram |-> Original(t) ] \in OO[h] BY <1>5
  <2> HIDE DEF h
  <2>4. n \in State(h, OO[h], DD[h]) BY <1>2, <1>3, <2>1, <2>3, SendState
  <2> HIDE DEF n
  <2> QED BY <2>1, <2>2, <2>4, OneChanged
<1>6. ASSUME NEW i \in Ifc, Transfer(i) PROVE ifcs' \in Ifcs(OO, DD)
  BY <1>1, <1>6, DeliveredState DEF Transfer
<1>7. ASSUME NEW i \in Ifc, Lose(i) PROVE ifcs' \in Ifcs(OO, DD)
  <2> DEFINE q == Tail(ifcs[i].frames_out)
             n == [ ifcs[i] EXCEPT !.frames_out = q ]
  <2>1. ifcs[i].frames_out \in Seq(FrameOf(i, OO[i])) BY <1>2, StateFacts
  <2>2. q \in Seq(FrameOf(i, OO[i])) BY <1>7, <2>1, HeadTailProperties DEF Lose
  <2>3. ifcs' = [ ifcs EXCEPT ![i] = n ]
    <3>1. ifcs' = [ ifcs EXCEPT ![i].frames_out = Tail(@) ] BY <1>7 DEF Lose
    <3> QED BY <3>1, ZenonT(30)
  <2> HIDE DEF q
  <2>4. n \in State(i, OO[i], DD[i]) BY <1>2, <2>2, WithFrames
  <2> HIDE DEF n
  <2> QED BY <2>3, <2>4, OneChanged
<1>8. ASSUME NEW i \in Ifc, Tick(i) PROVE ifcs' \in Ifcs(OO, DD)
  <2>1. PICK n \in tick(ifcs[i], 1) : ifcs' = [ ifcs EXCEPT ![i] = n ] BY <1>8 DEF Tick
  <2>2. n \in State(i, OO[i], DD[i]) BY <1>2, <1>3, <2>1, TickState
  <2> QED BY <2>1, <2>2, OneChanged
<1>9. ASSUME Route PROVE ifcs' \in Ifcs(OO, DD)
  BY <1>1, <1>9, RouteState DEF Route
<1>10. ASSUME NEW h \in Hosts, HostChecks(h) PROVE ifcs' \in Ifcs(OO, DD)
  <2> DEFINE n == [ ifcs[h] EXCEPT !.datagrams_out = <<>> ]
  <2>1. h \in Ifc BY DEF Ifc
  <2>2. ifcs' = [ ifcs EXCEPT ![h] = n ]
    <3>1. ifcs' = [ ifcs EXCEPT ![h].datagrams_out = <<>> ] BY <1>10 DEF HostChecks
    <3> QED BY <3>1, ZenonT(30)
  <2>3. <<>> \in Seq(DD[h]) OBVIOUS
  <2>4. n \in State(h, OO[h], DD[h]) BY <1>2, <2>1, <2>3, WithDatagrams
  <2> HIDE DEF n
  <2> QED BY <2>1, <2>2, <2>4, OneChanged
<1>11. ASSUME NEW h \in Hosts, TransferAndRoute(h) PROVE ifcs' \in Ifcs(OO, DD)
  <2>1. h \in Ifc BY DEF Ifc
  <2>2. Delivered(h) \in Ifcs(OO, DD) BY <1>1, <1>11, <2>1, DeliveredState DEF TransferAndRoute
  <2>3. ifcs' = route(Delivered(h), RouterIfcs, routes) BY <1>11 DEF TransferAndRoute
  <2>4. route(Delivered(h), RouterIfcs, routes) \in Ifcs(OO, DD) BY <1>1, <2>2, RouteState
  <2> QED BY <2>3, <2>4
<1>12. CASE UNCHANGED vars BY <1>12 DEF vars
<1> QED BY <1>4, <1>5, <1>6, <1>7, <1>8, <1>9, <1>10, <1>11, <1>12 DEF Next

-----------------------------------------------------------------------------
\* With no bound on what is sent but its type.
Anything == [ i \in Ifc |-> Cell ]
AnyDatagram == [ i \in Ifc |-> Datagram ]

LEMMA AnythingPermitted ==
  ASSUME routes \in RouteTable
  PROVE  Permitted(Anything, AnyDatagram, Datagram)
<1>1. Bounds(Anything, AnyDatagram) BY DEF Bounds, Anything, AnyDatagram
<1>2. Deliverable(Anything, AnyDatagram)
  BY DEF Deliverable, Anything, AnyDatagram, Cell
<1>3. ASSUME NEW d \in Datagram, d.ttl > 1, find_longest_prefix(routes, d.dst) # 0
      PROVE  [ hop |-> NextHopOf(routes, find_longest_prefix(routes, d.dst), d.dst),
               dgram |-> Forwarded(d) ]
               \in Anything[routes[find_longest_prefix(routes, d.dst)].interface]
  <2> DEFINE idx == find_longest_prefix(routes, d.dst)
             hop == NextHopOf(routes, idx, d.dst)
             out == routes[idx].interface
  <2>1. d.dst \in Address BY DEF Datagram
  <2>2. idx \in DOMAIN routes BY <1>3, <2>1, FindFacts
  <2> HIDE DEF idx
  <2>3. out \in Ifc /\ routes[idx].next_hop \in SUBSET Address BY <2>2, RouteFacts DEF Ifc
  <2>4. hop \in Address BY <2>1, <2>3 DEF NextHopOf
  <2>5. Forwarded(d) \in Datagram BY DEF Forwarded, Datagram
  <2> HIDE DEF hop, out
  <2>6. [ hop |-> hop, dgram |-> Forwarded(d) ] \in Anything[out]
    BY <2>3, <2>4, <2>5 DEF Anything, Cell
  <2> QED BY <2>6 DEF idx, hop, out
<1>4. Forwards(routes, Datagram, Anything) BY <1>3 DEF Forwards
<1>5. \A i \in ToSet(RouterIfcs) : AnyDatagram[i] \subseteq Datagram BY DEF AnyDatagram, Ifc
<1> QED BY <1>1, <1>2, <1>4, <1>5 DEF Permitted

LEMMA OriginalTyped ==
  ASSUME NEW t \in Traffic
  PROVE  /\ t.from \in Hosts /\ t.from \in Ifc /\ Original(t) \in Datagram
         /\ [ hop |-> NextHop[t.from], dgram |-> Original(t) ] \in Cell
<1>1. t \in [ id : Nat \ {0}, from : Hosts, dst : Address, ttl : Nat ] BY NetworkAssumption
<1>2. t.from \in Hosts /\ t.id \in Nat /\ t.dst \in Address /\ t.ttl \in Int BY <1>1
<1>3. Original(t) \in Datagram BY <1>2 DEF Original, Datagram
<1>4. NextHop[t.from] \in Address BY <1>2, NetworkAssumption
<1> QED BY <1>2, <1>3, <1>4 DEF Cell, Ifc

LEMMA NetworkTyped == Spec => [](ifcs \in Ifcs(Anything, AnyDatagram))
<1>1. Init => ifcs \in Ifcs(Anything, AnyDatagram)
  <2> SUFFICES ASSUME Init PROVE ifcs \in Ifcs(Anything, AnyDatagram) OBVIOUS
  <2>1. ifcs = [ i \in Ifc |-> NewNetworkInterface(i, Ip[i]) ] BY DEF Init
  <2>2. \A i \in Ifc : ifcs[i] \in State(i, Anything[i], AnyDatagram[i])
    BY <2>1, FreshInterface
  <2>3. DOMAIN ifcs = Ifc /\ ifcs = [ i \in Ifc |-> ifcs[i] ] BY <2>1
  <2> QED BY <2>2, <2>3, IfcsTyped
<1>2. ifcs \in Ifcs(Anything, AnyDatagram) /\ routes \in RouteTable /\ [Next]_vars
        => (ifcs \in Ifcs(Anything, AnyDatagram))'
  <2> SUFFICES ASSUME ifcs \in Ifcs(Anything, AnyDatagram), routes \in RouteTable, [Next]_vars
               PROVE  ifcs' \in Ifcs(Anything, AnyDatagram)
    OBVIOUS
  <2>1. \A t \in Traffic : [ hop |-> NextHop[t.from], dgram |-> Original(t) ] \in Anything[t.from]
    BY OriginalTyped DEF Anything
  <2> QED BY <2>1, AnythingPermitted, NetworkStep
<1> QED BY <1>1, <1>2, TableTyped, PTL DEF Spec

\* Whatever is sent, lost, delayed or expires, an interface knows an address
\* exactly as long as its entry has not expired, and the Ethernet address it
\* knows is that of the owner (recv_frame, tick and send_datagram of
\* network_interface.cc): no datagram is framed for the wrong interface.
THEOREM MappingsAlwaysTrue == Spec => []MappingsTrue
<1>1. ifcs \in Ifcs(Anything, AnyDatagram) => MappingsTrue
  <2> SUFFICES ASSUME ifcs \in Ifcs(Anything, AnyDatagram), NEW i \in Ifc
               PROVE  MappingOf(ifcs[i])
    BY DEF MappingsTrue, MappingOf
  <2>1. ifcs[i] \in State(i, Anything[i], AnyDatagram[i]) BY IfcsFacts
  <2> QED BY <2>1, StateFacts
<1> QED BY <1>1, NetworkTyped, PTL

-----------------------------------------------------------------------------
\* HopFor is the next hop of the route that find_longest_prefix takes.
LEMMA HopForFacts ==
  ASSUME NEW dst \in Address
  PROVE  /\ find_longest_prefix(Table, dst) # 0
              <=> \E k \in DOMAIN Table : Applies(Table[k], dst)
         /\ find_longest_prefix(Table, dst) # 0 =>
              /\ HopFor(dst) = NextHopOf(Table, find_longest_prefix(Table, dst), dst)
              /\ HopFor(dst) \in Address
              /\ Table[find_longest_prefix(Table, dst)].interface \in ToSet(RouterIfcs)
<1> DEFINE idx == find_longest_prefix(Table, dst)
           applicable == { k \in DOMAIN Table : Applies(Table[k], dst) }
           First(k) == \A j \in applicable :
                         Table[j].length < Table[k].length
                         \/ (Table[j].length = Table[k].length /\ k <= j)
           best == CHOOSE k \in applicable : First(k)
<1>1. Table \in RouteTable
  <2>1. Candidates \subseteq RouteSet BY NetworkAssumption DEF RouteSet
  <2>2. Table \in Seq(RouteSet) BY <2>1, NetworkAssumption
  <2> QED BY <2>2 DEF RouteTable
<1>2. /\ idx \in Nat
      /\ idx = 0 => \A k \in DOMAIN Table : ~Applies(Table[k], dst)
      /\ idx # 0 =>
           /\ idx \in DOMAIN Table /\ Applies(Table[idx], dst)
           /\ \A k \in DOMAIN Table : Applies(Table[k], dst) =>
                 \/ Table[k].length < Table[idx].length
                 \/ Table[k].length = Table[idx].length /\ idx <= k
  BY <1>1, FindFacts
<1>3. HopFor(dst) = IF Table[best].next_hop = {} THEN dst
                    ELSE CHOOSE h \in Table[best].next_hop : TRUE
  BY ZenonT(30) DEF HopFor
<1> HIDE DEF idx
<1>4. ASSUME idx # 0 PROVE best = idx
  <2>1. idx \in applicable /\ First(idx) BY <1>2, <1>4
  <2>2. best \in applicable /\ First(best)
    <3> HIDE DEF applicable, First
    <3> QED BY <2>1
  <2>3. /\ best \in DOMAIN Table /\ Applies(Table[best], dst)
        /\ Table[idx].length < Table[best].length
           \/ (Table[idx].length = Table[best].length /\ best <= idx)
        /\ Table[best].length < Table[idx].length
           \/ (Table[best].length = Table[idx].length /\ idx <= best)
    <3> HIDE DEF best
    <3> QED BY <2>1, <2>2
  <2> HIDE DEF best
  <2>4. DOMAIN Table = 1..Len(Table) /\ Len(Table) \in Nat BY <1>1, RouteFacts
  <2>5. best \in Int /\ idx \in Int /\ Table[idx].length \in Int /\ Table[best].length \in Int
    <3>1. idx \in 1..Len(Table) /\ best \in 1..Len(Table) BY <1>2, <1>4, <2>3, <2>4
    <3>2. Table[idx].length \in Nat /\ Table[best].length \in Nat BY <1>1, <3>1, RouteFacts
    <3> QED BY <3>1, <3>2
  <2> QED BY <2>3, <2>5
<1>5. ASSUME idx # 0
      PROVE  HopFor(dst) = NextHopOf(Table, idx, dst) /\ HopFor(dst) \in Address
             /\ Table[idx].interface \in ToSet(RouterIfcs)
  <2>1. HopFor(dst) = NextHopOf(Table, idx, dst) BY <1>3, <1>4, <1>5, ZenonT(30) DEF NextHopOf
  <2>2. idx \in 1..Len(Table) BY <1>1, <1>2, <1>5, RouteFacts
  <2>3. Table[idx].next_hop \in SUBSET Address /\ Table[idx].interface \in ToSet(RouterIfcs)
    BY <1>1, <2>2, RouteFacts
  <2>4. NextHopOf(Table, idx, dst) \in Address BY <2>3 DEF NextHopOf
  <2> QED BY <2>1, <2>3, <2>4
<1>6. idx # 0 <=> \E k \in DOMAIN Table : Applies(Table[k], dst) BY <1>2
<1> QED BY <1>5, <1>6 DEF idx

\* The datagrams on their way when those of s have been sent: hosts send to
\* their gateway what the router is to receive, and the router sends the
\* others, their time to live reduced, to the host they are for.
Originals(s) == { Original(t) : t \in s }
Onward(s)    == { Forwarded(Original(t)) : t \in { u \in s : Routable(u) } }

Sending(s) ==
    [ i \in Ifc |-> IF i \in Hosts THEN { [ hop |-> NextHop[i], dgram |-> d ] : d \in Originals(s) }
                    ELSE { [ hop |-> HopFor(d.dst), dgram |-> d ] : d \in Onward(s) } ]
Getting(s) ==
    [ i \in Ifc |-> IF i \in Hosts THEN { d \in Onward(s) : HopFor(d.dst) = Ip[i] }
                    ELSE Originals(s) ]

LEMMA OnwardFacts ==
  ASSUME NEW s \in SUBSET Traffic, NEW d \in Onward(s)
  PROVE  /\ d \in Datagram /\ HopFor(d.dst) \in Address
         /\ \E t \in s : Routable(t) /\ d = [ id |-> t.id, dst |-> t.dst, ttl |-> t.ttl - 1 ]
<1>1. PICK t \in s : Routable(t) /\ d = Forwarded(Original(t)) BY DEF Onward
<1>2. Original(t) \in Datagram BY OriginalTyped
<1>3. d = [ id |-> t.id, dst |-> t.dst, ttl |-> t.ttl - 1 ] BY <1>1 DEF Forwarded, Original
<1>4. t.id \in Nat /\ t.dst \in Address /\ t.ttl \in Int BY <1>2 DEF Original, Datagram
<1>5. d \in Datagram BY <1>3, <1>4 DEF Datagram
<1>6. \E k \in DOMAIN Table : Applies(Table[k], t.dst) BY <1>1 DEF Routable
<1>7. HopFor(t.dst) \in Address BY <1>4, <1>6, HopForFacts
<1> QED BY <1>1, <1>3, <1>5, <1>7

LEMMA SendingBounds ==
  ASSUME NEW s \in SUBSET Traffic
  PROVE  Bounds(Sending(s), Getting(s)) /\ Originals(s) \in SUBSET Datagram
<1>1. Originals(s) \in SUBSET Datagram BY OriginalTyped DEF Originals
<1>2. Onward(s) \in SUBSET Datagram /\ \A d \in Onward(s) : HopFor(d.dst) \in Address
  BY OnwardFacts
<1>3. \A i \in Hosts : NextHop[i] \in Address BY NetworkAssumption
<1>4. ASSUME NEW i \in Ifc
      PROVE  Sending(s)[i] \in SUBSET Cell /\ Getting(s)[i] \in SUBSET Datagram
  BY <1>1, <1>2, <1>3 DEF Sending, Getting, Cell
<1>5. Sending(s) = [ i \in Ifc |-> Sending(s)[i] ] /\ Getting(s) = [ i \in Ifc |-> Getting(s)[i] ]
  BY DEF Sending, Getting
<1> QED BY <1>1, <1>4, <1>5 DEF Bounds

LEMMA SendingPermitted ==
  ASSUME WellWired, NEW s \in SUBSET Traffic, s # {} => routes = Table
  PROVE  Permitted(Sending(s), Getting(s), Originals(s))
<1>1. Bounds(Sending(s), Getting(s)) /\ Originals(s) \in SUBSET Datagram BY SendingBounds
<1>2. Deliverable(Sending(s), Getting(s))
  <2> SUFFICES ASSUME NEW i \in Ifc, NEW j \in Ifc \ {i}, j \in LinkOf(i),
                      NEW c \in Sending(s)[i], c.hop = Ip[j]
               PROVE  c.dgram \in Getting(s)[j]
    BY DEF Deliverable
  <2>1. CASE i \in Hosts
    <3>1. c.hop = NextHop[i] /\ c.dgram \in Originals(s) BY <2>1 DEF Sending
    <3>2. j \notin Hosts BY <2>1, <3>1 DEF WellWired
    <3> QED BY <3>1, <3>2 DEF Getting
  <2>2. CASE i \notin Hosts
    <3>1. c.hop = HopFor(c.dgram.dst) /\ c.dgram \in Onward(s) BY <2>2 DEF Sending
    <3>2. j \in Hosts BY <2>2 DEF WellWired, Ifc
    <3> QED BY <3>1, <3>2 DEF Getting
  <2> QED BY <2>1, <2>2
<1>3. Forwards(routes, Originals(s), Sending(s))
  <2> SUFFICES ASSUME NEW d \in Originals(s), d.ttl > 1, find_longest_prefix(routes, d.dst) # 0
               PROVE  [ hop |-> NextHopOf(routes, find_longest_prefix(routes, d.dst), d.dst),
                        dgram |-> Forwarded(d) ]
                        \in Sending(s)[routes[find_longest_prefix(routes, d.dst)].interface]
    BY DEF Forwards
  <2>1. PICK t \in s : d = Original(t) BY DEF Originals
  <2>2. routes = Table BY <2>1
  <2> DEFINE idx == find_longest_prefix(Table, d.dst)
             out == Table[idx].interface
  <2>3. d.dst = t.dst /\ d.ttl = t.ttl BY <2>1 DEF Original
  <2>4. d.dst \in Address BY <2>1, OriginalTyped DEF Datagram
  <2>5. /\ \E k \in DOMAIN Table : Applies(Table[k], d.dst)
        /\ HopFor(d.dst) = NextHopOf(Table, idx, d.dst)
        /\ out \in ToSet(RouterIfcs)
    BY <2>2, <2>4, HopForFacts
  <2>6. Routable(t) BY <2>3, <2>5 DEF Routable
  <2>7. Forwarded(d) \in Onward(s) BY <2>1, <2>6 DEF Onward
  <2>8. Forwarded(d).dst = d.dst BY <2>1 DEF Forwarded, Original
  <2>9. out \in Ifc /\ out \notin Hosts BY <2>5, NetworkAssumption DEF Ifc
  <2> HIDE DEF out
  <2>10. [ hop |-> HopFor(d.dst), dgram |-> Forwarded(d) ] \in Sending(s)[out]
    BY <2>7, <2>8, <2>9 DEF Sending
  <2> QED BY <2>2, <2>5, <2>10 DEF out
<1>4. \A i \in ToSet(RouterIfcs) : Getting(s)[i] \subseteq Originals(s)
  BY NetworkAssumption DEF Getting, Ifc
<1> QED BY <1>1, <1>2, <1>3, <1>4 DEF Permitted

\* More datagrams sent allow more.
LEMMA StateMonotone ==
  ASSUME NEW i, NEW O, NEW O2, O \subseteq O2, NEW D, NEW D2, D \subseteq D2,
         NEW n \in State(i, O, D)
  PROVE  n \in State(i, O2, D2)
<1>1. n \in Interface(i, O, D) /\ MappingOf(n) BY DEF State
<1>2. FrameOf(i, O) \subseteq FrameOf(i, O2) BY DEF FrameOf, IpFrame
<1>3. /\ Seq(FrameOf(i, O)) \subseteq Seq(FrameOf(i, O2)) /\ Seq(O) \subseteq Seq(O2)
      /\ Seq(D) \subseteq Seq(D2)
  BY <1>2
<1>4. n \in Interface(i, O2, D2)
  <2> DEFINE F == Seq(FrameOf(i, O))
             F2 == Seq(FrameOf(i, O2))
             S == Seq(O)
             S2 == Seq(O2)
             Q == Seq(D)
             Q2 == Seq(D2)
             Rec(x, y, z) ==
               [ ethernet_address : {i}, ip_address : {Ip[i]}, addr_map : AddrMap,
                 map_status : MapStatus, dgram_stage : x, frames_out : y, datagrams_out : z,
                 failure : {"none", "wrong size", "crash"} ]
  <2>1. Interface(i, O, D) = Rec(S, F, Q) /\ Interface(i, O2, D2) = Rec(S2, F2, Q2)
    BY ZenonT(30) DEF Interface
  <2>2. S \subseteq S2 /\ F \subseteq F2 /\ Q \subseteq Q2 BY <1>3
  <2>3. n \in Rec(S, F, Q) BY <1>1, <2>1
  <2> HIDE DEF S, S2, F, F2, Q, Q2
  <2>4. n \in Rec(S2, F2, Q2) BY <2>2, <2>3
  <2> QED BY <2>1, <2>4
<1> QED BY <1>1, <1>4 DEF State

LEMMA SendingMonotone ==
  ASSUME NEW s, NEW s2, s \subseteq s2, NEW f \in Ifcs(Sending(s), Getting(s))
  PROVE  /\ f \in Ifcs(Sending(s2), Getting(s2))
         /\ \A i \in Ifc : Getting(s)[i] \subseteq Getting(s2)[i]
<1>1. Originals(s) \subseteq Originals(s2) /\ Onward(s) \subseteq Onward(s2)
  BY DEF Originals, Onward
<1>2. \A i \in Ifc : Sending(s)[i] \subseteq Sending(s2)[i] /\ Getting(s)[i] \subseteq Getting(s2)[i]
  BY <1>1 DEF Sending, Getting
<1>3. DOMAIN f = Ifc /\ f = [ i \in Ifc |-> f[i] ] /\ \A i \in Ifc : f[i] \in State(i, Sending(s)[i], Getting(s)[i])
  BY DEF Ifcs
<1>4. \A i \in Ifc : f[i] \in State(i, Sending(s2)[i], Getting(s2)[i])
  BY <1>2, <1>3, StateMonotone
<1> QED BY <1>2, <1>3, <1>4, IfcsTyped

\* Traffic starts with the complete table; what waits in an interface or is in a
\* frame is where it should be, and so is what has arrived.
OnCourse ==
    /\ sent \subseteq Traffic
    /\ sent # {} => routes = Table
    /\ ifcs \in Ifcs(Sending(sent), Getting(sent))
    /\ \A a \in arrived : a.at \in Hosts /\ a.dgram \in Getting(sent)[a.at]

LEMMA OnCourseStep ==
  ASSUME WellWired, OnCourse, routes \in RouteTable, [Next]_vars
  PROVE  OnCourse'
<1>1. /\ sent \subseteq Traffic /\ (sent # {} => routes = Table)
      /\ ifcs \in Ifcs(Sending(sent), Getting(sent))
      /\ \A a \in arrived : a.at \in Hosts /\ a.dgram \in Getting(sent)[a.at]
  BY DEF OnCourse
<1>2. /\ sent \subseteq sent' /\ sent' \subseteq Traffic
      /\ sent' # {} => routes = Table /\ routes' = Table
      /\ arrived' = arrived \/ \E h \in Hosts : HostChecks(h)
      /\ \A t \in Traffic : HostSends(t) => t \in sent'
  <2>1. ASSUME NEW r \in Candidates, AddRoute(r)
        PROVE  sent' = {} /\ sent = {} /\ arrived' = arrived
    BY <2>1 DEF AddRoute
  <2>2. ASSUME NEW t \in Traffic, HostSends(t)
        PROVE  sent' = sent \cup {t} /\ routes = Table /\ routes' = Table /\ arrived' = arrived
    BY <2>2 DEF HostSends
  <2>3. ASSUME NEW i \in Ifc, Transfer(i) \/ Lose(i) \/ Tick(i)
        PROVE  sent' = sent /\ routes' = routes /\ arrived' = arrived
    BY <2>3 DEF Transfer, Lose, Tick
  <2>4. ASSUME Route PROVE sent' = sent /\ routes' = routes /\ arrived' = arrived
    BY <2>4 DEF Route
  <2>5. ASSUME NEW h \in Hosts, HostChecks(h) PROVE sent' = sent /\ routes' = routes
    BY <2>5 DEF HostChecks
  <2>6. ASSUME NEW h \in Hosts, TransferAndRoute(h)
        PROVE  sent' = sent /\ routes' = routes /\ arrived' = arrived
    BY <2>6 DEF TransferAndRoute
  <2>7. ASSUME UNCHANGED vars PROVE sent' = sent /\ routes' = routes /\ arrived' = arrived
    BY <2>7 DEF vars
  <2>8. \A t \in Traffic : HostSends(t) => t \in sent' BY <2>2
  <2> QED BY <1>1, <2>1, <2>2, <2>3, <2>4, <2>5, <2>6, <2>7, <2>8, ZenonT(30) DEF Next
<1>3. PICK s : s = sent' OBVIOUS
<1>4. s \in SUBSET Traffic /\ sent \subseteq s /\ (s # {} => routes = Table) BY <1>2, <1>3
<1>5. PICK s0 : s0 = sent OBVIOUS
<1>6. ifcs \in Ifcs(Sending(s), Getting(s)) /\ \A i \in Ifc : Getting(s0)[i] \subseteq Getting(s)[i]
  <2>1. s0 \subseteq s /\ ifcs \in Ifcs(Sending(s0), Getting(s0)) BY <1>1, <1>4, <1>5
  <2> QED BY <2>1, SendingMonotone
<1>7. Permitted(Sending(s), Getting(s), Originals(s)) BY <1>4, SendingPermitted
<1>8. ASSUME NEW t \in Traffic, HostSends(t)
      PROVE  [ hop |-> NextHop[t.from], dgram |-> Original(t) ] \in Sending(s)[t.from]
  <2>1. t \in s BY <1>2, <1>3, <1>8
  <2>2. t.from \in Hosts /\ t.from \in Ifc BY OriginalTyped
  <2> QED BY <2>1, <2>2 DEF Sending, Originals
<1>9. ifcs' \in Ifcs(Sending(s), Getting(s)) BY <1>6, <1>7, <1>8, NetworkStep
<1>10. ASSUME NEW a \in arrived' PROVE a.at \in Hosts /\ a.dgram \in Getting(s)[a.at]
  <2>1. CASE a \in arrived
    <3>1. a.at \in Hosts /\ a.dgram \in Getting(s0)[a.at] BY <1>1, <1>5, <2>1
    <3> QED BY <1>6, <3>1 DEF Ifc
  <2>2. CASE a \notin arrived
    <3>1. PICK h \in Hosts : HostChecks(h) BY <1>2, <2>2
    <3>2. PICK k \in DOMAIN ifcs[h].datagrams_out :
            a = [ at |-> h, dgram |-> ifcs[h].datagrams_out[k] ]
      BY <2>2, <3>1 DEF HostChecks
    <3>3. ifcs[h].datagrams_out \in Seq(Getting(s)[h])
      <4>1. h \in Ifc BY DEF Ifc
      <4>2. ifcs[h] \in State(h, Sending(s)[h], Getting(s)[h]) BY <1>6, <4>1, IfcsFacts
      <4> QED BY <4>2, StateFacts
    <3>4. ifcs[h].datagrams_out[k] \in Getting(s)[h] BY <3>2, <3>3, LenProperties, ElementOfSeq
    <3> QED BY <3>2, <3>4
  <2> QED BY <2>1, <2>2
<1> QED BY <1>2, <1>3, <1>9, <1>10 DEF OnCourse

\* In a network wired that way, whatever the routing table, the losses and the
\* expiries of mappings: a host takes from its interface (Host::check) only
\* datagrams some host sent, that the router had a route and the time to live
\* for, whose longest route leads to this host, and whose time to live was
\* reduced exactly once (Router::route_one_datagram).
THEOREM AlwaysArrivesRight ==
  ASSUME WellWired
  PROVE  Spec => []ArrivesRight
<1>1. Init => OnCourse
  <2> SUFFICES ASSUME Init PROVE OnCourse OBVIOUS
  <2>1. sent = {} /\ arrived = {} /\ ifcs = [ i \in Ifc |-> NewNetworkInterface(i, Ip[i]) ] BY DEF Init
  <2>2. \A i \in Ifc : ifcs[i] \in State(i, Sending(sent)[i], Getting(sent)[i])
    BY <2>1, FreshInterface
  <2>3. DOMAIN ifcs = Ifc /\ ifcs = [ i \in Ifc |-> ifcs[i] ] BY <2>1
  <2>4. ifcs \in Ifcs(Sending(sent), Getting(sent)) BY <2>2, <2>3, IfcsTyped
  <2> QED BY <2>1, <2>4 DEF OnCourse
<1>2. OnCourse /\ routes \in RouteTable /\ [Next]_vars => OnCourse' BY OnCourseStep
<1>3. OnCourse => ArrivesRight
  <2> SUFFICES ASSUME OnCourse, NEW a \in arrived
               PROVE  \E t \in sent :
                        /\ a.dgram = [ id |-> t.id, dst |-> t.dst, ttl |-> t.ttl - 1 ]
                        /\ Routable(t) /\ Ip[a.at] = HopFor(t.dst)
    BY DEF ArrivesRight
  <2>1. sent \in SUBSET Traffic /\ a.at \in Hosts /\ a.dgram \in Getting(sent)[a.at] BY DEF OnCourse
  <2>2. a.at \in Ifc BY <2>1 DEF Ifc
  <2>3. a.dgram \in Onward(sent) /\ HopFor(a.dgram.dst) = Ip[a.at] BY <2>1, <2>2 DEF Getting
  <2>4. PICK t \in sent : Routable(t) /\ a.dgram = [ id |-> t.id, dst |-> t.dst, ttl |-> t.ttl - 1 ]
    BY <2>1, <2>3, OnwardFacts
  <2>5. a.dgram.dst = t.dst BY <2>4
  <2> QED BY <2>3, <2>4, <2>5
<1> QED BY <1>1, <1>2, <1>3, TableTyped, PTL DEF Spec
=============================================================================
