------------------------ MODULE SocketSystem_proofs ------------------------
(***************************************************************************)
(* The two event loops of a socket pass every byte on before they pass on  *)
(* the end of a stream, and never write to a local socket that is shut     *)
(* down, for all streams and all capacities.                               *)
(***************************************************************************)
EXTENDS SocketSystem, CommonLemmas

-----------------------------------------------------------------------------
\* Sequences of rules: what they contain, one of them taken out.
Distinct(s) == \A i, j \in 1..Len(s) : s[i] = s[j] => i = j

LEMMA ToSetFacts ==
  ASSUME NEW S, NEW s \in Seq(S), NEW x
  PROVE  x \in ToSet(s) <=> \E k \in 1..Len(s) : s[k] = x
<1>1. DOMAIN s = 1..Len(s) BY LenProperties
<1> QED BY <1>1 DEF ToSet

LEMMA AppendFacts ==
  ASSUME NEW S, NEW s \in Seq(S), NEW x \in S
  PROVE  /\ Append(s, x) \in Seq(S) /\ Len(Append(s, x)) = Len(s) + 1
         /\ Len(s) \in Nat
         /\ \A k \in 1..(Len(s) + 1) :
               Append(s, x)[k] = IF k = Len(s) + 1 THEN x ELSE s[k]
BY AppendProperties, LenProperties

\* A rule that is not among the others comes last.
LEMMA AppendRule ==
  ASSUME NEW S, NEW s \in Seq(S), NEW x \in S, x \notin ToSet(s), Distinct(s)
  PROVE  /\ Append(s, x) \in Seq(S) /\ Distinct(Append(s, x))
         /\ \A y : y \in ToSet(Append(s, x)) <=> y \in ToSet(s) \/ y = x
<1> DEFINE t == Append(s, x)
           n == Len(s)
<1>1. /\ t \in Seq(S) /\ Len(t) = n + 1 /\ n \in Nat
      /\ \A k \in 1..(n + 1) : t[k] = IF k = n + 1 THEN x ELSE s[k]
  BY AppendFacts
<1>2. \A k \in 1..n : s[k] # x BY ToSetFacts
<1>3. \A k \in 1..(n + 1) : k # n + 1 => k \in 1..n BY <1>1
<1> HIDE DEF t, n
<1>4. ASSUME NEW i \in 1..Len(t), NEW j \in 1..Len(t), t[i] = t[j] PROVE i = j
  <2>1. i \in 1..(n + 1) /\ j \in 1..(n + 1) BY <1>1
  <2>2. \A a, b \in 1..n : s[a] = s[b] => a = b BY DEF Distinct, n
  <2> QED BY <1>1, <1>2, <1>3, <1>4, <2>1, <2>2
<1>5. ASSUME NEW y PROVE y \in ToSet(t) <=> y \in ToSet(s) \/ y = x
  <2>1. y \in ToSet(t) <=> \E k \in 1..Len(t) : t[k] = y BY <1>1, ToSetFacts
  <2>2. y \in ToSet(s) <=> \E k \in 1..n : s[k] = y BY ToSetFacts DEF n
  <2>3. n + 1 \in 1..(n + 1) /\ \A k \in 1..n : k \in 1..(n + 1) /\ k # n + 1 BY <1>1
  <2> QED BY <1>1, <1>3, <2>1, <2>2, <2>3
<1> QED BY <1>1, <1>4, <1>5 DEF Distinct, t

\* The k-th rule is taken out.
LEMMA RemoveAtFacts ==
  ASSUME NEW S, NEW s \in Seq(S), NEW k \in 1..Len(s)
  PROVE  /\ RemoveAt(s, k) \in Seq(S) /\ Len(RemoveAt(s, k)) = Len(s) - 1
         /\ \A j \in 1..(Len(s) - 1) :
               RemoveAt(s, k)[j] = IF j < k THEN s[j] ELSE s[j + 1]
<1> DEFINE n == Len(s)
           a == SubSeq(s, 1, k - 1)
           b == SubSeq(s, k + 1, n)
<1>1. n \in Nat BY LenProperties
<1>2. a \in Seq(S) /\ Len(a) = k - 1 /\ \A j \in 1..(k - 1) : a[j] = s[j]
  <2> DEFINE m == k - 1
  <2>1. m \in Nat /\ 0 + m <= Len(s) /\ 0 + m = m /\ 0 + 1 = 1 BY <1>1
  <2> HIDE DEF m
  <2>2. /\ SubSeq(s, 0 + 1, 0 + m) \in Seq(S) /\ Len(SubSeq(s, 0 + 1, 0 + m)) = m
        /\ \A j \in 1..m : SubSeq(s, 0 + 1, 0 + m)[j] = s[0 + j]
    BY <2>1, 0 \in Nat, PieceFacts, SMT
  <2>3. \A j \in 1..m : 0 + j = j OBVIOUS
  <2> QED BY <2>1, <2>2, <2>3 DEF m
<1>3. b \in Seq(S) /\ Len(b) = n - k /\ \A j \in 1..(n - k) : b[j] = s[k + j]
  <2> DEFINE m == n - k
  <2>1. m \in Nat /\ k + m <= Len(s) /\ k + m = n /\ k \in Nat BY <1>1
  <2> HIDE DEF m
  <2>2. /\ SubSeq(s, k + 1, k + m) \in Seq(S) /\ Len(SubSeq(s, k + 1, k + m)) = m
        /\ \A j \in 1..m : SubSeq(s, k + 1, k + m)[j] = s[k + j]
    BY <2>1, PieceFacts, ZenonT(30)
  <2> QED BY <2>1, <2>2 DEF m
<1>4. RemoveAt(s, k) = a \o b BY DEF RemoveAt
<1> HIDE DEF a, b
<1>5. /\ a \o b \in Seq(S) /\ Len(a \o b) = Len(a) + Len(b)
      /\ \A i \in 1..(Len(a) + Len(b)) :
            (a \o b)[i] = IF i <= Len(a) THEN a[i] ELSE b[i - Len(a)]
  BY <1>2, <1>3, ConcatProperties
<1>6. Len(a) + Len(b) = n - 1 BY <1>1, <1>2, <1>3
<1>7. ASSUME NEW j \in 1..(n - 1)
      PROVE  (a \o b)[j] = IF j < k THEN s[j] ELSE s[j + 1]
  <2>1. CASE j < k BY <1>1, <1>2, <1>5, <1>6, <2>1
  <2>2. CASE ~(j < k)
    <3>1. j - (k - 1) \in 1..(n - k) /\ k + (j - (k - 1)) = j + 1 /\ ~(j <= k - 1)
      BY <1>1, <2>2
    <3> QED BY <1>2, <1>3, <1>5, <1>6, <2>2, <3>1, ZenonT(60)
  <2> QED BY <2>1, <2>2
<1> QED BY <1>4, <1>5, <1>6, <1>7

-----------------------------------------------------------------------------
\* An event loop with rules of these names.
LoopOf(S) == [ rules : Seq(S), asked : SUBSET S, ready : SUBSET S, hup : SUBSET S, at : Nat ]

\* A rule that poll reported and that has not been served yet.
Unserved(loop, r) ==
    r \in loop.ready /\ \E k \in 1..Len(loop.rules) : k >= loop.at /\ loop.rules[k] = r

\* The rule that is served next.
LEMMA NextRuleFacts ==
  ASSUME NEW S, NEW loop \in LoopOf(S), ToServe(loop) # {}, loop.at > 0
  PROVE  /\ NextRule(loop) \in 1..Len(loop.rules) /\ NextRule(loop) >= loop.at
         /\ NextRule(loop) \in Nat
         /\ loop.rules[NextRule(loop)] \in S
         /\ \/ Defunct(loop, loop.rules[NextRule(loop)])
            \/ loop.rules[NextRule(loop)] \in loop.ready
<1>1. loop.rules \in Seq(S) /\ loop.at \in Nat BY DEF LoopOf
<1>2. Len(loop.rules) \in Nat BY <1>1, LenProperties
<1>3. ToServe(loop) \in SUBSET Nat BY <1>1, <1>2 DEF ToServe
<1>4. PICK k \in ToServe(loop) : \A j \in ToServe(loop) : k <= j BY <1>3, LeastElement
<1>5. NextRule(loop) \in ToServe(loop) BY <1>4 DEF NextRule
<1>6. NextRule(loop) \in 1..Len(loop.rules) /\ NextRule(loop) >= loop.at
      /\ (Defunct(loop, loop.rules[NextRule(loop)]) \/ loop.rules[NextRule(loop)] \in loop.ready)
  BY <1>1, <1>2, <1>5 DEF ToServe
<1> QED BY <1>1, <1>6, ElementOfSeq

\* A loop after an update of one field.
LEMMA UpdateLoop ==
  ASSUME NEW S, NEW loop \in LoopOf(S)
  PROVE  /\ \A x \in Seq(S) : [ loop EXCEPT !.rules = x ] \in LoopOf(S)
         /\ \A x \in SUBSET S : [ loop EXCEPT !.asked = x ] \in LoopOf(S)
         /\ \A x \in SUBSET S : [ loop EXCEPT !.ready = x ] \in LoopOf(S)
         /\ \A x \in SUBSET S : [ loop EXCEPT !.hup = x ] \in LoopOf(S)
         /\ \A x \in Nat : [ loop EXCEPT !.at = x ] \in LoopOf(S)
<1>1. \A x \in Seq(S) : [ loop EXCEPT !.rules = x ] \in LoopOf(S) BY DEF LoopOf
<1>2. \A x \in SUBSET S : [ loop EXCEPT !.asked = x ] \in LoopOf(S) BY DEF LoopOf
<1>3. \A x \in SUBSET S : [ loop EXCEPT !.ready = x ] \in LoopOf(S) BY DEF LoopOf
<1>4. \A x \in SUBSET S : [ loop EXCEPT !.hup = x ] \in LoopOf(S) BY DEF LoopOf
<1>5. \A x \in Nat : [ loop EXCEPT !.at = x ] \in LoopOf(S) BY DEF LoopOf
<1> QED BY <1>1, <1>2, <1>3, <1>4, <1>5

\* A rule is added, and asked about.
Added(loop, x, asked) == [ [ loop EXCEPT !.rules = x ] EXCEPT !.asked = asked ]

IsAdded(S, loop, x, asked, new) ==
    /\ new \in LoopOf(S) /\ new.rules = x /\ new.asked = asked
    /\ new.ready = loop.ready /\ new.hup = loop.hup /\ new.at = loop.at

LEMMA AddedFacts ==
  ASSUME NEW S, NEW loop \in LoopOf(S), NEW x \in Seq(S), NEW y \in SUBSET S
  PROVE  IsAdded(S, loop, x, y, Added(loop, x, y))
<1> DEFINE a == [ loop EXCEPT !.rules = x ]
           b == [ a EXCEPT !.asked = y ]
<1>1. Added(loop, x, y) = b BY DEF Added
<1>2. a \in LoopOf(S) BY UpdateLoop
<1>3. a.rules = x /\ a.ready = loop.ready /\ a.hup = loop.hup /\ a.at = loop.at
  BY DEF LoopOf
<1> HIDE DEF a
<1>4. b \in LoopOf(S) BY <1>2, UpdateLoop
<1>5. b.rules = x /\ b.asked = y /\ b.ready = a.ready /\ b.hup = a.hup /\ b.at = a.at
  BY <1>2, <1>3 DEF LoopOf
<1> HIDE DEF b
<1> QED BY <1>1, <1>3, <1>4, <1>5 DEF IsAdded

-----------------------------------------------------------------------------
\* SetUp goes through the rules: one pass of its loop, for rules that are over,
\* interested and cancelled as the functions say (by rule, then by world).
Accs(S, W) == [ w : W, loop : LoopOf(S) ]

Asked(asked, r, b) == IF b THEN asked \cup {r} ELSE asked

OnePass(over, interest, cancel, r, acc) ==
    IF over[r][acc.w]
      THEN [ w |-> cancel[r][acc.w], loop |-> acc.loop ]
      ELSE [ w |-> acc.w,
             loop |-> Added(acc.loop, Append(acc.loop.rules, r),
                            Asked(acc.loop.asked, r, interest[r][acc.w])) ]

\* The rules of a loop of names S in worlds W; a cancellation stays in Keep.
Behaves(S, W, Keep, over, interest, cancel) ==
    /\ over \in [ S -> [ W -> BOOLEAN ] ] /\ interest \in [ S -> [ W -> BOOLEAN ] ]
    /\ cancel \in [ S -> [ W -> W ] ]
    /\ \A r \in S, x \in W : x \in Keep => cancel[r][x] \in Keep

\* No rule that is over would change the world v.
Steady(S, v, over, cancel) == \A r \in S : over[r][v] => cancel[r][v] = v

Fresh(loop) == loop.ready = {} /\ loop.hup = {} /\ loop.at = 0

\* What is true after the first k rules.
AfterPasses(S, W, Keep, over, interest, cancel, rules, v, k, acc) ==
    /\ acc \in Accs(S, W) /\ acc.w \in Keep
    /\ Fresh(acc.loop) /\ Distinct(acc.loop.rules)
    /\ \A y \in ToSet(acc.loop.rules) : \E j \in 1..k : rules[j] = y
    /\ Steady(S, v, over, cancel) =>
          /\ acc.w = v
          /\ \A y \in S : /\ y \in ToSet(acc.loop.rules) <=>
                              ~over[y][v] /\ \E j \in 1..k : rules[j] = y
                          /\ y \in acc.loop.asked <=>
                              y \in ToSet(acc.loop.rules) /\ interest[y][v]

LEMMA PassKeeps ==
  ASSUME NEW S, NEW W, NEW Keep \in SUBSET W, NEW over, NEW interest, NEW cancel,
         Behaves(S, W, Keep, over, interest, cancel),
         NEW rules \in Seq(S), Distinct(rules), NEW v \in Keep, NEW k \in 1..Len(rules),
         NEW acc, AfterPasses(S, W, Keep, over, interest, cancel, rules, v, k - 1, acc)
  PROVE  AfterPasses(S, W, Keep, over, interest, cancel, rules, v, k,
                     OnePass(over, interest, cancel, rules[k], acc))
<1> DEFINE r   == rules[k]
           new == OnePass(over, interest, cancel, r, acc)
           old == acc.loop
           Before(y) == \E j \in 1..(k - 1) : rules[j] = y
           Until(y)  == \E j \in 1..k : rules[j] = y
<1>1. Len(rules) \in Nat /\ r \in S /\ k \in 1..k
  BY LenProperties, ElementOfSeq
<1>2. /\ acc \in Accs(S, W) /\ acc.w \in Keep /\ Fresh(old) /\ Distinct(old.rules)
      /\ \A y \in ToSet(old.rules) : Before(y)
      /\ Steady(S, v, over, cancel) =>
            /\ acc.w = v
            /\ \A y \in S : /\ y \in ToSet(old.rules) <=> ~over[y][v] /\ Before(y)
                            /\ y \in old.asked <=> y \in ToSet(old.rules) /\ interest[y][v]
  BY DEF AfterPasses
<1>3. \A y : Until(y) <=> Before(y) \/ y = r
  <2>1. \A j \in 1..k : j \in 1..(k - 1) \/ j = k BY <1>1
  <2>2. \A j \in 1..(k - 1) : j \in 1..k BY <1>1
  <2> QED BY <1>1, <2>1, <2>2
<1>4. ~Before(r)
  <2> SUFFICES ASSUME NEW j \in 1..(k - 1), rules[j] = r PROVE FALSE OBVIOUS
  <2>1. j \in 1..Len(rules) /\ j # k BY <1>1
  <2> QED BY <2>1 DEF Distinct
<1>5. /\ acc.w \in W /\ old \in LoopOf(S) /\ old.rules \in Seq(S) /\ old.asked \in SUBSET S
      /\ old.ready \in SUBSET S /\ old.hup \in SUBSET S /\ old.at \in Nat
  BY <1>2 DEF Accs, LoopOf
<1>6. r \notin ToSet(old.rules) BY <1>2, <1>4
<1> HIDE DEF Before, Until, r
<1>7. CASE over[r][acc.w]
  <2>1. new = [ w |-> cancel[r][acc.w], loop |-> old ] BY <1>7 DEF OnePass
  <2>2. new.w = cancel[r][acc.w] /\ new.loop = old BY <2>1
  <2>3. cancel[r][acc.w] \in W /\ cancel[r][acc.w] \in Keep
    BY <1>1, <1>2, <1>5 DEF Behaves
  <2>4. new \in Accs(S, W) BY <1>5, <2>1, <2>3 DEF Accs
  <2>5. \A y \in ToSet(old.rules) : Until(y) BY <1>2, <1>3
  <2>6. ASSUME Steady(S, v, over, cancel)
        PROVE  /\ new.w = v
               /\ \A y \in S : /\ y \in ToSet(old.rules) <=> ~over[y][v] /\ Until(y)
                               /\ y \in old.asked <=> y \in ToSet(old.rules) /\ interest[y][v]
    <3>1. acc.w = v BY <1>2, <2>6
    <3>2. cancel[r][v] = v BY <1>1, <1>7, <2>6, <3>1 DEF Steady
    <3> QED BY <1>2, <1>3, <1>7, <2>2, <2>6, <3>1, <3>2
  <2> HIDE DEF new
  <2>7. /\ new \in Accs(S, W) /\ new.w \in Keep
        /\ Fresh(new.loop) /\ Distinct(new.loop.rules)
    BY <1>2, <2>2, <2>3, <2>4
  <2> QED BY <2>2, <2>5, <2>6, <2>7 DEF AfterPasses, Until, new, r
<1>8. CASE ~over[r][acc.w]
  <2> DEFINE b    == interest[r][acc.w]
             ru   == Append(old.rules, r)
             as   == Asked(old.asked, r, b)
             next == Added(old, ru, as)
  <2>1. new = [ w |-> acc.w, loop |-> next ] BY <1>8 DEF OnePass
  <2>2. new.w = acc.w /\ new.loop = next BY <2>1
  <2>3. /\ Append(old.rules, r) \in Seq(S) /\ Distinct(Append(old.rules, r))
        /\ \A y : y \in ToSet(Append(old.rules, r)) <=> y \in ToSet(old.rules) \/ y = r
    BY <1>1, <1>2, <1>5, <1>6, AppendRule
  <2>4. /\ Asked(old.asked, r, b) \in SUBSET S
        /\ \A y : y \in Asked(old.asked, r, b) <=> y \in old.asked \/ (y = r /\ b)
    BY <1>1, <1>5 DEF Asked
  <2> HIDE DEF b
  <2>5. /\ next \in LoopOf(S) /\ next.rules = ru /\ next.asked = as
        /\ next.ready = old.ready /\ next.hup = old.hup /\ next.at = old.at
    <3>1. old \in LoopOf(S) /\ ru \in Seq(S) /\ as \in SUBSET S BY <1>5, <2>3, <2>4
    <3> HIDE DEF old, ru, as, new
    <3>2. IsAdded(S, old, ru, as, next) BY <3>1, AddedFacts, ZenonT(30)
    <3> QED BY <3>2 DEF IsAdded
  <2> HIDE DEF next
  <2>6. new \in Accs(S, W) BY <1>5, <2>1, <2>5 DEF Accs
  <2>7. Fresh(next) /\ Distinct(next.rules) BY <1>2, <2>3, <2>5 DEF Fresh
  <2>8. next.rules = Append(old.rules, r) /\ next.asked = Asked(old.asked, r, b) BY <2>5
  <2>9. \A y \in ToSet(next.rules) : Until(y) BY <1>2, <1>3, <2>3, <2>8
  <2>10. ASSUME Steady(S, v, over, cancel)
         PROVE  /\ new.w = v
                /\ \A y \in S : /\ y \in ToSet(next.rules) <=> ~over[y][v] /\ Until(y)
                                /\ y \in next.asked <=>
                                      y \in ToSet(next.rules) /\ interest[y][v]
    <3>1. acc.w = v /\ new.w = v BY <1>2, <2>2, <2>10
    <3>2. ASSUME NEW y \in S
          PROVE  /\ y \in ToSet(next.rules) <=> ~over[y][v] /\ Until(y)
                 /\ y \in next.asked <=> y \in ToSet(next.rules) /\ interest[y][v]
      <4>1. y \in ToSet(old.rules) <=> ~over[y][v] /\ Before(y) BY <1>2, <2>10
      <4>2. y \in old.asked <=> y \in ToSet(old.rules) /\ interest[y][v] BY <1>2, <2>10
      <4>3. y \in ToSet(next.rules) <=> y \in ToSet(old.rules) \/ y = r BY <2>3, <2>8
      <4>4. y \in next.asked <=> y \in old.asked \/ (y = r /\ b) BY <2>4, <2>8
      <4>5. Until(y) <=> Before(y) \/ y = r BY <1>3
      <4>6. ~over[r][v] BY <1>8, <3>1
      <4>7. b <=> interest[r][v] BY <3>1 DEF b
      <4> QED BY <4>1, <4>2, <4>3, <4>4, <4>5, <4>6, <4>7, <1>6
    <3> QED BY <3>1, <3>2
  <2> HIDE DEF new
  <2>11. /\ new \in Accs(S, W) /\ new.w \in Keep
         /\ Fresh(new.loop) /\ Distinct(new.loop.rules)
    BY <1>2, <2>2, <2>6, <2>7
  <2> QED BY <2>2, <2>9, <2>10, <2>11 DEF AfterPasses, Until, new, r
<1> QED BY <1>7, <1>8

\* Hence of the whole loop, h being what it has after each pass.
LEMMA PassesEnd ==
  ASSUME NEW S, NEW W, NEW Keep \in SUBSET W, NEW over, NEW interest, NEW cancel,
         Behaves(S, W, Keep, over, interest, cancel),
         NEW rules \in Seq(S), Distinct(rules), NEW v \in Keep, NEW h,
         AfterPasses(S, W, Keep, over, interest, cancel, rules, v, 0, h[0]),
         \A k \in 1..Len(rules) : h[k - 1] \in Accs(S, W) =>
             h[k] = OnePass(over, interest, cancel, rules[k], h[k - 1])
  PROVE  AfterPasses(S, W, Keep, over, interest, cancel, rules, v, Len(rules), h[Len(rules)])
<1> DEFINE n == Len(rules)
           P(k, acc) == AfterPasses(S, W, Keep, over, interest, cancel, rules, v, k, acc)
           T == { k \in 0..n : P(k, h[k]) }
<1>1. n \in Nat BY LenProperties
<1>2. 0 \in T BY <1>1
<1>3. ASSUME NEW k \in 0..(n - 1), k \in T PROVE k + 1 \in T
  <2> DEFINE m == k + 1
  <2>1. m \in 1..n /\ m - 1 = k /\ m \in 0..n BY <1>1
  <2> HIDE DEF m
  <2>2. P(m - 1, h[m - 1]) BY <1>3, <2>1
  <2>3. h[m - 1] \in Accs(S, W) BY <2>2 DEF AfterPasses
  <2>4. h[m] = OnePass(over, interest, cancel, rules[m], h[m - 1]) BY <2>1, <2>3
  <2>5. m \in 1..Len(rules) BY <2>1
  <2>6. P(m, OnePass(over, interest, cancel, rules[m], h[m - 1]))
    BY <2>2, <2>5, PassKeeps, ZenonT(30)
  <2>7. P(m, h[m]) BY <2>4, <2>6
  <2> HIDE DEF P
  <2>8. m \in T BY <2>1, <2>7
  <2> QED BY <2>8 DEF m
<1> HIDE DEF T
<1>4. \A k \in 0..n : k \in T BY <1>1, <1>2, <1>3, UpToInduction
<1>5. n \in T BY <1>1, <1>4
<1> QED BY <1>5 DEF T

Emptied(loop) == [ Returned(loop) EXCEPT !.rules = <<>> ]

\* A loop after an event, and what SetUp makes of it before the first rule.
LEMMA ReturnedFacts ==
  ASSUME NEW S, NEW loop \in LoopOf(S)
  PROVE  /\ Returned(loop) \in LoopOf(S) /\ Returned(loop).rules = loop.rules
         /\ Fresh(Returned(loop))
         /\ Emptied(loop) \in LoopOf(S) /\ Emptied(loop).rules = <<>>
         /\ Emptied(loop).asked = {} /\ Fresh(Emptied(loop))
<1> DEFINE r == Returned(loop)
           e == Emptied(loop)
           a == [ loop EXCEPT !.asked = {} ]
           b == [ a EXCEPT !.ready = {} ]
           c == [ b EXCEPT !.hup = {} ]
           d == [ c EXCEPT !.at = 0 ]
<1>1. r = d /\ e = [ r EXCEPT !.rules = <<>> ] BY DEF Returned, Emptied
<1> HIDE DEF r, e
<1>2. a \in LoopOf(S) /\ a.asked = {} /\ a.rules = loop.rules
  <2>1. a \in LoopOf(S) BY UpdateLoop
  <2> QED BY <2>1 DEF LoopOf
<1> HIDE DEF a
<1>3. b \in LoopOf(S) /\ b.asked = {} /\ b.rules = loop.rules /\ b.ready = {}
  <2>1. b \in LoopOf(S) BY <1>2, UpdateLoop
  <2> QED BY <1>2, <2>1 DEF LoopOf
<1> HIDE DEF b
<1>4. /\ c \in LoopOf(S) /\ c.asked = {} /\ c.rules = loop.rules /\ c.ready = {}
      /\ c.hup = {}
  <2>1. c \in LoopOf(S) BY <1>3, UpdateLoop
  <2> QED BY <1>3, <2>1 DEF LoopOf
<1> HIDE DEF c
<1>5. /\ d \in LoopOf(S) /\ d.asked = {} /\ d.rules = loop.rules /\ d.ready = {}
      /\ d.hup = {} /\ d.at = 0
  <2>1. d \in LoopOf(S) BY <1>4, UpdateLoop
  <2> QED BY <1>4, <2>1 DEF LoopOf
<1> HIDE DEF d
<1>6. e \in LoopOf(S) BY <1>1, <1>5, UpdateLoop, EmptySeq
<1>7. e.rules = <<>> /\ e.asked = {} /\ e.ready = {} /\ e.hup = {} /\ e.at = 0
  BY <1>1, <1>5 DEF LoopOf
<1> QED BY <1>1, <1>5, <1>6, <1>7 DEF Fresh, r, e

\* What SetUp starts from.
Start(loop, v) == [ w |-> v, loop |-> Emptied(loop) ]

LEMMA StartFacts ==
  ASSUME NEW S, NEW W, NEW Keep \in SUBSET W, NEW over, NEW interest, NEW cancel,
         NEW loop \in LoopOf(S), NEW v \in Keep
  PROVE  /\ Start(loop, v) \in Accs(S, W)
         /\ AfterPasses(S, W, Keep, over, interest, cancel, loop.rules, v, 0, Start(loop, v))
<1> DEFINE first == Emptied(loop)
<1>1. Start(loop, v) = [ w |-> v, loop |-> first ] BY DEF Start
<1>2. /\ first \in LoopOf(S) /\ first.rules = <<>> /\ first.asked = {} /\ Fresh(first)
  BY ReturnedFacts
<1> HIDE DEF first
<1>3. Len(<<>>) = 0 BY EmptySeq
<1>4. Start(loop, v) \in Accs(S, W) BY <1>1, <1>2 DEF Accs
<1>5. \A y : y \notin ToSet(<<>>)
  <2>1. DOMAIN <<>> = 1..0 BY <1>3, EmptySeq, LenProperties
  <2> QED BY <2>1 DEF ToSet
<1>6. Distinct(<<>>) BY <1>3 DEF Distinct
<1>7. Start(loop, v).w = v /\ Start(loop, v).loop = first BY <1>1
<1>8. \A j \in 1..0 : FALSE OBVIOUS
<1>9. /\ Distinct(Start(loop, v).loop.rules) /\ Fresh(Start(loop, v).loop)
      /\ \A y : y \notin ToSet(Start(loop, v).loop.rules)
      /\ \A y : y \notin Start(loop, v).loop.asked
  BY <1>2, <1>5, <1>6, <1>7
<1> QED BY <1>4, <1>7, <1>8, <1>9 DEF AfterPasses

\* A pass stays among the worlds and loops.
LEMMA PassType ==
  ASSUME NEW S, NEW W, NEW Keep, NEW over, NEW interest, NEW cancel,
         Behaves(S, W, Keep, over, interest, cancel),
         NEW r \in S, NEW acc \in Accs(S, W)
  PROVE  OnePass(over, interest, cancel, r, acc) \in Accs(S, W)
<1> DEFINE old  == acc.loop
           x    == Append(old.rules, r)
           y    == Asked(old.asked, r, interest[r][acc.w])
           next == Added(old, x, y)
<1>1. acc.w \in W /\ old \in LoopOf(S) /\ old.rules \in Seq(S) /\ old.asked \in SUBSET S
  BY DEF Accs, LoopOf
<1>2. cancel[r][acc.w] \in W BY <1>1 DEF Behaves
<1>3. x \in Seq(S) BY <1>1, AppendFacts
<1>4. y \in SUBSET S BY <1>1 DEF Asked
<1>5. OnePass(over, interest, cancel, r, acc) =
        IF over[r][acc.w] THEN [ w |-> cancel[r][acc.w], loop |-> old ]
        ELSE [ w |-> acc.w, loop |-> next ]
  BY DEF OnePass
<1> HIDE DEF x, y, old
<1>6. IsAdded(S, old, x, y, next) BY <1>1, <1>3, <1>4, AddedFacts, ZenonT(30)
<1>7. next \in LoopOf(S) BY <1>6 DEF IsAdded
<1> HIDE DEF next
<1>8. [ w |-> cancel[r][acc.w], loop |-> old ] \in Accs(S, W) BY <1>1, <1>2 DEF Accs
<1>9. [ w |-> acc.w, loop |-> next ] \in Accs(S, W) BY <1>1, <1>7 DEF Accs
<1> QED BY <1>5, <1>8, <1>9

\* The passes over the rules have a result, as FoldLeft computes it: g holds it for
\* every set of places.
PassesOf(S, W, over, interest, cancel, rules, base, g) ==
    /\ g \in [ SUBSET (1..Len(rules)) -> Accs(S, W) ]
    /\ \A s \in SUBSET (1..Len(rules)) :
          g[s] = IF s = {} THEN base
                 ELSE OnePass(over, interest, cancel, rules[Max(s)], g[s \ {Max(s)}])

LEMMA PassesExist ==
  ASSUME NEW S, NEW W, NEW Keep, NEW over, NEW interest, NEW cancel,
         Behaves(S, W, Keep, over, interest, cancel),
         NEW rules \in Seq(S), NEW base \in Accs(S, W)
  PROVE  \E g : PassesOf(S, W, over, interest, cancel, rules, base, g)
<1> DEFINE n == Len(rules)
           A == Accs(S, W)
           step == [ k \in 1..n |-> [ acc \in A |->
                       OnePass(over, interest, cancel, rules[k], acc) ] ]
<1>1. n \in Nat BY LenProperties
<1>2. \A k \in 1..n : rules[k] \in S BY ElementOfSeq
<1>3. ASSUME NEW k \in 1..n, NEW acc \in A
      PROVE  OnePass(over, interest, cancel, rules[k], acc) \in A
  BY <1>2, PassType
<1>4. step \in [ 1..n -> [ A -> A ] ] BY <1>3
<1>5. \A k \in 1..n, acc \in A :
         step[k][acc] = OnePass(over, interest, cancel, rules[k], acc)
  OBVIOUS
<1>6. base \in A OBVIOUS
<1> HIDE DEF n, A, step
<1>7. PICK g \in [ SUBSET (1..n) -> A ] : Folding(g, n, base, step)
  BY <1>1, <1>4, <1>6, FoldExists
<1>8. ASSUME NEW s \in SUBSET (1..n)
      PROVE  g[s] = IF s = {} THEN base
                    ELSE OnePass(over, interest, cancel, rules[Max(s)], g[s \ {Max(s)}])
  <2>1. g[s] = IF s = {} THEN base ELSE step[Max(s)][g[s \ {Max(s)}]]
    BY <1>7 DEF Folding
  <2>2. CASE s = {} BY <2>1, <2>2
  <2>3. CASE s # {}
    <3>1. Max(s) \in s BY <1>1, <2>3, MaxFacts
    <3>2. Max(s) \in 1..n /\ g[s \ {Max(s)}] \in A BY <3>1
    <3> QED BY <1>5, <2>1, <2>3, <3>2
  <2> QED BY <2>2, <2>3
<1> QED BY <1>8 DEF PassesOf, n, A

\* Hence what SetUp returns, if g computes it.
LEMMA PassesResult ==
  ASSUME NEW S, NEW W, NEW Keep \in SUBSET W, NEW over, NEW interest, NEW cancel,
         Behaves(S, W, Keep, over, interest, cancel),
         NEW loop \in LoopOf(S), Distinct(loop.rules), NEW v \in Keep, NEW g,
         g[{}] = Start(loop, v),
         \A k \in 1..Len(loop.rules) : g[1..(k - 1)] \in Accs(S, W) =>
             g[1..k] = OnePass(over, interest, cancel, loop.rules[k], g[1..(k - 1)])
  PROVE  AfterPasses(S, W, Keep, over, interest, cancel, loop.rules, v,
                     Len(loop.rules), g[1..Len(loop.rules)])
<1> DEFINE rules == loop.rules
           n == Len(rules)
           h == [ k \in 0..n |-> g[1..k] ]
<1>1. rules \in Seq(S) BY DEF LoopOf
<1>2. n \in Nat BY <1>1, LenProperties
<1>3. h[0] = Start(loop, v)
  <2>1. 1..0 = {} /\ 0 \in 0..n BY <1>2
  <2> QED BY <2>1
<1>4. \A k \in 1..n : h[k] = g[1..k] /\ h[k - 1] = g[1..(k - 1)] BY <1>2
<1>5. h[n] = g[1..n] BY <1>2
<1> HIDE DEF h
<1>6. AfterPasses(S, W, Keep, over, interest, cancel, rules, v, 0, h[0])
  BY <1>3, StartFacts
<1>7. \A k \in 1..n : h[k - 1] \in Accs(S, W) =>
          h[k] = OnePass(over, interest, cancel, rules[k], h[k - 1])
  BY <1>4
<1>8. Distinct(rules) OBVIOUS
<1> HIDE DEF rules
<1>9. AfterPasses(S, W, Keep, over, interest, cancel, rules, v, Len(rules), h[Len(rules)])
  BY <1>1, <1>6, <1>7, <1>8, PassesEnd, ZenonT(60) DEF n
<1> QED BY <1>5, <1>9 DEF n, rules

\* The update of a pass, in one EXCEPT.
LEMMA AddedInPlace ==
  ASSUME NEW S, NEW W, NEW acc \in Accs(S, W), NEW x, NEW y
  PROVE  [ acc EXCEPT !.loop.rules = x, !.loop.asked = y ] =
         [ w |-> acc.w, loop |-> Added(acc.loop, x, y) ]
<1> DEFINE l == [ acc.loop EXCEPT !.rules = x ]
           a == [ acc EXCEPT !.loop.rules = x ]
           b == [ a EXCEPT !.loop.asked = y ]
<1>1. [ acc EXCEPT !.loop.rules = x, !.loop.asked = y ] = b OBVIOUS
<1>2. a = [ w |-> acc.w, loop |-> l ] BY DEF Accs
<1> HIDE DEF l, a
<1>3. b = [ w |-> acc.w, loop |-> [ l EXCEPT !.asked = y ] ] BY <1>2
<1> QED BY <1>1, <1>3 DEF Added, l

-----------------------------------------------------------------------------
\* The types of the bytes, streams, descriptors and the connection.
States == { "CLOSED", "LISTEN", "SYN_SENT", "SYN_RCVD", "ESTABLISHED" }
Failures == { "none", "owner pipe", "thread pipe" }

World ==
    [ in : Int, sock : Int, tcp : Int, acked : Int,
      net : Int, pipe : Int, app : Int, out : Int,
      stdin_eof : BOOLEAN, outbound_end : BOOLEAN, outbound_shutdown : BOOLEAN,
      socket_eof : BOOLEAN, inbound_end : BOOLEAN, stdout_closed : BOOLEAN,
      up_shut : BOOLEAN, down_shut : BOOLEAN,
      data_eof : BOOLEAN, tcp_end : BOOLEAN, tcp_shutdown : BOOLEAN,
      state : States, active : BOOLEAN, error : BOOLEAN, peer_end : BOOLEAN,
      segments : BOOLEAN, failure : Failures ]

LEMMA WorldFields ==
  ASSUME NEW v \in World
  PROVE  /\ v.in \in Int /\ v.sock \in Int /\ v.tcp \in Int /\ v.acked \in Int
         /\ v.net \in Int /\ v.pipe \in Int /\ v.app \in Int /\ v.out \in Int
         /\ v.stdin_eof \in BOOLEAN /\ v.outbound_end \in BOOLEAN
         /\ v.outbound_shutdown \in BOOLEAN /\ v.socket_eof \in BOOLEAN
         /\ v.inbound_end \in BOOLEAN /\ v.stdout_closed \in BOOLEAN
         /\ v.up_shut \in BOOLEAN /\ v.down_shut \in BOOLEAN /\ v.data_eof \in BOOLEAN
         /\ v.tcp_end \in BOOLEAN /\ v.tcp_shutdown \in BOOLEAN
         /\ v.active \in BOOLEAN /\ v.error \in BOOLEAN /\ v.peer_end \in BOOLEAN
         /\ v.segments \in BOOLEAN
BY DEF World

LEMMA NumberUpdates ==
  ASSUME NEW v \in World, NEW n \in Int
  PROVE  /\ [ v EXCEPT !.in = n ] \in World /\ [ v EXCEPT !.sock = n ] \in World
         /\ [ v EXCEPT !.tcp = n ] \in World /\ [ v EXCEPT !.acked = n ] \in World
         /\ [ v EXCEPT !.net = n ] \in World /\ [ v EXCEPT !.pipe = n ] \in World
         /\ [ v EXCEPT !.app = n ] \in World /\ [ v EXCEPT !.out = n ] \in World
<1>1. [ v EXCEPT !.in = n ] \in World BY DEF World
<1>2. [ v EXCEPT !.sock = n ] \in World BY DEF World
<1>3. [ v EXCEPT !.tcp = n ] \in World BY DEF World
<1>4. [ v EXCEPT !.acked = n ] \in World BY DEF World
<1>5. [ v EXCEPT !.net = n ] \in World BY DEF World
<1>6. [ v EXCEPT !.pipe = n ] \in World BY DEF World
<1>7. [ v EXCEPT !.app = n ] \in World BY DEF World
<1>8. [ v EXCEPT !.out = n ] \in World BY DEF World
<1> QED BY <1>1, <1>2, <1>3, <1>4, <1>5, <1>6, <1>7, <1>8

LEMMA OwnerFlagUpdates ==
  ASSUME NEW v \in World, NEW b \in BOOLEAN
  PROVE  /\ [ v EXCEPT !.stdin_eof = b ] \in World
         /\ [ v EXCEPT !.outbound_end = b ] \in World
         /\ [ v EXCEPT !.outbound_shutdown = b ] \in World
         /\ [ v EXCEPT !.socket_eof = b ] \in World
         /\ [ v EXCEPT !.inbound_end = b ] \in World
         /\ [ v EXCEPT !.stdout_closed = b ] \in World
         /\ [ v EXCEPT !.up_shut = b ] \in World
         /\ [ v EXCEPT !.down_shut = b ] \in World
<1>1. [ v EXCEPT !.stdin_eof = b ] \in World BY DEF World
<1>2. [ v EXCEPT !.outbound_end = b ] \in World BY DEF World
<1>3. [ v EXCEPT !.outbound_shutdown = b ] \in World BY DEF World
<1>4. [ v EXCEPT !.socket_eof = b ] \in World BY DEF World
<1>5. [ v EXCEPT !.inbound_end = b ] \in World BY DEF World
<1>6. [ v EXCEPT !.stdout_closed = b ] \in World BY DEF World
<1>7. [ v EXCEPT !.up_shut = b ] \in World BY DEF World
<1>8. [ v EXCEPT !.down_shut = b ] \in World BY DEF World
<1> QED BY <1>1, <1>2, <1>3, <1>4, <1>5, <1>6, <1>7, <1>8

LEMMA ThreadFlagUpdates ==
  ASSUME NEW v \in World, NEW b \in BOOLEAN
  PROVE  /\ [ v EXCEPT !.data_eof = b ] \in World
         /\ [ v EXCEPT !.tcp_end = b ] \in World
         /\ [ v EXCEPT !.tcp_shutdown = b ] \in World
         /\ [ v EXCEPT !.active = b ] \in World
         /\ [ v EXCEPT !.error = b ] \in World
         /\ [ v EXCEPT !.peer_end = b ] \in World
         /\ [ v EXCEPT !.segments = b ] \in World
<1>1. [ v EXCEPT !.data_eof = b ] \in World BY DEF World
<1>2. [ v EXCEPT !.tcp_end = b ] \in World BY DEF World
<1>3. [ v EXCEPT !.tcp_shutdown = b ] \in World BY DEF World
<1>4. [ v EXCEPT !.active = b ] \in World BY DEF World
<1>5. [ v EXCEPT !.error = b ] \in World BY DEF World
<1>6. [ v EXCEPT !.peer_end = b ] \in World BY DEF World
<1>7. [ v EXCEPT !.segments = b ] \in World BY DEF World
<1> QED BY <1>1, <1>2, <1>3, <1>4, <1>5, <1>6, <1>7

LEMMA OtherUpdates ==
  ASSUME NEW v \in World
  PROVE  /\ \A s \in States : [ v EXCEPT !.state = s ] \in World
         /\ \A f \in Failures : [ v EXCEPT !.failure = f ] \in World
<1>1. \A s \in States : [ v EXCEPT !.state = s ] \in World BY DEF World
<1>2. \A f \in Failures : [ v EXCEPT !.failure = f ] \in World BY DEF World
<1> QED BY <1>1, <1>2

-----------------------------------------------------------------------------
\* The fields in groups, to say which of them an update leaves alone.
SameOutCounts(v, u) ==
    /\ u.in = v.in /\ u.sock = v.sock /\ u.tcp = v.tcp /\ u.acked = v.acked
SameOutFlags(v, u) ==
    /\ u.stdin_eof = v.stdin_eof /\ u.outbound_end = v.outbound_end
    /\ u.outbound_shutdown = v.outbound_shutdown /\ u.up_shut = v.up_shut
    /\ u.data_eof = v.data_eof /\ u.tcp_end = v.tcp_end
SameInCounts(v, u) ==
    /\ u.net = v.net /\ u.pipe = v.pipe /\ u.app = v.app /\ u.out = v.out
SameInFlags(v, u) ==
    /\ u.peer_end = v.peer_end /\ u.tcp_shutdown = v.tcp_shutdown
    /\ u.down_shut = v.down_shut /\ u.inbound_end = v.inbound_end
    /\ u.socket_eof = v.socket_eof /\ u.stdout_closed = v.stdout_closed
SameConn(v, u) ==
    /\ u.state = v.state /\ u.active = v.active /\ u.error = v.error
    /\ u.failure = v.failure

SetInput(v, n, x, y, u) ==
    /\ u \in World /\ u.in = n /\ u.stdin_eof = x /\ u.outbound_end = y
    /\ u.sock = v.sock /\ u.tcp = v.tcp /\ u.acked = v.acked
    /\ u.outbound_shutdown = v.outbound_shutdown /\ u.up_shut = v.up_shut
    /\ u.data_eof = v.data_eof /\ u.tcp_end = v.tcp_end /\ SameInCounts(v, u)
    /\ SameInFlags(v, u) /\ SameConn(v, u)
LEMMA SetInputFacts ==
  ASSUME NEW v \in World, NEW n \in Int, NEW x \in BOOLEAN, NEW y \in BOOLEAN, NEW u,
         u = [ v EXCEPT !.in = n, !.stdin_eof = x, !.outbound_end = y ]
  PROVE  SetInput(v, n, x, y, u)
<1> DEFINE a == [ v EXCEPT !.in = n ]
           b == [ a EXCEPT !.stdin_eof = x ]
<1>1. u = [ b EXCEPT !.outbound_end = y ] OBVIOUS
<1>2. /\ u.in = n /\ u.stdin_eof = x /\ u.outbound_end = y /\ u.sock = v.sock
      /\ u.tcp = v.tcp /\ u.acked = v.acked /\ u.outbound_shutdown = v.outbound_shutdown
      /\ u.up_shut = v.up_shut /\ u.data_eof = v.data_eof /\ u.tcp_end = v.tcp_end
      /\ SameInCounts(v, u) /\ SameInFlags(v, u) /\ SameConn(v, u)
  BY DEF World, SameInCounts, SameInFlags, SameConn
<1>3. a \in World BY NumberUpdates
<1> HIDE DEF a
<1>4. b \in World BY <1>3, OwnerFlagUpdates
<1> HIDE DEF b
<1>5. u \in World BY <1>1, <1>4, OwnerFlagUpdates
<1> QED BY <1>2, <1>5 DEF SetInput

SetRead(v, n, x, y, u) ==
    /\ u \in World /\ u.app = n /\ u.socket_eof = x /\ u.inbound_end = y
    /\ u.net = v.net /\ u.pipe = v.pipe /\ u.out = v.out /\ u.peer_end = v.peer_end
    /\ u.tcp_shutdown = v.tcp_shutdown /\ u.down_shut = v.down_shut
    /\ u.stdout_closed = v.stdout_closed /\ SameOutCounts(v, u) /\ SameOutFlags(v, u)
    /\ SameConn(v, u)
LEMMA SetReadFacts ==
  ASSUME NEW v \in World, NEW n \in Int, NEW x \in BOOLEAN, NEW y \in BOOLEAN, NEW u,
         u = [ v EXCEPT !.app = n, !.socket_eof = x, !.inbound_end = y ]
  PROVE  SetRead(v, n, x, y, u)
<1> DEFINE a == [ v EXCEPT !.app = n ]
           b == [ a EXCEPT !.socket_eof = x ]
<1>1. u = [ b EXCEPT !.inbound_end = y ] OBVIOUS
<1>2. /\ u.app = n /\ u.socket_eof = x /\ u.inbound_end = y /\ u.net = v.net
      /\ u.pipe = v.pipe /\ u.out = v.out /\ u.peer_end = v.peer_end
      /\ u.tcp_shutdown = v.tcp_shutdown /\ u.down_shut = v.down_shut
      /\ u.stdout_closed = v.stdout_closed /\ SameOutCounts(v, u) /\ SameOutFlags(v, u)
      /\ SameConn(v, u)
  BY DEF World, SameOutCounts, SameOutFlags, SameConn
<1>3. a \in World BY NumberUpdates
<1> HIDE DEF a
<1>4. b \in World BY <1>3, OwnerFlagUpdates
<1> HIDE DEF b
<1>5. u \in World BY <1>1, <1>4, OwnerFlagUpdates
<1> QED BY <1>2, <1>5 DEF SetRead

SetSock(v, n, u) ==
    /\ u \in World /\ u.sock = n /\ u.in = v.in /\ u.tcp = v.tcp /\ u.acked = v.acked
    /\ SameOutFlags(v, u) /\ SameInCounts(v, u) /\ SameInFlags(v, u) /\ SameConn(v, u)
LEMMA SetSockFacts ==
  ASSUME NEW v \in World, NEW n \in Int, NEW u,
         u = [ v EXCEPT !.sock = n ]
  PROVE  SetSock(v, n, u)
<1>1. u \in World BY NumberUpdates
<1>2. /\ u.sock = n /\ u.in = v.in /\ u.tcp = v.tcp /\ u.acked = v.acked
      /\ SameOutFlags(v, u) /\ SameInCounts(v, u) /\ SameInFlags(v, u) /\ SameConn(v, u)
  BY DEF World, SameOutFlags, SameInCounts, SameInFlags, SameConn
<1> QED BY <1>1, <1>2 DEF SetSock

SetOut(v, n, u) ==
    /\ u \in World /\ u.out = n /\ u.net = v.net /\ u.pipe = v.pipe /\ u.app = v.app
    /\ SameOutCounts(v, u) /\ SameOutFlags(v, u) /\ SameInFlags(v, u) /\ SameConn(v, u)
LEMMA SetOutFacts ==
  ASSUME NEW v \in World, NEW n \in Int, NEW u,
         u = [ v EXCEPT !.out = n ]
  PROVE  SetOut(v, n, u)
<1>1. u \in World BY NumberUpdates
<1>2. /\ u.out = n /\ u.net = v.net /\ u.pipe = v.pipe /\ u.app = v.app
      /\ SameOutCounts(v, u) /\ SameOutFlags(v, u) /\ SameInFlags(v, u)
      /\ SameConn(v, u)
  BY DEF World, SameOutCounts, SameOutFlags, SameInFlags, SameConn
<1> QED BY <1>1, <1>2 DEF SetOut

SetPipe(v, n, u) ==
    /\ u \in World /\ u.pipe = n /\ u.net = v.net /\ u.app = v.app /\ u.out = v.out
    /\ SameOutCounts(v, u) /\ SameOutFlags(v, u) /\ SameInFlags(v, u) /\ SameConn(v, u)
LEMMA SetPipeFacts ==
  ASSUME NEW v \in World, NEW n \in Int, NEW u,
         u = [ v EXCEPT !.pipe = n ]
  PROVE  SetPipe(v, n, u)
<1>1. u \in World BY NumberUpdates
<1>2. /\ u.pipe = n /\ u.net = v.net /\ u.app = v.app /\ u.out = v.out
      /\ SameOutCounts(v, u) /\ SameOutFlags(v, u) /\ SameInFlags(v, u)
      /\ SameConn(v, u)
  BY DEF World, SameOutCounts, SameOutFlags, SameInFlags, SameConn
<1> QED BY <1>1, <1>2 DEF SetPipe

SetAcked(v, n, u) ==
    /\ u \in World /\ u.acked = n /\ u.in = v.in /\ u.sock = v.sock /\ u.tcp = v.tcp
    /\ SameOutFlags(v, u) /\ SameInCounts(v, u) /\ SameInFlags(v, u) /\ SameConn(v, u)
LEMMA SetAckedFacts ==
  ASSUME NEW v \in World, NEW n \in Int, NEW u,
         u = [ v EXCEPT !.acked = n ]
  PROVE  SetAcked(v, n, u)
<1>1. u \in World BY NumberUpdates
<1>2. /\ u.acked = n /\ u.in = v.in /\ u.sock = v.sock /\ u.tcp = v.tcp
      /\ SameOutFlags(v, u) /\ SameInCounts(v, u) /\ SameInFlags(v, u) /\ SameConn(v, u)
  BY DEF World, SameOutFlags, SameInCounts, SameInFlags, SameConn
<1> QED BY <1>1, <1>2 DEF SetAcked

SetStdoutClosed(v, n, u) ==
    /\ u \in World /\ u.stdout_closed = n /\ u.peer_end = v.peer_end
    /\ u.tcp_shutdown = v.tcp_shutdown /\ u.down_shut = v.down_shut
    /\ u.inbound_end = v.inbound_end /\ u.socket_eof = v.socket_eof
    /\ SameOutCounts(v, u) /\ SameOutFlags(v, u) /\ SameInCounts(v, u) /\ SameConn(v, u)
LEMMA SetStdoutClosedFacts ==
  ASSUME NEW v \in World, NEW n \in BOOLEAN, NEW u,
         u = [ v EXCEPT !.stdout_closed = n ]
  PROVE  SetStdoutClosed(v, n, u)
<1>1. u \in World BY OwnerFlagUpdates
<1>2. /\ u.stdout_closed = n /\ u.peer_end = v.peer_end
      /\ u.tcp_shutdown = v.tcp_shutdown /\ u.down_shut = v.down_shut
      /\ u.inbound_end = v.inbound_end /\ u.socket_eof = v.socket_eof
      /\ SameOutCounts(v, u) /\ SameOutFlags(v, u) /\ SameInCounts(v, u)
      /\ SameConn(v, u)
  BY DEF World, SameOutCounts, SameOutFlags, SameInCounts, SameConn
<1> QED BY <1>1, <1>2 DEF SetStdoutClosed

SetOutboundShutdown(v, n, u) ==
    /\ u \in World /\ u.outbound_shutdown = n /\ u.stdin_eof = v.stdin_eof
    /\ u.outbound_end = v.outbound_end /\ u.up_shut = v.up_shut
    /\ u.data_eof = v.data_eof /\ u.tcp_end = v.tcp_end /\ SameOutCounts(v, u)
    /\ SameInCounts(v, u) /\ SameInFlags(v, u) /\ SameConn(v, u)
LEMMA SetOutboundShutdownFacts ==
  ASSUME NEW v \in World, NEW n \in BOOLEAN, NEW u,
         u = [ v EXCEPT !.outbound_shutdown = n ]
  PROVE  SetOutboundShutdown(v, n, u)
<1>1. u \in World BY OwnerFlagUpdates
<1>2. /\ u.outbound_shutdown = n /\ u.stdin_eof = v.stdin_eof
      /\ u.outbound_end = v.outbound_end /\ u.up_shut = v.up_shut
      /\ u.data_eof = v.data_eof /\ u.tcp_end = v.tcp_end /\ SameOutCounts(v, u)
      /\ SameInCounts(v, u) /\ SameInFlags(v, u) /\ SameConn(v, u)
  BY DEF World, SameOutCounts, SameInCounts, SameInFlags, SameConn
<1> QED BY <1>1, <1>2 DEF SetOutboundShutdown

SetTcpShutdown(v, n, u) ==
    /\ u \in World /\ u.tcp_shutdown = n /\ u.peer_end = v.peer_end
    /\ u.down_shut = v.down_shut /\ u.inbound_end = v.inbound_end
    /\ u.socket_eof = v.socket_eof /\ u.stdout_closed = v.stdout_closed
    /\ SameOutCounts(v, u) /\ SameOutFlags(v, u) /\ SameInCounts(v, u) /\ SameConn(v, u)
LEMMA SetTcpShutdownFacts ==
  ASSUME NEW v \in World, NEW n \in BOOLEAN, NEW u,
         u = [ v EXCEPT !.tcp_shutdown = n ]
  PROVE  SetTcpShutdown(v, n, u)
<1>1. u \in World BY ThreadFlagUpdates
<1>2. /\ u.tcp_shutdown = n /\ u.peer_end = v.peer_end /\ u.down_shut = v.down_shut
      /\ u.inbound_end = v.inbound_end /\ u.socket_eof = v.socket_eof
      /\ u.stdout_closed = v.stdout_closed /\ SameOutCounts(v, u) /\ SameOutFlags(v, u)
      /\ SameInCounts(v, u) /\ SameConn(v, u)
  BY DEF World, SameOutCounts, SameOutFlags, SameInCounts, SameConn
<1> QED BY <1>1, <1>2 DEF SetTcpShutdown

SetActive(v, n, u) ==
    /\ u \in World /\ u.active = n /\ u.state = v.state /\ u.error = v.error
    /\ u.failure = v.failure /\ SameOutCounts(v, u) /\ SameOutFlags(v, u)
    /\ SameInCounts(v, u) /\ SameInFlags(v, u)
LEMMA SetActiveFacts ==
  ASSUME NEW v \in World, NEW n \in BOOLEAN, NEW u,
         u = [ v EXCEPT !.active = n ]
  PROVE  SetActive(v, n, u)
<1>1. u \in World BY ThreadFlagUpdates
<1>2. /\ u.active = n /\ u.state = v.state /\ u.error = v.error /\ u.failure = v.failure
      /\ SameOutCounts(v, u) /\ SameOutFlags(v, u) /\ SameInCounts(v, u)
      /\ SameInFlags(v, u)
  BY DEF World, SameOutCounts, SameOutFlags, SameInCounts, SameInFlags
<1> QED BY <1>1, <1>2 DEF SetActive

SetState(v, n, u) ==
    /\ u \in World /\ u.state = n /\ u.active = v.active /\ u.error = v.error
    /\ u.failure = v.failure /\ SameOutCounts(v, u) /\ SameOutFlags(v, u)
    /\ SameInCounts(v, u) /\ SameInFlags(v, u)
LEMMA SetStateFacts ==
  ASSUME NEW v \in World, NEW n \in States, NEW u,
         u = [ v EXCEPT !.state = n ]
  PROVE  SetState(v, n, u)
<1>1. u \in World BY OtherUpdates
<1>2. /\ u.state = n /\ u.active = v.active /\ u.error = v.error
      /\ u.failure = v.failure /\ SameOutCounts(v, u) /\ SameOutFlags(v, u)
      /\ SameInCounts(v, u) /\ SameInFlags(v, u)
  BY DEF World, SameOutCounts, SameOutFlags, SameInCounts, SameInFlags
<1> QED BY <1>1, <1>2 DEF SetState

SetFailure(v, n, u) ==
    /\ u \in World /\ u.failure = n /\ u.state = v.state /\ u.active = v.active
    /\ u.error = v.error /\ SameOutCounts(v, u) /\ SameOutFlags(v, u)
    /\ SameInCounts(v, u) /\ SameInFlags(v, u)
LEMMA SetFailureFacts ==
  ASSUME NEW v \in World, NEW n \in Failures, NEW u,
         u = [ v EXCEPT !.failure = n ]
  PROVE  SetFailure(v, n, u)
<1>1. u \in World BY OtherUpdates
<1>2. /\ u.failure = n /\ u.state = v.state /\ u.active = v.active /\ u.error = v.error
      /\ SameOutCounts(v, u) /\ SameOutFlags(v, u) /\ SameInCounts(v, u)
      /\ SameInFlags(v, u)
  BY DEF World, SameOutCounts, SameOutFlags, SameInCounts, SameInFlags
<1> QED BY <1>1, <1>2 DEF SetFailure

SetSegments(v, n, u) ==
    /\ u \in World /\ u.segments = n /\ SameOutCounts(v, u) /\ SameOutFlags(v, u)
    /\ SameInCounts(v, u) /\ SameInFlags(v, u) /\ SameConn(v, u)
LEMMA SetSegmentsFacts ==
  ASSUME NEW v \in World, NEW n \in BOOLEAN, NEW u,
         u = [ v EXCEPT !.segments = n ]
  PROVE  SetSegments(v, n, u)
<1>1. u \in World BY ThreadFlagUpdates
<1>2. /\ u.segments = n /\ SameOutCounts(v, u) /\ SameOutFlags(v, u)
      /\ SameInCounts(v, u) /\ SameInFlags(v, u) /\ SameConn(v, u)
  BY DEF World, SameOutCounts, SameOutFlags, SameInCounts, SameInFlags, SameConn
<1> QED BY <1>1, <1>2 DEF SetSegments

SetDataEof(v, n, u) ==
    /\ u \in World /\ u.data_eof = n /\ u.stdin_eof = v.stdin_eof
    /\ u.outbound_end = v.outbound_end /\ u.outbound_shutdown = v.outbound_shutdown
    /\ u.up_shut = v.up_shut /\ u.tcp_end = v.tcp_end /\ SameOutCounts(v, u)
    /\ SameInCounts(v, u) /\ SameInFlags(v, u) /\ SameConn(v, u)
LEMMA SetDataEofFacts ==
  ASSUME NEW v \in World, NEW n \in BOOLEAN, NEW u,
         u = [ v EXCEPT !.data_eof = n ]
  PROVE  SetDataEof(v, n, u)
<1>1. u \in World BY ThreadFlagUpdates
<1>2. /\ u.data_eof = n /\ u.stdin_eof = v.stdin_eof /\ u.outbound_end = v.outbound_end
      /\ u.outbound_shutdown = v.outbound_shutdown /\ u.up_shut = v.up_shut
      /\ u.tcp_end = v.tcp_end /\ SameOutCounts(v, u) /\ SameInCounts(v, u)
      /\ SameInFlags(v, u) /\ SameConn(v, u)
  BY DEF World, SameOutCounts, SameInCounts, SameInFlags, SameConn
<1> QED BY <1>1, <1>2 DEF SetDataEof

SetTcpEndSegments(v, n, x, u) ==
    /\ u \in World /\ u.tcp_end = n /\ u.segments = x /\ u.stdin_eof = v.stdin_eof
    /\ u.outbound_end = v.outbound_end /\ u.outbound_shutdown = v.outbound_shutdown
    /\ u.up_shut = v.up_shut /\ u.data_eof = v.data_eof /\ SameOutCounts(v, u)
    /\ SameInCounts(v, u) /\ SameInFlags(v, u) /\ SameConn(v, u)
LEMMA SetTcpEndSegmentsFacts ==
  ASSUME NEW v \in World, NEW n \in BOOLEAN, NEW x \in BOOLEAN, NEW u,
         u = [ v EXCEPT !.tcp_end = n, !.segments = x ]
  PROVE  SetTcpEndSegments(v, n, x, u)
<1> DEFINE a == [ v EXCEPT !.tcp_end = n ]
<1>1. u = [ a EXCEPT !.segments = x ] OBVIOUS
<1>2. /\ u.tcp_end = n /\ u.segments = x /\ u.stdin_eof = v.stdin_eof
      /\ u.outbound_end = v.outbound_end /\ u.outbound_shutdown = v.outbound_shutdown
      /\ u.up_shut = v.up_shut /\ u.data_eof = v.data_eof /\ SameOutCounts(v, u)
      /\ SameInCounts(v, u) /\ SameInFlags(v, u) /\ SameConn(v, u)
  BY DEF World, SameOutCounts, SameInCounts, SameInFlags, SameConn
<1>3. a \in World BY ThreadFlagUpdates
<1> HIDE DEF a
<1>4. u \in World BY <1>1, <1>3, ThreadFlagUpdates
<1> QED BY <1>2, <1>4 DEF SetTcpEndSegments

SetTcpSegments(v, n, x, u) ==
    /\ u \in World /\ u.tcp = n /\ u.segments = x /\ u.in = v.in /\ u.sock = v.sock
    /\ u.acked = v.acked /\ SameOutFlags(v, u) /\ SameInCounts(v, u)
    /\ SameInFlags(v, u) /\ SameConn(v, u)
LEMMA SetTcpSegmentsFacts ==
  ASSUME NEW v \in World, NEW n \in Int, NEW x \in BOOLEAN, NEW u,
         u = [ v EXCEPT !.tcp = n, !.segments = x ]
  PROVE  SetTcpSegments(v, n, x, u)
<1> DEFINE a == [ v EXCEPT !.tcp = n ]
<1>1. u = [ a EXCEPT !.segments = x ] OBVIOUS
<1>2. /\ u.tcp = n /\ u.segments = x /\ u.in = v.in /\ u.sock = v.sock
      /\ u.acked = v.acked /\ SameOutFlags(v, u) /\ SameInCounts(v, u)
      /\ SameInFlags(v, u) /\ SameConn(v, u)
  BY DEF World, SameOutFlags, SameInCounts, SameInFlags, SameConn
<1>3. a \in World BY NumberUpdates
<1> HIDE DEF a
<1>4. u \in World BY <1>1, <1>3, ThreadFlagUpdates
<1> QED BY <1>2, <1>4 DEF SetTcpSegments

SetStateSegments(v, n, x, u) ==
    /\ u \in World /\ u.state = n /\ u.segments = x /\ u.active = v.active
    /\ u.error = v.error /\ u.failure = v.failure /\ SameOutCounts(v, u)
    /\ SameOutFlags(v, u) /\ SameInCounts(v, u) /\ SameInFlags(v, u)
LEMMA SetStateSegmentsFacts ==
  ASSUME NEW v \in World, NEW n \in States, NEW x \in BOOLEAN, NEW u,
         u = [ v EXCEPT !.state = n, !.segments = x ]
  PROVE  SetStateSegments(v, n, x, u)
<1> DEFINE a == [ v EXCEPT !.state = n ]
<1>1. u = [ a EXCEPT !.segments = x ] OBVIOUS
<1>2. /\ u.state = n /\ u.segments = x /\ u.active = v.active /\ u.error = v.error
      /\ u.failure = v.failure /\ SameOutCounts(v, u) /\ SameOutFlags(v, u)
      /\ SameInCounts(v, u) /\ SameInFlags(v, u)
  BY DEF World, SameOutCounts, SameOutFlags, SameInCounts, SameInFlags
<1>3. a \in World BY OtherUpdates
<1> HIDE DEF a
<1>4. u \in World BY <1>1, <1>3, ThreadFlagUpdates
<1> QED BY <1>2, <1>4 DEF SetStateSegments

SetNetSegments(v, n, x, u) ==
    /\ u \in World /\ u.net = n /\ u.segments = x /\ u.pipe = v.pipe /\ u.app = v.app
    /\ u.out = v.out /\ SameOutCounts(v, u) /\ SameOutFlags(v, u) /\ SameInFlags(v, u)
    /\ SameConn(v, u)
LEMMA SetNetSegmentsFacts ==
  ASSUME NEW v \in World, NEW n \in Int, NEW x \in BOOLEAN, NEW u,
         u = [ v EXCEPT !.net = n, !.segments = x ]
  PROVE  SetNetSegments(v, n, x, u)
<1> DEFINE a == [ v EXCEPT !.net = n ]
<1>1. u = [ a EXCEPT !.segments = x ] OBVIOUS
<1>2. /\ u.net = n /\ u.segments = x /\ u.pipe = v.pipe /\ u.app = v.app
      /\ u.out = v.out /\ SameOutCounts(v, u) /\ SameOutFlags(v, u) /\ SameInFlags(v, u)
      /\ SameConn(v, u)
  BY DEF World, SameOutCounts, SameOutFlags, SameInFlags, SameConn
<1>3. a \in World BY NumberUpdates
<1> HIDE DEF a
<1>4. u \in World BY <1>1, <1>3, ThreadFlagUpdates
<1> QED BY <1>2, <1>4 DEF SetNetSegments

SetPeerEndSegments(v, n, x, u) ==
    /\ u \in World /\ u.peer_end = n /\ u.segments = x
    /\ u.tcp_shutdown = v.tcp_shutdown /\ u.down_shut = v.down_shut
    /\ u.inbound_end = v.inbound_end /\ u.socket_eof = v.socket_eof
    /\ u.stdout_closed = v.stdout_closed /\ SameOutCounts(v, u) /\ SameOutFlags(v, u)
    /\ SameInCounts(v, u) /\ SameConn(v, u)
LEMMA SetPeerEndSegmentsFacts ==
  ASSUME NEW v \in World, NEW n \in BOOLEAN, NEW x \in BOOLEAN, NEW u,
         u = [ v EXCEPT !.peer_end = n, !.segments = x ]
  PROVE  SetPeerEndSegments(v, n, x, u)
<1> DEFINE a == [ v EXCEPT !.peer_end = n ]
<1>1. u = [ a EXCEPT !.segments = x ] OBVIOUS
<1>2. /\ u.peer_end = n /\ u.segments = x /\ u.tcp_shutdown = v.tcp_shutdown
      /\ u.down_shut = v.down_shut /\ u.inbound_end = v.inbound_end
      /\ u.socket_eof = v.socket_eof /\ u.stdout_closed = v.stdout_closed
      /\ SameOutCounts(v, u) /\ SameOutFlags(v, u) /\ SameInCounts(v, u)
      /\ SameConn(v, u)
  BY DEF World, SameOutCounts, SameOutFlags, SameInCounts, SameConn
<1>3. a \in World BY ThreadFlagUpdates
<1> HIDE DEF a
<1>4. u \in World BY <1>1, <1>3, ThreadFlagUpdates
<1> QED BY <1>2, <1>4 DEF SetPeerEndSegments

SetErrorActive(v, n, x, u) ==
    /\ u \in World /\ u.error = n /\ u.active = x /\ u.state = v.state
    /\ u.failure = v.failure /\ SameOutCounts(v, u) /\ SameOutFlags(v, u)
    /\ SameInCounts(v, u) /\ SameInFlags(v, u)
LEMMA SetErrorActiveFacts ==
  ASSUME NEW v \in World, NEW n \in BOOLEAN, NEW x \in BOOLEAN, NEW u,
         u = [ v EXCEPT !.error = n, !.active = x ]
  PROVE  SetErrorActive(v, n, x, u)
<1> DEFINE a == [ v EXCEPT !.error = n ]
<1>1. u = [ a EXCEPT !.active = x ] OBVIOUS
<1>2. /\ u.error = n /\ u.active = x /\ u.state = v.state /\ u.failure = v.failure
      /\ SameOutCounts(v, u) /\ SameOutFlags(v, u) /\ SameInCounts(v, u)
      /\ SameInFlags(v, u)
  BY DEF World, SameOutCounts, SameOutFlags, SameInCounts, SameInFlags
<1>3. a \in World BY ThreadFlagUpdates
<1> HIDE DEF a
<1>4. u \in World BY <1>1, <1>3, ThreadFlagUpdates
<1> QED BY <1>2, <1>4 DEF SetErrorActive

SetUpShutDownShut(v, n, x, u) ==
    /\ u \in World /\ u.up_shut = n /\ u.down_shut = x /\ u.stdin_eof = v.stdin_eof
    /\ u.outbound_end = v.outbound_end /\ u.outbound_shutdown = v.outbound_shutdown
    /\ u.data_eof = v.data_eof /\ u.tcp_end = v.tcp_end /\ u.peer_end = v.peer_end
    /\ u.tcp_shutdown = v.tcp_shutdown /\ u.inbound_end = v.inbound_end
    /\ u.socket_eof = v.socket_eof /\ u.stdout_closed = v.stdout_closed
    /\ SameOutCounts(v, u) /\ SameInCounts(v, u) /\ SameConn(v, u)
LEMMA SetUpShutDownShutFacts ==
  ASSUME NEW v \in World, NEW n \in BOOLEAN, NEW x \in BOOLEAN, NEW u,
         u = [ v EXCEPT !.up_shut = n, !.down_shut = x ]
  PROVE  SetUpShutDownShut(v, n, x, u)
<1> DEFINE a == [ v EXCEPT !.up_shut = n ]
<1>1. u = [ a EXCEPT !.down_shut = x ] OBVIOUS
<1>2. /\ u.up_shut = n /\ u.down_shut = x /\ u.stdin_eof = v.stdin_eof
      /\ u.outbound_end = v.outbound_end /\ u.outbound_shutdown = v.outbound_shutdown
      /\ u.data_eof = v.data_eof /\ u.tcp_end = v.tcp_end /\ u.peer_end = v.peer_end
      /\ u.tcp_shutdown = v.tcp_shutdown /\ u.inbound_end = v.inbound_end
      /\ u.socket_eof = v.socket_eof /\ u.stdout_closed = v.stdout_closed
      /\ SameOutCounts(v, u) /\ SameInCounts(v, u) /\ SameConn(v, u)
  BY DEF World, SameOutCounts, SameInCounts, SameConn
<1>3. a \in World BY OwnerFlagUpdates
<1> HIDE DEF a
<1>4. u \in World BY <1>1, <1>3, OwnerFlagUpdates
<1> QED BY <1>2, <1>4 DEF SetUpShutDownShut

SetOutboundEnd(v, n, u) ==
    /\ u \in World /\ u.outbound_end = n /\ u.stdin_eof = v.stdin_eof
    /\ u.outbound_shutdown = v.outbound_shutdown /\ u.up_shut = v.up_shut
    /\ u.data_eof = v.data_eof /\ u.tcp_end = v.tcp_end /\ SameOutCounts(v, u)
    /\ SameInCounts(v, u) /\ SameInFlags(v, u) /\ SameConn(v, u)
LEMMA SetOutboundEndFacts ==
  ASSUME NEW v \in World, NEW n \in BOOLEAN, NEW u,
         u = [ v EXCEPT !.outbound_end = n ]
  PROVE  SetOutboundEnd(v, n, u)
<1>1. u \in World BY OwnerFlagUpdates
<1>2. /\ u.outbound_end = n /\ u.stdin_eof = v.stdin_eof
      /\ u.outbound_shutdown = v.outbound_shutdown /\ u.up_shut = v.up_shut
      /\ u.data_eof = v.data_eof /\ u.tcp_end = v.tcp_end /\ SameOutCounts(v, u)
      /\ SameInCounts(v, u) /\ SameInFlags(v, u) /\ SameConn(v, u)
  BY DEF World, SameOutCounts, SameInCounts, SameInFlags, SameConn
<1> QED BY <1>1, <1>2 DEF SetOutboundEnd

SetInboundEnd(v, n, u) ==
    /\ u \in World /\ u.inbound_end = n /\ u.peer_end = v.peer_end
    /\ u.tcp_shutdown = v.tcp_shutdown /\ u.down_shut = v.down_shut
    /\ u.socket_eof = v.socket_eof /\ u.stdout_closed = v.stdout_closed
    /\ SameOutCounts(v, u) /\ SameOutFlags(v, u) /\ SameInCounts(v, u) /\ SameConn(v, u)
LEMMA SetInboundEndFacts ==
  ASSUME NEW v \in World, NEW n \in BOOLEAN, NEW u,
         u = [ v EXCEPT !.inbound_end = n ]
  PROVE  SetInboundEnd(v, n, u)
<1>1. u \in World BY OwnerFlagUpdates
<1>2. /\ u.inbound_end = n /\ u.peer_end = v.peer_end /\ u.tcp_shutdown = v.tcp_shutdown
      /\ u.down_shut = v.down_shut /\ u.socket_eof = v.socket_eof
      /\ u.stdout_closed = v.stdout_closed /\ SameOutCounts(v, u) /\ SameOutFlags(v, u)
      /\ SameInCounts(v, u) /\ SameConn(v, u)
  BY DEF World, SameOutCounts, SameOutFlags, SameInCounts, SameConn
<1> QED BY <1>1, <1>2 DEF SetInboundEnd

-----------------------------------------------------------------------------
\* What is true of the bytes and the streams as long as nothing was reset: no
\* queue is longer than it may be, the bytes are in order, and every sign of the
\* end of a stream comes after the last byte.
Queues(v) ==
    /\ 0 <= v.acked /\ v.tcp <= v.sock /\ v.sock <= v.in /\ v.in <= N
    /\ v.out <= v.app /\ v.app <= v.pipe /\ v.pipe <= v.net /\ v.net <= M
    /\ v.in - v.sock <= AppCapacity /\ v.sock - v.tcp <= PipeCapacity
    /\ v.tcp - v.acked <= TcpCapacity
    /\ v.app - v.out <= AppCapacity /\ v.pipe - v.app <= PipeCapacity
    /\ v.acked <= v.tcp + 1 /\ (v.acked = v.tcp + 1 => v.tcp_end)

Outbound(v) ==
    /\ v.stdin_eof => v.outbound_end
    /\ v.outbound_end => v.in = N
    /\ v.outbound_shutdown => v.outbound_end /\ v.sock = v.in
    /\ v.up_shut => v.sock = N /\ (v.outbound_shutdown \/ v.tcp = N)
    /\ v.data_eof => v.tcp_end
    /\ v.tcp_end => v.tcp = N

Inbound(v) ==
    /\ v.peer_end => v.net = M
    /\ v.tcp_shutdown => v.peer_end /\ v.pipe = v.net
    /\ v.down_shut => v.pipe = M /\ (v.tcp_shutdown \/ v.app = M)
    /\ v.inbound_end => v.app = M
    /\ v.socket_eof => v.inbound_end
    /\ v.stdout_closed => v.inbound_end /\ v.out = v.app

\* A connection that is closed has finished both streams.
Closing(v) == ~v.active => v.peer_end /\ v.tcp_end /\ v.acked = v.tcp + 1

Flow(v) == Queues(v) /\ Outbound(v) /\ Inbound(v) /\ Closing(v) /\ v.failure = "none"

LEMMA ReadFacts ==
  ASSUME NEW a \in Int, NEW b \in Int
  PROVE  /\ read(a, b).n \in Int /\ read(a, b).eof \in BOOLEAN
         /\ read(a, b).n <= a /\ read(a, b).n <= b
         /\ (a >= 0 /\ b >= 0 => read(a, b).n >= 0)
         /\ (read(a, b).eof <=> a > 0 /\ b = 0)
         /\ (a > 0 /\ b > 0 => read(a, b).n > 0)
<1>1. MinOf(a, b) \in Int /\ MinOf(a, b) <= a /\ MinOf(a, b) <= b
      /\ (a >= 0 /\ b >= 0 => MinOf(a, b) >= 0) /\ (a > 0 /\ b > 0 => MinOf(a, b) > 0)
  BY DEF MinOf
<1>2. read(a, b).n = MinOf(a, b) /\ read(a, b).eof = (a > 0 /\ b = 0) BY DEF read
<1> QED BY <1>1, <1>2

LEMMA WriteFacts ==
  ASSUME NEW a \in Int, NEW b \in Int
  PROVE  /\ write(a, b) \in Int /\ write(a, b) <= a /\ write(a, b) <= b
         /\ (a >= 0 /\ b >= 0 => write(a, b) >= 0)
BY DEF write, MinOf

LEMMA Capacities ==
  /\ N \in Nat /\ M \in Nat
  /\ AppCapacity \in Nat /\ AppCapacity > 0
  /\ PipeCapacity \in Nat /\ PipeCapacity > 0
  /\ TcpCapacity \in Nat /\ TcpCapacity > 0
BY SocketAssumption

-----------------------------------------------------------------------------
\* What a callback of the owner leaves alone: all that the TCP thread has.
OwnerKeeps(v, u) ==
    /\ u.tcp = v.tcp /\ u.acked = v.acked /\ u.net = v.net /\ u.pipe = v.pipe
    /\ u.data_eof = v.data_eof /\ u.tcp_end = v.tcp_end
    /\ u.tcp_shutdown = v.tcp_shutdown /\ u.peer_end = v.peer_end
    /\ u.state = v.state /\ u.active = v.active
    /\ v.sock <= u.sock /\ (v.up_shut => u.up_shut) /\ (v.down_shut => u.down_shut)

\* What the callback of the rule r does besides.
OwnerServed(v, u, r) ==
    /\ OwnerKeeps(v, u)
    /\ r # "from_socket" => u.app = v.app /\ u.socket_eof = v.socket_eof
    /\ r # "stdin" => u.stdin_eof = v.stdin_eof
    /\ r # "stdout" => u.stdout_closed = v.stdout_closed

LEMMA ReadStdinServes ==
  ASSUME NEW v \in World
  PROVE  /\ ReadStdin(v) \in World /\ ReadStdin(v).error = v.error
         /\ Flow(v) => Flow(ReadStdin(v)) /\ OwnerServed(v, ReadStdin(v), "stdin")
<1> DEFINE a == AppCapacity - (v.in - v.sock)
           b == N - v.in
           n == read(a, b).n
           e == read(a, b).eof
           m == v.in + n
           o == v.outbound_end \/ e
           u == ReadStdin(v)
<1>1. v.in \in Int /\ v.sock \in Int /\ v.outbound_end \in BOOLEAN BY WorldFields
<1>2. a \in Int /\ b \in Int BY <1>1, Capacities
<1>3. u = [ v EXCEPT !.in = m, !.stdin_eof = e, !.outbound_end = o ] BY DEF ReadStdin
<1>4. a = AppCapacity - (v.in - v.sock) /\ b = N - v.in OBVIOUS
<1> HIDE DEF a, b
<1>5. /\ n \in Int /\ e \in BOOLEAN /\ n <= a /\ n <= b /\ (a >= 0 /\ b >= 0 => n >= 0)
      /\ (e => b = 0)
  BY <1>2, ReadFacts
<1>6. m = v.in + n /\ (o <=> v.outbound_end \/ e) OBVIOUS
<1> HIDE DEF n, e
<1>7. m \in Int /\ o \in BOOLEAN BY <1>1, <1>5
<1> HIDE DEF m, o, u
<1>8. /\ u \in World /\ u.in = m /\ u.stdin_eof = e /\ u.outbound_end = o
      /\ u.sock = v.sock /\ u.tcp = v.tcp /\ u.acked = v.acked
      /\ u.outbound_shutdown = v.outbound_shutdown /\ u.up_shut = v.up_shut
      /\ u.data_eof = v.data_eof /\ u.tcp_end = v.tcp_end /\ SameInCounts(v, u)
      /\ SameInFlags(v, u) /\ SameConn(v, u)
  <2>1. SetInput(v, m, e, o, u) BY <1>3, <1>5, <1>7, SetInputFacts, ZenonT(30)
  <2> QED BY <2>1 DEF SetInput
<1>9. ASSUME Flow(v) PROVE Flow(u) /\ OwnerServed(v, u, "stdin")
  <2>1. n >= 0 BY <1>1, <1>2, <1>4, <1>5, <1>9, Capacities DEF Flow, Queues
  <2>2. Queues(u)
    BY <1>1, <1>2, <1>4, <1>5, <1>6, <1>7, <1>8, <1>9, <2>1, WorldFields, Capacities
    DEF Flow, Queues, SameInCounts
  <2>3. Outbound(u)
    BY <1>1, <1>2, <1>4, <1>5, <1>6, <1>7, <1>8, <1>9, <2>1, WorldFields, Capacities
    DEF Flow, Queues, Outbound
  <2>4. Inbound(u) /\ Closing(u) /\ u.failure = "none"
    BY <1>8, <1>9 DEF Flow, Inbound, Closing, SameInCounts, SameInFlags, SameConn
  <2>5. OwnerServed(v, u, "stdin")
    BY <1>8, WorldFields DEF OwnerServed, OwnerKeeps, SameInCounts, SameInFlags, SameConn
  <2> QED BY <2>2, <2>3, <2>4, <2>5 DEF Flow
<1> QED BY <1>8, <1>9 DEF SameConn, u

\* The callback that reads the socket; it finds the end of the stream only when
\* the direction is shut down.
LEMMA ReadSocketServes ==
  ASSUME NEW v \in World
  PROVE  /\ ReadSocket(v) \in World /\ ReadSocket(v).error = v.error
         /\ Flow(v) /\ (v.app < v.pipe \/ v.down_shut) =>
               Flow(ReadSocket(v)) /\ OwnerServed(v, ReadSocket(v), "from_socket")
<1> DEFINE a == AppCapacity - (v.app - v.out)
           b == v.pipe - v.app
           n == read(a, b).n
           e == read(a, b).eof
           m == v.app + n
           o == v.inbound_end \/ e
           u == ReadSocket(v)
<1>1. /\ v.app \in Int /\ v.out \in Int /\ v.pipe \in Int /\ v.net \in Int
      /\ v.inbound_end \in BOOLEAN /\ v.down_shut \in BOOLEAN
  BY WorldFields
<1>2. a \in Int /\ b \in Int BY <1>1, Capacities
<1>3. u = [ v EXCEPT !.app = m, !.socket_eof = e, !.inbound_end = o ] BY DEF ReadSocket
<1>4. a = AppCapacity - (v.app - v.out) /\ b = v.pipe - v.app OBVIOUS
<1> HIDE DEF a, b
<1>5. /\ n \in Int /\ e \in BOOLEAN /\ n <= a /\ n <= b /\ (a >= 0 /\ b >= 0 => n >= 0)
      /\ (e => b = 0)
  BY <1>2, ReadFacts
<1>6. m = v.app + n /\ (o <=> v.inbound_end \/ e) OBVIOUS
<1> HIDE DEF n, e
<1>7. m \in Int /\ o \in BOOLEAN BY <1>1, <1>5
<1> HIDE DEF m, o, u
<1>8. /\ u \in World /\ u.app = m /\ u.socket_eof = e /\ u.inbound_end = o
      /\ u.net = v.net /\ u.pipe = v.pipe /\ u.out = v.out /\ u.peer_end = v.peer_end
      /\ u.tcp_shutdown = v.tcp_shutdown /\ u.down_shut = v.down_shut
      /\ u.stdout_closed = v.stdout_closed /\ SameOutCounts(v, u) /\ SameOutFlags(v, u)
      /\ SameConn(v, u)
  <2>1. SetRead(v, m, e, o, u) BY <1>3, <1>5, <1>7, SetReadFacts, ZenonT(30)
  <2> QED BY <2>1 DEF SetRead
<1>9. ASSUME Flow(v), v.app < v.pipe \/ v.down_shut
      PROVE  Flow(u) /\ OwnerServed(v, u, "from_socket")
  <2>1. n >= 0 BY <1>1, <1>2, <1>4, <1>5, <1>9, Capacities DEF Flow, Queues
  <2>2. Queues(u)
    BY <1>1, <1>2, <1>4, <1>5, <1>6, <1>7, <1>8, <1>9, <2>1, WorldFields, Capacities
    DEF Flow, Queues, SameOutCounts, SameOutFlags
  <2>3. v.app <= m /\ m <= v.pipe BY <1>1, <1>4, <1>5, <1>6, <2>1
  <2>4. e => v.app = v.pipe /\ v.down_shut BY <1>1, <1>4, <1>5, <1>9
  <2>5. v.app = M => m = M
    BY <1>1, <1>9, <2>3, <1>7, Capacities DEF Flow, Queues
  <2>6. e => m = M
    BY <1>1, <1>7, <1>9, <2>3, <2>4, Capacities DEF Flow, Queues, Inbound
  <2>7. v.out = v.app /\ v.app = M => m = v.out BY <1>1, <2>5, Capacities
  <2>8. Inbound(u)
    BY <1>6, <1>8, <1>9, <2>5, <2>6, <2>7 DEF Flow, Inbound
  <2>9. Outbound(u) /\ Closing(u) /\ u.failure = "none"
    BY <1>8, <1>9 DEF Flow, Outbound, Closing, SameOutCounts, SameOutFlags, SameConn
  <2>10. OwnerServed(v, u, "from_socket")
    BY <1>8, WorldFields
    DEF OwnerServed, OwnerKeeps, SameOutCounts, SameOutFlags, SameConn
  <2> QED BY <2>2, <2>8, <2>9, <2>10 DEF Flow
<1> QED BY <1>8, <1>9 DEF SameConn, u

\* The callback that writes to standard output.
LEMMA WriteStdoutServes ==
  ASSUME NEW v \in World
  PROVE  /\ WriteStdout(v) \in World /\ WriteStdout(v).error = v.error
         /\ Flow(v) => Flow(WriteStdout(v)) /\ OwnerServed(v, WriteStdout(v), "stdout")
<1> DEFINE n == v.app
           wrote == [ v EXCEPT !.out = n ]
           closed == [ wrote EXCEPT !.stdout_closed = TRUE ]
           u == WriteStdout(v)
<1>1. u = IF InboundEof(wrote) THEN closed ELSE wrote BY DEF WriteStdout
<1>2. n \in Int BY WorldFields
<1>3. SetOut(v, n, wrote)
  <2> HIDE DEF n
  <2>1. wrote = [ v EXCEPT !.out = n ] OBVIOUS
  <2> HIDE DEF wrote
  <2> QED BY <1>2, <2>1, SetOutFacts, ZenonT(30)
<1> HIDE DEF wrote
<1>4. wrote \in World BY <1>3 DEF SetOut
<1>5. SetStdoutClosed(wrote, TRUE, closed)
  <2>1. closed = [ wrote EXCEPT !.stdout_closed = TRUE ] OBVIOUS
  <2> HIDE DEF closed
  <2> QED BY <1>4, <2>1, SetStdoutClosedFacts
<1> HIDE DEF closed
<1>6. CASE InboundEof(wrote)
  <2>1. u = closed BY <1>1, <1>6
  <2> HIDE DEF u
  <2>2. u \in World /\ u.error = v.error
    BY <1>3, <1>5, <2>1 DEF SetOut, SetStdoutClosed, SameConn
  <2>3. /\ u.out = v.app /\ u.net = v.net /\ u.pipe = v.pipe /\ u.app = v.app
        /\ u.stdout_closed /\ u.inbound_end /\ v.inbound_end
        /\ u.peer_end = v.peer_end /\ u.tcp_shutdown = v.tcp_shutdown
        /\ u.down_shut = v.down_shut /\ u.socket_eof = v.socket_eof
        /\ SameOutCounts(v, u) /\ SameOutFlags(v, u) /\ SameConn(v, u)
    BY <1>3, <1>5, <1>6, <2>1
    DEF SetOut, SetStdoutClosed, SameConn, SameInFlags, SameInCounts, SameOutCounts,
        SameOutFlags, InboundEof
  <2>4. ASSUME Flow(v) PROVE Flow(u) /\ OwnerServed(v, u, "stdout")
    <3>1. Queues(u)
      BY <2>3, <2>4, WorldFields, Capacities DEF Flow, Queues, SameOutCounts, SameOutFlags
    <3>2. Inbound(u) BY <2>3, <2>4 DEF Flow, Inbound
    <3>3. Outbound(u) /\ Closing(u) /\ u.failure = "none"
      BY <2>3, <2>4 DEF Flow, Outbound, Closing, SameOutCounts, SameOutFlags, SameConn
    <3>4. OwnerServed(v, u, "stdout")
      BY <2>3, WorldFields
      DEF OwnerServed, OwnerKeeps, SameOutCounts, SameOutFlags, SameConn
    <3> QED BY <3>1, <3>2, <3>3, <3>4 DEF Flow
  <2> QED BY <2>2, <2>4 DEF u
<1>7. CASE ~InboundEof(wrote)
  <2>1. u = wrote BY <1>1, <1>7
  <2> HIDE DEF u
  <2>2. u \in World /\ u.error = v.error BY <1>3, <2>1 DEF SetOut, SameConn
  <2>3. /\ u.out = v.app /\ u.net = v.net /\ u.pipe = v.pipe /\ u.app = v.app
        /\ SameInFlags(v, u) /\ SameOutCounts(v, u) /\ SameOutFlags(v, u) /\ SameConn(v, u)
    BY <1>3, <2>1 DEF SetOut
  <2>4. ASSUME Flow(v) PROVE Flow(u) /\ OwnerServed(v, u, "stdout")
    <3>1. Queues(u)
      BY <2>3, <2>4, WorldFields, Capacities DEF Flow, Queues, SameOutCounts, SameOutFlags
    <3>2. Inbound(u) BY <2>3, <2>4 DEF Flow, Inbound, SameInFlags
    <3>3. Outbound(u) /\ Closing(u) /\ u.failure = "none"
      BY <2>3, <2>4
      DEF Flow, Outbound, Closing, SameOutCounts, SameOutFlags, SameInFlags, SameConn
    <3>4. OwnerServed(v, u, "stdout")
      BY <2>3, WorldFields
      DEF OwnerServed, OwnerKeeps, SameOutCounts, SameOutFlags, SameInFlags, SameConn
    <3> QED BY <3>1, <3>2, <3>3, <3>4 DEF Flow
  <2> QED BY <2>2, <2>4 DEF u
<1> QED BY <1>6, <1>7

\* Socket::shutdown sets the flags of the directions.
LEMMA ShutdownFacts ==
  ASSUME NEW v \in World, NEW how
  PROVE  SetUpShutDownShut(v, v.up_shut \/ "up" \in how, v.down_shut \/ "down" \in how,
                           shutdown(v, how))
<1> DEFINE a == v.up_shut \/ "up" \in how
           b == v.down_shut \/ "down" \in how
           u == shutdown(v, how)
<1>1. a \in BOOLEAN /\ b \in BOOLEAN OBVIOUS
<1>2. u = [ v EXCEPT !.up_shut = a, !.down_shut = b ] BY DEF shutdown
<1> HIDE DEF a, b, u
<1>3. SetUpShutDownShut(v, a, b, u) BY <1>1, <1>2, SetUpShutDownShutFacts
<1> QED BY <1>3 DEF a, b, u

\* The callback that writes the socket; it shuts it down after the last byte.
LEMMA WriteSocketServes ==
  ASSUME NEW v \in World
  PROVE  /\ WriteSocket(v) \in World /\ WriteSocket(v).error = v.error
         /\ Flow(v) => Flow(WriteSocket(v)) /\ OwnerServed(v, WriteSocket(v), "to_socket")
<1> DEFINE a == v.in - v.sock
           b == PipeCapacity - (v.sock - v.tcp)
           n == write(a, b)
           m == v.sock + n
           failed == [ v EXCEPT !.failure = "owner pipe" ]
           sent == [ v EXCEPT !.sock = m ]
           over == [ sent EXCEPT !.outbound_shutdown = TRUE ]
           shut == shutdown(over, {"up"})
           u == WriteSocket(v)
<1>1. u = IF n > 0 /\ v.up_shut THEN failed ELSE IF OutboundEof(sent) THEN shut ELSE sent
  BY DEF WriteSocket
<1>2. v.in \in Int /\ v.sock \in Int /\ v.tcp \in Int /\ v.up_shut \in BOOLEAN
  BY WorldFields
<1>3. a \in Int /\ b \in Int BY <1>2, Capacities
<1>4. a = v.in - v.sock /\ b = PipeCapacity - (v.sock - v.tcp) OBVIOUS
<1> HIDE DEF a, b
<1>5. n \in Int /\ n <= a /\ n <= b /\ (a >= 0 /\ b >= 0 => n >= 0) BY <1>3, WriteFacts
<1>6. m = v.sock + n OBVIOUS
<1> HIDE DEF n
<1>7. m \in Int BY <1>2, <1>5
<1>8. SetFailure(v, "owner pipe", failed)
  <2>1. failed = [ v EXCEPT !.failure = "owner pipe" ] OBVIOUS
  <2>2. "owner pipe" \in Failures BY DEF Failures
  <2> HIDE DEF failed
  <2> QED BY <2>1, <2>2, SetFailureFacts
<1> HIDE DEF failed, m
<1>9. SetSock(v, m, sent)
  <2>1. sent = [ v EXCEPT !.sock = m ] OBVIOUS
  <2> HIDE DEF sent
  <2> QED BY <1>7, <2>1, SetSockFacts, ZenonT(30)
<1> HIDE DEF sent
<1>10. sent \in World BY <1>9 DEF SetSock
<1>11. SetOutboundShutdown(sent, TRUE, over)
  <2>1. over = [ sent EXCEPT !.outbound_shutdown = TRUE ] OBVIOUS
  <2> HIDE DEF over
  <2> QED BY <1>10, <2>1, SetOutboundShutdownFacts
<1> HIDE DEF over
<1>12. over \in World BY <1>11 DEF SetOutboundShutdown
<1>13. SetUpShutDownShut(over, over.up_shut \/ "up" \in {"up"},
                         over.down_shut \/ "down" \in {"up"}, shut)
  BY <1>12, ShutdownFacts
<1>14. over.down_shut \in BOOLEAN BY <1>12, WorldFields
<1>15. shut \in World /\ shut.up_shut /\ shut.down_shut = over.down_shut
  BY <1>13, <1>14 DEF SetUpShutDownShut
<1> HIDE DEF shut
<1>16. CASE n > 0 /\ v.up_shut
  <2>1. u = failed BY <1>1, <1>16
  <2>2. failed \in World /\ failed.error = v.error BY <1>8 DEF SetFailure
  <2>3. ~Flow(v)
    BY <1>2, <1>4, <1>5, <1>16, WorldFields, Capacities DEF Flow, Queues, Outbound
  <2> QED BY <2>1, <2>2, <2>3
<1>17. CASE ~(n > 0 /\ v.up_shut) /\ OutboundEof(sent)
  <2>1. u = shut BY <1>1, <1>17
  <2> HIDE DEF u
  <2>2. u \in World /\ u.error = v.error
    BY <1>9, <1>11, <1>13, <1>15, <2>1
    DEF SetSock, SetOutboundShutdown, SetUpShutDownShut, SameConn
  <2>3. /\ u.sock = m /\ m = v.in /\ v.outbound_end
        /\ u.in = v.in /\ u.tcp = v.tcp /\ u.acked = v.acked
        /\ u.outbound_shutdown /\ u.up_shut /\ u.outbound_end = v.outbound_end
        /\ u.stdin_eof = v.stdin_eof /\ u.data_eof = v.data_eof /\ u.tcp_end = v.tcp_end
        /\ SameInCounts(v, u) /\ SameInFlags(v, u) /\ SameConn(v, u)
    <3>1. /\ sent.sock = m /\ sent.in = v.in /\ sent.outbound_end = v.outbound_end
      BY <1>9 DEF SetSock, SameOutFlags
    <3>2. m = v.in /\ v.outbound_end BY <1>17, <3>1 DEF OutboundEof
    <3>3. /\ u.sock = m /\ u.in = v.in /\ u.tcp = v.tcp /\ u.acked = v.acked
      BY <1>9, <1>11, <1>13, <2>1
      DEF SetSock, SetOutboundShutdown, SetUpShutDownShut, SameOutCounts
    <3>4. /\ u.outbound_shutdown /\ u.up_shut /\ u.outbound_end = v.outbound_end
          /\ u.stdin_eof = v.stdin_eof /\ u.data_eof = v.data_eof /\ u.tcp_end = v.tcp_end
      BY <1>9, <1>11, <1>13, <1>15, <2>1
      DEF SetSock, SetOutboundShutdown, SetUpShutDownShut, SameOutFlags
    <3>5. SameInCounts(v, u) /\ SameConn(v, u)
      BY <1>9, <1>11, <1>13, <2>1
      DEF SetSock, SetOutboundShutdown, SetUpShutDownShut, SameInCounts, SameConn
    <3>6. SameInFlags(v, u)
      BY <1>9, <1>11, <1>13, <1>15, <2>1
      DEF SetSock, SetOutboundShutdown, SetUpShutDownShut, SameInFlags
    <3> QED BY <3>1, <3>2, <3>3, <3>4, <3>5, <3>6
  <2>4. ASSUME Flow(v) PROVE Flow(u) /\ OwnerServed(v, u, "to_socket")
    <3>1. n >= 0 BY <1>2, <1>4, <1>5, <2>4, WorldFields, Capacities DEF Flow, Queues
    <3>2. Queues(u)
      BY <1>2, <1>4, <1>5, <1>6, <2>3, <2>4, <3>1, WorldFields, Capacities
      DEF Flow, Queues, SameInCounts
    <3>3. Outbound(u) BY <2>3, <2>4 DEF Flow, Outbound
    <3>4. Inbound(u) /\ Closing(u) /\ u.failure = "none"
      BY <2>3, <2>4 DEF Flow, Inbound, Closing, SameInCounts, SameInFlags, SameConn
    <3>5. v.sock <= m BY <1>2, <1>5, <1>6, <3>1
    <3>6. OwnerServed(v, u, "to_socket")
      BY <2>3, <3>5 DEF OwnerServed, OwnerKeeps, SameInCounts, SameInFlags, SameConn
    <3> QED BY <3>2, <3>3, <3>4, <3>6 DEF Flow
  <2> QED BY <2>2, <2>4 DEF u
<1>18. CASE ~(n > 0 /\ v.up_shut) /\ ~OutboundEof(sent)
  <2>1. u = sent BY <1>1, <1>18
  <2> HIDE DEF u
  <2>2. u \in World /\ u.error = v.error BY <1>9, <2>1 DEF SetSock, SameConn
  <2>3. /\ u.sock = m /\ u.in = v.in /\ u.tcp = v.tcp /\ u.acked = v.acked
        /\ SameOutFlags(v, u) /\ SameInCounts(v, u) /\ SameInFlags(v, u) /\ SameConn(v, u)
    BY <1>9, <2>1 DEF SetSock
  <2>4. ASSUME Flow(v) PROVE Flow(u) /\ OwnerServed(v, u, "to_socket")
    <3>1. n >= 0 BY <1>2, <1>4, <1>5, <2>4, WorldFields, Capacities DEF Flow, Queues
    <3>2. Queues(u)
      BY <1>2, <1>4, <1>5, <1>6, <2>3, <2>4, <3>1, WorldFields, Capacities
      DEF Flow, Queues, SameInCounts, SameOutFlags
    <3>3. v.up_shut \/ v.outbound_shutdown => m = v.sock
      BY <1>2, <1>4, <1>5, <1>6, <2>4, <3>1, WorldFields, Capacities
      DEF Flow, Queues, Outbound
    <3>4. Outbound(u) BY <2>3, <2>4, <3>3 DEF Flow, Outbound, SameOutFlags
    <3>5. Inbound(u) /\ Closing(u) /\ u.failure = "none"
      BY <2>3, <2>4
      DEF Flow, Inbound, Closing, SameInCounts, SameInFlags, SameOutFlags, SameConn
    <3>6. v.sock <= m BY <1>2, <1>5, <1>6, <3>1
    <3>7. OwnerServed(v, u, "to_socket")
      BY <2>3, <3>6
      DEF OwnerServed, OwnerKeeps, SameInCounts, SameInFlags, SameOutFlags, SameConn
    <3> QED BY <3>2, <3>4, <3>5, <3>7 DEF Flow
  <2> QED BY <2>2, <2>4 DEF u
<1> QED BY <1>16, <1>17, <1>18

\* Every callback of the owner; the socket is read only when it has something to say.
OwnerNames  == { "stdin", "to_socket", "from_socket", "stdout" }

LEMMA OwnerCallbackServes ==
  ASSUME NEW v \in World, NEW r \in OwnerNames, NEW u \in OwnerCallback(v, r)
  PROVE  /\ u \in World /\ u.error = v.error
         /\ Flow(v) /\ (r = "from_socket" => v.app < v.pipe \/ v.down_shut) =>
               Flow(u) /\ OwnerServed(v, u, r)
<1>1. CASE r = "stdin"
  <2>1. u = ReadStdin(v) BY <1>1 DEF OwnerCallback
  <2> QED BY <1>1, <2>1, ReadStdinServes
<1>2. CASE r = "to_socket"
  <2>1. u = WriteSocket(v) BY <1>2 DEF OwnerCallback
  <2> QED BY <1>2, <2>1, WriteSocketServes
<1>3. CASE r = "from_socket"
  <2>1. u = ReadSocket(v) BY <1>3 DEF OwnerCallback
  <2> QED BY <1>3, <2>1, ReadSocketServes
<1>4. CASE r = "stdout"
  <2>1. u = WriteStdout(v) BY <1>4 DEF OwnerCallback
  <2> QED BY <1>4, <2>1, WriteStdoutServes
<1> QED BY <1>1, <1>2, <1>3, <1>4 DEF OwnerNames

-----------------------------------------------------------------------------
\* What the TCP thread leaves alone: all that the owner has.
ThreadKeeps(v, u) ==
    /\ u.in = v.in /\ u.sock = v.sock /\ u.app = v.app /\ u.out = v.out
    /\ u.stdin_eof = v.stdin_eof /\ u.socket_eof = v.socket_eof
    /\ u.stdout_closed = v.stdout_closed
    /\ v.tcp <= u.tcp /\ v.pipe <= u.pipe
    /\ (v.tcp_end => u.tcp_end) /\ (v.up_shut => u.up_shut) /\ (v.down_shut => u.down_shut)

\* What the callback of the rule r leaves alone besides.
ThreadServed(v, u, r) ==
    /\ ThreadKeeps(v, u)
    /\ r # "receive" => u.net = v.net /\ u.acked = v.acked /\ u.state = v.state
    /\ r # "from_owner" => u.tcp = v.tcp

\* What the waiting segment says of the stream that it belongs to.
Acceptable(v, s) ==
    /\ s = "data" => v.net < M
    /\ s = "ack" => v.state = "SYN_RCVD" \/ v.acked < v.tcp \/ (v.acked = v.tcp /\ v.tcp_end)
    /\ s = "fin" => v.net = M

\* The connection may be over, and nothing else changes.
Finished(v, u) ==
    /\ u \in World /\ SameOutCounts(v, u) /\ SameOutFlags(v, u) /\ SameInCounts(v, u)
    /\ SameInFlags(v, u) /\ u.state = v.state /\ u.error = v.error /\ u.failure = v.failure
    /\ u.active = v.active \/ (v.peer_end /\ v.tcp_end /\ v.acked = v.tcp + 1)

LEMMA FinishFacts ==
  ASSUME NEW v \in World, NEW u \in Finish(v)
  PROVE  Finished(v, u)
<1> DEFINE closed == [ v EXCEPT !.active = FALSE ]
<1>1. Finished(v, v)
  BY DEF Finished, SameOutCounts, SameOutFlags, SameInCounts, SameInFlags
<1>2. SetActive(v, FALSE, closed)
  <2>1. closed = [ v EXCEPT !.active = FALSE ] OBVIOUS
  <2> HIDE DEF closed
  <2> QED BY <2>1, SetActiveFacts
<1>3. u = v \/ (u = closed /\ v.peer_end /\ v.tcp_end /\ v.acked = v.tcp + 1)
  BY DEF Finish, FullyAcked
<1> HIDE DEF closed
<1>4. CASE u = closed /\ v.peer_end /\ v.tcp_end /\ v.acked = v.tcp + 1
  BY <1>2, <1>4 DEF Finished, SetActive
<1> QED BY <1>1, <1>3, <1>4

LEMMA FinishedFlow ==
  ASSUME NEW v \in World, NEW u, Finished(v, u)
  PROVE  /\ Flow(v) => Flow(u)
         /\ \A x \in World : \A r : ThreadServed(x, v, r) => ThreadServed(x, u, r)
<1>1. ASSUME Flow(v) PROVE Flow(u)
  <2>1. Queues(u)
    BY <1>1 DEF Flow, Queues, Finished, SameOutCounts, SameInCounts, SameOutFlags
  <2>2. Outbound(u) BY <1>1 DEF Flow, Outbound, Finished, SameOutCounts, SameOutFlags
  <2>3. Inbound(u) BY <1>1 DEF Flow, Inbound, Finished, SameInCounts, SameInFlags
  <2>4. Closing(u) /\ u.failure = "none"
    BY <1>1 DEF Flow, Closing, Finished, SameOutCounts, SameOutFlags, SameInFlags
  <2> QED BY <2>1, <2>2, <2>3, <2>4 DEF Flow
<1>2. ASSUME NEW x \in World, NEW r, ThreadServed(x, v, r) PROVE ThreadServed(x, u, r)
  BY <1>2
  DEF ThreadServed, ThreadKeeps, Finished, SameOutCounts, SameInCounts, SameOutFlags,
      SameInFlags
<1> QED BY <1>1, <1>2

\* What a step of the TCP thread leads to: a reset, or streams that are in order.
ThreadLeads(v, u, r) ==
    /\ u \in World /\ (v.error => u.error)
    /\ Flow(v) /\ ~v.error => u.error \/ (Flow(u) /\ ThreadServed(v, u, r))

LEMMA ResetLeads ==
  ASSUME NEW v \in World, NEW r
  PROVE  ThreadLeads(v, Reset(v), r) /\ Reset(v).error
<1> DEFINE u == Reset(v)
<1>1. u = [ v EXCEPT !.error = TRUE, !.active = FALSE ] BY DEF Reset
<1> HIDE DEF u
<1>2. SetErrorActive(v, TRUE, FALSE, u) BY <1>1, SetErrorActiveFacts
<1>3. u \in World /\ u.error BY <1>2 DEF SetErrorActive
<1> QED BY <1>3 DEF ThreadLeads, u

\* An update of what the properties do not look at.
LEMMA SegmentsLead ==
  ASSUME NEW v \in World, NEW b \in BOOLEAN, NEW r
  PROVE  /\ SetSegments(v, b, [ v EXCEPT !.segments = b ])
         /\ ThreadLeads(v, [ v EXCEPT !.segments = b ], r)
<1> DEFINE u == [ v EXCEPT !.segments = b ]
<1>1. SetSegments(v, b, u)
  <2>1. u = [ v EXCEPT !.segments = b ] OBVIOUS
  <2> HIDE DEF u
  <2> QED BY <2>1, SetSegmentsFacts
<1> HIDE DEF u
<1>2. u \in World /\ u.error = v.error BY <1>1 DEF SetSegments, SameConn
<1>3. Finished(v, u) BY <1>1 DEF SetSegments, SameConn, Finished
<1>4. ThreadServed(v, v, r) BY WorldFields DEF ThreadServed, ThreadKeeps
<1>5. Flow(v) => Flow(u) /\ ThreadServed(v, u, r) BY <1>3, <1>4, FinishedFlow
<1> QED BY <1>1, <1>2, <1>5 DEF ThreadLeads, u

\* The time passes.
LEMMA TickLeads ==
  ASSUME NEW v \in World, NEW u \in TickOutcomes(v), NEW r
  PROVE  ThreadLeads(v, u, r)
<1> DEFINE a == [ v EXCEPT !.segments = TRUE ]
           b == Reset(v)
           c == [ b EXCEPT !.segments = TRUE ]
<1>1. u = v \/ u \in Finish(v) \/ u = a \/ u = c BY DEF TickOutcomes
<1>2. ThreadServed(v, v, r) BY WorldFields DEF ThreadServed, ThreadKeeps
<1>3. CASE u = v BY <1>2, <1>3 DEF ThreadLeads
<1>4. CASE u \in Finish(v)
  <2>1. Finished(v, u) BY <1>4, FinishFacts
  <2>2. u \in World /\ u.error = v.error BY <2>1 DEF Finished
  <2> QED BY <1>2, <2>1, <2>2, FinishedFlow DEF ThreadLeads
<1>5. CASE u = a BY <1>5, SegmentsLead
<1>6. CASE u = c
  <2>1. b \in World /\ b.error BY ResetLeads DEF ThreadLeads
  <2> HIDE DEF b
  <2>2. SetSegments(b, TRUE, c) BY <2>1, SegmentsLead
  <2>3. c \in World /\ c.error BY <2>1, <2>2 DEF SetSegments, SameConn
  <2> QED BY <1>6, <2>3 DEF ThreadLeads
<1> QED BY <1>1, <1>3, <1>4, <1>5, <1>6

\* The end of the outbound stream, told to TCP when every byte is in it.
LEMMA EndInputFacts ==
  ASSUME NEW v \in World
  PROVE  /\ EndInputStream(v) \in World
         /\ SetTcpEndSegments(v, TRUE, v.segments \/ ~v.tcp_end, EndInputStream(v))
<1> DEFINE x == v.segments \/ ~v.tcp_end
           u == EndInputStream(v)
<1>1. u = [ v EXCEPT !.tcp_end = TRUE, !.segments = x ] BY DEF EndInputStream
<1>2. x \in BOOLEAN OBVIOUS
<1> HIDE DEF x, u
<1>3. SetTcpEndSegments(v, TRUE, x, u) BY <1>1, <1>2, SetTcpEndSegmentsFacts
<1>4. u \in World BY <1>3 DEF SetTcpEndSegments
<1> QED BY <1>3, <1>4 DEF x, u

LEMMA ReadOwnerLeads ==
  ASSUME NEW v \in World
  PROVE  /\ ReadOwner(v) \in World /\ ReadOwner(v).error = v.error
         /\ v.tcp < v.sock \/ v.up_shut => ThreadLeads(v, ReadOwner(v), "from_owner")
<1> DEFINE a == OutboundRoom(v)
           b == v.sock - v.tcp
           n == read(a, b).n
           e == read(a, b).eof
           m == v.tcp + n
           end == EndInputStream(v)
           over == [ end EXCEPT !.data_eof = TRUE ]
           more == [ v EXCEPT !.tcp = m, !.segments = TRUE ]
           u == ReadOwner(v)
<1>1. u = IF e THEN over ELSE more BY DEF ReadOwner
<1>2. v.sock \in Int /\ v.tcp \in Int /\ v.acked \in Int /\ v.up_shut \in BOOLEAN
  BY WorldFields
<1>3. a = TcpCapacity - (v.tcp - v.acked) /\ b = v.sock - v.tcp BY DEF OutboundRoom
<1> HIDE DEF a, b
<1>4. a \in Int /\ b \in Int BY <1>2, <1>3, Capacities
<1>5. /\ n \in Int /\ e \in BOOLEAN /\ n <= a /\ n <= b /\ (a >= 0 /\ b >= 0 => n >= 0)
      /\ (e => b = 0)
  BY <1>4, ReadFacts
<1>6. m = v.tcp + n OBVIOUS
<1> HIDE DEF n, e
<1>7. m \in Int BY <1>2, <1>5
<1> HIDE DEF m, u
<1>8. end \in World /\ SetTcpEndSegments(v, TRUE, v.segments \/ ~v.tcp_end, end)
  BY EndInputFacts
<1> HIDE DEF end
<1>9. SetDataEof(end, TRUE, over)
  <2>1. over = [ end EXCEPT !.data_eof = TRUE ] OBVIOUS
  <2> HIDE DEF over
  <2> QED BY <1>8, <2>1, SetDataEofFacts
<1>10. SetTcpSegments(v, m, TRUE, more)
  <2>1. more = [ v EXCEPT !.tcp = m, !.segments = TRUE ] OBVIOUS
  <2> HIDE DEF more
  <2> QED BY <1>7, <2>1, SetTcpSegmentsFacts
<1> HIDE DEF over, more
<1>11. CASE e
  <2>1. u = over BY <1>1, <1>11
  <2>2. /\ u \in World /\ u.data_eof /\ u.tcp_end
        /\ u.stdin_eof = v.stdin_eof /\ u.outbound_end = v.outbound_end
        /\ u.outbound_shutdown = v.outbound_shutdown /\ u.up_shut = v.up_shut
        /\ SameOutCounts(v, u) /\ SameInCounts(v, u) /\ SameInFlags(v, u) /\ SameConn(v, u)
    <3>1. /\ u \in World /\ u.data_eof /\ u.tcp_end
          /\ u.stdin_eof = v.stdin_eof /\ u.outbound_end = v.outbound_end
          /\ u.outbound_shutdown = v.outbound_shutdown /\ u.up_shut = v.up_shut
      BY <1>8, <1>9, <2>1 DEF SetTcpEndSegments, SetDataEof
    <3>2. SameOutCounts(v, u) /\ SameInCounts(v, u)
      BY <1>8, <1>9, <2>1 DEF SetTcpEndSegments, SetDataEof, SameOutCounts, SameInCounts
    <3>3. SameInFlags(v, u) /\ SameConn(v, u)
      BY <1>8, <1>9, <2>1 DEF SetTcpEndSegments, SetDataEof, SameInFlags, SameConn
    <3> QED BY <3>1, <3>2, <3>3
  <2>3. ASSUME v.tcp < v.sock \/ v.up_shut, Flow(v)
        PROVE  Flow(u) /\ ThreadServed(v, u, "from_owner")
    <3>1. v.tcp = N
      BY <1>2, <1>3, <1>5, <1>11, <2>3, Capacities DEF Flow, Outbound
    <3>2. Queues(u)
      BY <2>2, <2>3 DEF Flow, Queues, SameOutCounts, SameInCounts
    <3>3. Outbound(u) BY <2>2, <2>3, <3>1 DEF Flow, Outbound, SameOutCounts
    <3>4. Inbound(u) /\ Closing(u) /\ u.failure = "none"
      BY <2>2, <2>3
      DEF Flow, Inbound, Closing, SameInCounts, SameInFlags, SameOutCounts, SameConn
    <3>5. ThreadServed(v, u, "from_owner")
      BY <2>2, WorldFields
      DEF ThreadServed, ThreadKeeps, SameOutCounts, SameInCounts, SameInFlags, SameConn
    <3> QED BY <3>2, <3>3, <3>4, <3>5 DEF Flow
  <2>4. u.error = v.error BY <2>2 DEF SameConn
  <2> QED BY <2>2, <2>3, <2>4 DEF u, ThreadLeads
<1>12. CASE ~e
  <2>1. u = more BY <1>1, <1>12
  <2>2. /\ u \in World /\ u.tcp = m /\ u.in = v.in /\ u.sock = v.sock
        /\ u.acked = v.acked /\ SameOutFlags(v, u) /\ SameInCounts(v, u)
        /\ SameInFlags(v, u) /\ SameConn(v, u)
    BY <1>10, <2>1 DEF SetTcpSegments
  <2>3. ASSUME Flow(v) PROVE Flow(u) /\ ThreadServed(v, u, "from_owner")
    <3>1. n >= 0
      BY <1>2, <1>3, <1>4, <1>5, <2>3, WorldFields, Capacities DEF Flow, Queues
    <3>2. v.tcp = N => m = N
      BY <1>2, <1>3, <1>5, <1>6, <2>3, <3>1, WorldFields, Capacities DEF Flow, Queues
    <3>3. v.tcp_end => m = v.tcp BY <2>3, <3>2 DEF Flow, Outbound
    <3>4. v.acked = m + 1 => v.tcp_end
      BY <1>2, <1>5, <1>6, <2>3, <3>1, WorldFields, Capacities DEF Flow, Queues
    <3>5. v.acked <= m + 1
      BY <1>2, <1>5, <1>6, <2>3, <3>1, WorldFields, Capacities DEF Flow, Queues
    <3>6. m <= v.sock /\ v.sock - m <= PipeCapacity /\ m - v.acked <= TcpCapacity
      BY <1>2, <1>3, <1>4, <1>5, <1>6, <2>3, <3>1, WorldFields, Capacities
      DEF Flow, Queues
    <3>7. Queues(u)
      BY <2>2, <2>3, <3>4, <3>5, <3>6 DEF Flow, Queues, SameInCounts, SameOutFlags
    <3>8. Outbound(u) BY <2>2, <2>3, <3>2, <3>3 DEF Flow, Outbound, SameOutFlags
    <3>9. Inbound(u) /\ u.failure = "none"
      BY <2>2, <2>3 DEF Flow, Inbound, SameInCounts, SameInFlags, SameConn
    <3>10. Closing(u)
      BY <2>2, <2>3, <3>3 DEF Flow, Closing, SameInFlags, SameOutFlags, SameConn
    <3>11. v.tcp <= m BY <1>2, <1>5, <1>6, <3>1
    <3>12. ThreadServed(v, u, "from_owner")
      BY <2>2, <3>11, WorldFields
      DEF ThreadServed, ThreadKeeps, SameInCounts, SameInFlags, SameOutFlags, SameConn
    <3> QED BY <3>7, <3>8, <3>9, <3>10, <3>12 DEF Flow
  <2>4. u.error = v.error BY <2>2 DEF SameConn
  <2> QED BY <2>2, <2>3, <2>4 DEF u, ThreadLeads
<1> QED BY <1>5, <1>11, <1>12

LEMMA WriteOwnerLeads ==
  ASSUME NEW v \in World
  PROVE  ThreadLeads(v, WriteOwner(v), "to_owner")
<1> DEFINE a == v.net - v.pipe
           b == PipeCapacity - (v.pipe - v.app)
           n == write(a, b)
           m == v.pipe + n
           failed == [ v EXCEPT !.failure = "thread pipe" ]
           wrote == [ v EXCEPT !.pipe = m ]
           over == [ wrote EXCEPT !.tcp_shutdown = TRUE ]
           shut == shutdown(over, {"down"})
           u == WriteOwner(v)
<1>1. u = IF n > 0 /\ v.down_shut THEN failed ELSE IF StreamOver(wrote) THEN shut ELSE wrote
  BY DEF WriteOwner
<1>2. v.net \in Int /\ v.pipe \in Int /\ v.app \in Int /\ v.down_shut \in BOOLEAN
  BY WorldFields
<1>3. a \in Int /\ b \in Int BY <1>2, Capacities
<1>4. a = v.net - v.pipe /\ b = PipeCapacity - (v.pipe - v.app) OBVIOUS
<1> HIDE DEF a, b
<1>5. n \in Int /\ n <= a /\ n <= b /\ (a >= 0 /\ b >= 0 => n >= 0) BY <1>3, WriteFacts
<1>6. m = v.pipe + n OBVIOUS
<1> HIDE DEF n
<1>7. m \in Int BY <1>2, <1>5
<1>8. SetFailure(v, "thread pipe", failed)
  <2>1. failed = [ v EXCEPT !.failure = "thread pipe" ] OBVIOUS
  <2>2. "thread pipe" \in Failures BY DEF Failures
  <2> HIDE DEF failed
  <2> QED BY <2>1, <2>2, SetFailureFacts
<1> HIDE DEF failed, m
<1>9. SetPipe(v, m, wrote)
  <2>1. wrote = [ v EXCEPT !.pipe = m ] OBVIOUS
  <2> HIDE DEF wrote
  <2> QED BY <1>7, <2>1, SetPipeFacts, ZenonT(30)
<1> HIDE DEF wrote
<1>10. wrote \in World BY <1>9 DEF SetPipe
<1>11. SetTcpShutdown(wrote, TRUE, over)
  <2>1. over = [ wrote EXCEPT !.tcp_shutdown = TRUE ] OBVIOUS
  <2> HIDE DEF over
  <2> QED BY <1>10, <2>1, SetTcpShutdownFacts
<1> HIDE DEF over
<1>12. over \in World BY <1>11 DEF SetTcpShutdown
<1>13. SetUpShutDownShut(over, over.up_shut \/ "up" \in {"down"},
                         over.down_shut \/ "down" \in {"down"}, shut)
  BY <1>12, ShutdownFacts
<1>14. over.up_shut \in BOOLEAN BY <1>12, WorldFields
<1>15. shut \in World /\ shut.down_shut /\ shut.up_shut = over.up_shut
  BY <1>13, <1>14 DEF SetUpShutDownShut
<1> HIDE DEF shut
<1>16. CASE n > 0 /\ v.down_shut
  <2>1. u = failed BY <1>1, <1>16
  <2>2. failed \in World /\ failed.error = v.error BY <1>8 DEF SetFailure
  <2>3. ~Flow(v)
    BY <1>2, <1>4, <1>5, <1>16, WorldFields, Capacities DEF Flow, Queues, Inbound
  <2> QED BY <2>1, <2>2, <2>3 DEF ThreadLeads
<1>17. CASE ~(n > 0 /\ v.down_shut) /\ StreamOver(wrote)
  <2>1. u = shut BY <1>1, <1>17
  <2> HIDE DEF u
  <2>2. u \in World /\ u.error = v.error
    BY <1>9, <1>11, <1>13, <1>15, <2>1
    DEF SetPipe, SetTcpShutdown, SetUpShutDownShut, SameConn
  <2>3. /\ u.pipe = m /\ (v.error \/ (v.peer_end /\ m = v.net))
        /\ u.net = v.net /\ u.app = v.app /\ u.out = v.out
        /\ u.tcp_shutdown /\ u.down_shut
        /\ u.inbound_end = v.inbound_end /\ u.socket_eof = v.socket_eof
        /\ u.stdout_closed = v.stdout_closed /\ u.peer_end = v.peer_end
        /\ SameOutCounts(v, u) /\ SameOutFlags(v, u) /\ SameConn(v, u)
    <3>1. /\ wrote.pipe = m /\ wrote.net = v.net /\ wrote.peer_end = v.peer_end
          /\ wrote.error = v.error
      BY <1>9 DEF SetPipe, SameInFlags, SameConn
    <3>2. v.error \/ (v.peer_end /\ m = v.net) BY <1>17, <3>1 DEF StreamOver
    <3>3. /\ u.pipe = m /\ u.net = v.net /\ u.app = v.app /\ u.out = v.out
      BY <1>9, <1>11, <1>13, <2>1
      DEF SetPipe, SetTcpShutdown, SetUpShutDownShut, SameInCounts
    <3>4. /\ u.tcp_shutdown /\ u.down_shut
          /\ u.inbound_end = v.inbound_end /\ u.socket_eof = v.socket_eof
          /\ u.stdout_closed = v.stdout_closed /\ u.peer_end = v.peer_end
      BY <1>9, <1>11, <1>13, <1>15, <2>1
      DEF SetPipe, SetTcpShutdown, SetUpShutDownShut, SameInFlags
    <3>5. SameOutCounts(v, u) /\ SameConn(v, u)
      BY <1>9, <1>11, <1>13, <2>1
      DEF SetPipe, SetTcpShutdown, SetUpShutDownShut, SameOutCounts, SameConn
    <3>6. SameOutFlags(v, u)
      BY <1>9, <1>11, <1>13, <1>15, <2>1
      DEF SetPipe, SetTcpShutdown, SetUpShutDownShut, SameOutFlags
    <3> QED BY <3>2, <3>3, <3>4, <3>5, <3>6
  <2>4. ASSUME Flow(v), ~v.error PROVE Flow(u) /\ ThreadServed(v, u, "to_owner")
    <3>1. n >= 0 BY <1>2, <1>4, <1>5, <2>4, WorldFields, Capacities DEF Flow, Queues
    <3>2. Queues(u)
      BY <1>2, <1>4, <1>5, <1>6, <2>3, <2>4, <3>1, WorldFields, Capacities
      DEF Flow, Queues, SameOutCounts, SameOutFlags
    <3>3. Inbound(u) BY <2>3, <2>4 DEF Flow, Inbound
    <3>4. Outbound(u) /\ Closing(u) /\ u.failure = "none"
      BY <2>3, <2>4 DEF Flow, Outbound, Closing, SameOutCounts, SameOutFlags, SameConn
    <3>5. v.pipe <= m BY <1>2, <1>5, <1>6, <3>1
    <3>6. ThreadServed(v, u, "to_owner")
      BY <2>3, <3>5, WorldFields
      DEF ThreadServed, ThreadKeeps, SameOutCounts, SameOutFlags, SameConn
    <3> QED BY <3>2, <3>3, <3>4, <3>6 DEF Flow
  <2> QED BY <2>2, <2>4 DEF u, ThreadLeads
<1>18. CASE ~(n > 0 /\ v.down_shut) /\ ~StreamOver(wrote)
  <2>1. u = wrote BY <1>1, <1>18
  <2> HIDE DEF u
  <2>2. u \in World /\ u.error = v.error BY <1>9, <2>1 DEF SetPipe, SameConn
  <2>3. /\ u.pipe = m /\ u.net = v.net /\ u.app = v.app /\ u.out = v.out
        /\ SameOutCounts(v, u) /\ SameOutFlags(v, u) /\ SameInFlags(v, u) /\ SameConn(v, u)
    BY <1>9, <2>1 DEF SetPipe
  <2>4. ASSUME Flow(v) PROVE Flow(u) /\ ThreadServed(v, u, "to_owner")
    <3>1. n >= 0 BY <1>2, <1>4, <1>5, <2>4, WorldFields, Capacities DEF Flow, Queues
    <3>2. Queues(u)
      BY <1>2, <1>4, <1>5, <1>6, <2>3, <2>4, <3>1, WorldFields, Capacities
      DEF Flow, Queues, SameOutCounts, SameOutFlags
    <3>3. v.tcp_shutdown \/ v.down_shut => m = v.pipe
      BY <1>2, <1>4, <1>5, <1>6, <2>4, <3>1, WorldFields, Capacities
      DEF Flow, Queues, Inbound
    <3>4. Inbound(u) BY <2>3, <2>4, <3>3 DEF Flow, Inbound, SameInFlags
    <3>5. Outbound(u) /\ Closing(u) /\ u.failure = "none"
      BY <2>3, <2>4
      DEF Flow, Outbound, Closing, SameOutCounts, SameOutFlags, SameInFlags, SameConn
    <3>6. v.pipe <= m BY <1>2, <1>5, <1>6, <3>1
    <3>7. ThreadServed(v, u, "to_owner")
      BY <2>3, <3>6, WorldFields
      DEF ThreadServed, ThreadKeeps, SameOutCounts, SameInFlags, SameOutFlags, SameConn
    <3> QED BY <3>2, <3>4, <3>5, <3>7 DEF Flow
  <2> QED BY <2>2, <2>4 DEF u, ThreadLeads
<1> QED BY <1>16, <1>17, <1>18

\* A segment of the peer.
LEMMA ReceiveLeads ==
  ASSUME NEW v \in World, inbox \in Stream \cup {"rst"}, NEW u \in Receive(v)
  PROVE  /\ u \in World /\ (v.error => u.error)
         /\ Acceptable(v, inbox) => ThreadLeads(v, u, "receive")
<1>1. /\ v.net \in Int /\ v.acked \in Int /\ v.tcp \in Int /\ v.sock \in Int /\ v.in \in Int
      /\ v.pipe \in Int
  BY WorldFields
<1>2. ThreadServed(v, v, "receive") BY WorldFields DEF ThreadServed, ThreadKeeps
<1>3. CASE inbox = "syn"
  <2>1. u = [ v EXCEPT !.state = "SYN_RCVD", !.segments = TRUE ] BY <1>3 DEF Receive
  <2>2. "SYN_RCVD" \in States BY DEF States
  <2>3. SetStateSegments(v, "SYN_RCVD", TRUE, u) BY <2>1, <2>2, SetStateSegmentsFacts
  <2>4. /\ u \in World /\ u.active = v.active /\ u.error = v.error
        /\ u.failure = v.failure /\ SameOutCounts(v, u) /\ SameOutFlags(v, u)
        /\ SameInCounts(v, u) /\ SameInFlags(v, u)
    BY <2>3 DEF SetStateSegments
  <2>5. Flow(v) => Flow(u)
    BY <2>4 DEF Flow, Queues, Outbound, Inbound, Closing, SameOutCounts, SameOutFlags,
                SameInCounts, SameInFlags
  <2>6. ThreadServed(v, u, "receive")
    BY <2>4, WorldFields
    DEF ThreadServed, ThreadKeeps, SameOutCounts, SameOutFlags, SameInCounts, SameInFlags
  <2> QED BY <2>4, <2>5, <2>6 DEF ThreadLeads
<1>4. CASE inbox = "synack"
  <2> DEFINE x == [ v EXCEPT !.state = "ESTABLISHED" ]
  <2>1. u = [ x EXCEPT !.segments = TRUE ] BY <1>4 DEF Receive, Established
  <2>2. SetState(v, "ESTABLISHED", x)
    <3>1. x = [ v EXCEPT !.state = "ESTABLISHED" ] OBVIOUS
    <3>2. "ESTABLISHED" \in States BY DEF States
    <3> HIDE DEF x
    <3> QED BY <3>1, <3>2, SetStateFacts
  <2> HIDE DEF x
  <2>3. x \in World BY <2>2 DEF SetState
  <2>4. SetSegments(x, TRUE, u) BY <2>1, <2>3, SegmentsLead
  <2>5. /\ u \in World /\ u.active = v.active /\ u.error = v.error
        /\ u.failure = v.failure
    BY <2>2, <2>4 DEF SetState, SetSegments, SameConn
  <2>6. SameOutCounts(v, u) /\ SameOutFlags(v, u)
    BY <2>2, <2>4 DEF SetState, SetSegments, SameOutCounts, SameOutFlags
  <2>7. SameInCounts(v, u) /\ SameInFlags(v, u)
    BY <2>2, <2>4 DEF SetState, SetSegments, SameInCounts, SameInFlags
  <2>8. Flow(v) => Flow(u)
    BY <2>5, <2>6, <2>7
    DEF Flow, Queues, Outbound, Inbound, Closing, SameOutCounts, SameOutFlags,
        SameInCounts, SameInFlags
  <2>9. ThreadServed(v, u, "receive")
    BY <2>6, <2>7, WorldFields
    DEF ThreadServed, ThreadKeeps, SameOutCounts, SameOutFlags, SameInCounts, SameInFlags
  <2> QED BY <2>5, <2>8, <2>9 DEF ThreadLeads
<1>5. CASE inbox = "data"
  <2> DEFINE m == v.net + 1
  <2>1. u = [ v EXCEPT !.net = m, !.segments = TRUE ] BY <1>5 DEF Receive
  <2>2. m \in Int /\ m = v.net + 1 BY <1>1
  <2> HIDE DEF m
  <2>3. SetNetSegments(v, m, TRUE, u) BY <2>1, <2>2, SetNetSegmentsFacts
  <2>4. /\ u \in World /\ u.net = m /\ u.pipe = v.pipe /\ u.app = v.app
        /\ u.out = v.out /\ SameOutCounts(v, u) /\ SameOutFlags(v, u) /\ SameInFlags(v, u)
        /\ SameConn(v, u)
    BY <2>3 DEF SetNetSegments
  <2>5. u.error = v.error BY <2>4 DEF SameConn
  <2>6. ASSUME Acceptable(v, inbox), Flow(v) PROVE Flow(u) /\ ThreadServed(v, u, "receive")
    <3>1. v.net < M BY <1>5, <2>6 DEF Acceptable
    <3>2. ~v.peer_end BY <1>1, <2>6, <3>1, Capacities DEF Flow, Inbound
    <3>3. Queues(u)
      BY <1>1, <2>2, <2>4, <2>6, <3>1, WorldFields, Capacities
      DEF Flow, Queues, SameOutCounts, SameOutFlags
    <3>4. Inbound(u) BY <2>4, <2>6, <3>2 DEF Flow, Inbound, SameInFlags
    <3>5. Outbound(u) /\ Closing(u) /\ u.failure = "none"
      BY <2>4, <2>6
      DEF Flow, Outbound, Closing, SameOutCounts, SameOutFlags, SameInFlags, SameConn
    <3>6. ThreadServed(v, u, "receive")
      BY <2>4, WorldFields
      DEF ThreadServed, ThreadKeeps, SameOutCounts, SameOutFlags, SameInFlags
    <3> QED BY <3>3, <3>4, <3>5, <3>6 DEF Flow
  <2> QED BY <2>4, <2>5, <2>6 DEF ThreadLeads
<1>6. CASE inbox = "ack" /\ v.state = "SYN_RCVD"
  <2>1. u = [ v EXCEPT !.state = "ESTABLISHED" ] BY <1>6 DEF Receive, Established
  <2>2. "ESTABLISHED" \in States BY DEF States
  <2>3. SetState(v, "ESTABLISHED", u) BY <2>1, <2>2, SetStateFacts
  <2>4. /\ u \in World /\ u.active = v.active /\ u.error = v.error
        /\ u.failure = v.failure /\ SameOutCounts(v, u) /\ SameOutFlags(v, u)
        /\ SameInCounts(v, u) /\ SameInFlags(v, u)
    BY <2>3 DEF SetState
  <2>5. Flow(v) => Flow(u)
    BY <2>4 DEF Flow, Queues, Outbound, Inbound, Closing, SameOutCounts, SameOutFlags,
                SameInCounts, SameInFlags
  <2>6. ThreadServed(v, u, "receive")
    BY <2>4, WorldFields
    DEF ThreadServed, ThreadKeeps, SameOutCounts, SameOutFlags, SameInCounts, SameInFlags
  <2> QED BY <2>4, <2>5, <2>6 DEF ThreadLeads
<1>7. CASE inbox = "ack" /\ v.state # "SYN_RCVD"
  <2> DEFINE m == v.acked + 1
             x == [ v EXCEPT !.acked = m ]
  <2>1. u \in Finish(x) BY <1>7 DEF Receive
  <2>2. m \in Int /\ m = v.acked + 1 BY <1>1
  <2> HIDE DEF m
  <2>3. SetAcked(v, m, x)
    <3>1. x = [ v EXCEPT !.acked = m ] OBVIOUS
    <3> HIDE DEF x
    <3> QED BY <2>2, <3>1, SetAckedFacts, ZenonT(30)
  <2> HIDE DEF x
  <2>4. /\ x \in World /\ x.acked = m /\ x.in = v.in /\ x.sock = v.sock /\ x.tcp = v.tcp
        /\ SameOutFlags(v, x) /\ SameInCounts(v, x) /\ SameInFlags(v, x) /\ SameConn(v, x)
    BY <2>3 DEF SetAcked
  <2>5. Finished(x, u) BY <2>1, <2>4, FinishFacts
  <2>6. u \in World /\ u.error = v.error BY <2>4, <2>5 DEF Finished, SameConn
  <2>7. ASSUME Acceptable(v, inbox), Flow(v) PROVE Flow(u) /\ ThreadServed(v, u, "receive")
    <3>1. v.acked < v.tcp \/ (v.acked = v.tcp /\ v.tcp_end)
      BY <1>7, <2>7 DEF Acceptable
    <3>2. v.active BY <1>1, <2>7, <3>1 DEF Flow, Closing
    <3>3. m <= v.tcp + 1 /\ (m = v.tcp + 1 => v.tcp_end) BY <1>1, <2>2, <3>1
    <3>4. Queues(x)
      BY <1>1, <2>2, <2>4, <2>7, <3>3, WorldFields, Capacities
      DEF Flow, Queues, SameInCounts, SameOutFlags
    <3>5. Outbound(x) /\ Inbound(x)
      BY <2>4, <2>7
      DEF Flow, Outbound, Inbound, SameOutFlags, SameInCounts, SameInFlags
    <3>6. Closing(x) /\ x.failure = "none" BY <2>4, <2>7, <3>2 DEF Flow, Closing, SameConn
    <3>7. Flow(x) BY <3>4, <3>5, <3>6 DEF Flow
    <3>8. ThreadServed(v, x, "receive")
      BY <2>4, WorldFields
      DEF ThreadServed, ThreadKeeps, SameOutFlags, SameInCounts, SameInFlags
    <3> QED BY <2>4, <2>5, <3>7, <3>8, FinishedFlow
  <2> QED BY <2>6, <2>7 DEF ThreadLeads
<1>8. CASE inbox = "fin"
  <2> DEFINE x == [ v EXCEPT !.peer_end = TRUE, !.segments = TRUE ]
  <2>1. u \in Finish(x) BY <1>8 DEF Receive
  <2>2. SetPeerEndSegments(v, TRUE, TRUE, x)
    <3>1. x = [ v EXCEPT !.peer_end = TRUE, !.segments = TRUE ] OBVIOUS
    <3> HIDE DEF x
    <3> QED BY <3>1, SetPeerEndSegmentsFacts
  <2> HIDE DEF x
  <2>3. /\ x \in World /\ x.peer_end
        /\ x.tcp_shutdown = v.tcp_shutdown /\ x.down_shut = v.down_shut
        /\ x.inbound_end = v.inbound_end /\ x.socket_eof = v.socket_eof
        /\ x.stdout_closed = v.stdout_closed /\ SameOutCounts(v, x) /\ SameOutFlags(v, x)
        /\ SameInCounts(v, x) /\ SameConn(v, x)
    BY <2>2 DEF SetPeerEndSegments
  <2>4. Finished(x, u) BY <2>1, <2>3, FinishFacts
  <2>5. u \in World /\ u.error = v.error BY <2>3, <2>4 DEF Finished, SameConn
  <2>6. ASSUME Acceptable(v, inbox), Flow(v) PROVE Flow(u) /\ ThreadServed(v, u, "receive")
    <3>1. v.net = M BY <1>8, <2>6 DEF Acceptable
    <3>2. Inbound(x) BY <2>3, <2>6, <3>1 DEF Flow, Inbound, SameInCounts
    <3>3. Queues(x)
      BY <2>3, <2>6 DEF Flow, Queues, SameOutCounts, SameInCounts, SameOutFlags
    <3>4. Outbound(x) /\ Closing(x) /\ x.failure = "none"
      BY <2>3, <2>6 DEF Flow, Outbound, Closing, SameOutCounts, SameOutFlags, SameConn
    <3>5. Flow(x) BY <3>2, <3>3, <3>4 DEF Flow
    <3>6. ThreadServed(v, x, "receive")
      BY <2>3, WorldFields
      DEF ThreadServed, ThreadKeeps, SameOutCounts, SameOutFlags, SameInCounts
    <3> QED BY <2>3, <2>4, <3>5, <3>6, FinishedFlow
  <2> QED BY <2>5, <2>6 DEF ThreadLeads
<1>9. CASE inbox = "rst"
  <2>1. u = Reset(v) BY <1>9 DEF Receive
  <2> QED BY <2>1, ResetLeads DEF ThreadLeads
<1> QED BY <1>3, <1>4, <1>5, <1>6, <1>7, <1>8, <1>9 DEF Stream

\* Every callback of the TCP thread, called as its rule is polled.
ThreadNames == { "receive", "from_owner", "to_owner", "send" }

LEMMA ThreadCallbackLeads ==
  ASSUME NEW v \in World, NEW r \in ThreadNames, NEW u \in ThreadCallback(v, r),
         r = "receive" => inbox \in Stream \cup {"rst"}
  PROVE  /\ u \in World /\ (v.error => u.error)
         /\ /\ r = "receive" => Acceptable(v, inbox)
            /\ r = "from_owner" => v.tcp < v.sock \/ v.up_shut
            => ThreadLeads(v, u, r)
<1>1. CASE r = "receive"
  <2>1. u \in Receive(v) BY <1>1 DEF ThreadCallback
  <2> QED BY <1>1, <2>1, ReceiveLeads
<1>2. CASE r = "from_owner"
  <2>1. u = ReadOwner(v) BY <1>2 DEF ThreadCallback
  <2> QED BY <1>2, <2>1, ReadOwnerLeads
<1>3. CASE r = "to_owner"
  <2>1. u = WriteOwner(v) BY <1>3 DEF ThreadCallback
  <2>2. ThreadLeads(v, u, r) BY <1>3, <2>1, WriteOwnerLeads
  <2> QED BY <2>2 DEF ThreadLeads
<1>4. CASE r = "send"
  <2>1. u = [ v EXCEPT !.segments = FALSE ] BY <1>4 DEF ThreadCallback
  <2>2. ThreadLeads(v, u, r) BY <2>1, SegmentsLead
  <2> QED BY <2>2 DEF ThreadLeads
<1> QED BY <1>1, <1>2, <1>3, <1>4 DEF ThreadNames

-----------------------------------------------------------------------------
\* SetUp of the owner's loop, as the fold that it is.
OwnerPass(acc, r) ==
    IF OwnerOver(acc.w, r) THEN [ acc EXCEPT !.w = OwnerCancel(acc.w, r) ]
    ELSE [ acc EXCEPT !.loop.rules = Append(@, r),
                      !.loop.asked = IF OwnerInterest(acc.w, r) THEN @ \cup {r} ELSE @ ]

OwnerFold(g, loop, v) ==
    g = [ s \in SUBSET DOMAIN loop.rules |->
            IF s = {} THEN Start(loop, v)
            ELSE OwnerPass(g[s \ {Max(s)}], loop.rules[Max(s)]) ]

LEMMA OwnerSetUpIsFold ==
  ASSUME NEW loop, NEW v
  PROVE  SetUp(loop, v, OwnerOver, OwnerInterest, OwnerCancel) =
         (CHOOSE g : OwnerFold(g, loop, v))[DOMAIN loop.rules]
BY DEF SetUp, FoldLeft, MapThenFoldSet, OwnerFold, OwnerPass, Start, Emptied

\* The rules of the owner, as functions.
OwnerOvers == [ r \in OwnerNames |-> [ x \in World |-> OwnerOver(x, r) ] ]
OwnerInterests == [ r \in OwnerNames |-> [ x \in World |-> OwnerInterest(x, r) ] ]
OwnerCancels == [ r \in OwnerNames |-> [ x \in World |-> OwnerCancel(x, r) ] ]

\* The worlds in which the connection is as far from a reset as in v.
SameError(v) == { x \in World : x.error = v.error }

LEMMA OwnerCancelFacts ==
  ASSUME NEW v \in World, NEW r \in OwnerNames
  PROVE  /\ OwnerCancel(v, r) \in World /\ OwnerCancel(v, r).error = v.error
         /\ Flow(v) /\ OwnerOver(v, r) => OwnerCancel(v, r) = v
<1> DEFINE a == [ v EXCEPT !.outbound_end = TRUE ]
           b == [ v EXCEPT !.inbound_end = TRUE ]
<1>1. OwnerCancel(v, r) = IF r \in {"stdin", "to_socket"} THEN a ELSE b BY DEF OwnerCancel
<1>2. SetOutboundEnd(v, TRUE, a)
  <2>1. a = [ v EXCEPT !.outbound_end = TRUE ] OBVIOUS
  <2> HIDE DEF a
  <2> QED BY <2>1, SetOutboundEndFacts
<1>3. SetInboundEnd(v, TRUE, b)
  <2>1. b = [ v EXCEPT !.inbound_end = TRUE ] OBVIOUS
  <2> HIDE DEF b
  <2> QED BY <2>1, SetInboundEndFacts
<1>4. v.outbound_end = TRUE => a = v BY DEF World
<1>5. v.inbound_end = TRUE => b = v BY DEF World
<1> HIDE DEF a, b
<1>6. a \in World /\ a.error = v.error BY <1>2 DEF SetOutboundEnd, SameConn
<1>7. b \in World /\ b.error = v.error BY <1>3 DEF SetInboundEnd, SameConn
<1>8. ASSUME Flow(v), OwnerOver(v, r) PROVE OwnerCancel(v, r) = v
  <2>1. v.outbound_end \in BOOLEAN /\ v.inbound_end \in BOOLEAN BY WorldFields
  <2>2. CASE r = "stdin"
    <3>1. v.outbound_end = TRUE BY <1>8, <2>1, <2>2 DEF OwnerOver, Flow, Outbound
    <3> QED BY <1>1, <1>4, <2>2, <3>1
  <2>3. CASE r \in {"from_socket", "stdout"}
    <3>1. v.inbound_end = TRUE BY <1>8, <2>1, <2>3 DEF OwnerOver, Flow, Inbound
    <3> QED BY <1>1, <1>5, <2>3, <3>1
  <2> QED BY <1>8, <2>2, <2>3 DEF OwnerOver
<1> QED BY <1>1, <1>6, <1>7, <1>8

LEMMA OwnerBehaves ==
  ASSUME NEW v \in World
  PROVE  /\ Behaves(OwnerNames, World, SameError(v), OwnerOvers, OwnerInterests, OwnerCancels)
         /\ SameError(v) \in SUBSET World /\ v \in SameError(v)
         /\ Flow(v) => Steady(OwnerNames, v, OwnerOvers, OwnerCancels)
<1>1. ASSUME NEW r \in OwnerNames, NEW x \in World
      PROVE  /\ OwnerOver(x, r) \in BOOLEAN /\ OwnerInterest(x, r) \in BOOLEAN
             /\ OwnerCancel(x, r) \in World
             /\ x \in SameError(v) => OwnerCancel(x, r) \in SameError(v)
  <2>1. OwnerOver(x, r) \in BOOLEAN BY DEF OwnerOver
  <2>2. OwnerInterest(x, r) \in BOOLEAN
    <3>1. CASE r = "stdin" BY <3>1 DEF OwnerInterest
    <3>2. CASE r = "to_socket" BY <3>2 DEF OwnerInterest
    <3>3. CASE r = "from_socket" BY <3>3 DEF OwnerInterest
    <3>4. CASE r = "stdout" BY <3>4 DEF OwnerInterest
    <3> QED BY <3>1, <3>2, <3>3, <3>4 DEF OwnerNames
  <2>3. OwnerCancel(x, r) \in World /\ OwnerCancel(x, r).error = x.error
    BY OwnerCancelFacts
  <2> QED BY <2>1, <2>2, <2>3 DEF SameError
<1>2. OwnerOvers \in [ OwnerNames -> [ World -> BOOLEAN ] ] BY <1>1 DEF OwnerOvers
<1>3. OwnerInterests \in [ OwnerNames -> [ World -> BOOLEAN ] ] BY <1>1 DEF OwnerInterests
<1>4. OwnerCancels \in [ OwnerNames -> [ World -> World ] ] BY <1>1 DEF OwnerCancels
<1>5. \A r \in OwnerNames, x \in World : x \in SameError(v) => OwnerCancels[r][x] \in SameError(v)
  BY <1>1 DEF OwnerCancels
<1>6. ASSUME Flow(v) PROVE Steady(OwnerNames, v, OwnerOvers, OwnerCancels)
  BY <1>6, OwnerCancelFacts DEF Steady, OwnerOvers, OwnerCancels
<1>7. SameError(v) \in SUBSET World /\ v \in SameError(v) BY DEF SameError
<1> QED BY <1>2, <1>3, <1>4, <1>5, <1>6, <1>7 DEF Behaves

LEMMA OwnerPassIsOne ==
  ASSUME NEW acc \in Accs(OwnerNames, World), NEW r \in OwnerNames
  PROVE  OwnerPass(acc, r) = OnePass(OwnerOvers, OwnerInterests, OwnerCancels, r, acc)
<1> DEFINE x == Append(acc.loop.rules, r)
           b == OwnerInterest(acc.w, r)
           y == Asked(acc.loop.asked, r, b)
<1>1. acc.w \in World BY DEF Accs
<1>2. /\ OwnerOvers[r][acc.w] = OwnerOver(acc.w, r)
      /\ OwnerInterests[r][acc.w] = b
      /\ OwnerCancels[r][acc.w] = OwnerCancel(acc.w, r)
  BY <1>1 DEF OwnerOvers, OwnerInterests, OwnerCancels
<1>3. CASE OwnerOver(acc.w, r)
  <2>1. OwnerPass(acc, r) = [ acc EXCEPT !.w = OwnerCancel(acc.w, r) ] BY <1>3 DEF OwnerPass
  <2>2. [ acc EXCEPT !.w = OwnerCancel(acc.w, r) ] =
        [ w |-> OwnerCancel(acc.w, r), loop |-> acc.loop ]
    BY DEF Accs
  <2> QED BY <1>2, <1>3, <2>1, <2>2 DEF OnePass
<1>4. CASE ~OwnerOver(acc.w, r)
  <2>1. OwnerPass(acc, r) = [ acc EXCEPT !.loop.rules = x, !.loop.asked = y ]
    BY <1>4 DEF OwnerPass, Asked
  <2> HIDE DEF x, y
  <2>2. OwnerPass(acc, r) = [ w |-> acc.w, loop |-> Added(acc.loop, x, y) ]
    BY <2>1, AddedInPlace, ZenonT(60)
  <2> QED BY <1>2, <1>4, <2>2 DEF OnePass, x, y
<1> QED BY <1>3, <1>4

LEMMA OwnerSetUpPasses ==
  ASSUME NEW loop \in LoopOf(OwnerNames), Distinct(loop.rules), NEW v \in World
  PROVE  AfterPasses(OwnerNames, World, SameError(v), OwnerOvers, OwnerInterests,
                     OwnerCancels, loop.rules, v, Len(loop.rules),
                     SetUp(loop, v, OwnerOver, OwnerInterest, OwnerCancel))
<1> DEFINE n == Len(loop.rules)
           A == Accs(OwnerNames, World)
           set == SetUp(loop, v, OwnerOver, OwnerInterest, OwnerCancel)
           base == Start(loop, v)
<1>1. loop.rules \in Seq(OwnerNames) BY DEF LoopOf
<1>2. n \in Nat /\ DOMAIN loop.rules = 1..n BY <1>1, LenProperties
<1>3. \A k \in 1..n : loop.rules[k] \in OwnerNames BY <1>1, ElementOfSeq
<1>4. /\ Behaves(OwnerNames, World, SameError(v), OwnerOvers, OwnerInterests, OwnerCancels)
      /\ SameError(v) \in SUBSET World /\ v \in SameError(v)
  BY OwnerBehaves
<1>5. base \in A BY <1>4, StartFacts
<1> HIDE DEF base
<1> HIDE DEF n, A
<1>6. PICK f : PassesOf(OwnerNames, World, OwnerOvers, OwnerInterests, OwnerCancels,
                        loop.rules, base, f)
  BY <1>1, <1>4, <1>5, PassesExist DEF A
<1> USE DEF n, A
<1>7. /\ f \in [ SUBSET (1..n) -> A ]
      /\ \A s \in SUBSET (1..n) :
            f[s] = IF s = {} THEN base
                   ELSE OnePass(OwnerOvers, OwnerInterests, OwnerCancels,
                                loop.rules[Max(s)], f[s \ {Max(s)}])
  BY <1>6 DEF PassesOf
<1>8. OwnerFold(f, loop, v)
  <2>1. ASSUME NEW s \in SUBSET (1..n)
        PROVE  f[s] = IF s = {} THEN Start(loop, v)
                      ELSE OwnerPass(f[s \ {Max(s)}], loop.rules[Max(s)])
    <3>1. CASE s = {} BY <1>7, <3>1 DEF base
    <3>2. CASE s # {}
      <4>1. Max(s) \in s BY <1>2, <3>2, MaxFacts
      <4>2. loop.rules[Max(s)] \in OwnerNames /\ f[s \ {Max(s)}] \in A BY <1>3, <1>7, <4>1
      <4>3. f[s] = OnePass(OwnerOvers, OwnerInterests, OwnerCancels,
                           loop.rules[Max(s)], f[s \ {Max(s)}])
        BY <1>7, <3>2
      <4> QED BY <3>2, <4>2, <4>3, OwnerPassIsOne
    <3> QED BY <3>1, <3>2
  <2>2. f = [ s \in SUBSET DOMAIN loop.rules |-> f[s] ] BY <1>2, <1>7
  <2> QED BY <1>2, <2>1, <2>2 DEF OwnerFold
<1> DEFINE g == CHOOSE h : OwnerFold(h, loop, v)
<1>9. OwnerFold(g, loop, v) BY <1>8
<1>10. set = g[1..n] BY <1>2, OwnerSetUpIsFold
<1> HIDE DEF g, set
<1>11. g[{}] = Start(loop, v) BY <1>9 DEF OwnerFold
<1>12. ASSUME NEW k \in 1..n, g[1..(k - 1)] \in A
       PROVE  g[1..k] = OnePass(OwnerOvers, OwnerInterests, OwnerCancels,
                                loop.rules[k], g[1..(k - 1)])
  <2>1. k \in Nat /\ k > 0 /\ 1..k \in SUBSET (1..n) BY <1>2
  <2>2. 1..k # {} /\ Max(1..k) = k /\ (1..k) \ {k} = 1..(k - 1) BY <2>1, MaxUpTo
  <2>3. g[1..k] = OwnerPass(g[1..(k - 1)], loop.rules[k]) BY <1>2, <1>9, <2>1, <2>2 DEF OwnerFold
  <2> QED BY <1>3, <1>12, <2>3, OwnerPassIsOne
<1>13. AfterPasses(OwnerNames, World, SameError(v), OwnerOvers, OwnerInterests,
                   OwnerCancels, loop.rules, v, n, g[1..n])
  BY <1>4, <1>11, <1>12, PassesResult, ZenonT(60)
<1> QED BY <1>10, <1>13 DEF set

\* What SetUp makes of the owner's loop: the rules that are not over, and the interest
\* of each.
OwnerAsks(loop, v, set) ==
    /\ set.w = v
    /\ \A r \in OwnerNames :
          /\ r \in ToSet(set.loop.rules) <=> ~OwnerOver(v, r) /\ r \in ToSet(loop.rules)
          /\ r \in set.loop.asked <=> r \in ToSet(set.loop.rules) /\ OwnerInterest(v, r)

LEMMA OwnerSetUpFacts ==
  ASSUME NEW loop \in LoopOf(OwnerNames), Distinct(loop.rules), NEW v \in World, NEW set,
         set = SetUp(loop, v, OwnerOver, OwnerInterest, OwnerCancel)
  PROVE  /\ set.w \in World /\ set.w.error = v.error
         /\ set.loop \in LoopOf(OwnerNames) /\ Fresh(set.loop) /\ Distinct(set.loop.rules)
         /\ \A r \in ToSet(set.loop.rules) : r \in ToSet(loop.rules)
         /\ Flow(v) => OwnerAsks(loop, v, set)
<1>1. AfterPasses(OwnerNames, World, SameError(v), OwnerOvers, OwnerInterests,
                  OwnerCancels, loop.rules, v, Len(loop.rules), set)
  BY OwnerSetUpPasses
<1>2. loop.rules \in Seq(OwnerNames) BY DEF LoopOf
<1>3. \A r : r \in ToSet(loop.rules) <=> \E j \in 1..Len(loop.rules) : loop.rules[j] = r
  BY <1>2, ToSetFacts
<1>4. set \in Accs(OwnerNames, World) /\ set.w \in SameError(v)
      /\ Fresh(set.loop) /\ Distinct(set.loop.rules)
      /\ \A r \in ToSet(set.loop.rules) : \E j \in 1..Len(loop.rules) : loop.rules[j] = r
  BY <1>1 DEF AfterPasses
<1>5. set.w \in World /\ set.loop \in LoopOf(OwnerNames) BY <1>4 DEF Accs
<1>6. set.w.error = v.error BY <1>4 DEF SameError
<1>7. ASSUME Flow(v)
      PROVE  /\ set.w = v
             /\ \A r \in OwnerNames :
                   /\ r \in ToSet(set.loop.rules) <=> ~OwnerOver(v, r) /\ r \in ToSet(loop.rules)
                   /\ r \in set.loop.asked <=>
                         r \in ToSet(set.loop.rules) /\ OwnerInterest(v, r)
  <2>1. Steady(OwnerNames, v, OwnerOvers, OwnerCancels) BY <1>7, OwnerBehaves
  <2>2. /\ set.w = v
        /\ \A r \in OwnerNames :
              /\ r \in ToSet(set.loop.rules) <=>
                    ~OwnerOvers[r][v] /\ \E j \in 1..Len(loop.rules) : loop.rules[j] = r
              /\ r \in set.loop.asked <=>
                    r \in ToSet(set.loop.rules) /\ OwnerInterests[r][v]
    BY <1>1, <2>1 DEF AfterPasses
  <2>3. \A r \in OwnerNames : OwnerOvers[r][v] = OwnerOver(v, r)
                               /\ OwnerInterests[r][v] = OwnerInterest(v, r)
    BY DEF OwnerOvers, OwnerInterests
  <2> QED BY <1>3, <2>2, <2>3
<1> QED BY <1>3, <1>4, <1>5, <1>6, <1>7 DEF OwnerAsks

-----------------------------------------------------------------------------
\* SetUp of the TCP thread's loop, as the fold that it is.
ThreadPass(acc, r) ==
    IF ThreadOver(acc.w, r) THEN [ acc EXCEPT !.w = ThreadCancel(acc.w, r) ]
    ELSE [ acc EXCEPT !.loop.rules = Append(@, r),
                      !.loop.asked = IF ThreadInterest(acc.w, r) THEN @ \cup {r} ELSE @ ]

ThreadFold(g, loop, v) ==
    g = [ s \in SUBSET DOMAIN loop.rules |->
            IF s = {} THEN Start(loop, v)
            ELSE ThreadPass(g[s \ {Max(s)}], loop.rules[Max(s)]) ]

LEMMA ThreadSetUpIsFold ==
  ASSUME NEW loop, NEW v
  PROVE  SetUp(loop, v, ThreadOver, ThreadInterest, ThreadCancel) =
         (CHOOSE g : ThreadFold(g, loop, v))[DOMAIN loop.rules]
BY DEF SetUp, FoldLeft, MapThenFoldSet, ThreadFold, ThreadPass, Start, Emptied

\* The rules of the TCP thread, as functions.
ThreadOvers == [ r \in ThreadNames |-> [ x \in World |-> ThreadOver(x, r) ] ]
ThreadInterests == [ r \in ThreadNames |-> [ x \in World |-> ThreadInterest(x, r) ] ]
ThreadCancels == [ r \in ThreadNames |-> [ x \in World |-> ThreadCancel(x, r) ] ]

LEMMA ThreadCancelFacts ==
  ASSUME NEW v \in World, NEW r \in ThreadNames
  PROVE  /\ ThreadCancel(v, r) \in World /\ ThreadCancel(v, r).error = v.error
         /\ Flow(v) /\ ThreadOver(v, r) => ThreadCancel(v, r) = v
<1> DEFINE u == EndInputStream(v)
<1>1. ThreadCancel(v, r) = IF r = "from_owner" THEN u ELSE v BY DEF ThreadCancel
<1>2. u \in World /\ SetTcpEndSegments(v, TRUE, v.segments \/ ~v.tcp_end, u)
  BY EndInputFacts
<1>3. u.error = v.error BY <1>2 DEF SetTcpEndSegments, SameConn
<1>4. ASSUME Flow(v), ThreadOver(v, r) PROVE u = v
  <2>1. v.data_eof \in BOOLEAN /\ v.tcp_end \in BOOLEAN /\ v.segments \in BOOLEAN
    BY WorldFields
  <2>2. v.tcp_end = TRUE BY <1>4, <2>1 DEF ThreadOver, Flow, Outbound
  <2>3. (v.segments \/ ~v.tcp_end) = v.segments BY <2>1, <2>2
  <2>4. u = [ v EXCEPT !.tcp_end = TRUE, !.segments = v.segments ]
    BY <2>3 DEF EndInputStream
  <2> QED BY <2>2, <2>4 DEF World
<1> QED BY <1>1, <1>2, <1>3, <1>4

LEMMA ThreadBehaves ==
  ASSUME NEW v \in World
  PROVE  /\ Behaves(ThreadNames, World, SameError(v),
                    ThreadOvers, ThreadInterests, ThreadCancels)
         /\ SameError(v) \in SUBSET World /\ v \in SameError(v)
         /\ Flow(v) => Steady(ThreadNames, v, ThreadOvers, ThreadCancels)
<1>1. ASSUME NEW r \in ThreadNames, NEW x \in World
      PROVE  /\ ThreadOver(x, r) \in BOOLEAN /\ ThreadInterest(x, r) \in BOOLEAN
             /\ ThreadCancel(x, r) \in World
             /\ x \in SameError(v) => ThreadCancel(x, r) \in SameError(v)
  <2>1. ThreadOver(x, r) \in BOOLEAN BY DEF ThreadOver
  <2>2. ThreadInterest(x, r) \in BOOLEAN
    <3>1. CASE r = "receive" BY <3>1, WorldFields, Zenon DEF ThreadInterest
    <3>2. CASE r = "from_owner" BY <3>2 DEF ThreadInterest
    <3>3. CASE r = "to_owner" BY <3>3 DEF ThreadInterest
    <3>4. CASE r = "send" BY <3>4, WorldFields, Zenon DEF ThreadInterest
    <3> QED BY <3>1, <3>2, <3>3, <3>4 DEF ThreadNames
  <2>3. ThreadCancel(x, r) \in World /\ ThreadCancel(x, r).error = x.error
    BY ThreadCancelFacts
  <2> QED BY <2>1, <2>2, <2>3 DEF SameError
<1>2. ThreadOvers \in [ ThreadNames -> [ World -> BOOLEAN ] ] BY <1>1 DEF ThreadOvers
<1>3. ThreadInterests \in [ ThreadNames -> [ World -> BOOLEAN ] ] BY <1>1 DEF ThreadInterests
<1>4. ThreadCancels \in [ ThreadNames -> [ World -> World ] ] BY <1>1 DEF ThreadCancels
<1>5. \A r \in ThreadNames, x \in World :
         x \in SameError(v) => ThreadCancels[r][x] \in SameError(v)
  BY <1>1 DEF ThreadCancels
<1>6. ASSUME Flow(v) PROVE Steady(ThreadNames, v, ThreadOvers, ThreadCancels)
  BY <1>6, ThreadCancelFacts DEF Steady, ThreadOvers, ThreadCancels
<1>7. SameError(v) \in SUBSET World /\ v \in SameError(v) BY DEF SameError
<1> QED BY <1>2, <1>3, <1>4, <1>5, <1>6, <1>7 DEF Behaves

LEMMA ThreadPassIsOne ==
  ASSUME NEW acc \in Accs(ThreadNames, World), NEW r \in ThreadNames
  PROVE  ThreadPass(acc, r) = OnePass(ThreadOvers, ThreadInterests, ThreadCancels, r, acc)
<1> DEFINE x == Append(acc.loop.rules, r)
           b == ThreadInterest(acc.w, r)
           y == Asked(acc.loop.asked, r, b)
<1>1. acc.w \in World BY DEF Accs
<1>2. /\ ThreadOvers[r][acc.w] = ThreadOver(acc.w, r)
      /\ ThreadInterests[r][acc.w] = b
      /\ ThreadCancels[r][acc.w] = ThreadCancel(acc.w, r)
  BY <1>1 DEF ThreadOvers, ThreadInterests, ThreadCancels
<1>3. CASE ThreadOver(acc.w, r)
  <2>1. ThreadPass(acc, r) = [ acc EXCEPT !.w = ThreadCancel(acc.w, r) ] BY <1>3 DEF ThreadPass
  <2>2. [ acc EXCEPT !.w = ThreadCancel(acc.w, r) ] =
        [ w |-> ThreadCancel(acc.w, r), loop |-> acc.loop ]
    BY DEF Accs
  <2> QED BY <1>2, <1>3, <2>1, <2>2 DEF OnePass
<1>4. CASE ~ThreadOver(acc.w, r)
  <2>1. ThreadPass(acc, r) = [ acc EXCEPT !.loop.rules = x, !.loop.asked = y ]
    BY <1>4 DEF ThreadPass, Asked
  <2> HIDE DEF x, y
  <2>2. ThreadPass(acc, r) = [ w |-> acc.w, loop |-> Added(acc.loop, x, y) ]
    BY <2>1, AddedInPlace, ZenonT(60)
  <2> QED BY <1>2, <1>4, <2>2 DEF OnePass, x, y
<1> QED BY <1>3, <1>4

LEMMA ThreadSetUpPasses ==
  ASSUME NEW loop \in LoopOf(ThreadNames), Distinct(loop.rules), NEW v \in World
  PROVE  AfterPasses(ThreadNames, World, SameError(v), ThreadOvers, ThreadInterests,
                     ThreadCancels, loop.rules, v, Len(loop.rules),
                     SetUp(loop, v, ThreadOver, ThreadInterest, ThreadCancel))
<1> DEFINE n == Len(loop.rules)
           A == Accs(ThreadNames, World)
           set == SetUp(loop, v, ThreadOver, ThreadInterest, ThreadCancel)
           base == Start(loop, v)
<1>1. loop.rules \in Seq(ThreadNames) BY DEF LoopOf
<1>2. n \in Nat /\ DOMAIN loop.rules = 1..n BY <1>1, LenProperties
<1>3. \A k \in 1..n : loop.rules[k] \in ThreadNames BY <1>1, ElementOfSeq
<1>4. /\ Behaves(ThreadNames, World, SameError(v), ThreadOvers, ThreadInterests, ThreadCancels)
      /\ SameError(v) \in SUBSET World /\ v \in SameError(v)
  BY ThreadBehaves
<1>5. base \in A BY <1>4, StartFacts
<1> HIDE DEF base
<1> HIDE DEF n, A
<1>6. PICK f : PassesOf(ThreadNames, World, ThreadOvers, ThreadInterests, ThreadCancels,
                        loop.rules, base, f)
  BY <1>1, <1>4, <1>5, PassesExist DEF A
<1> USE DEF n, A
<1>7. /\ f \in [ SUBSET (1..n) -> A ]
      /\ \A s \in SUBSET (1..n) :
            f[s] = IF s = {} THEN base
                   ELSE OnePass(ThreadOvers, ThreadInterests, ThreadCancels,
                                loop.rules[Max(s)], f[s \ {Max(s)}])
  BY <1>6 DEF PassesOf
<1>8. ThreadFold(f, loop, v)
  <2>1. ASSUME NEW s \in SUBSET (1..n)
        PROVE  f[s] = IF s = {} THEN Start(loop, v)
                      ELSE ThreadPass(f[s \ {Max(s)}], loop.rules[Max(s)])
    <3>1. CASE s = {} BY <1>7, <3>1 DEF base
    <3>2. CASE s # {}
      <4>1. Max(s) \in s BY <1>2, <3>2, MaxFacts
      <4>2. loop.rules[Max(s)] \in ThreadNames /\ f[s \ {Max(s)}] \in A BY <1>3, <1>7, <4>1
      <4>3. f[s] = OnePass(ThreadOvers, ThreadInterests, ThreadCancels,
                           loop.rules[Max(s)], f[s \ {Max(s)}])
        BY <1>7, <3>2
      <4> QED BY <3>2, <4>2, <4>3, ThreadPassIsOne
    <3> QED BY <3>1, <3>2
  <2>2. f = [ s \in SUBSET DOMAIN loop.rules |-> f[s] ] BY <1>2, <1>7
  <2> QED BY <1>2, <2>1, <2>2 DEF ThreadFold
<1> DEFINE g == CHOOSE h : ThreadFold(h, loop, v)
<1>9. ThreadFold(g, loop, v) BY <1>8
<1>10. set = g[1..n] BY <1>2, ThreadSetUpIsFold
<1> HIDE DEF g, set
<1>11. g[{}] = Start(loop, v) BY <1>9 DEF ThreadFold
<1>12. ASSUME NEW k \in 1..n, g[1..(k - 1)] \in A
       PROVE  g[1..k] = OnePass(ThreadOvers, ThreadInterests, ThreadCancels,
                                loop.rules[k], g[1..(k - 1)])
  <2>1. k \in Nat /\ k > 0 /\ 1..k \in SUBSET (1..n) BY <1>2
  <2>2. 1..k # {} /\ Max(1..k) = k /\ (1..k) \ {k} = 1..(k - 1) BY <2>1, MaxUpTo
  <2>3. g[1..k] = ThreadPass(g[1..(k - 1)], loop.rules[k]) BY <1>2, <1>9, <2>1, <2>2 DEF ThreadFold
  <2> QED BY <1>3, <1>12, <2>3, ThreadPassIsOne
<1>13. AfterPasses(ThreadNames, World, SameError(v), ThreadOvers, ThreadInterests,
                   ThreadCancels, loop.rules, v, n, g[1..n])
  BY <1>4, <1>11, <1>12, PassesResult, ZenonT(60)
<1> QED BY <1>10, <1>13 DEF set

\* What SetUp makes of the TCP thread's loop: the rules that are not over, and the interest
\* of each.
ThreadAsks(loop, v, set) ==
    /\ set.w = v
    /\ \A r \in ThreadNames :
          /\ r \in ToSet(set.loop.rules) <=> ~ThreadOver(v, r) /\ r \in ToSet(loop.rules)
          /\ r \in set.loop.asked <=> r \in ToSet(set.loop.rules) /\ ThreadInterest(v, r)

LEMMA ThreadSetUpFacts ==
  ASSUME NEW loop \in LoopOf(ThreadNames), Distinct(loop.rules), NEW v \in World, NEW set,
         set = SetUp(loop, v, ThreadOver, ThreadInterest, ThreadCancel)
  PROVE  /\ set.w \in World /\ set.w.error = v.error
         /\ set.loop \in LoopOf(ThreadNames) /\ Fresh(set.loop) /\ Distinct(set.loop.rules)
         /\ \A r \in ToSet(set.loop.rules) : r \in ToSet(loop.rules)
         /\ Flow(v) => ThreadAsks(loop, v, set)
<1>1. AfterPasses(ThreadNames, World, SameError(v), ThreadOvers, ThreadInterests,
                  ThreadCancels, loop.rules, v, Len(loop.rules), set)
  BY ThreadSetUpPasses
<1>2. loop.rules \in Seq(ThreadNames) BY DEF LoopOf
<1>3. \A r : r \in ToSet(loop.rules) <=> \E j \in 1..Len(loop.rules) : loop.rules[j] = r
  BY <1>2, ToSetFacts
<1>4. set \in Accs(ThreadNames, World) /\ set.w \in SameError(v)
      /\ Fresh(set.loop) /\ Distinct(set.loop.rules)
      /\ \A r \in ToSet(set.loop.rules) : \E j \in 1..Len(loop.rules) : loop.rules[j] = r
  BY <1>1 DEF AfterPasses
<1>5. set.w \in World /\ set.loop \in LoopOf(ThreadNames) BY <1>4 DEF Accs
<1>6. set.w.error = v.error BY <1>4 DEF SameError
<1>7. ASSUME Flow(v)
      PROVE  /\ set.w = v
             /\ \A r \in ThreadNames :
                   /\ r \in ToSet(set.loop.rules) <=> ~ThreadOver(v, r) /\ r \in ToSet(loop.rules)
                   /\ r \in set.loop.asked <=>
                         r \in ToSet(set.loop.rules) /\ ThreadInterest(v, r)
  <2>1. Steady(ThreadNames, v, ThreadOvers, ThreadCancels) BY <1>7, ThreadBehaves
  <2>2. /\ set.w = v
        /\ \A r \in ThreadNames :
              /\ r \in ToSet(set.loop.rules) <=>
                    ~ThreadOvers[r][v] /\ \E j \in 1..Len(loop.rules) : loop.rules[j] = r
              /\ r \in set.loop.asked <=>
                    r \in ToSet(set.loop.rules) /\ ThreadInterests[r][v]
    BY <1>1, <2>1 DEF AfterPasses
  <2>3. \A r \in ThreadNames : ThreadOvers[r][v] = ThreadOver(v, r)
                               /\ ThreadInterests[r][v] = ThreadInterest(v, r)
    BY DEF ThreadOvers, ThreadInterests
  <2> QED BY <1>3, <2>2, <2>3
<1> QED BY <1>3, <1>4, <1>5, <1>6, <1>7 DEF ThreadAsks

-----------------------------------------------------------------------------
\* add_rule, once for each rule, from an empty loop: the loop has these rules.
AddFold(g, rules) ==
    g = [ s \in SUBSET DOMAIN rules |->
            IF s = {} THEN NewEventLoop ELSE add_rule(g[s \ {Max(s)}], rules[Max(s)]) ]

LEMMA AddRulesIsFold ==
  ASSUME NEW rules
  PROVE  FoldLeft(add_rule, NewEventLoop, rules) = (CHOOSE g : AddFold(g, rules))[DOMAIN rules]
BY DEF FoldLeft, MapThenFoldSet, AddFold

\* The loop l has the first k of the rules.
HasRules(S, rules, k, l) ==
    /\ l \in LoopOf(S) /\ Fresh(l) /\ Len(l.rules) = k
    /\ \A j \in 1..k : l.rules[j] = rules[j]

LEMMA NewLoopFacts ==
  ASSUME NEW S, NEW rules
  PROVE  HasRules(S, rules, 0, NewEventLoop)
<1>1. <<>> \in Seq(S) /\ Len(<<>>) = 0 BY EmptySeq
<1>2. NewEventLoop \in LoopOf(S) BY <1>1 DEF NewEventLoop, LoopOf
<1>3. Fresh(NewEventLoop) /\ NewEventLoop.rules = <<>> BY DEF NewEventLoop, Fresh
<1> QED BY <1>1, <1>2, <1>3 DEF HasRules

LEMMA AddRuleFacts ==
  ASSUME NEW S, NEW rules \in Seq(S), NEW k \in 1..Len(rules), NEW l,
         HasRules(S, rules, k - 1, l)
  PROVE  HasRules(S, rules, k, add_rule(l, rules[k]))
<1> DEFINE r == rules[k]
           x == Append(l.rules, r)
           new == [ l EXCEPT !.rules = x ]
<1>1. Len(rules) \in Nat BY LenProperties
<1>2. k \in Nat /\ k - 1 + 1 = k /\ r \in S BY <1>1, ElementOfSeq
<1>3. l \in LoopOf(S) /\ l.rules \in Seq(S) /\ Len(l.rules) = k - 1
      /\ \A j \in 1..(k - 1) : l.rules[j] = rules[j]
  BY DEF HasRules, LoopOf
<1> HIDE DEF r
<1>4. /\ x \in Seq(S) /\ Len(x) = k
      /\ \A j \in 1..k : x[j] = IF j = k THEN r ELSE l.rules[j]
  BY <1>2, <1>3, AppendFacts
<1>5. add_rule(l, r) = new BY DEF add_rule
<1> HIDE DEF x
<1>6. new \in LoopOf(S) BY <1>3, <1>4, UpdateLoop
<1>7. new.rules = x /\ Fresh(new) BY <1>3 DEF LoopOf, Fresh, HasRules
<1>8. \A j \in 1..k : x[j] = rules[j]
  <2>1. \A j \in 1..k : j # k => j \in 1..(k - 1) BY <1>2
  <2> QED BY <1>3, <1>4, <2>1 DEF r
<1> HIDE DEF new
<1> QED BY <1>4, <1>5, <1>6, <1>7, <1>8 DEF HasRules, r

LEMMA AddRulesFacts ==
  ASSUME NEW S, NEW rules \in Seq(S)
  PROVE  HasRules(S, rules, Len(rules), FoldLeft(add_rule, NewEventLoop, rules))
<1> DEFINE n == Len(rules)
           A == LoopOf(S)
           step == [ k \in 1..n |-> [ l \in A |-> add_rule(l, rules[k]) ] ]
<1>1. n \in Nat /\ DOMAIN rules = 1..n BY LenProperties
<1>2. ASSUME NEW k \in 1..n, NEW l \in A PROVE add_rule(l, rules[k]) \in A
  <2>1. rules[k] \in S BY ElementOfSeq
  <2>2. l.rules \in Seq(S) BY DEF LoopOf
  <2>3. Append(l.rules, rules[k]) \in Seq(S) BY <2>1, <2>2, AppendFacts
  <2> QED BY <2>3, UpdateLoop DEF add_rule
<1>3. step \in [ 1..n -> [ A -> A ] ] BY <1>2
<1>4. \A k \in 1..n, l \in A : step[k][l] = add_rule(l, rules[k]) OBVIOUS
<1>5. NewEventLoop \in A BY NewLoopFacts DEF HasRules
<1> HIDE DEF n, A, step
<1>6. PICK f \in [ SUBSET (1..n) -> A ] : Folding(f, n, NewEventLoop, step)
  BY <1>1, <1>3, <1>5, FoldExists
<1>7. AddFold(f, rules)
  <2>1. ASSUME NEW s \in SUBSET (1..n)
        PROVE  f[s] = IF s = {} THEN NewEventLoop
                      ELSE add_rule(f[s \ {Max(s)}], rules[Max(s)])
    <3>1. f[s] = IF s = {} THEN NewEventLoop ELSE step[Max(s)][f[s \ {Max(s)}]]
      BY <1>6 DEF Folding
    <3>2. CASE s = {} BY <3>1, <3>2
    <3>3. CASE s # {}
      <4>1. Max(s) \in s BY <1>1, <3>3, MaxFacts
      <4>2. Max(s) \in 1..n /\ f[s \ {Max(s)}] \in A BY <4>1
      <4> QED BY <1>4, <3>1, <3>3, <4>2
    <3> QED BY <3>2, <3>3
  <2> QED BY <1>1, <2>1 DEF AddFold
<1> DEFINE g == CHOOSE h : AddFold(h, rules)
           T == { k \in 0..n : HasRules(S, rules, k, g[1..k]) }
<1>8. AddFold(g, rules) BY <1>7
<1>9. FoldLeft(add_rule, NewEventLoop, rules) = g[1..n] BY <1>1, AddRulesIsFold
<1> HIDE DEF g
<1>10. 0 \in T
  <2>1. 1..0 = {} /\ 0 \in 0..n BY <1>1
  <2>2. g[{}] = NewEventLoop BY <1>8 DEF AddFold
  <2> QED BY <2>1, <2>2, NewLoopFacts
<1>11. ASSUME NEW i \in 0..(n - 1), i \in T PROVE i + 1 \in T
  <2> DEFINE k == i + 1
  <2>1. k \in Nat /\ k > 0 /\ k \in 1..n /\ k \in 0..n /\ k - 1 = i /\ 1..k \in SUBSET (1..n)
    BY <1>1
  <2> HIDE DEF k
  <2>2. 1..k # {} /\ Max(1..k) = k /\ (1..k) \ {k} = 1..(k - 1) BY <2>1, MaxUpTo
  <2>3. g[1..k] = add_rule(g[1..(k - 1)], rules[k]) BY <1>1, <1>8, <2>1, <2>2 DEF AddFold
  <2>4. HasRules(S, rules, k - 1, g[1..(k - 1)]) BY <1>11, <2>1
  <2>5. HasRules(S, rules, k, add_rule(g[1..(k - 1)], rules[k]))
    BY <2>1, <2>4, AddRuleFacts DEF n
  <2> QED BY <2>1, <2>3, <2>5 DEF k
<1> HIDE DEF T
<1>12. n \in T
  <2>1. \A k \in 0..n : k \in T BY <1>1, <1>10, <1>11, UpToInduction
  <2> QED BY <1>1, <2>1
<1> QED BY <1>9, <1>12 DEF T, n

-----------------------------------------------------------------------------
\* A loop after poll.
IsPolled(S, loop, a, b, new) ==
    /\ new \in LoopOf(S) /\ new.rules = loop.rules /\ new.asked = loop.asked
    /\ new.ready = a /\ new.hup = b /\ new.at = 1

LEMMA PolledFacts ==
  ASSUME NEW S, NEW loop \in LoopOf(S), NEW a \in SUBSET S, NEW b \in SUBSET S, NEW new,
         new = [ loop EXCEPT !.ready = a, !.hup = b, !.at = 1 ]
  PROVE  IsPolled(S, loop, a, b, new)
<1> DEFINE x == [ loop EXCEPT !.ready = a ]
           y == [ x EXCEPT !.hup = b ]
           z == [ y EXCEPT !.at = 1 ]
<1>1. new = z OBVIOUS
<1>2. x \in LoopOf(S) /\ x.rules = loop.rules /\ x.asked = loop.asked /\ x.ready = a
  <2>1. x \in LoopOf(S) BY UpdateLoop
  <2> QED BY <2>1 DEF LoopOf
<1> HIDE DEF x
<1>3. /\ y \in LoopOf(S) /\ y.rules = loop.rules /\ y.asked = loop.asked /\ y.ready = a
      /\ y.hup = b
  <2>1. y \in LoopOf(S) BY <1>2, UpdateLoop
  <2> QED BY <1>2, <2>1 DEF LoopOf
<1> HIDE DEF y
<1>4. /\ z \in LoopOf(S) /\ z.rules = loop.rules /\ z.asked = loop.asked /\ z.ready = a
      /\ z.hup = b /\ z.at = 1
  <2>1. z \in LoopOf(S) BY <1>3, UpdateLoop
  <2> QED BY <1>3, <2>1 DEF LoopOf
<1> QED BY <1>1, <1>4 DEF IsPolled

\* A loop after the rule r was served: what is left to serve was left before.
IsServed(S, loop, r, new) ==
    /\ new \in LoopOf(S) /\ Distinct(new.rules)
    /\ \A x : Unserved(new, x) => Unserved(loop, x) /\ x # r

\* The rule was called back: it stays.
LEMMA CalledFacts ==
  ASSUME NEW S, NEW loop \in LoopOf(S), Distinct(loop.rules), NEW k \in 1..Len(loop.rules),
         k \in Nat, k >= loop.at, NEW new, new = [ loop EXCEPT !.at = k + 1 ]
  PROVE  /\ IsServed(S, loop, loop.rules[k], new)
         /\ new.rules = loop.rules /\ new.asked = loop.asked /\ new.ready = loop.ready
         /\ new.hup = loop.hup
<1>1. /\ loop.rules \in Seq(S) /\ loop.at \in Nat BY DEF LoopOf
<1>2. Len(loop.rules) \in Nat BY <1>1, LenProperties
<1>3. new \in LoopOf(S) BY UpdateLoop
<1>4. /\ new.rules = loop.rules /\ new.asked = loop.asked /\ new.ready = loop.ready
      /\ new.hup = loop.hup /\ new.at = k + 1
  BY DEF LoopOf
<1>5. ASSUME NEW x, Unserved(new, x) PROVE Unserved(loop, x) /\ x # loop.rules[k]
  <2>1. PICK j \in 1..Len(loop.rules) : j >= k + 1 /\ loop.rules[j] = x
    BY <1>4, <1>5 DEF Unserved
  <2>2. j >= loop.at /\ j # k BY <1>1, <1>2, <2>1
  <2>3. x # loop.rules[k] BY <2>1, <2>2 DEF Distinct
  <2> QED BY <1>4, <1>5, <2>1, <2>2, <2>3 DEF Unserved
<1> QED BY <1>3, <1>4, <1>5 DEF IsServed

\* The rule was cancelled: it is gone.
LEMMA CancelledFacts ==
  ASSUME NEW S, NEW loop \in LoopOf(S), Distinct(loop.rules), NEW k \in 1..Len(loop.rules),
         k \in Nat, k >= loop.at, NEW new,
         new = [ loop EXCEPT !.rules = RemoveAt(@, k), !.at = k ]
  PROVE  IsServed(S, loop, loop.rules[k], new)
<1> DEFINE x == RemoveAt(loop.rules, k)
           a == [ loop EXCEPT !.rules = x ]
           b == [ a EXCEPT !.at = k ]
           n == Len(loop.rules)
<1>1. loop.rules \in Seq(S) /\ loop.at \in Nat BY DEF LoopOf
<1>2. n \in Nat BY <1>1, LenProperties
<1>3. new = b OBVIOUS
<1>4. /\ x \in Seq(S) /\ Len(x) = n - 1
      /\ \A j \in 1..(n - 1) : x[j] = IF j < k THEN loop.rules[j] ELSE loop.rules[j + 1]
  BY <1>1, RemoveAtFacts
<1> HIDE DEF x
<1>5. a \in LoopOf(S) /\ a.rules = x /\ a.ready = loop.ready
  <2>1. a \in LoopOf(S) BY <1>4, UpdateLoop
  <2> QED BY <2>1 DEF LoopOf
<1> HIDE DEF a
<1>6. b \in LoopOf(S) /\ b.rules = x /\ b.ready = loop.ready /\ b.at = k
  <2>1. b \in LoopOf(S) BY <1>5, UpdateLoop
  <2> QED BY <1>5, <2>1 DEF LoopOf
<1> HIDE DEF b
<1>7. \A i, j \in 1..n : loop.rules[i] = loop.rules[j] => i = j BY DEF Distinct
<1>8. ASSUME NEW i \in 1..(n - 1), NEW j \in 1..(n - 1), x[i] = x[j] PROVE i = j
  <2> DEFINE c == IF i < k THEN i ELSE i + 1
             d == IF j < k THEN j ELSE j + 1
  <2>1. c \in 1..n /\ d \in 1..n BY <1>2
  <2>2. x[i] = loop.rules[c] /\ x[j] = loop.rules[d] BY <1>4
  <2>3. c = d => i = j BY <1>2
  <2> HIDE DEF c, d
  <2>4. c = d BY <1>7, <1>8, <2>1, <2>2
  <2> QED BY <2>3, <2>4
<1>9. Distinct(x) BY <1>4, <1>8 DEF Distinct
<1>10. ASSUME NEW y, Unserved(b, y) PROVE Unserved(loop, y) /\ y # loop.rules[k]
  <2>1. PICK j \in 1..(n - 1) : j >= k /\ x[j] = y BY <1>4, <1>6, <1>10 DEF Unserved
  <2>2. /\ loop.rules[j + 1] = y /\ j + 1 \in 1..n /\ j + 1 >= loop.at /\ j + 1 # k
    BY <1>1, <1>2, <1>4, <2>1
  <2>3. y # loop.rules[k] BY <1>7, <2>2
  <2> QED BY <1>6, <1>10, <2>2, <2>3 DEF Unserved
<1> QED BY <1>3, <1>6, <1>9, <1>10 DEF IsServed

-----------------------------------------------------------------------------
\* The inductive invariant.  The loops have each rule once, and never serve a
\* segment that is not there; as long as nothing was reset or dropped, the streams
\* are in order, a rule is gone only if its stream is over, a rule that waits to
\* be read has something to read, and the waiting segment fits the stream.
OwnerLoop(loop) == loop \in LoopOf(OwnerNames) /\ Distinct(loop.rules)

ThreadLoop(loop, box) ==
    /\ loop \in LoopOf(ThreadNames) /\ Distinct(loop.rules)
    /\ Unserved(loop, "receive") => box # "none"

OwnerHas(loop, v) ==
    /\ "to_socket" \in ToSet(loop.rules)
    /\ "stdin" \in ToSet(loop.rules) \/ v.stdin_eof
    /\ "from_socket" \in ToSet(loop.rules) \/ v.socket_eof
    /\ "stdout" \in ToSet(loop.rules) \/ v.stdout_closed

OwnerServing(loop, v) ==
    /\ OwnerHas(loop, v)
    /\ \A r \in OwnerNames : ~Defunct(loop, r)
    /\ Unserved(loop, "from_socket") => v.app < v.pipe \/ v.down_shut

ThreadHas(loop) == "receive" \in ToSet(loop.rules) /\ "to_owner" \in ToSet(loop.rules)

ThreadServing(loop, v) ==
    /\ ThreadHas(loop)
    /\ \A r \in ThreadNames : ~Defunct(loop, r)
    /\ Unserved(loop, "from_owner") => v.tcp < v.sock \/ v.up_shut

Waiting(v, pc, box) ==
    /\ Acceptable(v, box)
    /\ pc = "open" => box = "none" /\ v.state = "CLOSED"

Orderly(v, o, t, pc, box) ==
    Flow(v) /\ OwnerServing(o, v) /\ ThreadServing(t, v) /\ Waiting(v, pc, box)

Inv ==
    /\ w \in World /\ OwnerLoop(owner) /\ ThreadLoop(thread, inbox)
    /\ inbox \in {"none"} \cup Stream \cup {"rst"}
    /\ w.error \/ abort \/ Orderly(w, owner, thread, opc, inbox)

\* A loop between two events.
LEMMA FreshFacts ==
  ASSUME NEW loop, Fresh(loop)
  PROVE  \A r : ~Defunct(loop, r) /\ ~Unserved(loop, r)
BY DEF Fresh, Defunct, Unserved

\* The first loops have their four rules.
LEMMA OwnerRulesFacts ==
  /\ OwnerRules \in Seq(OwnerNames) /\ Len(OwnerRules) = 4 /\ Distinct(OwnerRules)
  /\ \A r \in OwnerNames : \E k \in 1..4 : OwnerRules[k] = r
<1>1. OwnerRules \in Seq(OwnerNames) /\ Len(OwnerRules) = 4
  BY DEF OwnerRules, OwnerNames
<1>2. /\ OwnerRules[1] = "stdin" /\ OwnerRules[2] = "to_socket"
      /\ OwnerRules[3] = "from_socket" /\ OwnerRules[4] = "stdout"
  BY DEF OwnerRules
<1>3. \A k \in 1..4 : k = 1 \/ k = 2 \/ k = 3 \/ k = 4 OBVIOUS
<1>4. Distinct(OwnerRules)
  <2> SUFFICES ASSUME NEW i \in 1..4, NEW j \in 1..4, OwnerRules[i] = OwnerRules[j]
               PROVE  i = j
    BY <1>1 DEF Distinct
  <2> QED BY <1>2, <1>3
<1>5. \A r \in OwnerNames : \E k \in 1..4 : OwnerRules[k] = r
  <2>1. 1 \in 1..4 /\ 2 \in 1..4 /\ 3 \in 1..4 /\ 4 \in 1..4 OBVIOUS
  <2> QED BY <1>2, <2>1 DEF OwnerNames
<1> QED BY <1>1, <1>4, <1>5

LEMMA ThreadRulesFacts ==
  /\ ThreadRules \in Seq(ThreadNames) /\ Len(ThreadRules) = 4 /\ Distinct(ThreadRules)
  /\ \A r \in ThreadNames : \E k \in 1..4 : ThreadRules[k] = r
<1>1. ThreadRules \in Seq(ThreadNames) /\ Len(ThreadRules) = 4
  BY DEF ThreadRules, ThreadNames
<1>2. /\ ThreadRules[1] = "receive" /\ ThreadRules[2] = "from_owner"
      /\ ThreadRules[3] = "to_owner" /\ ThreadRules[4] = "send"
  BY DEF ThreadRules
<1>3. \A k \in 1..4 : k = 1 \/ k = 2 \/ k = 3 \/ k = 4 OBVIOUS
<1>4. Distinct(ThreadRules)
  <2> SUFFICES ASSUME NEW i \in 1..4, NEW j \in 1..4, ThreadRules[i] = ThreadRules[j]
               PROVE  i = j
    BY <1>1 DEF Distinct
  <2> QED BY <1>2, <1>3
<1>5. \A r \in ThreadNames : \E k \in 1..4 : ThreadRules[k] = r
  <2>1. 1 \in 1..4 /\ 2 \in 1..4 /\ 3 \in 1..4 /\ 4 \in 1..4 OBVIOUS
  <2> QED BY <1>2, <2>1 DEF ThreadNames
<1> QED BY <1>1, <1>4, <1>5

\* A loop that has n distinct rules has all of them, once.
LEMMA HasRulesFacts ==
  ASSUME NEW S, NEW rules \in Seq(S), Distinct(rules), NEW loop,
         HasRules(S, rules, Len(rules), loop)
  PROVE  /\ loop \in LoopOf(S) /\ Distinct(loop.rules) /\ Fresh(loop)
         /\ \A k \in 1..Len(rules) : rules[k] \in ToSet(loop.rules)
<1>1. /\ loop \in LoopOf(S) /\ Fresh(loop) /\ Len(loop.rules) = Len(rules)
      /\ \A k \in 1..Len(rules) : loop.rules[k] = rules[k]
  BY DEF HasRules
<1>2. loop.rules \in Seq(S) BY <1>1 DEF LoopOf
<1>3. Distinct(loop.rules) BY <1>1 DEF Distinct
<1>4. \A k \in 1..Len(rules) : rules[k] \in ToSet(loop.rules) BY <1>1, <1>2, ToSetFacts
<1> QED BY <1>1, <1>3, <1>4

LEMMA NewWorldFacts ==
  NewWorld \in World /\ Flow(NewWorld) /\ NewWorld.state = "CLOSED"
<1>1. NewWorld \in World BY DEF NewWorld, World, States, Failures
<1>2. Queues(NewWorld) BY Capacities DEF NewWorld, Queues
<1>3. Outbound(NewWorld) BY DEF NewWorld, Outbound
<1>4. Inbound(NewWorld) BY DEF NewWorld, Inbound
<1>5. Closing(NewWorld) /\ NewWorld.failure = "none" /\ NewWorld.state = "CLOSED"
  BY DEF NewWorld, Closing
<1> QED BY <1>1, <1>2, <1>3, <1>4, <1>5 DEF Flow

LEMMA InitInv == Init => Inv
<1> SUFFICES ASSUME Init PROVE Inv OBVIOUS
<1>1. HasRules(OwnerNames, OwnerRules, Len(OwnerRules), owner)
  BY OwnerRulesFacts, AddRulesFacts DEF Init
<1>2. HasRules(ThreadNames, ThreadRules, Len(ThreadRules), thread)
  BY ThreadRulesFacts, AddRulesFacts DEF Init
<1>3. /\ owner \in LoopOf(OwnerNames) /\ Distinct(owner.rules) /\ Fresh(owner)
      /\ \A r \in OwnerNames : r \in ToSet(owner.rules)
  <2>1. \A k \in 1..4 : OwnerRules[k] \in ToSet(owner.rules)
    BY <1>1, OwnerRulesFacts, HasRulesFacts
  <2> QED BY <1>1, <2>1, OwnerRulesFacts, HasRulesFacts
<1>4. /\ thread \in LoopOf(ThreadNames) /\ Distinct(thread.rules) /\ Fresh(thread)
      /\ \A r \in ThreadNames : r \in ToSet(thread.rules)
  <2>1. \A k \in 1..4 : ThreadRules[k] \in ToSet(thread.rules)
    BY <1>2, ThreadRulesFacts, HasRulesFacts
  <2> QED BY <1>2, <2>1, ThreadRulesFacts, HasRulesFacts
<1>5. OwnerHas(owner, w) BY <1>3 DEF OwnerHas, OwnerNames
<1>6. ThreadHas(thread) BY <1>4 DEF ThreadHas, ThreadNames
<1>7. OwnerServing(owner, w) BY <1>3, <1>5, FreshFacts DEF OwnerServing
<1>8. ThreadServing(thread, w) BY <1>4, <1>6, FreshFacts DEF ThreadServing
<1>9. Waiting(w, opc, inbox) BY NewWorldFacts DEF Waiting, Acceptable, Init
<1>10. OwnerLoop(owner) /\ ThreadLoop(thread, inbox)
  BY <1>3, <1>4, FreshFacts DEF OwnerLoop, ThreadLoop
<1>11. w \in World /\ Flow(w) /\ inbox = "none" BY NewWorldFacts DEF Init
<1> QED BY <1>7, <1>8, <1>9, <1>10, <1>11 DEF Inv, Orderly

\* Steps that change neither the bytes nor the loops.
LEMMA ConnectsInv == Inv /\ (OwnerConnects \/ OwnerListens) => Inv'
<1> SUFFICES ASSUME Inv, OwnerConnects \/ OwnerListens PROVE Inv' OBVIOUS
<1>1. w \in World BY DEF Inv
<1>2. /\ w' \in World /\ w'.error = w.error /\ w'.active = w.active
      /\ w'.failure = w.failure
      /\ SameOutCounts(w, w') /\ SameOutFlags(w, w') /\ SameInCounts(w, w')
      /\ SameInFlags(w, w')
  <2>1. CASE OwnerConnects
    <3>1. w' = [ w EXCEPT !.state = "SYN_SENT", !.segments = TRUE ]
      BY <2>1 DEF OwnerConnects
    <3>2. "SYN_SENT" \in States BY DEF States
    <3>3. SetStateSegments(w, "SYN_SENT", TRUE, w')
      BY <1>1, <3>1, <3>2, SetStateSegmentsFacts
    <3> QED BY <3>3 DEF SetStateSegments
  <2>2. CASE OwnerListens
    <3>1. w' = [ w EXCEPT !.state = "LISTEN" ] BY <2>2 DEF OwnerListens
    <3>2. "LISTEN" \in States BY DEF States
    <3>3. SetState(w, "LISTEN", w') BY <1>1, <3>1, <3>2, SetStateFacts
    <3> QED BY <3>3 DEF SetState
  <2> QED BY <2>1, <2>2
<1>3. /\ opc = "open" /\ opc' # "open" /\ owner' = owner /\ thread' = thread
      /\ abort' = abort /\ inbox' = inbox
  BY DEF OwnerConnects, OwnerListens
<1>4. ASSUME Orderly(w, owner, thread, opc, inbox)
      PROVE  Orderly(w', owner', thread', opc', inbox')
  <2>1. inbox = "none" BY <1>3, <1>4 DEF Orderly, Waiting
  <2>2. Flow(w')
    BY <1>2, <1>4 DEF Orderly, Flow, Queues, Outbound, Inbound, Closing, SameOutCounts,
                      SameOutFlags, SameInCounts, SameInFlags
  <2>3. OwnerServing(owner', w')
    BY <1>2, <1>3, <1>4
    DEF Orderly, OwnerServing, OwnerHas, SameOutFlags, SameInCounts, SameInFlags
  <2>4. ThreadServing(thread', w')
    BY <1>2, <1>3, <1>4 DEF Orderly, ThreadServing, SameOutCounts, SameOutFlags
  <2>5. Waiting(w', opc', inbox') BY <1>3, <2>1 DEF Waiting, Acceptable
  <2> QED BY <2>2, <2>3, <2>4, <2>5 DEF Orderly
<1> QED BY <1>2, <1>3, <1>4 DEF Inv

LEMMA StartsInv == Inv /\ (OwnerStarts \/ OwnerJoins) => Inv'
<1> SUFFICES ASSUME Inv, OwnerStarts \/ OwnerJoins PROVE Inv' OBVIOUS
<1>1. /\ opc' # "open" /\ w' = w /\ owner' = owner /\ thread' = thread
      /\ abort' = abort /\ inbox' = inbox
  BY DEF OwnerStarts, OwnerJoins
<1>2. Orderly(w, owner, thread, opc, inbox) => Orderly(w', owner', thread', opc', inbox')
  BY <1>1 DEF Orderly, Waiting
<1> QED BY <1>1, <1>2 DEF Inv

LEMMA DropsInv == Inv /\ OwnerDrops => Inv'
BY DEF Inv, OwnerDrops

\* The peer sends what fits the stream, after the connection was opened.
LEMMA PeerInv ==
  ASSUME Inv, NEW s \in Stream \cup {"rst"}, PeerSends(s)
  PROVE  Inv'
<1>1. /\ inbox = "none" /\ PeerMay(s) /\ inbox' = s /\ w' = w /\ owner' = owner
      /\ thread' = thread /\ opc' = opc /\ abort' = abort
  BY DEF PeerSends
<1>2. w.acked \in Int /\ w.tcp \in Int /\ w.tcp_end \in BOOLEAN BY WorldFields DEF Inv
<1>3. s # "none" BY DEF Stream
<1>4. w.state # "CLOSED" /\ Acceptable(w, s)
  <2>1. CASE s = "syn" BY <1>1, <2>1 DEF PeerMay, Acceptable
  <2>2. CASE s = "synack" BY <1>1, <2>2 DEF PeerMay, Acceptable
  <2>3. CASE s = "data" BY <1>1, <2>3 DEF PeerMay, Acceptable, Open
  <2>4. CASE s = "ack"
    <3>1. \/ w.state = "SYN_RCVD"
          \/ w.state = "ESTABLISHED" /\ w.acked < w.tcp + (IF w.tcp_end THEN 1 ELSE 0)
      BY <1>1, <2>4 DEF PeerMay, Open
    <3>2. w.acked < w.tcp + (IF w.tcp_end THEN 1 ELSE 0)
            => w.acked < w.tcp \/ (w.acked = w.tcp /\ w.tcp_end)
      BY <1>2
    <3> QED BY <2>4, <3>1, <3>2 DEF Acceptable
  <2>5. CASE s = "fin" BY <1>1, <2>5 DEF PeerMay, Acceptable, Open
  <2>6. CASE s = "rst" BY <1>1, <2>6 DEF PeerMay, Acceptable
  <2> QED BY <2>1, <2>2, <2>3, <2>4, <2>5, <2>6 DEF Stream
<1>5. Orderly(w, owner, thread, opc, inbox) => Orderly(w', owner', thread', opc', inbox')
  BY <1>1, <1>4 DEF Orderly, Waiting
<1>6. OwnerLoop(owner') /\ ThreadLoop(thread', inbox')
  BY <1>1, <1>3 DEF Inv, ThreadLoop
<1> QED BY <1>1, <1>5, <1>6 DEF Inv

-----------------------------------------------------------------------------
\* The owner's loop after SetUp: it lost the rules whose streams are over.
OwnerSet(loop, v, set) ==
    /\ set.w \in World /\ set.w.error = v.error /\ OwnerLoop(set.loop) /\ Fresh(set.loop)
    /\ Flow(v) /\ OwnerHas(loop, v) =>
          /\ set.w = v /\ OwnerHas(set.loop, v)
          /\ \A r \in OwnerNames :
                r \in set.loop.asked <=> r \in ToSet(set.loop.rules) /\ OwnerInterest(v, r)

LEMMA OwnerKeepsRules ==
  ASSUME NEW loop, OwnerLoop(loop), NEW v \in World, NEW set,
         set = SetUp(loop, v, OwnerOver, OwnerInterest, OwnerCancel)
  PROVE  OwnerSet(loop, v, set)
<1>1. loop \in LoopOf(OwnerNames) /\ Distinct(loop.rules) BY DEF OwnerLoop
<1>2. /\ set.w \in World /\ set.w.error = v.error /\ OwnerLoop(set.loop)
      /\ Fresh(set.loop)
  BY <1>1, OwnerSetUpFacts DEF OwnerLoop
<1>3. ASSUME Flow(v), OwnerHas(loop, v)
      PROVE  /\ set.w = v /\ OwnerHas(set.loop, v)
             /\ \A r \in OwnerNames :
                   r \in set.loop.asked <=>
                       r \in ToSet(set.loop.rules) /\ OwnerInterest(v, r)
  <2>1. OwnerAsks(loop, v, set)
    BY <1>1, <1>3, OwnerSetUpFacts, ZenonT(30)
  <2>2. /\ set.w = v
        /\ \A r \in OwnerNames :
              /\ r \in ToSet(set.loop.rules) <=> ~OwnerOver(v, r) /\ r \in ToSet(loop.rules)
              /\ r \in set.loop.asked <=>
                    r \in ToSet(set.loop.rules) /\ OwnerInterest(v, r)
    BY <2>1 DEF OwnerAsks
  <2>3. OwnerHas(set.loop, v)
    BY <1>3, <2>2 DEF OwnerHas, OwnerOver, OwnerNames
  <2> QED BY <2>2, <2>3
<1> QED BY <1>2, <1>3 DEF OwnerSet

\* When the owner has nothing to poll, both copies are complete.
LEMMA OwnerCopied ==
  ASSUME NEW v \in World, Flow(v), NEW loop, OwnerHas(loop, v),
         NothingToPoll(loop),
         \A r \in OwnerNames :
            r \in loop.asked <=> r \in ToSet(loop.rules) /\ OwnerInterest(v, r)
  PROVE  /\ v.sock = N /\ v.outbound_shutdown
         /\ v.pipe = M /\ v.app = M
<1>1. \A r \in OwnerNames : r \in ToSet(loop.rules) => ~OwnerInterest(v, r)
  BY DEF NothingToPoll
<1>2. /\ v.in \in Int /\ v.sock \in Int /\ v.app \in Int /\ v.out \in Int
      /\ v.pipe \in Int /\ v.net \in Int
  BY WorldFields
<1>3. v.sock = v.in /\ ~(OutboundEof(v) /\ ~v.outbound_shutdown)
  <2>1. ~OwnerInterest(v, "to_socket") BY <1>1 DEF OwnerHas, OwnerNames
  <2>2. ~(v.sock < v.in) /\ ~(OutboundEof(v) /\ ~v.outbound_shutdown)
    BY <2>1 DEF OwnerInterest
  <2> QED BY <1>2, <2>2 DEF Flow, Queues
<1>4. v.stdin_eof
  <2>1. "stdin" \in ToSet(loop.rules) => ~(v.in - v.sock < AppCapacity)
    BY <1>1 DEF OwnerNames, OwnerInterest
  <2> QED BY <1>2, <1>3, <2>1, Capacities DEF OwnerHas
<1>5. v.outbound_end /\ v.in = N BY <1>4 DEF Flow, Outbound
<1>6. v.outbound_shutdown BY <1>3, <1>5 DEF OutboundEof
<1>7. v.stdout_closed
  <2>1. SUFFICES ASSUME ~v.stdout_closed PROVE FALSE OBVIOUS
  <2>2. ~OwnerInterest(v, "stdout") BY <1>1, <2>1 DEF OwnerHas, OwnerNames
  <2>3. ~(v.out < v.app) /\ ~InboundEof(v) BY <2>1, <2>2 DEF OwnerInterest
  <2>4. v.out = v.app BY <1>2, <2>3 DEF Flow, Queues
  <2>5. ~v.socket_eof BY <2>3, <2>4 DEF InboundEof, Flow, Inbound
  <2>6. ~OwnerInterest(v, "from_socket") BY <1>1, <2>5 DEF OwnerHas, OwnerNames
  <2>7. ~(v.app - v.out < AppCapacity) BY <2>6 DEF OwnerInterest
  <2> QED BY <1>2, <2>4, <2>7, Capacities
<1>8. v.app = M BY <1>7 DEF Flow, Inbound
<1>9. v.pipe = M
  <2>1. v.app <= v.pipe /\ v.pipe <= v.net /\ v.net <= M BY DEF Flow, Queues
  <2> QED BY <1>2, <1>8, <2>1, Capacities
<1> QED BY <1>3, <1>5, <1>6, <1>8, <1>9

\* Nothing that poll reports is only a hangup.
LEMMA OwnerNotHungUp ==
  ASSUME NEW v \in World, Flow(v), NEW r \in OwnerNames, OwnerInterest(v, r),
         OwnerHup(v, r)
  PROVE  OwnerReady(v, r)
<1>1. r \in {"to_socket", "from_socket"} /\ v.up_shut /\ v.down_shut
  BY DEF OwnerHup, HungUp
<1>2. CASE r = "from_socket" BY <1>1, <1>2 DEF OwnerReady
<1>3. CASE r = "to_socket"
  <2>1. v.in \in Int /\ v.sock \in Int /\ v.tcp \in Int BY WorldFields
  <2>2. v.sock < v.in \/ (OutboundEof(v) /\ ~v.outbound_shutdown)
    BY <1>3 DEF OwnerInterest
  <2>3. v.sock = N /\ (v.outbound_shutdown \/ v.tcp = N) BY <1>1 DEF Flow, Outbound
  <2>4. v.tcp = v.sock BY <2>1, <2>2, <2>3, Capacities DEF Flow, Queues
  <2>5. v.sock - v.tcp < PipeCapacity BY <2>1, <2>4, Capacities
  <2> QED BY <1>3, <2>5 DEF OwnerReady
<1> QED BY <1>1, <1>2, <1>3

\* Both directions shut down, once the streams in them are complete.
LEMMA ShutBothKeeps ==
  ASSUME NEW v \in World, NEW u, u = shutdown(v, {"up", "down"})
  PROVE  /\ u \in World /\ u.error = v.error
         /\ Flow(v) /\ v.sock = N /\ (v.outbound_shutdown \/ v.tcp = N)
            /\ v.pipe = M /\ (v.tcp_shutdown \/ v.app = M)
            => Flow(u)
         /\ u.up_shut /\ u.down_shut /\ SameOutCounts(v, u) /\ SameInCounts(v, u)
         /\ u.stdin_eof = v.stdin_eof /\ u.socket_eof = v.socket_eof
         /\ u.stdout_closed = v.stdout_closed /\ u.tcp_end = v.tcp_end /\ SameConn(v, u)
<1>1. SetUpShutDownShut(v, v.up_shut \/ "up" \in {"up", "down"},
                        v.down_shut \/ "down" \in {"up", "down"}, u)
  BY ShutdownFacts
<1>2. /\ u \in World /\ u.up_shut /\ u.down_shut /\ u.stdin_eof = v.stdin_eof
      /\ u.outbound_end = v.outbound_end /\ u.outbound_shutdown = v.outbound_shutdown
      /\ u.data_eof = v.data_eof /\ u.tcp_end = v.tcp_end /\ u.peer_end = v.peer_end
      /\ u.tcp_shutdown = v.tcp_shutdown /\ u.inbound_end = v.inbound_end
      /\ u.socket_eof = v.socket_eof /\ u.stdout_closed = v.stdout_closed
      /\ SameOutCounts(v, u) /\ SameInCounts(v, u) /\ SameConn(v, u)
  BY <1>1 DEF SetUpShutDownShut
<1>3. u.error = v.error BY <1>2 DEF SameConn
<1>4. ASSUME Flow(v), v.sock = N, v.outbound_shutdown \/ v.tcp = N,
             v.pipe = M, v.tcp_shutdown \/ v.app = M
      PROVE  Flow(u)
  <2>1. Queues(u) BY <1>2, <1>4 DEF Flow, Queues, SameOutCounts, SameInCounts
  <2>2. Outbound(u) BY <1>2, <1>4 DEF Flow, Outbound, SameOutCounts
  <2>3. Inbound(u) BY <1>2, <1>4 DEF Flow, Inbound, SameInCounts
  <2>4. Closing(u) /\ u.failure = "none"
    BY <1>2, <1>4 DEF Flow, Closing, SameOutCounts, SameConn
  <2> QED BY <2>1, <2>2, <2>3, <2>4 DEF Flow
<1> QED BY <1>2, <1>3, <1>4

\* wait_next_event of the owner, up to the return of poll.
LEMMA OwnerPollsInv == Inv /\ OwnerPolls => Inv'
<1> SUFFICES ASSUME Inv, OwnerPolls PROVE Inv' OBVIOUS
<1> DEFINE set == SetUp(owner, w, OwnerOver, OwnerInterest, OwnerCancel)
           a == { r \in set.loop.asked : OwnerReady(set.w, r) }
           b == { r \in ToSet(set.loop.rules) : OwnerHup(set.w, r) }
           polled == [ set.loop EXCEPT !.ready = a, !.hup = b, !.at = 1 ]
           loop == Poll(set.loop, set.w, OwnerReady, OwnerHup)
<1>1. /\ thread' = thread /\ abort' = abort /\ inbox' = inbox
      /\ opc = "copy" /\ opc' # "open"
  BY DEF OwnerPolls
<1>2. \/ /\ NothingToPoll(set.loop) /\ w' = shutdown(set.w, {"up", "down"})
         /\ owner' = set.loop
      \/ w' = set.w /\ owner' = loop
  BY DEF OwnerPolls
<1>3. loop = polled BY DEF Poll
<1>4. w \in World /\ OwnerLoop(owner) /\ ThreadLoop(thread, inbox) BY DEF Inv
<1>5. set = SetUp(owner, w, OwnerOver, OwnerInterest, OwnerCancel) OBVIOUS
<1> HIDE DEF set, loop
<1>6. OwnerSet(owner, w, set) BY <1>4, <1>5, OwnerKeepsRules
<1>7. /\ set.w \in World /\ set.w.error = w.error /\ OwnerLoop(set.loop)
      /\ Fresh(set.loop)
      /\ Flow(w) /\ OwnerHas(owner, w) =>
            /\ set.w = w /\ OwnerHas(set.loop, w)
            /\ \A r \in OwnerNames :
                  r \in set.loop.asked <=>
                      r \in ToSet(set.loop.rules) /\ OwnerInterest(w, r)
  BY <1>6 DEF OwnerSet
<1>8. /\ set.loop \in LoopOf(OwnerNames) /\ Distinct(set.loop.rules)
      /\ set.loop.rules \in Seq(OwnerNames) /\ set.loop.asked \in SUBSET OwnerNames
  BY <1>7 DEF OwnerLoop, LoopOf
<1>9. CASE /\ NothingToPoll(set.loop) /\ w' = shutdown(set.w, {"up", "down"})
           /\ owner' = set.loop
  <2>1. /\ w' \in World /\ w'.error = w.error
        /\ Flow(set.w) /\ set.w.sock = N /\ (set.w.outbound_shutdown \/ set.w.tcp = N)
           /\ set.w.pipe = M /\ (set.w.tcp_shutdown \/ set.w.app = M)
           => Flow(w')
        /\ w'.up_shut /\ w'.down_shut
        /\ SameOutCounts(set.w, w') /\ SameInCounts(set.w, w')
        /\ w'.stdin_eof = set.w.stdin_eof /\ w'.socket_eof = set.w.socket_eof
        /\ w'.stdout_closed = set.w.stdout_closed /\ w'.tcp_end = set.w.tcp_end
        /\ SameConn(set.w, w')
    BY <1>7, <1>9, ShutBothKeeps
  <2>2. ASSUME Orderly(w, owner, thread, opc, inbox)
        PROVE  Orderly(w', owner', thread', opc', inbox')
    <3>1. /\ set.w = w /\ OwnerHas(set.loop, w) /\ Flow(w)
          /\ \A r \in OwnerNames :
                r \in set.loop.asked <=>
                    r \in ToSet(set.loop.rules) /\ OwnerInterest(w, r)
      BY <1>7, <2>2 DEF Orderly, OwnerServing
    <3>2. w.sock = N /\ w.outbound_shutdown /\ w.pipe = M /\ w.app = M
      BY <1>4, <1>9, <3>1, OwnerCopied
    <3>3. Flow(w') BY <2>1, <3>1, <3>2
    <3>4. OwnerServing(owner', w')
      BY <1>7, <1>9, <2>1, <3>1, FreshFacts DEF OwnerServing, OwnerHas
    <3>5. ThreadServing(thread', w') BY <1>1, <2>1, <2>2 DEF Orderly, ThreadServing
    <3>6. Waiting(w', opc', inbox')
      BY <1>1, <2>1, <2>2, <3>1
      DEF Orderly, Waiting, Acceptable, SameOutCounts, SameInCounts, SameConn
    <3> QED BY <3>3, <3>4, <3>5, <3>6 DEF Orderly
  <2>3. OwnerLoop(owner') BY <1>7, <1>9
  <2> QED BY <1>1, <1>4, <2>1, <2>2, <2>3 DEF Inv
<1>10. CASE w' = set.w /\ owner' = loop
  <2>1. a \in SUBSET OwnerNames BY <1>8
  <2>2. b \in SUBSET OwnerNames
    <3>1. \A r \in ToSet(set.loop.rules) : r \in OwnerNames
      BY <1>8, ToSetFacts, ElementOfSeq
    <3> QED BY <3>1
  <2>3. \A r : r \in a <=> r \in set.loop.asked /\ OwnerReady(set.w, r) OBVIOUS
  <2>4. \A r : r \in b => OwnerHup(set.w, r) OBVIOUS
  <2>5. polled = [ set.loop EXCEPT !.ready = a, !.hup = b, !.at = 1 ] OBVIOUS
  <2> HIDE DEF a, b, polled
  <2>6. IsPolled(OwnerNames, set.loop, a, b, polled)
    BY <1>8, <2>1, <2>2, <2>5, PolledFacts
  <2>7. /\ owner' \in LoopOf(OwnerNames) /\ owner'.rules = set.loop.rules
        /\ owner'.asked = set.loop.asked /\ owner'.ready = a /\ owner'.hup = b
    BY <1>3, <1>10, <2>6 DEF IsPolled
  <2>8. OwnerLoop(owner') BY <1>8, <2>7 DEF OwnerLoop
  <2>9. ASSUME Orderly(w, owner, thread, opc, inbox)
        PROVE  Orderly(w', owner', thread', opc', inbox')
    <3>1. /\ set.w = w /\ OwnerHas(set.loop, w) /\ Flow(w)
          /\ \A r \in OwnerNames :
                r \in set.loop.asked <=>
                    r \in ToSet(set.loop.rules) /\ OwnerInterest(w, r)
      BY <1>7, <2>9 DEF Orderly, OwnerServing
    <3>2. OwnerHas(owner', w') BY <1>10, <2>7, <3>1 DEF OwnerHas
    <3>3. ASSUME NEW r \in OwnerNames, Defunct(owner', r) PROVE FALSE
      <4>1. r \in set.loop.asked /\ r \in b /\ r \notin a BY <2>7, <3>3 DEF Defunct
      <4>2. OwnerInterest(w, r) /\ OwnerHup(w, r) BY <2>4, <3>1, <4>1
      <4>3. OwnerReady(w, r) BY <1>4, <3>1, <4>2, OwnerNotHungUp
      <4> QED BY <2>3, <3>1, <4>1, <4>3
    <3>4. Unserved(owner', "from_socket") => w.app < w.pipe \/ w.down_shut
      BY <2>3, <2>7, <3>1 DEF Unserved, OwnerReady
    <3>5. OwnerServing(owner', w') BY <1>10, <3>1, <3>2, <3>3, <3>4 DEF OwnerServing
    <3>6. ThreadServing(thread', w') /\ Waiting(w', opc', inbox')
      BY <1>1, <1>10, <2>9, <3>1 DEF Orderly, Waiting
    <3> QED BY <1>10, <3>1, <3>5, <3>6 DEF Orderly
  <2> QED BY <1>1, <1>4, <1>7, <1>10, <2>8, <2>9 DEF Inv
<1> QED BY <1>2, <1>9, <1>10

\* A rule of the owner is served, or its loop returns.
LEMMA OwnerServesInv == Inv /\ OwnerServes => Inv'
<1> SUFFICES ASSUME Inv, OwnerServes PROVE Inv' OBVIOUS
<1>1. /\ thread' = thread /\ abort' = abort /\ inbox' = inbox /\ opc' = opc
      /\ opc = "copy" /\ owner.at > 0
  BY DEF OwnerServes
<1>2. /\ w \in World /\ owner \in LoopOf(OwnerNames) /\ Distinct(owner.rules)
      /\ ThreadLoop(thread, inbox)
  BY DEF Inv, OwnerLoop
<1>3. CASE ToServe(owner) = {}
  <2>1. w' = w /\ owner' = Returned(owner) BY <1>3 DEF OwnerServes
  <2>2. owner' \in LoopOf(OwnerNames) /\ owner'.rules = owner.rules /\ Fresh(owner')
    BY <1>2, <2>1, ReturnedFacts
  <2>3. OwnerServing(owner, w) => OwnerServing(owner', w')
    BY <2>1, <2>2, FreshFacts DEF OwnerServing, OwnerHas
  <2>4. Orderly(w, owner, thread, opc, inbox) => Orderly(w', owner', thread', opc', inbox')
    BY <1>1, <2>1, <2>3 DEF Orderly
  <2> QED BY <1>1, <1>2, <2>1, <2>2, <2>4 DEF Inv, OwnerLoop
<1>4. CASE ToServe(owner) # {}
  <2> DEFINE k == NextRule(owner)
             r == owner.rules[k]
             cancelled == [ owner EXCEPT !.rules = RemoveAt(@, k), !.at = k ]
             called == [ owner EXCEPT !.at = k + 1 ]
  <2>1. PICK s \in Serve(owner, w, OwnerCallback, OwnerCancel) : w' = s.w /\ owner' = s.loop
    BY <1>4 DEF OwnerServes
  <2>2. \/ Defunct(owner, r) /\ s = [ w |-> OwnerCancel(w, r), loop |-> cancelled ]
        \/ /\ ~Defunct(owner, r)
           /\ \E u \in OwnerCallback(w, r) : s = [ w |-> u, loop |-> called ]
    BY <2>1 DEF Serve
  <2>3. /\ k \in 1..Len(owner.rules) /\ k >= owner.at /\ k \in Nat /\ r \in OwnerNames
        /\ (Defunct(owner, r) \/ r \in owner.ready)
    BY <1>1, <1>2, <1>4, NextRuleFacts
  <2>4. cancelled = [ owner EXCEPT !.rules = RemoveAt(@, k), !.at = k ]
        /\ called = [ owner EXCEPT !.at = k + 1 ]
    OBVIOUS
  <2>5. r = owner.rules[k] OBVIOUS
  <2> HIDE DEF k, r, cancelled, called
  <2>6. CASE Defunct(owner, r) /\ s = [ w |-> OwnerCancel(w, r), loop |-> cancelled ]
    <3>1. w' = OwnerCancel(w, r) /\ owner' = cancelled BY <2>1, <2>6
    <3>2. w' \in World /\ w'.error = w.error BY <1>2, <2>3, <3>1, OwnerCancelFacts
    <3>3. IsServed(OwnerNames, owner, r, cancelled)
      BY <1>2, <2>3, <2>4, <2>5, CancelledFacts
    <3>4. OwnerLoop(owner') BY <3>1, <3>3 DEF IsServed, OwnerLoop
    <3>5. ~Orderly(w, owner, thread, opc, inbox)
      BY <2>3, <2>6 DEF Orderly, OwnerServing
    <3> QED BY <1>1, <1>2, <3>2, <3>4, <3>5 DEF Inv
  <2>7. CASE /\ ~Defunct(owner, r)
             /\ \E u \in OwnerCallback(w, r) : s = [ w |-> u, loop |-> called ]
    <3>1. PICK u \in OwnerCallback(w, r) : s = [ w |-> u, loop |-> called ] BY <2>7
    <3>2. w' = u /\ owner' = called BY <2>1, <3>1
    <3>3. /\ IsServed(OwnerNames, owner, r, called)
          /\ called.rules = owner.rules /\ called.asked = owner.asked
          /\ called.ready = owner.ready /\ called.hup = owner.hup
      BY <1>2, <2>3, <2>4, <2>5, CalledFacts
    <3>4. OwnerLoop(owner') BY <3>2, <3>3 DEF IsServed, OwnerLoop
    <3>5. w' \in World /\ w'.error = w.error
      BY <1>2, <2>3, <3>1, <3>2, OwnerCallbackServes
    <3>6. ASSUME Orderly(w, owner, thread, opc, inbox)
          PROVE  Orderly(w', owner', thread', opc', inbox')
      <4>1. Unserved(owner, r) BY <2>3, <2>5, <2>7 DEF Unserved
      <4>2. r = "from_socket" => w.app < w.pipe \/ w.down_shut
        BY <3>6, <4>1 DEF Orderly, OwnerServing
      <4>3. Flow(w') /\ OwnerServed(w, w', r)
        BY <1>2, <2>3, <3>1, <3>2, <3>6, <4>2, OwnerCallbackServes DEF Orderly
      <4>4. OwnerKeeps(w, w') BY <4>3 DEF OwnerServed
      <4>5. OwnerHas(owner', w')
        <5>1. OwnerHas(owner, w) BY <3>6 DEF Orderly, OwnerServing
        <5>2. r = "stdin" => "stdin" \in ToSet(owner.rules)
          BY <1>2, <2>3, <2>5, ToSetFacts DEF LoopOf
        <5>3. r = "from_socket" => "from_socket" \in ToSet(owner.rules)
          BY <1>2, <2>3, <2>5, ToSetFacts DEF LoopOf
        <5>4. r = "stdout" => "stdout" \in ToSet(owner.rules)
          BY <1>2, <2>3, <2>5, ToSetFacts DEF LoopOf
        <5>5. owner'.rules = owner.rules BY <3>2, <3>3
        <5> QED BY <4>3, <5>1, <5>2, <5>3, <5>4, <5>5 DEF OwnerHas, OwnerServed
      <4>6. \A x \in OwnerNames : ~Defunct(owner', x)
        <5>1. \A x \in OwnerNames : ~Defunct(owner, x) BY <3>6 DEF Orderly, OwnerServing
        <5> QED BY <3>2, <3>3, <5>1 DEF Defunct
      <4>7. ASSUME Unserved(owner', "from_socket") PROVE w'.app < w'.pipe \/ w'.down_shut
        <5>1. Unserved(owner, "from_socket") /\ "from_socket" # r
          BY <3>2, <3>3, <4>7 DEF IsServed
        <5>2. w.app < w.pipe \/ w.down_shut BY <3>6, <5>1 DEF Orderly, OwnerServing
        <5>3. w'.app = w.app BY <4>3, <5>1 DEF OwnerServed
        <5> QED BY <4>4, <5>2, <5>3 DEF OwnerKeeps
      <4>8. ThreadServing(thread', w')
        <5>1. ThreadServing(thread, w) BY <3>6 DEF Orderly
        <5>2. w.sock \in Int /\ w.tcp \in Int /\ w'.sock \in Int /\ w'.tcp \in Int
          BY <1>2, <3>5, WorldFields
        <5>3. w'.tcp = w.tcp /\ w.sock <= w'.sock /\ (w.up_shut => w'.up_shut)
          BY <4>4 DEF OwnerKeeps
        <5>4. w.tcp < w.sock => w'.tcp < w'.sock BY <5>2, <5>3
        <5> QED BY <1>1, <5>1, <5>3, <5>4 DEF ThreadServing
      <4>9. Waiting(w', opc', inbox')
        BY <1>1, <3>6, <4>4 DEF Orderly, Waiting, Acceptable, OwnerKeeps
      <4>10. OwnerServing(owner', w') BY <4>5, <4>6, <4>7 DEF OwnerServing
      <4> QED BY <4>3, <4>8, <4>9, <4>10 DEF Orderly
    <3> QED BY <1>1, <1>2, <3>4, <3>5, <3>6 DEF Inv
  <2> QED BY <2>2, <2>6, <2>7
<1> QED BY <1>3, <1>4

-----------------------------------------------------------------------------
\* The TCP thread's loop after SetUp: the rules for the peer stay.
ThreadSet(loop, v, set) ==
    /\ set.w \in World /\ set.w.error = v.error
    /\ set.loop \in LoopOf(ThreadNames) /\ Distinct(set.loop.rules) /\ Fresh(set.loop)
    /\ Flow(v) /\ ThreadHas(loop) =>
          /\ set.w = v /\ ThreadHas(set.loop)
          /\ \A r \in ThreadNames :
                r \in set.loop.asked <=> r \in ToSet(set.loop.rules) /\ ThreadInterest(v, r)

LEMMA ThreadKeepsRules ==
  ASSUME NEW loop \in LoopOf(ThreadNames), Distinct(loop.rules), NEW v \in World, NEW set,
         set = SetUp(loop, v, ThreadOver, ThreadInterest, ThreadCancel)
  PROVE  ThreadSet(loop, v, set)
<1>1. /\ set.w \in World /\ set.w.error = v.error
      /\ set.loop \in LoopOf(ThreadNames) /\ Distinct(set.loop.rules) /\ Fresh(set.loop)
  BY ThreadSetUpFacts
<1>2. ASSUME Flow(v), ThreadHas(loop)
      PROVE  /\ set.w = v /\ ThreadHas(set.loop)
             /\ \A r \in ThreadNames :
                   r \in set.loop.asked <=>
                       r \in ToSet(set.loop.rules) /\ ThreadInterest(v, r)
  <2>1. ThreadAsks(loop, v, set)
    BY <1>2, ThreadSetUpFacts, ZenonT(30)
  <2>2. /\ set.w = v
        /\ \A r \in ThreadNames :
              /\ r \in ToSet(set.loop.rules) <=> ~ThreadOver(v, r) /\ r \in ToSet(loop.rules)
              /\ r \in set.loop.asked <=>
                    r \in ToSet(set.loop.rules) /\ ThreadInterest(v, r)
    BY <2>1 DEF ThreadAsks
  <2>3. ThreadHas(set.loop) BY <1>2, <2>2 DEF ThreadHas, ThreadOver, ThreadNames
  <2> QED BY <2>2, <2>3
<1> QED BY <1>1, <1>2 DEF ThreadSet

\* When the TCP thread has nothing to poll, the connection is closed and all that
\* the peer sent is with the owner.
LEMMA ThreadDone ==
  ASSUME NEW v \in World, Flow(v), ~v.error, NEW loop, ThreadHas(loop),
         NothingToPoll(loop),
         \A r \in ThreadNames :
            r \in loop.asked <=> r \in ToSet(loop.rules) /\ ThreadInterest(v, r)
  PROVE  /\ ~v.active /\ v.sock = N /\ v.tcp = N
         /\ v.pipe = M /\ v.tcp_shutdown
<1>1. ~ThreadInterest(v, "receive") /\ ~ThreadInterest(v, "to_owner")
  BY DEF NothingToPoll, ThreadHas, ThreadNames
<1>2. ~v.active BY <1>1 DEF ThreadInterest
<1>3. v.peer_end /\ v.tcp_end BY <1>2 DEF Flow, Closing
<1>4. v.tcp = N /\ v.net = M BY <1>3 DEF Flow, Outbound, Inbound
<1>5. v.sock = N
  <2>1. v.tcp <= v.sock /\ v.sock <= v.in /\ v.in <= N BY DEF Flow, Queues
  <2>2. v.tcp \in Int /\ v.sock \in Int /\ v.in \in Int BY WorldFields
  <2> QED BY <1>4, <2>1, <2>2, Capacities
<1>6. ~(v.pipe < v.net) /\ ~(StreamOver(v) /\ ~v.tcp_shutdown)
  BY <1>1 DEF ThreadInterest
<1>7. v.pipe = v.net
  <2>1. v.pipe <= v.net BY DEF Flow, Queues
  <2> QED BY <1>6, <2>1, WorldFields
<1>8. v.tcp_shutdown BY <1>3, <1>6, <1>7 DEF StreamOver
<1> QED BY <1>2, <1>4, <1>5, <1>7, <1>8

LEMMA ThreadNotHungUp ==
  ASSUME NEW v \in World, Flow(v), ~v.error, NEW r \in ThreadNames, ThreadInterest(v, r),
         ThreadHup(v, r)
  PROVE  ThreadReady(v, r)
<1>1. r \in {"from_owner", "to_owner"} /\ v.up_shut /\ v.down_shut
  BY DEF ThreadHup, HungUp
<1>2. CASE r = "from_owner" BY <1>1, <1>2 DEF ThreadReady
<1>3. CASE r = "to_owner"
  <2>1. v.pipe \in Int /\ v.net \in Int /\ v.app \in Int BY WorldFields
  <2>2. v.pipe < v.net \/ (StreamOver(v) /\ ~v.tcp_shutdown)
    BY <1>3 DEF ThreadInterest
  <2>3. v.pipe = M /\ (v.tcp_shutdown \/ v.app = M) BY <1>1 DEF Flow, Inbound
  <2>4. v.net <= M BY DEF Flow, Queues
  <2>5. v.app = v.pipe BY <2>1, <2>2, <2>3, <2>4, Capacities
  <2>6. v.pipe - v.app < PipeCapacity BY <2>1, <2>5, Capacities
  <2> QED BY <1>3, <2>6 DEF ThreadReady
<1> QED BY <1>1, <1>2, <1>3

\* The end of the TCP thread: what it does to the world.
Ended(v, u) ==
    /\ u \in World /\ u.error = v.error
    /\ Flow(v) /\ ~v.active /\ v.sock = N /\ v.tcp = N /\ v.pipe = M /\ v.tcp_shutdown
       => Flow(u)
    /\ u.up_shut /\ u.down_shut /\ SameOutCounts(v, u) /\ SameInCounts(v, u)
    /\ u.stdin_eof = v.stdin_eof /\ u.socket_eof = v.socket_eof
    /\ u.stdout_closed = v.stdout_closed /\ u.tcp_end = v.tcp_end /\ u.state = v.state

LEMMA EndsFacts ==
  ASSUME NEW v \in World, NEW u, u = [ shutdown(v, {"up", "down"}) EXCEPT !.active = FALSE ]
  PROVE  Ended(v, u)
<1> DEFINE x == shutdown(v, {"up", "down"})
<1>1. /\ x \in World /\ x.error = v.error
      /\ Flow(v) /\ v.sock = N /\ (v.outbound_shutdown \/ v.tcp = N)
         /\ v.pipe = M /\ (v.tcp_shutdown \/ v.app = M)
         => Flow(x)
      /\ x.up_shut /\ x.down_shut /\ SameOutCounts(v, x) /\ SameInCounts(v, x)
      /\ x.stdin_eof = v.stdin_eof /\ x.socket_eof = v.socket_eof
      /\ x.stdout_closed = v.stdout_closed /\ x.tcp_end = v.tcp_end /\ SameConn(v, x)
  BY ShutBothKeeps
<1>2. u = [ x EXCEPT !.active = FALSE ] OBVIOUS
<1> HIDE DEF x
<1>3. SetActive(x, FALSE, u) BY <1>1, <1>2, SetActiveFacts
<1>4. /\ u \in World /\ u.error = v.error /\ ~u.active /\ u.state = v.state
      /\ u.failure = x.failure
      /\ SameOutCounts(x, u) /\ SameOutFlags(x, u) /\ SameInCounts(x, u) /\ SameInFlags(x, u)
  BY <1>1, <1>3 DEF SetActive, SameConn
<1>5. SameOutCounts(v, u) /\ SameInCounts(v, u)
  BY <1>1, <1>4 DEF SameOutCounts, SameInCounts
<1>6. /\ u.up_shut /\ u.down_shut
      /\ u.stdin_eof = v.stdin_eof /\ u.socket_eof = v.socket_eof
      /\ u.stdout_closed = v.stdout_closed /\ u.tcp_end = v.tcp_end
  BY <1>1, <1>4 DEF SameOutFlags, SameInFlags
<1>7. ASSUME Flow(v), ~v.active, v.sock = N, v.tcp = N, v.pipe = M, v.tcp_shutdown
      PROVE  Flow(u)
  <2>1. Flow(x) BY <1>1, <1>7
  <2>2. ~x.active /\ x.active \in BOOLEAN /\ u.active \in BOOLEAN
    BY <1>1, <1>4, <1>7, WorldFields DEF SameConn
  <2>3. Finished(x, u)
    BY <1>1, <1>4, <2>2 DEF Finished, SameConn
  <2> QED BY <1>1, <2>1, <2>3, FinishedFlow
<1> QED BY <1>4, <1>5, <1>6, <1>7 DEF Ended

\* _tcp_loop, up to the return of poll, or its end when nothing is left to poll.
LEMMA ThreadPollsInv == Inv /\ ThreadPolls => Inv'
<1> SUFFICES ASSUME Inv, ThreadPolls PROVE Inv' OBVIOUS
<1> DEFINE set == SetUp(thread, w, ThreadOver, ThreadInterest, ThreadCancel)
           a == { r \in set.loop.asked : ThreadReady(set.w, r) }
           b == { r \in ToSet(set.loop.rules) : ThreadHup(set.w, r) }
           polled == [ set.loop EXCEPT !.ready = a, !.hup = b, !.at = 1 ]
           loop == Poll(set.loop, set.w, ThreadReady, ThreadHup)
<1>1. owner' = owner /\ opc' = opc /\ abort' = abort /\ inbox' = inbox
  BY DEF ThreadPolls
<1>2. \/ /\ NothingToPoll(set.loop)
         /\ w' = [ shutdown(set.w, {"up", "down"}) EXCEPT !.active = FALSE ]
         /\ thread' = set.loop
      \/ w' = set.w /\ thread' = loop
  BY DEF ThreadPolls, ThreadEnds
<1>3. loop = polled BY DEF Poll
<1>4. /\ w \in World /\ OwnerLoop(owner) /\ thread \in LoopOf(ThreadNames)
      /\ Distinct(thread.rules)
  BY DEF Inv, ThreadLoop
<1>5. set = SetUp(thread, w, ThreadOver, ThreadInterest, ThreadCancel) OBVIOUS
<1> HIDE DEF set, loop
<1>6. ThreadSet(thread, w, set) BY <1>4, <1>5, ThreadKeepsRules
<1>7. /\ set.w \in World /\ set.w.error = w.error
      /\ set.loop \in LoopOf(ThreadNames) /\ Distinct(set.loop.rules) /\ Fresh(set.loop)
      /\ Flow(w) /\ ThreadHas(thread) =>
            /\ set.w = w /\ ThreadHas(set.loop)
            /\ \A r \in ThreadNames :
                  r \in set.loop.asked <=>
                      r \in ToSet(set.loop.rules) /\ ThreadInterest(w, r)
  BY <1>6 DEF ThreadSet
<1>8. set.loop.rules \in Seq(ThreadNames) /\ set.loop.asked \in SUBSET ThreadNames
  BY <1>7 DEF LoopOf
<1>9. CASE /\ NothingToPoll(set.loop)
           /\ w' = [ shutdown(set.w, {"up", "down"}) EXCEPT !.active = FALSE ]
           /\ thread' = set.loop
  <2>1. Ended(set.w, w') BY <1>7, <1>9, EndsFacts
  <2>2. /\ w' \in World /\ w'.error = set.w.error
        /\ /\ Flow(set.w) /\ ~set.w.active /\ set.w.sock = N /\ set.w.tcp = N
           /\ set.w.pipe = M /\ set.w.tcp_shutdown
           => Flow(w')
        /\ w'.up_shut /\ w'.down_shut
        /\ SameOutCounts(set.w, w') /\ SameInCounts(set.w, w')
        /\ w'.stdin_eof = set.w.stdin_eof /\ w'.socket_eof = set.w.socket_eof
        /\ w'.stdout_closed = set.w.stdout_closed /\ w'.tcp_end = set.w.tcp_end
        /\ w'.state = set.w.state
    BY <2>1 DEF Ended
  <2>3. ASSUME Orderly(w, owner, thread, opc, inbox), ~w.error
        PROVE  Orderly(w', owner', thread', opc', inbox')
    <3>1. /\ set.w = w /\ ThreadHas(set.loop) /\ Flow(w)
          /\ \A r \in ThreadNames :
                r \in set.loop.asked <=>
                    r \in ToSet(set.loop.rules) /\ ThreadInterest(w, r)
      BY <1>7, <2>3 DEF Orderly, ThreadServing
    <3>2. /\ ~w.active /\ w.sock = N /\ w.tcp = N /\ w.pipe = M /\ w.tcp_shutdown
      BY <1>4, <1>9, <2>3, <3>1, ThreadDone
    <3>3. Flow(w') BY <2>2, <3>1, <3>2
    <3>4. OwnerServing(owner', w')
      BY <1>1, <2>2, <2>3, <3>1 DEF Orderly, OwnerServing, OwnerHas
    <3>5. ThreadServing(thread', w')
      BY <1>7, <1>9, <3>1, FreshFacts DEF ThreadServing
    <3>6. Waiting(w', opc', inbox')
      BY <1>1, <2>2, <2>3, <3>1
      DEF Orderly, Waiting, Acceptable, SameOutCounts, SameInCounts
    <3> QED BY <3>3, <3>4, <3>5, <3>6 DEF Orderly
  <2>4. ThreadLoop(thread', inbox') BY <1>7, <1>9, FreshFacts DEF ThreadLoop
  <2> QED BY <1>1, <1>4, <1>7, <2>2, <2>3, <2>4 DEF Inv
<1>10. CASE w' = set.w /\ thread' = loop
  <2>1. a \in SUBSET ThreadNames BY <1>8
  <2>2. b \in SUBSET ThreadNames
    <3>1. \A r \in ToSet(set.loop.rules) : r \in ThreadNames
      BY <1>8, ToSetFacts, ElementOfSeq
    <3> QED BY <3>1
  <2>3. \A r : r \in a <=> r \in set.loop.asked /\ ThreadReady(set.w, r) OBVIOUS
  <2>4. \A r : r \in b => ThreadHup(set.w, r) OBVIOUS
  <2>5. polled = [ set.loop EXCEPT !.ready = a, !.hup = b, !.at = 1 ] OBVIOUS
  <2> HIDE DEF a, b, polled
  <2>6. IsPolled(ThreadNames, set.loop, a, b, polled)
    BY <1>7, <2>1, <2>2, <2>5, PolledFacts
  <2>7. /\ thread' \in LoopOf(ThreadNames) /\ thread'.rules = set.loop.rules
        /\ thread'.asked = set.loop.asked /\ thread'.ready = a /\ thread'.hup = b
    BY <1>3, <1>10, <2>6 DEF IsPolled
  <2>8. ThreadLoop(thread', inbox')
    <3>1. Unserved(thread', "receive") => inbox # "none"
      BY <2>3, <2>7 DEF Unserved, ThreadReady
    <3> QED BY <1>1, <1>7, <2>7, <3>1 DEF ThreadLoop
  <2>9. ASSUME Orderly(w, owner, thread, opc, inbox), ~w.error
        PROVE  Orderly(w', owner', thread', opc', inbox')
    <3>1. /\ set.w = w /\ ThreadHas(set.loop) /\ Flow(w)
          /\ \A r \in ThreadNames :
                r \in set.loop.asked <=>
                    r \in ToSet(set.loop.rules) /\ ThreadInterest(w, r)
      BY <1>7, <2>9 DEF Orderly, ThreadServing
    <3>2. ThreadHas(thread') BY <2>7, <3>1 DEF ThreadHas
    <3>3. ASSUME NEW r \in ThreadNames, Defunct(thread', r) PROVE FALSE
      <4>1. r \in set.loop.asked /\ r \in b /\ r \notin a BY <2>7, <3>3 DEF Defunct
      <4>2. ThreadInterest(w, r) /\ ThreadHup(w, r) BY <2>4, <3>1, <4>1
      <4>3. ThreadReady(w, r) BY <1>4, <2>9, <3>1, <4>2, ThreadNotHungUp
      <4> QED BY <2>3, <3>1, <4>1, <4>3
    <3>4. Unserved(thread', "from_owner") => w.tcp < w.sock \/ w.up_shut
      BY <2>3, <2>7, <3>1 DEF Unserved, ThreadReady
    <3>5. ThreadServing(thread', w') BY <1>10, <3>1, <3>2, <3>3, <3>4 DEF ThreadServing
    <3>6. OwnerServing(owner', w') /\ Waiting(w', opc', inbox')
      BY <1>1, <1>10, <2>9, <3>1 DEF Orderly
    <3> QED BY <1>10, <3>1, <3>5, <3>6 DEF Orderly
  <2> QED BY <1>1, <1>4, <1>7, <1>10, <2>8, <2>9 DEF Inv
<1> QED BY <1>2, <1>9, <1>10

\* What the TCP thread changed does not disturb the owner.
LEMMA OwnerUndisturbed ==
  ASSUME NEW v \in World, NEW u \in World, ThreadKeeps(v, u), NEW loop,
         OwnerServing(loop, v)
  PROVE  OwnerServing(loop, u)
<1>1. v.app \in Int /\ v.pipe \in Int /\ u.pipe \in Int BY WorldFields
<1>2. /\ u.app = v.app /\ v.pipe <= u.pipe /\ (v.down_shut => u.down_shut)
      /\ u.stdin_eof = v.stdin_eof /\ u.socket_eof = v.socket_eof
      /\ u.stdout_closed = v.stdout_closed
  BY DEF ThreadKeeps
<1>3. v.app < v.pipe => u.app < u.pipe BY <1>1, <1>2
<1> QED BY <1>2, <1>3 DEF OwnerServing, OwnerHas

\* A rule of the TCP thread is served.
LEMMA ThreadServesInv == Inv /\ ThreadServes => Inv'
<1> SUFFICES ASSUME Inv, ThreadServes PROVE Inv' OBVIOUS
<1> DEFINE k == NextRule(thread)
           r == thread.rules[k]
           cancelled == [ thread EXCEPT !.rules = RemoveAt(@, k), !.at = k ]
           called == [ thread EXCEPT !.at = k + 1 ]
<1>1. /\ owner' = owner /\ abort' = abort /\ opc' = opc
      /\ thread.at > 0 /\ ToServe(thread) # {}
      /\ inbox' = IF r = "receive" THEN "none" ELSE inbox
  BY DEF ThreadServes
<1>2. /\ w \in World /\ thread \in LoopOf(ThreadNames) /\ Distinct(thread.rules)
      /\ OwnerLoop(owner) /\ (Unserved(thread, "receive") => inbox # "none")
      /\ inbox \in {"none"} \cup Stream \cup {"rst"}
  BY DEF Inv, ThreadLoop
<1>3. PICK s \in Serve(thread, w, ThreadCallback, ThreadCancel) :
         w' = s.w /\ thread' = s.loop
  BY DEF ThreadServes
<1>4. \/ Defunct(thread, r) /\ s = [ w |-> ThreadCancel(w, r), loop |-> cancelled ]
      \/ /\ ~Defunct(thread, r)
         /\ \E u \in ThreadCallback(w, r) : s = [ w |-> u, loop |-> called ]
  BY <1>3 DEF Serve
<1>5. /\ k \in 1..Len(thread.rules) /\ k >= thread.at /\ k \in Nat /\ r \in ThreadNames
      /\ (Defunct(thread, r) \/ r \in thread.ready)
  BY <1>1, <1>2, NextRuleFacts
<1>6. /\ cancelled = [ thread EXCEPT !.rules = RemoveAt(@, k), !.at = k ]
      /\ called = [ thread EXCEPT !.at = k + 1 ] /\ r = thread.rules[k]
  OBVIOUS
<1> HIDE DEF k, r, cancelled, called
<1>7. ASSUME NEW new, IsServed(ThreadNames, thread, r, new) PROVE ThreadLoop(new, inbox')
  BY <1>1, <1>2, <1>7 DEF IsServed, ThreadLoop
<1>8. inbox' \in {"none"} \cup Stream \cup {"rst"} BY <1>1, <1>2
<1>9. CASE Defunct(thread, r) /\ s = [ w |-> ThreadCancel(w, r), loop |-> cancelled ]
  <2>1. w' = ThreadCancel(w, r) /\ thread' = cancelled BY <1>3, <1>9
  <2>2. w' \in World /\ w'.error = w.error BY <1>2, <1>5, <2>1, ThreadCancelFacts
  <2>3. IsServed(ThreadNames, thread, r, cancelled)
    BY <1>2, <1>5, <1>6, CancelledFacts
  <2>4. ThreadLoop(thread', inbox') BY <1>7, <2>1, <2>3
  <2>5. ~Orderly(w, owner, thread, opc, inbox)
    BY <1>5, <1>9 DEF Orderly, ThreadServing
  <2> QED BY <1>1, <1>2, <1>8, <2>2, <2>4, <2>5 DEF Inv
<1>10. CASE /\ ~Defunct(thread, r)
            /\ \E u \in ThreadCallback(w, r) : s = [ w |-> u, loop |-> called ]
  <2>1. PICK u \in ThreadCallback(w, r) : s = [ w |-> u, loop |-> called ] BY <1>10
  <2>2. w' = u /\ thread' = called BY <1>3, <2>1
  <2>3. /\ IsServed(ThreadNames, thread, r, called)
        /\ called.rules = thread.rules /\ called.asked = thread.asked
        /\ called.ready = thread.ready /\ called.hup = thread.hup
    BY <1>2, <1>5, <1>6, CalledFacts
  <2>4. ThreadLoop(thread', inbox') BY <1>7, <2>2, <2>3
  <2>5. Unserved(thread, r) BY <1>5, <1>6, <1>10 DEF Unserved
  <2>6. r = "receive" => inbox # "none" BY <1>2, <2>5
  <2>7. r = "receive" => inbox \in Stream \cup {"rst"} BY <1>2, <2>6
  <2>8. /\ w' \in World /\ (w.error => w'.error)
        /\ /\ r = "receive" => Acceptable(w, inbox)
           /\ r = "from_owner" => w.tcp < w.sock \/ w.up_shut
           => ThreadLeads(w, w', r)
    BY <1>2, <1>5, <2>1, <2>2, <2>7, ThreadCallbackLeads
  <2>9. ASSUME Orderly(w, owner, thread, opc, inbox), ~w.error, ~w'.error
        PROVE  Orderly(w', owner', thread', opc', inbox')
    <3>1. r = "receive" => Acceptable(w, inbox) BY <2>9 DEF Orderly, Waiting
    <3>2. r = "from_owner" => w.tcp < w.sock \/ w.up_shut
      BY <2>5, <2>9 DEF Orderly, ThreadServing
    <3>3. Flow(w') /\ ThreadServed(w, w', r)
      BY <2>8, <2>9, <3>1, <3>2 DEF ThreadLeads, Orderly
    <3>4. ThreadKeeps(w, w') BY <3>3 DEF ThreadServed
    <3>5. OwnerServing(owner', w')
      BY <1>1, <1>2, <2>8, <2>9, <3>4, OwnerUndisturbed DEF Orderly
    <3>6. ThreadServing(thread', w')
      <4>1. ThreadServing(thread, w) BY <2>9 DEF Orderly
      <4>2. ThreadHas(thread') BY <2>2, <2>3, <4>1 DEF ThreadServing, ThreadHas
      <4>3. \A x \in ThreadNames : ~Defunct(thread', x)
        <5>1. \A x \in ThreadNames : ~Defunct(thread, x) BY <4>1 DEF ThreadServing
        <5> QED BY <2>2, <2>3, <5>1 DEF Defunct
      <4>4. ASSUME Unserved(thread', "from_owner") PROVE w'.tcp < w'.sock \/ w'.up_shut
        <5>1. Unserved(thread, "from_owner") /\ "from_owner" # r
          BY <2>2, <2>3, <4>4 DEF IsServed
        <5>2. w.tcp < w.sock \/ w.up_shut BY <4>1, <5>1 DEF ThreadServing
        <5>3. w'.tcp = w.tcp BY <3>3, <5>1 DEF ThreadServed
        <5> QED BY <3>4, <5>2, <5>3 DEF ThreadKeeps
      <4> QED BY <4>2, <4>3, <4>4 DEF ThreadServing
    <3>7. Waiting(w', opc', inbox')
      <4>1. Waiting(w, opc, inbox) BY <2>9 DEF Orderly
      <4>2. CASE r = "receive"
        <5>1. inbox' = "none" /\ opc' # "open" BY <1>1, <2>6, <4>1, <4>2 DEF Waiting
        <5> QED BY <5>1 DEF Waiting, Acceptable
      <4>3. CASE r # "receive"
        <5>1. inbox' = inbox /\ opc' = opc BY <1>1, <4>3
        <5>2. w'.net = w.net /\ w'.acked = w.acked /\ w'.state = w.state
              /\ w.tcp <= w'.tcp /\ (w.tcp_end => w'.tcp_end)
          BY <3>3, <3>4, <4>3 DEF ThreadServed, ThreadKeeps
        <5>3. w.acked \in Int /\ w.tcp \in Int /\ w'.tcp \in Int BY <1>2, <2>8, WorldFields
        <5>4. w.acked < w.tcp \/ (w.acked = w.tcp /\ w.tcp_end)
                => w'.acked < w'.tcp \/ (w'.acked = w'.tcp /\ w'.tcp_end)
          <6>1. w.acked < w.tcp => w'.acked < w'.tcp BY <5>2, <5>3
          <6>2. w.acked = w.tcp => w'.acked < w'.tcp \/ w'.acked = w'.tcp BY <5>2, <5>3
          <6> QED BY <5>2, <6>1, <6>2
        <5> QED BY <4>1, <5>1, <5>2, <5>4 DEF Waiting, Acceptable
      <4> QED BY <4>2, <4>3
    <3> QED BY <3>3, <3>5, <3>6, <3>7 DEF Orderly
  <2> QED BY <1>1, <1>2, <1>8, <2>4, <2>8, <2>9 DEF Inv
<1> QED BY <1>4, <1>9, <1>10

\* The rest of _tcp_loop: the time passes, or the aborted thread ends.
LEMMA ThreadTicksInv == Inv /\ ThreadTicks => Inv'
<1> SUFFICES ASSUME Inv, ThreadTicks PROVE Inv' OBVIOUS
<1>1. /\ owner' = owner /\ abort' = abort /\ opc' = opc /\ inbox' = inbox
      /\ thread' = Returned(thread)
  BY DEF ThreadTicks
<1>2. /\ w \in World /\ thread \in LoopOf(ThreadNames) /\ Distinct(thread.rules)
      /\ OwnerLoop(owner) /\ inbox \in {"none"} \cup Stream \cup {"rst"}
  BY DEF Inv, ThreadLoop
<1>3. thread' \in LoopOf(ThreadNames) /\ thread'.rules = thread.rules /\ Fresh(thread')
  BY <1>1, <1>2, ReturnedFacts
<1>4. ThreadLoop(thread', inbox') BY <1>2, <1>3, FreshFacts DEF ThreadLoop
<1>5. CASE abort
  <2>1. w' = [ shutdown(w, {"up", "down"}) EXCEPT !.active = FALSE ]
    BY <1>5 DEF ThreadTicks, ThreadEnds
  <2>2. w' \in World BY <1>2, <2>1, EndsFacts DEF Ended
  <2> QED BY <1>1, <1>2, <1>4, <1>5, <2>2 DEF Inv
<1>6. CASE ~abort
  <2>1. w' \in TickOutcomes(w) BY <1>6 DEF ThreadTicks
  <2>2. ThreadLeads(w, w', "send") BY <1>2, <2>1, TickLeads
  <2>3. w' \in World /\ (w.error => w'.error) BY <2>2 DEF ThreadLeads
  <2>4. ASSUME Orderly(w, owner, thread, opc, inbox), ~w.error, ~w'.error
        PROVE  Orderly(w', owner', thread', opc', inbox')
    <3>1. Flow(w') /\ ThreadServed(w, w', "send") BY <2>2, <2>4 DEF ThreadLeads, Orderly
    <3>2. ThreadKeeps(w, w') BY <3>1 DEF ThreadServed
    <3>3. OwnerServing(owner', w')
      BY <1>1, <1>2, <2>3, <2>4, <3>2, OwnerUndisturbed DEF Orderly
    <3>4. ThreadServing(thread', w')
      BY <1>3, <2>4, FreshFacts DEF Orderly, ThreadServing, ThreadHas
    <3>5. Waiting(w', opc', inbox')
      BY <1>1, <2>4, <3>1, <3>2
      DEF Orderly, Waiting, Acceptable, ThreadServed, ThreadKeeps
    <3> QED BY <3>1, <3>3, <3>4, <3>5 DEF Orderly
  <2> QED BY <1>1, <1>2, <1>4, <2>3, <2>4 DEF Inv
<1> QED BY <1>5, <1>6

-----------------------------------------------------------------------------
\* Every step keeps the invariant.
LEMMA NextInv == Inv /\ [Next]_vars => Inv'
<1> SUFFICES ASSUME Inv, [Next]_vars PROVE Inv' OBVIOUS
<1>1. CASE OwnerConnects BY <1>1, ConnectsInv
<1>2. CASE OwnerListens BY <1>2, ConnectsInv
<1>3. CASE OwnerStarts BY <1>3, StartsInv
<1>4. CASE OwnerPolls BY <1>4, OwnerPollsInv
<1>5. CASE OwnerServes BY <1>5, OwnerServesInv
<1>6. CASE OwnerDrops BY <1>6, DropsInv
<1>7. CASE OwnerJoins BY <1>7, StartsInv
<1>8. CASE ThreadPolls BY <1>8, ThreadPollsInv
<1>9. CASE ThreadServes BY <1>9, ThreadServesInv
<1>10. CASE ThreadTicks BY <1>10, ThreadTicksInv
<1>11. CASE \E s \in Stream \cup {"rst"} : PeerSends(s) BY <1>11, PeerInv
<1>12. CASE UNCHANGED vars BY <1>12 DEF vars, Inv
<1> QED
  BY <1>1, <1>2, <1>3, <1>4, <1>5, <1>6, <1>7, <1>8, <1>9, <1>10, <1>11, <1>12 DEF Next

\* The streams and the loops that pass them on stay in order, as long as the
\* connection is not reset and the owner does not drop the socket
\* (bidirectional_stream_copy and _tcp_loop, served in any order).
THEOREM InOrder == Spec => []Inv
<1>1. Init => Inv BY InitInv
<1>2. Inv /\ [Next]_vars => Inv' BY NextInv
<1> QED BY <1>1, <1>2, PTL DEF Spec

\* _initialize_TCP calls end_input_stream() only after every byte that was read from
\* standard input was written to the connection: neither the hangup of the local
\* socket nor its shutdown overtakes the bytes in it.
THEOREM FinAfterLastByteAlways == Spec => []FinAfterLastByte
<1>1. Inv => FinAfterLastByte
  <2> SUFFICES ASSUME Inv, w.tcp_end, ~abort, ~w.error PROVE w.tcp = N
    BY DEF FinAfterLastByte
  <2>1. Flow(w) BY DEF Inv, Orderly
  <2> QED BY <2>1 DEF Flow, Outbound
<1> QED BY <1>1, InOrder, PTL

\* bidirectional_stream_copy closes standard output only after it wrote every byte
\* the peer sent, whatever was still in the inbound stream, the local socket or the
\* copying buffer when the peer finished.
THEOREM OutputCompleteAlways == Spec => []OutputComplete
<1>1. Inv => OutputComplete
  <2> SUFFICES ASSUME Inv, w.stdout_closed, ~w.error, ~abort PROVE w.out = M
    BY DEF OutputComplete
  <2>1. Flow(w) BY DEF Inv, Orderly
  <2> QED BY <2>1 DEF Flow, Inbound
<1> QED BY <1>1, InOrder, PTL

\* Neither the owner nor the TCP thread writes to a local socket that either of them
\* has shut down, so that no SIGPIPE ends the program, even though each shuts down
\* both directions when it ends.
THEOREM NoBrokenPipeAlways == Spec => []NoBrokenPipe
<1>1. Inv => NoBrokenPipe BY DEF Inv, Orderly, Flow, NoBrokenPipe
<1> QED BY <1>1, InOrder, PTL
=============================================================================
