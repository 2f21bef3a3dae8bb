---------------------- MODULE StreamReassembler_proofs ----------------------
(***************************************************************************)
(* The block set of StreamReassembler and its merge loops implement the    *)
(* description by indices of ReassemblerSpec, for every stream, every      *)
(* capacity and every peer; from this, everything the run of               *)
(* StreamReassembler checks.                                               *)
(*                                                                         *)
(* Cover is the set of indices the blocks hold.  A merge loop moves spans  *)
(* from the blocks to the new block, elm, and keeps what they cover        *)
(* together; it ends because every merge takes a block out of the set, and *)
(* it ends with a gap between elm and the blocks on the side it worked on. *)
(***************************************************************************)
EXTENDS StreamReassembler, FiniteSetTheorems, CommonLemmas

R == INSTANCE ReassemblerSpec_proofs

Span(b) == b.begin..(EndOf(b) - 1)
Cover(bs) == UNION { Span(b) : b \in bs }

\* A block holds the bytes of the stream at its place; it may be empty.
StreamBlock ==
    { b \in [ begin : Nat, data : Seq(Byte) ] :
        EndOf(b) <= StreamLen /\ b.data = Substring(b.begin, Len(b.data)) }

Gap(x, y) == EndOf(x) < y.begin \/ EndOf(y) < x.begin
Separate(bs) == \A x, y \in bs : x # y => Gap(x, y)

-----------------------------------------------------------------------------
LEMMA StreamTypes == StreamLen \in Nat /\ Stream \in Seq(Byte)
  BY StreamAssumption, LenProperties DEF StreamLen

LEMMA PieceOfStream ==
  ASSUME NEW i \in Nat, NEW n \in Nat, i + n <= StreamLen
  PROVE  /\ Substring(i, n) \in Seq(Byte)
         /\ Len(Substring(i, n)) = n
         /\ \A k \in 1..n : Substring(i, n)[k] = ByteAt(i + k - 1)
<1>1. Stream \in Seq(Byte) /\ i + n <= Len(Stream) BY StreamTypes DEF StreamLen
<1>2. /\ SubSeq(Stream, i + 1, i + n) \in Seq(Byte)
      /\ Len(SubSeq(Stream, i + 1, i + n)) = n
      /\ \A k \in 1..n : SubSeq(Stream, i + 1, i + n)[k] = Stream[i + k]
  BY <1>1, PieceFacts
<1>3. \A k \in 1..n : (i + k - 1) + 1 = i + k OBVIOUS
<1> QED BY <1>2, <1>3 DEF Substring, ByteAt

\* The substrings of the stream are blocks.
LEMMA BlockOfStream ==
  ASSUME NEW i \in Nat, NEW n \in Nat, i + n <= StreamLen
  PROVE  /\ [ begin |-> i, data |-> Substring(i, n) ] \in StreamBlock
         /\ EndOf([ begin |-> i, data |-> Substring(i, n) ]) = i + n
  BY PieceOfStream DEF StreamBlock, EndOf

LEMMA BlockFacts ==
  ASSUME NEW b \in StreamBlock
  PROVE  /\ b.begin \in Nat /\ b.data \in Seq(Byte) /\ Len(b.data) \in Nat
         /\ EndOf(b) \in Nat /\ EndOf(b) = b.begin + Len(b.data) /\ EndOf(b) <= StreamLen
         /\ b.data = Substring(b.begin, Len(b.data))
         /\ b = [ begin |-> b.begin, data |-> b.data ]
<1>1. b \in [ begin : Nat, data : Seq(Byte) ] BY DEF StreamBlock
<1>2. b.begin \in Nat /\ b.data \in Seq(Byte) BY <1>1
<1>3. Len(b.data) \in Nat BY <1>2, LenProperties
<1> QED BY <1>1, <1>2, <1>3 DEF StreamBlock, EndOf

\* Adjacent pieces of the stream, and pieces of pieces, are pieces of it.
LEMMA PieceConcat ==
  ASSUME NEW i \in Nat, NEW m \in Nat, NEW n \in Nat, i + m + n <= StreamLen
  PROVE  Substring(i, m) \o Substring(i + m, n) = Substring(i, m + n)
  BY R!SubstringConcat DEF Substring, R!Substring, StreamLen, R!StreamLen

LEMMA PiecePart ==
  ASSUME NEW i \in Nat, NEW n \in Nat, i + n <= StreamLen, NEW a \in 0..n, NEW b \in a..n
  PROVE  SubSeq(Substring(i, n), a + 1, b) = Substring(i + a, b - a)
  BY R!SubstringPart DEF Substring, R!Substring, StreamLen, R!StreamLen

\* The piece of xl bytes at xb, and what of the piece of yl bytes at yb lies
\* beyond it.
LEMMA PieceExtended ==
  ASSUME NEW xb \in Nat, NEW xl \in Nat, NEW yb \in Nat, NEW yl \in Nat,
         xb <= yb, yb <= xb + xl, xb + xl < yb + yl, yb + yl <= StreamLen
  PROVE  Substring(xb, xl) \o SubSeq(Substring(yb, yl), (xb + xl) - yb + 1, yl)
           = Substring(xb, yb + yl - xb)
<1> DEFINE k == (xb + xl) - yb
           m == yl - k
<1>1. StreamLen \in Nat BY StreamTypes
<1>2. k \in 0..yl /\ yl \in k..yl /\ m \in Nat /\ yb + k = xb + xl OBVIOUS
<1>3. xb + xl + m <= StreamLen /\ xl + m = yb + yl - xb BY <1>1
<1> HIDE DEF k
<1>4. SubSeq(Substring(yb, yl), k + 1, yl) = Substring(yb + k, m) BY <1>2, PiecePart
<1> HIDE DEF m
<1>5. Substring(xb, xl) \o Substring(xb + xl, m) = Substring(xb, xl + m)
  BY <1>2, <1>3, PieceConcat
<1>6. Substring(xb, xl) \o SubSeq(Substring(yb, yl), k + 1, yl) = Substring(xb, yb + yl - xb)
  BY <1>2, <1>3, <1>4, <1>5
<1> QED BY <1>6 DEF k

\* Merging two blocks with a gap between them changes nothing; merging others
\* makes one block of what both cover, and counts what they share.
LEMMA MergeApart ==
  ASSUME NEW a \in StreamBlock, NEW b \in StreamBlock, Gap(a, b)
  PROVE  merge_block(a, b) = [ merged |-> -1, elm |-> a ]
<1>1. /\ a.begin \in Nat /\ b.begin \in Nat /\ EndOf(a) \in Nat /\ EndOf(b) \in Nat
      /\ a.begin <= EndOf(a) /\ b.begin <= EndOf(b)
  BY BlockFacts
<1>2. CASE a.begin > b.begin
  <2>1. EndOf(b) < a.begin BY <1>1, <1>2 DEF Gap
  <2> QED BY <1>2, <2>1 DEF merge_block, Apart
<1>3. CASE ~(a.begin > b.begin)
  <2>1. EndOf(a) < b.begin BY <1>1, <1>3 DEF Gap
  <2> QED BY <1>3, <2>1 DEF merge_block, Apart
<1> QED BY <1>2, <1>3

LEMMA OverlapLength ==
  ASSUME NEW xb \in Nat, NEW xl \in Nat, NEW yb \in Nat, NEW yl \in Nat, yb <= xb + xl
  PROVE  /\ (xb + xl) - yb \in Nat
         /\ (xb + xl) - yb = xl + yl - (yb + yl - xb)
         /\ (xb + xl) - yb = yl + xl - (yb + yl - xb)
  OBVIOUS

\* The block that merge_block makes of x and y, when x begins first.
Join(x, y) ==
    IF EndOf(x) >= EndOf(y) THEN x
    ELSE [ begin |-> x.begin,
           data |-> x.data \o SubSeq(y.data, EndOf(x) - y.begin + 1, Len(y.data)) ]

LEMMA JoinFacts ==
  ASSUME NEW x \in StreamBlock, NEW y \in StreamBlock, x.begin <= y.begin, y.begin <= EndOf(x)
  PROVE  /\ Join(x, y) \in StreamBlock /\ Join(x, y).begin = x.begin
         /\ EndOf(Join(x, y)) = MaxOf(EndOf(x), EndOf(y))
         /\ Shared(x, y) \in Nat
         /\ Shared(x, y) = Len(x.data) + Len(y.data) - Len(Join(x, y).data)
         /\ Shared(x, y) = Len(y.data) + Len(x.data) - Len(Join(x, y).data)
<1> DEFINE j  == Join(x, y)
           xb == x.begin
           yb == y.begin
           xl == Len(x.data)
           yl == Len(y.data)
<1>1. /\ xb \in Nat /\ yb \in Nat /\ xl \in Nat /\ yl \in Nat
      /\ EndOf(x) = xb + xl /\ EndOf(y) = yb + yl
      /\ xb + xl <= StreamLen /\ yb + yl <= StreamLen /\ StreamLen \in Nat
      /\ x.data = Substring(xb, xl) /\ y.data = Substring(yb, yl)
      /\ xb <= yb /\ yb <= xb + xl
  BY BlockFacts, StreamTypes
<1>2. CASE xb + xl >= yb + yl
  <2>1. j = x BY <1>1, <1>2 DEF Join
  <2>2. Shared(x, y) = yl BY <1>1, <1>2 DEF Shared
  <2>3. MaxOf(xb + xl, yb + yl) = xb + xl BY <1>1, <1>2 DEF MaxOf
  <2>4. /\ Shared(x, y) = xl + yl - Len(j.data)
        /\ Shared(x, y) = yl + xl - Len(j.data)
    BY <1>1, <2>1, <2>2
  <2> QED BY <1>1, <2>1, <2>2, <2>3, <2>4
<1>3. CASE ~(xb + xl >= yb + yl)
  <2> DEFINE n == yb + yl - xb
  <2>1. n \in Nat /\ xb + n = yb + yl /\ xb + n <= StreamLen BY <1>1, <1>3
  <2>2. j = [ begin |-> xb, data |-> Substring(xb, n) ]
    <3>1. j = [ begin |-> xb, data |-> x.data \o SubSeq(y.data, (xb + xl) - yb + 1, yl) ]
      BY <1>1, <1>3 DEF Join
    <3>2. Substring(xb, xl) \o SubSeq(Substring(yb, yl), (xb + xl) - yb + 1, yl)
            = Substring(xb, n)
      <4>1. xb + xl < yb + yl BY <1>1, <1>3
      <4> HIDE DEF xb, xl, yb, yl
      <4>2. /\ xb \in Nat /\ xl \in Nat /\ yb \in Nat /\ yl \in Nat
            /\ xb <= yb /\ yb <= xb + xl /\ yb + yl <= StreamLen
        BY <1>1
      <4> QED BY <4>1, <4>2, PieceExtended, ZenonT(30)
    <3> HIDE DEF j, xb, xl, yb, yl, n
    <3> QED BY <1>1, <3>1, <3>2
  <2>3. Shared(x, y) = (xb + xl) - yb BY <1>1, <1>3 DEF Shared
  <2>4. MaxOf(EndOf(x), EndOf(y)) = yb + yl BY <1>1, <1>3 DEF MaxOf
  <2> HIDE DEF j, n
  <2>5. j \in StreamBlock /\ EndOf(j) = xb + n BY <1>1, <2>1, <2>2, BlockOfStream
  <2>6. Len(j.data) = n BY <1>1, <2>1, <2>2, PieceOfStream
  <2>7. (xb + xl) - yb \in Nat /\ (xb + xl) - yb = xl + yl - n
        /\ (xb + xl) - yb = yl + xl - n
    <3> HIDE DEF xb, xl, yb, yl
    <3> QED BY <1>1, OverlapLength DEF n
  <2>8. j.begin = xb BY <2>2
  <2> HIDE DEF xb, xl, yb, yl
  <2>9. /\ Shared(x, y) \in Nat
        /\ Shared(x, y) = xl + yl - Len(j.data)
        /\ Shared(x, y) = yl + xl - Len(j.data)
    BY <2>3, <2>6, <2>7
  <2> QED BY <2>1, <2>4, <2>5, <2>8, <2>9 DEF j, xb, xl, yl
<1> QED BY <1>2, <1>3

LEMMA MergeTouching ==
  ASSUME NEW a \in StreamBlock, NEW b \in StreamBlock, ~Gap(a, b)
  PROVE  LET m == merge_block(a, b)
         IN  /\ m.merged \in Nat /\ m.elm \in StreamBlock
             /\ m.elm.begin = MinOf(a.begin, b.begin)
             /\ EndOf(m.elm) = MaxOf(EndOf(a), EndOf(b))
             /\ m.merged = Len(a.data) + Len(b.data) - Len(m.elm.data)
             /\ Span(m.elm) = Span(a) \cup Span(b)
<1> DEFINE m == merge_block(a, b)
<1>1. /\ a.begin \in Nat /\ b.begin \in Nat /\ EndOf(a) \in Nat /\ EndOf(b) \in Nat
      /\ a.begin <= EndOf(a) /\ b.begin <= EndOf(b)
      /\ Len(a.data) \in Nat /\ Len(b.data) \in Nat
  BY BlockFacts
<1>2. a.begin <= EndOf(b) /\ b.begin <= EndOf(a) BY <1>1 DEF Gap
<1>3. /\ m.merged \in Nat /\ m.elm \in StreamBlock
      /\ m.elm.begin = MinOf(a.begin, b.begin)
      /\ EndOf(m.elm) = MaxOf(EndOf(a), EndOf(b))
      /\ m.merged = Len(a.data) + Len(b.data) - Len(m.elm.data)
  <2>1. CASE a.begin > b.begin
    <3>1. m = [ merged |-> Shared(b, a), elm |-> Join(b, a) ]
      BY <1>1, <1>2, <2>1 DEF merge_block, Apart, Join
    <3>2. /\ Join(b, a) \in StreamBlock /\ Join(b, a).begin = b.begin
          /\ EndOf(Join(b, a)) = MaxOf(EndOf(b), EndOf(a))
          /\ Shared(b, a) \in Nat
          /\ Shared(b, a) = Len(a.data) + Len(b.data) - Len(Join(b, a).data)
      <4>1. b.begin <= a.begin /\ a.begin <= EndOf(b) BY <1>1, <1>2, <2>1
      <4> QED BY <4>1, JoinFacts
    <3>3. MaxOf(EndOf(b), EndOf(a)) = MaxOf(EndOf(a), EndOf(b)) BY <1>1 DEF MaxOf
    <3>4. MinOf(a.begin, b.begin) = b.begin BY <1>1, <2>1 DEF MinOf
    <3> HIDE DEF m
    <3>5. m.merged = Shared(b, a) /\ m.elm = Join(b, a) BY <3>1
    <3> QED BY <3>2, <3>3, <3>4, <3>5
  <2>2. CASE ~(a.begin > b.begin)
    <3>1. m = [ merged |-> Shared(a, b), elm |-> Join(a, b) ]
      BY <1>1, <1>2, <2>2 DEF merge_block, Apart, Join
    <3>2. /\ Join(a, b) \in StreamBlock /\ Join(a, b).begin = a.begin
          /\ EndOf(Join(a, b)) = MaxOf(EndOf(a), EndOf(b))
          /\ Shared(a, b) \in Nat
          /\ Shared(a, b) = Len(a.data) + Len(b.data) - Len(Join(a, b).data)
      <4>1. a.begin <= b.begin /\ b.begin <= EndOf(a) BY <1>1, <1>2, <2>2
      <4> QED BY <4>1, JoinFacts
    <3>3. MinOf(a.begin, b.begin) = a.begin BY <1>1, <2>2 DEF MinOf
    <3> HIDE DEF m
    <3>4. m.merged = Shared(a, b) /\ m.elm = Join(a, b) BY <3>1
    <3> QED BY <3>2, <3>3, <3>4
  <2> QED BY <2>1, <2>2
<1> HIDE DEF m
<1>4. Span(m.elm) = Span(a) \cup Span(b)
  <2>1. /\ m.elm.begin = IF a.begin <= b.begin THEN a.begin ELSE b.begin
        /\ EndOf(m.elm) = IF EndOf(a) >= EndOf(b) THEN EndOf(a) ELSE EndOf(b)
    BY <1>3 DEF MinOf, MaxOf
  <2> QED BY <1>1, <1>2, <2>1 DEF Span
<1> QED BY <1>3, <1>4 DEF m

-----------------------------------------------------------------------------
\* What a set of blocks covers is a finite set of indices of the stream.
LEMMA CoverFinite ==
  ASSUME NEW bs \in SUBSET StreamBlock
  PROVE  /\ Cover(bs) \in SUBSET (0..(StreamLen - 1))
         /\ IsFiniteSet(Cover(bs)) /\ Cardinality(Cover(bs)) \in Nat
<1>1. StreamLen \in Nat BY StreamTypes
<1>2. \A b \in bs : Span(b) \in SUBSET (0..(StreamLen - 1))
  <2> TAKE b \in bs
  <2>1. b.begin \in Nat /\ EndOf(b) \in Nat /\ EndOf(b) <= StreamLen BY BlockFacts
  <2> QED BY <1>1, <2>1 DEF Span
<1>3. Cover(bs) \in SUBSET (0..(StreamLen - 1)) BY <1>2 DEF Cover
<1>4. IsFiniteSet(0..(StreamLen - 1)) BY <1>1, FS_Interval
<1> QED BY <1>3, <1>4, FS_Subset, FS_CardinalityType

\* A span has as many indices as the block has bytes.
LEMMA SpanSize ==
  ASSUME NEW b \in StreamBlock
  PROVE  IsFiniteSet(Span(b)) /\ Cardinality(Span(b)) = Len(b.data)
<1>1. b.begin \in Nat /\ Len(b.data) \in Nat /\ EndOf(b) = b.begin + Len(b.data) BY BlockFacts
<1> DEFINE lo == b.begin
           n  == Len(b.data)
           hi == lo + n - 1
<1>2. Span(b) = lo..hi BY <1>1 DEF Span
<1>3. lo \in Int /\ hi \in Int BY <1>1
<1>4. lo > hi => n = 0 BY <1>1
<1>5. lo <= hi => hi - lo + 1 = n BY <1>1
<1> HIDE DEF lo, hi, n
<1>6. IsFiniteSet(lo..hi) /\ Cardinality(lo..hi) = IF lo > hi THEN 0 ELSE hi - lo + 1
  BY <1>3, FS_Interval
<1>7. Cardinality(lo..hi) = n
  <2>1. CASE lo > hi BY <1>4, <1>6, <2>1
  <2>2. CASE ~(lo > hi) BY <1>3, <1>5, <1>6, <2>2
  <2> QED BY <2>1, <2>2
<1> QED BY <1>2, <1>6, <1>7 DEF n

\* Blocks with a gap between them share no index.
LEMMA GapDisjoint ==
  ASSUME NEW a \in StreamBlock, NEW b \in StreamBlock, Gap(a, b)
  PROVE  Span(a) \cap Span(b) = {}
<1>1. a.begin \in Nat /\ b.begin \in Nat /\ EndOf(a) \in Nat /\ EndOf(b) \in Nat BY BlockFacts
<1> SUFFICES ASSUME NEW i \in Span(a), i \in Span(b) PROVE FALSE OBVIOUS
<1>2. i \in Int /\ a.begin <= i /\ i < EndOf(a) /\ b.begin <= i /\ i < EndOf(b)
  BY <1>1 DEF Span
<1> QED BY <1>1, <1>2 DEF Gap

\* The cardinality of a cover, block by block.
LEMMA CoverAdds ==
  ASSUME NEW bs \in SUBSET StreamBlock, NEW b \in StreamBlock, \A c \in bs : Gap(b, c)
  PROVE  /\ Cover(bs \cup {b}) = Cover(bs) \cup Span(b)
         /\ Cover(bs) \cap Span(b) = {}
         /\ Cardinality(Cover(bs \cup {b})) = Cardinality(Cover(bs)) + Len(b.data)
<1>1. Cover(bs \cup {b}) = Cover(bs) \cup Span(b) BY DEF Cover
<1>2. \A c \in bs : Span(b) \cap Span(c) = {} BY GapDisjoint
<1>3. Cover(bs) \cap Span(b) = {} BY <1>2 DEF Cover
<1>4. /\ IsFiniteSet(Cover(bs)) /\ Cardinality(Cover(bs)) \in Nat
      /\ IsFiniteSet(Span(b)) /\ Cardinality(Span(b)) = Len(b.data) /\ Len(b.data) \in Nat
  BY CoverFinite, SpanSize, BlockFacts
<1>5. Cardinality(Cover(bs) \cup Span(b))
        = Cardinality(Cover(bs)) + Cardinality(Span(b)) - Cardinality(Cover(bs) \cap Span(b))
  BY <1>4, FS_Union
<1>6. Cardinality(Cover(bs) \cap Span(b)) = 0 BY <1>3, FS_EmptySet
<1>7. Cardinality(Cover(bs) \cup Span(b)) = Cardinality(Cover(bs)) + Len(b.data)
  BY <1>4, <1>5, <1>6
<1> QED BY <1>1, <1>3, <1>7

LEMMA CoverDrops ==
  ASSUME NEW bs \in SUBSET StreamBlock, Separate(bs), NEW b \in bs
  PROVE  /\ Cover(bs) = Cover(bs \ {b}) \cup Span(b)
         /\ Cover(bs \ {b}) \cap Span(b) = {}
         /\ Cardinality(Cover(bs)) = Cardinality(Cover(bs \ {b})) + Len(b.data)
<1> DEFINE rest == bs \ {b}
<1>1. rest \in SUBSET StreamBlock /\ b \in StreamBlock /\ rest \cup {b} = bs OBVIOUS
<1>2. \A c \in rest : Gap(b, c) BY DEF Separate
<1> HIDE DEF rest
<1>3. /\ Cover(rest \cup {b}) = Cover(rest) \cup Span(b)
      /\ Cover(rest) \cap Span(b) = {}
      /\ Cardinality(Cover(rest \cup {b})) = Cardinality(Cover(rest)) + Len(b.data)
  BY <1>1, <1>2, CoverAdds
<1> QED BY <1>1, <1>3 DEF rest

\* The block lower_bound finds, and the one before it.
LEMMA FirstFacts ==
  ASSUME NEW bs \in SUBSET StreamBlock, bs # {}
  PROVE  First(bs) \in bs /\ \A c \in bs : First(bs).begin <= c.begin
<1> DEFINE T == { c.begin : c \in bs }
<1>1. T \in SUBSET Nat /\ T # {} BY BlockFacts
<1>2. PICK x \in T : \A y \in T : x <= y BY <1>1, LeastElement
<1>3. PICK b \in bs : b.begin = x OBVIOUS
<1>4. \A c \in bs : b.begin <= c.begin BY <1>2, <1>3
<1> QED BY <1>4, ZenonT(30) DEF First

LEMMA LastFacts ==
  ASSUME NEW bs \in SUBSET StreamBlock, bs # {}
  PROVE  Last(bs) \in bs /\ \A c \in bs : Last(bs).begin >= c.begin
<1> DEFINE T == { StreamLen - c.begin : c \in bs }
<1>1. \A c \in bs : /\ c.begin \in Nat
                    /\ StreamLen - c.begin \in Nat
  <2> TAKE c \in bs
  <2>1. /\ c.begin \in Nat /\ Len(c.data) \in Nat /\ EndOf(c) = c.begin + Len(c.data)
        /\ EndOf(c) <= StreamLen
    BY BlockFacts
  <2> QED BY <2>1, StreamTypes
<1>2. T \in SUBSET Nat /\ T # {} BY <1>1
<1>3. PICK x \in T : \A y \in T : x <= y BY <1>2, LeastElement
<1>4. PICK b \in bs : StreamLen - b.begin = x OBVIOUS
<1>5. \A c \in bs : b.begin >= c.begin
  <2> TAKE c \in bs
  <2>1. StreamLen - b.begin <= StreamLen - c.begin BY <1>3, <1>4
  <2>2. b.begin \in Nat /\ c.begin \in Nat BY <1>1
  <2> QED BY <2>1, <2>2, StreamTypes
<1> QED BY <1>5, ZenonT(30) DEF Last

-----------------------------------------------------------------------------
\* The blocks a push finds: none touches another, all lie above the head.
Blocks(bs, head) ==
    /\ bs \in SUBSET StreamBlock /\ IsFiniteSet(bs) /\ Separate(bs)
    /\ head \in Nat /\ \A b \in bs : head < b.begin

\* The states of the merge loops: elm and the blocks left cover C together,
\* and the counter exceeds by d what they hold.  An elm at the head is not
\* empty, so that a block at the head has a byte to write.
Merging(bs, head, C, d) ==
    { s \in [ elm : StreamBlock, blocks : SUBSET bs, unassembled : Int ] :
        /\ Cover(s.blocks) \cup Span(s.elm) = C
        /\ s.unassembled = Cardinality(Cover(s.blocks)) + Len(s.elm.data) + d
        /\ head <= s.elm.begin
        /\ s.elm.begin = head => Len(s.elm.data) > 0 }

\* A gap to every block that begins at or after elm, or before it.
GapAbove(s) == \A b \in s.blocks : b.begin >= s.elm.begin => EndOf(s.elm) < b.begin
GapBelow(s) == \A b \in s.blocks : b.begin < s.elm.begin => EndOf(b) < s.elm.begin

\* t is s with iter merged into elm.
Merged(s, t, iter) ==
    /\ t.blocks = s.blocks \ {iter}
    /\ t.elm.begin = MinOf(s.elm.begin, iter.begin)
    /\ EndOf(t.elm) = MaxOf(EndOf(s.elm), EndOf(iter))
    /\ Cardinality(t.blocks) < Cardinality(s.blocks)

LEMMA MergingFacts ==
  ASSUME NEW bs, NEW head, Blocks(bs, head), NEW C, NEW d \in Int,
         NEW s \in Merging(bs, head, C, d)
  PROVE  /\ s.elm \in StreamBlock /\ s.blocks \in SUBSET bs /\ s.blocks \in SUBSET StreamBlock
         /\ s.unassembled \in Int /\ head \in Nat
         /\ IsFiniteSet(s.blocks) /\ Separate(s.blocks) /\ Cardinality(s.blocks) \in Nat
         /\ \A b \in s.blocks : head < b.begin
         /\ s = [ elm |-> s.elm, blocks |-> s.blocks, unassembled |-> s.unassembled ]
<1>1. s \in [ elm : StreamBlock, blocks : SUBSET bs, unassembled : Int ] BY DEF Merging
<1>2. /\ s.elm \in StreamBlock /\ s.blocks \in SUBSET bs /\ s.unassembled \in Int
      /\ s = [ elm |-> s.elm, blocks |-> s.blocks, unassembled |-> s.unassembled ]
  BY <1>1
<1>3. bs \in SUBSET StreamBlock /\ IsFiniteSet(bs) /\ head \in Nat
      /\ \A b \in bs : head < b.begin
  BY DEF Blocks
<1>4. Separate(s.blocks) BY <1>2 DEF Separate, Blocks
<1>5. IsFiniteSet(s.blocks) /\ Cardinality(s.blocks) \in Nat
  BY <1>2, <1>3, FS_Subset, FS_CardinalityType
<1> QED BY <1>2, <1>3, <1>4, <1>5

\* One pass of either loop: nothing across a gap, a merge otherwise.
LEMMA MergeWithStep ==
  ASSUME NEW bs, NEW head, Blocks(bs, head), NEW C, NEW d \in Int,
         NEW s \in Merging(bs, head, C, d), NEW iter \in s.blocks
  PROVE  LET t == MergeWith(s, iter)
         IN  /\ t \in Merging(bs, head, C, d)
             /\ \/ Gap(s.elm, iter) /\ t = s
                \/ ~Gap(s.elm, iter) /\ Merged(s, t, iter)
<1> DEFINE m == merge_block(s.elm, iter)
           t == MergeWith(s, iter)
           rest == s.blocks \ {iter}
<1>1. /\ s.elm \in StreamBlock /\ s.blocks \in SUBSET bs /\ s.blocks \in SUBSET StreamBlock
      /\ iter \in StreamBlock /\ s.unassembled \in Int /\ head \in Nat
      /\ IsFiniteSet(s.blocks) /\ Separate(s.blocks)
      /\ Cardinality(s.blocks) \in Nat /\ head < iter.begin
  BY MergingFacts
<1>2. CASE Gap(s.elm, iter)
  <2>1. m = [ merged |-> -1, elm |-> s.elm ] BY <1>1, <1>2, MergeApart
  <2>2. m.merged < 0 BY <2>1
  <2>3. t = s BY <2>2 DEF MergeWith
  <2> QED BY <1>2, <2>3
<1>3. CASE ~Gap(s.elm, iter)
  <2>1. /\ m.merged \in Nat /\ m.elm \in StreamBlock
        /\ m.elm.begin = MinOf(s.elm.begin, iter.begin)
        /\ EndOf(m.elm) = MaxOf(EndOf(s.elm), EndOf(iter))
        /\ m.merged = Len(s.elm.data) + Len(iter.data) - Len(m.elm.data)
        /\ Span(m.elm) = Span(s.elm) \cup Span(iter)
    BY <1>1, <1>3, MergeTouching
  <2>2. t = [ elm |-> m.elm, blocks |-> rest, unassembled |-> s.unassembled - m.merged ]
    <3>1. ~(m.merged < 0)
      <4>1. m.merged \in Nat BY <2>1
      <4> HIDE DEF m
      <4> QED BY <4>1
    <3> QED BY <3>1 DEF MergeWith
  <2> HIDE DEF m, t, rest
  <2>3. t.elm = m.elm /\ t.blocks = rest /\ t.unassembled = s.unassembled - m.merged
    BY <2>2
  <2>4. rest \in SUBSET bs /\ rest \in SUBSET StreamBlock BY <1>1 DEF rest
  <2>5. t \in [ elm : StreamBlock, blocks : SUBSET bs, unassembled : Int ]
    <3>1. s.unassembled - m.merged \in Int
      <4>1. s.unassembled \in Int /\ m.merged \in Int BY <1>1, <2>1
      <4> QED BY <4>1
    <3> QED BY <2>1, <2>2, <2>4, <3>1
  <2>6. /\ Cover(s.blocks) = Cover(rest) \cup Span(iter)
        /\ Cardinality(Cover(s.blocks)) = Cardinality(Cover(rest)) + Len(iter.data)
    BY <1>1, CoverDrops DEF rest
  <2>7. Cover(rest) \cup Span(m.elm) = C
    <3>1. Cover(s.blocks) \cup Span(s.elm) = C BY DEF Merging
    <3> QED BY <2>1, <2>6, <3>1
  <2>8. s.unassembled - m.merged = Cardinality(Cover(rest)) + Len(m.elm.data) + d
    <3>1. s.unassembled = Cardinality(Cover(s.blocks)) + Len(s.elm.data) + d BY DEF Merging
    <3>2. /\ Len(s.elm.data) \in Nat /\ Len(iter.data) \in Nat /\ Len(m.elm.data) \in Nat
          /\ Cardinality(Cover(rest)) \in Nat
      BY <1>1, <2>1, <2>4, BlockFacts, CoverFinite
    <3> DEFINE u == s.unassembled
               g == m.merged
               le == Len(s.elm.data)
               li == Len(iter.data)
               lm == Len(m.elm.data)
               cs == Cardinality(Cover(s.blocks))
               cr == Cardinality(Cover(rest))
    <3>3. /\ le \in Nat /\ li \in Nat /\ lm \in Nat /\ cr \in Nat /\ d \in Int
          /\ u = cs + le + d /\ cs = cr + li /\ g = le + li - lm
      BY <2>1, <2>6, <3>1, <3>2
    <3> HIDE DEF u, g, le, li, lm, cs, cr
    <3>4. u - g = cr + lm + d BY <3>3
    <3> QED BY <3>4 DEF u, g, cr, lm
  <2>9. head <= m.elm.begin /\ (m.elm.begin = head => Len(m.elm.data) > 0)
    <3>1. head <= s.elm.begin /\ (s.elm.begin = head => Len(s.elm.data) > 0) BY DEF Merging
    <3>2. /\ s.elm.begin \in Nat /\ iter.begin \in Nat /\ m.elm.begin \in Nat
          /\ EndOf(s.elm) \in Nat /\ EndOf(iter) \in Nat
          /\ EndOf(s.elm) = s.elm.begin + Len(s.elm.data)
          /\ EndOf(m.elm) = m.elm.begin + Len(m.elm.data)
          /\ Len(s.elm.data) \in Nat /\ Len(m.elm.data) \in Nat
      BY <1>1, <2>1, BlockFacts
    <3>3. m.elm.begin = s.elm.begin \/ m.elm.begin = iter.begin BY <2>1 DEF MinOf
    <3>4. EndOf(m.elm) >= EndOf(s.elm)
      <4>1. EndOf(m.elm) = MaxOf(EndOf(s.elm), EndOf(iter)) BY <2>1
      <4> QED BY <3>2, <4>1 DEF MaxOf
    <3> DEFINE le == Len(s.elm.data)
               lm == Len(m.elm.data)
               sb == s.elm.begin
               mb == m.elm.begin
               ib == iter.begin
    <3>5. /\ head <= sb /\ (sb = head => le > 0) /\ head < ib
          /\ sb \in Nat /\ ib \in Nat /\ mb \in Nat /\ le \in Nat /\ lm \in Nat /\ head \in Nat
          /\ (mb = sb \/ mb = ib)
          /\ mb + lm >= sb + le
      BY <1>1, <3>1, <3>2, <3>3, <3>4
    <3> HIDE DEF le, lm, sb, mb, ib
    <3>6. head <= mb /\ (mb = head => lm > 0) BY <3>5
    <3> QED BY <3>6 DEF mb, lm
  <2>10. t \in Merging(bs, head, C, d)
    BY <2>3, <2>5, <2>7, <2>8, <2>9 DEF Merging
  <2>11. Cardinality(rest) < Cardinality(s.blocks)
    <3>1. Cardinality(s.blocks \ {iter}) = Cardinality(s.blocks) - 1
      BY <1>1, FS_RemoveElement
    <3> QED BY <1>1, <3>1 DEF rest
  <2>12. Merged(s, t, iter) BY <2>1, <2>3, <2>11 DEF Merged, rest
  <2> QED BY <1>3, <2>10, <2>12 DEF t
<1> QED BY <1>2, <1>3

-----------------------------------------------------------------------------
\* The loop towards higher indices.
NextPass(s) ==
    LET above == NotBelow(s.blocks, s.elm)
    IN  IF above = {} THEN s ELSE MergeWith(s, First(above))

LEMMA NextPassFacts ==
  ASSUME NEW bs, NEW head, Blocks(bs, head), NEW C, NEW d \in Int,
         NEW s \in Merging(bs, head, C, d)
  PROVE  /\ NextPass(s) \in Merging(bs, head, C, d)
         /\ \/ NextPass(s) = s /\ GapAbove(s)
            \/ Cardinality(NextPass(s).blocks) < Cardinality(s.blocks)
<1> DEFINE above == NotBelow(s.blocks, s.elm)
           iter  == First(above)
<1>1. /\ s.elm \in StreamBlock /\ s.blocks \in SUBSET StreamBlock
      /\ above \in SUBSET s.blocks
      /\ \A b \in s.blocks : b.begin >= s.elm.begin <=> b \in above
  BY MergingFacts DEF NotBelow
<1>2. CASE above = {}
  <2>1. NextPass(s) = s BY <1>2 DEF NextPass
  <2>2. GapAbove(s) BY <1>1, <1>2 DEF GapAbove
  <2> QED BY <2>1, <2>2
<1>3. CASE above # {}
  <2>1. NextPass(s) = MergeWith(s, iter) BY <1>3 DEF NextPass
  <2> HIDE DEF above
  <2>2. above \in SUBSET StreamBlock BY <1>1
  <2>3. iter \in above /\ \A c \in above : iter.begin <= c.begin BY <1>3, <2>2, FirstFacts
  <2> HIDE DEF iter
  <2>4. iter \in s.blocks /\ iter \in StreamBlock BY <1>1, <2>3
  <2> DEFINE t == MergeWith(s, iter)
  <2>5. /\ t \in Merging(bs, head, C, d)
        /\ \/ Gap(s.elm, iter) /\ t = s
           \/ ~Gap(s.elm, iter) /\ Merged(s, t, iter)
    BY <2>4, MergeWithStep
  <2> HIDE DEF t
  <2>6. CASE ~Gap(s.elm, iter)
    <3>1. Cardinality(t.blocks) < Cardinality(s.blocks) BY <2>5, <2>6 DEF Merged
    <3> QED BY <2>1, <2>5, <3>1 DEF t
  <2>7. CASE Gap(s.elm, iter)
    <3>1. t = s BY <2>5, <2>7
    <3>2. ASSUME NEW b \in s.blocks, b.begin >= s.elm.begin PROVE EndOf(s.elm) < b.begin
      <4>1. /\ s.elm.begin \in Nat /\ EndOf(s.elm) \in Nat /\ iter.begin \in Nat
            /\ EndOf(iter) \in Nat /\ iter.begin <= EndOf(iter) /\ b.begin \in Nat
        BY <1>1, <2>4, BlockFacts, SMTT(30)
      <4>2. iter.begin >= s.elm.begin /\ iter.begin <= b.begin BY <1>1, <2>3, <2>4, <3>2
      <4> QED BY <2>7, <4>1, <4>2 DEF Gap
    <3>3. GapAbove(s) BY <3>2 DEF GapAbove
    <3> QED BY <2>1, <2>5, <3>1, <3>3 DEF t
  <2> QED BY <2>6, <2>7
<1> QED BY <1>2, <1>3

\* The loop ends, within as many passes as there are blocks, at a state its
\* pass leaves alone: a gap above elm.
LEMMA NextLoopEnds ==
  ASSUME NEW bs, NEW head, Blocks(bs, head), NEW C, NEW d \in Int,
         NEW st \in Merging(bs, head, C, d)
  PROVE  MergeNext(st) \in Merging(bs, head, C, d) /\ GapAbove(MergeNext(st))
<1> DEFINE A == Merging(bs, head, C, d)
           bound == Cardinality(st.blocks)
           step == [ x \in A |-> NextPass(x) ]
           size == [ x \in A |-> Cardinality(x.blocks) ]
           after[k \in 0..bound] ==
             IF k = 0 THEN st
             ELSE LET s == after[k - 1]
                      above == NotBelow(s.blocks, s.elm)
                  IN  IF above = {} THEN s ELSE MergeWith(s, First(above))
<1>1. MergeNext(st) = after[bound] BY ZenonT(30) DEF MergeNext
<1>2. \A x \in A : Cardinality(x.blocks) \in Nat BY MergingFacts
<1>3. st \in A /\ bound \in Nat BY <1>2
<1>4. \A x \in A : /\ NextPass(x) \in A
                   /\ \/ NextPass(x) = x /\ GapAbove(x)
                      \/ Cardinality(NextPass(x).blocks) < Cardinality(x.blocks)
  BY NextPassFacts
<1> HIDE DEF A
<1>5. step \in [A -> A] /\ size \in [A -> Nat] BY <1>2, <1>4
<1>6. size[st] = bound BY <1>3
<1>7. Shrinks(A, st, bound, step, size)
  <2>1. \A x \in A : step[x] = x \/ size[step[x]] < size[x] BY <1>4
  <2> HIDE DEF step, size, bound
  <2> QED BY <1>3, <1>5, <1>6, <2>1 DEF Shrinks
<1>8. PICK g \in [0..bound -> A] : Repeats(g, bound, st, step)
  <2> HIDE DEF step, bound
  <2> QED BY <1>3, <1>5, RepetitionExists
<1>9. g[bound] \in A /\ step[g[bound]] = g[bound]
  <2> HIDE DEF step, size, bound, after
  <2>1. Settled(A, step, g[bound]) BY <1>5, <1>7, <1>8, RepetitionSettles
  <2> QED BY <2>1 DEF Settled
<1> HIDE DEF bound
<1>10. \A k \in 0..bound : k # 0 => step[g[k - 1]] = NextPass(g[k - 1])
  <2> TAKE k \in 0..bound
  <2> SUFFICES ASSUME k # 0 PROVE step[g[k - 1]] = NextPass(g[k - 1]) OBVIOUS
  <2>1. k - 1 \in 0..bound BY <1>3
  <2>2. g[k - 1] \in A BY <2>1
  <2> QED BY <2>2
<1> HIDE DEF step
<1>11. g = [ k \in 0..bound |-> IF k = 0 THEN st ELSE NextPass(g[k - 1]) ]
  <2>1. \A k \in 0..bound : g[k] = IF k = 0 THEN st ELSE NextPass(g[k - 1])
    BY <1>8, <1>10 DEF Repeats
  <2>2. g = [ k \in 0..bound |-> g[k] ] OBVIOUS
  <2> QED BY <2>1, <2>2
<1>12. after = [ k \in 0..bound |-> IF k = 0 THEN st ELSE NextPass(after[k - 1]) ]
  BY <1>11, ZenonT(30) DEF NextPass
<1> HIDE DEF after
<1>13. after[bound] = g[bound]
  <2> DEFINE S == { k \in 0..bound : after[k] = g[k] }
  <2>1. 0 \in S BY <1>3, <1>11, <1>12
  <2>2. ASSUME NEW k \in 0..(bound - 1), k \in S PROVE k + 1 \in S
    <3>1. k + 1 \in 0..bound /\ k + 1 # 0 /\ (k + 1) - 1 = k BY <1>3
    <3>2. after[k + 1] = NextPass(after[k]) BY <1>12, <3>1
    <3>3. g[k + 1] = NextPass(g[k]) BY <1>11, <3>1
    <3> QED BY <2>2, <3>1, <3>2, <3>3
  <2> HIDE DEF S
  <2>3. \A k \in 0..bound : k \in S BY <1>3, <2>1, <2>2, UpToInduction
  <2>4. bound \in S BY <1>3, <2>3
  <2> QED BY <2>4 DEF S
<1>14. NextPass(g[bound]) = g[bound] BY <1>9 DEF step
<1>15. GapAbove(g[bound])
  <2>1. ~(Cardinality(g[bound].blocks) < Cardinality(g[bound].blocks)) BY <1>2, <1>9
  <2> QED BY <1>4, <1>9, <1>14, <2>1
<1> QED BY <1>1, <1>9, <1>13, <1>15 DEF A

-----------------------------------------------------------------------------
\* The loop towards lower indices, which keeps the gap above.
PrevPass(s) ==
    LET below == Below(s.blocks, s.elm)
    IN  IF below = {} THEN s ELSE MergeWith(s, Last(below))

MergingDown(bs, head, C, d) == { s \in Merging(bs, head, C, d) : GapAbove(s) }

\* What is merged from below was separate from every block above.
LEMMA GapAboveKept ==
  ASSUME NEW bs, NEW head, Blocks(bs, head), NEW C, NEW d \in Int,
         NEW s \in MergingDown(bs, head, C, d), NEW t, NEW iter \in s.blocks,
         Merged(s, t, iter), iter.begin < s.elm.begin,
         \A c \in s.blocks : c.begin < s.elm.begin => iter.begin >= c.begin
  PROVE  GapAbove(t)
<1>1. /\ s.elm \in StreamBlock /\ s.blocks \in SUBSET StreamBlock /\ Separate(s.blocks)
      /\ GapAbove(s)
  BY MergingFacts DEF MergingDown
<1>2. /\ s.elm.begin \in Nat /\ EndOf(s.elm) \in Nat /\ s.elm.begin <= EndOf(s.elm)
      /\ iter.begin \in Nat /\ EndOf(iter) \in Nat /\ iter.begin <= EndOf(iter)
  BY <1>1, BlockFacts
<1>3. t.elm.begin = iter.begin
  <2>1. t.elm.begin = MinOf(s.elm.begin, iter.begin) BY DEF Merged
  <2> QED BY <1>2, <2>1 DEF MinOf
<1>4. EndOf(t.elm) = EndOf(s.elm) \/ EndOf(t.elm) = EndOf(iter) BY DEF Merged, MaxOf
<1> SUFFICES ASSUME NEW b \in t.blocks, b.begin >= t.elm.begin
             PROVE  EndOf(t.elm) < b.begin
  BY DEF GapAbove
<1>5. b \in s.blocks /\ b # iter BY DEF Merged
<1>6. /\ b \in StreamBlock /\ b.begin \in Nat /\ EndOf(b) \in Nat /\ b.begin <= EndOf(b)
  BY <1>1, <1>5, BlockFacts
<1>7. EndOf(iter) < b.begin \/ EndOf(b) < iter.begin BY <1>1, <1>5 DEF Separate, Gap
<1>8. EndOf(iter) < b.begin BY <1>2, <1>3, <1>6, <1>7
<1>9. b.begin >= s.elm.begin BY <1>2, <1>5, <1>6, <1>8
<1>10. EndOf(s.elm) < b.begin BY <1>1, <1>5, <1>9 DEF GapAbove
<1> QED BY <1>4, <1>8, <1>10

LEMMA PrevPassFacts ==
  ASSUME NEW bs, NEW head, Blocks(bs, head), NEW C, NEW d \in Int,
         NEW s \in MergingDown(bs, head, C, d)
  PROVE  /\ PrevPass(s) \in MergingDown(bs, head, C, d)
         /\ \/ PrevPass(s) = s /\ GapBelow(s)
            \/ Cardinality(PrevPass(s).blocks) < Cardinality(s.blocks)
<1> DEFINE below == Below(s.blocks, s.elm)
           iter  == Last(below)
<1>0. s \in Merging(bs, head, C, d) BY DEF MergingDown
<1>1. /\ s.elm \in StreamBlock /\ s.blocks \in SUBSET StreamBlock /\ Separate(s.blocks)
      /\ below \in SUBSET s.blocks
      /\ \A b \in s.blocks : b.begin < s.elm.begin <=> b \in below
  BY <1>0, MergingFacts DEF Below
<1>2. CASE below = {}
  <2>1. PrevPass(s) = s BY <1>2 DEF PrevPass
  <2>2. GapBelow(s) BY <1>1, <1>2 DEF GapBelow
  <2> QED BY <2>1, <2>2
<1>3. CASE below # {}
  <2>1. PrevPass(s) = MergeWith(s, iter) BY <1>3 DEF PrevPass
  <2> HIDE DEF below
  <2>2. below \in SUBSET StreamBlock BY <1>1
  <2>3. iter \in below /\ \A c \in below : iter.begin >= c.begin BY <1>3, <2>2, LastFacts
  <2> HIDE DEF iter
  <2>4. iter \in s.blocks /\ iter \in StreamBlock /\ iter.begin < s.elm.begin BY <1>1, <2>3
  <2> DEFINE t == MergeWith(s, iter)
  <2>5. /\ t \in Merging(bs, head, C, d)
        /\ \/ Gap(s.elm, iter) /\ t = s
           \/ ~Gap(s.elm, iter) /\ Merged(s, t, iter)
    BY <1>0, <2>4, MergeWithStep
  <2> HIDE DEF t
  <2>6. CASE ~Gap(s.elm, iter)
    <3>1. Merged(s, t, iter) BY <2>5, <2>6
    <3>2. \A c \in s.blocks : c.begin < s.elm.begin => iter.begin >= c.begin BY <1>1, <2>3
    <3>3. GapAbove(t) BY <2>4, <3>1, <3>2, GapAboveKept
    <3>4. Cardinality(t.blocks) < Cardinality(s.blocks) BY <3>1 DEF Merged
    <3> QED BY <2>1, <2>5, <3>3, <3>4 DEF t, MergingDown
  <2>7. CASE Gap(s.elm, iter)
    <3>1. t = s BY <2>5, <2>7
    <3>2. ASSUME NEW b \in s.blocks, b.begin < s.elm.begin PROVE EndOf(b) < s.elm.begin
      <4>1. /\ s.elm.begin \in Nat /\ EndOf(s.elm) \in Nat /\ s.elm.begin <= EndOf(s.elm)
            /\ iter.begin \in Nat /\ EndOf(iter) \in Nat /\ iter.begin <= EndOf(iter)
            /\ b.begin \in Nat /\ EndOf(b) \in Nat /\ b.begin <= EndOf(b)
        <5>1. s.elm \in StreamBlock /\ b \in StreamBlock BY <1>1
        <5>2. \A c \in StreamBlock : c.begin \in Nat /\ EndOf(c) \in Nat /\ c.begin <= EndOf(c)
          BY BlockFacts, SMTT(30)
        <5> QED BY <2>4, <5>1, <5>2
      <4>2. EndOf(iter) < s.elm.begin BY <2>4, <2>7, <4>1 DEF Gap
      <4>3. CASE b = iter BY <4>2, <4>3
      <4>4. CASE b # iter
        <5>1. EndOf(b) < iter.begin \/ EndOf(iter) < b.begin
          BY <1>1, <2>4, <4>4 DEF Separate, Gap
        <5>2. iter.begin >= b.begin BY <1>1, <2>3, <3>2
        <5> QED BY <4>1, <4>2, <5>1, <5>2
      <4> QED BY <4>3, <4>4
    <3>3. GapBelow(s) BY <3>2 DEF GapBelow
    <3> QED BY <2>1, <2>5, <3>1, <3>3 DEF t
  <2> QED BY <2>6, <2>7
<1> QED BY <1>2, <1>3

LEMMA PrevLoopEnds ==
  ASSUME NEW bs, NEW head, Blocks(bs, head), NEW C, NEW d \in Int,
         NEW st \in MergingDown(bs, head, C, d)
  PROVE  MergePrev(st) \in MergingDown(bs, head, C, d) /\ GapBelow(MergePrev(st))
<1> DEFINE A == MergingDown(bs, head, C, d)
           bound == Cardinality(st.blocks)
           step == [ x \in A |-> PrevPass(x) ]
           size == [ x \in A |-> Cardinality(x.blocks) ]
           after[k \in 0..bound] ==
             IF k = 0 THEN st
             ELSE LET s == after[k - 1]
                      below == Below(s.blocks, s.elm)
                  IN  IF below = {} THEN s ELSE MergeWith(s, Last(below))
<1>1. MergePrev(st) = after[bound] BY ZenonT(30) DEF MergePrev
<1>2. \A x \in A : Cardinality(x.blocks) \in Nat BY MergingFacts DEF MergingDown
<1>3. st \in A /\ bound \in Nat BY <1>2
<1>4. \A x \in A : /\ PrevPass(x) \in A
                   /\ \/ PrevPass(x) = x /\ GapBelow(x)
                      \/ Cardinality(PrevPass(x).blocks) < Cardinality(x.blocks)
  BY PrevPassFacts
<1> HIDE DEF A
<1>5. step \in [A -> A] /\ size \in [A -> Nat] BY <1>2, <1>4
<1>6. size[st] = bound BY <1>3
<1>7. Shrinks(A, st, bound, step, size)
  <2>1. \A x \in A : step[x] = x \/ size[step[x]] < size[x] BY <1>4
  <2> HIDE DEF step, size, bound
  <2> QED BY <1>3, <1>5, <1>6, <2>1 DEF Shrinks
<1>8. PICK g \in [0..bound -> A] : Repeats(g, bound, st, step)
  <2> HIDE DEF step, bound
  <2> QED BY <1>3, <1>5, RepetitionExists
<1>9. g[bound] \in A /\ step[g[bound]] = g[bound]
  <2> HIDE DEF step, size, bound, after
  <2>1. Settled(A, step, g[bound]) BY <1>5, <1>7, <1>8, RepetitionSettles
  <2> QED BY <2>1 DEF Settled
<1> HIDE DEF bound
<1>10. \A k \in 0..bound : k # 0 => step[g[k - 1]] = PrevPass(g[k - 1])
  <2> TAKE k \in 0..bound
  <2> SUFFICES ASSUME k # 0 PROVE step[g[k - 1]] = PrevPass(g[k - 1]) OBVIOUS
  <2>1. k - 1 \in 0..bound BY <1>3
  <2>2. g[k - 1] \in A BY <2>1
  <2> QED BY <2>2
<1> HIDE DEF step
<1>11. g = [ k \in 0..bound |-> IF k = 0 THEN st ELSE PrevPass(g[k - 1]) ]
  <2>1. \A k \in 0..bound : g[k] = IF k = 0 THEN st ELSE PrevPass(g[k - 1])
    BY <1>8, <1>10 DEF Repeats
  <2>2. g = [ k \in 0..bound |-> g[k] ] OBVIOUS
  <2> QED BY <2>1, <2>2
<1>12. after = [ k \in 0..bound |-> IF k = 0 THEN st ELSE PrevPass(after[k - 1]) ]
  BY <1>11, ZenonT(30) DEF PrevPass
<1> HIDE DEF after
<1>13. after[bound] = g[bound]
  <2> DEFINE S == { k \in 0..bound : after[k] = g[k] }
  <2>1. 0 \in S BY <1>3, <1>11, <1>12
  <2>2. ASSUME NEW k \in 0..(bound - 1), k \in S PROVE k + 1 \in S
    <3>1. k + 1 \in 0..bound /\ k + 1 # 0 /\ (k + 1) - 1 = k BY <1>3
    <3>2. after[k + 1] = PrevPass(after[k]) BY <1>12, <3>1
    <3>3. g[k + 1] = PrevPass(g[k]) BY <1>11, <3>1
    <3> QED BY <2>2, <3>1, <3>2, <3>3
  <2> HIDE DEF S
  <2>3. \A k \in 0..bound : k \in S BY <1>3, <2>1, <2>2, UpToInduction
  <2>4. bound \in S BY <1>3, <2>3
  <2> QED BY <2>4 DEF S
<1>14. PrevPass(g[bound]) = g[bound] BY <1>9 DEF step
<1>15. GapBelow(g[bound])
  <2>1. ~(Cardinality(g[bound].blocks) < Cardinality(g[bound].blocks)) BY <1>2, <1>9
  <2> QED BY <1>4, <1>9, <1>14, <2>1
<1> QED BY <1>1, <1>9, <1>13, <1>15 DEF A

-----------------------------------------------------------------------------
\* The operators the description has in common with this module are the same.
LEMMA SameOperators ==
  /\ \A S : R!Cardinality(S) = Cardinality(S)
  /\ \A i : R!ByteAt(i) = ByteAt(i)
  /\ \A i, n : R!Substring(i, n) = Substring(i, n)
  /\ \A a, b : R!MaxOf(a, b) = MaxOf(a, b)
  /\ \A s, c, d : R!accepted(s, c, d) = accepted(s, c, d)
  /\ \A s, c, d : R!write(s, c, d) = write(s, c, d)
  /\ \A s, n : R!pop_output(s, n) = pop_output(s, n)
  /\ \A s : R!end_input(s) = end_input(s)
  /\ \A B : R!ByteStreamType(B) = ByteStreamType(B)
  /\ R!StreamLen = StreamLen
<1>1. \A S : R!Cardinality(S) = Cardinality(S) BY DEF Cardinality, R!Cardinality
<1>2. /\ \A i : R!ByteAt(i) = ByteAt(i)
      /\ \A i, n : R!Substring(i, n) = Substring(i, n)
      /\ R!StreamLen = StreamLen
  BY DEF ByteAt, R!ByteAt, Substring, R!Substring, StreamLen, R!StreamLen
<1>3. \A a, b : R!MaxOf(a, b) = MaxOf(a, b) BY DEF MaxOf, R!MaxOf
<1>4. \A s, c, d : R!accepted(s, c, d) = accepted(s, c, d)
  BY ZenonT(30) DEF accepted, R!accepted, MinOf, R!MinOf, remaining_capacity, R!remaining_capacity
<1>5. \A s, c, d : R!write(s, c, d) = write(s, c, d)
  BY <1>4, ZenonT(30) DEF write, R!write
<1>6. \A s, n : R!pop_output(s, n) = pop_output(s, n)
  BY ZenonT(30) DEF pop_output, R!pop_output, MinOf, R!MinOf
<1>7. \A s : R!end_input(s) = end_input(s) BY ZenonT(30) DEF end_input, R!end_input
<1>8. \A B : R!ByteStreamType(B) = ByteStreamType(B)
  BY ZenonT(30) DEF ByteStreamType, R!ByteStreamType
<1> QED BY <1>1, <1>2, <1>3, <1>4, <1>5, <1>6, <1>7, <1>8

\* The reassembler without its blocks, and what holds of it between two calls.
AbsOf(r) ==
    [ stored |-> [ i \in Cover(r.blocks) |-> ByteAt(i) ], unassembled |-> r.unassembled,
      head_index |-> r.head_index, eof_flag |-> r.eof_flag, output |-> r.output ]

ReassemblerState ==
    [ blocks : SUBSET StreamBlock, unassembled : Int, head_index : Nat,
      eof_flag : BOOLEAN, output : ByteStreamType(Byte) ]

AbsOK(r) == AbsOf(r) \in R!ReassemblerType /\ R!ReassemblerOK(AbsOf(r), Capacity)

Sound(r) == r \in ReassemblerState /\ Blocks(r.blocks, r.head_index) /\ AbsOK(r)

\* While push_substring runs, one block may begin at the head; it has a byte.
Filled(r) ==
    /\ r \in ReassemblerState /\ AbsOK(r)
    /\ IsFiniteSet(r.blocks) /\ Separate(r.blocks)
    /\ \A b \in r.blocks :
          /\ r.head_index <= b.begin
          /\ b.begin = r.head_index => Len(b.data) > 0

LEMMA StateFacts ==
  ASSUME NEW r \in ReassemblerState
  PROVE  /\ r.blocks \in SUBSET StreamBlock /\ r.unassembled \in Int /\ r.head_index \in Nat
         /\ r.eof_flag \in BOOLEAN /\ r.output \in ByteStreamType(Byte)
         /\ r.output.buffer \in Seq(Byte) /\ Len(r.output.buffer) \in Nat
         /\ r.output.written \in Nat /\ r.output.readden \in Nat
         /\ r = [ blocks |-> r.blocks, unassembled |-> r.unassembled,
                  head_index |-> r.head_index, eof_flag |-> r.eof_flag, output |-> r.output ]
<1>1. r.output \in ByteStreamType(Byte) BY DEF ReassemblerState
<1>2. /\ r.output.buffer \in Seq(Byte) /\ r.output.written \in Nat /\ r.output.readden \in Nat
  BY <1>1 DEF ByteStreamType
<1> QED BY <1>1, <1>2, LenProperties DEF ReassemblerState

\* The part of the substring at or above the head is a block of the stream.
LEMMA NewBlockFacts ==
  ASSUME NEW r \in ReassemblerState, NEW i \in Nat, NEW n \in Nat, i + n <= StreamLen,
         r.head_index < i + n \/ r.head_index < i
  PROVE  LET b == NewBlock(r, Substring(i, n), i)
         IN  /\ b \in StreamBlock /\ b.begin = MaxOf(i, r.head_index) /\ EndOf(b) = i + n
             /\ b.begin = r.head_index => Len(b.data) > 0
<1> DEFINE h == r.head_index
           b == NewBlock(r, Substring(i, n), i)
<1>1. h \in Nat /\ StreamLen \in Nat BY StateFacts, StreamTypes
<1>2. Len(Substring(i, n)) = n BY PieceOfStream
<1>3. CASE i < h
  <2> DEFINE o == h - i
             m == n - o
  <2>1. o \in 0..n /\ n \in o..n /\ m \in Nat /\ i + o = h /\ h + m = i + n /\ m > 0
    BY <1>1, <1>3
  <2>2. b = [ begin |-> i + o, data |-> SubSeq(Substring(i, n), o + 1, n) ]
    BY <1>2, <1>3 DEF NewBlock
  <2>a. m = n - o OBVIOUS
  <2> HIDE DEF o, m, b, h
  <2>3. SubSeq(Substring(i, n), o + 1, n) = Substring(h, m)
    <3>1. SubSeq(Substring(i, n), o + 1, n) = Substring(i + o, n - o) BY <2>1, PiecePart
    <3> QED BY <2>1, <2>a, <3>1
  <2>4. b = [ begin |-> h, data |-> Substring(h, m) ] BY <2>1, <2>2, <2>3
  <2>5. b \in StreamBlock /\ EndOf(b) = h + m BY <1>1, <2>1, <2>4, BlockOfStream
  <2>6. b.begin = h /\ Len(b.data) = m BY <1>1, <2>1, <2>4, PieceOfStream
  <2>7. MaxOf(i, h) = h BY <1>1, <1>3 DEF MaxOf
  <2> QED BY <2>1, <2>5, <2>6, <2>7 DEF b, h
<1>4. CASE ~(i < h)
  <2>1. b = [ begin |-> i, data |-> Substring(i, n) ] BY <1>4 DEF NewBlock
  <2> HIDE DEF b, h
  <2>2. b \in StreamBlock /\ EndOf(b) = i + n BY <2>1, BlockOfStream
  <2>3. b.begin = i /\ Len(b.data) = n BY <1>2, <2>1
  <2>4. MaxOf(i, h) = i BY <1>1, <1>4 DEF MaxOf
  <2>5. i = h => n > 0 BY <1>1 DEF h
  <2> QED BY <2>2, <2>3, <2>4, <2>5 DEF b, h
<1> QED BY <1>3, <1>4

\* The blocks after the two merge loops.
Loops(r, elm) ==
    MergePrev(MergeNext([ elm |-> elm, blocks |-> r.blocks,
                          unassembled |-> r.unassembled + Len(elm.data) ]))

\* elm goes into the set: no block touches it, what is covered is what was
\* covered and elm, and the counter has grown by what is new.
LEMMA LoopsFacts ==
  ASSUME NEW r \in ReassemblerState, Blocks(r.blocks, r.head_index),
         NEW elm \in StreamBlock, r.head_index <= elm.begin,
         elm.begin = r.head_index => Len(elm.data) > 0
  PROVE  LET st == Loops(r, elm)
             bs == InsertBlock(st.blocks, st.elm)
         IN  /\ bs \in SUBSET StreamBlock /\ IsFiniteSet(bs) /\ Separate(bs)
             /\ \A b \in bs : /\ r.head_index <= b.begin
                              /\ b.begin = r.head_index => Len(b.data) > 0
             /\ Cover(bs) = Cover(r.blocks) \cup Span(elm)
             /\ st.unassembled \in Int
             /\ st.unassembled = r.unassembled + Cardinality(Span(elm) \ Cover(r.blocks))
<1> DEFINE h   == r.head_index
           old == Cover(r.blocks)
           C   == old \cup Span(elm)
           d   == r.unassembled - Cardinality(old)
           s0  == [ elm |-> elm, blocks |-> r.blocks,
                    unassembled |-> r.unassembled + Len(elm.data) ]
           s1  == MergeNext(s0)
           st  == MergePrev(s1)
           bs  == InsertBlock(st.blocks, st.elm)
<1>1. /\ r.blocks \in SUBSET StreamBlock /\ r.unassembled \in Int /\ h \in Nat
      /\ Len(elm.data) \in Nat
      /\ IsFiniteSet(old) /\ Cardinality(old) \in Nat
  BY StateFacts, BlockFacts, CoverFinite
<1>2. d \in Int BY <1>1
<1>3. s0 \in Merging(r.blocks, h, C, d)
  <2>1. r.unassembled + Len(elm.data) \in Int BY <1>1
  <2>2. r.unassembled + Len(elm.data) = Cardinality(old) + Len(elm.data) + d BY <1>1
  <2> HIDE DEF C, d, h
  <2>3. s0 \in [ elm : StreamBlock, blocks : SUBSET r.blocks, unassembled : Int ] BY <2>1
  <2>4. Cover(s0.blocks) \cup Span(s0.elm) = C BY DEF C
  <2> QED BY <2>2, <2>3, <2>4 DEF Merging, h
<1> HIDE DEF s0, d, C
<1>4. s1 \in Merging(r.blocks, h, C, d) /\ GapAbove(s1) BY <1>2, <1>3, NextLoopEnds
<1>5. s1 \in MergingDown(r.blocks, h, C, d) BY <1>4 DEF MergingDown
<1> HIDE DEF s1
<1>6. st \in MergingDown(r.blocks, h, C, d) /\ GapBelow(st) BY <1>2, <1>5, PrevLoopEnds
<1>7. st \in Merging(r.blocks, h, C, d) /\ GapAbove(st) BY <1>6 DEF MergingDown
<1>st. Loops(r, elm) = st BY DEF Loops, s1, s0
<1> HIDE DEF st
<1>8. /\ st.elm \in StreamBlock /\ st.blocks \in SUBSET StreamBlock /\ st.unassembled \in Int
      /\ IsFiniteSet(st.blocks) /\ Separate(st.blocks)
      /\ \A b \in st.blocks : h < b.begin
  BY <1>2, <1>7, MergingFacts
<1>9. \A b \in st.blocks : Gap(st.elm, b) /\ b.begin # st.elm.begin
  <2> TAKE b \in st.blocks
  <2>1. /\ st.elm.begin \in Nat /\ EndOf(st.elm) \in Nat /\ st.elm.begin <= EndOf(st.elm)
        /\ b.begin \in Nat /\ EndOf(b) \in Nat /\ b.begin <= EndOf(b)
    BY <1>8, BlockFacts, SMTT(30)
  <2>2. CASE b.begin >= st.elm.begin
    <3>1. EndOf(st.elm) < b.begin BY <1>7, <2>2 DEF GapAbove
    <3> QED BY <2>1, <3>1 DEF Gap
  <2>3. CASE b.begin < st.elm.begin
    <3>1. EndOf(b) < st.elm.begin BY <1>6, <2>3 DEF GapBelow
    <3> QED BY <2>1, <3>1 DEF Gap
  <2> QED BY <2>1, <2>2, <2>3
<1>10. bs = st.blocks \cup {st.elm} BY <1>9 DEF InsertBlock
<1> HIDE DEF bs
<1>11. bs \in SUBSET StreamBlock /\ IsFiniteSet(bs) BY <1>8, <1>10, FS_AddElement
<1>12. Separate(bs)
  <2>1. ASSUME NEW x \in bs, NEW y \in bs, x # y PROVE Gap(x, y)
    <3>1. CASE x \in st.blocks /\ y \in st.blocks BY <1>8, <2>1, <3>1 DEF Separate
    <3>2. CASE x = st.elm /\ y \in st.blocks BY <1>9, <3>2
    <3>3. CASE x \in st.blocks /\ y = st.elm BY <1>9, <3>3 DEF Gap
    <3> QED BY <1>10, <2>1, <3>1, <3>2, <3>3
  <2> QED BY <2>1 DEF Separate
<1>13. ASSUME NEW b \in bs PROVE h <= b.begin /\ (b.begin = h => Len(b.data) > 0)
  <2>1. CASE b = st.elm BY <1>7, <2>1 DEF Merging
  <2>2. CASE b \in st.blocks
    <3>1. b.begin \in Nat /\ h < b.begin BY <1>8, <2>2, BlockFacts
    <3> QED BY <1>1, <3>1
  <2> QED BY <1>10, <2>1, <2>2
<1>14. /\ Cover(bs) = Cover(st.blocks) \cup Span(st.elm)
       /\ Cardinality(Cover(bs)) = Cardinality(Cover(st.blocks)) + Len(st.elm.data)
  BY <1>8, <1>9, <1>10, CoverAdds
<1>15. Cover(bs) = C BY <1>7, <1>14 DEF Merging
<1>16. st.unassembled = r.unassembled + Cardinality(Span(elm) \ old)
  <2>1. st.unassembled = Cardinality(Cover(st.blocks)) + Len(st.elm.data) + d
    BY <1>7 DEF Merging
  <2>2. IsFiniteSet(Span(elm) \ old) BY SpanSize, FS_Subset
  <2>3. Cardinality(C) = Cardinality(old) + Cardinality(Span(elm) \ old)
    <3>1. C = old \cup (Span(elm) \ old) /\ old \cap (Span(elm) \ old) = {} BY DEF C
    <3> HIDE DEF old, C
    <3>2. Cardinality(old \cup (Span(elm) \ old)) = Cardinality(old)
            + Cardinality(Span(elm) \ old) - Cardinality(old \cap (Span(elm) \ old))
      BY <1>1, <2>2, FS_Union
    <3>3. Cardinality(old \cap (Span(elm) \ old)) = 0 BY <3>1, FS_EmptySet
    <3>4. Cardinality(Span(elm) \ old) \in Nat BY <2>2, FS_CardinalityType
    <3> QED BY <1>1, <3>1, <3>2, <3>3, <3>4
  <2>4. Cardinality(Span(elm) \ old) \in Nat BY <2>2, FS_CardinalityType
  <2>5. Cardinality(C) = Cardinality(Cover(st.blocks)) + Len(st.elm.data) BY <1>14, <1>15
  <2> DEFINE cn == Cardinality(Span(elm) \ old)
             co == Cardinality(old)
             cs == Cardinality(Cover(st.blocks))
             le == Len(st.elm.data)
  <2>6. cs \in Nat /\ le \in Nat BY <1>8, CoverFinite, BlockFacts
  <2>7. /\ st.unassembled = cs + le + d /\ d = r.unassembled - co /\ cs + le = co + cn
        /\ cn \in Nat /\ co \in Nat
    BY <1>1, <2>1, <2>3, <2>4, <2>5 DEF d
  <2> HIDE DEF cn, co, cs, le
  <2>8. st.unassembled = r.unassembled + cn BY <1>1, <2>6, <2>7
  <2> QED BY <2>8 DEF cn
<1> QED BY <1>st, <1>8, <1>11, <1>12, <1>13, <1>15, <1>16 DEF bs, C, h

-----------------------------------------------------------------------------
\* AbsOf, field by field.
LEMMA AbsFields ==
  ASSUME NEW r
  PROVE  /\ AbsOf(r).stored = [ i \in Cover(r.blocks) |-> ByteAt(i) ]
         /\ DOMAIN AbsOf(r).stored = Cover(r.blocks)
         /\ AbsOf(r).unassembled = r.unassembled /\ AbsOf(r).head_index = r.head_index
         /\ AbsOf(r).eof_flag = r.eof_flag /\ AbsOf(r).output = r.output
  BY DEF AbsOf

\* What ReassemblerOK says of the head, the counter and the output.
LEMMA AbsOKFacts ==
  ASSUME NEW r \in ReassemblerState, AbsOK(r)
  PROVE  /\ r.head_index \in 0..StreamLen /\ r.unassembled \in Nat
         /\ r.output.written = r.head_index
         /\ r.output.readden + Len(r.output.buffer) = r.output.written
         /\ r.output.buffer = Substring(r.output.readden, Len(r.output.buffer))
         /\ Len(r.output.buffer) <= Capacity
         /\ Cardinality(Cover(r.blocks)) <= r.unassembled
<1>1. AbsOf(r) \in R!ReassemblerType /\ R!ReassemblerOK(AbsOf(r), Capacity) BY DEF AbsOK
<1>2. AbsOf(r).head_index \in 0..R!StreamLen /\ AbsOf(r).unassembled \in Nat
  BY <1>1 DEF R!ReassemblerType
<1>3. R!OutputOK(AbsOf(r), Capacity) /\ R!StoreOK(AbsOf(r)) BY <1>1 DEF R!ReassemblerOK
<1>4. R!Cardinality(DOMAIN AbsOf(r).stored) <= AbsOf(r).unassembled BY <1>3 DEF R!StoreOK
<1>5. LET o == r.output
      IN  /\ o.written = r.head_index
          /\ o.readden + Len(o.buffer) = o.written
          /\ o.buffer = R!Substring(o.readden, Len(o.buffer))
          /\ Len(o.buffer) <= Capacity
  BY <1>3, AbsFields DEF R!OutputOK
<1>6. Cardinality(Cover(r.blocks)) <= r.unassembled BY <1>4, AbsFields, SameOperators
<1>7. r.head_index \in 0..StreamLen /\ r.unassembled \in Nat
  BY <1>2, AbsFields, SameOperators
<1> QED BY <1>5, <1>6, <1>7, SameOperators

\* The state in which push_substring writes the head.
StoreBlock(r, data, index) ==
    LET st == Loops(r, NewBlock(r, data, index))
    IN  [ r EXCEPT !.blocks = InsertBlock(st.blocks, st.elm), !.unassembled = st.unassembled ]

LEMMA UpdateBlocks ==
  ASSUME NEW r \in ReassemblerState, NEW bs, NEW u
  PROVE  [ r EXCEPT !.blocks = bs, !.unassembled = u ]
           = [ blocks |-> bs, unassembled |-> u, head_index |-> r.head_index,
               eof_flag |-> r.eof_flag, output |-> r.output ]
<1> DEFINE a == [ r EXCEPT !.blocks = bs ]
<1>1. a = [ blocks |-> bs, unassembled |-> r.unassembled, head_index |-> r.head_index,
            eof_flag |-> r.eof_flag, output |-> r.output ]
  BY DEF ReassemblerState
<1>2. [ r EXCEPT !.blocks = bs, !.unassembled = u ] = [ a EXCEPT !.unassembled = u ] OBVIOUS
<1> HIDE DEF a
<1>3. [ a EXCEPT !.unassembled = u ]
        = [ blocks |-> bs, unassembled |-> u, head_index |-> r.head_index,
            eof_flag |-> r.eof_flag, output |-> r.output ]
  BY <1>1
<1> QED BY <1>2, <1>3

\* Storing a block is Store.
LEMMA StoreRefines ==
  ASSUME NEW r, Sound(r), NEW i \in Nat, NEW n \in Nat, i + n <= StreamLen,
         r.head_index < i + n
  PROVE  LET s == StoreBlock(r, Substring(i, n), i)
         IN  Filled(s) /\ AbsOf(s) = R!Store(AbsOf(r), Substring(i, n), i)
<1> DEFINE h    == r.head_index
           data == Substring(i, n)
           elm  == NewBlock(r, data, i)
           st   == Loops(r, elm)
           bs   == InsertBlock(st.blocks, st.elm)
           s    == StoreBlock(r, data, i)
           a    == AbsOf(r)
           old  == Cover(r.blocks)
<1>1. /\ r \in ReassemblerState /\ Blocks(r.blocks, h) /\ AbsOK(r) BY DEF Sound
<1>2. /\ h \in Nat /\ r.blocks \in SUBSET StreamBlock /\ r.eof_flag \in BOOLEAN
      /\ r.output \in ByteStreamType(Byte)
  BY <1>1, StateFacts
<1>3. Len(data) = n /\ \A k \in 1..n : data[k] = ByteAt(i + k - 1) BY PieceOfStream
<1>4. /\ elm \in StreamBlock /\ elm.begin = MaxOf(i, h) /\ EndOf(elm) = i + n
      /\ elm.begin = h => Len(elm.data) > 0
  BY <1>1, NewBlockFacts
<1>5. h <= elm.begin BY <1>2, <1>4 DEF MaxOf
<1>6. s = [ r EXCEPT !.blocks = bs, !.unassembled = st.unassembled ] BY DEF StoreBlock
<1> HIDE DEF elm, data
<1>7. /\ bs \in SUBSET StreamBlock /\ IsFiniteSet(bs) /\ Separate(bs)
      /\ \A b \in bs : h <= b.begin /\ (b.begin = h => Len(b.data) > 0)
      /\ Cover(bs) = old \cup Span(elm)
      /\ st.unassembled \in Int
      /\ st.unassembled = r.unassembled + Cardinality(Span(elm) \ old)
  BY <1>1, <1>4, <1>5, LoopsFacts
<1> HIDE DEF st, bs, s, a
<1>8. s = [ blocks |-> bs, unassembled |-> st.unassembled, head_index |-> h,
            eof_flag |-> r.eof_flag, output |-> r.output ]
  BY <1>1, <1>6, UpdateBlocks
<1>9. s \in ReassemblerState BY <1>2, <1>7, <1>8 DEF ReassemblerState
<1>10. Span(elm) = R!MaxOf(i, h)..(i + Len(data) - 1)
  BY <1>3, <1>4, SameOperators DEF Span
<1>11. AbsOf(s) = R!Store(a, data, i)
  <2> DEFINE new  == R!MaxOf(a.head_index, a.head_index)
             keep == [ j \in old \cup Span(elm) |->
                         IF j \in old THEN a.stored[j] ELSE data[j - i + 1] ]
             u    == r.unassembled + Cardinality(Span(elm) \ old)
  <2>1. /\ a.stored = [ j \in old |-> ByteAt(j) ] /\ DOMAIN a.stored = old
        /\ a.unassembled = r.unassembled /\ a.head_index = h
        /\ a.eof_flag = r.eof_flag /\ a.output = r.output
    BY AbsFields DEF a
  <2>2. R!Store(a, data, i) = [ a EXCEPT !.stored = keep, !.unassembled = u ]
    <3>1. R!MaxOf(i, a.head_index)..(i + Len(data) - 1) = Span(elm) BY <1>10, <2>1
    <3>2. a.unassembled + R!Cardinality(Span(elm) \ old) = u BY <2>1, SameOperators
    <3>3. R!Store(a, data, i)
            = [ a EXCEPT
                  !.stored = [ j \in DOMAIN a.stored \cup (R!MaxOf(i, a.head_index)..(i + Len(data) - 1)) |->
                               IF j \in DOMAIN a.stored THEN a.stored[j] ELSE data[j - i + 1] ],
                  !.unassembled = a.unassembled + R!Cardinality(
                     (R!MaxOf(i, a.head_index)..(i + Len(data) - 1)) \ DOMAIN a.stored) ]
      BY DEF R!Store
    <3> HIDE DEF u
    <3> QED BY <2>1, <3>1, <3>2, <3>3
  <2>3. keep = [ j \in old \cup Span(elm) |-> ByteAt(j) ]
    <3>1. ASSUME NEW j \in old \cup Span(elm)
          PROVE  (IF j \in old THEN a.stored[j] ELSE data[j - i + 1]) = ByteAt(j)
      <4>1. CASE j \in old BY <2>1, <4>1
      <4>2. CASE j \notin old
        <5>1. j \in Span(elm) BY <4>2
        <5>2. j \in Int /\ i <= j /\ j < i + n BY <1>2, <1>4, <5>1 DEF Span, MaxOf
        <5>3. j - i + 1 \in 1..n /\ i + (j - i + 1) - 1 = j BY <5>2
        <5>4. data[j - i + 1] = ByteAt(j) BY <1>3, <5>3
        <5> QED BY <4>2, <5>4
      <4> QED BY <4>1, <4>2
    <3> QED BY <3>1
  <2> HIDE DEF keep, u
  <2>4. a \in R!ReassemblerType BY <1>1 DEF AbsOK, a
  <2>5. [ a EXCEPT !.stored = keep, !.unassembled = u ]
          = [ stored |-> keep, unassembled |-> u, head_index |-> a.head_index,
              eof_flag |-> a.eof_flag, output |-> a.output ]
    BY <2>4, StreamAssumption, R!UpdateStore
  <2>6. s.blocks = bs /\ s.unassembled = st.unassembled /\ s.head_index = h
        /\ s.eof_flag = r.eof_flag /\ s.output = r.output
    BY <1>8
  <2>7. AbsOf(s) = [ stored |-> [ j \in Cover(bs) |-> ByteAt(j) ], unassembled |-> st.unassembled,
                     head_index |-> h, eof_flag |-> r.eof_flag, output |-> r.output ]
    BY <2>6 DEF AbsOf
  <2>8. u = st.unassembled BY <1>7 DEF u
  <2> QED BY <1>7, <2>1, <2>2, <2>3, <2>5, <2>7, <2>8
<1>12. AbsOK(s)
  <2>1. a \in R!ReassemblerType /\ R!ReassemblerOK(a, Capacity) BY <1>1 DEF AbsOK, a
  <2>2. Capacity \in Nat BY CapacityAssumption
  <2>3. i + n <= R!StreamLen /\ data = R!Substring(i, n) BY SameOperators DEF data
  <2>4. /\ R!Store(a, R!Substring(i, n), i) \in R!ReassemblerType
        /\ R!ReassemblerOK(R!Store(a, R!Substring(i, n), i), Capacity)
    BY <2>1, <2>2, <2>3, StreamAssumption, R!StorePreserves
  <2> QED BY <1>11, <2>3, <2>4 DEF AbsOK
<1>13. Filled(s)
  <2>1. s.blocks = bs /\ s.head_index = h BY <1>8
  <2> QED BY <1>7, <1>9, <1>12, <2>1 DEF Filled
<1> QED BY <1>11, <1>13 DEF s, a, data

-----------------------------------------------------------------------------
\* The run of stored bytes at the first index of a block is the block.
LEMMA RunIsBlock ==
  ASSUME NEW bs \in SUBSET StreamBlock, Separate(bs), NEW b \in bs, Len(b.data) > 0
  PROVE  /\ b.begin \in Cover(bs)
         /\ R!RunEnd(Cover(bs), b.begin) = EndOf(b)
<1> DEFINE S == Cover(bs)
           h == b.begin
           e == R!RunEnd(S, h)
           f == EndOf(b)
<1>1. /\ h \in Nat /\ f \in Nat /\ h < f /\ f <= StreamLen /\ StreamLen \in Nat
  <2>1. /\ h \in Nat /\ f \in Nat /\ f = h + Len(b.data) /\ Len(b.data) \in Nat
        /\ f <= StreamLen
    BY BlockFacts
  <2> QED BY <2>1, StreamTypes
<1>2. h..(f - 1) \in SUBSET S BY DEF Cover, Span
<1>3. h \in S BY <1>1, <1>2
<1>4. f \notin S
  <2> SUFFICES ASSUME NEW c \in bs, f \in Span(c) PROVE FALSE BY DEF Cover
  <2>1. c.begin \in Nat /\ EndOf(c) \in Nat /\ c.begin <= f /\ f < EndOf(c)
    BY <1>1, BlockFacts DEF Span
  <2>2. c # b BY <1>1, <2>1
  <2>3. f < c.begin \/ EndOf(c) < h BY <2>2 DEF Separate, Gap
  <2> QED BY <1>1, <2>1, <2>3
<1>5. S \in SUBSET (0..(StreamLen - 1)) BY CoverFinite
<1>6. e \in Nat /\ h < e /\ e <= StreamLen /\ e \notin S /\ \A i \in h..(e - 1) : i \in S
  <2> HIDE DEF S, h
  <2> QED BY <1>1, <1>3, <1>5, StreamAssumption, R!RunEndFacts
<1> HIDE DEF e, S
<1>7. ~(e < f)
  <2> SUFFICES ASSUME e < f PROVE FALSE OBVIOUS
  <2>1. e \in h..(f - 1) BY <1>1, <1>6
  <2> QED BY <1>2, <1>6, <2>1
<1>8. ~(f < e)
  <2> SUFFICES ASSUME f < e PROVE FALSE OBVIOUS
  <2>1. f \in h..(e - 1) BY <1>1, <1>6
  <2> QED BY <1>4, <1>6, <2>1
<1>9. e = f BY <1>1, <1>6, <1>7, <1>8
<1> QED BY <1>3, <1>9 DEF e, S

LEMMA UpdateWritten ==
  ASSUME NEW r \in ReassemblerState, NEW o, NEW h, NEW u, NEW bs
  PROVE  [ r EXCEPT !.output = o, !.head_index = h, !.unassembled = u, !.blocks = bs ]
           = [ blocks |-> bs, unassembled |-> u, head_index |-> h,
               eof_flag |-> r.eof_flag, output |-> o ]
<1> DEFINE a == [ r EXCEPT !.output = o ]
           b == [ a EXCEPT !.head_index = h ]
           c == [ b EXCEPT !.unassembled = u ]
<1>1. a = [ blocks |-> r.blocks, unassembled |-> r.unassembled, head_index |-> r.head_index,
            eof_flag |-> r.eof_flag, output |-> o ]
  BY DEF ReassemblerState
<1>2. [ r EXCEPT !.output = o, !.head_index = h, !.unassembled = u, !.blocks = bs ]
        = [ c EXCEPT !.blocks = bs ]
  OBVIOUS
<1> HIDE DEF a
<1>3. b = [ blocks |-> r.blocks, unassembled |-> r.unassembled, head_index |-> h,
            eof_flag |-> r.eof_flag, output |-> o ]
  BY <1>1
<1> HIDE DEF b
<1>4. c = [ blocks |-> r.blocks, unassembled |-> u, head_index |-> h,
            eof_flag |-> r.eof_flag, output |-> o ]
  BY <1>3
<1> HIDE DEF c
<1>5. [ c EXCEPT !.blocks = bs ]
        = [ blocks |-> bs, unassembled |-> u, head_index |-> h,
            eof_flag |-> r.eof_flag, output |-> o ]
  BY <1>4
<1> QED BY <1>2, <1>5

\* Nothing to write: no block begins at the head.
LEMMA NothingToWrite ==
  ASSUME NEW s, Filled(s), s.blocks = {} \/ First(s.blocks).begin # s.head_index
  PROVE  Sound(s) /\ AbsOf(s) = R!Assemble(AbsOf(s), Capacity)
<1> DEFINE h == s.head_index
<1>1. /\ s \in ReassemblerState /\ AbsOK(s) /\ IsFiniteSet(s.blocks) /\ Separate(s.blocks)
      /\ \A b \in s.blocks : h <= b.begin
  BY DEF Filled
<1>2. s.blocks \in SUBSET StreamBlock /\ h \in Nat BY <1>1, StateFacts
<1>3. ASSUME NEW b \in s.blocks PROVE h < b.begin
  <2>1. First(s.blocks) \in s.blocks /\ First(s.blocks).begin <= b.begin
    BY <1>2, FirstFacts
  <2>2. First(s.blocks).begin \in Nat /\ b.begin \in Nat BY <1>2, <2>1, BlockFacts
  <2>3. h <= First(s.blocks).begin /\ First(s.blocks).begin # h BY <1>1, <2>1
  <2> QED BY <1>2, <2>1, <2>2, <2>3
<1>4. h \notin Cover(s.blocks)
  <2> SUFFICES ASSUME NEW b \in s.blocks, h \in Span(b) PROVE FALSE BY DEF Cover
  <2>1. b.begin \in Nat /\ b.begin <= h BY <1>2, BlockFacts DEF Span
  <2> QED BY <1>2, <1>3, <2>1
<1>5. AbsOf(s) = R!Assemble(AbsOf(s), Capacity)
  <2>1. AbsOf(s).head_index \notin DOMAIN AbsOf(s).stored BY <1>4, AbsFields
  <2> QED BY <2>1 DEF R!Assemble
<1>6. Blocks(s.blocks, h) BY <1>1, <1>2, <1>3 DEF Blocks
<1> QED BY <1>1, <1>5, <1>6 DEF Sound

\* The update Assemble makes.
Assembled(x, o, h, u, s) ==
    [ x EXCEPT !.output = o, !.head_index = h, !.unassembled = u, !.stored = s ]

LEMMA AssembledFields ==
  ASSUME NEW x \in R!ReassemblerType, NEW o, NEW h, NEW u, NEW s
  PROVE  Assembled(x, o, h, u, s)
           = [ stored |-> s, unassembled |-> u, head_index |-> h,
               eof_flag |-> x.eof_flag, output |-> o ]
<1> DEFINE a == [ x EXCEPT !.output = o ]
           b == [ a EXCEPT !.head_index = h ]
           c == [ b EXCEPT !.unassembled = u ]
<1>1. a = [ stored |-> x.stored, unassembled |-> x.unassembled, head_index |-> x.head_index,
            eof_flag |-> x.eof_flag, output |-> o ]
  BY DEF R!ReassemblerType
<1>2. Assembled(x, o, h, u, s) = [ c EXCEPT !.stored = s ] BY DEF Assembled
<1> HIDE DEF a
<1>3. b = [ stored |-> x.stored, unassembled |-> x.unassembled, head_index |-> h,
            eof_flag |-> x.eof_flag, output |-> o ]
  BY <1>1
<1> HIDE DEF b
<1>4. c = [ stored |-> x.stored, unassembled |-> u, head_index |-> h,
            eof_flag |-> x.eof_flag, output |-> o ]
  BY <1>3
<1> HIDE DEF c
<1> QED BY <1>2, <1>4

\* Writing the block at the head is Assemble.
LEMMA HeadIsWritten ==
  ASSUME NEW s, Filled(s), s.blocks # {}, First(s.blocks).begin = s.head_index
  PROVE  Sound(WriteHead(s)) /\ AbsOf(WriteHead(s)) = R!Assemble(AbsOf(s), Capacity)
<1> DEFINE h    == s.head_index
           b    == First(s.blocks)
           data == b.data
           m    == Len(data)
           len  == accepted(s.output, Capacity, data)
           o    == write(s.output, Capacity, data)
           u    == s.unassembled - len
           hd   == h + len
           rest == s.blocks \ {b}
           S    == Cover(s.blocks)
           t    == WriteHead(s)
           a    == AbsOf(s)
<1>1. /\ s \in ReassemblerState /\ AbsOK(s) /\ IsFiniteSet(s.blocks) /\ Separate(s.blocks)
      /\ \A c \in s.blocks : c.begin = h => Len(c.data) > 0
  BY DEF Filled
<1>2. /\ s.blocks \in SUBSET StreamBlock /\ h \in Nat /\ s.unassembled \in Int
      /\ s.output \in ByteStreamType(Byte) /\ s.eof_flag \in BOOLEAN
  BY <1>1, StateFacts
<1>3. b \in s.blocks /\ b \in StreamBlock /\ b.begin = h
      /\ \A c \in s.blocks : b.begin <= c.begin
  BY <1>2, FirstFacts
<1>4. m > 0 BY <1>1, <1>3
<1>5. t = [ s EXCEPT !.output = o, !.head_index = hd, !.unassembled = u, !.blocks = rest ]
  BY DEF WriteHead
<1>6. /\ data = Substring(h, m) /\ m \in Nat /\ EndOf(b) = h + m /\ h + m <= StreamLen
      /\ data \in Seq(Byte)
  BY <1>3, BlockFacts
<1>7. h \in S /\ R!RunEnd(S, h) = EndOf(b) BY <1>1, <1>2, <1>3, <1>4, RunIsBlock
<1>sp. Span(b) = h..(h + m - 1)
  <2> HIDE DEF h, b, m
  <2>1. EndOf(b) - 1 = h + m - 1 BY <1>2, <1>6
  <2> QED BY <1>3, <2>1 DEF Span
<1> HIDE DEF b
<1>8. len \in 0..m /\ o \in ByteStreamType(Byte)
  <2>1. /\ s.output.readden + Len(s.output.buffer) = s.output.written
        /\ s.output.buffer = Substring(s.output.readden, Len(s.output.buffer))
        /\ Len(s.output.buffer) <= Capacity /\ s.output.written = h
    BY <1>1, AbsOKFacts
  <2>2. LET run == R!Substring(s.output.written, m)
        IN  /\ R!accepted(s.output, Capacity, run) \in 0..m
            /\ R!write(s.output, Capacity, run) \in R!ByteStreamType(Byte)
    <3>1. /\ s.output \in R!ByteStreamType(Byte)
          /\ s.output.buffer = R!Substring(s.output.readden, Len(s.output.buffer))
          /\ s.output.written + m <= R!StreamLen
      BY <1>2, <1>6, <2>1, SameOperators
    <3> HIDE DEF m
    <3> QED BY <1>6, <2>1, <3>1, CapacityAssumption, StreamAssumption, R!WriteAppends
  <2>3. R!Substring(s.output.written, m) = data
    <3> HIDE DEF m, data
    <3> QED BY <1>6, <2>1, SameOperators
  <2> HIDE DEF m, data
  <2>4. /\ R!accepted(s.output, Capacity, data) \in 0..m
        /\ R!write(s.output, Capacity, data) \in R!ByteStreamType(Byte)
    BY <2>2, <2>3
  <2> QED BY <2>4, SameOperators
<1> HIDE DEF o, len, t
<1>9. t = [ blocks |-> rest, unassembled |-> u, head_index |-> hd,
            eof_flag |-> s.eof_flag, output |-> o ]
  <2> HIDE DEF rest, u, hd, h
  <2>1. s \in ReassemblerState BY <1>1
  <2>2. \A x, y, v, w :
          [ s EXCEPT !.output = x, !.head_index = y, !.unassembled = v, !.blocks = w ]
            = [ blocks |-> w, unassembled |-> v, head_index |-> y,
                eof_flag |-> s.eof_flag, output |-> x ]
    BY <2>1, UpdateWritten, ZenonT(30)
  <2> QED BY <1>5, <2>2, ZenonT(30)
<1>10. /\ t.blocks = rest /\ t.unassembled = u /\ t.head_index = hd
       /\ t.eof_flag = s.eof_flag /\ t.output = o
  BY <1>9
<1>11. rest \in SUBSET StreamBlock /\ Separate(rest) /\ IsFiniteSet(rest)
  BY <1>1, <1>2, FS_Subset DEF Separate
<1>12. \A c \in rest : h + m < c.begin
  <2> TAKE c \in rest
  <2>1. EndOf(b) < c.begin \/ EndOf(c) < b.begin BY <1>1, <1>3 DEF Separate, Gap
  <2>2. c.begin \in Nat /\ EndOf(c) \in Nat /\ c.begin <= EndOf(c) /\ b.begin <= c.begin
    BY <1>2, <1>3, BlockFacts
  <2> HIDE DEF m
  <2> QED BY <1>2, <1>3, <1>6, <2>1, <2>2
<1>13. Blocks(rest, hd)
  <2>1. hd \in Nat /\ hd <= h + m
    <3> HIDE DEF m
    <3> QED BY <1>2, <1>6, <1>8
  <2>2. ASSUME NEW c \in rest PROVE hd < c.begin
    <3>1. h + m < c.begin /\ c.begin \in Nat BY <1>11, <1>12, BlockFacts
    <3> HIDE DEF m, hd
    <3> QED BY <1>2, <1>6, <2>1, <3>1
  <2> HIDE DEF rest, hd
  <2> QED BY <1>11, <2>1, <2>2 DEF Blocks
<1>14. t \in ReassemblerState
  <2>1. u \in Int /\ hd \in Nat
    <3> HIDE DEF m
    <3> QED BY <1>2, <1>6, <1>8
  <2> HIDE DEF u, hd
  <2> QED BY <1>2, <1>8, <1>9, <1>11, <2>1 DEF ReassemblerState
<1>15. AbsOf(t) = R!Assemble(a, Capacity)
  <2> DEFINE e    == R!RunEnd(DOMAIN a.stored, a.head_index)
             run  == [ k \in 1..(e - a.head_index) |-> a.stored[a.head_index + k - 1] ]
             keep == [ i \in { j \in DOMAIN a.stored : j >= e } |-> a.stored[i] ]
  <2>1. /\ a.stored = [ j \in S |-> ByteAt(j) ] /\ DOMAIN a.stored = S
        /\ a.unassembled = s.unassembled /\ a.head_index = h
        /\ a.eof_flag = s.eof_flag /\ a.output = s.output
    BY AbsFields
  <2> HIDE DEF a, S
  <2>2. a.head_index \in DOMAIN a.stored BY <1>7, <2>1
  <2>3. R!Assemble(a, Capacity)
          = [ a EXCEPT !.output = R!write(a.output, Capacity, run),
                       !.head_index = a.head_index + R!accepted(a.output, Capacity, run),
                       !.unassembled = a.unassembled - R!accepted(a.output, Capacity, run),
                       !.stored = keep ]
    BY <2>2 DEF R!Assemble
  <2>4. e = h + m BY <1>6, <1>7, <2>1
  <2>5. run = data
    <3>1. e - a.head_index = m
      <4> HIDE DEF e, m
      <4> QED BY <1>2, <1>6, <2>1, <2>4
    <3>2. \A k \in 1..m : a.stored[h + k - 1] = ByteAt(h + k - 1)
      <4> TAKE k \in 1..m
      <4>1. h + k - 1 \in Span(b)
        <5> HIDE DEF m
        <5>1. k \in 1..m /\ h + k - 1 \in h..(h + m - 1) BY <1>2, <1>6
        <5> QED BY <1>sp, <5>1
      <4>2. h + k - 1 \in S BY <1>3, <4>1 DEF Cover, S
      <4> QED BY <2>1, <4>2
    <3>3. run = [ k \in 1..m |-> ByteAt(h + k - 1) ]
      <4> HIDE DEF e, m
      <4> QED BY <2>1, <3>1, <3>2
    <3>4. data = [ k \in 1..m |-> ByteAt(h + k - 1) ]
      <4>1. \A k \in 1..m : Substring(h, m)[k] = ByteAt(h + k - 1)
        <5> HIDE DEF m, h
        <5> QED BY <1>2, <1>6, PieceOfStream
      <4>2. data = [ k \in 1..m |-> data[k] ] BY <1>6, LenProperties
      <4> HIDE DEF m, data
      <4> QED BY <1>6, <4>1, <4>2
    <3> HIDE DEF run, data
    <3> QED BY <3>3, <3>4
  <2>6. keep = [ i \in Cover(rest) |-> ByteAt(i) ]
    <3>1. { j \in S : j >= h + m } = Cover(rest)
      <4>1. S = Cover(rest) \cup Span(b) BY <1>1, <1>2, <1>3, CoverDrops DEF S
      <4>2. ASSUME NEW j \in Cover(rest) PROVE j \in Int /\ j >= h + m
        <5>1. PICK c \in rest : j \in Span(c) BY DEF Cover
        <5>2. c.begin \in Nat /\ EndOf(c) \in Nat /\ h + m < c.begin
          BY <1>11, <1>12, BlockFacts
        <5>3. j \in Int /\ c.begin <= j BY <5>1, <5>2 DEF Span
        <5> HIDE DEF m
        <5> QED BY <1>2, <1>6, <5>2, <5>3
      <4>3. ASSUME NEW j \in Span(b) PROVE ~(j >= h + m)
        <5>1. j \in h..(h + m - 1) BY <1>sp
        <5> HIDE DEF m
        <5> QED BY <1>2, <1>6, <5>1
      <4> HIDE DEF rest, m, h
      <4> QED BY <4>1, <4>2, <4>3
    <3>2. { j \in DOMAIN a.stored : j >= e } = Cover(rest)
      <4> HIDE DEF e, m, rest
      <4> QED BY <2>1, <2>4, <3>1
    <3>3. \A j \in Cover(rest) : a.stored[j] = ByteAt(j)
      <4> HIDE DEF rest
      <4> QED BY <2>1, <3>1
    <3> HIDE DEF e, rest
    <3> QED BY <3>2, <3>3
  <2> HIDE DEF run, keep, e
  <2>7. R!Assemble(a, Capacity)
          = Assembled(a, o, hd, u, keep)
    <3>1. R!write(a.output, Capacity, run) = o /\ R!accepted(a.output, Capacity, run) = len
      BY <2>1, <2>5, SameOperators DEF o, len
    <3> QED BY <2>1, <2>3, <3>1 DEF Assembled
  <2>8. a \in R!ReassemblerType BY <1>1 DEF AbsOK, a
  <2>9. Assembled(a, o, hd, u, keep)
          = [ stored |-> keep, unassembled |-> u, head_index |-> hd,
              eof_flag |-> a.eof_flag, output |-> o ]
    <3> HIDE DEF hd, u
    <3> QED BY <2>8, AssembledFields
  <2>10. AbsOf(t) = [ stored |-> [ i \in Cover(rest) |-> ByteAt(i) ], unassembled |-> u,
                      head_index |-> hd, eof_flag |-> s.eof_flag, output |-> o ]
    <3> HIDE DEF hd, u, rest
    <3> QED BY <1>10 DEF AbsOf
  <2> HIDE DEF hd, u, rest
  <2> QED BY <2>1, <2>6, <2>7, <2>9, <2>10
<1>16. AbsOK(t)
  <2>1. a \in R!ReassemblerType /\ R!ReassemblerOK(a, Capacity) BY <1>1 DEF AbsOK
  <2> HIDE DEF a
  <2>2. /\ R!Assemble(a, Capacity) \in R!ReassemblerType
        /\ R!ReassemblerOK(R!Assemble(a, Capacity), Capacity)
    BY <2>1, CapacityAssumption, StreamAssumption, R!AssemblePreserves
  <2> QED BY <1>15, <2>2 DEF AbsOK
<1>17. Sound(t)
  <2> HIDE DEF rest, hd
  <2> QED BY <1>10, <1>13, <1>14, <1>16 DEF Sound
<1> QED BY <1>15, <1>17 DEF t

-----------------------------------------------------------------------------
LEMMA UpdateEof ==
  ASSUME NEW r \in ReassemblerState, NEW f, NEW o
  PROVE  [ r EXCEPT !.eof_flag = f, !.output = o ]
           = [ blocks |-> r.blocks, unassembled |-> r.unassembled,
               head_index |-> r.head_index, eof_flag |-> f, output |-> o ]
<1> DEFINE a == [ r EXCEPT !.eof_flag = f ]
<1>1. a = [ blocks |-> r.blocks, unassembled |-> r.unassembled, head_index |-> r.head_index,
            eof_flag |-> f, output |-> r.output ]
  BY DEF ReassemblerState
<1>2. [ r EXCEPT !.eof_flag = f, !.output = o ] = [ a EXCEPT !.output = o ] OBVIOUS
<1> HIDE DEF a
<1> QED BY <1>1, <1>2

\* The same update of the description.
AbsUpdateEof(x, f, o) == [ x EXCEPT !.eof_flag = f, !.output = o ]

LEMMA AbsUpdateEofFields ==
  ASSUME NEW x \in R!ReassemblerType, NEW f, NEW o
  PROVE  AbsUpdateEof(x, f, o)
           = [ stored |-> x.stored, unassembled |-> x.unassembled,
               head_index |-> x.head_index, eof_flag |-> f, output |-> o ]
<1> DEFINE a == [ x EXCEPT !.eof_flag = f ]
<1>1. a = [ stored |-> x.stored, unassembled |-> x.unassembled, head_index |-> x.head_index,
            eof_flag |-> f, output |-> x.output ]
  BY DEF R!ReassemblerType
<1>2. AbsUpdateEof(x, f, o) = [ a EXCEPT !.output = o ] BY DEF AbsUpdateEof
<1> HIDE DEF a
<1> QED BY <1>1, <1>2

\* Judging the end is JudgeEof.
LEMMA JudgeRefines ==
  ASSUME NEW r, Sound(r), NEW b \in BOOLEAN
  PROVE  Sound(JudgeEof(r, b)) /\ AbsOf(JudgeEof(r, b)) = R!JudgeEof(AbsOf(r), b)
<1> DEFINE f == r.eof_flag \/ b
           o == IF f /\ r.unassembled = 0 THEN end_input(r.output) ELSE r.output
           t == JudgeEof(r, b)
           a == AbsOf(r)
<1>1. r \in ReassemblerState /\ Blocks(r.blocks, r.head_index) /\ AbsOK(r) BY DEF Sound
<1>2. /\ r.blocks \in SUBSET StreamBlock /\ r.unassembled \in Int /\ r.head_index \in Nat
      /\ r.eof_flag \in BOOLEAN /\ r.output \in ByteStreamType(Byte)
  BY <1>1, StateFacts
<1>3. t = [ r EXCEPT !.eof_flag = f, !.output = o ] BY DEF JudgeEof
<1>4. o \in ByteStreamType(Byte) /\ f \in BOOLEAN
  <2>1. R!end_input(r.output) \in R!ByteStreamType(Byte)
    <3>1. r.output \in R!ByteStreamType(Byte) BY <1>2, SameOperators
    <3> QED BY <3>1, StreamAssumption, R!EndInputFacts
  <2> QED BY <1>2, <2>1, SameOperators
<1> HIDE DEF t, o, f
<1>5. t = [ blocks |-> r.blocks, unassembled |-> r.unassembled,
            head_index |-> r.head_index, eof_flag |-> f, output |-> o ]
  BY <1>1, <1>3, UpdateEof
<1>6. t \in ReassemblerState BY <1>2, <1>4, <1>5 DEF ReassemblerState
<1>7. AbsOf(t) = R!JudgeEof(a, b)
  <2>1. /\ a.stored = [ j \in Cover(r.blocks) |-> ByteAt(j) ]
        /\ a.unassembled = r.unassembled /\ a.head_index = r.head_index
        /\ a.eof_flag = r.eof_flag /\ a.output = r.output
    BY AbsFields
  <2>2. a \in R!ReassemblerType BY <1>1 DEF AbsOK
  <2> HIDE DEF a
  <2>3. R!JudgeEof(a, b) = AbsUpdateEof(a, f, o)
    <3>1. (a.eof_flag \/ b) = f BY <2>1 DEF f
    <3>2. (IF f /\ R!empty(a) THEN R!end_input(a.output) ELSE a.output) = o
      BY <2>1, SameOperators DEF o, R!empty
    <3>3. R!JudgeEof(a, b)
            = [ a EXCEPT !.eof_flag = a.eof_flag \/ b,
                         !.output = IF (a.eof_flag \/ b) /\ R!empty(a)
                                      THEN R!end_input(a.output) ELSE a.output ]
      BY DEF R!JudgeEof
    <3> QED BY <3>1, <3>2, <3>3 DEF AbsUpdateEof
  <2>4. AbsOf(t) = [ stored |-> [ j \in Cover(r.blocks) |-> ByteAt(j) ],
                     unassembled |-> r.unassembled, head_index |-> r.head_index,
                     eof_flag |-> f, output |-> o ]
    BY <1>5 DEF AbsOf
  <2> QED BY <2>1, <2>2, <2>3, <2>4, AbsUpdateEofFields
<1>8. AbsOK(t)
  <2>1. a \in R!ReassemblerType /\ R!ReassemblerOK(a, Capacity) BY <1>1 DEF AbsOK
  <2> HIDE DEF a
  <2>2. /\ R!JudgeEof(a, b) \in R!ReassemblerType
        /\ R!ReassemblerOK(R!JudgeEof(a, b), Capacity)
    BY <2>1, CapacityAssumption, StreamAssumption, R!JudgeEofPreserves
  <2> QED BY <1>7, <2>2 DEF AbsOK
<1>9. t.blocks = r.blocks /\ t.head_index = r.head_index BY <1>5
<1> QED BY <1>1, <1>6, <1>7, <1>8, <1>9 DEF Sound, t

\* A call of push_substring is a call of the description's push_substring.
LEMMA PushRefines ==
  ASSUME NEW r, Sound(r), NEW i \in Nat, NEW n \in Nat, i + n <= StreamLen,
         NEW b \in BOOLEAN
  PROVE  LET t == push_substring(r, Substring(i, n), i, b)
         IN  /\ Sound(t)
             /\ AbsOf(t) = R!push_substring(AbsOf(r), Capacity, Substring(i, n), i, b)
<1> DEFINE data == Substring(i, n)
           h    == r.head_index
           s    == StoreBlock(r, data, i)
           w    == WriteHead(s)
           t    == push_substring(r, data, i, b)
           a    == AbsOf(r)
<1>1. Len(data) = n BY PieceOfStream
<1>2. h \in Nat /\ Capacity \in Nat BY StateFacts, CapacityAssumption DEF Sound
<1>3. a.head_index = h BY AbsFields
<1> HIDE DEF data, a
<1>4. CASE i >= h + Capacity
  <2>1. t = r BY <1>4 DEF push_substring
  <2>2. R!push_substring(a, Capacity, data, i, b) = a BY <1>3, <1>4 DEF R!push_substring
  <2> QED BY <2>1, <2>2 DEF data, a
<1>5. CASE ~(i >= h + Capacity) /\ i + Len(data) <= h
  <2>1. t = JudgeEof(r, b) BY <1>5 DEF push_substring
  <2>2. R!push_substring(a, Capacity, data, i, b) = R!JudgeEof(a, b)
    BY <1>3, <1>5 DEF R!push_substring
  <2> HIDE DEF t
  <2> QED BY <2>1, <2>2, JudgeRefines DEF data, a, t
<1>6. CASE ~(i >= h + Capacity) /\ ~(i + Len(data) <= h)
  <2>1. t = JudgeEof(w, b) BY <1>6, ZenonT(30) DEF push_substring, StoreBlock, Loops
  <2>2. R!push_substring(a, Capacity, data, i, b)
          = R!JudgeEof(R!Assemble(R!Store(a, data, i), Capacity), b)
    BY <1>3, <1>6 DEF R!push_substring
  <2>3. Filled(s) /\ AbsOf(s) = R!Store(a, data, i)
    <3>1. h < i + n BY <1>1, <1>2, <1>6
    <3> QED BY <3>1, StoreRefines DEF data, a
  <2> HIDE DEF s
  <2>4. Sound(w) /\ AbsOf(w) = R!Assemble(R!Store(a, data, i), Capacity)
    <3>1. CASE s.blocks = {} \/ First(s.blocks).begin # s.head_index
      <4>1. w = s BY <3>1 DEF WriteHead
      <4> QED BY <2>3, <3>1, <4>1, NothingToWrite
    <3>2. CASE s.blocks # {} /\ First(s.blocks).begin = s.head_index
      BY <2>3, <3>2, HeadIsWritten
    <3> QED BY <3>1, <3>2
  <2> HIDE DEF w, t
  <2> QED BY <2>1, <2>2, <2>4, JudgeRefines DEF data, a, t
<1> QED BY <1>4, <1>5, <1>6

\* Reading the output is PopOutput.
LEMMA PopRefines ==
  ASSUME NEW r, Sound(r), NEW n \in Nat, n <= Len(r.output.buffer)
  PROVE  LET t == [ r EXCEPT !.output = pop_output(@, n) ]
         IN  Sound(t) /\ AbsOf(t) = R!PopOutput(AbsOf(r), n)
<1> DEFINE o == pop_output(r.output, n)
           t == [ r EXCEPT !.output = o ]
           a == AbsOf(r)
<1>1. r \in ReassemblerState /\ Blocks(r.blocks, r.head_index) /\ AbsOK(r) BY DEF Sound
<1>2. /\ r.blocks \in SUBSET StreamBlock /\ r.unassembled \in Int /\ r.head_index \in Nat
      /\ r.eof_flag \in BOOLEAN
  BY <1>1, StateFacts
<1> HIDE DEF o
<1>3. t = [ blocks |-> r.blocks, unassembled |-> r.unassembled,
            head_index |-> r.head_index, eof_flag |-> r.eof_flag, output |-> o ]
  BY <1>1 DEF ReassemblerState
<1>4. a.output = r.output /\ a \in R!ReassemblerType /\ R!ReassemblerOK(a, Capacity)
  BY <1>1, AbsFields DEF AbsOK
<1>5. R!PopOutput(a, n) = [ a EXCEPT !.output = o ]
  <2> HIDE DEF a
  <2> QED BY <1>4, SameOperators DEF R!PopOutput, o
<1>6. AbsOf(t) = R!PopOutput(a, n)
  <2>1. [ a EXCEPT !.output = o ]
          = [ stored |-> [ j \in Cover(r.blocks) |-> ByteAt(j) ], unassembled |-> r.unassembled,
              head_index |-> r.head_index, eof_flag |-> r.eof_flag, output |-> o ]
    <3>1. /\ a.stored = [ j \in Cover(r.blocks) |-> ByteAt(j) ]
          /\ a.unassembled = r.unassembled /\ a.head_index = r.head_index
          /\ a.eof_flag = r.eof_flag
      BY AbsFields
    <3> HIDE DEF a
    <3>2. [ a EXCEPT !.output = o ]
            = [ stored |-> a.stored, unassembled |-> a.unassembled,
                head_index |-> a.head_index, eof_flag |-> a.eof_flag, output |-> o ]
      BY <1>4 DEF R!ReassemblerType
    <3> QED BY <3>1, <3>2
  <2>2. AbsOf(t) = [ stored |-> [ j \in Cover(r.blocks) |-> ByteAt(j) ],
                     unassembled |-> r.unassembled, head_index |-> r.head_index,
                     eof_flag |-> r.eof_flag, output |-> o ]
    <3> HIDE DEF t
    <3> QED BY <1>3 DEF AbsOf
  <2> HIDE DEF a, t
  <2> QED BY <1>5, <2>1, <2>2
<1>7. R!PopOutput(a, n) \in R!ReassemblerType /\ R!ReassemblerOK(R!PopOutput(a, n), Capacity)
  <2>1. n <= Len(a.output.buffer) BY <1>4
  <2> HIDE DEF a
  <2> QED BY <1>4, <2>1, CapacityAssumption, StreamAssumption, R!PopOutputPreserves
<1> HIDE DEF t, a
<1>8. AbsOK(t) BY <1>6, <1>7 DEF AbsOK
<1>9. t \in ReassemblerState
  <2>1. R!PopOutput(a, n).output = o
    <3>1. AbsOf(t).output = o BY <1>3, AbsFields
    <3> QED BY <1>6, <3>1
  <2>2. o \in ByteStreamType(Byte) BY <1>7, <2>1, SameOperators DEF R!ReassemblerType
  <2> QED BY <1>2, <1>3, <2>2 DEF ReassemblerState
<1>10. t.blocks = r.blocks /\ t.head_index = r.head_index BY <1>3
<1> QED BY <1>1, <1>6, <1>8, <1>9, <1>10 DEF Sound, t, a, o

-----------------------------------------------------------------------------
\* What holds between two calls while the peer keeps to the window: what is
\* stored lies in the window, the end is not forgotten, and the counter counts
\* the stored bytes.
Orderly(r) == R!Tight(AbsOf(r), Capacity) /\ R!Exact(AbsOf(r))

Inv == Sound(reassembler) /\ (behaved => Orderly(reassembler))

\* The reassembler that the constructor makes.
Empty ==
    [ blocks |-> {}, unassembled |-> 0, head_index |-> 0,
      eof_flag |-> FALSE, output |-> NewByteStream ]

LEMMA EmptyFacts == Sound(Empty) /\ Orderly(Empty) /\ AbsOf(Empty) = R!NewReassembler
<1> DEFINE a == AbsOf(Empty)
           o == NewByteStream
<1>1. StreamLen \in Nat /\ Capacity \in Nat BY StreamTypes, CapacityAssumption
<1>2. /\ Empty.blocks = {} /\ Empty.unassembled = 0 /\ Empty.head_index = 0
      /\ Empty.eof_flag = FALSE /\ Empty.output = o
  BY DEF Empty
<1>3. /\ o.buffer = <<>> /\ o.written = 0 /\ o.readden = 0 /\ o.input_end = FALSE
      /\ o \in ByteStreamType(Byte)
  BY DEF NewByteStream, ByteStreamType
<1>4. Cover({}) = {} BY DEF Cover
<1>5. Empty \in ReassemblerState
  <2>1. Empty = [ blocks |-> {}, unassembled |-> 0, head_index |-> 0,
                  eof_flag |-> FALSE, output |-> o ]
    BY DEF Empty
  <2> HIDE DEF o
  <2>2. {} \in SUBSET StreamBlock /\ 0 \in Int /\ 0 \in Nat /\ FALSE \in BOOLEAN OBVIOUS
  <2> QED BY <1>3, <2>1, <2>2, ZenonT(30) DEF ReassemblerState
<1>6. Blocks({}, 0) BY FS_EmptySet DEF Blocks, Separate
<1>7. /\ a.stored = [ i \in {} |-> ByteAt(i) ] /\ DOMAIN a.stored = {}
      /\ a.unassembled = 0 /\ a.head_index = 0 /\ a.eof_flag = FALSE /\ a.output = o
  BY <1>2, <1>4, AbsFields
<1>8. a = [ stored |-> [ i \in {} |-> ByteAt(i) ], unassembled |-> 0, head_index |-> 0,
            eof_flag |-> FALSE, output |-> o ]
  BY <1>2, <1>4 DEF AbsOf
<1>9. [ i \in {} |-> ByteAt(i) ] = <<>> OBVIOUS
<1> HIDE DEF a, o
<1>10. a \in R!ReassemblerType
  <2>1. [ i \in {} |-> R!ByteAt(i) ] \in R!PartialStream BY DEF R!PartialStream
  <2>2. a.stored \in R!PartialStream BY <1>7, <2>1, SameOperators
  <2>3. /\ 0 \in 0..R!StreamLen /\ o \in R!ByteStreamType(Byte)
    BY <1>1, <1>3, SameOperators
  <2> QED BY <1>7, <1>8, <2>2, <2>3 DEF R!ReassemblerType
<1>11. R!Cardinality({}) = 0 BY FS_EmptySet, SameOperators
<1>12. R!ReassemblerOK(a, Capacity)
  <2>1. Len(o.buffer) = 0 /\ o.buffer = Substring(0, 0)
    <3>1. /\ Substring(0, 0) \in Seq(Byte) /\ Len(Substring(0, 0)) = 0
      BY <1>1, PieceOfStream
    <3>2. Substring(0, 0) = <<>> BY <3>1, EmptySeq
    <3> QED BY <1>3, <3>1, <3>2
  <2>2. R!OutputOK(a, Capacity) BY <1>1, <1>3, <1>7, <2>1, SameOperators DEF R!OutputOK
  <2>3. R!StoreOK(a) BY <1>7, <1>11 DEF R!StoreOK
  <2> QED BY <2>2, <2>3 DEF R!ReassemblerOK
<1>13. Orderly(Empty)
  <2>1. R!Tight(a, Capacity) BY <1>3, <1>7 DEF R!Tight
  <2>2. R!Exact(a) BY <1>7, <1>11 DEF R!Exact
  <2> QED BY <2>1, <2>2 DEF Orderly, a
<1>14. a = R!NewReassembler
  BY <1>8, <1>9, ZenonT(30) DEF R!NewReassembler, R!NewByteStream, NewByteStream, o
<1> QED BY <1>2, <1>5, <1>6, <1>10, <1>12, <1>13, <1>14 DEF Sound, AbsOK, a

\* A push that keeps to the window, and a read, keep the reassembler orderly.
LEMMA PushOrderly ==
  ASSUME NEW r, Sound(r), Orderly(r), NEW i \in Nat, NEW n \in Nat, i + n <= StreamLen,
         i + n <= r.output.readden + Capacity, NEW b \in BOOLEAN,
         b => i + n = StreamLen, b => n > 0 \/ i <= r.output.written
  PROVE  Orderly(push_substring(r, Substring(i, n), i, b))
<1> DEFINE a == AbsOf(r)
           p == push_substring(r, Substring(i, n), i, b)
           q == R!push_substring(a, Capacity, R!Substring(i, n), i, b)
<1>1. /\ a \in R!ReassemblerType /\ R!ReassemblerOK(a, Capacity)
      /\ R!Tight(a, Capacity) /\ R!Exact(a)
  BY DEF Sound, AbsOK, Orderly
<1>2. a.output = r.output /\ a.head_index = r.head_index BY AbsFields
<1>3. r.output.written = r.head_index BY AbsOKFacts DEF Sound
<1>4. AbsOf(p) = q BY PushRefines, SameOperators
<1> HIDE DEF a
<1>5. /\ i + n <= R!StreamLen /\ i + n <= a.output.readden + Capacity
      /\ b => i + n = R!StreamLen /\ (n > 0 \/ i <= a.head_index)
  BY <1>2, <1>3, SameOperators
<1>6. \A j \in DOMAIN a.stored : j < a.output.readden + Capacity BY <1>1 DEF R!Tight
<1>7. Capacity \in Nat BY CapacityAssumption
<1>8. R!Tight(q, Capacity) BY <1>1, <1>5, <1>7, StreamAssumption, R!PushAdvances
<1>9. R!Exact(q) BY <1>1, <1>5, <1>6, <1>7, StreamAssumption, R!PushExact
<1> HIDE DEF p, q
<1>10. Orderly(p) BY <1>4, <1>8, <1>9 DEF Orderly
<1> QED BY <1>10 DEF p

LEMMA PopOrderly ==
  ASSUME NEW r, Sound(r), Orderly(r), NEW n \in Nat, n <= Len(r.output.buffer)
  PROVE  Orderly([ r EXCEPT !.output = pop_output(@, n) ])
<1> DEFINE a == AbsOf(r)
           t == [ r EXCEPT !.output = pop_output(@, n) ]
<1>1. a \in R!ReassemblerType /\ R!Tight(a, Capacity) /\ R!Exact(a)
  BY DEF Sound, AbsOK, Orderly
<1>2. a.output = r.output BY AbsFields
<1>3. AbsOf(t) = R!PopOutput(a, n) BY PopRefines
<1> HIDE DEF a, t
<1>4. n <= Len(a.output.buffer) /\ Capacity \in Nat BY <1>2, CapacityAssumption
<1>5. R!Tight(R!PopOutput(a, n), Capacity) BY <1>1, <1>4, StreamAssumption, R!PopOutputTight
<1>6. R!Exact(R!PopOutput(a, n)) BY <1>1, StreamAssumption, R!PopOutputExact
<1>7. Orderly(t) BY <1>3, <1>5, <1>6 DEF Orderly
<1> QED BY <1>7 DEF t

\* The inductive invariant: the reassembler is sound whatever the peer sends,
\* and orderly while the peer is.
LEMMA InvInductive ==
  /\ Init => Inv
  /\ Inv /\ [Next]_vars => Inv'
<1>1. Init => Inv
  <2> SUFFICES ASSUME Init PROVE Inv OBVIOUS
  <2>1. reassembler = Empty BY DEF Init, Empty
  <2> QED BY <2>1, EmptyFacts DEF Inv
<1>2. Inv /\ [Next]_vars => Inv'
  <2> SUFFICES ASSUME Inv, [Next]_vars PROVE Inv' OBVIOUS
  <2>1. Sound(reassembler) /\ (behaved => Orderly(reassembler)) BY DEF Inv
  <2>2. CASE UNCHANGED vars BY <2>1, <2>2 DEF Inv, vars
  <2>3. ASSUME NEW i \in 0..StreamLen, NEW n \in 0..StreamLen, NEW b \in BOOLEAN,
               PushSubstring(i, n, b)
        PROVE  Inv'
    <3>1. /\ reassembler' = push_substring(reassembler, Substring(i, n), i, b)
          /\ i + n <= StreamLen /\ (b => i + n = StreamLen)
      BY <2>3 DEF PushSubstring, MaySend
    <3>2. /\ behaved' => behaved
          /\ behaved' => i + n <= reassembler.output.readden + Capacity
          /\ behaved' => (b => n > 0 \/ i <= reassembler.output.written)
      BY <2>3 DEF PushSubstring
    <3>3. i \in Nat /\ n \in Nat OBVIOUS
    <3>4. Sound(reassembler') BY <2>1, <3>1, <3>3, PushRefines
    <3>5. behaved' => Orderly(reassembler') BY <2>1, <3>1, <3>2, <3>3, PushOrderly
    <3> QED BY <3>4, <3>5 DEF Inv
  <2>4. ASSUME NEW n \in 1..Capacity, ReadOutput(n) PROVE Inv'
    <3>1. /\ n <= Len(reassembler.output.buffer) /\ behaved' = behaved
          /\ reassembler' = [ reassembler EXCEPT !.output = pop_output(@, n) ]
      BY <2>4 DEF ReadOutput
    <3>2. n \in Nat OBVIOUS
    <3>3. Sound(reassembler') BY <2>1, <3>1, <3>2, PopRefines
    <3>4. behaved' => Orderly(reassembler') BY <2>1, <3>1, <3>2, PopOrderly
    <3> QED BY <3>3, <3>4 DEF Inv
  <2> QED BY <2>2, <2>3, <2>4 DEF Next
<1> QED BY <1>1, <1>2

LEMMA InvAlways == Spec => []Inv
<1>1. Init => Inv BY InvInductive
<1>2. Inv /\ [Next]_vars => Inv' BY InvInductive
<1> QED BY <1>1, <1>2, PTL DEF Spec

-----------------------------------------------------------------------------
\* The reader sees the stream, in order and without a gap, whatever is pushed
\* and in whatever order (push_substring, ByteStream::write).
THEOREM ReaderAlwaysSeesPrefix == Spec => []OutputIsPrefix
<1>1. Inv => OutputIsPrefix
  <2> SUFFICES ASSUME Inv PROVE OutputIsPrefix OBVIOUS
  <2>1. reassembler \in ReassemblerState /\ AbsOK(reassembler) BY DEF Inv, Sound
  <2>2. /\ reassembler.output.written = reassembler.head_index
        /\ reassembler.output.readden + Len(reassembler.output.buffer)
             = reassembler.output.written
        /\ reassembler.output.buffer = Substring(reassembler.output.readden,
                                                 Len(reassembler.output.buffer))
    BY <2>1, AbsOKFacts
  <2> QED BY <2>2 DEF OutputIsPrefix
<1> QED BY <1>1, InvAlways, PTL

\* Between two calls the blocks lie above the head, hold the bytes of the
\* stream and do not touch (merge_block and the two merge loops).
THEOREM BlocksAlwaysSeparated == Spec => []BlocksSeparated
<1>1. Inv => BlocksSeparated
  <2> SUFFICES ASSUME Inv, NEW b \in reassembler.blocks
               PROVE  /\ b.begin > reassembler.head_index
                      /\ b.data = Substring(b.begin, Len(b.data))
                      /\ \A c \in reassembler.blocks :
                            b # c => EndOf(b) < c.begin \/ EndOf(c) < b.begin
    BY DEF BlocksSeparated
  <2>1. Blocks(reassembler.blocks, reassembler.head_index) BY DEF Inv, Sound
  <2>2. /\ b \in StreamBlock /\ reassembler.head_index < b.begin
        /\ reassembler.head_index \in Nat /\ Separate(reassembler.blocks)
    BY <2>1 DEF Blocks
  <2>3. b.begin \in Nat /\ b.data = Substring(b.begin, Len(b.data)) BY <2>2, BlockFacts
  <2>4. b.begin > reassembler.head_index BY <2>2, <2>3
  <2>5. \A c \in reassembler.blocks : b # c => EndOf(b) < c.begin \/ EndOf(c) < b.begin
    BY <2>2 DEF Separate, Gap
  <2> QED BY <2>3, <2>4, <2>5
<1> QED BY <1>1, InvAlways, PTL

LEMMA StoredIsCover == Stored = Cover(reassembler.blocks)
  BY DEF Stored, Cover, Span

\* What Orderly says of the blocks.
LEMMA OrderlyFacts ==
  ASSUME NEW r, Sound(r), Orderly(r)
  PROVE  /\ r.unassembled = Cardinality(Cover(r.blocks))
         /\ \A j \in Cover(r.blocks) : r.head_index <= j /\ j < r.output.readden + Capacity
         /\ r.output.input_end => r.output.written = StreamLen
<1> DEFINE a == AbsOf(r)
<1>1. /\ R!Tight(a, Capacity) /\ R!Exact(a) /\ R!ReassemblerOK(a, Capacity)
  BY DEF Orderly, Sound, AbsOK
<1>2. /\ DOMAIN a.stored = Cover(r.blocks) /\ a.unassembled = r.unassembled
      /\ a.head_index = r.head_index /\ a.output = r.output
  BY AbsFields
<1>3. r.output.written = r.head_index BY AbsOKFacts DEF Sound
<1> HIDE DEF a
<1>4. r.unassembled = Cardinality(Cover(r.blocks)) BY <1>1, <1>2, SameOperators DEF R!Exact
<1>5. \A j \in Cover(r.blocks) : r.head_index <= j
  BY <1>1, <1>2 DEF R!ReassemblerOK, R!StoreOK
<1>6. \A j \in Cover(r.blocks) : j < r.output.readden + Capacity
  BY <1>1, <1>2 DEF R!Tight
<1>7. r.output.input_end => r.output.written = StreamLen
  BY <1>1, <1>2, <1>3, SameOperators DEF R!Tight
<1> QED BY <1>4, <1>5, <1>6, <1>7

\* unassembled_bytes() counts each stored byte once if the peer keeps to the
\* window (the note of stream_reassembler.hh).
THEOREM UnassembledAlwaysExact == Spec => []UnassembledExact
<1>1. Inv => UnassembledExact BY OrderlyFacts, StoredIsCover DEF Inv, UnassembledExact
<1> QED BY <1>1, InvAlways, PTL

\* The bytes stored and the bytes unread fit the capacity together if the peer
\* keeps to the window (the note on the constructor).
THEOREM AlwaysWithinCapacity == Spec => []WithinCapacity
<1>1. Inv => WithinCapacity
  <2> SUFFICES ASSUME Inv, behaved
               PROVE  Cardinality(Stored) + Len(reassembler.output.buffer) <= Capacity
    BY DEF WithinCapacity
  <2> DEFINE h  == reassembler.head_index
             rd == reassembler.output.readden
             k  == Len(reassembler.output.buffer)
             S  == Cover(reassembler.blocks)
             hi == rd + Capacity - 1
  <2>1. Sound(reassembler) /\ Orderly(reassembler) BY DEF Inv
  <2>2. /\ \A j \in S : h <= j /\ j < rd + Capacity
        /\ Stored = S
    BY <2>1, OrderlyFacts, StoredIsCover
  <2>3. h \in Nat /\ rd \in Nat /\ k \in Nat /\ Capacity \in Nat /\ rd + k = h /\ k <= Capacity
    BY <2>1, StateFacts, AbsOKFacts, CapacityAssumption DEF Sound
  <2>4. S \in SUBSET Int
    <3>1. S \in SUBSET (0..(StreamLen - 1)) BY <2>1, StateFacts, CoverFinite DEF Sound
    <3> QED BY <3>1, StreamTypes
  <2> HIDE DEF h, rd, k, S, hi
  <2>5. S \in SUBSET (h..hi) /\ h \in Int /\ hi \in Int BY <2>2, <2>3, <2>4 DEF hi
  <2>6. /\ IsFiniteSet(h..hi)
        /\ Cardinality(h..hi) = IF h > hi THEN 0 ELSE hi - h + 1
    BY <2>5, FS_Interval
  <2>7. Cardinality(S) <= Cardinality(h..hi) BY <2>5, <2>6, FS_Subset
  <2>8. Cardinality(S) \in Nat BY <2>5, <2>6, FS_Subset, FS_CardinalityType
  <2>9. (IF h > hi THEN 0 ELSE hi - h + 1) + k <= Capacity BY <2>3 DEF hi
  <2>10. (IF h > hi THEN 0 ELSE hi - h + 1) \in Nat BY <2>5
  <2>11. Cardinality(S) + k <= Capacity BY <2>3, <2>6, <2>7, <2>8, <2>9, <2>10
  <2> QED BY <2>2, <2>11 DEF k
<1> QED BY <1>1, InvAlways, PTL

\* The output ends only after the last byte of the stream was written to it,
\* unless the end mark came without data and too early (the JUDGE_EOF label).
THEOREM EofAlwaysAtEnd == Spec => []EofOnlyAtEnd
<1>1. Inv => EofOnlyAtEnd BY OrderlyFacts DEF Inv, EofOnlyAtEnd
<1> QED BY <1>1, InvAlways, PTL

-----------------------------------------------------------------------------
\* The byte that AbsState picks for an index is the byte of the stream, from
\* whichever block it is taken.
PickedByte(bs, i) ==
    LET b == CHOOSE b \in bs : i \in b.begin..(EndOf(b) - 1)
    IN  b.data[i - b.begin + 1]

LEMMA PickedIsStream ==
  ASSUME NEW bs \in SUBSET StreamBlock, NEW i \in Cover(bs)
  PROVE  PickedByte(bs, i) = ByteAt(i)
<1>1. \E b \in bs : i \in b.begin..(EndOf(b) - 1) BY DEF Cover, Span
<1> DEFINE b == CHOOSE b \in bs : i \in b.begin..(EndOf(b) - 1)
<1>2. b \in bs /\ i \in b.begin..(EndOf(b) - 1) BY <1>1
<1>3. PickedByte(bs, i) = b.data[i - b.begin + 1] BY DEF PickedByte
<1> HIDE DEF b
<1> DEFINE x == b.begin
           n == Len(b.data)
           k == i - x + 1
<1>4. /\ x \in Nat /\ n \in Nat /\ EndOf(b) = x + n /\ x + n <= StreamLen
      /\ b.data = Substring(x, n)
  BY <1>2, BlockFacts
<1>5. i \in x..(x + n - 1) BY <1>2, <1>4
<1> HIDE DEF x, n
<1>6. k \in 1..n /\ x + k - 1 = i BY <1>4, <1>5
<1>7. Substring(x, n)[k] = ByteAt(x + k - 1) BY <1>4, <1>6, PieceOfStream
<1>8. b.data[k] = ByteAt(i) BY <1>4, <1>6, <1>7
<1> QED BY <1>3, <1>8 DEF x

\* The state the refinement mapping gives to the description.
Mapped(r) ==
    [ stored |-> [ i \in Cover(r.blocks) |-> PickedByte(r.blocks, i) ],
      unassembled |-> r.unassembled, head_index |-> r.head_index,
      eof_flag |-> r.eof_flag, output |-> r.output ]

LEMMA MappedIsAbs == ASSUME NEW r, Sound(r) PROVE Mapped(r) = AbsOf(r)
<1>1. r.blocks \in SUBSET StreamBlock BY StateFacts DEF Sound
<1>2. [ i \in Cover(r.blocks) |-> PickedByte(r.blocks, i) ]
        = [ i \in Cover(r.blocks) |-> ByteAt(i) ]
  BY <1>1, PickedIsStream
<1> QED BY <1>2 DEF Mapped, AbsOf

LEMMA AbsStateIsMapped ==
  /\ AbsState = Mapped(reassembler)
  /\ AbsState' = Mapped(reassembler')
<1>1. AbsState = Mapped(reassembler)
  BY ZenonT(30) DEF AbsState, Mapped, Stored, Cover, Span, PickedByte
<1>2. AbsState' = Mapped(reassembler')
  BY ZenonT(30) DEF AbsState, Mapped, Stored, Cover, Span, PickedByte
<1> QED BY <1>1, <1>2

\* The description that the refinement instantiates is the one proved about.
LEMMA SameDescription ==
  /\ Abs!NewReassembler = R!NewReassembler
  /\ \A r, c, d, i, b : Abs!push_substring(r, c, d, i, b) = R!push_substring(r, c, d, i, b)
  /\ \A r, n : Abs!PopOutput(r, n) = R!PopOutput(r, n)
  /\ \A i, n : Abs!Substring(i, n) = Substring(i, n)
  /\ \A i, n, b, w, e : Abs!MaySend(i, n, b, w, e) <=> MaySend(i, n, b, w, e)
  /\ Abs!StreamLen = StreamLen
<1>1. Abs!NewReassembler = R!NewReassembler
  BY DEF Abs!NewReassembler, R!NewReassembler, Abs!NewByteStream, R!NewByteStream
<1>2. \A r, b : Abs!JudgeEof(r, b) = R!JudgeEof(r, b)
  BY ZenonT(30) DEF Abs!JudgeEof, R!JudgeEof, Abs!empty, R!empty, Abs!end_input, R!end_input
<1>3. \A s, c, d : Abs!accepted(s, c, d) = R!accepted(s, c, d)
  BY ZenonT(30) DEF Abs!accepted, R!accepted, Abs!MinOf, R!MinOf,
               Abs!remaining_capacity, R!remaining_capacity
<1>4. \A s, c, d : Abs!write(s, c, d) = R!write(s, c, d)
  BY <1>3, ZenonT(30) DEF Abs!write, R!write
<1>5. \A S, h : Abs!RunEnd(S, h) = R!RunEnd(S, h)
  BY ZenonT(30) DEF Abs!RunEnd, R!RunEnd
<1>6. \A r, c : Abs!Assemble(r, c) = R!Assemble(r, c)
  BY <1>3, <1>4, <1>5, ZenonT(30) DEF Abs!Assemble, R!Assemble
<1>7. \A S : Abs!Cardinality(S) = R!Cardinality(S) BY DEF Abs!Cardinality, R!Cardinality
<1>8. \A a, b : Abs!MaxOf(a, b) = R!MaxOf(a, b) BY DEF Abs!MaxOf, R!MaxOf
<1>9. \A r, d, i : Abs!Store(r, d, i) = R!Store(r, d, i)
  BY <1>7, <1>8, ZenonT(30) DEF Abs!Store, R!Store
<1>10. \A r, c, d, i, b : Abs!push_substring(r, c, d, i, b) = R!push_substring(r, c, d, i, b)
  <2> TAKE r, c, d, i, b
  <2> DEFINE x == R!Store(r, d, i)
             z == R!Assemble(x, c)
  <2>1. Abs!Store(r, d, i) = x BY <1>9
  <2>2. Abs!Assemble(x, c) = z BY <1>6
  <2>3. Abs!JudgeEof(z, b) = R!JudgeEof(z, b) /\ Abs!JudgeEof(r, b) = R!JudgeEof(r, b)
    BY <1>2
  <2>4. Abs!push_substring(r, c, d, i, b)
          = IF i >= r.head_index + c THEN r
            ELSE IF i + Len(d) <= r.head_index THEN R!JudgeEof(r, b) ELSE R!JudgeEof(z, b)
    <3> HIDE DEF x, z
    <3> QED BY <2>1, <2>2, <2>3, ZenonT(30) DEF Abs!push_substring
  <2> QED BY <2>4, ZenonT(30) DEF R!push_substring
<1>11. \A r, n : Abs!PopOutput(r, n) = R!PopOutput(r, n)
  BY ZenonT(30) DEF Abs!PopOutput, R!PopOutput, Abs!pop_output, R!pop_output, Abs!MinOf, R!MinOf
<1>12. /\ \A i, n : Abs!Substring(i, n) = Substring(i, n)
       /\ Abs!StreamLen = StreamLen
  BY DEF Abs!Substring, Substring, Abs!StreamLen, StreamLen
<1>13. \A i, n, b, w, e : Abs!MaySend(i, n, b, w, e) <=> MaySend(i, n, b, w, e)
  BY <1>12, ZenonT(30) DEF Abs!MaySend, MaySend
<1> QED BY <1>1, <1>10, <1>11, <1>12, <1>13

\* Every step of the block list is a step of the description by indices or
\* leaves it alone: push_substring, with its merge loops, stores, assembles and
\* ends as ReassemblerSpec says.
THEOREM ReassemblerImplementsSpec == Spec => ImplementsSpec
<1>1. Init => Abs!Init
  <2> SUFFICES ASSUME Init PROVE Abs!Init OBVIOUS
  <2>1. reassembler = Empty BY DEF Init, Empty
  <2>2. AbsState = Abs!NewReassembler
    BY <2>1, EmptyFacts, MappedIsAbs, AbsStateIsMapped, SameDescription
  <2> QED BY <2>2 DEF Abs!Init
<1>2. Inv /\ Inv' /\ [Next]_vars => [Abs!Next]_AbsState
  <2> SUFFICES ASSUME Inv, Inv', [Next]_vars PROVE [Abs!Next]_AbsState OBVIOUS
  <2>1. Sound(reassembler) /\ Sound(reassembler') BY DEF Inv
  <2>2. AbsState = AbsOf(reassembler) /\ AbsState' = AbsOf(reassembler')
    BY <2>1, MappedIsAbs, AbsStateIsMapped
  <2>3. AbsState.output = reassembler.output BY <2>2, AbsFields
  <2>4. CASE UNCHANGED vars
    <3>1. reassembler' = reassembler BY <2>4 DEF vars
    <3> QED BY <2>2, <3>1
  <2>5. ASSUME NEW i \in 0..StreamLen, NEW n \in 0..StreamLen, NEW b \in BOOLEAN,
               PushSubstring(i, n, b)
        PROVE  Abs!Next
    <3>1. /\ reassembler' = push_substring(reassembler, Substring(i, n), i, b)
          /\ i + n <= StreamLen
          /\ MaySend(i, n, b, reassembler.output.written,
                     reassembler.output.readden + Capacity)
      BY <2>5 DEF PushSubstring, MaySend
    <3>2. i \in Nat /\ n \in Nat OBVIOUS
    <3>3. AbsState' = R!push_substring(AbsState, Capacity, Substring(i, n), i, b)
      BY <2>1, <2>2, <3>1, <3>2, PushRefines
    <3>4. AbsState' = Abs!push_substring(AbsState, Capacity, Abs!Substring(i, n), i, b)
      BY <3>3, SameDescription
    <3>5. Abs!MaySend(i, n, b, AbsState.output.written, AbsState.output.readden + Capacity)
      BY <2>3, <3>1, SameDescription
    <3>6. Abs!PushSubstring(i, n, b) BY <3>4, <3>5 DEF Abs!PushSubstring
    <3>7. i \in 0..Abs!StreamLen /\ n \in 0..Abs!StreamLen BY SameDescription
    <3> QED BY <3>6, <3>7 DEF Abs!Next
  <2>6. ASSUME NEW n \in 1..Capacity, ReadOutput(n) PROVE Abs!Next
    <3>1. /\ n <= Len(reassembler.output.buffer)
          /\ reassembler' = [ reassembler EXCEPT !.output = pop_output(@, n) ]
      BY <2>6 DEF ReadOutput
    <3>2. n \in Nat OBVIOUS
    <3>3. AbsState' = R!PopOutput(AbsState, n) BY <2>1, <2>2, <3>1, <3>2, PopRefines
    <3>4. Abs!ReadOutput(n) BY <2>3, <3>1, <3>3, SameDescription DEF Abs!ReadOutput
    <3> QED BY <3>4 DEF Abs!Next
  <2> QED BY <2>4, <2>5, <2>6 DEF Next
<1>3. Spec => Abs!Init /\ [][Abs!Next]_AbsState
  BY <1>1, <1>2, InvAlways, PTL DEF Spec
<1> QED BY <1>3, PTL DEF ImplementsSpec, Abs!Spec
=============================================================================
