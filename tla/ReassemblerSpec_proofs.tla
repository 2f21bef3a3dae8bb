----------------------- MODULE ReassemblerSpec_proofs -----------------------
(***************************************************************************)
(* Pushing any substring of the stream, and reading any number of bytes,   *)
(* preserves ReassemblerOK, for every stream and every capacity.           *)
(***************************************************************************)
EXTENDS ReassemblerInvariant, FiniteSetTheorems, CommonLemmas

\* The stream has a natural length, and a substring of it is a sequence of as
\* many bytes, each of them the byte of the stream at its place.
LEMMA SubstringFacts ==
  ASSUME NEW i \in Nat, NEW n \in Nat, i + n <= StreamLen
  PROVE  /\ Substring(i, n) \in Seq(Byte)
         /\ Len(Substring(i, n)) = n
         /\ \A k \in 1..n : Substring(i, n)[k] = ByteAt(i + k - 1)
<1>1. Stream \in Seq(Byte) /\ Len(Stream) \in Nat /\ \A k \in 1..Len(Stream) : Stream[k] \in Byte
  BY StreamAssumption, LenProperties, ElementOfSeq
<1>2. \A k \in (i + 1)..(i + n) : Stream[k] \in Byte
  BY <1>1 DEF StreamLen
<1>3. /\ SubSeq(Stream, i + 1, i + n) \in Seq(Byte)
      /\ Len(SubSeq(Stream, i + 1, i + n)) = IF i + 1 <= i + n THEN (i + n) - (i + 1) + 1 ELSE 0
      /\ \A k \in 1..((i + n) - (i + 1) + 1) :
            SubSeq(Stream, i + 1, i + n)[k] = Stream[(i + 1) + k - 1]
  BY <1>2, SubSeqProperties
<1> QED BY <1>3 DEF Substring, ByteAt

\* The stream is a sequence of bytes and its length a natural number.
LEMMA StreamLenType == StreamLen \in Nat /\ Stream \in Seq(Byte)
  BY StreamAssumption, LenProperties DEF StreamLen

\* Two adjacent substrings make one.
LEMMA SubstringConcat ==
  ASSUME NEW i \in Nat, NEW m \in Nat, NEW n \in Nat, i + m + n <= StreamLen
  PROVE  Substring(i, m) \o Substring(i + m, n) = Substring(i, m + n)
<1>1. StreamLen \in Nat /\ Stream \in Seq(Byte) /\ Len(Stream) = StreamLen
  BY StreamLenType DEF StreamLen
<1>2. /\ i + 1 \in 1..(Len(Stream) + 1)
      /\ i + m \in (i + 1) - 1..Len(Stream)
      /\ i + m + n \in (i + m)..Len(Stream)
  BY <1>1
<1>3. SubSeq(Stream, i + 1, i + m) \o SubSeq(Stream, (i + m) + 1, i + m + n)
        = SubSeq(Stream, i + 1, i + m + n)
  BY <1>1, <1>2, ConcatAdjacentSubSeq
<1>4. i + m + n = i + (m + n) /\ (i + m) + n = i + m + n BY <1>1
<1> QED BY <1>3, <1>4 DEF Substring

\* A part of a substring is a substring.
LEMMA SubstringPart ==
  ASSUME NEW i \in Nat, NEW n \in Nat, i + n <= StreamLen, NEW a \in 0..n, NEW b \in a..n
  PROVE  SubSeq(Substring(i, n), a + 1, b) = Substring(i + a, b - a)
<1>1. SubSeq(SubSeq(Stream, i + 1, i + n), a + 1, b) = SubSeq(Stream, i + a + 1, i + b)
  BY StreamAssumption, PieceOfPiece DEF StreamLen
<1>2. i + a + 1 = (i + a) + 1 /\ i + b = (i + a) + (b - a) OBVIOUS
<1> QED BY <1>1, <1>2 DEF Substring

-----------------------------------------------------------------------------
\* The run of stored bytes at h ends at the first index that is not stored.
LEMMA RunEndFacts ==
  ASSUME NEW n \in Nat, NEW S \in SUBSET (0..(n - 1)), NEW h \in S
  PROVE  LET e == RunEnd(S, h)
         IN  /\ e \in Nat /\ h < e /\ e <= n /\ e \notin S
             /\ \A i \in h..(e - 1) : i \in S
<1>1. RunEnd(S, h) = FirstGap(S, h) BY DEF RunEnd, FirstGap
<1> QED BY <1>1, FirstGapFacts

\* A set of stored indices is finite.
LEMMA StoredFinite ==
  ASSUME NEW S \in SUBSET (0..(StreamLen - 1))
  PROVE  IsFiniteSet(S) /\ Cardinality(S) \in Nat
<1>1. IsFiniteSet(0..(StreamLen - 1)) BY StreamLenType, FS_Interval
<1> QED BY <1>1, FS_Subset, FS_CardinalityType

\* What is known of the fields of a record in ReassemblerType.
LEMMA TypeFacts ==
  ASSUME NEW r \in ReassemblerType
  PROVE  /\ DOMAIN r.stored \in SUBSET (0..(StreamLen - 1))
         /\ r.stored = [ i \in DOMAIN r.stored |-> ByteAt(i) ]
         /\ r.unassembled \in Nat /\ r.head_index \in 0..StreamLen
         /\ r.eof_flag \in BOOLEAN
         /\ r.output \in ByteStreamType(Byte)
         /\ r.output.buffer \in Seq(Byte) /\ Len(r.output.buffer) \in Nat
         /\ r.output.written \in Nat /\ r.output.readden \in Nat
<1>1. PICK S \in SUBSET (0..(StreamLen - 1)) : r.stored = [ i \in S |-> ByteAt(i) ]
  BY DEF ReassemblerType, PartialStream
<1>2. DOMAIN r.stored = S BY <1>1
<1>3. r.output \in ByteStreamType(Byte) BY DEF ReassemblerType
<1>4. r.output.buffer \in Seq(Byte) BY <1>3 DEF ByteStreamType
<1>5. Len(r.output.buffer) \in Nat BY <1>4, LenProperties
<1>6. /\ r.unassembled \in Nat /\ r.head_index \in 0..StreamLen
      /\ r.eof_flag \in BOOLEAN
  BY DEF ReassemblerType
<1>7. r.output.written \in Nat /\ r.output.readden \in Nat
  BY <1>3 DEF ByteStreamType
<1> QED BY <1>1, <1>2, <1>3, <1>4, <1>5, <1>6, <1>7

-----------------------------------------------------------------------------
\* The records that the updates of ReassemblerSpec and ByteStream build, field
\* by field.
LEMMA UpdateStore ==
  ASSUME NEW r \in ReassemblerType, NEW s, NEW u
  PROVE  [ r EXCEPT !.stored = s, !.unassembled = u ]
           = [ stored |-> s, unassembled |-> u, head_index |-> r.head_index,
               eof_flag |-> r.eof_flag, output |-> r.output ]
<1> DEFINE a == [ r EXCEPT !.stored = s ]
<1>1. a = [ stored |-> s, unassembled |-> r.unassembled, head_index |-> r.head_index,
            eof_flag |-> r.eof_flag, output |-> r.output ]
  BY DEF ReassemblerType
<1>2. [ r EXCEPT !.stored = s, !.unassembled = u ] = [ a EXCEPT !.unassembled = u ] OBVIOUS
<1> HIDE DEF a
<1>3. [ a EXCEPT !.unassembled = u ]
         = [ stored |-> s, unassembled |-> u, head_index |-> r.head_index,
             eof_flag |-> r.eof_flag, output |-> r.output ]
  BY <1>1
<1> QED BY <1>2, <1>3

\* The update of Assemble, for bytes moved from the store to the output.
LEMMA UpdateAssembled ==
  ASSUME NEW r \in ReassemblerType, NEW o, NEW h, NEW u, NEW s
  PROVE  [ r EXCEPT !.output = o, !.head_index = h, !.unassembled = u, !.stored = s ]
           = [ stored |-> s, unassembled |-> u, head_index |-> h,
               eof_flag |-> r.eof_flag, output |-> o ]
<1> DEFINE a == [ r EXCEPT !.output = o ]
           b == [ a EXCEPT !.head_index = h ]
           c == [ b EXCEPT !.unassembled = u ]
<1>1. a = [ stored |-> r.stored, unassembled |-> r.unassembled, head_index |-> r.head_index,
            eof_flag |-> r.eof_flag, output |-> o ]
  BY DEF ReassemblerType
<1>2. [ r EXCEPT !.output = o, !.head_index = h, !.unassembled = u, !.stored = s ]
        = [ c EXCEPT !.stored = s ]
  OBVIOUS
<1> HIDE DEF a
<1>3. b = [ stored |-> r.stored, unassembled |-> r.unassembled, head_index |-> h,
            eof_flag |-> r.eof_flag, output |-> o ]
  BY <1>1
<1> HIDE DEF b
<1>4. c = [ stored |-> r.stored, unassembled |-> u, head_index |-> h,
            eof_flag |-> r.eof_flag, output |-> o ]
  BY <1>3
<1> HIDE DEF c
<1>5. [ c EXCEPT !.stored = s ] = [ stored |-> s, unassembled |-> u, head_index |-> h,
                                    eof_flag |-> r.eof_flag, output |-> o ]
  BY <1>4
<1> QED BY <1>2, <1>5

\* The update of JudgeEof.
LEMMA UpdateEof ==
  ASSUME NEW r \in ReassemblerType, NEW f, NEW o
  PROVE  [ r EXCEPT !.eof_flag = f, !.output = o ]
           = [ stored |-> r.stored, unassembled |-> r.unassembled,
               head_index |-> r.head_index, eof_flag |-> f, output |-> o ]
<1> DEFINE a == [ r EXCEPT !.eof_flag = f ]
<1>1. a = [ stored |-> r.stored, unassembled |-> r.unassembled, head_index |-> r.head_index,
            eof_flag |-> f, output |-> r.output ]
  BY DEF ReassemblerType
<1>2. [ r EXCEPT !.eof_flag = f, !.output = o ] = [ a EXCEPT !.output = o ] OBVIOUS
<1> HIDE DEF a
<1>3. [ a EXCEPT !.output = o ]
         = [ stored |-> r.stored, unassembled |-> r.unassembled,
             head_index |-> r.head_index, eof_flag |-> f, output |-> o ]
  BY <1>1
<1> QED BY <1>2, <1>3

\* The update of the calls on the output stream alone.
LEMMA UpdateOutput ==
  ASSUME NEW r \in ReassemblerType, NEW o
  PROVE  [ r EXCEPT !.output = o ]
           = [ stored |-> r.stored, unassembled |-> r.unassembled,
               head_index |-> r.head_index, eof_flag |-> r.eof_flag, output |-> o ]
  BY DEF ReassemblerType

\* The update of ByteStream::write.
LEMMA UpdateWritten ==
  ASSUME NEW s \in ByteStreamType(Byte), NEW n, NEW b
  PROVE  [ s EXCEPT !.written = n, !.buffer = b ]
           = [ buffer |-> b, written |-> n, readden |-> s.readden,
               input_end |-> s.input_end, error |-> s.error ]
<1> DEFINE a == [ s EXCEPT !.written = n ]
<1>1. a = [ buffer |-> s.buffer, written |-> n, readden |-> s.readden,
            input_end |-> s.input_end, error |-> s.error ]
  BY DEF ByteStreamType
<1>2. [ s EXCEPT !.written = n, !.buffer = b ] = [ a EXCEPT !.buffer = b ] OBVIOUS
<1> HIDE DEF a
<1>3. [ a EXCEPT !.buffer = b ]
        = [ buffer |-> b, written |-> n, readden |-> s.readden,
            input_end |-> s.input_end, error |-> s.error ]
  BY <1>1
<1> QED BY <1>2, <1>3

\* The update of ByteStream::pop_output.
LEMMA UpdateReadden ==
  ASSUME NEW s \in ByteStreamType(Byte), NEW n, NEW b
  PROVE  [ s EXCEPT !.readden = n, !.buffer = b ]
           = [ buffer |-> b, written |-> s.written, readden |-> n,
               input_end |-> s.input_end, error |-> s.error ]
<1> DEFINE a == [ s EXCEPT !.readden = n ]
<1>1. a = [ buffer |-> s.buffer, written |-> s.written, readden |-> n,
            input_end |-> s.input_end, error |-> s.error ]
  BY DEF ByteStreamType
<1>2. [ s EXCEPT !.readden = n, !.buffer = b ] = [ a EXCEPT !.buffer = b ] OBVIOUS
<1> HIDE DEF a
<1>3. [ a EXCEPT !.buffer = b ]
        = [ buffer |-> b, written |-> s.written, readden |-> n,
            input_end |-> s.input_end, error |-> s.error ]
  BY <1>1
<1> QED BY <1>2, <1>3

\* The update of ByteStream::end_input.
LEMMA UpdateEnd ==
  ASSUME NEW s \in ByteStreamType(Byte), NEW v
  PROVE  [ s EXCEPT !.input_end = v ]
           = [ buffer |-> s.buffer, written |-> s.written, readden |-> s.readden,
               input_end |-> v, error |-> s.error ]
  BY DEF ByteStreamType

\* Ending the input changes nothing else of a stream.
LEMMA EndInputFacts ==
  ASSUME NEW s \in ByteStreamType(Byte)
  PROVE  /\ end_input(s) \in ByteStreamType(Byte)
         /\ end_input(s).buffer = s.buffer
         /\ end_input(s).written = s.written
         /\ end_input(s).readden = s.readden
<1>1. end_input(s) = [ buffer |-> s.buffer, written |-> s.written, readden |-> s.readden,
                       input_end |-> TRUE, error |-> s.error ]
  BY UpdateEnd DEF end_input
<1>2. /\ s.buffer \in Seq(Byte) /\ s.written \in Nat /\ s.readden \in Nat
      /\ s.error \in BOOLEAN /\ TRUE \in BOOLEAN
  BY DEF ByteStreamType
<1> QED BY <1>1, <1>2 DEF ByteStreamType

\* The cardinality of a union, by what it adds.
LEMMA CardinalityAdded ==
  ASSUME NEW A, NEW B, IsFiniteSet(A), IsFiniteSet(B \ A)
  PROVE  Cardinality(A \cup B) = Cardinality(A) + Cardinality(B \ A)
<1>1. A \cup B = A \cup (B \ A) /\ A \cap (B \ A) = {} OBVIOUS
<1>2. Cardinality(A \cup (B \ A)) =
        Cardinality(A) + Cardinality(B \ A) - Cardinality(A \cap (B \ A))
  BY FS_Union
<1>3. Cardinality({}) = 0 BY FS_EmptySet
<1>4. Cardinality(A) \in Nat /\ Cardinality(B \ A) \in Nat BY FS_CardinalityType
<1>5. Cardinality(A \cap (B \ A)) = 0 BY <1>1, <1>3
<1>6. Cardinality(A \cup (B \ A)) = Cardinality(A) + Cardinality(B \ A) BY <1>2, <1>4, <1>5
<1> QED BY <1>1, <1>6

-----------------------------------------------------------------------------
\* Store keeps bytes of the stream only, none below the head, and counts every
\* new one.
LEMMA StorePreserves ==
  ASSUME NEW capacity \in Nat, NEW r \in ReassemblerType, ReassemblerOK(r, capacity),
         NEW i \in Nat, NEW n \in Nat, i + n <= StreamLen
  PROVE  /\ Store(r, Substring(i, n), i) \in ReassemblerType
         /\ ReassemblerOK(Store(r, Substring(i, n), i), capacity)
<1> DEFINE data == Substring(i, n)
           old  == DOMAIN r.stored
           new  == MaxOf(i, r.head_index)..(i + Len(data) - 1)
           keep == [ j \in old \cup new |->
                       IF j \in old THEN r.stored[j] ELSE data[j - i + 1] ]
           t    == Store(r, data, i)
<1>1. /\ StreamLen \in Nat
      /\ old \in SUBSET (0..(StreamLen - 1))
      /\ r.stored = [ j \in old |-> ByteAt(j) ]
      /\ r.unassembled \in Nat /\ r.head_index \in 0..StreamLen
  BY StreamLenType, TypeFacts
<1>2. Len(data) = n /\ \A k \in 1..n : data[k] = ByteAt(i + k - 1)
  BY SubstringFacts
<1> HIDE DEF data
<1>3. MaxOf(i, r.head_index) \in Nat /\ MaxOf(i, r.head_index) >= i
        /\ MaxOf(i, r.head_index) >= r.head_index
  BY <1>1 DEF MaxOf
<1>4. new \subseteq 0..(StreamLen - 1) /\ \A j \in new : r.head_index <= j /\ i <= j /\ j < i + n
  BY <1>1, <1>2, <1>3, SMTT(30)
<1>5. \A j \in new : data[j - i + 1] = ByteAt(j)
  <2> TAKE j \in new
  <2>1. j \in Int /\ j - i + 1 \in 1..n BY <1>1, <1>4
  <2>2. data[j - i + 1] = ByteAt(i + (j - i + 1) - 1) BY <1>2, <2>1
  <2>3. i + (j - i + 1) - 1 = j BY <2>1
  <2> QED BY <2>2, <2>3
<1> HIDE DEF new
<1>6. keep = [ j \in old \cup new |-> ByteAt(j) ]
  <2>1. \A j \in old : r.stored[j] = ByteAt(j) BY <1>1
  <2>2. \A j \in old \cup new : (IF j \in old THEN r.stored[j] ELSE data[j - i + 1]) = ByteAt(j)
    BY <1>5, <2>1
  <2> QED BY <2>2
<1>7. old \cup new \in SUBSET (0..(StreamLen - 1)) BY <1>1, <1>4
<1>8. /\ IsFiniteSet(old) /\ Cardinality(old) \in Nat
      /\ IsFiniteSet(new \ old) /\ Cardinality(new \ old) \in Nat
  <2>1. new \ old \in SUBSET (0..(StreamLen - 1)) BY <1>4
  <2> QED BY <1>1, <2>1, StoredFinite
<1>9. Cardinality(old \cup new) = Cardinality(old) + Cardinality(new \ old)
  BY <1>8, CardinalityAdded
<1>10. t = [ stored |-> keep, unassembled |-> r.unassembled + Cardinality(new \ old),
             head_index |-> r.head_index, eof_flag |-> r.eof_flag, output |-> r.output ]
  <2>1. t = [ r EXCEPT !.stored = keep, !.unassembled = r.unassembled + Cardinality(new \ old) ]
    BY DEF Store, new
  <2> HIDE DEF t, keep
  <2> QED BY <2>1, UpdateStore
<1> HIDE DEF t, keep
<1>11. /\ keep \in PartialStream /\ DOMAIN keep = old \cup new
  BY <1>6, <1>7 DEF PartialStream
<1>12. t \in ReassemblerType
  BY <1>1, <1>8, <1>10, <1>11 DEF ReassemblerType
<1>13. /\ t.stored = keep /\ t.unassembled = r.unassembled + Cardinality(new \ old)
       /\ t.head_index = r.head_index /\ t.output = r.output
  BY <1>10
<1>14. OutputOK(t, capacity) BY <1>13 DEF OutputOK, ReassemblerOK
<1>15. StoreOK(t)
  <2>1. \A j \in old : r.head_index <= j BY DEF ReassemblerOK, StoreOK
  <2>2. Cardinality(old) <= r.unassembled BY DEF ReassemblerOK, StoreOK
  <2>3. \A j \in DOMAIN t.stored : t.head_index <= j BY <1>4, <1>11, <1>13, <2>1
  <2>4. Cardinality(DOMAIN t.stored) <= t.unassembled
    BY <1>1, <1>8, <1>9, <1>11, <1>13, <2>2
  <2> QED BY <2>3, <2>4 DEF StoreOK
<1> QED BY <1>12, <1>14, <1>15 DEF ReassemblerOK, t, data

\* A prefix of the run of m bytes that follows b continues b.
LEMMA AppendRun ==
  ASSUME NEW rd \in Nat, NEW b \in Seq(Byte), b = Substring(rd, Len(b)),
         NEW m \in Nat, rd + Len(b) + m <= StreamLen, NEW len \in 0..m
  PROVE  /\ b \o SubSeq(Substring(rd + Len(b), m), 1, len) = Substring(rd, Len(b) + len)
         /\ Substring(rd, Len(b) + len) \in Seq(Byte)
         /\ Len(Substring(rd, Len(b) + len)) = Len(b) + len
<1> DEFINE k == Len(b)
<1>1. StreamLen \in Nat /\ k \in Nat BY StreamLenType, LenProperties
<1> HIDE DEF k
<1>2. rd + k + m <= StreamLen BY DEF k
<1>3. SubSeq(Substring(rd + k, m), 1, len) = Substring(rd + k, len)
  <2>1. rd + k \in Nat /\ (rd + k) + m <= StreamLen BY <1>1, <1>2
  <2>2. 0 \in 0..m /\ len \in 0..m OBVIOUS
  <2>3. SubSeq(Substring(rd + k, m), 0 + 1, len) = Substring((rd + k) + 0, len - 0)
    BY <2>1, <2>2, SubstringPart
  <2>4. 0 + 1 = 1 /\ (rd + k) + 0 = rd + k /\ len - 0 = len BY <1>1
  <2> QED BY <2>3, <2>4
<1>4. rd + k + len <= StreamLen BY <1>1, <1>2
<1>5. Substring(rd, k) \o Substring(rd + k, len) = Substring(rd, k + len)
  <2>1. len \in Nat OBVIOUS
  <2> QED BY <1>1, <1>4, <2>1, SubstringConcat
<1>6. k + len \in Nat /\ rd + (k + len) <= StreamLen BY <1>1, <1>4
<1>7. Substring(rd, k + len) \in Seq(Byte) /\ Len(Substring(rd, k + len)) = k + len
  BY <1>6, SubstringFacts
<1> QED BY <1>3, <1>5, <1>7 DEF k

\* Writing bytes of the stream that begin where the output ends appends them.
LEMMA WriteAppends ==
  ASSUME NEW capacity \in Nat, NEW s \in ByteStreamType(Byte),
         s.readden + Len(s.buffer) = s.written,
         s.buffer = Substring(s.readden, Len(s.buffer)),
         Len(s.buffer) <= capacity,
         NEW m \in Nat, s.written + m <= StreamLen
  PROVE  LET run == Substring(s.written, m)
             o   == write(s, capacity, run)
         IN  /\ accepted(s, capacity, run) \in 0..m
             /\ o \in ByteStreamType(Byte)
             /\ o.written = s.written + accepted(s, capacity, run)
             /\ o.readden + Len(o.buffer) = o.written
             /\ o.buffer = Substring(o.readden, Len(o.buffer))
             /\ Len(o.buffer) <= capacity
<1> DEFINE run == Substring(s.written, m)
           len == accepted(s, capacity, run)
           o   == write(s, capacity, run)
           b   == s.buffer
           rd  == s.readden
           w   == s.written
           nb  == b \o SubSeq(run, 1, len)
<1>1. /\ b \in Seq(Byte) /\ w \in Nat /\ rd \in Nat
      /\ s.input_end \in BOOLEAN /\ s.error \in BOOLEAN
  BY DEF ByteStreamType
<1>2. Len(b) \in Nat BY <1>1, LenProperties
<1>3. o = [ buffer |-> nb, written |-> w + len, readden |-> rd,
            input_end |-> s.input_end, error |-> s.error ]
  <2>1. o = [ s EXCEPT !.written = w + len, !.buffer = nb ] BY DEF write
  <2> HIDE DEF o, nb, len
  <2> QED BY <2>1, UpdateWritten
<1>4. len = MinOf(Len(run), capacity - Len(b)) BY DEF accepted, remaining_capacity
<1>5. rd + Len(b) = w /\ b = Substring(rd, Len(b)) /\ Len(b) <= capacity /\ w + m <= StreamLen
  OBVIOUS
<1> HIDE DEF b, rd, w, o, len, nb
<1>6. Len(run) = m BY <1>1, <1>5, SubstringFacts DEF w
<1> HIDE DEF run
<1>7. len \in 0..m /\ Len(b) + len <= capacity
  BY <1>2, <1>4, <1>5, <1>6 DEF MinOf
<1>8. /\ nb = Substring(rd, Len(b) + len)
      /\ nb \in Seq(Byte) /\ Len(nb) = Len(b) + len
  <2>1. run = Substring(rd + Len(b), m) BY <1>5 DEF run, w
  <2>2. rd + Len(b) + m <= StreamLen BY <1>5
  <2>3. b = Substring(rd, Len(b)) /\ len \in 0..m BY <1>5, <1>7
  <2>4. /\ b \o SubSeq(Substring(rd + Len(b), m), 1, len) = Substring(rd, Len(b) + len)
        /\ Substring(rd, Len(b) + len) \in Seq(Byte)
        /\ Len(Substring(rd, Len(b) + len)) = Len(b) + len
    BY <1>1, <2>2, <2>3, AppendRun
  <2>5. nb = Substring(rd, Len(b) + len) BY <2>1, <2>4 DEF nb
  <2> HIDE DEF nb
  <2> QED BY <2>4, <2>5
<1>9. o.buffer = nb /\ o.written = w + len /\ o.readden = rd BY <1>3
<1>10. o \in ByteStreamType(Byte)
  <2>1. w + len \in Nat BY <1>1, <1>7
  <2> QED BY <1>1, <1>3, <1>8, <2>1 DEF ByteStreamType
<1>11. o.readden + Len(o.buffer) = o.written BY <1>1, <1>2, <1>5, <1>7, <1>8, <1>9, SMTT(30)
<1>12. o.buffer = Substring(o.readden, Len(o.buffer)) BY <1>8, <1>9
<1>13. Len(o.buffer) <= capacity BY <1>7, <1>8, <1>9
<1> QED BY <1>7, <1>9, <1>10, <1>11, <1>12, <1>13 DEF o, run, len, w

-----------------------------------------------------------------------------
\* The stored indices split into the run at the head and what lies above it.
Above(S, e) == { j \in S : j >= e }

Splits(S, h, e, n) ==
    /\ Above(S, e) \in SUBSET (0..(n - 1))
    /\ \A j \in Above(S, e) : j \in Nat /\ e <= j
    /\ S = Above(S, e) \cup (h..(e - 1))
    /\ (h..(e - 1)) \ Above(S, e) = h..(e - 1)

\* A run of stored indices from h to e - 1, with nothing stored below h,
\* splits the store into the run and what lies above it.
LEMMA RunSplits ==
  ASSUME NEW n \in Nat, NEW S \in SUBSET (0..(n - 1)), NEW h \in Nat, NEW e \in Nat,
         h < e, \A i \in S : h <= i, \A i \in h..(e - 1) : i \in S
  PROVE  Splits(S, h, e, n)
<1>1. Above(S, e) \in SUBSET (0..(n - 1)) BY DEF Above
<1>2. \A j \in Above(S, e) : j \in Nat /\ e <= j BY DEF Above
<1>3. \A j : j \in S => j \in Above(S, e) \cup (h..(e - 1))
  <2> SUFFICES ASSUME NEW j \in S PROVE j \in Above(S, e) \cup (h..(e - 1)) OBVIOUS
  <2>1. j \in Int /\ h <= j OBVIOUS
  <2>2. CASE j >= e BY <2>2 DEF Above
  <2>3. CASE ~(j >= e) BY <2>1, <2>3
  <2> QED BY <2>2, <2>3
<1>4. \A j : j \in Above(S, e) \cup (h..(e - 1)) => j \in S BY DEF Above
<1>5. \A j \in h..(e - 1) : j \notin Above(S, e) BY <1>2
<1> QED BY <1>1, <1>2, <1>3, <1>4, <1>5 DEF Splits

\* Assemble writes a run of stored bytes: the output stays a substring, the
\* run leaves the store, and the count covers what remains.
LEMMA AssemblePreserves ==
  ASSUME NEW capacity \in Nat, NEW r \in ReassemblerType, ReassemblerOK(r, capacity)
  PROVE  /\ Assemble(r, capacity) \in ReassemblerType
         /\ ReassemblerOK(Assemble(r, capacity), capacity)
<1> DEFINE S == DOMAIN r.stored
           h == r.head_index
<1>1. CASE h \notin S BY <1>1 DEF Assemble
<1>2. CASE h \in S
  <2> DEFINE e    == RunEnd(S, h)
             run  == [ k \in 1..(e - h) |-> r.stored[h + k - 1] ]
             len  == accepted(r.output, capacity, run)
             o    == write(r.output, capacity, run)
             rest == { j \in S : j >= e }
             keep == [ i \in rest |-> r.stored[i] ]
             u    == r.unassembled - len
             t    == Assemble(r, capacity)
  <2>1. t = [ stored |-> keep, unassembled |-> u, head_index |-> h + len,
              eof_flag |-> r.eof_flag, output |-> o ]
    <3>1. t = [ r EXCEPT !.output = o, !.head_index = h + len, !.unassembled = u,
                         !.stored = keep ]
      BY <1>2 DEF Assemble
    <3> HIDE DEF t, o, u, keep, len
    <3> QED BY <3>1, UpdateAssembled
  <2>2. /\ StreamLen \in Nat /\ S \in SUBSET (0..(StreamLen - 1))
        /\ r.stored = [ i \in S |-> ByteAt(i) ]
        /\ r.unassembled \in Nat /\ h \in 0..StreamLen /\ r.eof_flag \in BOOLEAN
        /\ r.output \in ByteStreamType(Byte)
    BY StreamLenType, TypeFacts
  <2>3. /\ e \in Nat /\ h < e /\ e <= StreamLen /\ e \notin S
        /\ \A i \in h..(e - 1) : i \in S
    BY <1>2, <2>2, RunEndFacts
  <2>4. /\ r.output.written = h
        /\ r.output.readden + Len(r.output.buffer) = r.output.written
        /\ r.output.buffer = Substring(r.output.readden, Len(r.output.buffer))
        /\ Len(r.output.buffer) <= capacity
        /\ \A i \in S : h <= i
        /\ Cardinality(S) <= r.unassembled
    BY DEF ReassemblerOK, OutputOK, StoreOK
  <2> DEFINE str == r.stored
             una == r.unassembled
             out == r.output
  <2>5. /\ run = [ k \in 1..(e - h) |-> str[h + k - 1] ]
        /\ keep = [ i \in rest |-> str[i] ]
        /\ u = una - len
    OBVIOUS
  <2> HIDE DEF S, h, e, run, len, o, rest, keep, u, t, str, una, out
  <2>6. run = Substring(h, e - h)
    <3> DEFINE m == e - h
               q == Substring(h, m)
    <3>1. m \in Nat /\ h \in Nat /\ h + m <= StreamLen BY <2>2, <2>3
    <3>2. q \in Seq(Byte) /\ Len(q) = m /\ \A k \in 1..m : q[k] = ByteAt(h + k - 1)
      BY <3>1, SubstringFacts
    <3>3. q = [ k \in 1..m |-> q[k] ] BY <3>2
    <3>4. \A k \in 1..m : str[h + k - 1] = ByteAt(h + k - 1)
      <4> TAKE k \in 1..m
      <4>1. h + k - 1 \in h..(e - 1) BY <2>2, <2>3
      <4>2. h + k - 1 \in S BY <2>3, <4>1
      <4> QED BY <2>2, <4>2 DEF str
    <3> HIDE DEF m, q
    <3>5. run = [ k \in 1..m |-> str[h + k - 1] ] BY <2>5 DEF m
    <3>6. run = [ k \in 1..m |-> q[k] ] BY <3>2, <3>4, <3>5
    <3> QED BY <3>3, <3>6 DEF q, m
  <2>7. /\ len \in 0..(e - h)
        /\ o \in ByteStreamType(Byte)
        /\ o.written = h + len
        /\ o.readden + Len(o.buffer) = o.written
        /\ o.buffer = Substring(o.readden, Len(o.buffer))
        /\ Len(o.buffer) <= capacity
    <3>1. e - h \in Nat /\ out.written + (e - h) <= StreamLen BY <2>2, <2>3, <2>4 DEF out
    <3>2. /\ out \in ByteStreamType(Byte)
          /\ out.readden + Len(out.buffer) = out.written
          /\ out.buffer = Substring(out.readden, Len(out.buffer))
          /\ Len(out.buffer) <= capacity /\ out.written = h
      BY <2>2, <2>4 DEF out
    <3>3. len = accepted(out, capacity, Substring(out.written, e - h))
          /\ o = write(out, capacity, Substring(out.written, e - h))
      BY <2>6, <3>2 DEF len, o, out
    <3> QED BY <3>1, <3>2, <3>3, WriteAppends
  <2>a. /\ StreamLen \in Nat /\ S \in SUBSET (0..(StreamLen - 1)) /\ h \in Nat
        /\ \A i \in S : h <= i
    BY <2>2, <2>4
  <2>b. /\ rest \in SUBSET (0..(StreamLen - 1))
        /\ \A j \in rest : j \in Nat /\ e <= j
        /\ S = rest \cup (h..(e - 1))
        /\ (h..(e - 1)) \ rest = h..(e - 1)
    <3>1. rest = Above(S, e) BY DEF rest, Above
    <3>2. /\ e \in Nat /\ h < e /\ (\A i \in h..(e - 1) : i \in S)
          /\ StreamLen \in Nat /\ S \in SUBSET (0..(StreamLen - 1))
          /\ h \in Nat /\ (\A i \in S : h <= i)
      BY <2>3, <2>a
    <3>3. Splits(S, h, e, StreamLen) BY <3>2, RunSplits
    <3> HIDE DEF rest
    <3> QED BY <3>1, <3>3 DEF Splits
  <2>c. len \in 0..(e - h) BY <2>7
  <2>8. rest \in SUBSET (0..(StreamLen - 1)) /\ \A j \in rest : h + len <= j
    <3>1. len \in Nat /\ h + len <= e BY <2>3, <2>a, <2>c
    <3> QED BY <2>3, <2>a, <2>b, <3>1
  <2>9. keep \in PartialStream /\ DOMAIN keep = rest
    <3>1. \A j \in rest : str[j] = ByteAt(j) BY <2>2 DEF rest, str
    <3>2. keep = [ j \in rest |-> ByteAt(j) ] BY <2>5, <3>1
    <3> QED BY <2>8, <3>2 DEF PartialStream
  <2>10. Cardinality(rest) <= u /\ u \in Nat
    <3> DEFINE gone == h..(e - 1)
    <3>1. S = rest \cup gone /\ gone \ rest = gone
      BY <2>b
    <3>2. IsFiniteSet(rest) /\ Cardinality(rest) \in Nat BY <2>8, StoredFinite
    <3>3. IsFiniteSet(gone) /\ Cardinality(gone) = e - h
      <4>1. h \in Int /\ e - 1 \in Int /\ h <= e - 1 BY <2>2, <2>3
      <4>2. Cardinality(gone) = (e - 1) - h + 1 /\ IsFiniteSet(gone) BY <4>1, FS_Interval
      <4> QED BY <2>2, <2>3, <4>2
    <3> HIDE DEF gone
    <3>4. Cardinality(S) = Cardinality(rest) + Cardinality(gone)
      BY <3>1, <3>2, <3>3, CardinalityAdded
    <3>5. Cardinality(S) <= una /\ una \in Nat BY <2>2, <2>4 DEF una
    <3> QED BY <2>2, <2>3, <2>5, <2>7, <3>2, <3>3, <3>4, <3>5
  <2>11. h + len \in 0..StreamLen BY <2>2, <2>3, <2>7
  <2>12. t \in ReassemblerType
    BY <2>1, <2>2, <2>7, <2>9, <2>10, <2>11 DEF ReassemblerType
  <2>13. /\ t.stored = keep /\ t.unassembled = u /\ t.head_index = h + len /\ t.output = o
    BY <2>1
  <2>14. OutputOK(t, capacity) BY <2>7, <2>13 DEF OutputOK
  <2>15. StoreOK(t) BY <2>8, <2>9, <2>10, <2>13 DEF StoreOK
  <2> QED BY <2>12, <2>14, <2>15 DEF ReassemblerOK, t
<1> QED BY <1>1, <1>2

\* JudgeEof may end the output and touches nothing else.
LEMMA JudgeEofPreserves ==
  ASSUME NEW capacity \in Nat, NEW r \in ReassemblerType, ReassemblerOK(r, capacity),
         NEW b \in BOOLEAN
  PROVE  /\ JudgeEof(r, b) \in ReassemblerType
         /\ ReassemblerOK(JudgeEof(r, b), capacity)
<1> DEFINE flag == r.eof_flag \/ b
           o    == IF flag /\ empty(r) THEN end_input(r.output) ELSE r.output
           t    == JudgeEof(r, b)
<1>1. t = [ stored |-> r.stored, unassembled |-> r.unassembled,
            head_index |-> r.head_index, eof_flag |-> flag, output |-> o ]
  <2>1. t = [ r EXCEPT !.eof_flag = flag, !.output = o ] BY DEF JudgeEof
  <2> HIDE DEF t, flag, o
  <2> QED BY <2>1, UpdateEof
<1>2. r.output \in ByteStreamType(Byte) /\ flag \in BOOLEAN BY TypeFacts
<1>3. /\ o \in ByteStreamType(Byte)
      /\ o.buffer = r.output.buffer /\ o.written = r.output.written
      /\ o.readden = r.output.readden
  BY <1>2, EndInputFacts
<1> HIDE DEF t, flag, o
<1>4. t \in ReassemblerType
  <2>1. r.stored \in PartialStream /\ r.unassembled \in Nat /\ r.head_index \in 0..StreamLen
    BY DEF ReassemblerType
  <2> QED BY <1>1, <1>2, <1>3, <2>1 DEF ReassemblerType
<1>5. /\ t.stored = r.stored /\ t.unassembled = r.unassembled
      /\ t.head_index = r.head_index /\ t.output = o
  BY <1>1
<1>6. OutputOK(t, capacity) BY <1>3, <1>5 DEF OutputOK, ReassemblerOK
<1>7. StoreOK(t) BY <1>5 DEF StoreOK, ReassemblerOK
<1> QED BY <1>4, <1>6, <1>7 DEF ReassemblerOK, t

\* push_substring preserves the invariant for every substring of the stream,
\* wherever it lies and whatever was pushed before.
THEOREM PushPreserves ==
  ASSUME NEW capacity \in Nat, NEW r \in ReassemblerType, ReassemblerOK(r, capacity),
         NEW i \in Nat, NEW n \in Nat, i + n <= StreamLen, NEW b \in BOOLEAN
  PROVE  /\ push_substring(r, capacity, Substring(i, n), i, b) \in ReassemblerType
         /\ ReassemblerOK(push_substring(r, capacity, Substring(i, n), i, b), capacity)
<1> DEFINE data == Substring(i, n)
           s == Store(r, data, i)
           a == Assemble(s, capacity)
<1>1. s \in ReassemblerType /\ ReassemblerOK(s, capacity) BY StorePreserves
<1> HIDE DEF s
<1>2. a \in ReassemblerType /\ ReassemblerOK(a, capacity) BY <1>1, AssemblePreserves
<1> HIDE DEF a
<1>3. JudgeEof(a, b) \in ReassemblerType /\ ReassemblerOK(JudgeEof(a, b), capacity)
  BY <1>2, JudgeEofPreserves
<1>4. JudgeEof(r, b) \in ReassemblerType /\ ReassemblerOK(JudgeEof(r, b), capacity)
  BY JudgeEofPreserves
<1>5. push_substring(r, capacity, data, i, b) \in {r, JudgeEof(r, b), JudgeEof(a, b)}
  BY DEF push_substring, a, s
<1> HIDE DEF data
<1>6. /\ push_substring(r, capacity, data, i, b) \in ReassemblerType
      /\ ReassemblerOK(push_substring(r, capacity, data, i, b), capacity)
  BY <1>3, <1>4, <1>5
<1> QED BY <1>6 DEF data

\* Ending the output, and reading from it, preserve the invariant.
LEMMA EndOutputPreserves ==
  ASSUME NEW capacity \in Nat, NEW r \in ReassemblerType, ReassemblerOK(r, capacity)
  PROVE  EndOutput(r) \in ReassemblerType /\ ReassemblerOK(EndOutput(r), capacity)
<1> DEFINE o == end_input(r.output)
           t == EndOutput(r)
<1>1. t = [ stored |-> r.stored, unassembled |-> r.unassembled,
            head_index |-> r.head_index, eof_flag |-> r.eof_flag, output |-> o ]
  <2>1. t = [ r EXCEPT !.output = o ] BY DEF EndOutput
  <2> HIDE DEF t, o
  <2> QED BY <2>1, UpdateOutput
<1>2. r.output \in ByteStreamType(Byte) BY TypeFacts
<1>3. /\ o \in ByteStreamType(Byte)
      /\ o.buffer = r.output.buffer /\ o.written = r.output.written
      /\ o.readden = r.output.readden
  BY <1>2, EndInputFacts
<1> HIDE DEF t, o
<1>4. t \in ReassemblerType
  <2>1. /\ r.stored \in PartialStream /\ r.unassembled \in Nat
        /\ r.head_index \in 0..StreamLen /\ r.eof_flag \in BOOLEAN
    BY DEF ReassemblerType
  <2> QED BY <1>1, <1>3, <2>1 DEF ReassemblerType
<1>5. /\ t.stored = r.stored /\ t.unassembled = r.unassembled
      /\ t.head_index = r.head_index /\ t.output = o
  BY <1>1
<1>6. OutputOK(t, capacity) BY <1>3, <1>5 DEF OutputOK, ReassemblerOK
<1>7. StoreOK(t) BY <1>5 DEF StoreOK, ReassemblerOK
<1> QED BY <1>4, <1>6, <1>7 DEF ReassemblerOK, t

\* Reading n bytes of the output preserves the invariant.
LEMMA PopOutputPreserves ==
  ASSUME NEW capacity \in Nat, NEW r \in ReassemblerType, ReassemblerOK(r, capacity),
         NEW n \in Nat, n <= Len(r.output.buffer)
  PROVE  PopOutput(r, n) \in ReassemblerType /\ ReassemblerOK(PopOutput(r, n), capacity)
<1> DEFINE s  == r.output
           b  == s.buffer
           rd == s.readden
           w  == s.written
           nb == SubSeq(b, n + 1, Len(b))
           o  == pop_output(s, n)
           t  == PopOutput(r, n)
<1>1. t = [ stored |-> r.stored, unassembled |-> r.unassembled,
            head_index |-> r.head_index, eof_flag |-> r.eof_flag, output |-> o ]
  <2>1. t = [ r EXCEPT !.output = o ] BY DEF PopOutput
  <2> HIDE DEF t, o
  <2> QED BY <2>1, UpdateOutput
<1>2. s \in ByteStreamType(Byte) BY TypeFacts
<1>3. /\ b \in Seq(Byte) /\ w \in Nat /\ rd \in Nat
      /\ s.input_end \in BOOLEAN /\ s.error \in BOOLEAN
  BY <1>2 DEF ByteStreamType
<1>4. Len(b) \in Nat BY <1>3, LenProperties
<1>5. /\ w = r.head_index /\ rd + Len(b) = w /\ b = Substring(rd, Len(b))
      /\ Len(b) <= capacity
  BY DEF ReassemblerOK, OutputOK
<1>6. r.head_index \in Nat /\ r.head_index <= StreamLen /\ StreamLen \in Nat
  <2>1. r.head_index \in 0..StreamLen BY TypeFacts
  <2> HIDE DEF s
  <2> QED BY <2>1, StreamLenType
<1>7. n <= Len(b) OBVIOUS
<1>8. o = [ buffer |-> nb, written |-> w, readden |-> rd + n,
            input_end |-> s.input_end, error |-> s.error ]
  <2>1. MinOf(n, Len(b)) = n BY <1>4, <1>7 DEF MinOf
  <2>2. o = [ s EXCEPT !.readden = rd + n, !.buffer = nb ] BY <2>1 DEF pop_output
  <2> HIDE DEF o, nb, s
  <2> QED BY <1>2, <2>2, UpdateReadden
<1> HIDE DEF s, b, rd, w, nb, o, t
<1>9. nb = Substring(rd + n, Len(b) - n)
  <2>1. rd + Len(b) <= StreamLen BY <1>5, <1>6
  <2>2. n \in 0..Len(b) /\ Len(b) \in n..Len(b) BY <1>4, <1>7
  <2>3. SubSeq(Substring(rd, Len(b)), n + 1, Len(b)) = Substring(rd + n, Len(b) - n)
    BY <1>3, <1>4, <2>1, <2>2, SubstringPart
  <2> QED BY <1>5, <2>3 DEF nb
<1>10. nb \in Seq(Byte) /\ Len(nb) = Len(b) - n
  <2>1. rd + n \in Nat /\ Len(b) - n \in Nat /\ (rd + n) + (Len(b) - n) <= StreamLen
    BY <1>3, <1>4, <1>5, <1>6, <1>7
  <2> QED BY <1>9, <2>1, SubstringFacts
<1>11. o.buffer = nb /\ o.written = w /\ o.readden = rd + n BY <1>8
<1>12. o \in ByteStreamType(Byte)
  <2>1. rd + n \in Nat BY <1>3
  <2> QED BY <1>3, <1>8, <1>10, <2>1 DEF ByteStreamType
<1>13. t \in ReassemblerType
  <2>1. /\ r.stored \in PartialStream /\ r.unassembled \in Nat
        /\ r.head_index \in 0..StreamLen /\ r.eof_flag \in BOOLEAN
    BY DEF ReassemblerType
  <2> QED BY <1>1, <1>12, <2>1 DEF ReassemblerType
<1>14. /\ t.stored = r.stored /\ t.unassembled = r.unassembled
       /\ t.head_index = r.head_index /\ t.output = o
  BY <1>1
<1>15. OutputOK(t, capacity)
  <2>1. o.readden + Len(o.buffer) = o.written BY <1>3, <1>4, <1>5, <1>10, <1>11, SMTT(30)
  <2>2. o.buffer = Substring(o.readden, Len(o.buffer)) BY <1>9, <1>10, <1>11
  <2>3. Len(o.buffer) <= capacity BY <1>4, <1>5, <1>10, <1>11
  <2>4. o.written = t.head_index BY <1>5, <1>11, <1>14
  <2> QED BY <1>14, <2>1, <2>2, <2>3, <2>4 DEF OutputOK
<1>16. StoreOK(t) BY <1>14 DEF StoreOK, ReassemblerOK
<1> QED BY <1>13, <1>15, <1>16 DEF ReassemblerOK, t

-----------------------------------------------------------------------------
\* What push_substring does to the head and to the stored indices, as long as
\* nothing is pushed beyond the window.

\* The substring of n bytes at i adds these indices to those stored.
Offered(r, i, n) == DOMAIN r.stored \cup { j \in i..(i + n - 1) : r.head_index <= j }

\* t is r with its head at the first index not in A and the rest of A stored.
Advanced(r, t, A) ==
    /\ t.head_index \in Nat /\ r.head_index <= t.head_index /\ t.head_index \notin A
    /\ \A j \in r.head_index..(t.head_index - 1) : j \in A
    /\ DOMAIN t.stored = { j \in A : t.head_index <= j }
    /\ t.output.readden = r.output.readden

\* Between two calls the byte at the head is missing, what is stored lies in
\* the window, and the end of the stream is not forgotten or seen too early.
Tight(r, capacity) ==
    /\ r.head_index \notin DOMAIN r.stored
    /\ \A j \in DOMAIN r.stored : j < r.output.readden + capacity
    /\ r.eof_flag /\ r.head_index < StreamLen => StreamLen - 1 \in DOMAIN r.stored
    /\ r.output.input_end => r.head_index = StreamLen

\* Store adds the indices and leaves head and output alone.
LEMMA StoreEffect ==
  ASSUME NEW r \in ReassemblerType, NEW i \in Nat, NEW n \in Nat, i + n <= StreamLen
  PROVE  LET t == Store(r, Substring(i, n), i)
         IN  /\ DOMAIN t.stored = Offered(r, i, n) /\ t.head_index = r.head_index
             /\ t.output = r.output /\ t.eof_flag = r.eof_flag
<1> DEFINE data == Substring(i, n)
           old  == DOMAIN r.stored
           new  == MaxOf(i, r.head_index)..(i + Len(data) - 1)
           keep == [ j \in old \cup new |->
                       IF j \in old THEN r.stored[j] ELSE data[j - i + 1] ]
           c    == r.unassembled + Cardinality(new \ old)
           t    == Store(r, data, i)
<1>1. StreamLen \in Nat /\ r.head_index \in 0..StreamLen BY StreamLenType, TypeFacts
<1>2. Len(data) = n BY SubstringFacts
<1>3. t = [ stored |-> keep, unassembled |-> c, head_index |-> r.head_index,
            eof_flag |-> r.eof_flag, output |-> r.output ]
  <2>1. t = [ r EXCEPT !.stored = keep, !.unassembled = c ] BY DEF Store
  <2> HIDE DEF t, keep, c
  <2> QED BY <2>1, UpdateStore
<1> HIDE DEF t, c, data
<1>4. new = { j \in i..(i + n - 1) : r.head_index <= j } BY <1>1, <1>2 DEF MaxOf
<1>5. DOMAIN keep = old \cup new OBVIOUS
<1> HIDE DEF keep, new
<1> QED BY <1>3, <1>4, <1>5 DEF Offered, t, data

\* Assemble moves the head to the first index that is not stored when the
\* output has room for everything stored.
LEMMA AssembleEffect ==
  ASSUME NEW capacity \in Nat, NEW r \in ReassemblerType, ReassemblerOK(r, capacity),
         \A j \in DOMAIN r.stored : j < r.output.readden + capacity
  PROVE  LET t == Assemble(r, capacity)
         IN  /\ Advanced(r, t, DOMAIN r.stored) /\ t.eof_flag = r.eof_flag
             /\ t.output.input_end = r.output.input_end
<1> DEFINE S == DOMAIN r.stored
           h == r.head_index
<1>1. /\ StreamLen \in Nat /\ S \in SUBSET (0..(StreamLen - 1)) /\ h \in 0..StreamLen
      /\ r.output \in ByteStreamType(Byte) /\ r.output.readden \in Nat
      /\ Len(r.output.buffer) \in Nat
  BY StreamLenType, TypeFacts
<1>2. /\ \A j \in S : h <= j
      /\ r.output.written = h
      /\ r.output.readden + Len(r.output.buffer) = h
      /\ Len(r.output.buffer) <= capacity
  BY DEF ReassemblerOK, OutputOK, StoreOK
<1>3. CASE h \notin S
  <2>1. Assemble(r, capacity) = r BY <1>3 DEF Assemble
  <2>2. S = { j \in S : h <= j } BY <1>2
  <2>3. h..(h - 1) = {} BY <1>1
  <2>4. h \in Nat /\ h <= h BY <1>1
  <2> QED BY <1>3, <2>1, <2>2, <2>3, <2>4 DEF Advanced
<1>4. CASE h \in S
  <2> DEFINE e    == RunEnd(S, h)
             run  == [ k \in 1..(e - h) |-> r.stored[h + k - 1] ]
             len  == accepted(r.output, capacity, run)
             o    == write(r.output, capacity, run)
             rest == { j \in S : j >= e }
             keep == [ i \in rest |-> r.stored[i] ]
             u    == r.unassembled - len
             t    == Assemble(r, capacity)
  <2>1. t = [ stored |-> keep, unassembled |-> u, head_index |-> h + len,
              eof_flag |-> r.eof_flag, output |-> o ]
    <3>1. t = [ r EXCEPT !.output = o, !.head_index = h + len, !.unassembled = u,
                         !.stored = keep ]
      BY <1>4 DEF Assemble
    <3> HIDE DEF t, o, u, keep, len
    <3> QED BY <3>1, UpdateAssembled
  <2>2. /\ e \in Nat /\ h < e /\ e <= StreamLen /\ e \notin S
        /\ \A i \in h..(e - 1) : i \in S
    BY <1>1, <1>4, RunEndFacts
  <2>3. o.readden = r.output.readden /\ o.input_end = r.output.input_end
    <3> DEFINE nw == r.output.written + len
               nb == r.output.buffer \o SubSeq(run, 1, len)
    <3>1. o = [ r.output EXCEPT !.written = nw, !.buffer = nb ] BY DEF write
    <3> HIDE DEF o, nw, nb
    <3> QED BY <1>1, <3>1, UpdateWritten
  <2>4. len = MinOf(Len(run), capacity - Len(r.output.buffer))
    BY DEF accepted, remaining_capacity
  <2>5. Len(run) = e - h
    <3> HIDE DEF e
    <3>1. e - h \in Nat BY <1>1, <2>2
    <3> QED BY <3>1
  <2>6. DOMAIN keep = rest OBVIOUS
  <2> HIDE DEF e, run, len, o, keep, u, t
  <2>7. e <= r.output.readden + capacity
    <3>1. e - 1 \in h..(e - 1) BY <1>1, <2>2
    <3>2. e - 1 \in S BY <2>2, <3>1
    <3>3. e - 1 < r.output.readden + capacity BY <3>2
    <3> QED BY <1>1, <2>2, <3>3
  <2>8. len = e - h /\ h + len = e
    <3> DEFINE b  == Len(r.output.buffer)
               rd == r.output.readden
    <3>1. /\ b \in Nat /\ rd \in Nat /\ h \in Nat /\ e \in Nat /\ rd + b = h
          /\ h < e /\ e <= rd + capacity /\ len = MinOf(e - h, capacity - b)
      BY <1>1, <1>2, <2>2, <2>4, <2>5, <2>7
    <3> HIDE DEF b, rd, h
    <3> QED BY <3>1 DEF MinOf
  <2>9. rest = { j \in S : e <= j } BY <1>1, <2>2
  <2>10. h <= e BY <1>1, <2>2
  <2>11. /\ t.head_index = e /\ DOMAIN t.stored = rest /\ t.eof_flag = r.eof_flag
         /\ t.output = o
    BY <2>1, <2>6, <2>8
  <2> QED BY <2>2, <2>3, <2>9, <2>10, <2>11 DEF Advanced, t
<1> QED BY <1>3, <1>4

\* The end is not judged while a byte is stored.
LEMMA StoredNotEmpty ==
  ASSUME NEW capacity \in Nat, NEW r \in ReassemblerType, ReassemblerOK(r, capacity),
         NEW j \in DOMAIN r.stored
  PROVE  ~empty(r)
<1> DEFINE S == DOMAIN r.stored
<1>1. S \in SUBSET (0..(StreamLen - 1)) /\ r.unassembled \in Nat BY TypeFacts
<1>2. IsFiniteSet(S) /\ Cardinality(S) \in Nat BY <1>1, StoredFinite
<1>3. Cardinality(S) # 0
  <2>1. S # {} OBVIOUS
  <2> HIDE DEF S
  <2> QED BY <1>2, <2>1, FS_EmptySet
<1>4. Cardinality(S) <= r.unassembled BY DEF ReassemblerOK, StoreOK
<1> QED BY <1>1, <1>2, <1>3, <1>4 DEF empty

\* JudgeEof remembers the end mark and ends the output when nothing waits.
LEMMA JudgeEofEffect ==
  ASSUME NEW r \in ReassemblerType, NEW b \in BOOLEAN
  PROVE  LET t == JudgeEof(r, b)
         IN  /\ t.stored = r.stored /\ t.head_index = r.head_index
             /\ t.eof_flag = (r.eof_flag \/ b)
             /\ t.output.readden = r.output.readden
             /\ t.output.input_end => r.output.input_end \/ (t.eof_flag /\ empty(r))
<1> DEFINE flag == r.eof_flag \/ b
           o    == IF flag /\ empty(r) THEN end_input(r.output) ELSE r.output
           t    == JudgeEof(r, b)
<1>1. t = [ stored |-> r.stored, unassembled |-> r.unassembled,
            head_index |-> r.head_index, eof_flag |-> flag, output |-> o ]
  <2>1. t = [ r EXCEPT !.eof_flag = flag, !.output = o ] BY DEF JudgeEof
  <2> HIDE DEF t, flag, o
  <2> QED BY <2>1, UpdateEof
<1>2. r.output \in ByteStreamType(Byte) BY TypeFacts
<1>3. o.readden = r.output.readden BY <1>2, EndInputFacts
<1>4. o.input_end => r.output.input_end \/ (flag /\ empty(r)) OBVIOUS
<1> HIDE DEF t, o
<1>5. /\ t.stored = r.stored /\ t.head_index = r.head_index /\ t.eof_flag = flag
      /\ t.output = o
  BY <1>1
<1> QED BY <1>3, <1>4, <1>5 DEF t

\* Advancing over offered indices keeps the last index of the stream, and what
\* is left lies in the window.
LEMMA AdvancedKeeps ==
  ASSUME NEW r \in ReassemblerType, NEW t, NEW A \in SUBSET Int, Advanced(r, t, A),
         NEW edge \in Int, \A j \in A : j < edge
  PROVE  /\ t.head_index \notin DOMAIN t.stored
         /\ \A j \in DOMAIN t.stored : j < edge
         /\ StreamLen - 1 \in A /\ t.head_index < StreamLen => StreamLen - 1 \in DOMAIN t.stored
<1>1. t.head_index \in Nat /\ DOMAIN t.stored = { j \in A : t.head_index <= j }
      /\ t.head_index \notin A
  BY DEF Advanced
<1>2. StreamLen \in Nat BY StreamLenType
<1>3. t.head_index < StreamLen => t.head_index <= StreamLen - 1 BY <1>1, <1>2
<1> QED BY <1>1, <1>2, <1>3

\* push_substring advances the head over the indices offered, and keeps the
\* end of the stream in sight.
LEMMA PushAdvances ==
  ASSUME NEW capacity \in Nat, NEW r \in ReassemblerType, ReassemblerOK(r, capacity),
         Tight(r, capacity),
         NEW i \in Nat, NEW n \in Nat, i + n <= StreamLen, i + n <= r.output.readden + capacity,
         NEW b \in BOOLEAN, b => i + n = StreamLen /\ (n > 0 \/ i <= r.head_index)
  PROVE  LET p == push_substring(r, capacity, Substring(i, n), i, b)
         IN  /\ Advanced(r, p, Offered(r, i, n)) /\ Tight(p, capacity)
             /\ b /\ p.head_index < StreamLen => StreamLen - 1 \in DOMAIN p.stored
<1> DEFINE data == Substring(i, n)
           p    == push_substring(r, capacity, data, i, b)
           h    == r.head_index
           S    == DOMAIN r.stored
           edge == r.output.readden + capacity
           A    == Offered(r, i, n)
           last == StreamLen - 1
<1>1. /\ StreamLen \in Nat /\ S \in SUBSET (0..last) /\ h \in Nat /\ h <= StreamLen
      /\ r.output.readden \in Nat /\ edge \in Nat
  <2>1. h \in 0..StreamLen /\ S \in SUBSET (0..last) /\ r.output.readden \in Nat BY TypeFacts
  <2>2. edge \in Nat BY <2>1
  <2> HIDE DEF h, S, edge
  <2> QED BY <2>1, <2>2, StreamLenType
<1>2. /\ \A j \in S : h <= j
      /\ r.output.readden <= h
  <2>1. r.output.written = h /\ r.output.readden + Len(r.output.buffer) = r.output.written
    BY DEF ReassemblerOK, OutputOK
  <2>2. Len(r.output.buffer) \in Nat BY TypeFacts
  <2>3. r.output.readden <= h BY <1>1, <2>1, <2>2
  <2> QED BY <2>3 DEF ReassemblerOK, StoreOK
<1>3. A = S \cup { j \in i..(i + n - 1) : h <= j } BY DEF Offered
<1>4. /\ h \notin S /\ \A j \in S : j < edge
      /\ r.eof_flag /\ h < StreamLen => last \in S
      /\ r.output.input_end => h = StreamLen
  BY DEF Tight
<1>5. Len(data) = n BY SubstringFacts
<1>6. p \in ReassemblerType /\ ReassemblerOK(p, capacity) BY PushPreserves
<1>7. A \in SUBSET Int /\ \A j \in A : j < edge BY <1>1, <1>3, <1>4
<1>8. b /\ h < StreamLen => last \in A BY <1>1, <1>3
<1>9. p = IF i >= h + capacity THEN r
          ELSE IF i + n <= h THEN JudgeEof(r, b)
          ELSE JudgeEof(Assemble(Store(r, data, i), capacity), b)
  BY <1>5 DEF push_substring
<1>10. i >= h + capacity \/ i + n <= h => A = S
  <2>1. i >= h + capacity => n = 0 BY <1>1, <1>2
  <2> QED BY <1>1, <1>3, <2>1
<1>11. Advanced(r, r, S)
  <2>1. h..(h - 1) = {} /\ h <= h BY <1>1
  <2>2. S = { j \in S : h <= j } BY <1>2
  <2> QED BY <1>1, <1>4, <2>1, <2>2 DEF Advanced
\* Before the end is judged: q is r advanced over A.
<1>12. \E q \in ReassemblerType :
          /\ ReassemblerOK(q, capacity) /\ Advanced(r, q, A) /\ q.eof_flag = r.eof_flag
          /\ q.output.input_end = r.output.input_end
          /\ p = JudgeEof(q, b) \/ (p = q /\ i >= h + capacity)
  <2>1. CASE i >= h + capacity \/ i + n <= h BY <1>9, <1>10, <1>11, <2>1
  <2>2. CASE ~(i >= h + capacity \/ i + n <= h)
    <3> DEFINE s == Store(r, data, i)
               q == Assemble(s, capacity)
    <3>1. s \in ReassemblerType /\ ReassemblerOK(s, capacity) BY StorePreserves
    <3>2. /\ DOMAIN s.stored = A /\ s.head_index = h /\ s.output = r.output
          /\ s.eof_flag = r.eof_flag
      BY StoreEffect
    <3> HIDE DEF s, A, edge
    <3>3. \A j \in DOMAIN s.stored : j < s.output.readden + capacity
      BY <1>7, <3>2 DEF edge
    <3>4. /\ Advanced(s, q, A) /\ q.eof_flag = r.eof_flag
          /\ q.output.input_end = r.output.input_end
      BY <3>1, <3>2, <3>3, AssembleEffect
    <3>5. q \in ReassemblerType /\ ReassemblerOK(q, capacity) BY <3>1, AssemblePreserves
    <3> HIDE DEF q
    <3>6. Advanced(r, q, A) BY <3>2, <3>4 DEF Advanced
    <3>7. p = JudgeEof(q, b) BY <1>9, <2>2 DEF q, s
    <3> QED BY <3>4, <3>5, <3>6, <3>7
  <2> QED BY <2>1, <2>2
<1> HIDE DEF p, A, edge, last
<1>13. PICK q \in ReassemblerType :
          /\ ReassemblerOK(q, capacity) /\ Advanced(r, q, A) /\ q.eof_flag = r.eof_flag
          /\ q.output.input_end = r.output.input_end
          /\ p = JudgeEof(q, b) \/ (p = q /\ i >= h + capacity)
  BY <1>12
<1>14. /\ q.head_index \in Nat /\ h <= q.head_index /\ q.head_index <= StreamLen
       /\ q.output.readden = r.output.readden
  <2>1. q.head_index \in 0..StreamLen BY TypeFacts
  <2>2. q.head_index \in Nat /\ q.head_index <= StreamLen BY <1>1, <2>1
  <2> QED BY <1>13, <2>2 DEF Advanced
<1>15. /\ q.head_index \notin DOMAIN q.stored
       /\ \A j \in DOMAIN q.stored : j < edge
       /\ last \in A /\ q.head_index < StreamLen => last \in DOMAIN q.stored
  <2>1. Advanced(r, q, A) BY <1>13
  <2> QED BY <1>1, <1>7, <2>1, AdvancedKeeps DEF last
<1>16. (r.eof_flag \/ b) /\ q.head_index < StreamLen => last \in DOMAIN q.stored
  <2>1. S \subseteq A BY <1>3
  <2>2. q.head_index < StreamLen => h < StreamLen BY <1>1, <1>14
  <2> QED BY <1>4, <1>8, <1>15, <2>1, <2>2
<1>17. (r.eof_flag \/ b) /\ empty(q) => q.head_index = StreamLen
  <2>1. empty(q) => last \notin DOMAIN q.stored BY <1>13, StoredNotEmpty
  <2> QED BY <1>1, <1>14, <1>16, <2>1
<1>18. r.output.input_end => q.head_index = StreamLen BY <1>1, <1>4, <1>14
<1>19. CASE p = JudgeEof(q, b)
  <2>1. /\ p.stored = q.stored /\ p.head_index = q.head_index
        /\ p.eof_flag = (q.eof_flag \/ b)
        /\ p.output.readden = q.output.readden
        /\ p.output.input_end => q.output.input_end \/ (p.eof_flag /\ empty(q))
    BY <1>19, JudgeEofEffect
  <2>2. Advanced(r, p, A) BY <1>13, <2>1 DEF Advanced
  <2>3. Tight(p, capacity)
    BY <1>13, <1>14, <1>15, <1>16, <1>17, <1>18, <2>1 DEF Tight, edge, last
  <2> QED BY <1>16, <2>1, <2>2, <2>3 DEF p, A, last
<1>20. CASE p = q /\ i >= h + capacity
  <2>1. Tight(p, capacity)
    BY <1>13, <1>14, <1>15, <1>16, <1>18, <1>20 DEF Tight, edge, last
  <2> QED BY <1>13, <1>16, <1>20, <2>1 DEF p, A, last
<1> QED BY <1>13, <1>19, <1>20

\* Ending the output when all bytes are there, and reading from it, keep the
\* reassembler tight.
LEMMA EndOutputTight ==
  ASSUME NEW capacity \in Nat, NEW r \in ReassemblerType, Tight(r, capacity),
         r.head_index = StreamLen
  PROVE  /\ Tight(EndOutput(r), capacity)
         /\ EndOutput(r).stored = r.stored /\ EndOutput(r).head_index = r.head_index
         /\ EndOutput(r).output.readden = r.output.readden
<1> DEFINE o == end_input(r.output)
           t == EndOutput(r)
<1>1. t = [ stored |-> r.stored, unassembled |-> r.unassembled,
            head_index |-> r.head_index, eof_flag |-> r.eof_flag, output |-> o ]
  <2>1. t = [ r EXCEPT !.output = o ] BY DEF EndOutput
  <2> HIDE DEF t, o
  <2> QED BY <2>1, UpdateOutput
<1>2. o.readden = r.output.readden BY TypeFacts, EndInputFacts
<1> HIDE DEF t, o
<1>3. /\ t.stored = r.stored /\ t.head_index = r.head_index /\ t.eof_flag = r.eof_flag
      /\ t.output = o
  BY <1>1
<1> QED BY <1>2, <1>3 DEF Tight, t

LEMMA PopOutputTight ==
  ASSUME NEW capacity \in Nat, NEW r \in ReassemblerType, Tight(r, capacity),
         NEW n \in Nat, n <= Len(r.output.buffer)
  PROVE  /\ Tight(PopOutput(r, n), capacity)
         /\ PopOutput(r, n).stored = r.stored /\ PopOutput(r, n).head_index = r.head_index
         /\ PopOutput(r, n).output.readden = r.output.readden + n
<1> DEFINE o  == pop_output(r.output, n)
           rd == r.output.readden
           t  == PopOutput(r, n)
<1>1. t = [ stored |-> r.stored, unassembled |-> r.unassembled,
            head_index |-> r.head_index, eof_flag |-> r.eof_flag, output |-> o ]
  <2>1. t = [ r EXCEPT !.output = o ] BY DEF PopOutput
  <2> HIDE DEF t, o
  <2> QED BY <2>1, UpdateOutput
<1>2. /\ r.output \in ByteStreamType(Byte) /\ rd \in Nat /\ Len(r.output.buffer) \in Nat
      /\ DOMAIN r.stored \in SUBSET (0..(StreamLen - 1)) /\ StreamLen \in Nat
  BY TypeFacts, StreamLenType
<1>3. o.readden = rd + n /\ o.input_end = r.output.input_end
  <2> DEFINE nb == SubSeq(r.output.buffer, n + 1, Len(r.output.buffer))
             nr == rd + n
  <2>1. MinOf(n, Len(r.output.buffer)) = n BY <1>2 DEF MinOf
  <2>2. o = [ r.output EXCEPT !.readden = nr, !.buffer = nb ] BY <2>1 DEF pop_output
  <2> HIDE DEF o, nb, nr
  <2>3. o.readden = nr /\ o.input_end = r.output.input_end BY <1>2, <2>2, UpdateReadden
  <2> QED BY <2>3 DEF nr
<1> HIDE DEF t, o
<1>4. /\ t.stored = r.stored /\ t.head_index = r.head_index /\ t.eof_flag = r.eof_flag
      /\ t.output = o
  BY <1>1
<1>5. \A j \in DOMAIN r.stored : j < (rd + n) + capacity
  <2> TAKE j \in DOMAIN r.stored
  <2>1. j \in Int /\ j < rd + capacity BY <1>2 DEF Tight
  <2> HIDE DEF rd
  <2> QED BY <1>2, <2>1
<1> HIDE DEF rd
<1>6. Tight(t, capacity) BY <1>3, <1>4, <1>5 DEF Tight
<1> QED BY <1>3, <1>4, <1>6 DEF t, rd

-----------------------------------------------------------------------------
\* The counter is exact between two calls as long as nothing is pushed beyond
\* the window: then the output has room for every run that reaches the head.
Exact(r) == r.unassembled = Cardinality(DOMAIN r.stored)

\* Store counts every byte it adds, once.
LEMMA StoreExact ==
  ASSUME NEW r \in ReassemblerType, Exact(r),
         NEW i \in Nat, NEW n \in Nat, i + n <= StreamLen
  PROVE  Exact(Store(r, Substring(i, n), i))
<1> DEFINE data == Substring(i, n)
           old  == DOMAIN r.stored
           new  == MaxOf(i, r.head_index)..(i + Len(data) - 1)
           keep == [ j \in old \cup new |->
                       IF j \in old THEN r.stored[j] ELSE data[j - i + 1] ]
           c    == r.unassembled + Cardinality(new \ old)
           t    == Store(r, data, i)
<1>1. StreamLen \in Nat /\ r.head_index \in 0..StreamLen /\ old \in SUBSET (0..(StreamLen - 1))
  BY StreamLenType, TypeFacts
<1>2. Len(data) = n BY SubstringFacts
<1>3. t = [ stored |-> keep, unassembled |-> c, head_index |-> r.head_index,
            eof_flag |-> r.eof_flag, output |-> r.output ]
  <2>1. t = [ r EXCEPT !.stored = keep, !.unassembled = c ] BY DEF Store
  <2> HIDE DEF t, keep, c
  <2> QED BY <2>1, UpdateStore
<1> HIDE DEF t, data
<1>4. new \in SUBSET (0..(StreamLen - 1)) BY <1>1, <1>2 DEF MaxOf
<1>5. DOMAIN keep = old \cup new OBVIOUS
<1> HIDE DEF keep, new, old
<1>6. new \ old \in SUBSET (0..(StreamLen - 1)) BY <1>4
<1>7. IsFiniteSet(old) /\ IsFiniteSet(new \ old) BY <1>1, <1>6, StoredFinite
<1>8. Cardinality(old \cup new) = Cardinality(old) + Cardinality(new \ old)
  BY <1>7, CardinalityAdded
<1>9. r.unassembled = Cardinality(old) BY DEF Exact, old
<1>10. DOMAIN t.stored = old \cup new /\ t.unassembled = c BY <1>3, <1>5
<1>11. Exact(t) BY <1>8, <1>9, <1>10 DEF Exact, c
<1> QED BY <1>11 DEF t, data

\* Assemble takes from the count what it takes from the store, when the output
\* has room for all of it.
LEMMA AssembleExact ==
  ASSUME NEW capacity \in Nat, NEW r \in ReassemblerType, ReassemblerOK(r, capacity),
         Exact(r), \A j \in DOMAIN r.stored : j < r.output.readden + capacity
  PROVE  Exact(Assemble(r, capacity))
<1> DEFINE S == DOMAIN r.stored
           h == r.head_index
           t == Assemble(r, capacity)
<1>1. /\ StreamLen \in Nat /\ S \in SUBSET (0..(StreamLen - 1)) /\ h \in Nat
      /\ r.output \in ByteStreamType(Byte) /\ r.output.readden \in Nat
      /\ Len(r.output.buffer) \in Nat /\ r.unassembled \in Nat
  <2>1. h \in 0..StreamLen BY TypeFacts
  <2>2. h \in Nat BY <2>1, StreamLenType
  <2> QED BY <2>2, StreamLenType, TypeFacts
<1>2. \A j \in S : h <= j BY DEF ReassemblerOK, StoreOK
<1>3. CASE h \notin S
  <2>1. t = r BY <1>3 DEF Assemble
  <2> QED BY <2>1
<1>4. CASE h \in S
  <2> DEFINE e    == RunEnd(S, h)
             run  == [ k \in 1..(e - h) |-> r.stored[h + k - 1] ]
             len  == accepted(r.output, capacity, run)
             o    == write(r.output, capacity, run)
             rest == { j \in S : j >= e }
             keep == [ i \in rest |-> r.stored[i] ]
             u    == r.unassembled - len
             hd   == h + len
  <2>1. t = [ stored |-> keep, unassembled |-> u, head_index |-> hd,
              eof_flag |-> r.eof_flag, output |-> o ]
    <3>1. t = [ r EXCEPT !.output = o, !.head_index = hd, !.unassembled = u,
                         !.stored = keep ]
      BY <1>4 DEF Assemble
    <3> HIDE DEF t, o, u, keep, hd
    <3> QED BY <3>1, UpdateAssembled
  <2>2. /\ e \in Nat /\ h < e /\ e <= StreamLen /\ e \notin S
        /\ \A i \in h..(e - 1) : i \in S
    BY <1>1, <1>4, RunEndFacts
  <2>3. DOMAIN keep = rest OBVIOUS
  <2>4. t.head_index = hd /\ DOMAIN t.stored = rest /\ t.unassembled = u
    <3> HIDE DEF t, o, u, keep, hd, rest
    <3> QED BY <2>1, <2>3
  <2>5. t.head_index \notin S
    <3>1. Advanced(r, t, S) BY AssembleEffect
    <3> QED BY <3>1 DEF Advanced
  <2>6. len \in 0..(e - h)
    <3>1. len = MinOf(Len(run), capacity - Len(r.output.buffer))
      BY DEF accepted, remaining_capacity
    <3>2. Len(run) = e - h
      <4> HIDE DEF e
      <4>1. e - h \in Nat BY <1>1, <2>2
      <4> QED BY <4>1
    <3>3. capacity - Len(r.output.buffer) \in Nat
      BY <1>1 DEF ReassemblerOK, OutputOK
    <3> HIDE DEF len, run, e, h
    <3> QED BY <1>1, <2>2, <3>1, <3>2, <3>3 DEF MinOf
  <2> HIDE DEF len, e, u, rest, keep, t
  <2>7. len = e - h
    <3>1. hd \notin S BY <2>4, <2>5
    <3>2. ~(hd < e)
      <4> SUFFICES ASSUME hd < e PROVE FALSE OBVIOUS
      <4>1. hd \in h..(e - 1) BY <1>1, <2>2, <2>6
      <4> QED BY <2>2, <3>1, <4>1
    <3> HIDE DEF h
    <3> QED BY <1>1, <2>2, <2>6, <3>2
  <2> DEFINE gone == h..(e - 1)
  <2>8. /\ rest \in SUBSET (0..(StreamLen - 1)) /\ S = rest \cup gone /\ gone \ rest = gone
    <3>1. rest = Above(S, e) BY DEF rest, Above
    <3>2. Splits(S, h, e, StreamLen)
      <4> HIDE DEF S, h
      <4> QED BY <1>1, <1>2, <2>2, RunSplits
    <3> HIDE DEF S, h
    <3> QED BY <3>1, <3>2 DEF Splits
  <2>9. IsFiniteSet(rest) /\ Cardinality(rest) \in Nat BY <2>8, StoredFinite
  <2>10. IsFiniteSet(gone) /\ Cardinality(gone) = e - h
    <3>1. h \in Int /\ e - 1 \in Int /\ h <= e - 1 BY <1>1, <2>2
    <3>2. Cardinality(gone) = (e - 1) - h + 1 /\ IsFiniteSet(gone) BY <3>1, FS_Interval
    <3> QED BY <1>1, <2>2, <3>2
  <2> HIDE DEF gone
  <2>11. Cardinality(S) = Cardinality(rest) + Cardinality(gone)
    BY <2>8, <2>9, <2>10, CardinalityAdded
  <2>12. r.unassembled = Cardinality(S) BY DEF Exact
  <2>13. u = Cardinality(rest)
    <3> HIDE DEF S, h
    <3> QED BY <1>1, <2>2, <2>7, <2>9, <2>10, <2>11, <2>12 DEF u
  <2> QED BY <2>4, <2>13 DEF Exact, t
<1> QED BY <1>3, <1>4

\* Judging the end changes neither the store nor the count.
LEMMA JudgeEofExact ==
  ASSUME NEW r \in ReassemblerType, Exact(r), NEW b \in BOOLEAN
  PROVE  Exact(JudgeEof(r, b))
<1> DEFINE f == r.eof_flag \/ b
           o == IF f /\ empty(r) THEN end_input(r.output) ELSE r.output
           t == JudgeEof(r, b)
<1>1. t = [ r EXCEPT !.eof_flag = f, !.output = o ] BY DEF JudgeEof
<1> HIDE DEF t, f, o
<1>2. t = [ stored |-> r.stored, unassembled |-> r.unassembled,
            head_index |-> r.head_index, eof_flag |-> f, output |-> o ]
  BY <1>1, UpdateEof
<1>3. t.stored = r.stored /\ t.unassembled = r.unassembled BY <1>2
<1>4. Exact(t) BY <1>3 DEF Exact
<1> QED BY <1>4 DEF t

\* push_substring keeps the counter exact.
LEMMA PushExact ==
  ASSUME NEW capacity \in Nat, NEW r \in ReassemblerType, ReassemblerOK(r, capacity),
         Exact(r), \A j \in DOMAIN r.stored : j < r.output.readden + capacity,
         NEW i \in Nat, NEW n \in Nat, i + n <= StreamLen, i + n <= r.output.readden + capacity,
         NEW b \in BOOLEAN
  PROVE  Exact(push_substring(r, capacity, Substring(i, n), i, b))
<1> DEFINE data == Substring(i, n)
           s    == Store(r, data, i)
           q    == Assemble(s, capacity)
           edge == r.output.readden + capacity
           p    == push_substring(r, capacity, data, i, b)
<1>1. s \in ReassemblerType /\ ReassemblerOK(s, capacity) BY StorePreserves
<1>2. Exact(s) BY StoreExact
<1>3. \A j \in DOMAIN s.stored : j < s.output.readden + capacity
  <2>1. DOMAIN s.stored = Offered(r, i, n) /\ s.output = r.output BY StoreEffect
  <2>2. DOMAIN r.stored \in SUBSET (0..(StreamLen - 1)) /\ StreamLen \in Nat
        /\ r.output.readden \in Nat
    BY TypeFacts, StreamLenType
  <2> HIDE DEF s
  <2>3. ASSUME NEW j \in Offered(r, i, n) PROVE j < edge
    <3>1. CASE j \in DOMAIN r.stored BY <3>1
    <3>2. CASE j \in i..(i + n - 1)
      <4> DEFINE rd == r.output.readden
      <4>1. i + n <= rd + capacity /\ rd \in Nat BY <2>2
      <4> HIDE DEF rd
      <4>2. j < rd + capacity BY <3>2, <4>1
      <4> QED BY <4>2 DEF rd
    <3> QED BY <3>1, <3>2 DEF Offered
  <2> QED BY <2>1, <2>3
<1> HIDE DEF s, edge
<1>4. Exact(q) BY <1>1, <1>2, <1>3, AssembleExact
<1>5. q \in ReassemblerType BY <1>1, AssemblePreserves
<1> HIDE DEF q
<1>6. Exact(JudgeEof(q, b)) /\ Exact(JudgeEof(r, b)) BY <1>4, <1>5, JudgeEofExact
<1>7. p \in {r, JudgeEof(r, b), JudgeEof(q, b)} BY DEF push_substring, q, s
<1> HIDE DEF p, data
<1> QED BY <1>6, <1>7 DEF p, data

\* Reading the output changes neither the store nor the count.
LEMMA PopOutputExact ==
  ASSUME NEW r \in ReassemblerType, Exact(r), NEW n \in Nat
  PROVE  Exact(PopOutput(r, n))
<1> DEFINE o == pop_output(r.output, n)
           t == PopOutput(r, n)
<1>1. t = [ r EXCEPT !.output = o ] BY DEF PopOutput
<1> HIDE DEF t, o
<1>2. t = [ stored |-> r.stored, unassembled |-> r.unassembled,
            head_index |-> r.head_index, eof_flag |-> r.eof_flag, output |-> o ]
  BY <1>1, UpdateOutput
<1>3. t.stored = r.stored /\ t.unassembled = r.unassembled BY <1>2
<1>4. Exact(t) BY <1>3 DEF Exact
<1> QED BY <1>4 DEF t
=============================================================================
