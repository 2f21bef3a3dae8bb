------------------------ MODULE ReceiverSystem_proofs ------------------------
(***************************************************************************)
(* For every stream, every segmentation, every capacity, every initial     *)
(* sequence number and every width of the sequence numbers, a TCPReceiver  *)
(* hands the application a prefix of the peer's stream.  It stands on how  *)
(* 32-bit numbers are recovered, so the theorems of SequenceNumbers come   *)
(* first.                                                                  *)
(***************************************************************************)
EXTENDS ReceiverSystem, SequenceNumbers, ReassemblerSpec_proofs

-----------------------------------------------------------------------------
\* The widths are positive and the narrow one does not exceed the wide one.
LEMMA M32Type == M32 \in Nat \ {0} /\ M64 \in Nat \ {0} /\ M32 <= M64
<1>1. HALF \in Nat \ {0} /\ M64 \in Nat BY WidthAssumption
<1>2. M32 \in Nat \ {0} /\ M32 = 2 * HALF BY <1>1 DEF M32
<1>3. PICK k \in 1..M64 : M64 = k * M32 BY WidthAssumption
<1>4. k * M32 >= M32  BY <1>1, <1>2, <1>3
<1> QED BY <1>1, <1>2, <1>3, <1>4

\* wrap(n, isn) is the 32-bit number congruent to n + isn modulo 2^32.
LEMMA WrapCongruent ==
  ASSUME NEW n \in Int, NEW isn0 \in Int
  PROVE  /\ wrap(n, isn0) \in 0..(M32 - 1)
         /\ \E q \in Int : n + isn0 = q * M32 + wrap(n, isn0)
<1>1. wrap(n, isn0) = WrapMod(n, isn0, M32) BY DEF wrap, WrapMod
<1>2. M32 \in Nat \ {0} BY M32Type
<1>3. /\ WrapMod(n, isn0, M32) \in 0..(M32 - 1)
      /\ \E q \in Int : n + isn0 = q * M32 + WrapMod(n, isn0, M32)
  BY <1>2, WrapModCongruent
<1> QED BY <1>1, <1>3

\* unwrap inverts wrap for every index within half the sequence space of the
\* checkpoint, across any number of wrap-arounds, as long as the checkpoint is
\* 2^32 away from the largest 64-bit number (wrapping_integers.cc, unwrap).
THEOREM UnwrapNearest ==
  ASSUME NEW x \in U64, NEW isn0 \in U32, NEW c \in U64,
         x - c < HALF, c - x <= HALF, c + M32 <= M64
  PROVE  unwrap(wrap(x, isn0), isn0, c) = x
<1>1. HALF \in Nat \ {0} /\ M64 \in Nat /\ isn0 \in Int /\ M32 = 2 * HALF
  BY WidthAssumption, M32Type DEF U32, M32
<1>2. UnwrapMod(WrapMod(x, isn0, M32), isn0, c, HALF, M32, M64) = x
  BY <1>1, UnwrapModNearest DEF U64
<1>3. unwrap(wrap(x, isn0), isn0, c) = UnwrapMod(WrapMod(x, isn0, M32), isn0, c, HALF, M32, M64)
  BY DEF unwrap, wrap, UnwrapMod, WrapMod
<1> QED BY <1>2, <1>3

-----------------------------------------------------------------------------
\* A number congruent to n - isn modulo 2^32 wraps to n.
LEMMA WrapIs ==
  ASSUME NEW n \in U32, NEW isn0 \in U32, NEW x \in Int, NEW q \in Int,
         x + isn0 = q * M32 + n
  PROVE  wrap(x, isn0) = n
<1>1. M32 \in Nat \ {0} /\ n \in 0..(M32 - 1) /\ isn0 \in Int BY M32Type DEF U32
<1>2. x + isn0 \in Int BY <1>1
<1>3. PICK k \in Int : x + isn0 = k * M32 + wrap(x, isn0) BY <1>1, WrapCongruent
<1>4. wrap(x, isn0) \in 0..(M32 - 1) BY <1>1, WrapCongruent
<1>5. (x + isn0) % M32 = n BY <1>1, <1>2, ModUnique
<1>6. (x + isn0) % M32 = wrap(x, isn0)
  <2> HIDE DEF U32
  <2> QED BY <1>1, <1>2, <1>3, <1>4, ModUnique
<1> QED BY <1>5, <1>6

\* Numbers that wrap to the same value are whole turns of 2^32 apart.
LEMMA SameWrap ==
  ASSUME NEW isn0 \in U32, NEW x \in Int, NEW y \in Int, wrap(x, isn0) = wrap(y, isn0)
  PROVE  \E k \in Int : x = y + k * M32
<1>1. M32 \in Nat \ {0} /\ isn0 \in Int BY M32Type DEF U32
<1>2. PICK p \in Int : x + isn0 = p * M32 + wrap(x, isn0) BY <1>1, WrapCongruent
<1>3. PICK q \in Int : y + isn0 = q * M32 + wrap(x, isn0)
  <2>1. \E q \in Int : y + isn0 = q * M32 + wrap(y, isn0) BY <1>1, WrapCongruent
  <2> QED BY <2>1
<1>4. wrap(x, isn0) \in Int BY <1>1, WrapCongruent
<1>5. (p - q) * M32 = p * M32 - q * M32 /\ p * M32 \in Int /\ q * M32 \in Int BY <1>1
<1>6. x = y + (p - q) * M32 BY <1>1, <1>2, <1>3, <1>4, <1>5
<1> QED BY <1>6

\* A whole number of turns is no turn, or at least one forward or backward.
LEMMA Turns ==
  ASSUME NEW k \in Int
  PROVE  k * M32 = 0 \/ k * M32 >= M32 \/ k * M32 <= 0 - M32
<1>1. M32 \in Nat \ {0} BY M32Type
<1>2. CASE k = 0 BY <1>1, <1>2
<1>3. CASE k >= 1 BY <1>1, <1>3
<1>4. CASE k <= -1 BY <1>1, <1>4
<1> QED BY <1>2, <1>3, <1>4

\* unwrap of any 32-bit number: it wraps back to that number, and no 64-bit
\* number that does is closer to the checkpoint.
LEMMA UnwrapIsClosest ==
  ASSUME NEW n \in U32, NEW isn0 \in U32, NEW c \in Usable
  PROVE  LET res == unwrap(n, isn0, c)
         IN  /\ res \in U64 /\ wrap(res, isn0) = n
             /\ \A x \in U64 : wrap(x, isn0) = n => Distance(res, c) <= Distance(x, c)
<1> DEFINE wc  == wrap(c, isn0)
           d   == (n - wc) % M32
           res == unwrap(n, isn0, c)
<1>1. /\ M32 \in Nat \ {0} /\ M64 \in Nat \ {0} /\ M32 <= M64
      /\ HALF \in Nat \ {0} /\ M32 = 2 * HALF
      /\ n \in 0..(M32 - 1) /\ isn0 \in 0..(M32 - 1)
      /\ c \in Int /\ c >= 0 /\ c + M32 <= M64
  BY M32Type, WidthAssumption DEF M32, U32, Usable
<1>2. wc \in 0..(M32 - 1) /\ \E q \in Int : c + isn0 = q * M32 + wc
  <2>1. isn0 \in Int BY <1>1
  <2> QED BY <1>1, <2>1, WrapCongruent
<1> HIDE DEF wc
<1>3. PICK q \in Int : c + isn0 = q * M32 + wc BY <1>2
<1>4. n - wc \in Int BY <1>1, <1>2
<1>5. d \in 0..(M32 - 1) /\ \E p \in Int : n - wc = p * M32 + d BY <1>1, <1>4, ModDef
<1>6. res = IF d >= HALF /\ (d + c) % M64 >= M32 THEN ((d + c) % M64) - M32 ELSE (d + c) % M64
  BY DEF unwrap, wc
<1> HIDE DEF d, res
<1>7. PICK p \in Int : n - wc = p * M32 + d BY <1>5
<1>8. (d + c) % M64 = d + c
  <2>1. d + c = 0 * M64 + (d + c) /\ d + c \in Int /\ d + c \in 0..(M64 - 1) BY <1>1, <1>5
  <2> QED BY <1>1, <2>1, ModUnique
<1>9. PICK j \in {0, 1} : /\ res = d + c - j * M32
                          /\ j = IF d >= HALF /\ d + c >= M32 THEN 1 ELSE 0
  BY <1>1, <1>5, <1>6, <1>8
<1>10. res \in U64 /\ res \in Int BY <1>1, <1>5, <1>9 DEF U64
<1>11. wrap(res, isn0) = n
  <2>1. (q - p - j) * M32 = q * M32 - p * M32 - j * M32 /\ q * M32 \in Int
        /\ p * M32 \in Int /\ j * M32 \in Int
    BY <1>1
  <2>2. res + isn0 = (q - p - j) * M32 + n
    BY <1>1, <1>2, <1>3, <1>5, <1>7, <1>9, <2>1
  <2>3. q - p - j \in Int BY <1>9
  <2> QED BY <1>10, <2>2, <2>3, WrapIs
<1>12. ASSUME NEW x \in U64, wrap(x, isn0) = n
       PROVE  Distance(res, c) <= Distance(x, c)
  <2>1. x \in Int /\ x >= 0 BY <1>1 DEF U64
  <2>2. PICK k \in Int : x = res + k * M32
    BY <1>10, <1>11, <1>12, <2>1, SameWrap
  <2>3. k * M32 = 0 \/ k * M32 >= M32 \/ k * M32 <= 0 - M32 BY Turns
  <2> DEFINE t == k * M32
  <2>4. t \in Int BY <1>1
  <2> HIDE DEF t
  <2>5. x = res + t /\ (t = 0 \/ t >= M32 \/ t <= 0 - M32) BY <2>2, <2>3 DEF t
  <2>6. \/ j = 0 /\ d < HALF /\ res = d + c
        \/ j = 1 /\ d >= HALF /\ d + c >= M32 /\ res = d + c - M32
        \/ j = 0 /\ d >= HALF /\ d + c < M32 /\ res = d + c
    BY <1>1, <1>5, <1>9
  <2> QED BY <1>1, <1>5, <1>10, <2>1, <2>4, <2>5, <2>6 DEF Distance
<1> QED BY <1>10, <1>11, <1>12 DEF res

-----------------------------------------------------------------------------
\* The numbers stay clear of the last turn, and the listener agrees.
Agreement == isn \in U32 /\ absolute \in Usable /\ checkpoint = absolute

\* NumbersInit establishes the agreement and hearing any number preserves it.
LEMMA AgreementAlways == NumbersSpec => []Agreement
<1>1. NumbersInit => Agreement
  BY M32Type DEF NumbersInit, Agreement, Usable
<1>2. Agreement /\ [NumbersNext]_numbers => Agreement'
  <2> SUFFICES ASSUME Agreement, [NumbersNext]_numbers PROVE Agreement' OBVIOUS
  <2>1. ASSUME NEW x \in Usable, Hear(x) PROVE Agreement'
    <3>1. x \in U64 /\ checkpoint \in U64 /\ checkpoint + M32 <= M64
      BY M32Type DEF Agreement, Usable, U64
    <3>2. unwrap(wrap(x, isn), isn, checkpoint) = x
      BY <2>1, <3>1, UnwrapNearest DEF Agreement, Hear
    <3> QED BY <2>1, <3>2 DEF Agreement, Hear
  <2>2. CASE UNCHANGED numbers BY <2>2 DEF numbers, Agreement
  <2> QED BY <2>1, <2>2 DEF NumbersNext
<1> QED BY <1>1, <1>2, PTL DEF NumbersSpec

\* However often the 32-bit numbers wrap around, the listener's 64-bit number
\* is the speaker's (wrap, unwrap, ack_received's _checkpoint).
THEOREM ListenerAlwaysAgrees == NumbersSpec => []ListenerAgrees
<1>1. Agreement => ListenerAgrees BY DEF Agreement, ListenerAgrees
<1> QED BY <1>1, AgreementAlways, PTL

\* unwrap returns the number closest to the checkpoint, as its comment in
\* wrapping_integers.cc says, at every checkpoint the listener can reach.
THEOREM UnwrapAlwaysClosest == NumbersSpec => []UnwrapClosest
<1>1. Agreement => UnwrapClosest
  <2> SUFFICES ASSUME Agreement, NEW n \in U32
               PROVE  LET res == unwrap(n, isn, checkpoint)
                      IN  /\ res \in U64 /\ wrap(res, isn) = n
                          /\ \A x \in U64 : wrap(x, isn) = n =>
                                 Distance(res, checkpoint) <= Distance(x, checkpoint)
    BY DEF UnwrapClosest
  <2>1. isn \in U32 /\ checkpoint \in Usable BY DEF Agreement
  <2> QED BY <2>1, UnwrapIsClosest
<1> QED BY <1>1, AgreementAlways, PTL

-----------------------------------------------------------------------------
\* The records that the updates of TCPReceiver build, field by field.
LEMMA UpdateSyn ==
  ASSUME NEW rcv \in ReceiverType, NEW y, NEW a, NEW i
  PROVE  [ rcv EXCEPT !.syn = y, !.ackno = a, !.isn = i ]
           = [ ackno |-> a, isn |-> i, syn |-> y, fin |-> rcv.fin,
               fin_not_count |-> rcv.fin_not_count, reassembler |-> rcv.reassembler ]
<1> DEFINE b == [ rcv EXCEPT !.syn = y ]
           c == [ b EXCEPT !.ackno = a ]
<1>1. b = [ ackno |-> rcv.ackno, isn |-> rcv.isn, syn |-> y, fin |-> rcv.fin,
            fin_not_count |-> rcv.fin_not_count, reassembler |-> rcv.reassembler ]
  BY DEF ReceiverType
<1>2. [ rcv EXCEPT !.syn = y, !.ackno = a, !.isn = i ] = [ c EXCEPT !.isn = i ] OBVIOUS
<1> HIDE DEF b
<1>3. c = [ ackno |-> a, isn |-> rcv.isn, syn |-> y, fin |-> rcv.fin,
            fin_not_count |-> rcv.fin_not_count, reassembler |-> rcv.reassembler ]
  BY <1>1
<1> HIDE DEF c
<1>4. [ c EXCEPT !.isn = i ]
        = [ ackno |-> a, isn |-> i, syn |-> y, fin |-> rcv.fin,
            fin_not_count |-> rcv.fin_not_count, reassembler |-> rcv.reassembler ]
  BY <1>3
<1> QED BY <1>2, <1>4

\* The update of PushPayload.
LEMMA UpdatePushed ==
  ASSUME NEW rcv \in ReceiverType, NEW r, NEW a
  PROVE  [ rcv EXCEPT !.reassembler = r, !.ackno = a ]
           = [ ackno |-> a, isn |-> rcv.isn, syn |-> rcv.syn, fin |-> rcv.fin,
               fin_not_count |-> rcv.fin_not_count, reassembler |-> r ]
<1> DEFINE b == [ rcv EXCEPT !.reassembler = r ]
<1>1. b = [ ackno |-> rcv.ackno, isn |-> rcv.isn, syn |-> rcv.syn, fin |-> rcv.fin,
            fin_not_count |-> rcv.fin_not_count, reassembler |-> r ]
  BY DEF ReceiverType
<1>2. [ rcv EXCEPT !.reassembler = r, !.ackno = a ] = [ b EXCEPT !.ackno = a ] OBVIOUS
<1> HIDE DEF b
<1>3. [ b EXCEPT !.ackno = a ]
        = [ ackno |-> a, isn |-> rcv.isn, syn |-> rcv.syn, fin |-> rcv.fin,
            fin_not_count |-> rcv.fin_not_count, reassembler |-> r ]
  BY <1>1
<1> QED BY <1>2, <1>3

\* The update of CountFin while bytes are missing.
LEMMA UpdateFin ==
  ASSUME NEW rcv \in ReceiverType, NEW f
  PROVE  [ rcv EXCEPT !.fin = f ]
           = [ ackno |-> rcv.ackno, isn |-> rcv.isn, syn |-> rcv.syn, fin |-> f,
               fin_not_count |-> rcv.fin_not_count, reassembler |-> rcv.reassembler ]
  BY DEF ReceiverType

\* The update of the application's reads.
LEMMA UpdateReassembler ==
  ASSUME NEW rcv \in ReceiverType, NEW r
  PROVE  [ rcv EXCEPT !.reassembler = r ]
           = [ ackno |-> rcv.ackno, isn |-> rcv.isn, syn |-> rcv.syn, fin |-> rcv.fin,
               fin_not_count |-> rcv.fin_not_count, reassembler |-> r ]
  BY DEF ReceiverType

\* The receiver after the FIN was counted.
FinCounted(rcv, f, a, c, r) ==
    [ rcv EXCEPT !.fin = f, !.ackno = a, !.fin_not_count = c, !.reassembler = r ]

\* The update of CountFin when nothing is waiting any more.
LEMMA UpdateFinCounted ==
  ASSUME NEW rcv \in ReceiverType, NEW f, NEW a, NEW c, NEW r
  PROVE  FinCounted(rcv, f, a, c, r)
           = [ ackno |-> a, isn |-> rcv.isn, syn |-> rcv.syn, fin |-> f,
               fin_not_count |-> c, reassembler |-> r ]
<1> DEFINE t == [ rcv EXCEPT !.fin = f ]
           u == [ t EXCEPT !.ackno = a ]
           v == [ u EXCEPT !.fin_not_count = c ]
<1>1. t = [ ackno |-> rcv.ackno, isn |-> rcv.isn, syn |-> rcv.syn, fin |-> f,
            fin_not_count |-> rcv.fin_not_count, reassembler |-> rcv.reassembler ]
  BY UpdateFin
<1>2. FinCounted(rcv, f, a, c, r) = [ v EXCEPT !.reassembler = r ]
  BY DEF FinCounted
<1> HIDE DEF t
<1>3. u = [ ackno |-> a, isn |-> rcv.isn, syn |-> rcv.syn, fin |-> f,
            fin_not_count |-> rcv.fin_not_count, reassembler |-> rcv.reassembler ]
  BY <1>1
<1> HIDE DEF u
<1>4. v = [ ackno |-> a, isn |-> rcv.isn, syn |-> rcv.syn, fin |-> f,
            fin_not_count |-> c, reassembler |-> rcv.reassembler ]
  BY <1>3
<1> HIDE DEF v
<1>5. [ v EXCEPT !.reassembler = r ]
        = [ ackno |-> a, isn |-> rcv.isn, syn |-> rcv.syn, fin |-> f,
            fin_not_count |-> c, reassembler |-> r ]
  BY <1>4
<1> QED BY <1>2, <1>5

\* The fields of a record in ReceiverType, and how to show that one is in it.
LEMMA ReceiverFields ==
  ASSUME NEW rcv \in ReceiverType
  PROVE  /\ rcv.ackno \in U32 /\ rcv.isn \in U32 /\ rcv.syn \in BOOLEAN
         /\ rcv.fin \in BOOLEAN /\ rcv.fin_not_count \in BOOLEAN
         /\ rcv.reassembler \in ReassemblerType
  BY DEF ReceiverType

\* A record built from fields of the right type, of a sound reassembler and
\* of the peer's initial sequence number is a sound receiver.
LEMMA ReceiverRecord ==
  ASSUME NEW a \in U32, NEW i \in U32, NEW y \in BOOLEAN, NEW f \in BOOLEAN,
         NEW c \in BOOLEAN, NEW r \in ReassemblerType, ReassemblerOK(r, Capacity),
         y => i = Isn,
         NEW rcv, rcv = [ ackno |-> a, isn |-> i, syn |-> y, fin |-> f,
                          fin_not_count |-> c, reassembler |-> r ]
  PROVE  rcv \in ReceiverType /\ ReceiverOK(rcv)
<1>1. rcv \in ReceiverType BY DEF ReceiverType
<1>2. rcv.syn = y /\ rcv.isn = i /\ rcv.reassembler = r OBVIOUS
<1> QED BY <1>1, <1>2 DEF ReceiverOK

\* Plus32 and wrap yield 32-bit values.
LEMMA Plus32Type ==
  ASSUME NEW a \in Int, NEW b \in Int
  PROVE  Plus32(a, b) \in U32
<1>1. M32 \in Nat \ {0} BY M32Type
<1>2. a + b \in Int OBVIOUS
<1>3. (a + b) % M32 \in 0..(M32 - 1) BY <1>1, <1>2, ModDef
<1> QED BY <1>3 DEF Plus32, U32

-----------------------------------------------------------------------------
\* The bounds on the counters that keep 64-bit arithmetic from overflowing.
LEMMA Bounds ==
  ASSUME NEW rcv \in ReceiverType, ReceiverOK(rcv)
  PROVE  /\ StreamLen \in Nat /\ Capacity \in Nat /\ M32 \in Nat \ {0} /\ M64 \in Nat \ {0}
         /\ HALF \in Nat \ {0} /\ StreamLen + M32 + Capacity < M64 /\ Isn \in U32
         /\ stream_out(rcv).written = rcv.reassembler.head_index
         /\ rcv.reassembler.head_index \in Nat /\ rcv.reassembler.head_index <= StreamLen
<1>1. StreamLen \in Nat /\ Capacity \in Nat /\ Isn \in U32 /\ StreamLen + M32 + Capacity < M64
  BY StreamLenType, SystemAssumption
<1>2. M32 \in Nat \ {0} /\ M64 \in Nat \ {0} /\ HALF \in Nat \ {0} BY M32Type, WidthAssumption
<1>3. rcv.reassembler \in ReassemblerType BY ReceiverFields
<1>4. rcv.reassembler.head_index \in 0..StreamLen BY <1>3, TypeFacts
<1> DEFINE h == rcv.reassembler.head_index
<1>5. h \in 0..StreamLen BY <1>4
<1> HIDE DEF h
<1>6. h \in Nat /\ h <= StreamLen BY <1>1, <1>5
<1>7. stream_out(rcv).written = rcv.reassembler.head_index
  BY DEF ReceiverOK, ReassemblerOK, OutputOK, stream_out
<1> QED BY <1>1, <1>2, <1>6, <1>7 DEF h

\* The index segment_received computes is the index of the payload, across any
\* number of wrap-arounds; a segment numbered like the SYN yields the largest
\* 64-bit number.
LEMMA IndexOfPayload ==
  ASSUME NEW rcv \in ReceiverType, ReceiverOK(rcv), rcv.syn,
         NEW i \in Int, -1 <= i, i <= StreamLen, Near(i, stream_out(rcv).written),
         NEW seg, seg.syn = FALSE, seg.seqno = wrap(i + 1, Isn)
  PROVE  StreamIndex(rcv, seg) = IF i = -1 THEN M64 - 1 ELSE i
<1> DEFINE c == stream_out(rcv).written
           x == i + 1
<1>1. /\ StreamLen \in Nat /\ Capacity \in Nat /\ M32 \in Nat \ {0} /\ M64 \in Nat \ {0}
      /\ HALF \in Nat \ {0} /\ StreamLen + M32 + Capacity < M64 /\ Isn \in U32
      /\ c \in Nat /\ c <= StreamLen
  BY Bounds
<1>2. x - c < HALF /\ c - x <= HALF
  <2>1. Near(i, c) OBVIOUS
  <2> HIDE DEF c
  <2>2. i + 1 - c < HALF /\ c - (i + 1) <= HALF BY <2>1 DEF Near
  <2> QED BY <1>1, <2>2
<1>3. rcv.isn = Isn BY DEF ReceiverOK
<1>4. StreamIndex(rcv, seg) = (unwrap(wrap(x, Isn), Isn, c) - 1) % M64
  BY <1>3 DEF StreamIndex
<1> HIDE DEF c
<1>5. x \in U64 /\ c \in U64 /\ c + M32 <= M64 BY <1>1 DEF U64
<1>6. unwrap(wrap(x, Isn), Isn, c) = x
  <2> HIDE DEF x
  <2> QED BY <1>1, <1>2, <1>5, UnwrapNearest
<1>7. StreamIndex(rcv, seg) = i % M64
  <2>1. x - 1 = i OBVIOUS
  <2> QED BY <1>4, <1>6, <2>1
<1>8. CASE i = -1
  <2>1. -1 = (-1) * M64 + (M64 - 1) /\ M64 - 1 \in 0..(M64 - 1) BY <1>1
  <2>2. (-1) % M64 = M64 - 1 BY <1>1, <2>1, ModUnique
  <2> QED BY <1>7, <1>8, <2>2
<1>9. CASE i # -1
  <2>1. i = 0 * M64 + i /\ i \in 0..(M64 - 1) BY <1>1, <1>9
  <2>2. i % M64 = i BY <1>1, <2>1, ModUnique
  <2> QED BY <1>7, <1>9, <2>2
<1> QED BY <1>8, <1>9

-----------------------------------------------------------------------------
\* The three parts of segment_received preserve the invariant.
LEMMA AcceptSynPreserves ==
  ASSUME NEW rcv \in ReceiverType, ReceiverOK(rcv),
         NEW seg, seg.syn \in BOOLEAN, seg.syn => seg.seqno = Isn
  PROVE  /\ AcceptSyn(rcv, seg) \in ReceiverType /\ ReceiverOK(AcceptSyn(rcv, seg))
         /\ AcceptSyn(rcv, seg).reassembler = rcv.reassembler
<1>1. CASE ~seg.syn BY <1>1 DEF AcceptSyn
<1>2. CASE seg.syn
  <2> DEFINE a == Plus32(seg.seqno, 1)
             t == AcceptSyn(rcv, seg)
  <2>1. t = [ ackno |-> a, isn |-> seg.seqno, syn |-> TRUE, fin |-> rcv.fin,
              fin_not_count |-> rcv.fin_not_count, reassembler |-> rcv.reassembler ]
    <3>1. t = [ rcv EXCEPT !.syn = TRUE, !.ackno = a, !.isn = seg.seqno ]
      BY <1>2 DEF AcceptSyn
    <3> HIDE DEF t, a
    <3> QED BY <3>1, UpdateSyn
  <2>2. Isn \in U32 /\ Isn \in Int BY SystemAssumption DEF U32
  <2>3. a \in U32 BY <1>2, <2>2, Plus32Type
  <2>4. rcv.fin \in BOOLEAN /\ rcv.fin_not_count \in BOOLEAN /\ rcv.reassembler \in ReassemblerType
    BY ReceiverFields
  <2>5. ReassemblerOK(rcv.reassembler, Capacity) BY DEF ReceiverOK
  <2> HIDE DEF t, a
  <2>6. t \in ReceiverType /\ ReceiverOK(t)
    BY <1>2, <2>1, <2>2, <2>3, <2>4, <2>5, ReceiverRecord, ZenonT(30)
  <2>7. t.reassembler = rcv.reassembler BY <2>1
  <2> QED BY <2>6, <2>7 DEF t
<1> QED BY <1>1, <1>2

\* segment_received hands the reassembler the peer's bytes at their index.
LEMMA PushPayloadPreserves ==
  ASSUME NEW rcv \in ReceiverType, ReceiverOK(rcv),
         NEW i \in Int, -1 <= i, NEW n \in Nat, i + n <= StreamLen, i = -1 => n = 0,
         Near(i, stream_out(rcv).written),
         NEW seg, seg.syn \in BOOLEAN, seg.fin \in BOOLEAN, seg.payload = Substring(i, n),
         IF seg.syn THEN i = 0 ELSE seg.seqno = wrap(i + 1, Isn)
  PROVE  /\ PushPayload(rcv, Capacity, seg) \in ReceiverType
         /\ ReceiverOK(PushPayload(rcv, Capacity, seg))
<1> DEFINE r == rcv.reassembler
           x == StreamIndex(rcv, seg)
           p == push_substring(r, Capacity, seg.payload, x, seg.fin)
           t == PushPayload(rcv, Capacity, seg)
<1>1. CASE Closed(rcv) BY <1>1 DEF PushPayload
<1>2. CASE ~Closed(rcv)
  <2>1. rcv.syn BY <1>2 DEF Closed
  <2>2. r \in ReassemblerType /\ ReassemblerOK(r, Capacity) BY ReceiverFields DEF ReceiverOK
  <2>3. StreamLen \in Nat /\ Capacity \in Nat BY Bounds
  <2>4. p \in ReassemblerType /\ ReassemblerOK(p, Capacity)
    <3>1. CASE seg.syn
      <4>1. x = 0 /\ i = 0 BY <3>1 DEF StreamIndex
      <4>2. 0 \in Nat /\ 0 + n <= StreamLen BY <4>1
      <4> HIDE DEF x, r
      <4> QED BY <2>2, <2>3, <4>1, <4>2, PushPreserves
    <3>2. CASE ~seg.syn
      <4>1. i <= StreamLen BY <2>3
      <4>2. x = IF i = -1 THEN M64 - 1 ELSE i
        BY <2>1, <3>2, <4>1, IndexOfPayload
      <4>3. CASE i = -1
        <5>1. x >= r.head_index + Capacity
          <6>1. /\ StreamLen \in Nat /\ Capacity \in Nat /\ M32 \in Nat \ {0} /\ M64 \in Nat \ {0}
                /\ StreamLen + M32 + Capacity < M64
                /\ r.head_index \in Nat /\ r.head_index <= StreamLen
            BY Bounds
          <6> DEFINE h == r.head_index
          <6>2. h \in Nat /\ h <= StreamLen BY <6>1
          <6> HIDE DEF h, x
          <6>3. x >= h + Capacity BY <4>2, <4>3, <6>1, <6>2
          <6> QED BY <6>3 DEF h
        <5>2. p = r BY <5>1 DEF push_substring
        <5> QED BY <2>2, <5>2
      <4>4. CASE i # -1
        <5>1. i \in Nat /\ x = i BY <4>2, <4>4
        <5> HIDE DEF x, r
        <5> QED BY <2>2, <2>3, <5>1, PushPreserves
      <4> QED BY <4>3, <4>4
    <3> QED BY <3>1, <3>2
  <2> DEFINE newly == p.output.written - stream_out(rcv).written
             a == IF seg.syn \/ rcv.ackno = seg.seqno THEN Plus32(rcv.ackno, newly) ELSE rcv.ackno
  <2>5. t = [ ackno |-> a, isn |-> rcv.isn, syn |-> rcv.syn, fin |-> rcv.fin,
              fin_not_count |-> rcv.fin_not_count, reassembler |-> p ]
    <3>1. t = [ rcv EXCEPT !.reassembler = p, !.ackno = a ]
      BY <1>2 DEF PushPayload
    <3> HIDE DEF t, p, a
    <3> QED BY <3>1, UpdatePushed, ZenonT(30)
  <2>6. /\ rcv.ackno \in U32 /\ rcv.isn \in U32 /\ rcv.syn \in BOOLEAN
        /\ rcv.fin \in BOOLEAN /\ rcv.fin_not_count \in BOOLEAN
    BY ReceiverFields
  <2>7. p.output.written \in Nat /\ stream_out(rcv).written \in Nat
    <3> HIDE DEF p
    <3>1. p.output.written \in Nat BY <2>4, TypeFacts
    <3>2. stream_out(rcv).written \in Nat BY <2>2, TypeFacts DEF stream_out
    <3> QED BY <3>1, <3>2
  <2> HIDE DEF p
  <2>8. a \in U32
    <3>1. newly \in Int BY <2>7
    <3>2. rcv.ackno \in Int BY <2>6 DEF U32
    <3> HIDE DEF newly
    <3>3. Plus32(rcv.ackno, newly) \in U32 BY <3>1, <3>2, Plus32Type
    <3> QED BY <2>6, <3>3
  <2>9. rcv.syn => rcv.isn = Isn BY DEF ReceiverOK
  <2> HIDE DEF t, a
  <2>10. t \in ReceiverType /\ ReceiverOK(t)
    BY <2>4, <2>5, <2>6, <2>8, <2>9, ReceiverRecord
  <2> QED BY <2>10 DEF t
<1> QED BY <1>1, <1>2

\* Counting the FIN ends the output stream and leaves its bytes alone.
LEMMA CountFinPreserves ==
  ASSUME NEW rcv \in ReceiverType, ReceiverOK(rcv), NEW seg, seg.fin \in BOOLEAN
  PROVE  CountFin(rcv, seg) \in ReceiverType /\ ReceiverOK(CountFin(rcv, seg))
<1> DEFINE f == rcv.fin \/ (seg.fin /\ rcv.syn)
           r == rcv.reassembler
           t == CountFin(rcv, seg)
<1>1. /\ rcv.ackno \in U32 /\ rcv.isn \in U32 /\ rcv.syn \in BOOLEAN
      /\ rcv.fin \in BOOLEAN /\ rcv.fin_not_count \in BOOLEAN /\ r \in ReassemblerType
  BY ReceiverFields
<1>2. ReassemblerOK(r, Capacity) /\ (rcv.syn => rcv.isn = Isn) BY DEF ReceiverOK
<1>3. f \in BOOLEAN /\ Capacity \in Nat BY <1>1, SystemAssumption
<1>4. CASE f /\ empty(r)
  <2> DEFINE a   == IF rcv.fin_not_count THEN Plus32(rcv.ackno, 1) ELSE rcv.ackno
             o   == EndOutput(r)
             yes == TRUE
             no  == FALSE
  <2>1. t = [ ackno |-> a, isn |-> rcv.isn, syn |-> rcv.syn, fin |-> yes,
              fin_not_count |-> no, reassembler |-> o ]
    <3>1. t = FinCounted(rcv, yes, a, no, o) BY <1>4 DEF CountFin, FinCounted
    <3> HIDE DEF t, a, o, yes, no
    <3> QED BY <3>1, UpdateFinCounted
  <2>2. a \in U32
    <3>1. rcv.ackno \in Int BY <1>1 DEF U32
    <3>2. Plus32(rcv.ackno, 1) \in U32 BY <3>1, Plus32Type
    <3> QED BY <1>1, <3>2
  <2>3. o \in ReassemblerType /\ ReassemblerOK(o, Capacity)
    BY <1>1, <1>2, <1>3, EndOutputPreserves
  <2> HIDE DEF t, a, o
  <2>4. t \in ReceiverType /\ ReceiverOK(t)
    <3>1. yes \in BOOLEAN /\ no \in BOOLEAN OBVIOUS
    <3> HIDE DEF yes, no
    <3> QED BY <1>1, <1>2, <2>1, <2>2, <2>3, <3>1, ReceiverRecord
  <2> QED BY <2>4 DEF t
<1>5. CASE ~(f /\ empty(r))
  <2>1. t = [ ackno |-> rcv.ackno, isn |-> rcv.isn, syn |-> rcv.syn, fin |-> f,
              fin_not_count |-> rcv.fin_not_count, reassembler |-> r ]
    <3>1. t = [ rcv EXCEPT !.fin = f ] BY <1>5 DEF CountFin
    <3> HIDE DEF t, f
    <3> QED BY <3>1, UpdateFin
  <2> HIDE DEF t, f
  <2>2. t \in ReceiverType /\ ReceiverOK(t) BY <1>1, <1>2, <1>3, <2>1, ReceiverRecord
  <2> QED BY <2>2 DEF t
<1> QED BY <1>4, <1>5

\* segment_received preserves the invariant for every segment of the peer.
LEMMA SegmentPreserves ==
  ASSUME NEW rcv \in ReceiverType, ReceiverOK(rcv),
         NEW i \in Int, -1 <= i, NEW n \in Nat, i + n <= StreamLen, i = -1 => n = 0,
         Near(i, stream_out(rcv).written),
         NEW y \in BOOLEAN, NEW f \in BOOLEAN, y => i = 0
  PROVE  LET t == segment_received(rcv, Capacity, PeerSegment(i, n, y, f))
         IN  t \in ReceiverType /\ ReceiverOK(t)
<1> DEFINE seg == PeerSegment(i, n, y, f)
           a == AcceptSyn(rcv, seg)
           b == PushPayload(a, Capacity, seg)
           t == segment_received(rcv, Capacity, seg)
<1>1. /\ seg.syn = y /\ seg.fin = f /\ seg.payload = Substring(i, n)
      /\ seg.seqno = wrap(IF y THEN i ELSE i + 1, Isn)
  BY DEF PeerSegment
<1> HIDE DEF seg
<1>2. y => wrap(i, Isn) = Isn
  <2> SUFFICES ASSUME y PROVE wrap(0, Isn) = Isn OBVIOUS
  <2>1. M32 \in Nat \ {0} /\ Isn \in 0..(M32 - 1) BY M32Type, SystemAssumption DEF U32
  <2>2. 0 % M32 = 0
    <3>1. 0 = 0 * M32 + 0 /\ 0 \in 0..(M32 - 1) BY <2>1
    <3> QED BY <2>1, <3>1, ModUnique
  <2>3. (0 + Isn) % M32 = Isn
    <3>1. 0 + Isn = 0 * M32 + Isn /\ 0 + Isn \in Int BY <2>1
    <3> QED BY <2>1, <3>1, ModUnique
  <2> QED BY <2>2, <2>3 DEF wrap
<1>3. seg.syn \in BOOLEAN /\ seg.fin \in BOOLEAN /\ (seg.syn => seg.seqno = Isn)
  BY <1>1, <1>2
<1>4. a \in ReceiverType /\ ReceiverOK(a) /\ a.reassembler = rcv.reassembler
  BY <1>3, AcceptSynPreserves
<1> HIDE DEF a
<1>5. Near(i, stream_out(a).written) BY <1>4 DEF stream_out
<1>6. IF seg.syn THEN i = 0 ELSE seg.seqno = wrap(i + 1, Isn) BY <1>1
<1>7. b \in ReceiverType /\ ReceiverOK(b)
  BY <1>1, <1>3, <1>4, <1>5, <1>6, PushPayloadPreserves
<1> HIDE DEF b
<1>8. CountFin(b, seg) \in ReceiverType /\ ReceiverOK(CountFin(b, seg))
  BY <1>3, <1>7, CountFinPreserves
<1>9. t = rcv \/ t = CountFin(b, seg) BY DEF segment_received, b, a
<1> HIDE DEF t
<1>10. t \in ReceiverType /\ ReceiverOK(t) BY <1>8, <1>9
<1> QED BY <1>10 DEF t, seg

-----------------------------------------------------------------------------
\* A new receiver satisfies the invariant.
LEMMA InitInv == Init => Inv
<1> SUFFICES ASSUME Init PROVE Inv OBVIOUS
<1> DEFINE r == NewReassembler
           o == NewByteStream
           none == <<>>
<1>1. StreamLen \in Nat /\ Capacity \in Nat BY StreamLenType, SystemAssumption
<1>2. none \in Seq(Byte) /\ Len(none) = 0 BY EmptySeq
<1>3. o \in ByteStreamType(Byte) BY <1>2 DEF NewByteStream, ByteStreamType
<1>4. /\ o.written = 0 /\ o.readden = 0 /\ o.buffer = none BY DEF NewByteStream
<1>5. none = Substring(0, 0)
  <2>1. 0 + 1 \in Int /\ 0 + 0 \in Int /\ 0 + 0 < 0 + 1 OBVIOUS
  <2> QED BY <2>1, SubSeqEmpty DEF Substring
<1>6. DOMAIN none = {} /\ none = [ j \in {} |-> ByteAt(j) ]
  <2>1. none \in [1..0 -> Byte] /\ DOMAIN none = 1..0 BY <1>2, LenProperties
  <2>2. 1..0 = {} OBVIOUS
  <2> HIDE DEF none
  <2> QED BY <2>1, <2>2
<1>7. /\ r.stored = none /\ r.unassembled = 0 /\ r.head_index = 0 /\ r.output = o
      /\ r = [ stored |-> none, unassembled |-> 0, head_index |-> 0,
               eof_flag |-> FALSE, output |-> o ]
  BY DEF NewReassembler
<1> HIDE DEF none, o, r
<1>8. r \in ReassemblerType
  <2>1. none \in PartialStream
    <3>1. {} \in SUBSET (0..(StreamLen - 1)) OBVIOUS
    <3> QED BY <1>6, <3>1 DEF PartialStream
  <2>2. 0 \in Nat /\ 0 \in 0..StreamLen /\ FALSE \in BOOLEAN BY <1>1
  <2> QED BY <1>3, <1>7, <2>1, <2>2 DEF ReassemblerType
<1>9. OutputOK(r, Capacity)
  BY <1>1, <1>2, <1>4, <1>5, <1>7 DEF OutputOK
<1>10. StoreOK(r)
  <2>1. Cardinality({}) = 0 BY FS_EmptySet
  <2> QED BY <1>6, <1>7, <2>1 DEF StoreOK
<1>11. ReassemblerOK(r, Capacity) BY <1>9, <1>10 DEF ReassemblerOK
<1>12. 0 \in U32 BY M32Type DEF U32
<1>13. receiver = [ ackno |-> 0, isn |-> 0, syn |-> FALSE, fin |-> FALSE,
                    fin_not_count |-> TRUE, reassembler |-> r ]
  BY DEF Init, NewTCPReceiver, r
<1>14. receiver \in ReceiverType /\ receiver.syn = FALSE /\ receiver.reassembler = r
  BY <1>8, <1>12, <1>13 DEF ReceiverType
<1> QED BY <1>11, <1>14 DEF Inv, TypeOK, ReceiverOK

\* Every step preserves it.
LEMMA NextInv == Inv /\ [Next]_receiver => Inv'
<1> SUFFICES ASSUME Inv, [Next]_receiver PROVE Inv' OBVIOUS
<1>1. receiver \in ReceiverType /\ ReceiverOK(receiver) BY DEF Inv, TypeOK
<1>2. StreamLen \in Nat /\ Capacity \in Nat BY StreamLenType, SystemAssumption
<1>3. ASSUME NEW p \in Pieces, NEW y \in BOOLEAN, NEW f \in BOOLEAN, SegmentReceived(p, y, f)
      PROVE  Inv'
  <2> DEFINE i == p.begin
             n == p.len
             t == segment_received(receiver, Capacity, PeerSegment(i, n, y, f))
  <2>1. i \in Nat /\ n \in Nat BY SystemAssumption
  <2>2. /\ i + n <= StreamLen /\ Near(i, stream_out(receiver).written)
        /\ (y => i = 0) /\ receiver' = t
    BY <1>3 DEF SegmentReceived, MaySend, Written
  <2> HIDE DEF i, n
  <2>3. i \in Int /\ -1 <= i /\ (i = -1 => n = 0) BY <2>1
  <2>4. t \in ReceiverType /\ ReceiverOK(t)
    BY <1>1, <2>1, <2>2, <2>3, SegmentPreserves
  <2> QED BY <2>2, <2>4 DEF Inv, TypeOK, ReceiverOK
<1>4. ASSUME NEW i \in -1..StreamLen, EmptySegmentReceived(i)
      PROVE  Inv'
  <2> DEFINE t == segment_received(receiver, Capacity, PeerSegment(i, 0, FALSE, FALSE))
  <2>1. /\ i \in Int /\ -1 <= i /\ i + 0 <= StreamLen /\ 0 \in Nat /\ (i = -1 => 0 = 0)
        /\ FALSE \in BOOLEAN /\ (FALSE => i = 0)
    BY <1>2
  <2>2. Near(i, stream_out(receiver).written) /\ receiver' = t
    BY <1>4 DEF EmptySegmentReceived, Written
  <2>3. t \in ReceiverType /\ ReceiverOK(t)
    BY <1>1, <2>1, <2>2, SegmentPreserves
  <2> QED BY <2>2, <2>3 DEF Inv, TypeOK, ReceiverOK
<1>5. ASSUME NEW n \in 1..Capacity, ReadOutput(n)
      PROVE  Inv'
  <2> DEFINE r == receiver.reassembler
             o == PopOutput(r, n)
  <2>1. n \in Nat /\ n <= Len(r.output.buffer) /\ receiver' = [ receiver EXCEPT !.reassembler = o ]
    BY <1>2, <1>5 DEF ReadOutput, stream_out
  <2>2. r \in ReassemblerType /\ ReassemblerOK(r, Capacity) BY <1>1, ReceiverFields DEF ReceiverOK
  <2>3. o \in ReassemblerType /\ ReassemblerOK(o, Capacity)
    BY <1>2, <2>1, <2>2, PopOutputPreserves
  <2> HIDE DEF o
  <2>4. receiver' = [ ackno |-> receiver.ackno, isn |-> receiver.isn, syn |-> receiver.syn,
                      fin |-> receiver.fin, fin_not_count |-> receiver.fin_not_count,
                      reassembler |-> o ]
    BY <1>1, <2>1, UpdateReassembler
  <2>5. receiver.syn => receiver.isn = Isn BY <1>1 DEF ReceiverOK
  <2>6. receiver' \in ReceiverType /\ ReceiverOK(receiver')
    BY <1>1, <2>3, <2>4, <2>5, ReceiverFields, ReceiverRecord
  <2> QED BY <2>6 DEF Inv, TypeOK, ReceiverOK
<1>6. CASE UNCHANGED receiver BY <1>6 DEF Inv, TypeOK, ReceiverOK
<1> QED BY <1>3, <1>4, <1>5, <1>6 DEF Next

\* Type correctness and the inductive invariant hold in every reachable state.
THEOREM InvAlways == Spec => []Inv
<1>1. Init => Inv BY InitInv
<1>2. Inv /\ [Next]_receiver => Inv' BY NextInv
<1> QED BY <1>1, <1>2, PTL DEF Spec

\* The receiver's fields keep their types; in particular _unassembled_byte never
\* runs below zero, where the program's size_t would wrap around.
THEOREM TypeCorrect == Spec => []TypeOK
<1>1. Inv => TypeOK BY DEF Inv
<1> QED BY <1>1, InvAlways, PTL

\* The application reads the peer's stream, in order and without a gap,
\* whatever the network does to the segments and however often the sequence
\* numbers wrap around.
THEOREM OutputIsPrefixAlways == Spec => []OutputIsPrefix
<1>1. Inv => OutputIsPrefix
  <2> SUFFICES ASSUME Inv PROVE OutputIsPrefix OBVIOUS
  <2>1. receiver \in ReceiverType /\ ReceiverOK(receiver) BY DEF Inv, TypeOK
  <2>2. /\ stream_out(receiver).written = receiver.reassembler.head_index
        /\ receiver.reassembler.head_index <= StreamLen
    BY <2>1, Bounds
  <2>3. OutputOK(receiver.reassembler, Capacity) BY <2>1 DEF ReceiverOK, ReassemblerOK
  <2> QED BY <2>2, <2>3 DEF OutputOK, OutputIsPrefix, stream_out
<1> QED BY <1>1, InvAlways, PTL

-----------------------------------------------------------------------------
\* What a segment does to the ackno, for a peer that stays in the window and
\* sends its FIN with or after the last byte.  The width of the sequence
\* numbers leaves room for the SYN and the FIN next to the half that unwrap
\* needs.
OrderlyPeer == WindowRespected /\ ~BareFin /\ HALF > 2

\* With OrderlyPeer the receiver forgets neither the FIN nor the bytes before
\* it, and counts the FIN only after the last byte.
RcvTight(rcv) ==
    /\ Tight(rcv.reassembler, Capacity)
    /\ ~rcv.syn => rcv.reassembler.head_index = 0 /\ ~rcv.fin /\ rcv.fin_not_count
    /\ rcv.fin /\ rcv.reassembler.head_index < StreamLen
         => StreamLen - 1 \in DOMAIN rcv.reassembler.stored
    /\ ~rcv.fin_not_count => rcv.fin /\ rcv.reassembler.head_index = StreamLen

\* wrap and Plus32 commute, and wrap is one-to-one within 2^32.
LEMMA PlusWrap ==
  ASSUME NEW x \in Int, NEW k \in Int
  PROVE  Plus32(wrap(x, Isn), k) = wrap(x + k, Isn)
<1> DEFINE w == wrap(x, Isn)
           v == wrap(x + k, Isn)
<1>1. M32 \in Nat \ {0} /\ Isn \in Int /\ x + k \in Int BY M32Type, SystemAssumption DEF U32
<1>2. w \in 0..(M32 - 1) /\ \E p \in Int : x + Isn = p * M32 + w BY <1>1, WrapCongruent
<1>3. v \in 0..(M32 - 1) /\ \E q \in Int : x + k + Isn = q * M32 + v
  <2> HIDE DEF v
  <2>1. /\ wrap(x + k, Isn) \in 0..(M32 - 1)
        /\ \E q \in Int : (x + k) + Isn = q * M32 + wrap(x + k, Isn)
    BY <1>1, WrapCongruent
  <2> QED BY <2>1 DEF v
<1> HIDE DEF w, v
<1>4. PICK p \in Int : x + Isn = p * M32 + w BY <1>2
<1>5. PICK q \in Int : x + k + Isn = q * M32 + v BY <1>3
<1>6. (q - p) * M32 = q * M32 - p * M32 /\ q * M32 \in Int /\ p * M32 \in Int BY <1>1
<1>7. w + k = (q - p) * M32 + v /\ w + k \in Int /\ q - p \in Int
  BY <1>1, <1>2, <1>3, <1>4, <1>5, <1>6
<1>8. (w + k) % M32 = v
  <2>1. M32 \in Nat \ {0} /\ v \in 0..(M32 - 1) BY <1>1, <1>3
  <2> QED BY <1>7, <2>1, ModUnique
<1> QED BY <1>8 DEF Plus32, w, v

LEMMA WrapInjective ==
  ASSUME NEW x \in Int, NEW y \in Int, x - y < M32, y - x < M32, wrap(x, Isn) = wrap(y, Isn)
  PROVE  x = y
<1>1. M32 \in Nat \ {0} /\ Isn \in Int BY M32Type, SystemAssumption DEF U32
<1>2. PICK p \in Int : x + Isn = p * M32 + wrap(x, Isn) BY <1>1, WrapCongruent
<1>3. PICK q \in Int : y + Isn = q * M32 + wrap(x, Isn)
  <2>1. \E q \in Int : y + Isn = q * M32 + wrap(y, Isn) BY <1>1, WrapCongruent
  <2> QED BY <2>1
<1>4. wrap(x, Isn) \in Int BY <1>1, WrapCongruent
<1>5. (p - q) * M32 = p * M32 - q * M32 /\ p * M32 \in Int /\ q * M32 \in Int BY <1>1
<1>6. x - y = (p - q) * M32 BY <1>1, <1>2, <1>3, <1>4, <1>5
<1>7. CASE p - q = 0 BY <1>1, <1>6, <1>7
<1>8. CASE p - q >= 1
  <2>1. (p - q) * M32 >= M32 BY <1>1, <1>8
  <2> QED BY <1>1, <1>6, <2>1
<1>9. CASE p - q <= -1
  <2>1. (p - q) * M32 <= 0 - M32 BY <1>1, <1>9
  <2> QED BY <1>1, <1>6, <2>1
<1> QED BY <1>7, <1>8, <1>9

\* While nothing is stored at or above the end, advancing leaves all as it is.
LEMMA FullAdvances ==
  ASSUME NEW rcv \in ReceiverType, ReceiverOK(rcv), rcv.reassembler.head_index = StreamLen,
         NEW i \in Int, NEW n \in Nat, i + n <= StreamLen
  PROVE  Advanced(rcv.reassembler, rcv.reassembler, Offered(rcv.reassembler, i, n))
<1> DEFINE r == rcv.reassembler
           S == DOMAIN r.stored
<1>1. r \in ReassemblerType /\ StreamLen \in Nat BY ReceiverFields, StreamLenType
<1>2. S \in SUBSET (0..(StreamLen - 1)) /\ \A j \in S : StreamLen <= j
  BY <1>1, TypeFacts DEF ReceiverOK, ReassemblerOK, StoreOK
<1>3. S = {} BY <1>1, <1>2
<1>4. Offered(r, i, n) = {} BY <1>1, <1>3 DEF Offered
<1>5. StreamLen..(StreamLen - 1) = {} BY <1>1
<1> QED BY <1>1, <1>3, <1>4, <1>5 DEF Advanced

\* The ackno after PushPayload moved the head from w to v.
Moved(a, i, w, v) == IF a = wrap(i + 1, Isn) THEN Plus32(a, v - w) ELSE a

\* The receiver t after n bytes at index i, with the end mark f, were pushed.
Pushed(rcv, t, i, n, f) ==
    LET r == rcv.reassembler
        q == t.reassembler
    IN  /\ Advanced(r, q, Offered(r, i, n)) /\ Tight(q, Capacity)
        /\ f /\ q.head_index < StreamLen => StreamLen - 1 \in DOMAIN q.stored
        /\ t.syn = rcv.syn /\ t.fin = rcv.fin /\ t.fin_not_count = rcv.fin_not_count
        /\ t.ackno = Moved(rcv.ackno, i, r.head_index, q.head_index)

\* PushPayload advances the reassembler over the indices of the segment, and
\* the ackno by as much if the segment begins at it.
LEMMA PushPayloadEffect ==
  ASSUME NEW rcv \in ReceiverType, ReceiverOK(rcv), RcvTight(rcv), rcv.syn,
         NEW i \in Int, -1 <= i, NEW n \in Nat, i + n <= StreamLen, i = -1 => n = 0,
         i + n <= rcv.reassembler.output.readden + Capacity,
         Near(i, stream_out(rcv).written),
         NEW seg, seg.syn \in BOOLEAN, seg.payload = Substring(i, n),
         IF seg.syn THEN i = 0 /\ rcv.ackno = wrap(1, Isn) ELSE seg.seqno = wrap(i + 1, Isn),
         seg.fin \in BOOLEAN,
         seg.fin => i + n = StreamLen /\ (n > 0 \/ i <= rcv.reassembler.head_index)
  PROVE  Pushed(rcv, PushPayload(rcv, Capacity, seg), i, n, seg.fin)
<1> DEFINE r == rcv.reassembler
           x == StreamIndex(rcv, seg)
           p == push_substring(r, Capacity, seg.payload, x, seg.fin)
           t == PushPayload(rcv, Capacity, seg)
           A == Offered(r, i, n)
           h == r.head_index
<1>1. /\ StreamLen \in Nat /\ Capacity \in Nat /\ M32 \in Nat \ {0} /\ M64 \in Nat \ {0}
      /\ StreamLen + M32 + Capacity < M64
      /\ stream_out(rcv).written = h /\ h \in Nat /\ h <= StreamLen
  BY Bounds
<1>2. /\ r \in ReassemblerType /\ ReassemblerOK(r, Capacity) /\ rcv.ackno \in U32
      /\ DOMAIN r.stored \in SUBSET (0..(StreamLen - 1))
  BY ReceiverFields, TypeFacts DEF ReceiverOK
<1>3. /\ Tight(r, Capacity) /\ (rcv.fin /\ h < StreamLen => StreamLen - 1 \in DOMAIN r.stored)
  BY DEF RcvTight
<1>4. seg.syn \/ rcv.ackno = seg.seqno <=> rcv.ackno = wrap(i + 1, Isn) OBVIOUS
<1>5. Advanced(r, r, DOMAIN r.stored)
  <2>1. h..(h - 1) = {} /\ h <= h BY <1>1
  <2>2. \A j \in DOMAIN r.stored : h <= j BY <1>2 DEF ReassemblerOK, StoreOK
  <2>3. DOMAIN r.stored = { j \in DOMAIN r.stored : h <= j } BY <2>2
  <2> QED BY <1>1, <1>3, <2>1, <2>3 DEF Advanced, Tight
<1>6. CASE Closed(rcv)
  <2>1. t = rcv BY <1>6 DEF PushPayload
  <2>2. rcv.fin /\ empty(r) BY <1>6 DEF Closed
  <2>3. h = StreamLen
    <3>1. ~(h < StreamLen) BY <1>2, <1>3, <2>2, StoredNotEmpty, SystemAssumption
    <3> QED BY <1>1, <3>1
  <2>4. Advanced(r, r, A) BY <2>3, FullAdvances
  <2>5. Moved(rcv.ackno, i, h, h) = rcv.ackno
    <3>1. h - h = 0 BY <1>1
    <3>2. Plus32(rcv.ackno, 0) = rcv.ackno
      <4>1. rcv.ackno \in 0..(M32 - 1) /\ rcv.ackno \in Int BY <1>1, <1>2 DEF U32
      <4>2. rcv.ackno + 0 = 0 * M32 + rcv.ackno /\ rcv.ackno + 0 \in Int BY <1>1, <4>1
      <4>3. (rcv.ackno + 0) % M32 = rcv.ackno BY <1>1, <4>1, <4>2, ModUnique
      <4> QED BY <4>3 DEF Plus32
    <3> QED BY <3>1, <3>2 DEF Moved
  <2>6. ~(h < StreamLen) BY <1>1, <2>3
  <2> QED BY <1>3, <2>1, <2>4, <2>5, <2>6 DEF Pushed
<1>7. CASE ~Closed(rcv)
  <2>1. /\ Advanced(r, p, A) /\ Tight(p, Capacity) /\ p \in ReassemblerType
        /\ seg.fin /\ p.head_index < StreamLen => StreamLen - 1 \in DOMAIN p.stored
        /\ p.output.written = p.head_index
    <3>1. CASE i = -1
      <4>1. x = M64 - 1
        <5>1. seg.syn = FALSE /\ seg.seqno = wrap(i + 1, Isn) /\ i <= StreamLen BY <1>1, <3>1
        <5>2. StreamIndex(rcv, seg) = IF i = -1 THEN M64 - 1 ELSE i BY <5>1, IndexOfPayload
        <5> QED BY <3>1, <5>2
      <4>2. x >= h + Capacity
        <5> HIDE DEF x, h
        <5> QED BY <1>1, <4>1
      <4>3. p = r BY <4>2 DEF push_substring
      <4>4. A = DOMAIN r.stored
        <5>1. n = 0 BY <3>1
        <5>2. i..(i + n - 1) = {} BY <5>1
        <5> QED BY <5>2 DEF Offered
      <4>5. ~seg.fin BY <1>1, <3>1
      <4>6. r.output.written = h BY <1>2 DEF ReassemblerOK, OutputOK
      <4> QED BY <1>2, <1>3, <1>5, <4>3, <4>4, <4>5, <4>6
    <3>2. CASE i # -1
      <4>1. i \in Nat BY <3>2
      <4>2. x = i
        <5>1. i <= StreamLen BY <1>1
        <5>2. CASE seg.syn BY <5>2 DEF StreamIndex
        <5>3. CASE ~seg.syn
          <6>1. seg.syn = FALSE /\ seg.seqno = wrap(i + 1, Isn) BY <5>3
          <6> QED BY <3>2, <5>1, <6>1, IndexOfPayload
        <5> QED BY <5>2, <5>3
      <4>3. p = push_substring(r, Capacity, Substring(i, n), i, seg.fin) BY <4>2
      <4> HIDE DEF p, x, A
      <4>4. i + n <= r.output.readden + Capacity
            /\ (seg.fin => i + n = StreamLen /\ (n > 0 \/ i <= r.head_index))
        OBVIOUS
      <4>5. /\ Advanced(r, p, A) /\ Tight(p, Capacity)
            /\ seg.fin /\ p.head_index < StreamLen => StreamLen - 1 \in DOMAIN p.stored
        <5> HIDE DEF r
        <5> QED BY <1>1, <1>2, <1>3, <4>1, <4>3, <4>4, PushAdvances DEF A
      <4>6. p \in ReassemblerType /\ ReassemblerOK(p, Capacity)
        <5> HIDE DEF r
        <5> QED BY <1>1, <1>2, <4>1, <4>3, PushPreserves
      <4>7. p.output.written = p.head_index BY <4>6 DEF ReassemblerOK, OutputOK
      <4> QED BY <4>5, <4>6, <4>7
    <3> QED BY <3>1, <3>2
  <2> DEFINE newly == p.output.written - stream_out(rcv).written
             a == IF seg.syn \/ rcv.ackno = seg.seqno THEN Plus32(rcv.ackno, newly) ELSE rcv.ackno
  <2>2. t = [ ackno |-> a, isn |-> rcv.isn, syn |-> rcv.syn, fin |-> rcv.fin,
              fin_not_count |-> rcv.fin_not_count, reassembler |-> p ]
    <3>1. t = [ rcv EXCEPT !.reassembler = p, !.ackno = a ]
      BY <1>7 DEF PushPayload
    <3> HIDE DEF t, p, a
    <3> QED BY <3>1, UpdatePushed, ZenonT(30)
  <2>3. a = Moved(rcv.ackno, i, h, p.head_index)
    <3> HIDE DEF p, h
    <3> QED BY <1>1, <1>4, <2>1 DEF Moved
  <2> HIDE DEF p, a, t, A, h
  <2>4. /\ t.reassembler = p /\ t.syn = rcv.syn /\ t.fin = rcv.fin
        /\ t.fin_not_count = rcv.fin_not_count /\ t.ackno = a
    BY <2>2
  <2> QED BY <2>1, <2>3, <2>4 DEF Pushed, t, A, h
<1> QED BY <1>6, <1>7

\* CountFin leaves the bytes alone and counts the FIN after the last of them.
LEMMA CountFinEffect ==
  ASSUME NEW rcv \in ReceiverType, ReceiverOK(rcv), rcv.syn, NEW seg, seg.fin \in BOOLEAN,
         Tight(rcv.reassembler, Capacity),
         rcv.fin \/ seg.fin => (rcv.reassembler.head_index < StreamLen
                                  => StreamLen - 1 \in DOMAIN rcv.reassembler.stored),
         ~rcv.fin_not_count => rcv.fin /\ rcv.reassembler.head_index = StreamLen
  PROVE  LET t == CountFin(rcv, seg)
             r == rcv.reassembler
         IN  /\ RcvTight(t) /\ t.syn
             /\ t.reassembler.stored = r.stored /\ t.reassembler.head_index = r.head_index
             /\ t.reassembler.output.readden = r.output.readden
             /\ ~rcv.fin_not_count => ~t.fin_not_count
             /\ t.ackno = IF rcv.fin_not_count /\ ~t.fin_not_count
                            THEN Plus32(rcv.ackno, 1) ELSE rcv.ackno
<1> DEFINE r == rcv.reassembler
           f == rcv.fin \/ (seg.fin /\ rcv.syn)
           h == r.head_index
           t == CountFin(rcv, seg)
<1>1. /\ r \in ReassemblerType /\ ReassemblerOK(r, Capacity) /\ Capacity \in Nat
      /\ rcv.fin_not_count \in BOOLEAN /\ rcv.fin \in BOOLEAN
      /\ StreamLen \in Nat /\ h \in Nat /\ h <= StreamLen
  BY ReceiverFields, Bounds DEF ReceiverOK
<1>2. CASE f /\ empty(r)
  <2> DEFINE a   == IF rcv.fin_not_count THEN Plus32(rcv.ackno, 1) ELSE rcv.ackno
             o   == EndOutput(r)
             yes == TRUE
             no  == FALSE
  <2>1. t = [ ackno |-> a, isn |-> rcv.isn, syn |-> rcv.syn, fin |-> yes,
              fin_not_count |-> no, reassembler |-> o ]
    <3>1. t = FinCounted(rcv, yes, a, no, o) BY <1>2 DEF CountFin, FinCounted
    <3> HIDE DEF t, a, o, yes, no
    <3> QED BY <3>1, UpdateFinCounted
  <2>2. h = StreamLen
    <3>1. ~(h < StreamLen) BY <1>1, <1>2, StoredNotEmpty
    <3> QED BY <1>1, <3>1
  <2>3. /\ Tight(o, Capacity) /\ o.stored = r.stored /\ o.head_index = h
        /\ o.output.readden = r.output.readden
    BY <1>1, <2>2, EndOutputTight
  <2> HIDE DEF t, a, o, h
  <2>4. /\ t.ackno = a /\ t.syn = rcv.syn /\ t.fin = TRUE /\ t.fin_not_count = FALSE
        /\ t.reassembler = o
    BY <2>1
  <2>5. RcvTight(t) BY <1>1, <2>2, <2>3, <2>4 DEF RcvTight
  <2> QED BY <2>3, <2>4, <2>5 DEF t, a, h
<1>3. CASE ~(f /\ empty(r))
  <2>1. t = [ ackno |-> rcv.ackno, isn |-> rcv.isn, syn |-> rcv.syn, fin |-> f,
              fin_not_count |-> rcv.fin_not_count, reassembler |-> r ]
    <3>1. t = [ rcv EXCEPT !.fin = f ] BY <1>3 DEF CountFin
    <3> HIDE DEF t, f
    <3> QED BY <3>1, UpdateFin
  <2>2. f => rcv.fin \/ seg.fin OBVIOUS
  <2>3. rcv.fin => f OBVIOUS
  <2> HIDE DEF t, f
  <2>4. /\ t.ackno = rcv.ackno /\ t.syn = rcv.syn /\ t.fin = f
        /\ t.fin_not_count = rcv.fin_not_count /\ t.reassembler = r
    BY <2>1
  <2>5. RcvTight(t) BY <2>2, <2>3, <2>4 DEF RcvTight
  <2> QED BY <2>4, <2>5 DEF t
<1> QED BY <1>2, <1>3

\* The segments of an orderly peer.
Orderly(rcv, i, n, y, f) ==
    /\ i \in Int /\ -1 <= i /\ n \in Nat /\ i + n <= StreamLen /\ (i = -1 => n = 0)
    /\ Near(i, stream_out(rcv).written)
    /\ y \in BOOLEAN /\ f \in BOOLEAN /\ (y => i = 0)
    /\ i + n <= rcv.reassembler.output.readden + Capacity
    /\ f => i + n = StreamLen /\ (n > 0 \/ i <= rcv.reassembler.head_index)

\* The receiver t after an accepted segment for n bytes at index i: the head
\* passes what is there, and an ackno that stood for the number b moves as far
\* if the segment begins at b, and over the FIN once it is counted.
Accepted(rcv, t, i, n, b) ==
    LET h == rcv.reassembler.head_index
        v == t.reassembler.head_index
    IN  /\ t.syn
        /\ Advanced(rcv.reassembler, t.reassembler, Offered(rcv.reassembler, i, n))
        /\ ~rcv.fin_not_count => ~t.fin_not_count
        /\ t.ackno = wrap(b + (IF b = i + 1 THEN v - h ELSE 0)
                            + (IF rcv.fin_not_count /\ ~t.fin_not_count THEN 1 ELSE 0), Isn)

\* segment_received refuses a segment, or accepts it as described.
LEMMA SegmentEffect ==
  ASSUME NEW rcv \in ReceiverType, ReceiverOK(rcv), RcvTight(rcv),
         NEW i, NEW n, NEW y, NEW f, Orderly(rcv, i, n, y, f),
         NEW b \in Int, rcv.syn => rcv.ackno = wrap(b, Isn), ~rcv.syn => b = 1,
         rcv.syn => b - (i + 1) < M32 /\ (i + 1) - b < M32
  PROVE  LET t == segment_received(rcv, Capacity, PeerSegment(i, n, y, f))
         IN  /\ t \in ReceiverType /\ ReceiverOK(t) /\ RcvTight(t)
             /\ t = rcv \/ Accepted(rcv, t, i, n, b)
<1> DEFINE seg == PeerSegment(i, n, y, f)
           a == AcceptSyn(rcv, seg)
           p == PushPayload(a, Capacity, seg)
           t == segment_received(rcv, Capacity, seg)
           r == rcv.reassembler
           h == r.head_index
           q == p.reassembler
<1>1. /\ i \in Int /\ -1 <= i /\ n \in Nat /\ i + n <= StreamLen /\ (i = -1 => n = 0)
      /\ Near(i, stream_out(rcv).written)
      /\ y \in BOOLEAN /\ f \in BOOLEAN /\ (y => i = 0)
      /\ i + n <= r.output.readden + Capacity
      /\ f => i + n = StreamLen /\ (n > 0 \/ i <= h)
  BY DEF Orderly
<1>2. t \in ReceiverType /\ ReceiverOK(t) BY <1>1, SegmentPreserves
<1>3. /\ seg.syn = y /\ seg.fin = f /\ seg.payload = Substring(i, n)
      /\ seg.seqno = wrap(IF y THEN i ELSE i + 1, Isn)
  BY DEF PeerSegment
<1> HIDE DEF seg
<1>4. CASE y /\ rcv.syn
  <2>1. t = rcv BY <1>3, <1>4 DEF segment_received
  <2> QED BY <2>1 DEF t, seg
<1>5. CASE ~y /\ ~rcv.syn
  <2>1. a = rcv BY <1>3, <1>5 DEF AcceptSyn
  <2>2. p = rcv BY <1>5, <2>1 DEF PushPayload, Closed
  <2>3. rcv.fin = FALSE BY <1>5, ReceiverFields DEF RcvTight
  <2>4. t = [ rcv EXCEPT !.fin = FALSE ]
    BY <1>3, <1>5, <2>2, <2>3 DEF segment_received, CountFin
  <2>5. t = rcv
    <3>1. rcv = [ ackno |-> rcv.ackno, isn |-> rcv.isn, syn |-> rcv.syn, fin |-> rcv.fin,
                  fin_not_count |-> rcv.fin_not_count, reassembler |-> rcv.reassembler ]
      BY DEF ReceiverType
    <3> HIDE DEF t
    <3> QED BY <2>3, <2>4, <3>1, UpdateFin
  <2> QED BY <2>5 DEF t, seg
<1>6. CASE y <=> ~rcv.syn
  <2>1. /\ a \in ReceiverType /\ ReceiverOK(a) /\ a.reassembler = r /\ a.syn
        /\ a.fin = rcv.fin /\ a.fin_not_count = rcv.fin_not_count
        /\ a.ackno = wrap(b, Isn) /\ (y => b = 1)
    <3>1. CASE ~y
      <4>1. a = rcv BY <1>3, <3>1 DEF AcceptSyn
      <4> QED BY <1>6, <3>1, <4>1
    <3>2. CASE y
      <4> DEFINE a1 == Plus32(seg.seqno, 1)
                 yes == TRUE
      <4>1. a = [ rcv EXCEPT !.syn = yes, !.ackno = a1, !.isn = seg.seqno ]
        BY <1>3, <3>2 DEF AcceptSyn
      <4>2. i = 0 /\ seg.seqno = wrap(0, Isn) /\ b = 1 BY <1>1, <1>3, <1>6, <3>2
      <4>3. a1 = wrap(0 + 1, Isn) BY <4>2, PlusWrap
      <4>4. wrap(0, Isn) = Isn
        <5>1. M32 \in Nat \ {0} /\ Isn \in 0..(M32 - 1) /\ Isn \in Int
          BY M32Type, SystemAssumption DEF U32
        <5>2. 0 = 0 * M32 + 0 /\ 0 \in 0..(M32 - 1) BY <5>1
        <5>3. 0 % M32 = 0 BY <5>1, <5>2, ModUnique
        <5>4. 0 + Isn = 0 * M32 + Isn /\ 0 + Isn \in Int BY <5>1
        <5>5. (0 + Isn) % M32 = Isn BY <5>1, <5>4, ModUnique
        <5> QED BY <5>3, <5>5 DEF wrap
      <4>5. a \in ReceiverType /\ ReceiverOK(a) /\ a.reassembler = rcv.reassembler
        BY <1>1, <1>3, <4>2, <4>4, AcceptSynPreserves
      <4> HIDE DEF a, a1, yes
      <4>6. a = [ ackno |-> a1, isn |-> seg.seqno, syn |-> yes, fin |-> rcv.fin,
                  fin_not_count |-> rcv.fin_not_count, reassembler |-> rcv.reassembler ]
        BY <4>1, UpdateSyn
      <4>7. a.syn = yes /\ a.ackno = a1 /\ a.fin = rcv.fin /\ a.fin_not_count = rcv.fin_not_count
        BY <4>6
      <4> QED BY <4>2, <4>3, <4>5, <4>7 DEF yes
    <3> QED BY <3>1, <3>2
  <2>2. RcvTight(a) BY <2>1 DEF RcvTight
  <2> HIDE DEF a
  <2>3. Near(i, stream_out(a).written) BY <1>1, <2>1 DEF stream_out
  <2>4. IF seg.syn THEN i = 0 /\ a.ackno = wrap(1, Isn) ELSE seg.seqno = wrap(i + 1, Isn)
    BY <1>1, <1>3, <2>1
  <2>5. /\ Advanced(r, q, Offered(r, i, n)) /\ Tight(q, Capacity)
        /\ f /\ q.head_index < StreamLen => StreamLen - 1 \in DOMAIN q.stored
        /\ p.syn /\ p.fin = rcv.fin /\ p.fin_not_count = rcv.fin_not_count
        /\ p.ackno = Moved(wrap(b, Isn), i, h, q.head_index)
    <3>1. /\ i + n <= a.reassembler.output.readden + Capacity
          /\ seg.syn \in BOOLEAN /\ seg.fin \in BOOLEAN
          /\ seg.fin => i + n = StreamLen /\ (n > 0 \/ i <= a.reassembler.head_index)
      BY <1>1, <1>3, <2>1
    <3>2. Pushed(a, p, i, n, seg.fin)
      BY <1>1, <1>3, <2>1, <2>2, <2>3, <2>4, <3>1, PushPayloadEffect, SMTT(30)
    <3> HIDE DEF p
    <3> QED BY <1>3, <2>1, <3>2 DEF Pushed
  <2>6. p \in ReceiverType /\ ReceiverOK(p)
    <3>1. IF seg.syn THEN i = 0 ELSE seg.seqno = wrap(i + 1, Isn) BY <2>4
    <3>2. a \in ReceiverType /\ ReceiverOK(a) BY <2>1
    <3>3. /\ i \in Int /\ -1 <= i /\ n \in Nat /\ i + n <= StreamLen /\ (i = -1 => n = 0)
          /\ seg.syn \in BOOLEAN /\ seg.fin \in BOOLEAN /\ seg.payload = Substring(i, n)
      BY <1>1, <1>3
    <3> QED BY <2>3, <3>1, <3>2, <3>3, PushPayloadPreserves, SMTT(60)
  <2>7. q.head_index \in Nat /\ h \in Nat /\ q.head_index <= StreamLen /\ h <= q.head_index
    BY <2>5, <2>6, Bounds DEF Advanced
  <2>8. p.ackno = wrap(b + (IF b = i + 1 THEN q.head_index - h ELSE 0), Isn)
    <3>1. wrap(b, Isn) = wrap(i + 1, Isn) <=> b = i + 1
      <4>1. i + 1 \in Int BY <1>1
      <4>2. rcv.syn /\ wrap(b, Isn) = wrap(i + 1, Isn) => b = i + 1
        BY <4>1, WrapInjective
      <4>3. ~rcv.syn => b = i + 1 BY <1>1, <1>6
      <4> QED BY <4>2, <4>3
    <3>2. q.head_index - h \in Int BY <2>7
    <3>3. Plus32(wrap(b, Isn), q.head_index - h) = wrap(b + (q.head_index - h), Isn)
      BY <3>2, PlusWrap
    <3>4. b + 0 = b OBVIOUS
    <3> QED BY <2>5, <3>1, <3>3, <3>4 DEF Moved
  <2>9. rcv.fin \/ f => (q.head_index < StreamLen => StreamLen - 1 \in DOMAIN q.stored)
    <3>1. CASE f BY <2>5, <3>1
    <3>2. CASE rcv.fin
      <4>1. h < StreamLen => StreamLen - 1 \in DOMAIN r.stored BY <3>2 DEF RcvTight
      <4>2. q.head_index < StreamLen => h < StreamLen /\ q.head_index <= StreamLen - 1
        BY <2>7, StreamLenType
      <4>3. StreamLen - 1 \in DOMAIN r.stored => StreamLen - 1 \in Offered(r, i, n)
        BY DEF Offered
      <4> QED BY <2>5, <4>1, <4>2, <4>3 DEF Advanced
    <3> QED BY <3>1, <3>2
  <2>10. ~rcv.fin_not_count => rcv.fin /\ q.head_index = StreamLen
    BY <2>7 DEF RcvTight
  <2> DEFINE u == CountFin(p, seg)
  <2>11. t = u BY <1>3, <1>6 DEF segment_received, a
  <2> HIDE DEF p, q
  <2>12. p.reassembler = q BY DEF q
  <2>13. /\ RcvTight(u) /\ u.syn
         /\ u.reassembler.stored = q.stored /\ u.reassembler.head_index = q.head_index
         /\ u.reassembler.output.readden = q.output.readden
         /\ ~rcv.fin_not_count => ~u.fin_not_count
         /\ u.ackno = IF rcv.fin_not_count /\ ~u.fin_not_count
                        THEN Plus32(p.ackno, 1) ELSE p.ackno
    BY <1>1, <1>3, <2>5, <2>6, <2>9, <2>10, <2>12, CountFinEffect
  <2> HIDE DEF u, t
  <2>14. Advanced(r, u.reassembler, Offered(r, i, n)) BY <2>5, <2>13 DEF Advanced
  <2> DEFINE c == b + (IF b = i + 1 THEN q.head_index - h ELSE 0)
  <2>15. c \in Int BY <2>7
  <2>16. c + 0 = c /\ p.ackno = wrap(c, Isn) BY <2>8, <2>15
  <2>17. Plus32(wrap(c, Isn), 1) = wrap(c + 1, Isn)
    <3> HIDE DEF c
    <3> QED BY <2>15, PlusWrap
  <2>18. u.ackno = wrap(c + (IF rcv.fin_not_count /\ ~u.fin_not_count THEN 1 ELSE 0), Isn)
    <3> HIDE DEF c
    <3> QED BY <2>13, <2>16, <2>17
  <2>19. Accepted(rcv, u, i, n, b) BY <2>13, <2>14, <2>18 DEF Accepted
  <2> QED BY <1>2, <2>11, <2>13, <2>19 DEF t, seg
<1> QED BY <1>1, <1>4, <1>5, <1>6, <1>2, ReceiverFields DEF t, seg

-----------------------------------------------------------------------------
\* The steps of the system, as an orderly peer and the reader take them.
Good(rcv) == rcv \in ReceiverType /\ ReceiverOK(rcv) /\ RcvTight(rcv)

Arrives(i, n, y, f) ==
    /\ Orderly(receiver, i, n, y, f)
    /\ n = 0 \/ [ begin |-> i, len |-> n ] \in Pieces
    /\ receiver' = segment_received(receiver, Capacity, PeerSegment(i, n, y, f))

IsRead(rcv, t) ==
    /\ t.ackno = rcv.ackno /\ t.syn = rcv.syn /\ t.fin = rcv.fin
    /\ t.fin_not_count = rcv.fin_not_count
    /\ t.reassembler.stored = rcv.reassembler.stored
    /\ t.reassembler.head_index = rcv.reassembler.head_index
    /\ t.reassembler.output.readden >= rcv.reassembler.output.readden

\* Every step is a segment of an orderly peer, a read, or nothing.
LEMMA StepKinds ==
  ASSUME OrderlyPeer, Good(receiver), [Next]_receiver
  PROVE  \/ receiver' = receiver
         \/ \E i, n, y, f : Arrives(i, n, y, f)
         \/ Good(receiver') /\ IsRead(receiver, receiver')
<1>1. receiver \in ReceiverType /\ ReceiverOK(receiver) /\ RcvTight(receiver) BY DEF Good
<1>2. /\ StreamLen \in Nat /\ Capacity \in Nat
      /\ stream_out(receiver).written = receiver.reassembler.head_index
      /\ receiver.reassembler.output.readden \in Nat
  BY <1>1, Bounds, ReceiverFields, TypeFacts
<1>3. Inv BY <1>1 DEF Inv, TypeOK
<1>4. ASSUME NEW p \in Pieces, NEW y \in BOOLEAN, NEW f \in BOOLEAN, SegmentReceived(p, y, f)
      PROVE  \E i, n, yy, ff : Arrives(i, n, yy, ff)
  <2>1. p \in [ begin : Nat, len : Nat ] BY SystemAssumption
  <2>2. p = [ begin |-> p.begin, len |-> p.len ] /\ p.begin \in Nat /\ p.len \in Nat BY <2>1
  <2>3. MaySend(p.begin, p.len, f, stream_out(receiver).written,
                receiver.reassembler.output.readden + Capacity)
    BY <1>4 DEF SegmentReceived, Written, WindowEdge, stream_out
  <2>4. /\ Near(p.begin, stream_out(receiver).written) /\ (y => p.begin = 0)
        /\ receiver' = segment_received(receiver, Capacity, PeerSegment(p.begin, p.len, y, f))
    BY <1>4 DEF SegmentReceived, Written
  <2>5. Orderly(receiver, p.begin, p.len, y, f)
    BY <1>2, <2>2, <2>3, <2>4 DEF Orderly, MaySend, OrderlyPeer
  <2>6. Arrives(p.begin, p.len, y, f) BY <2>2, <2>4, <2>5 DEF Arrives
  <2> QED BY <2>6
<1>5. ASSUME NEW i \in -1..StreamLen, EmptySegmentReceived(i)
      PROVE  \E j, n, y, f : Arrives(j, n, y, f)
  <2>1. i <= receiver.reassembler.output.readden + Capacity
    BY <1>5 DEF EmptySegmentReceived, OrderlyPeer, WindowEdge, stream_out
  <2>2. /\ Near(i, stream_out(receiver).written)
        /\ receiver' = segment_received(receiver, Capacity, PeerSegment(i, 0, FALSE, FALSE))
    BY <1>5 DEF EmptySegmentReceived, Written
  <2>3. i \in Int /\ -1 <= i /\ i <= StreamLen BY <1>2
  <2>4. Orderly(receiver, i, 0, FALSE, FALSE) BY <1>2, <2>1, <2>2, <2>3 DEF Orderly
  <2>5. Arrives(i, 0, FALSE, FALSE) BY <2>2, <2>4 DEF Arrives
  <2> QED BY <2>5
<1>6. ASSUME NEW n \in 1..Capacity, ReadOutput(n)
      PROVE  Good(receiver') /\ IsRead(receiver, receiver')
  <2> DEFINE r == receiver.reassembler
             o == PopOutput(r, n)
  <2>1. n \in Nat /\ n <= Len(r.output.buffer) /\ receiver' = [ receiver EXCEPT !.reassembler = o ]
    BY <1>2, <1>6 DEF ReadOutput, stream_out
  <2>2. r \in ReassemblerType /\ ReassemblerOK(r, Capacity) BY <1>1, ReceiverFields DEF ReceiverOK
  <2>3. Tight(r, Capacity) BY <1>1 DEF RcvTight
  <2>4. /\ Tight(o, Capacity) /\ o.stored = r.stored /\ o.head_index = r.head_index
        /\ o.output.readden = r.output.readden + n
    BY <1>2, <2>1, <2>2, <2>3, PopOutputTight
  <2> HIDE DEF o
  <2>5. receiver' = [ ackno |-> receiver.ackno, isn |-> receiver.isn, syn |-> receiver.syn,
                      fin |-> receiver.fin, fin_not_count |-> receiver.fin_not_count,
                      reassembler |-> o ]
    BY <1>1, <2>1, UpdateReassembler
  <2>6. /\ receiver'.ackno = receiver.ackno /\ receiver'.syn = receiver.syn
        /\ receiver'.fin = receiver.fin /\ receiver'.fin_not_count = receiver.fin_not_count
        /\ receiver'.reassembler = o
    BY <2>5
  <2>7. RcvTight(receiver') BY <1>1, <2>4, <2>6 DEF RcvTight
  <2>8. Inv'
    <3>1. Next BY <1>6 DEF Next
    <3> QED BY <1>3, <3>1, NextInv
  <2>9. r.output.readden + n >= r.output.readden BY <1>2, <2>1
  <2> QED BY <2>4, <2>6, <2>7, <2>8, <2>9 DEF Good, IsRead, Inv, TypeOK, ReceiverOK
<1> QED BY <1>4, <1>5, <1>6 DEF Next

\* Initially nothing is stored or acknowledged.
LEMMA InitGood == Init => Good(receiver) /\ ~receiver.syn
<1> SUFFICES ASSUME Init PROVE Good(receiver) /\ ~receiver.syn OBVIOUS
<1>1. receiver \in ReceiverType /\ ReceiverOK(receiver) BY InitInv DEF Inv, TypeOK
<1> DEFINE r == NewReassembler
<1>2. receiver = [ ackno |-> 0, isn |-> 0, syn |-> FALSE, fin |-> FALSE,
                   fin_not_count |-> TRUE, reassembler |-> r ]
  BY DEF Init, NewTCPReceiver
<1>3. /\ r.stored = <<>> /\ r.head_index = 0 /\ r.eof_flag = FALSE
      /\ r.output.input_end = FALSE
  BY DEF NewReassembler, NewByteStream
<1> HIDE DEF r
<1>4. DOMAIN r.stored = {} BY <1>3
<1>5. Tight(r, Capacity) BY <1>3, <1>4 DEF Tight
<1>6. /\ receiver.syn = FALSE /\ receiver.fin = FALSE /\ receiver.fin_not_count = TRUE
      /\ receiver.reassembler = r
  BY <1>2
<1>7. RcvTight(receiver) BY <1>3, <1>5, <1>6 DEF RcvTight
<1> QED BY <1>1, <1>6, <1>7 DEF Good

-----------------------------------------------------------------------------
\* The ackno of rcv stands for b, which is not beyond what rcv needs next.
Needed(rcv) == rcv.reassembler.head_index + 1 + (IF rcv.fin_not_count THEN 0 ELSE 1)

AckAt(rcv, b) ==
    /\ b \in Nat /\ 1 <= b /\ b <= Needed(rcv)
    /\ rcv.reassembler.head_index - b <= HALF
    /\ rcv.ackno = wrap(b, Isn)

\* The peer recovers that number from the ackno.
LEMMA UnwrapAck ==
  ASSUME OrderlyPeer, NEW rcv, Good(rcv), NEW b, AckAt(rcv, b)
  PROVE  unwrap(rcv.ackno, Isn, stream_out(rcv).written) = b
<1> DEFINE h == rcv.reassembler.head_index
<1>1. /\ StreamLen \in Nat /\ Capacity \in Nat /\ M32 \in Nat \ {0} /\ M64 \in Nat \ {0}
      /\ HALF \in Nat \ {0} /\ StreamLen + M32 + Capacity < M64 /\ Isn \in U32
      /\ stream_out(rcv).written = h /\ h \in Nat /\ h <= StreamLen
  BY Bounds DEF Good
<1>2. b \in Nat /\ b <= h + 2 /\ h - b <= HALF /\ rcv.ackno = wrap(b, Isn)
  <2>1. b <= Needed(rcv) /\ b \in Nat BY DEF AckAt
  <2>2. Needed(rcv) = h + 1 \/ Needed(rcv) = h + 1 + 1 BY <1>1 DEF Needed
  <2> HIDE DEF h
  <2>3. b <= h + 2 BY <1>1, <2>1, <2>2
  <2> QED BY <2>3 DEF AckAt, h
<1> HIDE DEF h
<1>3. HALF > 2 /\ M32 = 2 * HALF BY DEF OrderlyPeer, M32
<1>4. b \in U64 /\ h \in U64 /\ h + M32 <= M64 /\ b - h < HALF
  BY <1>1, <1>2, <1>3 DEF U64
<1> QED BY <1>1, <1>2, <1>4, UnwrapNearest

\* A segment moves the number from b to at least b and keeps it in bounds, as
\* long as it does not fall too far behind.
LEMMA AckAtMoves ==
  ASSUME OrderlyPeer, Good(receiver), NEW i, NEW n, NEW y, NEW f, Arrives(i, n, y, f),
         NEW b \in Int, receiver.syn => AckAt(receiver, b), ~receiver.syn => b = 1,
         receiver.syn => b - (i + 1) < M32 /\ (i + 1) - b < M32
  PROVE  /\ Good(receiver')
         /\ \/ receiver' = receiver
            \/ /\ Accepted(receiver, receiver', i, n, b)
               /\ \E c \in Nat :
                    /\ b <= c /\ c <= Needed(receiver') /\ receiver'.ackno = wrap(c, Isn)
                    /\ b = i + 1 => c - b >= receiver'.reassembler.head_index
                                               - receiver.reassembler.head_index
<1> DEFINE h == receiver.reassembler.head_index
           v == receiver'.reassembler.head_index
           e == IF receiver.fin_not_count /\ ~receiver'.fin_not_count THEN 1 ELSE 0
           c == b + (IF b = i + 1 THEN v - h ELSE 0) + e
<1>1. receiver \in ReceiverType /\ ReceiverOK(receiver) /\ RcvTight(receiver) BY DEF Good
<1>2. Orderly(receiver, i, n, y, f)
      /\ receiver' = segment_received(receiver, Capacity, PeerSegment(i, n, y, f))
  BY DEF Arrives
<1>3. receiver.syn => receiver.ackno = wrap(b, Isn) BY DEF AckAt
<1>4. /\ receiver' \in ReceiverType /\ ReceiverOK(receiver') /\ RcvTight(receiver')
      /\ receiver' = receiver \/ Accepted(receiver, receiver', i, n, b)
  BY <1>1, <1>2, <1>3, SegmentEffect
<1>5. Good(receiver') BY <1>4 DEF Good
<1>6. ASSUME Accepted(receiver, receiver', i, n, b)
      PROVE  \E d \in Nat :
                /\ b <= d /\ d <= Needed(receiver') /\ receiver'.ackno = wrap(d, Isn)
                /\ b = i + 1 => d - b >= v - h
  <2>1. /\ v \in Nat /\ h <= v /\ (~receiver.fin_not_count => ~receiver'.fin_not_count)
        /\ receiver'.ackno = wrap(c, Isn)
    BY <1>6 DEF Accepted, Advanced
  <2>2. h \in Nat /\ i \in Int BY <1>1, <1>2, Bounds DEF Orderly
  <2>3. /\ 1 <= b /\ b <= h + 1 + (IF receiver.fin_not_count THEN 0 ELSE 1)
    <3>1. CASE receiver.syn BY <3>1 DEF AckAt, Needed
    <3>2. CASE ~receiver.syn BY <2>2, <3>2
    <3> QED BY <3>1, <3>2
  <2>4. Needed(receiver') = v + 1 + (IF receiver'.fin_not_count THEN 0 ELSE 1) BY DEF Needed
  <2>5. receiver.fin_not_count \in BOOLEAN /\ receiver'.fin_not_count \in BOOLEAN
    BY <1>1, <1>4, ReceiverFields
  <2> HIDE DEF h, v
  <2>6. c \in Nat /\ b <= c /\ c <= Needed(receiver') /\ (b = i + 1 => c - b >= v - h)
    BY <2>1, <2>2, <2>3, <2>4, <2>5
  <2> QED BY <2>1, <2>6
<1> QED BY <1>4, <1>5, <1>6

\* What AckAt says of the properties of the run.
LEMMA AheadFromAckAt ==
  ASSUME OrderlyPeer, Good(receiver), receiver.syn => \E b : AckAt(receiver, b)
  PROVE  AckNeverAhead
<1> SUFFICES ASSUME receiver.syn
             PROVE  unwrap(receiver.ackno, Isn, Written)
                      <= Written + 1 + (IF Written = StreamLen /\ receiver.fin THEN 1 ELSE 0)
  BY DEF AckNeverAhead
<1>1. PICK b : AckAt(receiver, b) OBVIOUS
<1>2. unwrap(receiver.ackno, Isn, Written) = b BY <1>1, UnwrapAck DEF Written
<1>3. /\ Written = receiver.reassembler.head_index /\ receiver.reassembler.head_index \in Nat
      /\ RcvTight(receiver)
  BY Bounds DEF Good, Written
<1>4. b \in Nat /\ b <= Needed(receiver) BY <1>1 DEF AckAt
<1>5. ~receiver.fin_not_count => Written = StreamLen /\ receiver.fin BY <1>3 DEF RcvTight
<1>6. b <= Written + 1 + (IF receiver.fin_not_count THEN 0 ELSE 1) BY <1>3, <1>4 DEF Needed
<1> QED BY <1>2, <1>3, <1>4, <1>5, <1>6

\* A read leaves the number of the ackno as it is.
LEMMA AckAtRead ==
  ASSUME NEW rcv, NEW t, IsRead(rcv, t), NEW b, AckAt(rcv, b)
  PROVE  AckAt(t, b)
BY DEF IsRead, AckAt, Needed

\* With streams shorter than half the sequence space the ackno cannot fall too
\* far behind, however the peer cuts its stream.
Lagging == Good(receiver) /\ (receiver.syn => \E b : AckAt(receiver, b))

\* One step: the number of the ackno does not fall.
LEMMA LaggingStep ==
  ASSUME OrderlyPeer, StreamLen <= HALF, Lagging, [Next]_receiver
  PROVE  /\ Lagging'
         /\ \A b : receiver.syn /\ AckAt(receiver, b) =>
                receiver'.syn /\ \E c : AckAt(receiver', c) /\ b <= c
<1>1. Good(receiver) /\ (receiver.syn => \E b : AckAt(receiver, b)) BY DEF Lagging
<1>2. /\ M32 = 2 * HALF /\ HALF \in Nat /\ StreamLen \in Nat /\ HALF > 2
  BY M32Type, WidthAssumption, StreamLenType DEF M32, OrderlyPeer
<1>3. \A b : AckAt(receiver, b) => b \in Nat /\ b <= b BY DEF AckAt
<1>4. CASE receiver' = receiver BY <1>1, <1>3, <1>4 DEF Lagging
<1>5. CASE Good(receiver') /\ IsRead(receiver, receiver')
  <2>1. receiver'.syn = receiver.syn BY <1>5 DEF IsRead
  <2>2. \A b : AckAt(receiver, b) => AckAt(receiver', b) BY <1>5, AckAtRead
  <2> QED BY <1>1, <1>3, <1>5, <2>1, <2>2 DEF Lagging
<1>6. ASSUME NEW i, NEW n, NEW y, NEW f, Arrives(i, n, y, f), receiver' # receiver,
             NEW b \in Int, receiver.syn => AckAt(receiver, b), ~receiver.syn => b = 1
      PROVE  Good(receiver') /\ receiver'.syn /\ \E c : AckAt(receiver', c) /\ b <= c
  <2>1. /\ i \in Int /\ -1 <= i /\ i <= StreamLen
    BY <1>2, <1>6 DEF Arrives, Orderly
  <2>2. receiver.syn => 1 <= b /\ b <= StreamLen + 2
    <3> SUFFICES ASSUME receiver.syn PROVE 1 <= b /\ b <= StreamLen + 2 OBVIOUS
    <3> DEFINE h == receiver.reassembler.head_index
    <3>1. 1 <= b /\ b <= Needed(receiver) BY <1>6 DEF AckAt
    <3>2. h \in Nat /\ h <= StreamLen BY <1>1, Bounds DEF Good
    <3>3. Needed(receiver) = h + 1 + (IF receiver.fin_not_count THEN 0 ELSE 1) BY DEF Needed
    <3> HIDE DEF h
    <3> QED BY <1>2, <3>1, <3>2, <3>3
  <2>3. receiver.syn => b - (i + 1) < M32 /\ (i + 1) - b < M32 BY <1>2, <2>1, <2>2
  <2>4. /\ Good(receiver') /\ Accepted(receiver, receiver', i, n, b)
        /\ \E c \in Nat :
              b <= c /\ c <= Needed(receiver') /\ receiver'.ackno = wrap(c, Isn)
    BY <1>1, <1>6, <2>3, AckAtMoves
  <2>5. receiver'.syn BY <2>4 DEF Accepted
  <2>6. PICK c \in Nat : b <= c /\ c <= Needed(receiver') /\ receiver'.ackno = wrap(c, Isn)
    BY <2>4
  <2>7. 1 <= c BY <1>6, <2>2, <2>6
  <2>8. receiver'.reassembler.head_index - c <= HALF
    <3> DEFINE v == receiver'.reassembler.head_index
    <3>1. v \in Nat /\ v <= StreamLen BY <2>4, Bounds DEF Good
    <3> HIDE DEF v
    <3>2. v - c <= HALF BY <1>2, <2>7, <3>1
    <3> QED BY <3>2 DEF v
  <2>9. AckAt(receiver', c) BY <2>6, <2>7, <2>8 DEF AckAt
  <2> QED BY <2>4, <2>5, <2>6, <2>9
<1>7. CASE \E i, n, y, f : Arrives(i, n, y, f)
  <2>1. PICK i, n, y, f : Arrives(i, n, y, f) BY <1>7
  <2>2. CASE receiver' # receiver
    <3>1. ASSUME NEW b, receiver.syn, AckAt(receiver, b)
          PROVE  Good(receiver') /\ receiver'.syn /\ \E c : AckAt(receiver', c) /\ b <= c
      <4>1. b \in Int BY <1>3, <3>1
      <4> QED BY <1>6, <2>1, <2>2, <3>1, <4>1
    <3>2. CASE receiver.syn
      <4>1. PICK b : AckAt(receiver, b) BY <1>1, <3>2
      <4> QED BY <3>1, <3>2, <4>1 DEF Lagging
    <3>3. CASE ~receiver.syn
      <4>1. Good(receiver') /\ receiver'.syn /\ \E c : AckAt(receiver', c) /\ 1 <= c
        BY <1>6, <2>1, <2>2, <3>3
      <4> QED BY <3>3, <4>1 DEF Lagging
    <3> QED BY <3>2, <3>3
  <2> QED BY <1>4, <2>2
<1> QED BY <1>1, <1>4, <1>5, <1>7, StepKinds

LEMMA LaggingAlways == ASSUME OrderlyPeer, StreamLen <= HALF PROVE Spec => []Lagging
<1>1. Init => Lagging BY InitGood DEF Lagging
<1>2. Lagging /\ [Next]_receiver => Lagging' BY LaggingStep
<1> QED BY <1>1, <1>2, PTL DEF Spec

\* The ackno never covers a byte or a FIN the receiver does not have, for every
\* segmentation of a stream of up to half the sequence space.
THEOREM AckNeverAheadAlways ==
  ASSUME OrderlyPeer, StreamLen <= HALF PROVE Spec => []AckNeverAhead
<1>1. Lagging => AckNeverAhead BY AheadFromAckAt DEF Lagging
<1> QED BY <1>1, LaggingAlways, PTL

\* Under the same conditions it never moves backwards.
THEOREM AckNeverRetreatsAlways ==
  ASSUME OrderlyPeer, StreamLen <= HALF PROVE Spec => AckNeverRetreats
<1>1. Lagging /\ [Next]_receiver =>
        [ receiver.syn => unwrap(receiver.ackno, Isn, Written)
                            <= unwrap(receiver'.ackno, Isn, Written') ]_receiver
  <2> SUFFICES ASSUME Lagging, [Next]_receiver, receiver.syn
               PROVE  unwrap(receiver.ackno, Isn, Written)
                        <= unwrap(receiver'.ackno, Isn, Written')
    OBVIOUS
  <2>1. PICK b : AckAt(receiver, b) BY DEF Lagging
  <2>2. Lagging' /\ \E c : AckAt(receiver', c) /\ b <= c BY <2>1, LaggingStep
  <2>3. PICK c : AckAt(receiver', c) /\ b <= c BY <2>2
  <2>4. Good(receiver) /\ Good(receiver') BY <2>2 DEF Lagging
  <2>5. unwrap(receiver.ackno, Isn, Written) = b BY <2>1, <2>4, UnwrapAck DEF Written
  <2>6. unwrap(receiver'.ackno, Isn, Written') = c BY <2>3, <2>4, UnwrapAck DEF Written
  <2> QED BY <2>3, <2>5, <2>6
<1> QED BY <1>1, LaggingAlways, PTL DEF Spec, AckNeverRetreats

-----------------------------------------------------------------------------
\* Some number near the segment wraps to the ackno.
LEMMA SomeNumber ==
  ASSUME NEW a \in U32, NEW x \in Int
  PROVE  \E b \in Int : a = wrap(b, Isn) /\ b - x < M32 /\ x - b < M32
<1> DEFINE d == (a - Isn) - x
           m == d % M32
           b == x + m
           w == wrap(b, Isn)
<1>1. M32 \in Nat \ {0} /\ Isn \in Int /\ a \in Int /\ a \in 0..(M32 - 1) /\ d \in Int
  BY M32Type, SystemAssumption DEF U32
<1>2. m \in 0..(M32 - 1) /\ \E q \in Int : d = q * M32 + m
  <2> HIDE DEF d
  <2> QED BY <1>1, ModDef
<1> HIDE DEF m
<1>3. b \in Int BY <1>1, <1>2
<1>4. w \in 0..(M32 - 1) /\ \E q \in Int : b + Isn = q * M32 + w
  <2> HIDE DEF b
  <2> QED BY <1>1, <1>3, WrapCongruent
<1> HIDE DEF w
<1>5. PICK p \in Int : d = p * M32 + m BY <1>2
<1>6. PICK q \in Int : b + Isn = q * M32 + w BY <1>4
<1>7. (q + p) * M32 = q * M32 + p * M32 /\ q * M32 \in Int /\ p * M32 \in Int BY <1>1
<1>8. a = (q + p) * M32 + w BY <1>1, <1>2, <1>4, <1>5, <1>6, <1>7
<1>9. a % M32 = w
  <2>1. q + p \in Int /\ w \in 0..(M32 - 1) /\ M32 \in Nat \ {0} BY <1>1, <1>4
  <2> QED BY <1>1, <1>8, <2>1, ModUnique
<1>10. a % M32 = a
  <2>1. a = 0 * M32 + a BY <1>1
  <2> QED BY <1>1, <2>1, ModUnique
<1>11. a = wrap(b, Isn) BY <1>9, <1>10 DEF w
<1>12. b - x < M32 /\ x - b < M32 BY <1>1, <1>2
<1> QED BY <1>3, <1>11, <1>12

\* The bytes and the FIN are kept however far the ackno falls behind.
LEMMA GoodAlways == ASSUME OrderlyPeer PROVE Spec => []Good(receiver)
<1>1. Init => Good(receiver) BY InitGood
<1>2. Good(receiver) /\ [Next]_receiver => Good(receiver)'
  <2> SUFFICES ASSUME Good(receiver), [Next]_receiver PROVE Good(receiver') OBVIOUS
  <2>1. ASSUME NEW i, NEW n, NEW y, NEW f, Arrives(i, n, y, f)
        PROVE  Good(receiver')
    <3>1. /\ Orderly(receiver, i, n, y, f)
          /\ receiver' = segment_received(receiver, Capacity, PeerSegment(i, n, y, f))
      BY <2>1 DEF Arrives
    <3>2. i + 1 \in Int /\ 1 \in Int BY <3>1 DEF Orderly
    <3>3. receiver \in ReceiverType /\ ReceiverOK(receiver) /\ RcvTight(receiver)
          /\ receiver.ackno \in U32
      BY ReceiverFields DEF Good
    <3>4. PICK b \in Int : receiver.ackno = wrap(b, Isn) /\ b - (i + 1) < M32 /\ (i + 1) - b < M32
      BY <3>2, <3>3, SomeNumber
    <3> DEFINE c == IF receiver.syn THEN b ELSE 1
    <3>5. /\ c \in Int /\ (receiver.syn => receiver.ackno = wrap(c, Isn))
          /\ (~receiver.syn => c = 1)
          /\ (receiver.syn => c - (i + 1) < M32 /\ (i + 1) - c < M32)
      BY <3>4
    <3> HIDE DEF c
    <3>6. receiver' \in ReceiverType /\ ReceiverOK(receiver') /\ RcvTight(receiver')
      BY <3>1, <3>3, <3>5, SegmentEffect
    <3> QED BY <3>6 DEF Good
  <2> QED BY <2>1, StepKinds
<1> QED BY <1>1, <1>2, PTL DEF Spec

\* The application sees the end of the stream only after its last byte, as long
\* as the peer does not send its FIN ahead of the bytes before it.
THEOREM EofOnlyAtEndAlways == ASSUME OrderlyPeer PROVE Spec => []EofOnlyAtEnd
<1>1. Good(receiver) => EofOnlyAtEnd
  <2> SUFFICES ASSUME Good(receiver) PROVE EofOnlyAtEnd OBVIOUS
  <2>1. Tight(receiver.reassembler, Capacity) BY DEF Good, RcvTight
  <2>2. stream_out(receiver).written = receiver.reassembler.head_index BY Bounds DEF Good
  <2> QED BY <2>1, <2>2 DEF EofOnlyAtEnd, Tight, Written, stream_out
<1> QED BY <1>1, GoodAlways, PTL

-----------------------------------------------------------------------------
\* A peer that keeps the segments it once cut (sender's segments_in_flight):
\* pieces with bytes are the same or do not overlap.
Segmented ==
    \A p, q \in Pieces : p.len > 0 /\ q.len > 0 =>
        p = q \/ p.begin + p.len <= q.begin \/ q.begin + q.len <= p.begin

\* No piece reaches across w; the pieces are stored as a whole.
Cut(w) == \A q \in Pieces : q.len > 0 => q.begin + q.len <= w \/ w <= q.begin

Whole(S) ==
    \A q \in Pieces : \A j \in S :
        q.begin <= j /\ j < q.begin + q.len => q.begin..(q.begin + q.len - 1) \subseteq S

\* The inductive invariant behind AckIsFirstMissing.
Aligned(rcv) ==
    /\ Good(rcv)
    /\ Cut(rcv.reassembler.head_index) /\ Whole(DOMAIN rcv.reassembler.stored)
    /\ rcv.syn => rcv.ackno = wrap(Needed(rcv), Isn)

\* Storing one more piece keeps whole pieces.
LEMMA OfferedWhole ==
  ASSUME Segmented, NEW r \in ReassemblerType, Cut(r.head_index), Whole(DOMAIN r.stored),
         NEW i \in Int, NEW n \in Nat, n = 0 \/ [ begin |-> i, len |-> n ] \in Pieces
  PROVE  Whole(Offered(r, i, n))
<1> DEFINE S == DOMAIN r.stored
           h == r.head_index
           A == Offered(r, i, n)
           p == [ begin |-> i, len |-> n ]
<1>1. h \in Int
  <2>1. h \in 0..StreamLen BY TypeFacts
  <2> HIDE DEF h
  <2> QED BY <2>1, StreamLenType
<1>2. A = S \cup { j \in i..(i + n - 1) : h <= j } BY DEF Offered
<1> SUFFICES ASSUME NEW q \in Pieces, NEW j \in A, q.begin <= j, j < q.begin + q.len,
                    NEW k \in q.begin..(q.begin + q.len - 1)
             PROVE  k \in A
  BY DEF Whole
<1>3. q.begin \in Nat /\ q.len \in Nat BY SystemAssumption
<1>4. CASE j \in S
  <2>1. k \in S BY <1>4 DEF Whole
  <2> QED BY <1>2, <2>1
<1>5. CASE j \notin S
  <2>1. j \in i..(i + n - 1) /\ h <= j BY <1>2, <1>5
  <2>2. n > 0 /\ q.len > 0 BY <1>3, <2>1
  <2>3. p \in Pieces /\ p.begin = i /\ p.len = n BY <2>2
  <2>4. p = q BY <1>3, <2>1, <2>2, <2>3 DEF Segmented
  <2>5. q.begin = i /\ q.len = n BY <2>3, <2>4
  <2>6. h <= i BY <1>1, <2>1, <2>2, <2>3 DEF Cut
  <2>7. k \in i..(i + n - 1) /\ h <= k BY <1>1, <2>5, <2>6
  <2> QED BY <1>2, <2>7
<1> QED BY <1>4, <1>5

\* Advancing over whole pieces ends between pieces.
LEMMA AdvancedAligned ==
  ASSUME NEW r, NEW t, r.head_index \in Nat, NEW A \in SUBSET Int, Advanced(r, t, A),
         Whole(A), Cut(r.head_index)
  PROVE  Cut(t.head_index) /\ Whole(DOMAIN t.stored)
<1> DEFINE h == r.head_index
           v == t.head_index
<1>1. /\ v \in Nat /\ h \in Nat /\ h <= v /\ v \notin A
      /\ \A j \in h..(v - 1) : j \in A
      /\ DOMAIN t.stored = { j \in A : v <= j }
  BY DEF Advanced
<1>2. \A q \in Pieces : q.begin \in Nat /\ q.len \in Nat BY SystemAssumption
<1>3. Cut(h) OBVIOUS
<1> HIDE DEF h, v
<1>4. ASSUME NEW q \in Pieces, q.len > 0, ~(q.begin + q.len <= v), ~(v <= q.begin)
      PROVE  FALSE
  <2>1. q.begin \in Nat /\ q.len \in Nat /\ q.begin < v /\ v < q.begin + q.len BY <1>1, <1>2, <1>4
  <2>2. v # h BY <1>3, <1>4 DEF Cut
  <2>3. h <= q.begin
    <3>1. q.begin + q.len <= h \/ h <= q.begin BY <1>3, <1>4 DEF Cut
    <3> QED BY <1>1, <2>1, <3>1
  <2>4. v - 1 \in A /\ q.begin <= v - 1 /\ v - 1 < q.begin + q.len BY <1>1, <2>1, <2>2
  <2>5. v \in q.begin..(q.begin + q.len - 1) BY <1>1, <2>1
  <2>6. v \in A BY <2>4, <2>5 DEF Whole
  <2> QED BY <1>1, <2>6
<1>5. Cut(v) BY <1>4 DEF Cut
<1>6. Whole(DOMAIN t.stored)
  <2> SUFFICES ASSUME NEW q \in Pieces, NEW j \in DOMAIN t.stored,
                      q.begin <= j, j < q.begin + q.len,
                      NEW k \in q.begin..(q.begin + q.len - 1)
               PROVE  k \in DOMAIN t.stored
    BY DEF Whole
  <2>1. j \in A /\ v <= j /\ j \in Int BY <1>1
  <2>2. k \in A BY <2>1 DEF Whole
  <2>3. q.begin \in Nat /\ q.len \in Nat /\ q.len > 0 BY <1>2, <2>1
  <2>4. v <= q.begin
    <3>1. q.begin + q.len <= v \/ v <= q.begin BY <1>5, <2>3 DEF Cut
    <3> QED BY <1>1, <2>1, <2>3, <3>1
  <2>5. v <= k BY <1>1, <2>3, <2>4
  <2> QED BY <1>1, <2>2, <2>5
<1> QED BY <1>5, <1>6 DEF v

\* An accepted segment keeps the ackno at the first missing number: when the
\* head moves, the segment began there and so at the ackno.
LEMMA AlignedArrival ==
  ASSUME OrderlyPeer, Segmented, Aligned(receiver),
         NEW i, NEW n, NEW y, NEW f, Arrives(i, n, y, f)
  PROVE  /\ Aligned(receiver')
         /\ receiver.syn => receiver'.syn
         /\ receiver.syn => Needed(receiver') - receiver'.reassembler.head_index
                              >= Needed(receiver) - receiver.reassembler.head_index
         /\ receiver'.reassembler.output.readden = receiver.reassembler.output.readden
         /\ receiver.reassembler.head_index <= receiver'.reassembler.head_index
<1> DEFINE r == receiver.reassembler
           h == r.head_index
           v == receiver'.reassembler.head_index
           b == Needed(receiver)
<1>1. /\ Good(receiver) /\ Cut(h) /\ Whole(DOMAIN r.stored)
      /\ (receiver.syn => receiver.ackno = wrap(b, Isn))
  BY DEF Aligned
<1>2. /\ receiver \in ReceiverType /\ ReceiverOK(receiver) /\ RcvTight(receiver)
      /\ r \in ReassemblerType /\ h \in Nat /\ h <= StreamLen /\ StreamLen \in Nat
      /\ receiver.fin_not_count \in BOOLEAN /\ DOMAIN r.stored \in SUBSET (0..(StreamLen - 1))
  BY <1>1, Bounds, ReceiverFields, TypeFacts DEF Good
<1>3. b = h + 1 + (IF receiver.fin_not_count THEN 0 ELSE 1) /\ b \in Int
  <2>1. b = h + 1 + (IF receiver.fin_not_count THEN 0 ELSE 1) BY DEF Needed
  <2> HIDE DEF b, h
  <2> QED BY <1>2, <2>1
<1>4. ~receiver.syn => h = 0 /\ b = 1 BY <1>2, <1>3 DEF RcvTight
<1>5. ~receiver.fin_not_count => h = StreamLen BY <1>2 DEF RcvTight
<1>6. /\ Orderly(receiver, i, n, y, f) /\ (n = 0 \/ [ begin |-> i, len |-> n ] \in Pieces)
      /\ receiver' = segment_received(receiver, Capacity, PeerSegment(i, n, y, f))
  BY DEF Arrives
<1>7. i \in Int /\ n \in Nat /\ Near(i, h) /\ i + n <= StreamLen
  <2>1. stream_out(receiver).written = h BY <1>2, Bounds
  <2> QED BY <1>6, <2>1 DEF Orderly
<1>8. b - (i + 1) < M32 /\ (i + 1) - b < M32
  <2>1. M32 = 2 * HALF /\ HALF \in Nat /\ HALF > 2
    BY WidthAssumption DEF M32, OrderlyPeer
  <2>2. i + 1 - h < HALF /\ h - (i + 1) <= HALF BY <1>7 DEF Near
  <2> HIDE DEF b, h
  <2> QED BY <1>2, <1>3, <1>7, <2>1, <2>2
<1>9. /\ receiver' \in ReceiverType /\ ReceiverOK(receiver') /\ RcvTight(receiver')
      /\ receiver' = receiver \/ Accepted(receiver, receiver', i, n, b)
  <2> HIDE DEF b
  <2> QED BY <1>1, <1>2, <1>3, <1>4, <1>6, <1>8, SegmentEffect
<1>10. CASE receiver' = receiver
  <2>1. h <= h /\ b - h >= b - h BY <1>2, <1>3
  <2> QED BY <1>10, <2>1
<1>11. CASE Accepted(receiver, receiver', i, n, b)
  <2> DEFINE A == Offered(r, i, n)
             e == IF receiver.fin_not_count /\ ~receiver'.fin_not_count THEN 1 ELSE 0
  <2>1. /\ receiver'.syn /\ Advanced(r, receiver'.reassembler, A)
        /\ (~receiver.fin_not_count => ~receiver'.fin_not_count)
        /\ receiver'.ackno = wrap(b + (IF b = i + 1 THEN v - h ELSE 0) + e, Isn)
    BY <1>11 DEF Accepted
  <2>2. /\ v \in Nat /\ h <= v /\ receiver'.reassembler.output.readden = r.output.readden
        /\ \A j \in h..(v - 1) : j \in A
    BY <2>1 DEF Advanced
  <2>3. v <= StreamLen /\ receiver'.fin_not_count \in BOOLEAN
    BY <1>9, Bounds, ReceiverFields
  <2>4. A \in SUBSET Int BY <1>2, <1>7 DEF Offered
  <2>5. Whole(A) BY <1>1, <1>2, <1>6, <1>7, OfferedWhole
  <2>6. Cut(v) /\ Whole(DOMAIN receiver'.reassembler.stored)
    BY <1>1, <1>2, <2>1, <2>4, <2>5, AdvancedAligned
  <2>7. b # i + 1 => v = h
    <3> SUFFICES ASSUME b # i + 1, v # h PROVE FALSE OBVIOUS
    <3>1. receiver.fin_not_count BY <1>2, <1>5, <2>2, <2>3
    <3>2. i # h BY <1>2, <1>3, <1>7, <3>1
    <3>3. h \in A BY <1>2, <2>2
    <3>4. h \notin DOMAIN r.stored BY <1>2 DEF RcvTight, Tight
    <3>5. h \in i..(i + n - 1) BY <3>3, <3>4 DEF Offered
    <3>6. n > 0 /\ i < h /\ h < i + n BY <1>2, <1>7, <3>2, <3>5
    <3> DEFINE p == [ begin |-> i, len |-> n ]
    <3>7. p \in Pieces /\ p.begin = i /\ p.len = n BY <1>6, <3>6
    <3>8. i + n <= h \/ h <= i BY <1>1, <3>6, <3>7 DEF Cut
    <3> QED BY <1>2, <1>7, <3>6, <3>8
  <2>8. Needed(receiver') = v + 1 + (IF receiver'.fin_not_count THEN 0 ELSE 1) BY DEF Needed
  <2> HIDE DEF b, h, v
  <2>9. b + (IF b = i + 1 THEN v - h ELSE 0) + e = Needed(receiver')
    BY <1>2, <1>3, <2>1, <2>2, <2>3, <2>7, <2>8
  <2>10. Needed(receiver') - v >= b - h BY <1>2, <1>3, <2>1, <2>2, <2>3, <2>8
  <2>11. Aligned(receiver') BY <1>9, <2>1, <2>6, <2>9 DEF Aligned, Good, v
  <2> QED BY <2>1, <2>2, <2>10, <2>11 DEF b, h, v
<1> QED BY <1>9, <1>10, <1>11

\* A read moves the reader's position only.
LEMMA AlignedRead ==
  ASSUME NEW rcv, NEW t, Aligned(rcv), Good(t), IsRead(rcv, t)
  PROVE  Aligned(t) /\ Needed(t) = Needed(rcv)
<1>1. Needed(t) = Needed(rcv) BY DEF IsRead, Needed
<1> QED BY <1>1 DEF Aligned, IsRead

LEMMA AlignedAlways ==
  ASSUME OrderlyPeer, Segmented PROVE Spec => []Aligned(receiver)
<1>1. Init => Aligned(receiver)
  <2> SUFFICES ASSUME Init PROVE Aligned(receiver) OBVIOUS
  <2>1. Good(receiver) /\ ~receiver.syn BY InitGood
  <2>2. receiver.reassembler.head_index = 0 BY <2>1 DEF Good, RcvTight
  <2>3. receiver.reassembler.stored = <<>> BY DEF Init, NewTCPReceiver, NewReassembler
  <2>4. DOMAIN receiver.reassembler.stored = {} BY <2>3
  <2>5. Cut(0) BY SystemAssumption DEF Cut
  <2>6. Whole({}) BY DEF Whole
  <2> QED BY <2>1, <2>2, <2>4, <2>5, <2>6 DEF Aligned
<1>2. Aligned(receiver) /\ [Next]_receiver => Aligned(receiver)'
  <2> SUFFICES ASSUME Aligned(receiver), [Next]_receiver PROVE Aligned(receiver') OBVIOUS
  <2>1. Good(receiver) BY DEF Aligned
  <2> QED BY <2>1, StepKinds, AlignedArrival, AlignedRead
<1> QED BY <1>1, <1>2, PTL DEF Spec

\* The ackno is the number of the first byte that is not yet in the output, or
\* of the FIN, however long the stream, in whatever order the segments arrive
\* and however often they are duplicated.
THEOREM AckIsFirstMissingAlways ==
  ASSUME OrderlyPeer, Segmented PROVE Spec => []AckIsFirstMissing
<1>1. Aligned(receiver) => AckIsFirstMissing
  <2> SUFFICES ASSUME Aligned(receiver) PROVE AckIsFirstMissing OBVIOUS
  <2>1. Written = receiver.reassembler.head_index BY Bounds DEF Aligned, Good, Written
  <2>2. NextNeeded = Needed(receiver) BY <2>1 DEF NextNeeded, Needed
  <2> QED BY <2>2 DEF Aligned, AckIsFirstMissing
<1> QED BY <1>1, AlignedAlways, PTL

\* The edge of the advertised window, in terms of the receiver's fields.
LEMMA EdgeIs ==
  ASSUME OrderlyPeer, NEW rcv, Aligned(rcv), rcv.syn
  PROVE  unwrap(rcv.ackno, Isn, stream_out(rcv).written) + window_size(rcv, Capacity)
           = (Needed(rcv) - rcv.reassembler.head_index) + Capacity + rcv.reassembler.output.readden
<1> DEFINE h   == rcv.reassembler.head_index
           o   == rcv.reassembler.output
           len == Len(o.buffer)
           b   == Needed(rcv)
<1>1. Good(rcv) BY DEF Aligned
<1>2. /\ rcv.reassembler \in ReassemblerType /\ ReassemblerOK(rcv.reassembler, Capacity)
      /\ h \in Nat /\ Capacity \in Nat /\ rcv.fin_not_count \in BOOLEAN /\ HALF \in Nat
  BY <1>1, Bounds, ReceiverFields DEF Good, ReceiverOK
<1>3. len \in Nat /\ o.readden \in Nat /\ o.readden + len = h
  BY <1>2, TypeFacts DEF ReassemblerOK, OutputOK
<1>4. b = h + 1 + (IF rcv.fin_not_count THEN 0 ELSE 1) BY DEF Needed
<1>5. AckAt(rcv, b)
  <2> DEFINE k == h
  <2>1. k \in Nat /\ b = k + 1 + (IF rcv.fin_not_count THEN 0 ELSE 1) BY <1>2, <1>4
  <2> HIDE DEF k, b
  <2>2. b \in Nat /\ 1 <= b /\ b <= b /\ k - b <= HALF BY <1>2, <2>1
  <2> QED BY <2>2 DEF AckAt, Aligned, k, b
<1>6. unwrap(rcv.ackno, Isn, stream_out(rcv).written) = b BY <1>1, <1>5, UnwrapAck
<1>7. window_size(rcv, Capacity) = Capacity - len BY DEF window_size, stream_out
<1> HIDE DEF b, h, len, o
<1>8. b + (Capacity - len) = (b - h) + Capacity + o.readden
  <2>1. b \in Int BY <1>2, <1>4
  <2> QED BY <1>2, <1>3, <2>1
<1> QED BY <1>6, <1>7, <1>8 DEF b, h, o

\* What the peer was once allowed to send stays allowed.
THEOREM EdgeNeverShrinksAlways ==
  ASSUME OrderlyPeer, Segmented PROVE Spec => EdgeNeverShrinks
<1>1. Aligned(receiver) /\ [Next]_receiver =>
        [ receiver.syn => AdvertisedEdge' >= AdvertisedEdge ]_receiver
  <2> SUFFICES ASSUME Aligned(receiver), [Next]_receiver, receiver.syn, receiver' # receiver
               PROVE  AdvertisedEdge' >= AdvertisedEdge
    OBVIOUS
  <2> DEFINE x == Needed(receiver) - receiver.reassembler.head_index
             z == Needed(receiver') - receiver'.reassembler.head_index
             d == receiver.reassembler.output.readden
             g == receiver'.reassembler.output.readden
  <2>1. Good(receiver) BY DEF Aligned
  <2>2. Aligned(receiver') /\ receiver'.syn /\ z >= x /\ g >= d
    <3>1. CASE \E i, n, y, f : Arrives(i, n, y, f)
      <4>1. /\ Aligned(receiver') /\ receiver'.syn /\ z >= x /\ g = d
        BY <3>1, AlignedArrival
      <4>2. d \in Nat BY <2>1, ReceiverFields, TypeFacts DEF Good
      <4> QED BY <4>1, <4>2
    <3>2. CASE Good(receiver') /\ IsRead(receiver, receiver')
      <4>1. Aligned(receiver') /\ Needed(receiver') = Needed(receiver) BY <3>2, AlignedRead
      <4>2. /\ receiver'.syn /\ g >= d
            /\ receiver'.reassembler.head_index = receiver.reassembler.head_index
        BY <3>2 DEF IsRead
      <4>3. x \in Int
        <5>1. receiver.reassembler.head_index \in Nat BY <2>1, Bounds DEF Good
        <5> QED BY <5>1 DEF Needed
      <4> QED BY <4>1, <4>2, <4>3
    <3> QED BY <2>1, <3>1, <3>2, StepKinds
  <2>3. AdvertisedEdge = x + Capacity + d BY EdgeIs DEF AdvertisedEdge, Written
  <2>4. AdvertisedEdge' = z + Capacity + g
    <3>1. unwrap(receiver'.ackno, Isn, stream_out(receiver').written)
             + window_size(receiver', Capacity) = z + Capacity + g
      BY <2>2, EdgeIs
    <3> QED BY <3>1 DEF AdvertisedEdge, Written
  <2>5. x \in Int /\ z \in Int /\ d \in Nat /\ g \in Nat /\ Capacity \in Nat
    <3>1. /\ receiver.reassembler.head_index \in Nat /\ receiver'.reassembler.head_index \in Nat
          /\ d \in Nat /\ g \in Nat
      BY <2>1, <2>2, Bounds, ReceiverFields, TypeFacts DEF Good, Aligned
    <3> QED BY <3>1, SystemAssumption DEF Needed
  <2> HIDE DEF x, z, d, g
  <2> QED BY <2>2, <2>3, <2>4, <2>5
<1> QED BY <1>1, AlignedAlways, PTL DEF Spec, EdgeNeverShrinks

=============================================================================
