-------------------------- MODULE ConnectionSystem --------------------------
(***************************************************************************)
(* Two endpoints, each a TCPConnection with an application that writes its *)
(* stream, ends it and reads what arrives (as apps/tcp_benchmark does).    *)
(* The segments_out queue of an endpoint is the channel to the other one;  *)
(* it loses, duplicates and reorders segments, and time may pass with      *)
(* segments still under way; an owner may drop its connection.  MaxFaults  *)
(* bounds how often these happen.                                          *)
(***************************************************************************)
EXTENDS TCPConnection

CONSTANTS
    Side,       \* the two endpoints
    Openers,    \* those that call connect(); the others listen
    Byte,       \* the values a byte can have
    Data,       \* the stream each side sends
    Isn,
    TickSize,
    MaxFaults,  \* bound: on the faults of the channel and of the owners
    MaxIdle     \* bound: on the time that passes with nothing to wait for

ASSUME ConnectionAssumption ==
    /\ \E x, y \in Side : x # y /\ Side = {x, y}
    /\ Openers \subseteq Side /\ Openers # {}
    /\ Data \in [ Side -> Seq(Byte) ]
    /\ Isn \in [ Side -> U32 ]
    /\ TickSize \in Nat \ {0}
    /\ MaxFaults \in Nat /\ MaxIdle \in Nat

VARIABLES
    conn,
    received,   \* the bytes each application has read
    faults,     \* faults so far
    aborted,    \* the connections destroyed
    earlyfin    \* the sides whose FIN has come too early

vars == <<conn, received, faults, aborted, earlyfin>>

Other(x) == CHOOSE y \in Side : y # x

Init ==
    /\ conn = [ x \in Side |-> NewTCPConnection(Isn[x]) ]
    /\ received = [ x \in Side |-> <<>> ]
    /\ faults = 0
    /\ aborted = {}
    /\ earlyfin = {}

\* An application calls its connection only while it is active, as
\* TCPSpongeSocket does.
MayConnect(x) == x \in Openers /\ conn[x].active /\ ~conn[x].syn_sended

Connect(x) ==
    /\ MayConnect(x)
    /\ conn' = [ conn EXCEPT ![x] = connect(@) ]
    /\ UNCHANGED <<received, faults, aborted, earlyfin>>

MayWrite(x, n) ==
    /\ conn[x].active /\ ~conn[x].sender.stream.input_end
    /\ conn[x].sender.stream.written + n <= Len(Data[x])
    /\ n <= remaining_outbound_capacity(conn[x])

Write(x, n) ==
    LET done == conn[x].sender.stream.written
    IN  /\ MayWrite(x, n)
        /\ conn' = [ conn EXCEPT ![x] = conn_write(@, SubSeq(Data[x], done + 1, done + n)) ]
        /\ UNCHANGED <<received, faults, aborted, earlyfin>>

MayEnd(x) ==
    /\ conn[x].active /\ ~conn[x].sender.stream.input_end
    /\ conn[x].sender.stream.written = Len(Data[x])

EndInputStream(x) ==
    /\ MayEnd(x)
    /\ conn' = [ conn EXCEPT ![x] = end_input_stream(@) ]
    /\ UNCHANGED <<received, faults, aborted, earlyfin>>

Readable(x) == x \notin aborted /\ inbound_stream(conn[x]).buffer # <<>>

Read(x) ==
    /\ Readable(x)
    /\ received' = [ received EXCEPT ![x] = @ \o inbound_stream(conn[x]).buffer ]
    /\ conn' = [ conn EXCEPT ![x].receiver.reassembler =
                   PopOutput(@, Len(inbound_stream(conn[x]).buffer)) ]
    /\ UNCHANGED <<faults, aborted, earlyfin>>

-----------------------------------------------------------------------------
\* A FIN comes before bytes that are missing, and the receiver keeps none of the stream's
\* last bytes to wait for them: the segment carries none, or begins beyond the window.
TooEarly(x, seg) ==
    LET reached == stream_out(conn[Other(x)].receiver).written
        begin   == Len(Data[x]) - Len(seg.payload)
    IN  seg.fin /\ begin >= reached + (IF seg.payload = <<>> THEN 1 ELSE RecvCapacity)

\* The k-th segment under way from x arrives; it stays in the channel when the
\* channel duplicates it.
Arrives(x, k, copied) ==
    LET seg  == conn[x].segments_out[k]
        left == IF copied THEN conn
                ELSE [ conn EXCEPT ![x].segments_out =
                         SubSeq(@, 1, k - 1) \o SubSeq(@, k + 1, Len(@)) ]
    IN  /\ conn' = IF Other(x) \in aborted THEN left
                   ELSE [ left EXCEPT ![Other(x)] = conn_segment_received(@, seg) ]
        /\ earlyfin' = IF TooEarly(x, seg) THEN earlyfin \cup {x} ELSE earlyfin
        /\ UNCHANGED <<received, aborted>>

UnderWay(x) == conn[x].segments_out # <<>>

Deliver(x) ==
    /\ UnderWay(x)
    /\ Arrives(x, 1, FALSE)
    /\ UNCHANGED faults

Fault == faults < MaxFaults /\ faults' = faults + 1

Overtake(x, k) == Fault /\ k \in 2..Len(conn[x].segments_out) /\ Arrives(x, k, FALSE)

Duplicate(x) == Fault /\ UnderWay(x) /\ Arrives(x, 1, TRUE)

Lose(x) ==
    /\ Fault
    /\ UnderWay(x)
    /\ conn' = [ conn EXCEPT ![x].segments_out = Tail(@) ]
    /\ UNCHANGED <<received, aborted, earlyfin>>

\* Time that means something: a segment waits for its acknowledgment, an
\* endpoint lingers; beyond that MaxIdle bounds it.
Waiting(x) ==
    LET c == conn[x]
    IN  /\ c.active
        /\ \/ c.sender.bytes_in_flight > 0
           \/ inbound_stream(c).input_end /\ eof(c.sender.stream)
           \/ c.time_since_last_segment_received < MaxIdle

Quiet == \A x \in Side : ~UnderWay(x) /\ ~Readable(x)

\* Time passes at both ends, normally only when nothing is under way.
Tick ==
    /\ \E x \in Side : Waiting(x)
    /\ IF Quiet THEN UNCHANGED faults ELSE Fault
    /\ conn' = [ x \in Side |-> IF x \in aborted THEN conn[x] ELSE conn_tick(conn[x], TickSize) ]
    /\ UNCHANGED <<received, aborted, earlyfin>>

\* The owner drops its connection before it is closed.
Abort(x) ==
    /\ Fault
    /\ conn[x].active /\ conn[x].syn_sended
    /\ aborted' = aborted \cup {x}
    /\ conn' = [ conn EXCEPT ![x] = destruct(@) ]
    /\ UNCHANGED <<received, earlyfin>>

Next ==
    \/ Tick
    \/ \E x \in Side :
        \/ Connect(x)
        \/ \E n \in 1..Len(Data[x]) : Write(x, n)
        \/ EndInputStream(x)
        \/ Read(x)
        \/ Deliver(x)
        \/ \E k \in 2..Len(conn[x].segments_out) : Overtake(x, k)
        \/ Duplicate(x)
        \/ Lose(x)
        \/ Abort(x)

Spec == Init /\ [][Next]_vars

\* The applications go on until their streams are over, the channel delivers
\* what it does not lose, and time passes: weak fairness of each of these, with
\* the enabling conditions written out.
FairSpec ==
    /\ Spec
    /\ <>[](\E x \in Side : Waiting(x)) /\ <>[]Quiet => []<><<Tick>>_vars
    /\ \A x \in Side :
          /\ <>[]MayConnect(x) => []<><<Connect(x)>>_vars
          /\ <>[]UnderWay(x) => []<><<Deliver(x)>>_vars
          /\ <>[]Readable(x) => []<><<Read(x)>>_vars
          /\ <>[](\E n \in 1..Len(Data[x]) : MayWrite(x, n))
                => []<><<\E n \in 1..Len(Data[x]) : Write(x, n)>>_vars
          /\ <>[]MayEnd(x) => []<><<EndInputStream(x)>>_vars

-----------------------------------------------------------------------------
Got(x) == received[x] \o inbound_stream(conn[x]).buffer
Failed(x) == inbound_stream(conn[x]).error

\* Whatever the channel does, what arrives is a prefix of what the peer sent:
\* no byte is lost in between, repeated or taken from the other direction, and
\* none follows the last.
DeliveredIsPrefix ==
    \A x \in Side :
        /\ Len(Got(x)) <= Len(Data[Other(x)])
        /\ Got(x) = SubSeq(Data[Other(x)], 1, Len(Got(x)))

\* What the sender takes for acknowledged, the receiver at the other end holds:
\* the SYN, the bytes, and the FIN if the last byte came before it.  A FIN that came
\* too early has its number acknowledged at once (tcp_receiver.cc:46-51), in the place
\* of a byte that is missing: for such a stream it counts as received wherever it came.
AckedIsReceived ==
    \A x \in Side :
        LET rcv     == conn[Other(x)].receiver
            whole   == stream_out(rcv).written = Len(Data[x])
            counted == stream_out(rcv).input_end /\ (whole \/ x \in earlyfin)
        IN  conn[x].sender.receive_ack <=
              (IF rcv.syn THEN 1 ELSE 0) + stream_out(rcv).written + (IF counted THEN 1 ELSE 0)

\* An endpoint that closes without an error (clean_shutdown) has received the
\* whole stream of its peer, unless the FIN of that came too early, and the
\* peer has received the whole of its own.
CleanCloseComplete ==
    \A x \in Side :
        (~conn[x].active /\ ~Failed(x)) =>
            /\ Other(x) \notin earlyfin => Got(x) = Data[Other(x)]
            /\ Got(Other(x)) = Data[x]

\* A byte that found no room in the inbound stream is still counted as
\* unassembled (StreamReassembler), and the FIN waits for it for ever.
Leaked(x) ==
    LET r == conn[x].receiver.reassembler
    IN  r.unassembled # Cardinality(DOMAIN r.stored)

\* The numbers end before they wrap around.  Otherwise an ackno may have the value 0, which
\* ackno() takes for none (tcp_receiver.cc:56): what arrives then is not answered, and a
\* sender that waits for the answer gives up.
NoAcknoZero == \A x \in Side : Isn[x] + Len(Data[x]) + 2 < M32

\* As long as no owner drops its connection, MaxFaults faults never reset it:
\* the lingering end answers the FIN whose acknowledgment was lost.
NoNeedlessReset ==
    NoAcknoZero /\ aborted = {} /\ earlyfin = {} /\ (\A x \in Side : ~Leaked(x))
        => \A x \in Side : ~Failed(x)

\* An endpoint that gives up says so in one segment, its last.
ResetOnce ==
    [][ \A x \in Side :
          LET out == conn'[x].segments_out
          IN  conn[x].active /\ conn'[x].need_send_rst /\ x \notin aborted' =>
                Cardinality({ k \in 1..Len(out) : out[k].rst }) = 1 /\ out[Len(out)].rst ]_vars

\* Both endpoints close, without an error, also when the last acknowledgment is
\* lost.
EventuallyClosed ==
    \/ <>(~NoAcknoZero \/ aborted # {} \/ earlyfin # {} \/ \E x \in Side : Leaked(x))
    \/ <>(\A x \in Side : ~conn[x].active /\ ~Failed(x))

\* How far the two halves of a connection have got.
SenderStage ==
    [ CLOSED |-> 0, SYN_SENT |-> 1, SYN_ACKED |-> 2, FIN_SENT |-> 3, FIN_ACKED |-> 4, ERROR |-> 5 ]
ReceiverStage == [ LISTEN |-> 0, SYN_RECV |-> 1, FIN_RECV |-> 2, ERROR |-> 3 ]

\* The receiver of the connection has come to the ackno 0.
AcknoZero(c) == c.receiver.syn /\ c.receiver.ackno = 0

\* What TCPState reports of an endpoint never goes back, whatever the channel
\* does, and an endpoint stops only in the state CLOSED or RESET; but for a receiver
\* whose ackno is 0, which ackno() takes for none (tcp_receiver.cc:56): it is in LISTEN
\* again until its ackno moves on, or for good when that was its last.
StatesAdvance ==
    [][ \A x \in Side :
          LET now   == state(conn[x])
              next  == state(conn'[x])
              again == AcknoZero(conn'[x]) /\ next.receiver = "LISTEN"
          IN  /\ SenderStage[now.sender] <= SenderStage[next.sender]
              /\ ReceiverStage[now.receiver] <= ReceiverStage[next.receiver] \/ again
              /\ now.active /\ ~next.active =>
                    \/ next \in {State.CLOSED, State.RESET}
                    \/ again /\ next = [ State.CLOSED EXCEPT !.receiver = "LISTEN" ] ]_vars

=============================================================================
