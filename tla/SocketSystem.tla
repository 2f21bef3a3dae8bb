---------------------------- MODULE SocketSystem ----------------------------
(***************************************************************************)
(* TCPSpongeSocket (libsponge/tcp_helpers/tcp_sponge_socket) inside a      *)
(* program like apps/tcp_ipv4: the owner thread connects or accepts,       *)
(* copies standard input to the socket and the socket to standard output   *)
(* (apps/bidirectional_stream_copy), then waits until the connection is    *)
(* closed; the TCP thread moves bytes between the other end of a pair of   *)
(* local sockets and a TCPConnection.                                      *)
(*                                                                         *)
(* All queues are FIFO, so a byte is a position: w counts how many bytes   *)
(* have passed each point.  Outbound: in (read from stdin), sock (written  *)
(* to the socket), tcp (given to TCP), acked.  Inbound: net (in the        *)
(* inbound stream), pipe, app (read by the owner), out (on stdout).  The   *)
(* connection and its peer are reduced to what this code sees of them;     *)
(* ConnectionSystem models them.                                           *)
(***************************************************************************)
EXTENDS EventLoop

CONSTANTS
    N, M,           \* bytes on standard input; bytes the peer sends
    AppCapacity,    \* of the two ByteStreams of bidirectional_stream_copy
    PipeCapacity,   \* of the local sockets, per direction
    TcpCapacity     \* of the outbound and of the inbound stream of TCP

ASSUME SocketAssumption ==
    /\ N \in Nat /\ M \in Nat
    /\ { AppCapacity, PipeCapacity, TcpCapacity } \subseteq Nat \ {0}

VARIABLES
    w,          \* the bytes, streams, descriptors and the connection
    owner,      \* the owner's event loop ...
    opc,        \* ... and what it does: "open", "connect", "listen", "copy",
                \* "join", "done"
    thread,     \* the event loop of the TCP thread ...
    tpc,        \* ... which is "off", "loop" or "done"; while the owner connects
                \* or listens, it runs this loop itself
    abort,      \* _abort
    inbox       \* the segment that waits in the datagram adapter

vars == <<w, owner, opc, thread, tpc, abort, inbox>>

MinOf(a, b) == IF a <= b THEN a ELSE b

\* FileDescriptor::read and write, without blocking: how many bytes.  A read
\* that finds nothing although it asked for something is the end of the file.
read(limit, available) == [ n |-> MinOf(limit, available), eof |-> limit > 0 /\ available = 0 ]
write(length, room) == MinOf(length, room)

\* state: of the handshake.  up_shut, down_shut: the direction from the owner to
\* the TCP thread and the other one are shut down, by either end.
NewWorld ==
    [ in |-> 0, sock |-> 0, tcp |-> 0, acked |-> 0,
      net |-> 0, pipe |-> 0, app |-> 0, out |-> 0,
      stdin_eof |-> FALSE, outbound_end |-> FALSE, outbound_shutdown |-> FALSE,
      socket_eof |-> FALSE, inbound_end |-> FALSE, stdout_closed |-> FALSE,
      up_shut |-> FALSE, down_shut |-> FALSE,
      data_eof |-> FALSE, tcp_end |-> FALSE, tcp_shutdown |-> FALSE,
      state |-> "CLOSED", active |-> TRUE, error |-> FALSE, peer_end |-> FALSE,
      segments |-> FALSE, failure |-> "none" ]

\* Socket::shutdown: SHUT_WR is one direction, SHUT_RDWR both.
shutdown(v, how) ==
    [ v EXCEPT !.up_shut = @ \/ "up" \in how, !.down_shut = @ \/ "down" \in how ]

\* Both directions of the local sockets are down.
HungUp(v) == v.up_shut /\ v.down_shut

-----------------------------------------------------------------------------
\* The owner: bidirectional_stream_copy.
OwnerRules == <<"stdin", "to_socket", "from_socket", "stdout">>

OutboundEof(v) == v.outbound_end /\ v.sock = v.in
InboundEof(v) == v.inbound_end /\ v.out = v.app

OwnerOver(v, r) ==
    \/ r = "stdin" /\ v.stdin_eof
    \/ r = "from_socket" /\ v.socket_eof
    \/ r = "stdout" /\ v.stdout_closed

OwnerInterest(v, r) ==
    CASE r = "stdin"       -> v.in - v.sock < AppCapacity
      [] r = "to_socket"   -> v.sock < v.in \/ (OutboundEof(v) /\ ~v.outbound_shutdown)
      [] r = "from_socket" -> v.app - v.out < AppCapacity
      [] r = "stdout"      -> v.out < v.app \/ (InboundEof(v) /\ ~v.stdout_closed)

OwnerReady(v, r) ==
    CASE r = "to_socket"   -> v.sock - v.tcp < PipeCapacity
      [] r = "from_socket" -> v.app < v.pipe \/ v.down_shut
      [] OTHER             -> TRUE

OwnerHup(v, r) == r \in {"to_socket", "from_socket"} /\ HungUp(v)

OwnerCancel(v, r) ==
    IF r \in {"stdin", "to_socket"} THEN [ v EXCEPT !.outbound_end = TRUE ]
    ELSE [ v EXCEPT !.inbound_end = TRUE ]

ReadStdin(v) ==
    LET r == read(AppCapacity - (v.in - v.sock), N - v.in)
    IN  [ v EXCEPT !.in = @ + r.n, !.stdin_eof = r.eof, !.outbound_end = @ \/ r.eof ]

\* Mutant: the socket is shut down when the input ends, bytes left or not.
WriteSocket_early(v) ==
    LET n    == write(v.in - v.sock, PipeCapacity - (v.sock - v.tcp))
        sent == [ v EXCEPT !.sock = @ + n ]
    IN  IF n > 0 /\ v.up_shut THEN [ v EXCEPT !.failure = "owner pipe" ]
        ELSE IF sent.outbound_end
          THEN shutdown([ sent EXCEPT !.outbound_shutdown = TRUE ], {"up"})
        ELSE sent

\* A write to a socket that is shut down raises SIGPIPE, which nothing handles.
WriteSocket(v) ==
    LET n    == write(v.in - v.sock, PipeCapacity - (v.sock - v.tcp))
        sent == [ v EXCEPT !.sock = @ + n ]
    IN  IF n > 0 /\ v.up_shut THEN [ v EXCEPT !.failure = "owner pipe" ]
        ELSE IF OutboundEof(sent)
          THEN shutdown([ sent EXCEPT !.outbound_shutdown = TRUE ], {"up"})
        ELSE sent

ReadSocket(v) ==
    LET r == read(AppCapacity - (v.app - v.out), v.pipe - v.app)
    IN  [ v EXCEPT !.app = @ + r.n, !.socket_eof = r.eof, !.inbound_end = @ \/ r.eof ]

WriteStdout(v) ==
    LET wrote == [ v EXCEPT !.out = v.app ]
    IN  IF InboundEof(wrote) THEN [ wrote EXCEPT !.stdout_closed = TRUE ] ELSE wrote

OwnerCallback(v, r) ==
    { CASE r = "stdin"       -> ReadStdin(v)
        [] r = "to_socket"   -> WriteSocket(v)
        [] r = "from_socket" -> ReadSocket(v)
        [] r = "stdout"      -> WriteStdout(v) }

-----------------------------------------------------------------------------
\* The TCP thread: _initialize_TCP.
ThreadRules == <<"receive", "from_owner", "to_owner", "send">>

\* What waits in the outbound stream and what is in flight, taken together.
OutboundRoom(v) == TcpCapacity - (v.tcp - v.acked)
StreamOver(v) == v.error \/ (v.peer_end /\ v.pipe = v.net)

ThreadOver(v, r) == r = "from_owner" /\ v.data_eof

ThreadInterest(v, r) ==
    CASE r = "receive"    -> v.active
      [] r = "from_owner" -> v.active /\ ~v.tcp_end /\ OutboundRoom(v) > 0
      [] r = "to_owner"   -> v.pipe < v.net \/ (StreamOver(v) /\ ~v.tcp_shutdown)
      [] r = "send"       -> v.segments

ThreadReady(v, r) ==
    CASE r = "receive"    -> inbox # "none"
      [] r = "from_owner" -> v.tcp < v.sock \/ v.up_shut
      [] r = "to_owner"   -> v.pipe - v.app < PipeCapacity
      [] r = "send"       -> TRUE

ThreadHup(v, r) == r \in {"from_owner", "to_owner"} /\ HungUp(v)

\* Mutant: a direction that is shut down is not passed on to TCP.
EndInputStream_kept(v) == v

\* A second call finds the FIN already sent.
EndInputStream(v) == [ v EXCEPT !.tcp_end = TRUE, !.segments = @ \/ ~v.tcp_end ]
ThreadCancel(v, r) == IF r = "from_owner" THEN EndInputStream(v) ELSE v

\* Everything sent is acknowledged, the FIN included.
FullyAcked(v) == v.tcp_end /\ v.acked = v.tcp + 1

\* The connection may now be closed: at once, or after lingering.
Finish(v) ==
    IF v.peer_end /\ FullyAcked(v) THEN { v, [ v EXCEPT !.active = FALSE ] } ELSE {v}

Reset(v) == [ v EXCEPT !.error = TRUE, !.active = FALSE ]

Established(v) == [ v EXCEPT !.state = "ESTABLISHED" ]

\* TCPConnection::segment_received, for the segment in the inbox.
Receive(v) ==
    CASE inbox = "syn"    -> { [ v EXCEPT !.state = "SYN_RCVD", !.segments = TRUE ] }
      [] inbox = "synack" -> { [ Established(v) EXCEPT !.segments = TRUE ] }
      [] inbox = "data"   -> { [ v EXCEPT !.net = @ + 1, !.segments = TRUE ] }
      [] inbox = "ack"    -> IF v.state = "SYN_RCVD" THEN { Established(v) }
                             ELSE Finish([ v EXCEPT !.acked = @ + 1 ])
      [] inbox = "fin"    -> Finish([ v EXCEPT !.peer_end = TRUE, !.segments = TRUE ])
      [] inbox = "rst"    -> { Reset(v) }

ReadOwner(v) ==
    LET r == read(OutboundRoom(v), v.sock - v.tcp)
    IN  IF r.eof THEN [ EndInputStream(v) EXCEPT !.data_eof = TRUE ]
        ELSE [ v EXCEPT !.tcp = @ + r.n, !.segments = TRUE ]

\* Mutant: what was not written in one call is dropped.
WriteOwner_whole(v) ==
    LET n     == write(v.net - v.pipe, PipeCapacity - (v.pipe - v.app))
        wrote == [ v EXCEPT !.pipe = @ + n ]
    IN  IF n > 0 /\ v.down_shut THEN [ v EXCEPT !.failure = "thread pipe" ]
        ELSE IF v.peer_end \/ v.error
          THEN shutdown([ wrote EXCEPT !.tcp_shutdown = TRUE ], {"down"})
        ELSE wrote

WriteOwner(v) ==
    LET n     == write(v.net - v.pipe, PipeCapacity - (v.pipe - v.app))
        wrote == [ v EXCEPT !.pipe = @ + n ]
    IN  IF n > 0 /\ v.down_shut THEN [ v EXCEPT !.failure = "thread pipe" ]
        ELSE IF StreamOver(wrote)
          THEN shutdown([ wrote EXCEPT !.tcp_shutdown = TRUE ], {"down"})
        ELSE wrote

ThreadCallback(v, r) ==
    CASE r = "receive"    -> Receive(v)
      [] r = "from_owner" -> { ReadOwner(v) }
      [] r = "to_owner"   -> { WriteOwner(v) }
      [] r = "send"       -> { [ v EXCEPT !.segments = FALSE ] }

\* TCPConnection::tick: retransmit, give up, or stop lingering.
TickOutcomes(v) ==
    IF ~v.active THEN {v}
    ELSE Finish(v) \cup
         (IF \/ v.state \in {"SYN_SENT", "SYN_RCVD"}
             \/ v.acked < v.tcp \/ (v.tcp_end /\ ~FullyAcked(v))
            THEN { [ v EXCEPT !.segments = TRUE ], [ Reset(v) EXCEPT !.segments = TRUE ] } ELSE {})

-----------------------------------------------------------------------------
Init ==
    /\ w = NewWorld
    /\ owner = FoldLeft(add_rule, NewEventLoop, OwnerRules)
    /\ thread = FoldLeft(add_rule, NewEventLoop, ThreadRules)
    /\ opc = "open" /\ tpc = "off"
    /\ abort = FALSE
    /\ inbox = "none"

Running == w.failure = "none"

OwnerConnects ==
    /\ opc = "open"
    /\ opc' = "connect"
    /\ w' = [ w EXCEPT !.state = "SYN_SENT", !.segments = TRUE ]
    /\ UNCHANGED <<owner, thread, tpc, abort, inbox>>

OwnerListens ==
    /\ opc = "open"
    /\ opc' = "listen"
    /\ w' = [ w EXCEPT !.state = "LISTEN" ]
    /\ UNCHANGED <<owner, thread, tpc, abort, inbox>>

\* The conditions of the two loops of the owner; a reset ends them too.
Opening ==
    /\ ~w.error
    /\ \/ opc = "connect" /\ w.state = "SYN_SENT"
       \/ opc = "listen" /\ w.state \in {"LISTEN", "SYN_RCVD", "SYN_SENT"}

\* Then the TCP thread is started.
OwnerStarts ==
    /\ opc \in {"connect", "listen"} /\ thread.at = 0 /\ ~Opening
    /\ opc' = "copy" /\ tpc' = "loop"
    /\ UNCHANGED <<w, owner, thread, abort, inbox>>

\* wait_next_event up to the return of poll; without a timeout it blocks.  When
\* there is nothing left to poll, wait_until_closed() is called.
OwnerPolls ==
    LET set  == SetUp(owner, w, OwnerOver, OwnerInterest, OwnerCancel)
        loop == Poll(set.loop, set.w, OwnerReady, OwnerHup)
    IN  /\ Running /\ opc = "copy" /\ owner.at = 0
        /\ \/ /\ NothingToPoll(set.loop)
              /\ opc' = "join"
              /\ w' = shutdown(set.w, {"up", "down"})
              /\ owner' = set.loop
           \/ /\ ~NothingToPoll(set.loop) /\ ~TimesOut(loop)
              /\ w' = set.w
              /\ owner' = loop
              /\ UNCHANGED opc
        /\ UNCHANGED <<thread, tpc, abort, inbox>>

OwnerServes ==
    /\ Running /\ opc = "copy" /\ owner.at > 0
    /\ IF ToServe(owner) = {} THEN w' = w /\ owner' = Returned(owner)
       ELSE \E s \in Serve(owner, w, OwnerCallback, OwnerCancel) :
              w' = s.w /\ owner' = s.loop
    /\ UNCHANGED <<opc, thread, tpc, abort, inbox>>

\* An exception in the owner destroys the socket, which stops the TCP thread.
OwnerDrops ==
    /\ Running /\ opc = "copy" /\ ~abort
    /\ abort' = TRUE /\ opc' = "join"
    /\ UNCHANGED <<w, owner, thread, tpc, inbox>>

OwnerJoins ==
    /\ Running /\ opc = "join" /\ tpc = "done"
    /\ opc' = "done"
    /\ UNCHANGED <<w, owner, thread, tpc, abort, inbox>>

\* The end of _tcp_main: both directions are shut down, the connection destroyed.
ThreadEnds(v) ==
    /\ tpc' = "done"
    /\ w' = [ shutdown(v, {"up", "down"}) EXCEPT !.active = FALSE ]

ThreadRuns == Running /\ (tpc = "loop" \/ Opening \/ (tpc = "off" /\ thread.at > 0))

ThreadPolls ==
    LET set  == SetUp(thread, w, ThreadOver, ThreadInterest, ThreadCancel)
        loop == Poll(set.loop, set.w, ThreadReady, ThreadHup)
    IN  /\ ThreadRuns /\ thread.at = 0
        /\ \/ /\ NothingToPoll(set.loop)
              /\ ThreadEnds(set.w)
              /\ thread' = set.loop
           \/ /\ ~NothingToPoll(set.loop)
              /\ w' = set.w
              /\ thread' = loop
              /\ UNCHANGED tpc
        /\ UNCHANGED <<owner, opc, abort, inbox>>

ThreadServes ==
    /\ ThreadRuns /\ thread.at > 0 /\ ToServe(thread) # {}
    /\ \E s \in Serve(thread, w, ThreadCallback, ThreadCancel) : w' = s.w /\ thread' = s.loop
    /\ inbox' = IF thread.rules[NextRule(thread)] = "receive" THEN "none" ELSE inbox
    /\ UNCHANGED <<owner, opc, tpc, abort>>

\* The rest of the body of _tcp_loop.
ThreadTicks ==
    /\ ThreadRuns /\ thread.at > 0 /\ ToServe(thread) = {}
    /\ thread' = Returned(thread)
    /\ IF abort THEN ThreadEnds(w)
       ELSE (\E v \in TickOutcomes(w) : w' = v) /\ UNCHANGED tpc
    /\ UNCHANGED <<owner, opc, abort, inbox>>

\* What the peer may send now; a listening adapter lets nothing but a SYN pass.
Open == w.state = "ESTABLISHED"
PeerMay(s) ==
    CASE s = "syn"    -> w.state \in {"LISTEN", "SYN_SENT"}
      [] s = "synack" -> w.state = "SYN_SENT"
      [] s = "data"   -> Open /\ w.net < M /\ w.net - w.pipe < TcpCapacity
      [] s = "ack"    -> \/ w.state = "SYN_RCVD"
                         \/ Open /\ w.acked < w.tcp + (IF w.tcp_end THEN 1 ELSE 0)
      [] s = "fin"    -> Open /\ w.net = M /\ ~w.peer_end
      [] s = "rst"    -> w.state \notin {"CLOSED", "LISTEN"}

Stream == {"syn", "synack", "data", "ack", "fin"}

PeerSends(s) ==
    /\ Running /\ inbox = "none" /\ w.active /\ PeerMay(s)
    /\ inbox' = s
    /\ UNCHANGED <<w, owner, opc, thread, tpc, abort>>

Next ==
    \/ OwnerConnects \/ OwnerListens \/ OwnerStarts
    \/ OwnerPolls \/ OwnerServes \/ OwnerDrops \/ OwnerJoins
    \/ ThreadPolls \/ ThreadServes \/ ThreadTicks
    \/ \E s \in Stream \cup {"rst"} : PeerSends(s)

OwnerSteps ==
    \/ OwnerConnects \/ OwnerListens \/ OwnerStarts
    \/ OwnerPolls \/ OwnerServes \/ OwnerJoins
ThreadSteps == ThreadPolls \/ ThreadServes \/ ThreadTicks
PeerStreams == \E s \in Stream : PeerSends(s)

\* When each of these is possible, written out: TLC is slow to find it itself.
OwnerCan ==
    LET set  == SetUp(owner, w, OwnerOver, OwnerInterest, OwnerCancel)
        loop == Poll(set.loop, set.w, OwnerReady, OwnerHup)
    IN  Running /\ \/ opc = "open"
                   \/ opc \in {"connect", "listen"} /\ thread.at = 0 /\ ~Opening
                   \/ opc = "copy" /\ (owner.at > 0 \/ NothingToPoll(set.loop) \/ ~TimesOut(loop))
                   \/ opc = "join" /\ tpc = "done"
PeerCan ==
    Running /\ inbox = "none" /\ w.active /\ (\E s \in Stream : PeerMay(s))

\* The connection may be closed at the next tick.
MayFinish == Running /\ tpc = "loop" /\ w.active /\ w.peer_end /\ FullyAcked(w)

\* Both threads are scheduled, the peer opens and goes on with its stream, and lingering
\* ends (ConnectionSystem shows that it does).
Spec ==
    /\ Init /\ [][Next]_vars
    /\ <>[]OwnerCan => []<><<OwnerSteps>>_vars
    /\ <>[]ThreadRuns => []<><<ThreadSteps>>_vars
    /\ <>[]PeerCan => []<><<PeerStreams>>_vars
    /\ ~<>[]MayFinish

-----------------------------------------------------------------------------
\* TCP is told that the outbound stream has ended only after every byte of
\* standard input was given to it.
FinAfterLastByte ==
    w.tcp_end /\ ~abort /\ ~w.error => w.tcp = N

\* Standard output ends only after every byte the peer sent was written to it,
\* unless the connection was reset.
OutputComplete ==
    w.stdout_closed /\ ~w.error /\ ~abort => w.out = M

\* No thread writes to a local socket that is shut down, as long as the
\* connection is not reset.
NoBrokenPipe == w.error \/ abort \/ w.failure = "none"

\* The program ends.
EventuallyDone == <>(opc = "done" \/ ~Running)

=============================================================================
