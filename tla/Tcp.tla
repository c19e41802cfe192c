-------------------------------- MODULE Tcp --------------------------------
(***************************************************************************)
(* The TCP client of net/tcp.c: one connection, g_conn, used by one caller *)
(* (the system task), with segments handed to tcp_handle_packet by         *)
(* net_poll.  A step is a call of the API, one round of the waiting loop   *)
(* of tcp_connect, or the handling of one segment.                         *)
(*                                                                         *)
(* The servers are external: an ordinary TCP that answers SYN, sends a     *)
(* stream of bytes and a FIN, retransmits what has not been acknowledged,  *)
(* and never has more than the advertised window under way.  Towards us    *)
(* the network keeps segments for as long as it likes and may lose,        *)
(* duplicate and reorder them; a segment of ours reaches the server at     *)
(* once or is lost (ip_send also drops it when the ARP cache has no entry  *)
(* for the server): how long the server takes to react is the delay.       *)
(*                                                                         *)
(* Connections are numbered; the bytes of connection n are <<n, 1>>,       *)
(* <<n, 2>>, ...  Sequence numbers are taken modulo SeqSpace (2^32).       *)
(*                                                                         *)
(* X_Mut... before an operator X is X with a fault, as in Scheduler.       *)
(***************************************************************************)
EXTENDS Integers, Sequences, FiniteSets, SequencesExt

CONSTANTS
    Servers,          \* address and port of the servers
    NoServer,         \* the address 0.0.0.0
    RxBufSize,        \* TCP_RX_BUF_SIZE
    SeqSpace,         \* 2^32
    PortBase,         \* 49152, the first ephemeral port
    PortSpace,        \* 65536
    ConnectTicks,     \* 54: how long tcp_connect waits
    SynTicks,         \* 18: when it sends the SYN again
    Isns,             \* initial sequence numbers, of both sides
    StreamLen,        \* how many bytes a server has to send
    SegLen,           \* how many of them fit a segment
    RecvLens,         \* the buffer sizes callers give to tcp_recv
    Faults,           \* what the network does: \subseteq AllFaults
    MaxConnections,   \* bound: calls of tcp_connect
    MaxSent,          \* bound: bytes sent by us in a connection
    MaxInFlight       \* bound: segments under way to us

AllFaults == {"lose", "duplicate", "reorder", "reset"}

ASSUME TcpAssumption ==
    /\ NoServer \notin Servers
    /\ RxBufSize \in Nat \ {0, 1}
    /\ SeqSpace \in Nat /\ SeqSpace > StreamLen + 2
    /\ PortBase \in Nat /\ PortSpace \in Nat /\ PortBase < PortSpace
    /\ ConnectTicks \in Nat \ {0} /\ SynTicks \in Nat \ {0}
    /\ Isns \subseteq 0 .. SeqSpace - 1
    /\ StreamLen \in Nat /\ SegLen \in Nat \ {0}
    /\ RecvLens \subseteq Nat \ {0}
    /\ Faults \subseteq AllFaults
    /\ MaxConnections \in Nat /\ MaxSent \in Nat /\ MaxInFlight \in Nat \ {0}

VARIABLES
    \* g_conn
    state, remote, local_port, seq, ack, rx_buf, rx_head, rx_tail,
    \* g_tcp_local_port_counter
    port_counter,
    \* tcp_connect: whether it is waiting, system_ticks - start and
    \* system_ticks - last_syn (counted no further than they matter)
    connecting, elapsed, since_syn,
    \* the connection g_conn holds, 0 before the first; why it was closed
    conn_no, ended,
    \* of this connection: the bytes put into the ring and not yet read, how
    \* far into the server's stream tcp_recv has come (Garbled once it has
    \* returned anything but the next bytes), and how many bytes we sent
    pending, read, sent,
    \* the segments under way to us, oldest first
    incoming,
    \* the server side of connection n
    server

conn  == <<state, remote, local_port, seq, ack, rx_buf, rx_head, rx_tail>>
ghost == <<conn_no, ended, pending, read, sent>>
wait  == <<connecting, elapsed, since_syn>>
vars  == <<conn, ghost, wait, port_counter, incoming, server>>

ConnNos == 1 .. MaxConnections
NoByte == <<0, 0>>
Garbled == -1
Bytes == {NoByte} \cup (ConnNos \X (1 .. StreamLen))
Stream(n) == [k \in 1 .. StreamLen |-> <<n, k>>]

(* A segment from a server: `of` is the connection it belongs to, which we
   cannot see; everything else is in its headers. *)
Segment == [of : ConnNos, from : Servers, port : 0 .. PortSpace - 1,
            flags : SUBSET {"SYN", "ACK", "FIN", "RST"},
            seq : 0 .. SeqSpace - 1, ack : 0 .. SeqSpace - 1,
            data : Seq(Bytes)]

Server == [st : {"none", "answered", "open"}, at : Servers \cup {NoServer},
           isn : 0 .. SeqSpace - 1, client : 0 .. SeqSpace - 1, got : Nat,
           una : 0 .. StreamLen, nxt : 0 .. StreamLen, fin : BOOLEAN]

TypeOK ==
    /\ state \in {"CLOSED", "SYN_SENT", "ESTABLISHED"}
    /\ remote \in Servers \cup {NoServer}
    /\ local_port \in 0 .. PortSpace - 1
    /\ seq \in 0 .. SeqSpace - 1 /\ ack \in 0 .. SeqSpace - 1
    /\ rx_buf \in [0 .. RxBufSize - 1 -> Bytes]
    /\ rx_head \in 0 .. RxBufSize - 1 /\ rx_tail \in 0 .. RxBufSize - 1
    /\ port_counter \in Nat
    /\ connecting \in BOOLEAN
    /\ elapsed \in 0 .. ConnectTicks /\ since_syn \in 0 .. SynTicks
    /\ conn_no \in 0 .. MaxConnections
    /\ ended \in {"no", "timeout", "reset", "fin", "close"}
    /\ pending \in Seq(Bytes) /\ read \in Garbled .. StreamLen /\ sent \in Nat
    /\ incoming \in Seq(Segment)
    /\ server \in [ConnNos -> Server]

(* tcp_init.  The other fields of g_conn are 0, and so is the address. *)
Init ==
    /\ state = "CLOSED" /\ remote = NoServer /\ local_port = 0
    /\ seq = 0 /\ ack = 0
    /\ rx_buf = [i \in 0 .. RxBufSize - 1 |-> NoByte]
    /\ rx_head = 0 /\ rx_tail = 0
    /\ port_counter = PortBase
    /\ connecting = FALSE /\ elapsed = 0 /\ since_syn = 0
    /\ conn_no = 0 /\ ended = "no"
    /\ pending = <<>> /\ read = 0 /\ sent = 0
    /\ incoming = <<>>
    /\ server \in [ConnNos -> [st : {"none"}, at : {NoServer}, isn : Isns,
                               client : {0}, got : {0}, una : {0}, nxt : {0},
                               fin : {FALSE}]]

-----------------------------------------------------------------------------
(* What a segment of ours, of connection n, does to the server. *)

Plus(a, b) == (a + b) % SeqSpace
Minus(a, b) == (a - b) % SeqSpace

(* A SYN: a second one is answered again, from the same state. *)
SynArrives(n, s, to) ==
    server' = IF server[n].st # "none" THEN server
              ELSE [server EXCEPT ![n].st = "answered", ![n].client = s,
                                  ![n].at = to]

(* An acknowledgement, with len bytes of ours. *)
AckArrives(n, a, len) ==
    LET done == Minus(a, Plus(server[n].isn, 1)) IN
    server' = [server EXCEPT
        ![n].st = IF @ = "answered" /\ done = 0 THEN "open" ELSE @,
        ![n].got = @ + len,
        ![n].una = IF done <= server[n].nxt /\ done > @ THEN done ELSE @]

(* ip_send may drop it, and so may the network. *)
Lost == "lose" \in Faults /\ UNCHANGED server

-----------------------------------------------------------------------------
(* The API. *)

LocalPort(counter) ==
    LET p == counter % PortSpace IN IF p < PortBase THEN PortBase ELSE p

(* tcp_connect, up to its waiting loop. *)
Connect_Mut(s, isn) ==
    /\ ~connecting /\ conn_no < MaxConnections
    /\ state' = "SYN_SENT"
    /\ remote' = s
    /\ local_port' = LocalPort(port_counter)
    /\ port_counter' = port_counter + 1
    /\ seq' = isn /\ ack' = 0
    /\ connecting' = TRUE /\ elapsed' = 0 /\ since_syn' = 0
    /\ conn_no' = conn_no + 1 /\ ended' = "no"
    /\ pending' = <<>> /\ read' = 0 /\ sent' = 0
    /\ SynArrives(conn_no + 1, isn, s) \/ Lost
    /\ UNCHANGED <<rx_buf, rx_head, rx_tail, incoming>>
Connect(s, isn) ==
    /\ ~connecting /\ conn_no < MaxConnections
    /\ state' = "SYN_SENT"
    /\ rx_head' = 0 /\ rx_tail' = 0
    /\ remote' = s
    /\ local_port' = LocalPort(port_counter)
    /\ port_counter' = port_counter + 1
    /\ seq' = isn /\ ack' = 0
    /\ connecting' = TRUE /\ elapsed' = 0 /\ since_syn' = 0
    /\ conn_no' = conn_no + 1 /\ ended' = "no"
    /\ pending' = <<>> /\ read' = 0 /\ sent' = 0
    /\ SynArrives(conn_no + 1, isn, s) \/ Lost
    /\ UNCHANGED <<rx_buf, incoming>>

Tick ==
    /\ connecting
    /\ elapsed < ConnectTicks \/ since_syn < SynTicks
    /\ elapsed' = IF elapsed < ConnectTicks THEN elapsed + 1 ELSE elapsed
    /\ since_syn' = IF since_syn < SynTicks THEN since_syn + 1 ELSE since_syn
    /\ UNCHANGED <<conn, ghost, connecting, port_counter, incoming, server>>

(* The loop, after net_poll: connected, ... *)
ConnectReturns ==
    /\ connecting /\ state = "ESTABLISHED"
    /\ connecting' = FALSE /\ elapsed' = 0 /\ since_syn' = 0
    /\ UNCHANGED <<conn, ghost, port_counter, incoming, server>>

(* ... the SYN is sent again, ... *)
ResendSyn ==
    /\ connecting /\ state # "ESTABLISHED"
    /\ since_syn >= SynTicks /\ since_syn' = 0
    /\ SynArrives(conn_no, seq, remote) \/ Lost
    /\ UNCHANGED <<conn, ghost, connecting, elapsed, port_counter, incoming>>

(* ... or the time is up. *)
ConnectTimesOut ==
    /\ connecting /\ state # "ESTABLISHED"
    /\ elapsed >= ConnectTicks
    /\ connecting' = FALSE /\ elapsed' = 0 /\ since_syn' = 0
    /\ state' = "CLOSED"
    /\ ended' = IF ended = "no" THEN "timeout" ELSE ended
    /\ UNCHANGED <<remote, local_port, seq, ack, rx_buf, rx_head, rx_tail,
                   conn_no, pending, read, sent, port_counter, incoming,
                   server>>

(* tcp_send of len bytes.  Nothing keeps them for a retransmission. *)
Send(len) ==
    /\ ~connecting /\ state = "ESTABLISHED"
    /\ sent + len <= MaxSent
    /\ seq' = Plus(seq, len) /\ sent' = sent + len
    /\ AckArrives(conn_no, ack, len) \/ Lost
    /\ UNCHANGED <<state, remote, local_port, ack, rx_buf, rx_head, rx_tail,
                   conn_no, ended, pending, read, wait, port_counter,
                   incoming>>

(* How many bytes are in the ring, and which. *)
Avail == IF rx_tail >= rx_head THEN rx_tail - rx_head
                               ELSE RxBufSize - rx_head + rx_tail
InRing == [k \in 1 .. Avail |-> rx_buf[(rx_head + k - 1) % RxBufSize]]

(* tcp_recv with room for max_len bytes.  Unless the state is ESTABLISHED it
   returns -1 and takes nothing. *)
Recv(max_len) ==
    LET n == IF Avail > max_len THEN max_len ELSE Avail IN
    /\ ~connecting /\ state = "ESTABLISHED"
    /\ n > 0
    /\ rx_head' = (rx_head + n) % RxBufSize
    /\ pending' = SubSeq(pending, n + 1, Len(pending))
    /\ read' = IF /\ read # Garbled /\ read + n <= StreamLen
                  /\ SubSeq(InRing, 1, n) =
                        SubSeq(Stream(conn_no), read + 1, read + n)
               THEN read + n ELSE Garbled
    /\ UNCHANGED <<state, remote, local_port, seq, ack, rx_buf, rx_tail,
                   conn_no, ended, sent, wait, port_counter, incoming,
                   server>>

(* tcp_close. *)
Close ==
    /\ ~connecting /\ state # "CLOSED"
    /\ seq' = Plus(seq, 1)
    /\ AckArrives(conn_no, ack, 0) \/ Lost
    /\ state' = "CLOSED" /\ ended' = "close"
    /\ UNCHANGED <<remote, local_port, ack, rx_buf, rx_head, rx_tail, conn_no,
                   pending, read, sent, wait, port_counter, incoming>>

-----------------------------------------------------------------------------
(* tcp_handle_packet. *)

ForUs(s) == s.from = remote /\ s.port = local_port

(* Byte by byte into the ring, as long as there is room. *)
Room == RxBufSize - 1 - Avail
Kept_Mut(data) ==
    SubSeq(data, 1, IF Len(data) > Room + 1 THEN Room + 1 ELSE Len(data))
Kept(data) == SubSeq(data, 1, IF Len(data) > Room THEN Room ELSE Len(data))

StoreData(data) ==
    LET kept == Kept(data) IN
    /\ rx_buf' = [i \in 0 .. RxBufSize - 1 |->
                     LET k == ((i - rx_tail) % RxBufSize) + 1 IN
                     IF k \in 1 .. Len(kept) THEN kept[k] ELSE rx_buf[i]]
    /\ rx_tail' = (rx_tail + Len(kept)) % RxBufSize
    /\ pending' = pending \o kept

(* SYN_SENT: only a SYN-ACK counts; whatever else it carries is left. *)
HandleSynSent_Mut1(s) ==
    /\ state # "ESTABLISHED"
    /\ {"SYN", "ACK"} \subseteq s.flags
    /\ seq' = s.ack /\ ack' = Plus(s.seq, 1)
    /\ state' = "ESTABLISHED"
    /\ AckArrives(conn_no, ack', 0) \/ Lost
    /\ UNCHANGED <<rx_buf, rx_tail, pending, ended>>
HandleSynSent_Mut2(s) ==
    /\ state = "SYN_SENT"
    /\ {"SYN", "ACK"} \subseteq s.flags
    /\ seq' = seq /\ ack' = Plus(s.seq, 1)
    /\ state' = "ESTABLISHED"
    /\ AckArrives(conn_no, ack', 0) \/ Lost
    /\ UNCHANGED <<rx_buf, rx_tail, pending, ended>>
HandleSynSent(s) ==
    /\ state = "SYN_SENT"
    /\ {"SYN", "ACK"} \subseteq s.flags
    /\ seq' = s.ack /\ ack' = Plus(s.seq, 1)
    /\ state' = "ESTABLISHED"
    /\ AckArrives(conn_no, ack', 0) \/ Lost
    /\ UNCHANGED <<rx_buf, rx_tail, pending, ended>>

HandleReset(s) ==
    /\ state = "ESTABLISHED" /\ "RST" \in s.flags
    /\ state' = "CLOSED" /\ ended' = "reset"
    /\ UNCHANGED <<seq, ack, rx_buf, rx_tail, pending, server>>

(* ESTABLISHED: the data are stored and acknowledged, wherever they lie in the
   stream, ... *)
HandleData(s) ==
    /\ state = "ESTABLISHED" /\ s.flags \cap {"RST", "FIN"} = {}
    /\ s.data # <<>>
    /\ ack' = Plus(s.seq, Len(s.data))
    /\ StoreData(s.data)
    /\ AckArrives(conn_no, ack', 0) \/ Lost
    /\ UNCHANGED <<state, seq, ended>>

(* ... and a FIN, after the data of its segment, closes the connection.  The
   last acknowledgement, ack', does not count those data. *)
HandleFin(s) ==
    /\ state = "ESTABLISHED" /\ "RST" \notin s.flags /\ "FIN" \in s.flags
    /\ StoreData(s.data)
    /\ ack' = Plus(s.seq, 1)
    /\ AckArrives(conn_no, Plus(s.seq, Len(s.data)), 0) \/ Lost
    /\ seq' = Plus(seq, 1)
    /\ state' = "CLOSED" /\ ended' = "fin"

(* A segment that is dropped: not ours, or nothing to do in this state. *)
Dropped(s) ==
    \/ ~ForUs(s)
    \/ state = "CLOSED"
    \/ state = "SYN_SENT" /\ ~({"SYN", "ACK"} \subseteq s.flags)
    \/ state = "ESTABLISHED" /\ s.flags \cap {"RST", "FIN"} = {} /\ s.data = <<>>

tcp_handle_packet(s) ==
    /\ \/ /\ ForUs(s)
          /\ HandleSynSent(s) \/ HandleReset(s) \/ HandleData(s) \/ HandleFin(s)
       \/ /\ Dropped(s)
          /\ UNCHANGED <<state, seq, ack, rx_buf, rx_tail, pending, ended, server>>
    /\ UNCHANGED <<remote, local_port, rx_head, conn_no, read, sent, wait,
                   port_counter>>

(* net_poll hands over the oldest segment, or any other. *)
Deliver ==
    \E i \in DOMAIN incoming :
        /\ i = 1 \/ "reorder" \in Faults
        /\ tcp_handle_packet(incoming[i])
        /\ \/ incoming' = RemoveAt(incoming, i)
           \/ "duplicate" \in Faults /\ UNCHANGED incoming

Lose ==
    /\ "lose" \in Faults
    /\ \E i \in DOMAIN incoming : incoming' = RemoveAt(incoming, i)
    /\ UNCHANGED <<conn, ghost, wait, port_counter, server>>

-----------------------------------------------------------------------------
(* The servers. *)

(* The server of connection n sends a segment, from where it lies in its own
   sequence space.  Connection n was made when port_counter was
   PortBase + n - 1. *)
ServerSends(n, flags, offset, data) ==
    /\ Len(incoming) < MaxInFlight
    /\ incoming' = Append(incoming,
           [of |-> n, from |-> server[n].at,
            port |-> LocalPort(PortBase + n - 1),
            flags |-> flags, seq |-> Plus(server[n].isn, offset),
            ack |-> Plus(server[n].client, 1 + server[n].got), data |-> data])
    /\ UNCHANGED <<conn, ghost, wait, port_counter>>

(* The answer to a SYN, again if it may have been lost. *)
SynAck(n) ==
    /\ server[n].st = "answered" \/ (server[n].st = "open" /\ Faults # {})
    /\ ServerSends(n, {"SYN", "ACK"}, 0, <<>>)
    /\ UNCHANGED server

(* New bytes and, when the network may have lost something, old ones; at most
   RxBufSize beyond what we have acknowledged.  The last ones may carry the
   FIN, which may also follow alone. *)
Data(n, from, len, fin) ==
    LET to == from + len IN
    /\ server[n].st = "open"
    /\ server[n].una <= from
    /\ from = server[n].nxt \/ (from < server[n].nxt /\ Faults # {})
    /\ to <= StreamLen /\ to <= server[n].una + RxBufSize
    /\ len > 0 \/ fin
    /\ fin => to = StreamLen
    /\ Faults = {} => ~server[n].fin
    /\ ServerSends(n, IF fin THEN {"ACK", "FIN"} ELSE {"ACK"}, 1 + from,
                   SubSeq(Stream(n), from + 1, to))
    /\ server' = [server EXCEPT ![n].nxt = IF to > @ THEN to ELSE @,
                                ![n].fin = @ \/ fin]

Reset(n) ==
    /\ "reset" \in Faults /\ server[n].st # "none"
    /\ ServerSends(n, {"RST"}, 1 + server[n].nxt, <<>>)
    /\ UNCHANGED server

ServerStep ==
    \E n \in ConnNos :
        \/ SynAck(n)
        \/ \E from \in 0 .. StreamLen, len \in 0 .. SegLen, fin \in BOOLEAN :
               Data(n, from, len, fin)
        \/ Reset(n)

-----------------------------------------------------------------------------
ConnectStep == ConnectReturns \/ ResendSyn \/ ConnectTimesOut

Next == \/ \E s \in Servers, isn \in Isns : Connect(s, isn)
        \/ Tick
        \/ ConnectStep
        \/ \E len \in 1 .. MaxSent : Send(len)
        \/ \E max_len \in RecvLens : Recv(max_len)
        \/ Close
        \/ Deliver
        \/ Lose
        \/ ServerStep

Spec == Init /\ [][Next]_vars

-----------------------------------------------------------------------------
(* Properties. *)

(* The ring between tcp_handle_packet and tcp_recv is a queue, across its
   wrap-around and when it is full: what has been read and what is still in
   it is what was put in, in that order. *)
RingIsFifo == InRing = pending

(* However segments of earlier connections linger, no byte of theirs enters
   the ring: the port counter tells the connections apart. *)
OwnBytesOnly == \A k \in DOMAIN pending : pending[k][1] = conn_no

(* The receive buffer is right: a queue of bytes of the present connection. *)
RingIsRight == TypeOK /\ RingIsFifo /\ OwnBytesOnly

(* Both ends agree after the handshake, however many SYNs and answers were
   lost or repeated: the server knows of the connection, and our sequence
   number is the one it expects after the bytes we have sent. *)
HandshakeAgrees ==
    state = "ESTABLISHED" =>
        /\ server[conn_no].st # "none" /\ server[conn_no].at = remote
        /\ seq = Plus(server[conn_no].client, 1 + sent)

(* We never acknowledge what the server has not sent in this connection. *)
AckOnlySent ==
    state = "ESTABLISHED" =>
        Minus(ack, Plus(server[conn_no].isn, 1)) <= server[conn_no].nxt

(* What we say of the connection is true at the other end. *)
EndsAgree == HandshakeAgrees /\ AckOnlySent

(* A connection is over once: only a segment of its own closes it, however
   long those of earlier ones linger, and no late segment, be it the answer to
   one of several SYNs, opens it again. *)
ClosedOnce ==
    [][/\ ended = "no" /\ ended' \in {"fin", "reset"} =>
             \E i \in DOMAIN incoming :
                 /\ incoming[i].of = conn_no
                 /\ incoming[i].flags \cap {"FIN", "RST"} # {}
       /\ state = "CLOSED" /\ conn_no' = conn_no => state' = "CLOSED"]_vars

(* Over a network that neither loses, repeats nor reorders, and with room in
   the ring for the whole stream, the client is a byte stream. *)
Socket == INSTANCE ByteStream WITH
    phase <- CASE state = "CLOSED"      -> "closed"
               [] state = "SYN_SENT"    -> "connecting"
               [] state = "ESTABLISHED" -> "open",
    written <- IF conn_no = 0 THEN 0 ELSE server[conn_no].nxt

ImplementsByteStream == Socket!Spec

(* tcp.h: "Enough for an HTTP/1.0 request-response cycle", in which the
   server closes the connection after its response: the caller has received
   it all, or tcp_recv still returns bytes, when the FIN has been handled. *)
ResponseReadable ==
    ended = "fin" => read = StreamLen \/ state = "ESTABLISHED"

=============================================================================
