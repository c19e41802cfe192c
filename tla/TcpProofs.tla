----------------------------- MODULE TcpProofs -----------------------------
(***************************************************************************)
(* The receive ring of net/tcp.c is a queue, whatever its size, and only a *)
(* connection's own segments fill it or close the connection, as long as   *)
(* no ephemeral port comes round again.                                    *)
(***************************************************************************)
EXTENDS Tcp, SequenceTheorems, TLAPS

\* 49152 .. 65535: 16384 connections can be made before a port is used again.
PortsSuffice == MaxConnections <= PortSpace - PortBase

\* The local port of connection n.
PortOf(n) == LocalPort(PortBase + n - 1)

\* A segment carries the port and the bytes of its own connection, ...
Tagged == {s \in Segment : /\ s.port = PortOf(s.of)
                           /\ \A k \in DOMAIN s.data : s.data[k][1] = s.of}

\* ... a server that has answered has an address, ...
Answering == {r \in Server : r.st # "none" => r.at \in Servers}

\* ... and g_conn has the port of the connection it holds.
Numbered ==
    /\ port_counter = PortBase + conn_no
    /\ state # "CLOSED" => conn_no # 0 /\ local_port = PortOf(conn_no)
    /\ connecting => conn_no # 0 /\ remote \in Servers

\* The bytes of the ring are the pending ones.
RingHolds ==
    /\ Len(pending) = Avail
    /\ \A k \in 1 .. Len(pending) :
           pending[k] = rx_buf[(rx_head + k - 1) % RxBufSize]

IInv ==
    /\ TypeOK
    /\ Numbered
    /\ server \in [ConnNos -> Answering]
    /\ incoming \in Seq(Tagged)

-----------------------------------------------------------------------------
(* Numbers. *)

LEMMA Constants ==
    /\ RxBufSize \in Nat \ {0, 1}
    /\ SeqSpace \in Nat \ {0}
    /\ PortBase \in Nat /\ PortSpace \in Nat /\ PortBase < PortSpace
    /\ ConnectTicks \in Nat \ {0} /\ SynTicks \in Nat \ {0}
    /\ StreamLen \in Nat /\ SegLen \in Nat
    /\ MaxConnections \in Nat
    /\ 0 \notin ConnNos
    /\ ConnNos = 1 .. MaxConnections
  BY TcpAssumption DEF ConnNos

LEMMA ModRange ==
    ASSUME NEW n \in Nat \ {0}, NEW x \in Int
    PROVE  x % n \in 0 .. n - 1
  OBVIOUS

LEMMA SeqArithmetic ==
    ASSUME NEW a \in Int, NEW b \in Int
    PROVE  Plus(a, b) \in 0 .. SeqSpace - 1 /\ Minus(a, b) \in 0 .. SeqSpace - 1
<1>1. a + b \in Int /\ a - b \in Int
  OBVIOUS
<1> QED
  BY <1>1, ModRange, Constants DEF Plus, Minus

LEMMA PortTyped ==
    ASSUME NEW counter \in Nat
    PROVE  LocalPort(counter) \in 0 .. PortSpace - 1
<1>1. counter % PortSpace \in 0 .. PortSpace - 1
  BY ModRange, Constants
<1> QED
  BY <1>1, Constants DEF LocalPort

\* No two connections have the same port.
LEMMA PortsDiffer ==
    ASSUME PortsSuffice, NEW m \in ConnNos, NEW n \in ConnNos, PortOf(m) = PortOf(n)
    PROVE  m = n
<1>1. ASSUME NEW k \in ConnNos
      PROVE  PortOf(k) = PortBase + k - 1
  <2> DEFINE c == PortBase + k - 1
  <2>1. c \in Nat /\ PortBase <= c /\ c < PortSpace
    BY Constants DEF PortsSuffice
  <2> HIDE DEF c
  <2>2. c % PortSpace = c
    BY <2>1, Constants
  <2>3. LocalPort(c) = c
    BY <2>1, <2>2, Constants DEF LocalPort
  <2> QED
    BY <2>3 DEF PortOf, c
<1> QED
  BY <1>1, Constants

-----------------------------------------------------------------------------
(* The servers. *)

LEMMA SynTyped ==
    ASSUME server \in [ConnNos -> Answering], NEW n \in ConnNos,
           NEW s \in 0 .. SeqSpace - 1, NEW to \in Servers,
           SynArrives(n, s, to) \/ Lost
    PROVE  server' \in [ConnNos -> Answering]
<1> DEFINE r == [server[n] EXCEPT !.st = "answered", !.client = s, !.at = to]
<1>1. r \in Answering
  BY DEF Answering, Server
<1>2. server' = server \/ server' = [server EXCEPT ![n] = r]
  BY DEF SynArrives, Lost
<1> HIDE DEF r
<1> QED
  BY <1>1, <1>2

LEMMA AckTyped ==
    ASSUME server \in [ConnNos -> Answering], NEW n \in ConnNos,
           NEW a \in Int, NEW len \in Nat,
           AckArrives(n, a, len) \/ Lost
    PROVE  server' \in [ConnNos -> Answering]
<1> DEFINE done == Minus(a, Plus(server[n].isn, 1))
           st1 == IF server[n].st = "answered" /\ done = 0 THEN "open" ELSE server[n].st
           una1 == IF done <= server[n].nxt /\ done > server[n].una
                   THEN done ELSE server[n].una
           r == [server[n] EXCEPT !.st = st1, !.got = server[n].got + len, !.una = una1]
<1>1. /\ server[n] \in Server
      /\ server[n].st # "none" => server[n].at \in Servers
  BY DEF Answering
<1>2. done \in Nat
  <2>1. Plus(server[n].isn, 1) \in Int
    BY <1>1, SeqArithmetic, Constants DEF Server
  <2>2. done \in 0 .. SeqSpace - 1
    BY <2>1, SeqArithmetic
  <2> HIDE DEF done
  <2> QED
    BY <2>2, Constants
<1> HIDE DEF done
<1>3. st1 \in {"none", "answered", "open"} /\ (st1 # "none" => server[n].st # "none")
  BY <1>1 DEF Server
<1>4. una1 \in 0 .. StreamLen
  BY <1>1, <1>2, Constants DEF Server
<1>5. server' = server \/ server' = [server EXCEPT ![n] = r]
  BY DEF AckArrives, Lost, done
<1> HIDE DEF st1, una1
<1>6. r \in Answering
  <2>1. server[n].got + len \in Nat
    BY <1>1 DEF Server
  <2>2. r \in Server
    BY <1>1, <1>3, <1>4, <2>1 DEF Server
  <2>3. r.st = st1 /\ r.at = server[n].at
    BY <1>1 DEF Server
  <2> QED
    BY <1>1, <1>3, <2>2, <2>3 DEF Answering
<1> HIDE DEF r
<1> QED
  BY <1>5, <1>6

\* What a server sends is a segment of its connection.
LEMMA SendsTagged ==
    ASSUME server \in [ConnNos -> Answering], incoming \in Seq(Tagged),
           NEW n \in ConnNos, NEW flags \in SUBSET {"SYN", "ACK", "FIN", "RST"},
           NEW offset \in Int, NEW data \in Seq(Bytes),
           \A k \in DOMAIN data : data[k][1] = n,
           server[n].st # "none", ServerSends(n, flags, offset, data)
    PROVE  incoming' \in Seq(Tagged)
<1> DEFINE seg == [of |-> n, from |-> server[n].at,
                   port |-> LocalPort(PortBase + n - 1),
                   flags |-> flags, seq |-> Plus(server[n].isn, offset),
                   ack |-> Plus(server[n].client, 1 + server[n].got), data |-> data]
<1>1. /\ server[n].at \in Servers /\ server[n].isn \in Int
      /\ server[n].client \in Int /\ 1 + server[n].got \in Int
  BY Constants DEF Answering, Server
<1>2. LocalPort(PortBase + n - 1) \in 0 .. PortSpace - 1
  <2>1. PortBase + n - 1 \in Nat
    BY Constants
  <2> QED
    BY <2>1, PortTyped
<1>3. /\ Plus(server[n].isn, offset) \in 0 .. SeqSpace - 1
      /\ Plus(server[n].client, 1 + server[n].got) \in 0 .. SeqSpace - 1
  BY <1>1, SeqArithmetic
<1>4. seg \in Segment
  BY <1>1, <1>2, <1>3 DEF Segment
<1>5. seg \in Tagged
  BY <1>4 DEF Tagged, PortOf
<1>6. incoming' = Append(incoming, seg)
  BY DEF ServerSends
<1> HIDE DEF seg
<1> QED
  BY <1>5, <1>6

LEMMA StreamTyped ==
    ASSUME NEW n \in ConnNos, NEW from \in 0 .. StreamLen, NEW to \in 0 .. StreamLen
    PROVE  /\ SubSeq(Stream(n), from + 1, to) \in Seq(Bytes)
           /\ \A k \in DOMAIN SubSeq(Stream(n), from + 1, to) :
                  SubSeq(Stream(n), from + 1, to)[k][1] = n
<1> DEFINE OfN == {b \in Bytes : b[1] = n}
           d == SubSeq(Stream(n), from + 1, to)
<1>1. \A i \in from + 1 .. to : Stream(n)[i] \in OfN
  BY Constants DEF Stream, Bytes
<1>2. d \in Seq(OfN)
  <2> HIDE DEF OfN
  <2> QED
    BY <1>1, SubSeqProperties, Constants
<1>3. \A k \in DOMAIN d : d[k] \in OfN
  BY <1>2
<1>4. d \in Seq(Bytes)
  BY <1>2
<1> QED
  BY <1>3, <1>4

-----------------------------------------------------------------------------
(* Types and numbers are kept. *)

LEMMA InitIInv == Init => IInv
<1> SUFFICES ASSUME Init
             PROVE  IInv
  OBVIOUS
<1> USE Constants
<1>1. server \in [ConnNos -> Answering]
  <2> DEFINE Fresh == [st : {"none"}, at : {NoServer}, isn : Isns, client : {0},
                       got : {0}, una : {0}, nxt : {0}, fin : {FALSE}]
  <2>1. \A i \in Isns : i \in 0 .. SeqSpace - 1
    BY TcpAssumption
  <2>2. ASSUME NEW r \in Fresh
        PROVE  r \in Server
    <3>1. /\ r = [st |-> r.st, at |-> r.at, isn |-> r.isn, client |-> r.client,
                  got |-> r.got, una |-> r.una, nxt |-> r.nxt, fin |-> r.fin]
          /\ r.st \in {"none", "answered", "open"} /\ r.at \in Servers \cup {NoServer}
      OBVIOUS
    <3>2. r.isn \in 0 .. SeqSpace - 1 /\ r.client \in 0 .. SeqSpace - 1
      BY <2>1
    <3>3. r.got \in Nat /\ r.una \in 0 .. StreamLen /\ r.nxt \in 0 .. StreamLen
      OBVIOUS
    <3>4. r.fin \in BOOLEAN
      OBVIOUS
    <3> HIDE DEF Fresh
    <3> QED
      BY <3>1, <3>2, <3>3, <3>4 DEF Server
  <2>3. ASSUME NEW r \in Fresh
        PROVE  r.st = "none"
    OBVIOUS
  <2>4. server \in [ConnNos -> Fresh]
    BY DEF Init
  <2> HIDE DEF Fresh
  <2> QED
    BY <2>2, <2>3, <2>4 DEF Answering
<1>2. server \in [ConnNos -> Server]
  BY <1>1 DEF Answering
<1>3. rx_buf \in [0 .. RxBufSize - 1 -> Bytes]
  BY DEF Init, Bytes
<1>4. pending \in Seq(Bytes) /\ incoming \in Seq(Segment) /\ incoming \in Seq(Tagged)
  BY DEF Init
<1>5. /\ rx_head \in 0 .. RxBufSize - 1 /\ rx_tail \in 0 .. RxBufSize - 1
      /\ seq \in 0 .. SeqSpace - 1 /\ ack \in 0 .. SeqSpace - 1
      /\ local_port \in 0 .. PortSpace - 1 /\ port_counter \in Nat
      /\ elapsed \in 0 .. ConnectTicks /\ since_syn \in 0 .. SynTicks
      /\ conn_no \in 0 .. MaxConnections
      /\ read \in Garbled .. StreamLen /\ sent \in Nat
  BY DEF Init, Garbled
<1>6. TypeOK
  BY <1>2, <1>3, <1>4, <1>5 DEF Init, TypeOK
<1>7. Numbered
  BY DEF Init, Numbered
<1> QED
  BY <1>1, <1>4, <1>6, <1>7 DEF IInv

LEMMA ConnectKeeps ==
    ASSUME IInv, NEW s \in Servers, NEW isn \in Isns, Connect(s, isn)
    PROVE  IInv'
<1> USE Constants
<1>1. /\ conn_no + 1 \in ConnNos
      /\ conn_no' = conn_no + 1
      /\ isn \in 0 .. SeqSpace - 1
  BY TcpAssumption DEF IInv, TypeOK, Connect
<1>2. server' \in [ConnNos -> Answering]
  <2>1. SynArrives(conn_no + 1, isn, s) \/ Lost
    BY DEF Connect
  <2> QED
    BY <1>1, <2>1, SynTyped DEF IInv
<1>3. server' \in [ConnNos -> Server]
  BY <1>2 DEF Answering
<1>4. /\ port_counter \in Nat /\ port_counter = PortBase + conn_no
      /\ conn_no \in Nat
  BY DEF IInv, TypeOK, Numbered
<1>5. /\ LocalPort(port_counter) \in 0 .. PortSpace - 1
      /\ LocalPort(port_counter) = PortOf(conn_no + 1)
  <2>1. PortBase + (conn_no + 1) - 1 = port_counter
    BY <1>4
  <2> QED
    BY <1>4, <2>1, PortTyped DEF PortOf
<1>6. Numbered'
  BY <1>1, <1>4, <1>5 DEF Connect, Numbered
<1>7. TypeOK'
  BY <1>1, <1>3, <1>4, <1>5 DEF IInv, TypeOK, Connect, Garbled
<1> QED
  BY <1>2, <1>6, <1>7 DEF IInv, Connect

LEMMA WaitingKeeps ==
    ASSUME IInv, Tick \/ ConnectStep
    PROVE  IInv'
<1> USE Constants
<1>1. CASE Tick
  BY <1>1 DEF IInv, TypeOK, Numbered, Tick, conn, ghost
<1>2. CASE ConnectReturns
  <2>1. elapsed' \in 0 .. ConnectTicks /\ since_syn' \in 0 .. SynTicks
    BY <1>2 DEF ConnectReturns
  <2>2. TypeOK'
    BY <1>2, <2>1 DEF IInv, TypeOK, ConnectReturns, conn, ghost
  <2> QED
    BY <1>2, <2>2 DEF IInv, Numbered, ConnectReturns, conn, ghost
<1>3. CASE ResendSyn
  <2>1. conn_no \in ConnNos /\ remote \in Servers /\ seq \in 0 .. SeqSpace - 1
    BY <1>3 DEF IInv, TypeOK, Numbered, ResendSyn
  <2>2. SynArrives(conn_no, seq, remote) \/ Lost
    BY <1>3 DEF ResendSyn
  <2>3. server' \in [ConnNos -> Answering]
    BY <2>1, <2>2, SynTyped DEF IInv
  <2>4. server' \in [ConnNos -> Server]
    BY <2>3 DEF Answering
  <2> QED
    BY <1>3, <2>3, <2>4 DEF IInv, TypeOK, Numbered, ResendSyn, conn, ghost
<1>4. CASE ConnectTimesOut
  <2>1. elapsed' \in 0 .. ConnectTicks /\ since_syn' \in 0 .. SynTicks
    BY <1>4 DEF ConnectTimesOut
  <2>2. ended' \in {"no", "timeout", "reset", "fin", "close"}
    BY <1>4 DEF IInv, TypeOK, ConnectTimesOut
  <2>3. TypeOK'
    BY <1>4, <2>1, <2>2 DEF IInv, TypeOK, ConnectTimesOut
  <2> QED
    BY <1>4, <2>3 DEF IInv, Numbered, ConnectTimesOut
<1> QED
  BY <1>1, <1>2, <1>3, <1>4 DEF ConnectStep

LEMMA SendKeeps ==
    ASSUME IInv, NEW len \in Nat, Send(len)
    PROVE  IInv'
<1>1. conn_no \in ConnNos /\ ack \in Int /\ seq \in Int /\ sent \in Nat
  BY Constants DEF IInv, TypeOK, Numbered, Send
<1>2. AckArrives(conn_no, ack, len) \/ Lost
  BY DEF Send
<1>3. server' \in [ConnNos -> Answering]
  BY <1>1, <1>2, AckTyped DEF IInv
<1>4. server' \in [ConnNos -> Server]
  BY <1>3 DEF Answering
<1>5. Plus(seq, len) \in 0 .. SeqSpace - 1
  <2>1. seq \in Int /\ len \in Int
    BY <1>1
  <2> QED
    BY <2>1, SeqArithmetic
<1> QED
  BY <1>1, <1>3, <1>4, <1>5 DEF IInv, TypeOK, Numbered, Send, wait

LEMMA CloseKeeps ==
    ASSUME IInv, Close
    PROVE  IInv'
<1>1. conn_no \in ConnNos /\ ack \in Int /\ seq \in Int
  BY Constants DEF IInv, TypeOK, Numbered, Close
<1>2. AckArrives(conn_no, ack, 0) \/ Lost
  BY DEF Close
<1>3. server' \in [ConnNos -> Answering]
  BY <1>1, <1>2, AckTyped DEF IInv
<1>4. server' \in [ConnNos -> Server]
  BY <1>3 DEF Answering
<1>5. Plus(seq, 1) \in 0 .. SeqSpace - 1
  <2>1. seq \in Int
    BY <1>1
  <2> QED
    BY <2>1, SeqArithmetic
<1> QED
  BY <1>1, <1>3, <1>4, <1>5 DEF IInv, TypeOK, Numbered, Close, wait

\* How full the ring is.
LEMMA AvailTyped ==
    ASSUME TypeOK
    PROVE  Avail \in 0 .. RxBufSize - 1
<1>1. /\ rx_head \in 0 .. RxBufSize - 1 /\ rx_tail \in 0 .. RxBufSize - 1
  BY DEF TypeOK
<1> QED
  BY <1>1, Constants DEF Avail

LEMMA RecvKeeps ==
    ASSUME IInv, NEW max_len \in RecvLens, Recv(max_len)
    PROVE  IInv'
<1> DEFINE n == IF Avail > max_len THEN max_len ELSE Avail
<1> USE Constants
<1>1. n \in Nat
  BY AvailTyped, TcpAssumption DEF IInv
<1>2. /\ rx_head' = (rx_head + n) % RxBufSize
      /\ pending' = SubSeq(pending, n + 1, Len(pending))
      /\ read' = Garbled \/ (read' = read + n /\ read # Garbled /\ read + n <= StreamLen)
      /\ UNCHANGED <<state, remote, local_port, seq, ack, rx_buf, rx_tail,
                     conn_no, ended, sent, connecting, elapsed, since_syn,
                     port_counter, incoming, server>>
  BY DEF Recv, wait
<1> HIDE DEF n
<1>3. rx_head' \in 0 .. RxBufSize - 1
  <2>1. rx_head + n \in Int
    BY <1>1 DEF IInv, TypeOK
  <2> QED
    BY <1>2, <2>1, ModRange
<1>4. pending' \in Seq(Bytes)
  BY <1>1, <1>2 DEF IInv, TypeOK
<1>5. read' \in Garbled .. StreamLen
  BY <1>1, <1>2 DEF IInv, TypeOK, Garbled
<1> QED
  BY <1>2, <1>3, <1>4, <1>5 DEF IInv, TypeOK, Numbered

\* As many of the bytes as there is room for.
LEMMA KeptIsPrefix ==
    ASSUME TypeOK, NEW data \in Seq(Bytes)
    PROVE  /\ Kept(data) \in Seq(Bytes)
           /\ Len(Kept(data)) <= Len(data)
           /\ Len(Kept(data)) \in 0 .. RxBufSize - 1 - Avail
           /\ \A k \in 1 .. Len(Kept(data)) : Kept(data)[k] = data[k]
<1> DEFINE m == IF Len(data) > Room THEN Room ELSE Len(data)
<1>1. Room \in Nat /\ Room = RxBufSize - 1 - Avail
  BY AvailTyped, Constants DEF Room
<1>2. m \in 0 .. Len(data) /\ m <= Room
  BY <1>1
<1>3. Kept(data) = SubSeq(data, 1, m)
  BY DEF Kept
<1> HIDE DEF m
<1>4. /\ SubSeq(data, 1, m) \in Seq(Bytes)
      /\ Len(SubSeq(data, 1, m)) = m
      /\ \A k \in 1 .. m : SubSeq(data, 1, m)[k] = data[k]
  BY <1>2
<1> QED
  BY <1>1, <1>2, <1>3, <1>4

LEMMA StoreTyped ==
    ASSUME TypeOK, NEW data \in Seq(Bytes), StoreData(data)
    PROVE  /\ rx_buf' \in [0 .. RxBufSize - 1 -> Bytes]
           /\ rx_tail' \in 0 .. RxBufSize - 1
           /\ pending' \in Seq(Bytes)
<1> DEFINE kept == Kept(data)
<1>1. kept \in Seq(Bytes) /\ Len(kept) \in Nat
  BY KeptIsPrefix
<1>2. /\ rx_tail' = (rx_tail + Len(kept)) % RxBufSize
      /\ pending' = pending \o kept
      /\ rx_buf' = [i \in 0 .. RxBufSize - 1 |->
                       IF ((i - rx_tail) % RxBufSize) + 1 \in 1 .. Len(kept)
                       THEN kept[((i - rx_tail) % RxBufSize) + 1] ELSE rx_buf[i]]
  BY DEF StoreData
<1> HIDE DEF kept
<1>3. rx_tail' \in 0 .. RxBufSize - 1
  <2>1. rx_tail + Len(kept) \in Int
    BY <1>1 DEF TypeOK
  <2> QED
    BY <1>2, <2>1, ModRange, Constants
<1>4. pending' \in Seq(Bytes)
  BY <1>1, <1>2 DEF TypeOK
<1>5. \A k \in 1 .. Len(kept) : kept[k] \in Bytes
  BY <1>1
<1>6. rx_buf' \in [0 .. RxBufSize - 1 -> Bytes]
  BY <1>2, <1>5 DEF TypeOK
<1> QED
  BY <1>3, <1>4, <1>6

LEMMA TaggedTyped ==
    /\ Tagged \subseteq Segment
    /\ \A s \in Tagged : /\ s.of \in ConnNos /\ s.seq \in 0 .. SeqSpace - 1
                         /\ s.ack \in 0 .. SeqSpace - 1 /\ s.data \in Seq(Bytes)
                         /\ s.seq \in Int /\ Len(s.data) \in Nat
  BY Constants DEF Tagged, Segment

\* tcp_handle_packet, for any segment of any connection.
LEMMA HandleKeeps ==
    ASSUME IInv, NEW s \in Tagged, tcp_handle_packet(s), incoming' \in Seq(Tagged)
    PROVE  IInv'
<1>1. /\ s.seq \in Int /\ s.ack \in 0 .. SeqSpace - 1
      /\ s.data \in Seq(Bytes) /\ Len(s.data) \in Nat
  BY TaggedTyped
<1>2. incoming' \in Seq(Segment)
  BY TaggedTyped
<1>3. UNCHANGED <<remote, local_port, rx_head, conn_no, read, sent, connecting,
                 elapsed, since_syn, port_counter>>
  BY DEF tcp_handle_packet, wait
<1>4. state # "CLOSED" => conn_no \in ConnNos
  BY Constants DEF IInv, TypeOK, Numbered
<1>5. /\ state' \in {"CLOSED", "SYN_SENT", "ESTABLISHED"}
      /\ state' # "CLOSED" => state # "CLOSED"
      /\ ended' \in {"no", "timeout", "reset", "fin", "close"}
  BY DEF IInv, TypeOK, tcp_handle_packet, HandleSynSent, HandleReset, HandleData,
         HandleFin
<1>6. /\ Plus(s.seq, 1) \in 0 .. SeqSpace - 1
      /\ Plus(s.seq, Len(s.data)) \in 0 .. SeqSpace - 1
  <2>1. s.seq \in Int /\ 1 \in Int /\ Len(s.data) \in Int
    BY <1>1
  <2> QED
    BY <2>1, SeqArithmetic
<1>7. Plus(seq, 1) \in 0 .. SeqSpace - 1
  <2>1. seq \in Int /\ 1 \in Int
    BY Constants DEF IInv, TypeOK
  <2> QED
    BY <2>1, SeqArithmetic
<1>8. seq' \in 0 .. SeqSpace - 1 /\ ack' \in 0 .. SeqSpace - 1
  BY <1>1, <1>6, <1>7
     DEF IInv, TypeOK, tcp_handle_packet, HandleSynSent, HandleReset, HandleData,
         HandleFin
<1>9. /\ rx_buf' \in [0 .. RxBufSize - 1 -> Bytes]
      /\ rx_tail' \in 0 .. RxBufSize - 1
      /\ pending' \in Seq(Bytes)
  <2>1. StoreData(s.data) \/ UNCHANGED <<rx_buf, rx_tail, pending>>
    BY DEF tcp_handle_packet, HandleSynSent, HandleReset, HandleData, HandleFin
  <2>2. CASE StoreData(s.data)
    BY <1>1, <2>2, StoreTyped DEF IInv
  <2>3. CASE UNCHANGED <<rx_buf, rx_tail, pending>>
    BY <2>3 DEF IInv, TypeOK
  <2> QED
    BY <2>1, <2>2, <2>3
<1>10. server' \in [ConnNos -> Answering]
  <2>1. CASE UNCHANGED server
    BY <2>1 DEF IInv
  <2>2. CASE \E a \in Int : AckArrives(conn_no, a, 0) \/ Lost
    <3>1. PICK a \in Int : AckArrives(conn_no, a, 0) \/ Lost
      BY <2>2
    <3>2. CASE conn_no \in ConnNos
      BY <3>1, <3>2, AckTyped DEF IInv
    <3>3. CASE state = "CLOSED"
      BY <3>3 DEF IInv, tcp_handle_packet, HandleSynSent, HandleReset, HandleData,
                  HandleFin
    <3> QED
      BY <1>4, <3>2, <3>3
  <2>3. ack' \in Int /\ Plus(s.seq, Len(s.data)) \in Int
    BY <1>6, <1>8, Constants
  <2> QED
    BY <2>1, <2>2, <2>3
       DEF tcp_handle_packet, HandleSynSent, HandleReset, HandleData, HandleFin
<1>11. server' \in [ConnNos -> Server]
  BY <1>10 DEF Answering
<1>12. TypeOK'
  BY <1>2, <1>3, <1>5, <1>8, <1>9, <1>11 DEF IInv, TypeOK
<1>13. Numbered'
  BY <1>3, <1>5 DEF IInv, Numbered
<1> QED
  BY <1>10, <1>12, <1>13 DEF IInv

LEMMA RemovedTagged ==
    ASSUME incoming \in Seq(Tagged), NEW i \in DOMAIN incoming
    PROVE  RemoveAt(incoming, i) \in Seq(Tagged) /\ incoming[i] \in Tagged
  BY DEF RemoveAt

LEMMA DeliverKeeps ==
    ASSUME IInv, Deliver
    PROVE  IInv'
<1>1. PICK i \in DOMAIN incoming :
          /\ tcp_handle_packet(incoming[i])
          /\ incoming' = RemoveAt(incoming, i) \/ incoming' = incoming
  BY DEF Deliver
<1>2. /\ incoming[i] \in Tagged
      /\ incoming' \in Seq(Tagged)
  BY <1>1, RemovedTagged DEF IInv
<1> QED
  BY <1>1, <1>2, HandleKeeps

LEMMA LoseKeeps ==
    ASSUME IInv, Lose
    PROVE  IInv'
<1>1. incoming' \in Seq(Tagged)
  BY RemovedTagged DEF IInv, Lose
<1>2. incoming' \in Seq(Segment)
  BY <1>1, TaggedTyped
<1> QED
  BY <1>1, <1>2 DEF IInv, TypeOK, Numbered, Lose, conn, ghost, wait

LEMMA ServerKeeps ==
    ASSUME IInv, ServerStep
    PROVE  IInv'
<1>1. ASSUME NEW n \in ConnNos, NEW flags \in SUBSET {"SYN", "ACK", "FIN", "RST"},
             NEW offset \in Int, NEW data \in Seq(Bytes),
             \A k \in DOMAIN data : data[k][1] = n,
             server[n].st # "none", ServerSends(n, flags, offset, data),
             server' \in [ConnNos -> Answering]
      PROVE  IInv'
  <2>1. incoming' \in Seq(Tagged)
    BY <1>1, SendsTagged DEF IInv
  <2>2. incoming' \in Seq(Segment)
    BY <2>1, TaggedTyped
  <2>3. server' \in [ConnNos -> Server]
    BY <1>1 DEF Answering
  <2>4. UNCHANGED <<conn, ghost, wait, port_counter>>
    BY <1>1 DEF ServerSends
  <2> QED
    BY <1>1, <2>1, <2>2, <2>3, <2>4 DEF IInv, TypeOK, Numbered, conn, ghost, wait
<1>2. <<>> \in Seq(Bytes) /\ \A n : \A k \in DOMAIN <<>> : <<>>[k][1] = n
  OBVIOUS
<1>3. ASSUME NEW n \in ConnNos, SynAck(n)
      PROVE  IInv'
  <2>1. /\ server[n].st # "none" /\ UNCHANGED server
        /\ ServerSends(n, {"SYN", "ACK"}, 0, <<>>)
    BY <1>3 DEF SynAck
  <2>2. /\ server' \in [ConnNos -> Answering]
        /\ {"SYN", "ACK"} \in SUBSET {"SYN", "ACK", "FIN", "RST"} /\ 0 \in Int
    BY <2>1 DEF IInv
  <2> QED
    BY <1>1, <1>2, <2>1, <2>2
<1>4. ASSUME NEW n \in ConnNos, NEW from \in 0 .. StreamLen, NEW len \in 0 .. SegLen,
             NEW fin \in BOOLEAN, Data(n, from, len, fin)
      PROVE  IInv'
  <2> DEFINE to == from + len
             flags == IF fin THEN {"ACK", "FIN"} ELSE {"ACK"}
             data == SubSeq(Stream(n), from + 1, to)
             r == [server[n] EXCEPT
                       !.nxt = IF to > server[n].nxt THEN to ELSE server[n].nxt,
                       !.fin = server[n].fin \/ fin]
  <2>1. /\ server[n].st = "open" /\ to <= StreamLen
        /\ ServerSends(n, flags, 1 + from, data)
        /\ server' = [server EXCEPT ![n] = r]
    BY <1>4 DEF Data, IInv
  <2>2. to \in 0 .. StreamLen /\ 1 + from \in Int
    BY <2>1, Constants
  <2>3. data \in Seq(Bytes) /\ \A k \in DOMAIN data : data[k][1] = n
    BY <2>2, StreamTyped
  <2>4. server[n] \in Server /\ server[n].at \in Servers
    BY <2>1 DEF IInv, Answering
  <2>5. r \in Server /\ r.at = server[n].at
    BY <2>2, <2>4 DEF Server
  <2> HIDE DEF r
  <2>6. server' \in [ConnNos -> Answering]
    BY <2>1, <2>4, <2>5 DEF IInv, Answering
  <2> HIDE DEF data
  <2> QED
    BY <1>1, <2>1, <2>2, <2>3, <2>6
<1>5. ASSUME NEW n \in ConnNos, Reset(n)
      PROVE  IInv'
  <2>1. /\ server[n].st # "none" /\ UNCHANGED server
        /\ ServerSends(n, {"RST"}, 1 + server[n].nxt, <<>>)
    BY <1>5 DEF Reset
  <2>2. 1 + server[n].nxt \in Int
    BY DEF IInv, TypeOK, Server
  <2> QED
    BY <1>1, <1>2, <2>1, <2>2 DEF IInv
<1> QED
  BY <1>3, <1>4, <1>5 DEF ServerStep

LEMMA StepIInv == IInv /\ [Next]_vars => IInv'
<1> SUFFICES ASSUME IInv, [Next]_vars
             PROVE  IInv'
  OBVIOUS
<1>1. ASSUME UNCHANGED vars
      PROVE  IInv'
  BY <1>1 DEF IInv, TypeOK, Numbered, vars, conn, ghost, wait
<1>2. ASSUME NEW len \in 1 .. MaxSent, Send(len)
      PROVE  IInv'
  BY <1>2, SendKeeps, TcpAssumption
<1> QED
  BY <1>1, <1>2, ConnectKeeps, WaitingKeeps, RecvKeeps, CloseKeeps, DeliverKeeps,
     LoseKeeps, ServerKeeps
     DEF Next

-----------------------------------------------------------------------------
(* Whose bytes and whose segments they are. *)

\* A segment that g_conn accepts belongs to the connection it holds.
LEMMA AcceptedIsOwn ==
    ASSUME PortsSuffice, IInv, NEW s \in Tagged, ForUs(s), state # "CLOSED"
    PROVE  s.of = conn_no
<1>1. s.of \in ConnNos /\ conn_no \in ConnNos
  BY TaggedTyped, Constants DEF IInv, TypeOK, Numbered
<1>2. PortOf(s.of) = PortOf(conn_no)
  BY DEF Tagged, ForUs, IInv, Numbered
<1> QED
  BY <1>1, <1>2, PortsDiffer

\* The segments under way are well formed.
LEMMA IncomingTagged ==
    ASSUME IInv, NEW i \in DOMAIN incoming
    PROVE  incoming[i] \in Tagged
  BY DEF IInv

\* What a step does to the receive buffer.
LEMMA PendingSteps ==
    ASSUME IInv, [Next]_vars
    PROVE  \/ UNCHANGED <<conn_no, pending, rx_buf, rx_head, rx_tail>>
           \/ pending' = <<>> /\ rx_head' = 0 /\ rx_tail' = 0
           \/ \E max_len \in RecvLens : Recv(max_len)
           \/ \E s \in Tagged : /\ ForUs(s) /\ state # "CLOSED"
                                /\ StoreData(s.data)
                                /\ UNCHANGED <<conn_no, rx_head>>
<1>1. ASSUME NEW s \in Servers, NEW isn \in Isns, Connect(s, isn)
      PROVE  pending' = <<>> /\ rx_head' = 0 /\ rx_tail' = 0
  BY <1>1 DEF Connect
<1>2. ASSUME Tick \/ ConnectStep \/ Close \/ Lose \/ UNCHANGED vars
      PROVE  UNCHANGED <<conn_no, pending, rx_buf, rx_head, rx_tail>>
  BY <1>2 DEF Tick, ConnectStep, ConnectReturns, ResendSyn, ConnectTimesOut, Close, Lose,
              vars, conn, ghost
<1>3. ASSUME NEW len \in 1 .. MaxSent, Send(len)
      PROVE  UNCHANGED <<conn_no, pending, rx_buf, rx_head, rx_tail>>
  BY <1>3 DEF Send
<1>4. ASSUME ServerStep
      PROVE  UNCHANGED <<conn_no, pending, rx_buf, rx_head, rx_tail>>
  <2>1. ASSUME NEW n \in ConnNos, SynAck(n) \/ Reset(n)
        PROVE  conn' = conn /\ ghost' = ghost
    BY <2>1 DEF SynAck, Reset, ServerSends
  <2>2. ASSUME NEW n \in ConnNos, NEW from, NEW len, NEW fin, Data(n, from, len, fin)
        PROVE  conn' = conn /\ ghost' = ghost
    BY <2>2 DEF Data, ServerSends
  <2>3. conn' = conn /\ ghost' = ghost
    BY <1>4, <2>1, <2>2 DEF ServerStep
  <2> QED
    BY <2>3 DEF conn, ghost
<1>5. CASE Deliver
  <2>1. PICK i \in DOMAIN incoming : tcp_handle_packet(incoming[i])
    BY <1>5 DEF Deliver
  <2> DEFINE s == incoming[i]
  <2>2. s \in Tagged
    BY IncomingTagged
  <2> HIDE DEF s
  <2>3. tcp_handle_packet(s)
    BY <2>1 DEF s
  <2>4. UNCHANGED <<conn_no, rx_head>>
    BY <2>3 DEF tcp_handle_packet
  <2>5. \/ UNCHANGED <<pending, rx_buf, rx_tail>>
        \/ ForUs(s) /\ state # "CLOSED" /\ StoreData(s.data)
    BY <2>3 DEF tcp_handle_packet, HandleSynSent, HandleReset, HandleData, HandleFin
  <2> QED
    BY <2>2, <2>4, <2>5
<1> QED
  BY <1>1, <1>2, <1>3, <1>4, <1>5 DEF Next

\* tcp_recv takes the oldest bytes.
LEMMA RecvTakes ==
    ASSUME TypeOK, Len(pending) = Avail, NEW max_len \in RecvLens, Recv(max_len)
    PROVE  \E n \in 1 .. Avail :
               /\ rx_head' = (rx_head + n) % RxBufSize
               /\ pending' \in Seq(Bytes)
               /\ Len(pending') = Len(pending) - n
               /\ \A k \in 1 .. Len(pending) - n : pending'[k] = pending[n + k]
               /\ UNCHANGED <<conn_no, rx_buf, rx_tail>>
<1> DEFINE n == IF Avail > max_len THEN max_len ELSE Avail
<1>1. /\ n > 0
      /\ rx_head' = (rx_head + n) % RxBufSize
      /\ pending' = SubSeq(pending, n + 1, Len(pending))
      /\ UNCHANGED <<conn_no, rx_buf, rx_tail>>
  BY DEF Recv
<1>2. n \in 0 .. Avail
  BY AvailTyped, Constants, TcpAssumption
<1> HIDE DEF n
<1>3. /\ pending \in Seq(Bytes) /\ Len(pending) \in Nat
      /\ n \in 1 .. Len(pending)
  BY <1>1, <1>2 DEF TypeOK
<1>4. \A i \in n + 1 .. Len(pending) : pending[i] \in Bytes
  BY <1>3
<1>5. /\ pending' \in Seq(Bytes)
      /\ Len(pending') = Len(pending) - n
      /\ \A k \in 1 .. Len(pending) - n : pending'[k] = pending[n + k]
  <2>1. /\ pending' \in Seq(Bytes)
        /\ Len(pending') = IF n + 1 <= Len(pending) THEN Len(pending) - (n + 1) + 1 ELSE 0
        /\ \A i \in 1 .. Len(pending) - (n + 1) + 1 : pending'[i] = pending[(n + 1) + i - 1]
    BY <1>1, <1>3, <1>4, SubSeqProperties
  <2> QED
    BY <1>3, <2>1
<1> QED
  BY <1>1, <1>3, <1>5

\* tcp_handle_packet appends a prefix of the segment's bytes.
LEMMA StoreAppends ==
    ASSUME TypeOK, NEW data \in Seq(Bytes), StoreData(data)
    PROVE  \E m \in 0 .. RxBufSize - 1 - Avail :
               /\ m <= Len(data)
               /\ rx_tail' = (rx_tail + m) % RxBufSize
               /\ pending' \in Seq(Bytes)
               /\ Len(pending') = Len(pending) + m
               /\ \A k \in 1 .. Len(pending) : pending'[k] = pending[k]
               /\ \A j \in 1 .. m : pending'[Len(pending) + j] = data[j]
               /\ \A i \in 0 .. RxBufSize - 1 :
                      rx_buf'[i] = IF ((i - rx_tail) % RxBufSize) + 1 \in 1 .. m
                                   THEN data[((i - rx_tail) % RxBufSize) + 1]
                                   ELSE rx_buf[i]
<1> DEFINE kept == Kept(data)
           m == Len(kept)
<1>1. /\ kept \in Seq(Bytes)
      /\ m <= Len(data)
      /\ m \in 0 .. RxBufSize - 1 - Avail
      /\ \A k \in 1 .. m : kept[k] = data[k]
  BY KeptIsPrefix
<1>2. /\ rx_tail' = (rx_tail + m) % RxBufSize
      /\ pending' = pending \o kept
      /\ rx_buf' = [i \in 0 .. RxBufSize - 1 |->
                       IF ((i - rx_tail) % RxBufSize) + 1 \in 1 .. m
                       THEN kept[((i - rx_tail) % RxBufSize) + 1] ELSE rx_buf[i]]
  BY DEF StoreData
<1>3. pending \in Seq(Bytes) /\ Len(pending) \in Nat
  BY DEF TypeOK
<1> HIDE DEF kept
<1>4. /\ pending' \in Seq(Bytes)
      /\ Len(pending') = Len(pending) + m
      /\ \A i \in 1 .. Len(pending) + m :
             pending'[i] = IF i <= Len(pending) THEN pending[i] ELSE kept[i - Len(pending)]
  BY <1>1, <1>2, <1>3, ConcatProperties
<1> HIDE DEF m
<1>5. m \in Nat
  BY <1>1, AvailTyped, Constants
<1>6. \A k \in 1 .. Len(pending) : pending'[k] = pending[k]
  BY <1>3, <1>4, <1>5
<1>7. ASSUME NEW j \in 1 .. m
      PROVE  pending'[Len(pending) + j] = data[j]
  <2>1. /\ Len(pending) + j \in 1 .. Len(pending) + m
        /\ ~(Len(pending) + j <= Len(pending))
        /\ Len(pending) + j - Len(pending) = j
    BY <1>3, <1>5
  <2>2. pending'[Len(pending) + j] = kept[j]
    BY <1>4, <2>1
  <2> QED
    BY <1>1, <2>2
<1>8. \A i \in 0 .. RxBufSize - 1 :
          rx_buf'[i] = IF ((i - rx_tail) % RxBufSize) + 1 \in 1 .. m
                       THEN data[((i - rx_tail) % RxBufSize) + 1]
                       ELSE rx_buf[i]
  BY <1>1, <1>2
<1> QED
  BY <1>1, <1>2, <1>4, <1>6, <1>7, <1>8

-----------------------------------------------------------------------------
(* The ring. *)

\* How many bytes lie between head h and tail t in a ring of n.
Filled(n, h, t) == IF t >= h THEN t - h ELSE n - h + t

\* Turning by a and then by b is turning by both.
LEMMA Turns ==
    ASSUME NEW n \in Nat \ {0}, NEW h \in 0 .. n - 1, NEW a \in Nat, NEW b \in Nat,
           a + b < n
    PROVE  (((h + a) % n) + b) % n = (h + (a + b)) % n
<1> DEFINE x == (h + a) % n
<1>1. CASE h + a < n
  <2>1. x = h + a
    BY <1>1
  <2> QED
    BY <2>1
<1>2. CASE h + a >= n
  <2>1. x = h + a - n
    BY <1>2
  <2> HIDE DEF x
  <2>2. (x + b) % n = x + b
    BY <1>2, <2>1
  <2>3. (h + (a + b)) % n = h + (a + b) - n
    BY <1>2
  <2> QED
    BY <2>1, <2>2, <2>3 DEF x
<1> QED
  BY <1>1, <1>2

LEMMA Takes ==
    ASSUME NEW n \in Nat \ {0}, NEW h \in 0 .. n - 1, NEW t \in 0 .. n - 1,
           NEW k \in 1 .. Filled(n, h, t)
    PROVE  Filled(n, (h + k) % n, t) = Filled(n, h, t) - k
<1>1. CASE h + k < n
  <2>1. (h + k) % n = h + k
    BY <1>1 DEF Filled
  <2> QED
    BY <1>1, <2>1 DEF Filled
<1>2. CASE h + k >= n
  <2>1. (h + k) % n = h + k - n
    BY <1>2 DEF Filled
  <2> QED
    BY <1>2, <2>1 DEF Filled
<1> QED
  BY <1>1, <1>2 DEF Filled

LEMMA Puts ==
    ASSUME NEW n \in Nat \ {0}, NEW h \in 0 .. n - 1, NEW t \in 0 .. n - 1,
           NEW m \in 0 .. n - 1 - Filled(n, h, t)
    PROVE  Filled(n, h, (t + m) % n) = Filled(n, h, t) + m
<1>1. CASE t + m < n
  <2>1. (t + m) % n = t + m
    BY <1>1 DEF Filled
  <2> QED
    BY <1>1, <2>1 DEF Filled
<1>2. CASE t + m >= n
  <2>1. (t + m) % n = t + m - n
    BY <1>2 DEF Filled
  <2> QED
    BY <1>2, <2>1 DEF Filled
<1> QED
  BY <1>1, <1>2 DEF Filled

\* The place of the k-th byte, seen from the tail: those in the ring lie n - f
\* and more behind it, ...
LEMMA FromTailOld ==
    ASSUME NEW n \in Nat \ {0}, NEW h \in 0 .. n - 1, NEW t \in 0 .. n - 1,
           NEW k \in 1 .. Filled(n, h, t)
    PROVE  /\ (h + k - 1) % n \in 0 .. n - 1
           /\ (((h + k - 1) % n) - t) % n = n - Filled(n, h, t) + k - 1
<1> DEFINE i == (h + k - 1) % n
<1>1. CASE h + k - 1 < n
  <2>1. i = h + k - 1
    BY <1>1 DEF Filled
  <2> HIDE DEF i
  <2>2. CASE t >= h
    <3>1. i - t \in Int /\ -n <= i - t /\ i - t < 0 /\ i \in 0 .. n - 1
      BY <1>1, <2>1, <2>2 DEF Filled
    <3>2. (i - t) % n = i - t + n
      BY <3>1
    <3>3. (i - t) % n = n - Filled(n, h, t) + k - 1
      BY <2>1, <2>2, <3>2 DEF Filled
    <3> QED
      BY <3>1, <3>3 DEF i
  <2>3. CASE t < h
    <3>1. i - t \in Int /\ 0 <= i - t /\ i - t < n /\ i \in 0 .. n - 1
      BY <1>1, <2>1, <2>3 DEF Filled
    <3>2. (i - t) % n = i - t
      BY <3>1
    <3>3. (i - t) % n = n - Filled(n, h, t) + k - 1
      BY <2>1, <2>3, <3>2 DEF Filled
    <3> QED
      BY <3>1, <3>3 DEF i
  <2> QED
    BY <2>2, <2>3
<1>2. CASE h + k - 1 >= n
  <2>1. i = h + k - 1 - n
    BY <1>2 DEF Filled
  <2> HIDE DEF i
  <2>2. t < h
    BY <1>2 DEF Filled
  <2>3. i - t \in Int /\ -n <= i - t /\ i - t < 0 /\ i \in 0 .. n - 1
    BY <1>2, <2>1, <2>2 DEF Filled
  <2>4. (i - t) % n = i - t + n
    BY <2>3
  <2>5. (i - t) % n = n - Filled(n, h, t) + k - 1
    BY <2>1, <2>2, <2>4 DEF Filled
  <2> QED
    BY <2>3, <2>5 DEF i
<1> QED
  BY <1>1, <1>2 DEF Filled

\* ... and those that are put behind them where they are put.
LEMMA FromTailNew ==
    ASSUME NEW n \in Nat \ {0}, NEW h \in 0 .. n - 1, NEW t \in 0 .. n - 1,
           NEW j \in 1 .. n - 1 - Filled(n, h, t)
    PROVE  /\ (h + (Filled(n, h, t) + j) - 1) % n \in 0 .. n - 1
           /\ (((h + (Filled(n, h, t) + j) - 1) % n) - t) % n = j - 1
<1> DEFINE f == Filled(n, h, t)
           i == (h + (f + j) - 1) % n
<1>1. h + f = t \/ h + f = t + n
  BY DEF Filled
<1>2. f \in Nat /\ j >= 1 /\ f + j < n
  BY DEF Filled
<1> HIDE DEF f
<1>3. i \in 0 .. n - 1
  <2>1. h + (f + j) - 1 \in Int
    BY <1>2
  <2> QED
    BY <2>1, ModRange
<1>4. i = h + (f + j) - 1 \/ i = h + (f + j) - 1 - n
  <2>1. CASE h + (f + j) - 1 < n
    BY <1>2, <2>1
  <2>2. CASE h + (f + j) - 1 >= n
    BY <1>2, <2>2
  <2> QED
    BY <1>2, <2>1, <2>2
<1> HIDE DEF i
<1>5. i - t = j - 1 \/ i - t = j - 1 - n
  <2>1. i - t < n /\ i - t > -n /\ j - 1 >= 0 /\ j - 1 < n
    BY <1>2, <1>3
  <2> QED
    BY <1>1, <1>2, <1>3, <1>4, <2>1
<1>6. (i - t) % n = j - 1
  <2>1. CASE i - t = j - 1
    BY <1>2, <2>1
  <2>2. CASE i - t = j - 1 - n
    <3>1. i - t \in Int /\ -n <= i - t /\ i - t < 0
      BY <1>2, <2>2
    <3> QED
      BY <2>2, <3>1
  <2> QED
    BY <1>5, <2>1, <2>2
<1> QED
  BY <1>3, <1>6 DEF i, f

LEMMA Beyond ==
    ASSUME NEW l \in Nat, NEW m \in Nat, NEW k \in 1 .. l + m, k > l
    PROVE  k - l \in 1 .. m /\ l + (k - l) = k
  OBVIOUS

LEMMA RingKept ==
    ASSUME IInv, RingHolds, [Next]_vars
    PROVE  RingHolds'
<1> DEFINE N == RxBufSize
<1>1. /\ N \in Nat \ {0}
      /\ rx_head \in 0 .. N - 1 /\ rx_tail \in 0 .. N - 1
      /\ Avail = Filled(N, rx_head, rx_tail)
      /\ Avail' = Filled(N, rx_head', rx_tail')
      /\ TypeOK /\ Len(pending) = Avail /\ Avail \in 0 .. N - 1
  BY Constants, AvailTyped DEF IInv, TypeOK, Avail, Filled, RingHolds
<1>2. \A k \in 1 .. Len(pending) : pending[k] = rx_buf[(rx_head + k - 1) % N]
  BY DEF RingHolds
<1>3. CASE UNCHANGED <<conn_no, pending, rx_buf, rx_head, rx_tail>>
  BY <1>3 DEF RingHolds, Avail
<1>4. CASE pending' = <<>> /\ rx_head' = 0 /\ rx_tail' = 0
  BY <1>1, <1>4 DEF RingHolds, Filled
<1>5. ASSUME NEW max_len \in RecvLens, Recv(max_len)
      PROVE  RingHolds'
  <2>1. PICK n \in 1 .. Avail :
               /\ rx_head' = (rx_head + n) % N
               /\ Len(pending') = Len(pending) - n
               /\ \A k \in 1 .. Len(pending) - n : pending'[k] = pending[n + k]
               /\ UNCHANGED <<conn_no, rx_buf, rx_tail>>
    BY <1>1, <1>5, RecvTakes
  <2>2. Len(pending') = Avail'
    BY <1>1, <2>1, Takes
  <2>3. ASSUME NEW k \in 1 .. Len(pending')
        PROVE  pending'[k] = rx_buf'[(rx_head' + k - 1) % N]
    <3>1. k \in 1 .. Len(pending) - n /\ n + k \in 1 .. Len(pending)
      BY <1>1, <2>1
    <3>2. pending'[k] = rx_buf[(rx_head + (n + k) - 1) % N]
      BY <1>2, <2>1, <3>1
    <3>3. k - 1 \in Nat /\ n \in Nat /\ n + (k - 1) < N
      BY <1>1, <3>1
    <3>4. (((rx_head + n) % N) + (k - 1)) % N = (rx_head + (n + (k - 1))) % N
      BY <1>1, <3>3, Turns
    <3>5. /\ rx_head' \in Int /\ rx_head' + k - 1 = rx_head' + (k - 1)
          /\ rx_head + (n + (k - 1)) = rx_head + (n + k) - 1
      <4>1. rx_head + n \in Int
        BY <1>1, <3>3
      <4>2. rx_head' \in Int
        BY <1>1, <2>1, <4>1, ModRange
      <4> QED
        BY <1>1, <3>3, <4>2
    <3> QED
      BY <2>1, <3>2, <3>4, <3>5
  <2> QED
    BY <2>2, <2>3 DEF RingHolds
<1>6. ASSUME NEW s \in Tagged, StoreData(s.data), UNCHANGED <<conn_no, rx_head>>
      PROVE  RingHolds'
  <2> DEFINE L == Len(pending)
             At(i) == ((i - rx_tail) % N) + 1
  <2>1. s.data \in Seq(Bytes)
    BY TaggedTyped
  <2>2. PICK m \in 0 .. N - 1 - Avail :
               /\ rx_tail' = (rx_tail + m) % N
               /\ Len(pending') = L + m
               /\ \A k \in 1 .. L : pending'[k] = pending[k]
               /\ \A j \in 1 .. m : pending'[L + j] = s.data[j]
               /\ \A i \in 0 .. N - 1 :
                      rx_buf'[i] = IF At(i) \in 1 .. m THEN s.data[At(i)] ELSE rx_buf[i]
    BY <1>1, <1>6, <2>1, StoreAppends
  <2>3. Len(pending') = Avail'
    BY <1>1, <1>6, <2>2, Puts
  <2>4. ASSUME NEW k \in 1 .. L
        PROVE  pending'[k] = rx_buf'[(rx_head + k - 1) % N]
    <3> DEFINE i == (rx_head + k - 1) % N
    <3>1. i \in 0 .. N - 1 /\ (i - rx_tail) % N = N - Avail + k - 1
      BY <1>1, FromTailOld
    <3> HIDE DEF i
    <3>2. At(i) \notin 1 .. m
      BY <1>1, <3>1
    <3>3. rx_buf'[i] = rx_buf[i]
      BY <2>2, <3>1, <3>2
    <3> QED
      BY <1>2, <2>2, <3>3 DEF i
  <2>5. ASSUME NEW j \in 1 .. m
        PROVE  pending'[L + j] = rx_buf'[(rx_head + (L + j) - 1) % N]
    <3> DEFINE i == (rx_head + (L + j) - 1) % N
    <3>1. j \in 1 .. N - 1 - Avail
      BY <1>1
    <3>2. i \in 0 .. N - 1 /\ (i - rx_tail) % N = j - 1
      BY <1>1, <3>1, FromTailNew
    <3> HIDE DEF i
    <3>3. At(i) = j
      BY <3>1, <3>2
    <3>4. rx_buf'[i] = s.data[j]
      BY <2>2, <3>2, <3>3
    <3> QED
      BY <2>2, <3>4 DEF i
  <2>6. ASSUME NEW k \in 1 .. Len(pending')
        PROVE  pending'[k] = rx_buf'[(rx_head' + k - 1) % N]
    <3>1. CASE k <= L
      BY <1>1, <1>6, <2>4, <3>1
    <3>2. CASE k > L
      <4>1. L \in Nat /\ m \in Nat /\ k \in 1 .. L + m
        BY <1>1, <2>2
      <4>2. k - L \in 1 .. m /\ L + (k - L) = k
        BY <3>2, <4>1, Beyond
      <4> QED
        BY <1>6, <2>5, <4>2
    <3> QED
      BY <1>1, <2>2, <3>1, <3>2
  <2> QED
    BY <2>3, <2>6 DEF RingHolds
<1> QED
  BY <1>3, <1>4, <1>5, <1>6, PendingSteps

LEMMA InitRing == Init => RingHolds
<1> SUFFICES ASSUME Init
             PROVE  RingHolds
  OBVIOUS
<1>1. pending = <<>> /\ Avail = 0
  BY DEF Init, Avail
<1> QED
  BY <1>1 DEF RingHolds

\* Only bytes of the present connection are ever pending.
LEMMA OwnKept ==
    ASSUME PortsSuffice, IInv, RingHolds, OwnBytesOnly, [Next]_vars
    PROVE  OwnBytesOnly'
<1>1. /\ TypeOK /\ Len(pending) = Avail
      /\ pending \in Seq(Bytes) /\ Len(pending) \in Nat
      /\ \A k \in 1 .. Len(pending) : pending[k][1] = conn_no
  BY DEF IInv, TypeOK, RingHolds, OwnBytesOnly
<1>2. CASE UNCHANGED <<conn_no, pending, rx_buf, rx_head, rx_tail>>
  BY <1>2 DEF OwnBytesOnly
<1>3. CASE pending' = <<>> /\ rx_head' = 0 /\ rx_tail' = 0
  BY <1>3 DEF OwnBytesOnly
<1>4. ASSUME NEW max_len \in RecvLens, Recv(max_len)
      PROVE  OwnBytesOnly'
  <2>1. PICK n \in 1 .. Avail :
               /\ pending' \in Seq(Bytes)
               /\ Len(pending') = Len(pending) - n
               /\ \A k \in 1 .. Len(pending) - n : pending'[k] = pending[n + k]
               /\ conn_no' = conn_no
    BY <1>1, <1>4, RecvTakes
  <2>2. ASSUME NEW k \in DOMAIN pending'
        PROVE  pending'[k][1] = conn_no'
    <3>1. k \in 1 .. Len(pending) - n /\ n + k \in 1 .. Len(pending)
      BY <1>1, <2>1
    <3> QED
      BY <1>1, <2>1, <3>1
  <2> QED
    BY <2>2 DEF OwnBytesOnly
<1>5. ASSUME NEW s \in Tagged, ForUs(s), state # "CLOSED", StoreData(s.data),
             UNCHANGED <<conn_no, rx_head>>
      PROVE  OwnBytesOnly'
  <2>1. s.data \in Seq(Bytes) /\ \A k \in DOMAIN s.data : s.data[k][1] = s.of
    BY TaggedTyped DEF Tagged
  <2>2. s.of = conn_no
    BY <1>5, AcceptedIsOwn
  <2>3. PICK m \in 0 .. RxBufSize - 1 - Avail :
               /\ m <= Len(s.data)
               /\ pending' \in Seq(Bytes)
               /\ Len(pending') = Len(pending) + m
               /\ \A k \in 1 .. Len(pending) : pending'[k] = pending[k]
               /\ \A j \in 1 .. m : pending'[Len(pending) + j] = s.data[j]
    BY <1>1, <1>5, <2>1, StoreAppends
  <2>4. m \in Nat
    BY <1>1, AvailTyped, Constants
  <2>5. ASSUME NEW k \in DOMAIN pending'
        PROVE  pending'[k][1] = conn_no'
    <3>1. k \in 1 .. Len(pending) + m
      BY <2>3
    <3>2. CASE k <= Len(pending)
      BY <1>1, <1>5, <2>3, <3>1, <3>2
    <3>3. CASE k > Len(pending)
      <4>1. k - Len(pending) \in 1 .. m /\ Len(pending) + (k - Len(pending)) = k
        BY <1>1, <2>4, <3>1, <3>3
      <4>2. pending'[k] = s.data[k - Len(pending)] /\ k - Len(pending) \in DOMAIN s.data
        BY <2>1, <2>3, <2>4, <4>1
      <4> QED
        BY <1>5, <2>1, <2>2, <4>2
    <3> QED
      BY <1>1, <3>1, <3>2, <3>3
  <2> QED
    BY <2>5 DEF OwnBytesOnly
<1> QED
  BY <1>2, <1>3, <1>4, <1>5, PendingSteps

LEMMA InvGivesRing == IInv /\ RingHolds /\ OwnBytesOnly => RingIsRight
<1> SUFFICES ASSUME IInv, RingHolds, OwnBytesOnly
             PROVE  RingIsRight
  OBVIOUS
<1>1. pending \in Seq(Bytes)
  BY DEF IInv, TypeOK
<1>2. pending = [k \in 1 .. Len(pending) |-> pending[k]]
  BY <1>1
<1>3. InRing = pending
  BY <1>2 DEF InRing, RingHolds
<1> QED
  BY <1>3 DEF RingIsRight, RingIsFifo, IInv

-----------------------------------------------------------------------------
(* How a connection ends. *)

\* The step of ClosedOnce.
EndsOnce ==
    /\ ended = "no" /\ ended' \in {"fin", "reset"} =>
           \E i \in DOMAIN incoming :
               /\ incoming[i].of = conn_no
               /\ incoming[i].flags \cap {"FIN", "RST"} # {}
    /\ state = "CLOSED" /\ conn_no' = conn_no => state' = "CLOSED"

\* Of the segments that arrive, an own FIN or RST alone closes the connection.
LEMMA DeliverEnds == ASSUME PortsSuffice, IInv, Deliver PROVE EndsOnce
<1>1. PICK i \in DOMAIN incoming : tcp_handle_packet(incoming[i])
  BY DEF Deliver
<1> DEFINE s == incoming[i]
<1>2. s \in Tagged
  BY IncomingTagged
<1> HIDE DEF s
<1>3. CASE ForUs(s) /\ (HandleSynSent(s) \/ HandleData(s))
  BY <1>3 DEF EndsOnce, HandleSynSent, HandleData
<1>4. CASE Dropped(s) /\ UNCHANGED <<state, ended>>
  BY <1>4 DEF EndsOnce
<1>5. CASE ForUs(s) /\ (HandleReset(s) \/ HandleFin(s))
  <2>1. state = "ESTABLISHED" /\ s.flags \cap {"FIN", "RST"} # {}
    BY <1>5 DEF HandleReset, HandleFin
  <2>2. s.of = conn_no
    BY <1>2, <1>5, <2>1, AcceptedIsOwn
  <2> QED
    BY <2>1, <2>2 DEF EndsOnce, s
<1> QED
  BY <1>1, <1>3, <1>4, <1>5 DEF tcp_handle_packet, s

\* Every step keeps to EndsOnce.
LEMMA StepEndsOnce == ASSUME PortsSuffice, IInv, [Next]_vars PROVE EndsOnce
<1>1. conn_no \in Nat
  BY Constants DEF IInv, TypeOK
<1>2. ASSUME NEW s \in Servers, NEW isn \in Isns, Connect(s, isn)
      PROVE  EndsOnce
  <2>1. ended' = "no" /\ conn_no' = conn_no + 1
    BY <1>2 DEF Connect
  <2> QED
    BY <1>1, <2>1 DEF EndsOnce
<1>3. ASSUME Tick \/ ConnectStep \/ Close
      PROVE  EndsOnce
  BY <1>3 DEF Tick, ConnectStep, ConnectReturns, ResendSyn, ConnectTimesOut, Close, conn,
              ghost, EndsOnce
<1>4. UNCHANGED <<state, ended>> => EndsOnce
  BY DEF EndsOnce
<1>5. ASSUME NEW len \in 1 .. MaxSent, Send(len)
      PROVE  UNCHANGED <<state, ended>>
  BY <1>5 DEF Send
<1>6. ASSUME NEW max_len \in RecvLens, Recv(max_len)
      PROVE  UNCHANGED <<state, ended>>
  BY <1>6 DEF Recv
<1>7. ASSUME Lose \/ UNCHANGED vars
      PROVE  UNCHANGED <<state, ended>>
  BY <1>7 DEF Lose, vars, conn, ghost
<1>8. ASSUME ServerStep
      PROVE  UNCHANGED <<state, ended>>
  <2>1. ASSUME NEW n \in ConnNos, NEW flags, NEW offset, NEW data,
               ServerSends(n, flags, offset, data)
        PROVE  UNCHANGED <<state, ended>>
    BY <2>1 DEF ServerSends, conn, ghost
  <2>2. ASSUME NEW n \in ConnNos, SynAck(n) \/ Reset(n)
        PROVE  UNCHANGED <<state, ended>>
    BY <2>1, <2>2 DEF SynAck, Reset
  <2>3. ASSUME NEW n \in ConnNos, NEW from \in 0 .. StreamLen,
               NEW len \in 0 .. SegLen, NEW fin \in BOOLEAN,
               Data(n, from, len, fin)
        PROVE  UNCHANGED <<state, ended>>
    <3>1. PICK flags, offset, data : ServerSends(n, flags, offset, data)
      BY <2>3 DEF Data
    <3> QED
      BY <2>1, <3>1
  <2> QED
    BY <1>8, <2>2, <2>3 DEF ServerStep
<1> QED
  BY <1>2, <1>3, <1>4, <1>5, <1>6, <1>7, <1>8, DeliverEnds DEF Next

-----------------------------------------------------------------------------
(* The theorems. *)

\* The inductive invariant of the connection holds, whatever the network does.
THEOREM ConnectionInvariant == Spec => []IInv
  BY InitIInv, StepIInv, PTL DEF Spec

\* While no port comes round again, the receive buffer is a queue of bytes of
\* the present connection, for a ring of any size and however segments are
\* lost, repeated and reordered.
THEOREM ReceiveIsRight == PortsSuffice => (Spec => []RingIsRight)
<1> SUFFICES ASSUME PortsSuffice
             PROVE  Spec => []RingIsRight
  OBVIOUS
<1>0. Init => OwnBytesOnly
  <2> SUFFICES ASSUME Init
               PROVE  OwnBytesOnly
    OBVIOUS
  <2>1. pending = <<>>
    BY DEF Init
  <2> QED
    BY <2>1 DEF OwnBytesOnly
<1>1. Init => IInv /\ RingHolds /\ OwnBytesOnly
  BY <1>0, InitIInv, InitRing
<1>2. (IInv /\ RingHolds /\ OwnBytesOnly) /\ [Next]_vars
         => (IInv /\ RingHolds /\ OwnBytesOnly)'
  BY StepIInv, RingKept, OwnKept
<1> QED
  BY <1>1, <1>2, InvGivesRing, PTL DEF Spec

\* While no port comes round again, a segment of an earlier connection neither
\* closes the present one nor opens it again.
THEOREM EndsAreOwn == PortsSuffice => (Spec => ClosedOnce)
<1> SUFFICES ASSUME PortsSuffice
             PROVE  Spec => ClosedOnce
  OBVIOUS
<1>1. IInv /\ [Next]_vars => [EndsOnce]_vars
  BY StepEndsOnce
<1>2. ClosedOnce <=> [][EndsOnce]_vars
  BY DEF ClosedOnce, EndsOnce
<1> QED
  BY <1>1, <1>2, ConnectionInvariant, PTL DEF Spec
=============================================================================
