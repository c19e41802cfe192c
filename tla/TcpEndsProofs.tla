--------------------------- MODULE TcpEndsProofs ---------------------------
(***************************************************************************)
(* Both ends of a connection of net/tcp.c agree: the sequence number is    *)
(* the one the server expects, and nothing is acknowledged that the server *)
(* has not sent, whatever the network loses, repeats or reorders.  And     *)
(* over a network that does none of that the connection is a byte stream:  *)
(* Tcp implements ByteStream.                                              *)
(***************************************************************************)
EXTENDS TcpProofs

\* What a server never takes back: a has become b.
Grows(a, b) ==
    /\ b.isn = a.isn /\ a.nxt <= b.nxt /\ a.got <= b.got
    /\ a.st # "none" => b.st # "none" /\ b.at = a.at /\ b.client = a.client

AllGrow == \A n \in ConnNos : Grows(server[n], server'[n])

\* Segment s says nothing of its server r that was not true when it was sent.
Truthful(s, r) ==
    /\ r.st # "none" /\ s.from = r.at
    /\ \E g \in 0 .. r.got : s.ack = Plus(r.client, 1 + g)
    /\ "SYN" \in s.flags => s.seq = r.isn
    /\ s.data # <<>> => \E o \in Nat : /\ o + Len(s.data) <= r.nxt
                                       /\ s.seq = Plus(r.isn, 1 + o)

SegmentsTrue ==
    \A i \in DOMAIN incoming : Truthful(incoming[i], server[incoming[i].of])

\* Before the handshake is over no byte of ours has been counted.
NothingCounted ==
    /\ \A n \in ConnNos : n > conn_no => server[n].got = 0
    /\ state = "SYN_SENT" => server[conn_no].got = 0 /\ sent = 0

EInv == SegmentsTrue /\ NothingCounted /\ EndsAgree

-----------------------------------------------------------------------------
(* Sequence numbers. *)

LEMMA Division ==
    ASSUME NEW m \in Nat \ {0}, NEW x \in Int
    PROVE  x \div m \in Int /\ x % m \in 0 .. m - 1 /\ x = m * (x \div m) + (x % m)
  OBVIOUS

\* Quotient and remainder are unique.
LEMMA OneRemainder ==
    ASSUME NEW m \in Nat \ {0}, NEW q \in Int, NEW p \in Int,
           NEW r \in 0 .. m - 1, NEW s \in 0 .. m - 1, m * q + r = m * p + s
    PROVE  r = s
<1>1. CASE p = q
  BY <1>1
<1>2. CASE p < q
  <2>1. q - p >= 1 /\ q - p \in Int
    BY <1>2
  <2>2. m * (q - p) >= m
    BY <2>1
  <2>3. m * (q - p) = s - r
    OBVIOUS
  <2> QED
    BY <2>2, <2>3
<1>3. CASE p > q
  <2>1. p - q >= 1 /\ p - q \in Int
    BY <1>3
  <2>2. m * (p - q) >= m
    BY <2>1
  <2>3. m * (p - q) = r - s
    OBVIOUS
  <2> QED
    BY <2>2, <2>3
<1> QED
  BY <1>1, <1>2, <1>3

\* Adding in two steps wraps around to the same number.
LEMMA RemainderOfSum ==
    ASSUME NEW m \in Nat \ {0}, NEW x \in Int, NEW y \in Int
    PROVE  ((x % m) + y) % m = (x + y) % m
<1> DEFINE q == x \div m
           r == x % m
           p == (r + y) \div m
           t == (r + y) % m
           d == (x + y) \div m
           e == (x + y) % m
<1>1. q \in Int /\ r \in Int /\ x = m * q + r
  BY Division
<1>2. r + y \in Int /\ x + y \in Int
  BY <1>1
<1>3. p \in Int /\ t \in 0 .. m - 1 /\ r + y = m * p + t
  BY <1>2, Division
<1>4. d \in Int /\ e \in 0 .. m - 1 /\ x + y = m * d + e
  BY <1>2, Division
<1> HIDE DEF q, r, p, t, d, e
<1>5. p + q \in Int /\ m * (p + q) + t = m * d + e
  BY <1>1, <1>3, <1>4
<1>6. t = e
  BY <1>3, <1>4, <1>5, OneRemainder
<1> QED
  BY <1>6 DEF r, t, e

LEMMA PlusPlus ==
    ASSUME NEW a \in Int, NEW b \in Int, NEW c \in Int
    PROVE  Plus(Plus(a, b), c) = Plus(a, b + c)
<1>1. a + b \in Int /\ (a + b) + c = a + (b + c)
  OBVIOUS
<1>2. (((a + b) % SeqSpace) + c) % SeqSpace = ((a + b) + c) % SeqSpace
  BY <1>1, RemainderOfSum, Constants
<1> QED
  BY <1>1, <1>2 DEF Plus

LEMMA PlusInt ==
    ASSUME NEW a \in Int, NEW b \in Int
    PROVE  Plus(a, b) \in Int /\ Minus(a, b) \in Int
<1>1. a + b \in Int /\ a - b \in Int /\ SeqSpace \in Nat \ {0}
  BY Constants
<1>2. (a + b) % SeqSpace \in Int /\ (a - b) % SeqSpace \in Int
  BY <1>1, ModRange
<1> QED
  BY <1>2 DEF Plus, Minus

LEMMA CountInt ==
    ASSUME NEW a \in Int, NEW i \in Int
    PROVE  Minus(a, Plus(i, 1)) \in Int
<1>1. 1 \in Int
  OBVIOUS
<1>2. Plus(i, 1) \in Int
  BY <1>1, PlusInt
<1> QED
  BY <1>2, PlusInt

\* A number that is to be added to may be reduced first.
LEMMA ReducedFirst ==
    ASSUME NEW x \in Int, NEW y \in Int
    PROVE  Plus(x % SeqSpace, y) = Plus(x, y)
<1>1. ((x % SeqSpace) + y) % SeqSpace = (x + y) % SeqSpace
  BY RemainderOfSum, Constants
<1> QED
  BY <1>1 DEF Plus

\* A number counted from another one is no greater than the count.
LEMMA CountedFrom ==
    ASSUME NEW i \in Int, NEW k \in Nat
    PROVE  Minus(Plus(i, 1 + k), Plus(i, 1)) <= k
<1> DEFINE j == i + 1
           a == Plus(i, 1 + k)
           b == Plus(i, 1)
           c == b + k
           d == -b
<1>1. j \in Int /\ i + (1 + k) = j + k /\ 1 + k \in Int
  OBVIOUS
<1>2. a = Plus(j, k) /\ b = j % SeqSpace
  BY <1>1 DEF Plus
<1>3. a \in Int /\ b \in Int
  BY <1>1, PlusInt
<1> HIDE DEF j, a, b
<1>4. a = Plus(b, k)
  BY <1>1, <1>2, ReducedFirst
<1>5. c \in Int /\ d \in Int /\ c + d = k
  BY <1>3
<1>6. a = c % SeqSpace
  BY <1>4 DEF Plus
<1> HIDE DEF c
<1>7. a + d = a - b
  BY <1>3
<1> HIDE DEF d
<1>8. Plus(a, d) = Plus(c, d)
  BY <1>5, <1>6, ReducedFirst
<1>9. Minus(a, b) = k % SeqSpace
  BY <1>5, <1>7, <1>8 DEF Plus, Minus
<1>10. k % SeqSpace <= k
  BY Constants
<1> QED
  BY <1>9, <1>10 DEF a, b

-----------------------------------------------------------------------------
(* The servers. *)

LEMMA ServersTyped ==
    ASSUME IInv, NEW n \in ConnNos
    PROVE  /\ server[n] \in Server
           /\ server[n].isn \in 0 .. SeqSpace - 1 /\ server[n].isn \in Int
           /\ server[n].client \in 0 .. SeqSpace - 1 /\ server[n].client \in Int
           /\ server[n].got \in Nat /\ server[n].nxt \in Nat
  BY Constants DEF IInv, TypeOK, Server

\* A server that does not change grows.
LEMMA SameGrows == ASSUME IInv, UNCHANGED server PROVE AllGrow
<1>1. \A n \in ConnNos : server[n].got \in Nat /\ server[n].nxt \in Nat
  BY ServersTyped
<1> QED
  BY <1>1 DEF AllGrow, Grows

\* A SYN makes a server known, and nothing more.
LEMMA SynGrows ==
    ASSUME IInv, NEW n \in ConnNos, NEW s \in 0 .. SeqSpace - 1, NEW to \in Servers,
           SynArrives(n, s, to) \/ Lost
    PROVE  AllGrow /\ \A k \in ConnNos : server'[k].got = server[k].got
<1>1. CASE UNCHANGED server
  BY <1>1, SameGrows
<1>2. CASE /\ server[n].st = "none"
           /\ server' = [server EXCEPT ![n].st = "answered", ![n].client = s,
                                       ![n].at = to]
  <2>1. ASSUME NEW k \in ConnNos
        PROVE  Grows(server[k], server'[k]) /\ server'[k].got = server[k].got
    <3>1. /\ server[k] \in Server /\ server[k].got \in Nat /\ server[k].nxt \in Nat
          /\ server \in [ConnNos -> Server]
      BY ServersTyped DEF IInv, TypeOK
    <3>2. CASE k = n
      BY <1>2, <3>1, <3>2 DEF Grows, Server
    <3>3. CASE k # n
      BY <1>2, <3>1, <3>3 DEF Grows
    <3> QED
      BY <3>2, <3>3
  <2> QED
    BY <2>1 DEF AllGrow
<1> QED
  BY <1>1, <1>2 DEF SynArrives, Lost

\* An acknowledgement counts what it carries, and takes nothing back.
LEMMA AckGrows ==
    ASSUME IInv, NEW n \in ConnNos, NEW a \in Int, NEW len \in Nat,
           AckArrives(n, a, len) \/ Lost
    PROVE  /\ AllGrow
           /\ \A k \in ConnNos : k # n \/ len = 0 => server'[k].got = server[k].got
<1>1. CASE UNCHANGED server
  BY <1>1, SameGrows
<1>2. CASE AckArrives(n, a, len)
  <2>1. PICK st1, una1 :
            /\ server[n].st = "none" => st1 = "none"
            /\ server[n].st # "none" => st1 # "none"
            /\ server' = [server EXCEPT ![n].st = st1,
                                        ![n].got = server[n].got + len,
                                        ![n].una = una1]
    BY <1>2 DEF AckArrives, IInv, TypeOK
  <2>2. ASSUME NEW k \in ConnNos
        PROVE  /\ Grows(server[k], server'[k])
               /\ k # n \/ len = 0 => server'[k].got = server[k].got
    <3>1. /\ server[k] \in Server /\ server[k].got \in Nat /\ server[k].nxt \in Nat
          /\ server \in [ConnNos -> Server]
      BY ServersTyped DEF IInv, TypeOK
    <3>2. CASE k = n
      BY <2>1, <3>1, <3>2 DEF Grows, Server
    <3>3. CASE k # n
      BY <2>1, <3>1, <3>3 DEF Grows
    <3> QED
      BY <3>2, <3>3
  <2> QED
    BY <2>2 DEF AllGrow
<1> QED
  BY <1>1, <1>2 DEF Lost

-----------------------------------------------------------------------------
(* The parts of the invariant. *)

\* What was true of a server when a segment was sent stays true.
LEMMA TruthGrows ==
    ASSUME NEW s \in Tagged, NEW a \in Server, NEW b \in Server, Grows(a, b),
           Truthful(s, a)
    PROVE  Truthful(s, b)
<1>1. /\ Len(s.data) \in Nat
      /\ a.got \in Nat /\ b.got \in Nat /\ a.nxt \in Nat /\ b.nxt \in Nat
      /\ a.got <= b.got /\ a.nxt <= b.nxt
      /\ b.isn = a.isn /\ b.at = a.at /\ b.client = a.client
  BY TaggedTyped, Constants DEF Server, Grows, Truthful
<1>2. b.st # "none" /\ s.from = b.at /\ ("SYN" \in s.flags => s.seq = b.isn)
  BY <1>1 DEF Truthful, Grows
<1>3. \E g \in 0 .. b.got : s.ack = Plus(b.client, 1 + g)
  <2>1. PICK g \in 0 .. a.got : s.ack = Plus(a.client, 1 + g)
    BY DEF Truthful
  <2>2. g \in 0 .. b.got /\ s.ack = Plus(b.client, 1 + g)
    BY <1>1, <2>1
  <2> QED
    BY <2>2
<1>4. ASSUME s.data # <<>>
      PROVE  \E o \in Nat : o + Len(s.data) <= b.nxt /\ s.seq = Plus(b.isn, 1 + o)
  <2>1. PICK o \in Nat : o + Len(s.data) <= a.nxt /\ s.seq = Plus(a.isn, 1 + o)
    BY <1>4 DEF Truthful
  <2>2. o + Len(s.data) <= b.nxt /\ s.seq = Plus(b.isn, 1 + o)
    BY <1>1, <2>1
  <2> QED
    BY <2>2
<1> QED
  BY <1>2, <1>3, <1>4 DEF Truthful

LEMMA TrueStays ==
    ASSUME IInv, IInv', SegmentsTrue, AllGrow,
           \A i \in DOMAIN incoming' :
               \E j \in DOMAIN incoming : incoming'[i] = incoming[j]
    PROVE  SegmentsTrue'
<1>1. ASSUME NEW s \in Tagged, Truthful(s, server[s.of])
      PROVE  Truthful(s, server'[s.of])
  <2>1. s.of \in ConnNos
    BY TaggedTyped
  <2>2. server[s.of] \in Server /\ server'[s.of] \in Server
    BY <2>1 DEF IInv, TypeOK
  <2> QED
    BY <1>1, <2>1, <2>2, TruthGrows DEF AllGrow
<1>2. \A j \in DOMAIN incoming : incoming[j] \in Tagged
  BY IncomingTagged
<1> QED
  BY <1>1, <1>2 DEF SegmentsTrue

\* What has been acknowledged stays sent.
LEMMA AckStays ==
    ASSUME IInv, IInv', EndsAgree, AllGrow, UNCHANGED <<conn_no, ack>>,
           state' = "ESTABLISHED" => state = "ESTABLISHED"
    PROVE  AckOnlySent'
<1> SUFFICES ASSUME state' = "ESTABLISHED"
             PROVE  AckOnlySent'
  BY DEF AckOnlySent
<1>1. state = "ESTABLISHED" /\ conn_no \in ConnNos
  BY Constants DEF IInv, TypeOK, Numbered
<1>2. Grows(server[conn_no], server'[conn_no])
  BY <1>1 DEF AllGrow
<1> DEFINE old == server[conn_no]
           new == server'[conn_no]
           done == Minus(ack, Plus(old.isn, 1))
<1>3. old \in Server /\ new \in Server /\ ack \in 0 .. SeqSpace - 1
  BY <1>1 DEF IInv, TypeOK
<1>4. new.isn = old.isn /\ old.nxt <= new.nxt
  BY <1>2 DEF Grows
<1>5. done <= old.nxt
  BY <1>1 DEF EndsAgree, AckOnlySent
<1>6. AckOnlySent' <=> done <= new.nxt
  BY <1>1, <1>4 DEF AckOnlySent, Plus, Minus
<1> HIDE DEF old, new
<1>7. old.isn \in Int /\ old.nxt \in Int /\ new.nxt \in Int /\ ack \in Int
  BY <1>3, Constants DEF Server
<1>8. done \in Int
  BY <1>7, CountInt
<1> HIDE DEF done
<1> QED
  BY <1>4, <1>5, <1>6, <1>7, <1>8

\* The two ends go on agreeing while neither of our numbers changes.
LEMMA AgreeStays ==
    ASSUME IInv, IInv', EndsAgree, AllGrow,
           UNCHANGED <<conn_no, remote, seq, ack, sent>>,
           state' = "ESTABLISHED" => state = "ESTABLISHED"
    PROVE  EndsAgree'
<1>1. HandshakeAgrees'
  <2> SUFFICES ASSUME state' = "ESTABLISHED"
               PROVE  HandshakeAgrees'
    BY DEF HandshakeAgrees
  <2>1. state = "ESTABLISHED" /\ conn_no \in ConnNos
    BY Constants DEF IInv, TypeOK, Numbered
  <2>2. Grows(server[conn_no], server'[conn_no])
    BY <2>1 DEF AllGrow
  <2> QED
    BY <2>1, <2>2 DEF EndsAgree, HandshakeAgrees, Grows
<1> QED
  BY <1>1, AckStays DEF EndsAgree

\* Segments that are dropped, read or repeated leave those that were there.
LEMMA RemovedStays ==
    ASSUME NEW S, NEW q \in Seq(S), NEW i \in DOMAIN q
    PROVE  RemoveAt(q, i) \in Seq(S)
  BY DEF RemoveAt

LEMMA RetypedSeq ==
    ASSUME NEW S, NEW T, NEW q \in Seq(S), \A j \in DOMAIN q : q[j] \in T
    PROVE  q \in Seq(T)
  OBVIOUS

LEMMA FromIncoming ==
    ASSUME IInv,
           \/ incoming' = incoming
           \/ \E i \in DOMAIN incoming : incoming' = RemoveAt(incoming, i)
    PROVE  \A i \in DOMAIN incoming' :
               \E j \in DOMAIN incoming : incoming'[i] = incoming[j]
<1> DEFINE S == {incoming[j] : j \in DOMAIN incoming}
<1>1. incoming \in Seq(S)
  BY DEF IInv, TypeOK
<1>2. \A s \in S : \E j \in DOMAIN incoming : s = incoming[j]
  OBVIOUS
<1> HIDE DEF S
<1>3. incoming' \in Seq(S)
  BY <1>1, RemovedStays
<1>4. \A i \in DOMAIN incoming' : incoming'[i] \in S
  BY <1>3
<1> QED
  BY <1>2, <1>4

-----------------------------------------------------------------------------
(* The steps. *)

\* tcp_connect, and the loop in which it waits.
LEMMA ConnectEnd ==
    ASSUME IInv, IInv', EInv, NEW s \in Servers, NEW isn \in Isns, Connect(s, isn)
    PROVE  EInv'
<1>1. conn_no + 1 \in ConnNos /\ conn_no \in Nat /\ isn \in 0 .. SeqSpace - 1
  BY TcpAssumption, Constants DEF Connect, IInv, TypeOK
<1>2. AllGrow /\ \A k \in ConnNos : server'[k].got = server[k].got
  BY <1>1, SynGrows DEF Connect
<1>3. SegmentsTrue'
  BY <1>2, TrueStays, FromIncoming DEF EInv, Connect
<1>4. state' = "SYN_SENT" /\ conn_no' = conn_no + 1 /\ sent' = 0
  BY DEF Connect
<1>5. NothingCounted'
  BY <1>1, <1>2, <1>4, Constants DEF EInv, NothingCounted
<1>6. EndsAgree'
  BY <1>4 DEF EndsAgree, HandshakeAgrees, AckOnlySent
<1> QED
  BY <1>3, <1>5, <1>6 DEF EInv

\* Steps that send at most a SYN again or close the connection.
LEMMA QuietEnd ==
    ASSUME IInv, IInv', EInv, AllGrow,
           UNCHANGED <<conn_no, remote, seq, ack, sent>>,
           state' \in {state, "CLOSED"},
           \A k \in ConnNos : server'[k].got = server[k].got,
           \/ incoming' = incoming
           \/ \E i \in DOMAIN incoming : incoming' = RemoveAt(incoming, i)
    PROVE  EInv'
<1>1. SegmentsTrue'
  BY TrueStays, FromIncoming DEF EInv
<1>2. conn_no \in ConnNos \/ state # "SYN_SENT"
  BY Constants DEF IInv, TypeOK, Numbered
<1>3. NothingCounted'
  BY <1>2 DEF EInv, NothingCounted
<1>4. EndsAgree'
  BY AgreeStays DEF EInv
<1> QED
  BY <1>1, <1>3, <1>4 DEF EInv

\* tcp_send moves both ends by as many bytes.
LEMMA SendEnd ==
    ASSUME IInv, IInv', EInv, NEW len \in 1 .. MaxSent, Send(len)
    PROVE  EInv'
<1>1. /\ state = "ESTABLISHED" /\ state' = state
      /\ UNCHANGED <<remote, ack, conn_no, incoming>>
      /\ seq' = Plus(seq, len) /\ sent' = sent + len
      /\ AckArrives(conn_no, ack, len) \/ Lost
  BY DEF Send
<1>2. conn_no \in ConnNos /\ len \in Nat /\ ack \in Int /\ sent \in Nat
  BY <1>1, TcpAssumption, Constants DEF IInv, TypeOK, Numbered
<1>3. AllGrow /\ \A k \in ConnNos : k # conn_no => server'[k].got = server[k].got
  BY <1>1, <1>2, AckGrows
<1>4. SegmentsTrue'
  BY <1>1, <1>3, TrueStays, FromIncoming DEF EInv
<1>5. NothingCounted'
  BY <1>1, <1>2, <1>3, Constants DEF EInv, NothingCounted
<1>6. HandshakeAgrees'
  <2> DEFINE c == server[conn_no].client
  <2>1. Grows(server[conn_no], server'[conn_no])
    BY <1>2, <1>3 DEF AllGrow
  <2>2. /\ server[conn_no].st # "none" /\ server[conn_no].at = remote
        /\ seq = Plus(c, 1 + sent)
    BY <1>1 DEF EInv, EndsAgree, HandshakeAgrees
  <2>3. c \in Int /\ 1 + sent \in Int /\ len \in Int
    BY <1>2, ServersTyped
  <2>4. seq' = Plus(c, (1 + sent) + len)
    BY <1>1, <2>2, <2>3, PlusPlus
  <2>5. seq' = Plus(c, 1 + sent')
    BY <1>1, <1>2, <2>4
  <2>6. Plus(c, 1 + sent') = Plus(server'[conn_no].client, 1 + sent')
    BY <2>1, <2>2 DEF Grows
  <2>7. /\ server'[conn_no].st # "none" /\ server'[conn_no].at = remote
        /\ seq' = Plus(server'[conn_no].client, 1 + sent')
    BY <2>1, <2>2, <2>5, <2>6 DEF Grows
  <2> QED
    BY <1>1, <2>7 DEF HandshakeAgrees, Plus
<1>7. AckOnlySent'
  BY <1>1, <1>3, AckStays DEF EInv
<1> QED
  BY <1>4, <1>5, <1>6, <1>7 DEF EInv, EndsAgree

\* The end of the handshake.
LEMMA SynSentEnd ==
    ASSUME PortsSuffice, IInv, IInv', EInv, NEW s \in Tagged,
           Truthful(s, server[s.of]), ForUs(s), HandleSynSent(s),
           UNCHANGED <<conn_no, remote, sent>>, SegmentsTrue'
    PROVE  EInv'
<1> DEFINE r == server[conn_no]
<1>1. /\ state = "SYN_SENT" /\ state' = "ESTABLISHED" /\ "SYN" \in s.flags
      /\ seq' = s.ack /\ ack' = Plus(s.seq, 1)
      /\ AckArrives(conn_no, ack', 0) \/ Lost
  BY DEF HandleSynSent
<1>2. s.of = conn_no /\ conn_no \in ConnNos /\ ack' \in Int
  <2>1. s.of = conn_no /\ s.of \in ConnNos
    BY <1>1, AcceptedIsOwn, TaggedTyped
  <2>2. ack' \in Int
    BY Constants DEF IInv, TypeOK
  <2> QED
    BY <2>1, <2>2
<1>3. AllGrow /\ \A k \in ConnNos : server'[k].got = server[k].got
  BY <1>1, <1>2, AckGrows
<1>4. NothingCounted'
  BY <1>1, <1>3 DEF EInv, NothingCounted
<1>5. /\ r.st # "none" /\ r.at = remote /\ r.got = 0 /\ sent = 0
      /\ s.seq = r.isn /\ s.ack = Plus(r.client, 1 + 0)
  <2>1. r.got = 0 /\ sent = 0 /\ Truthful(s, r) /\ s.from = remote
    BY <1>1, <1>2 DEF EInv, NothingCounted, ForUs
  <2> HIDE DEF r
  <2>2. PICK g \in 0 .. r.got : s.ack = Plus(r.client, 1 + g)
    BY <2>1 DEF Truthful
  <2>3. g = 0
    BY <2>1, <2>2
  <2> QED
    BY <1>1, <2>1, <2>2, <2>3 DEF Truthful
<1>6. Grows(r, server'[conn_no])
  BY <1>2, <1>3 DEF AllGrow
<1>7. HandshakeAgrees'
  BY <1>1, <1>5, <1>6 DEF HandshakeAgrees, Grows, Plus
<1>8. AckOnlySent'
  <2>1. /\ server'[conn_no].isn = r.isn /\ r.isn \in Int /\ r.nxt \in Nat
        /\ r.nxt <= server'[conn_no].nxt /\ server'[conn_no] \in Server
    BY <1>2, <1>6, ServersTyped DEF Grows, IInv, TypeOK
  <2>2. server'[conn_no].nxt \in Nat
    BY <2>1, Constants DEF Server
  <2> DEFINE done == Minus(Plus(r.isn, 1), Plus(r.isn, 1))
  <2>3. done <= 0
    <3>1. Minus(Plus(r.isn, 1 + 0), Plus(r.isn, 1)) <= 0
      BY <2>1, CountedFrom
    <3> QED
      BY <3>1
  <2>4. done \in Int
    <3>1. Plus(r.isn, 1) \in Int
      <4>1. r.isn \in Int /\ 1 \in Int
        BY <2>1
      <4> QED
        BY <4>1, PlusInt
    <3> QED
      BY <2>1, <3>1, CountInt
  <2>5. AckOnlySent' <=> done <= server'[conn_no].nxt
    BY <1>1, <1>5, <2>1 DEF AckOnlySent, Plus, Minus
  <2> HIDE DEF done
  <2> QED
    BY <2>2, <2>3, <2>4, <2>5
<1> QED
  BY <1>4, <1>7, <1>8 DEF EInv, EndsAgree

\* Data, wherever they lie in the stream, are acknowledged up to their end.
LEMMA DataEnd ==
    ASSUME PortsSuffice, IInv, IInv', EInv, NEW s \in Tagged,
           Truthful(s, server[s.of]), ForUs(s), HandleData(s),
           UNCHANGED <<conn_no, remote, sent>>, SegmentsTrue'
    PROVE  EInv'
<1> DEFINE r == server[conn_no]
<1>1. /\ state = "ESTABLISHED" /\ state' = state /\ seq' = seq
      /\ s.data # <<>> /\ ack' = Plus(s.seq, Len(s.data))
      /\ AckArrives(conn_no, ack', 0) \/ Lost
  BY DEF HandleData
<1>2. s.of = conn_no /\ conn_no \in ConnNos /\ ack' \in Int
  <2>1. s.of = conn_no /\ s.of \in ConnNos
    BY <1>1, AcceptedIsOwn, TaggedTyped
  <2>2. ack' \in Int
    BY Constants DEF IInv, TypeOK
  <2> QED
    BY <2>1, <2>2
<1>3. AllGrow /\ \A k \in ConnNos : server'[k].got = server[k].got
  BY <1>1, <1>2, AckGrows
<1>4. NothingCounted'
  BY <1>1, <1>3 DEF EInv, NothingCounted
<1>5. Grows(r, server'[conn_no])
  BY <1>2, <1>3 DEF AllGrow
<1>6. HandshakeAgrees'
  BY <1>1, <1>5 DEF EInv, EndsAgree, HandshakeAgrees, Grows, Plus
<1>7. AckOnlySent'
  <2>1. /\ server'[conn_no].isn = r.isn /\ r.isn \in Int /\ r.nxt \in Nat
        /\ r.nxt <= server'[conn_no].nxt /\ server'[conn_no] \in Server
    BY <1>2, <1>5, ServersTyped DEF Grows, IInv, TypeOK
  <2>2. server'[conn_no].nxt \in Nat /\ Len(s.data) \in Nat
    BY <2>1, TaggedTyped, Constants DEF Server
  <2>3. PICK o \in Nat : o + Len(s.data) <= r.nxt /\ s.seq = Plus(r.isn, 1 + o)
    BY <1>1, <1>2 DEF Truthful
  <2> DEFINE k == o + Len(s.data)
             done == Minus(Plus(r.isn, 1 + k), Plus(r.isn, 1))
  <2>4. k \in Nat /\ (1 + o) + Len(s.data) = 1 + k
    BY <2>2, <2>3
  <2>5. ack' = Plus(r.isn, 1 + k)
    <3>1. 1 + o \in Int /\ Len(s.data) \in Int
      BY <2>2
    <3>2. Plus(Plus(r.isn, 1 + o), Len(s.data)) = Plus(r.isn, (1 + o) + Len(s.data))
      BY <2>1, <3>1, PlusPlus
    <3> QED
      BY <1>1, <2>3, <2>4, <3>2
  <2>6. k <= r.nxt
    BY <2>3
  <2> HIDE DEF k
  <2>7. done <= k
    BY <2>1, <2>4, CountedFrom
  <2>8. done \in Int
    <3>1. ack' \in Int
      BY <1>2
    <3>2. Minus(ack', Plus(r.isn, 1)) \in Int
      BY <2>1, <3>1, CountInt
    <3> QED
      BY <2>5, <3>2
  <2>9. AckOnlySent' <=> done <= server'[conn_no].nxt
    BY <1>1, <2>1, <2>5 DEF AckOnlySent, Plus, Minus
  <2> HIDE DEF done
  <2> QED
    BY <2>1, <2>2, <2>4, <2>6, <2>7, <2>8, <2>9
<1> QED
  BY <1>4, <1>6, <1>7 DEF EInv, EndsAgree

\* tcp_handle_packet, for any segment of any connection.
LEMMA DeliverEnd ==
    ASSUME PortsSuffice, IInv, IInv', EInv, Deliver
    PROVE  EInv'
<1>1. PICK i \in DOMAIN incoming :
          /\ tcp_handle_packet(incoming[i])
          /\ incoming' = RemoveAt(incoming, i) \/ incoming' = incoming
  BY DEF Deliver
<1> DEFINE s == incoming[i]
<1>2. s \in Tagged /\ Truthful(s, server[s.of])
  BY IncomingTagged DEF EInv, SegmentsTrue
<1> HIDE DEF s
<1>3. /\ UNCHANGED <<conn_no, remote, sent>>
      /\ \/ ForUs(s) /\ HandleSynSent(s)
         \/ ForUs(s) /\ HandleReset(s)
         \/ ForUs(s) /\ HandleData(s)
         \/ ForUs(s) /\ HandleFin(s)
         \/ UNCHANGED <<state, seq, ack, server>>
  BY <1>1 DEF tcp_handle_packet, s
<1>4. AllGrow => SegmentsTrue'
  BY <1>1, TrueStays, FromIncoming DEF EInv
<1>5. ASSUME NEW a \in Int, state # "CLOSED", AckArrives(conn_no, a, 0) \/ Lost
      PROVE  AllGrow /\ \A k \in ConnNos : server'[k].got = server[k].got
  <2>1. conn_no \in ConnNos
    BY <1>5, Constants DEF IInv, TypeOK, Numbered
  <2> QED
    BY <1>5, <2>1, AckGrows
<1>6. ack' \in Int
  BY Constants DEF IInv, TypeOK
<1>7. CASE ForUs(s) /\ HandleSynSent(s)
  <2>1. AllGrow
    BY <1>5, <1>6, <1>7 DEF HandleSynSent
  <2> QED
    BY <1>2, <1>3, <1>4, <1>7, <2>1, SynSentEnd
<1>8. CASE ForUs(s) /\ HandleData(s)
  <2>1. AllGrow
    BY <1>5, <1>6, <1>8 DEF HandleData
  <2> QED
    BY <1>2, <1>3, <1>4, <1>8, <2>1, DataEnd
<1>9. CASE ForUs(s) /\ HandleReset(s)
  <2>1. state' = "CLOSED" /\ UNCHANGED <<seq, ack, server>>
    BY <1>9 DEF HandleReset
  <2> QED
    BY <1>1, <1>3, <2>1, SameGrows, QuietEnd
<1>10. CASE ForUs(s) /\ HandleFin(s)
  <2>1. /\ state = "ESTABLISHED" /\ state' = "CLOSED"
        /\ AckArrives(conn_no, Plus(s.seq, Len(s.data)), 0) \/ Lost
    BY <1>10 DEF HandleFin
  <2>2. Plus(s.seq, Len(s.data)) \in Int
    <3>1. s.seq \in Int /\ Len(s.data) \in Int
      BY <1>2, TaggedTyped
    <3> QED
      BY <3>1, PlusInt
  <2>3. AllGrow /\ \A k \in ConnNos : server'[k].got = server[k].got
    BY <1>5, <2>1, <2>2
  <2>4. NothingCounted' /\ EndsAgree'
    BY <1>3, <2>1, <2>3
       DEF EInv, NothingCounted, EndsAgree, HandshakeAgrees, AckOnlySent
  <2> QED
    BY <1>4, <2>3, <2>4 DEF EInv
<1>11. CASE UNCHANGED <<state, seq, ack, server>>
  BY <1>1, <1>3, <1>11, SameGrows, QuietEnd
<1> QED
  BY <1>3, <1>7, <1>8, <1>9, <1>10, <1>11

\* What a server sends is true of it.
LEMMA ServerEnd ==
    ASSUME IInv, IInv', EInv, ServerStep
    PROVE  EInv'
<1>1. \A n, flags, offset, data :
          ServerSends(n, flags, offset, data) => UNCHANGED <<conn, ghost>>
  BY DEF ServerSends
<1>2. ASSUME NEW n \in ConnNos, NEW flags, NEW offset, NEW data,
             ServerSends(n, flags, offset, data), server[n].st # "none",
             AllGrow, \A k \in ConnNos : server'[k].got = server[k].got,
             "SYN" \in flags => offset = 0,
             data # <<>> => \E o \in Nat : /\ o + Len(data) <= server'[n].nxt
                                           /\ offset = 1 + o
      PROVE  EInv'
  <2> DEFINE seg == [of |-> n, from |-> server[n].at,
                     port |-> LocalPort(PortBase + n - 1),
                     flags |-> flags, seq |-> Plus(server[n].isn, offset),
                     ack |-> Plus(server[n].client, 1 + server[n].got), data |-> data]
  <2>1. incoming' = Append(incoming, seg)
    BY <1>2 DEF ServerSends
  <2>2. Grows(server[n], server'[n]) /\ server'[n].got = server[n].got
    BY <1>2 DEF AllGrow
  <2>3. server[n].got \in Nat /\ server[n].isn \in 0 .. SeqSpace - 1
    BY ServersTyped
  <2>4. Plus(server[n].isn, 0) = server[n].isn
    BY <2>3, Constants DEF Plus
  <2>5. Truthful(seg, server'[n])
    <3>1. \E g \in 0 .. server'[n].got : seg.ack = Plus(server'[n].client, 1 + g)
      <4>1. server[n].got \in 0 .. server'[n].got
        BY <2>2, <2>3
      <4>2. seg.ack = Plus(server'[n].client, 1 + server[n].got)
        BY <1>2, <2>2 DEF Grows
      <4> QED
        BY <4>1, <4>2
    <3>2. "SYN" \in seg.flags => seg.seq = server'[n].isn
      BY <1>2, <2>2, <2>4 DEF Grows
    <3>3. server'[n].st # "none" /\ seg.from = server'[n].at
      BY <1>2, <2>2 DEF Grows
    <3>4. seg.data # <<>> =>
              \E o \in Nat : /\ o + Len(seg.data) <= server'[n].nxt
                             /\ seg.seq = Plus(server'[n].isn, 1 + o)
      BY <1>2, <2>2 DEF Grows
    <3> QED
      BY <3>1, <3>2, <3>3, <3>4 DEF Truthful
  <2>6. seg.of = n
    OBVIOUS
  <2> HIDE DEF seg
  <2>7. SegmentsTrue'
    <3>1. ASSUME NEW s \in Tagged, Truthful(s, server[s.of])
          PROVE  Truthful(s, server'[s.of])
      <4>1. s.of \in ConnNos
        BY TaggedTyped
      <4>2. server[s.of] \in Server /\ server'[s.of] \in Server
        BY <4>1 DEF IInv, TypeOK
      <4> QED
        BY <1>2, <3>1, <4>1, <4>2, TruthGrows DEF AllGrow
    <3>2. \A j \in DOMAIN incoming :
              incoming[j] \in Tagged /\ Truthful(incoming[j], server[incoming[j].of])
      BY IncomingTagged DEF EInv, SegmentsTrue
    <3>3. \A i \in DOMAIN incoming' :
              incoming'[i] = seg \/ \E j \in DOMAIN incoming : incoming'[i] = incoming[j]
      <4> DEFINE S == {incoming[j] : j \in DOMAIN incoming} \cup {seg}
      <4>1. seg \in S /\ \A j \in DOMAIN incoming : incoming[j] \in S
        OBVIOUS
      <4>2. \A s \in S : s = seg \/ \E j \in DOMAIN incoming : s = incoming[j]
        OBVIOUS
      <4> HIDE DEF S
      <4>3. incoming \in Seq(S)
        <5>1. incoming \in Seq(Segment)
          BY DEF IInv, TypeOK
        <5> QED
          BY <4>1, <5>1, RetypedSeq
      <4>4. incoming' \in Seq(S)
        BY <2>1, <4>1, <4>3
      <4>5. \A i \in DOMAIN incoming' : incoming'[i] \in S
        BY <4>4
      <4> QED
        BY <4>2, <4>5
    <3> QED
      BY <2>5, <2>6, <3>1, <3>2, <3>3 DEF SegmentsTrue
  <2>8. NothingCounted'
    <3>1. conn_no \in ConnNos \/ state # "SYN_SENT"
      BY Constants DEF IInv, TypeOK, Numbered
    <3> QED
      BY <1>1, <1>2, <3>1 DEF EInv, NothingCounted, conn, ghost
  <2>9. EndsAgree'
    BY <1>1, <1>2, AgreeStays DEF EInv, conn, ghost
  <2> QED
    BY <2>7, <2>8, <2>9 DEF EInv
<1>3. ASSUME NEW n \in ConnNos, SynAck(n)
      PROVE  EInv'
  <2>1. /\ server[n].st # "none" /\ UNCHANGED server
        /\ ServerSends(n, {"SYN", "ACK"}, 0, <<>>)
    BY <1>3 DEF SynAck
  <2> QED
    BY <1>2, <2>1, SameGrows
<1>4. ASSUME NEW n \in ConnNos, Reset(n)
      PROVE  EInv'
  <2>1. /\ server[n].st # "none" /\ UNCHANGED server
        /\ ServerSends(n, {"RST"}, 1 + server[n].nxt, <<>>)
    BY <1>4 DEF Reset
  <2> QED
    BY <1>2, <2>1, SameGrows
<1>5. ASSUME NEW n \in ConnNos, NEW from \in 0 .. StreamLen, NEW len \in 0 .. SegLen,
             NEW fin \in BOOLEAN, Data(n, from, len, fin)
      PROVE  EInv'
  <2> DEFINE to == from + len
             data == SubSeq(Stream(n), from + 1, to)
             flags == IF fin THEN {"ACK", "FIN"} ELSE {"ACK"}
             top == IF to > server[n].nxt THEN to ELSE server[n].nxt
  <2>1. /\ server[n].st = "open" /\ to <= StreamLen
        /\ ServerSends(n, flags, 1 + from, data)
        /\ server' = [server EXCEPT ![n].nxt = top, ![n].fin = server[n].fin \/ fin]
    BY <1>5 DEF Data, IInv, TypeOK
  <2>2. to \in Nat /\ from \in Nat /\ from + 1 \in Int /\ len \in Nat
    BY Constants
  <2>3. Len(data) = len
    BY <2>1, <2>2, Constants DEF Stream
  <2>4. /\ server \in [ConnNos -> Server]
        /\ \A k \in ConnNos : server[k].got \in Nat /\ server[k].nxt \in Nat
    BY ServersTyped DEF IInv, TypeOK
  <2>5. top \in Nat /\ to <= top /\ server[n].nxt <= top
    BY <2>2, <2>4
  <2> HIDE DEF top, data
  <2>6. AllGrow /\ \A k \in ConnNos : server'[k].got = server[k].got
    <3>1. ASSUME NEW k \in ConnNos
          PROVE  Grows(server[k], server'[k]) /\ server'[k].got = server[k].got
      <4>1. CASE k = n
        BY <2>1, <2>4, <2>5, <4>1 DEF Grows, Server
      <4>2. CASE k # n
        BY <2>1, <2>4, <4>2 DEF Grows
      <4> QED
        BY <4>1, <4>2
    <3> QED
      BY <3>1 DEF AllGrow
  <2>7. server'[n].nxt = top
    BY <2>1, <2>4 DEF Server
  <2>8. from + Len(data) <= server'[n].nxt
    BY <2>3, <2>5, <2>7
  <2>9. "SYN" \notin flags
    OBVIOUS
  <2> HIDE DEF flags, to
  <2> QED
    BY <1>2, <2>1, <2>2, <2>6, <2>8, <2>9
<1> QED
  BY <1>3, <1>4, <1>5 DEF ServerStep

-----------------------------------------------------------------------------
(* The theorem. *)

LEMMA InitEInv == Init => EInv
<1> SUFFICES ASSUME Init
             PROVE  EInv
  OBVIOUS
<1>1. incoming = <<>> /\ state = "CLOSED"
  BY DEF Init
<1>2. \A n \in ConnNos : server[n].got = 0
  BY DEF Init
<1> QED
  BY <1>1, <1>2
     DEF EInv, SegmentsTrue, NothingCounted, EndsAgree, HandshakeAgrees, AckOnlySent

LEMMA StepEInv ==
    ASSUME PortsSuffice, IInv, IInv', EInv, [Next]_vars
    PROVE  EInv'
<1>1. ASSUME Tick \/ ConnectReturns \/ ConnectTimesOut \/ Lose \/ UNCHANGED vars
      PROVE  EInv'
  <2>1. /\ UNCHANGED <<conn_no, remote, seq, ack, sent, server>>
        /\ state' \in {state, "CLOSED"}
        /\ \/ incoming' = incoming
           \/ \E i \in DOMAIN incoming : incoming' = RemoveAt(incoming, i)
    BY <1>1 DEF Tick, ConnectReturns, ConnectTimesOut, Lose, vars, conn, ghost
  <2> QED
    BY <2>1, SameGrows, QuietEnd
<1>2. ASSUME ResendSyn
      PROVE  EInv'
  <2>1. /\ UNCHANGED <<conn_no, remote, seq, ack, sent, state, incoming>>
        /\ SynArrives(conn_no, seq, remote) \/ Lost
    BY <1>2 DEF ResendSyn, conn, ghost
  <2>2. conn_no \in ConnNos /\ remote \in Servers /\ seq \in 0 .. SeqSpace - 1
    BY <1>2, Constants DEF ResendSyn, IInv, TypeOK, Numbered
  <2>3. AllGrow /\ \A k \in ConnNos : server'[k].got = server[k].got
    BY <2>1, <2>2, SynGrows
  <2> QED
    BY <2>1, <2>3, QuietEnd
<1>3. ASSUME \E max_len \in RecvLens : Recv(max_len)
      PROVE  EInv'
  <2>1. UNCHANGED <<conn_no, remote, seq, ack, sent, state, incoming, server>>
    BY <1>3 DEF Recv
  <2> QED
    BY <2>1, SameGrows, QuietEnd
<1>4. ASSUME Close
      PROVE  EInv'
  <2>1. /\ UNCHANGED <<conn_no, remote, ack, sent, incoming>>
        /\ state # "CLOSED" /\ state' = "CLOSED"
        /\ AckArrives(conn_no, ack, 0) \/ Lost
    BY <1>4 DEF Close
  <2>2. conn_no \in ConnNos /\ ack \in Int
    BY <2>1, Constants DEF IInv, TypeOK, Numbered
  <2>3. AllGrow /\ \A k \in ConnNos : server'[k].got = server[k].got
    BY <2>1, <2>2, AckGrows
  <2>4. SegmentsTrue'
    BY <2>1, <2>3, TrueStays, FromIncoming DEF EInv
  <2>5. NothingCounted' /\ EndsAgree'
    BY <2>1, <2>3
       DEF EInv, NothingCounted, EndsAgree, HandshakeAgrees, AckOnlySent
  <2> QED
    BY <2>4, <2>5 DEF EInv
<1> QED
  BY <1>1, <1>2, <1>3, <1>4, ConnectEnd, SendEnd, DeliverEnd, ServerEnd
     DEF Next, ConnectStep

\* While no port comes round again, both ends agree, however the network
\* behaves and however long the stream is.
THEOREM BothEndsAgree == PortsSuffice => (Spec => []EndsAgree)
<1> SUFFICES ASSUME PortsSuffice
             PROVE  Spec => []EndsAgree
  OBVIOUS
<1>1. Init => IInv /\ EInv
  BY InitIInv, InitEInv
<1>2. (IInv /\ EInv) /\ [Next]_vars => (IInv /\ EInv)'
  <2> SUFFICES ASSUME IInv, EInv, [Next]_vars
               PROVE  IInv' /\ EInv'
    OBVIOUS
  <2>1. IInv'
    BY StepIInv
  <2> QED
    BY <2>1, StepEInv
<1>3. IInv /\ EInv => EndsAgree
  BY DEF EInv
<1> QED
  BY <1>1, <1>2, <1>3, PTL DEF Spec

-----------------------------------------------------------------------------
(* The byte stream. *)

\* What the refinement needs besides: a network that keeps the order and loses
\* nothing, and room in the ring for the whole stream.
Orderly == Faults = {} /\ StreamLen < RxBufSize

\* How many bytes of the stream have come in.
Received == read + Len(pending)

Positions == 1 .. StreamLen

\* Segment s brings byte b of the stream of connection c.
Brings(s, c, b) == \E k \in DOMAIN s.data : s.data[k] = <<c, b>>

\* The data of a segment lie next to each other in the stream.
Piece(s) == \E o \in 0 .. StreamLen : \A k \in DOMAIN s.data : s.data[k] = <<s.of, o + k>>

Pieces == \A i \in DOMAIN incoming : Piece(incoming[i])

\* A server sends data only once the handshake is over.
Unopened ==
    /\ \A n \in ConnNos : server[n].st # "open" => server[n].nxt = 0
    /\ \A n \in ConnNos : n > conn_no => server[n].st = "none"
    /\ state = "SYN_SENT" => server[conn_no].st # "open"

\* What has been read and what is pending are the first bytes of the stream, ...
ReadInOrder ==
    /\ state = "SYN_SENT" => read = 0 /\ pending = <<>>
    /\ state = "ESTABLISHED" =>
           /\ read \in Nat
           /\ \A k \in DOMAIN pending : pending[k] = <<conn_no, read + k>>

\* ... and the segments under way bring the rest, in order and without a gap.
RestUnderWay ==
    /\ Received <= server[conn_no].nxt
    /\ \A i \in DOMAIN incoming, b \in Positions :
           Brings(incoming[i], conn_no, b) => Received < b /\ b <= server[conn_no].nxt
    /\ \A b \in Positions :
           Received < b /\ b <= server[conn_no].nxt =>
               \E i \in DOMAIN incoming : Brings(incoming[i], conn_no, b)
    /\ \A i, j \in DOMAIN incoming, a, b \in Positions :
           i < j /\ Brings(incoming[i], conn_no, a) /\ Brings(incoming[j], conn_no, b)
               => a < b

FInv ==
    /\ Unopened
    /\ ReadInOrder
    /\ Pieces
    /\ state # "CLOSED" => RestUnderWay

\* A segment brings bytes of its own connection.
LEMMA BringsOwn ==
    ASSUME NEW s \in Tagged, NEW c \in ConnNos, NEW b \in Positions, Brings(s, c, b)
    PROVE  s.of = c
  BY DEF Tagged, Brings

\* A step that takes nothing from the stream: what lies in front of the queue
\* and is gone afterwards brought nothing.
LEMMA Undisturbed ==
    ASSUME IInv, IInv', FInv, UNCHANGED <<conn_no, read, pending>>,
           \/ state' = state \/ state' = "CLOSED"
           \/ state = "SYN_SENT" /\ state' = "ESTABLISHED",
           \A k \in ConnNos : server'[k].nxt = server[k].nxt,
           \A k \in ConnNos : server[k].st = "open" => server'[k].st = "open",
           \A k \in ConnNos :
              server[k].st = "none" /\ k # conn_no => server'[k].st = "none",
           state' = "SYN_SENT" => server'[conn_no].st # "open",
           NEW d \in {0, 1},
           Len(incoming') = Len(incoming) - d,
           \A i \in 1 .. Len(incoming) - d : incoming'[i] = incoming[i + d],
           state' # "CLOSED" /\ d = 1 =>
               \A b \in Positions : ~Brings(incoming[1], conn_no, b)
    PROVE  FInv'
<1>1. Unopened'
  <2>1. conn_no \in Nat /\ \A n \in ConnNos : n \in Nat
    BY Constants DEF IInv, TypeOK
  <2>2. \A n \in ConnNos : n > conn_no => n # conn_no
    BY <2>1
  <2> QED
    BY <2>1, <2>2 DEF FInv, Unopened
<1>2. ReadInOrder'
  <2>1. CASE state' = state
    BY <2>1 DEF FInv, ReadInOrder
  <2>2. CASE state' = "CLOSED"
    BY <2>2 DEF ReadInOrder
  <2>3. CASE state = "SYN_SENT" /\ state' = "ESTABLISHED"
    BY <2>3 DEF FInv, ReadInOrder
  <2> QED
    BY <2>1, <2>2, <2>3
<1>3. /\ DOMAIN incoming = 1 .. Len(incoming) /\ Len(incoming) \in Nat
      /\ DOMAIN incoming' = 1 .. Len(incoming) - d
      /\ \A i \in DOMAIN incoming' : i + d \in DOMAIN incoming /\ i \in Nat
  <2>1. incoming \in Seq(Tagged) /\ incoming' \in Seq(Tagged)
    BY DEF IInv
  <2>2. Len(incoming) \in Nat /\ DOMAIN incoming = 1 .. Len(incoming)
    BY <2>1
  <2>3. DOMAIN incoming' = 1 .. Len(incoming')
    BY <2>1
  <2>4. DOMAIN incoming' = 1 .. Len(incoming) - d
    BY <2>3
  <2> QED
    BY <2>2, <2>4
<1>4. Pieces'
  BY <1>3 DEF FInv, Pieces
<1>5. ASSUME state' # "CLOSED"
      PROVE  RestUnderWay'
  <2>1. RestUnderWay /\ conn_no \in ConnNos
    <3>1. state # "CLOSED"
      BY <1>5
    <3> QED
      BY <3>1, Constants DEF FInv, IInv, TypeOK, Numbered
  <2>2. server'[conn_no].nxt = server[conn_no].nxt /\ Received' = Received
    BY <2>1 DEF Received
  <2>3. Received' <= server'[conn_no].nxt
    BY <2>1, <2>2 DEF RestUnderWay
  <2>4. \A i \in DOMAIN incoming', b \in Positions :
            Brings(incoming'[i], conn_no, b) => Received < b /\ b <= server[conn_no].nxt
    BY <1>3, <2>1 DEF RestUnderWay
  <2>5. ASSUME NEW b \in Positions, Received < b, b <= server[conn_no].nxt
        PROVE  \E i \in DOMAIN incoming' : Brings(incoming'[i], conn_no, b)
    <3>1. PICK j \in DOMAIN incoming : Brings(incoming[j], conn_no, b)
      BY <2>1, <2>5 DEF RestUnderWay
    <3>2. j - d \in DOMAIN incoming' /\ (j - d) + d = j
      BY <1>3, <1>5, <3>1
    <3>3. incoming'[j - d] = incoming[j]
      BY <1>3, <3>2
    <3> QED
      BY <3>1, <3>2, <3>3
  <2>6. \A i, j \in DOMAIN incoming', a, b \in Positions :
            i < j /\ Brings(incoming'[i], conn_no, a) /\ Brings(incoming'[j], conn_no, b)
                => a < b
    <3> SUFFICES ASSUME NEW i \in DOMAIN incoming', NEW j \in DOMAIN incoming',
                        NEW a \in Positions, NEW b \in Positions, i < j,
                        Brings(incoming'[i], conn_no, a), Brings(incoming'[j], conn_no, b)
                 PROVE  a < b
      OBVIOUS
    <3>1. i + d \in DOMAIN incoming /\ j + d \in DOMAIN incoming /\ i + d < j + d
      BY <1>3
    <3>2. incoming'[i] = incoming[i + d] /\ incoming'[j] = incoming[j + d]
      BY <1>3
    <3> QED
      BY <2>1, <3>1, <3>2 DEF RestUnderWay
  <2> QED
    BY <2>2, <2>3, <2>4, <2>5, <2>6 DEF RestUnderWay
<1> QED
  BY <1>1, <1>2, <1>4, <1>5 DEF FInv

\* An acknowledgement writes nothing.
LEMMA AckWritesNothing ==
    ASSUME IInv, NEW n \in ConnNos, NEW a, NEW len \in Nat, AckArrives(n, a, len) \/ Lost
    PROVE  \A k \in ConnNos :
               /\ server'[k].nxt = server[k].nxt
               /\ server[k].st = "open" => server'[k].st = "open"
               /\ server[k].st = "none" => server'[k].st = "none"
<1>1. CASE UNCHANGED server
  BY <1>1
<1>2. CASE AckArrives(n, a, len)
  <2>1. PICK st1, got1, una1 :
            /\ server[n].st = "none" => st1 = "none"
            /\ server[n].st = "open" => st1 = "open"
            /\ server' = [server EXCEPT ![n].st = st1, ![n].got = got1, ![n].una = una1]
    BY <1>2 DEF AckArrives, IInv, TypeOK
  <2>2. ASSUME NEW k \in ConnNos
        PROVE  /\ server'[k].nxt = server[k].nxt
               /\ server[k].st = "open" => server'[k].st = "open"
               /\ server[k].st = "none" => server'[k].st = "none"
    <3>1. server[k] \in Server /\ server \in [ConnNos -> Server]
      BY DEF IInv, TypeOK
    <3>2. CASE k = n
      BY <2>1, <3>1, <3>2 DEF Server
    <3>3. CASE k # n
      BY <2>1, <3>1, <3>3
    <3> QED
      BY <3>2, <3>3
  <2> QED
    BY <2>2
<1> QED
  BY <1>1, <1>2 DEF Lost

\* Neither does a SYN.
LEMMA SynWritesNothing ==
    ASSUME IInv, NEW n \in ConnNos, NEW s, NEW to, SynArrives(n, s, to) \/ Lost
    PROVE  \A k \in ConnNos :
               /\ server'[k].nxt = server[k].nxt
               /\ server'[k].st = "open" <=> server[k].st = "open"
               /\ server[k].st = "none" /\ k # n => server'[k].st = "none"
<1>1. CASE UNCHANGED server
  BY <1>1
<1>2. CASE /\ server[n].st = "none"
           /\ server' = [server EXCEPT ![n].st = "answered", ![n].client = s,
                                       ![n].at = to]
  <2>1. ASSUME NEW k \in ConnNos
        PROVE  /\ server'[k].nxt = server[k].nxt
               /\ server'[k].st = "open" <=> server[k].st = "open"
               /\ server[k].st = "none" /\ k # n => server'[k].st = "none"
    <3>1. server[k] \in Server /\ server \in [ConnNos -> Server]
      BY DEF IInv, TypeOK
    <3>2. CASE k = n
      BY <1>2, <3>1, <3>2 DEF Server
    <3>3. CASE k # n
      BY <1>2, <3>1, <3>3
    <3> QED
      BY <3>2, <3>3
  <2> QED
    BY <2>1
<1> QED
  BY <1>1, <1>2 DEF SynArrives, Lost

\* A queue without its first segment.
LEMMA RestOfQueue ==
    ASSUME IInv, 1 \in DOMAIN incoming, incoming' = RemoveAt(incoming, 1)
    PROVE  /\ Len(incoming') = Len(incoming) - 1
           /\ \A i \in 1 .. Len(incoming) - 1 : incoming'[i] = incoming[i + 1]
<1>1. incoming \in Seq(Tagged) /\ Len(incoming) \in Nat /\ Len(incoming) >= 1
  BY DEF IInv
<1>2. incoming' = SubSeq(incoming, 2, Len(incoming))
  <2>1. SubSeq(incoming, 1, 0) = <<>>
    BY <1>1
  <2>2. SubSeq(incoming, 2, Len(incoming)) \in Seq(Tagged)
    BY <1>1
  <2>3. incoming' = SubSeq(incoming, 1, 1 - 1) \o SubSeq(incoming, 1 + 1, Len(incoming))
    BY DEF RemoveAt
  <2>4. 1 - 1 = 0 /\ 1 + 1 = 2
    OBVIOUS
  <2>5. incoming' = <<>> \o SubSeq(incoming, 2, Len(incoming))
    BY <2>1, <2>3, <2>4
  <2> QED
    BY <2>2, <2>5, ConcatEmptySeq
<1> QED
  BY <1>1, <1>2

\* A segment that carries no data brings nothing.
LEMMA BringsData ==
    ASSUME NEW s, NEW c, NEW b, s.data = <<>>
    PROVE  ~Brings(s, c, b)
  BY DEF Brings

\* Before the handshake is over nothing is under way.
LEMMA NothingYet ==
    ASSUME IInv, FInv, state = "SYN_SENT", NEW i \in DOMAIN incoming, NEW b \in Positions
    PROVE  ~Brings(incoming[i], conn_no, b)
<1>1. conn_no \in ConnNos /\ server[conn_no].nxt = 0
  BY Constants DEF IInv, TypeOK, Numbered, FInv, Unopened
<1>2. Brings(incoming[i], conn_no, b) => b <= server[conn_no].nxt
  BY DEF FInv, RestUnderWay
<1> QED
  BY <1>1, <1>2, Constants DEF Positions

\* A segment that is dropped brings nothing.
LEMMA DroppedBringsNothing ==
    ASSUME IInv, EInv, FInv, state # "CLOSED", NEW i \in DOMAIN incoming,
           Dropped(incoming[i]), NEW b \in Positions
    PROVE  ~Brings(incoming[i], conn_no, b)
<1> DEFINE s == incoming[i]
<1>1. s \in Tagged /\ Truthful(s, server[s.of]) /\ Dropped(s)
  BY IncomingTagged DEF EInv, SegmentsTrue
<1>2. state = "SYN_SENT" => ~Brings(s, conn_no, b)
  BY NothingYet
<1> HIDE DEF s
<1>3. CASE state = "ESTABLISHED"
  <2> SUFFICES ASSUME Brings(s, conn_no, b)
               PROVE  FALSE
    BY DEF s
  <2>1. conn_no \in ConnNos
    BY Constants DEF IInv, TypeOK, Numbered
  <2>2. s.of = conn_no
    BY <1>1, <2>1, BringsOwn
  <2>3. s.port = local_port
    BY <1>1, <1>3, <2>2 DEF Tagged, IInv, Numbered
  <2>4. s.from = remote
    BY <1>1, <1>3, <2>2 DEF Truthful, EInv, EndsAgree, HandshakeAgrees
  <2>5. s.data = <<>>
    BY <1>1, <1>3, <2>3, <2>4 DEF Dropped, ForUs
  <2> QED
    BY <2>5, BringsData
<1>4. state \in {"SYN_SENT", "ESTABLISHED"}
  BY DEF IInv, TypeOK
<1> QED
  BY <1>2, <1>3, <1>4 DEF s

\* The first segment that brings something brings what comes next.
LEMMA ComesNext ==
    ASSUME IInv, FInv, state = "ESTABLISHED", 1 \in DOMAIN incoming,
           incoming[1].of = conn_no, incoming[1].data # <<>>
    PROVE  /\ \A k \in DOMAIN incoming[1].data :
                  incoming[1].data[k] = <<conn_no, Received + k>>
           /\ Received + Len(incoming[1].data) <= server[conn_no].nxt
           /\ Received + Len(incoming[1].data) \in Positions
           /\ Received \in Nat
<1> DEFINE s == incoming[1]
           m == Len(s.data)
<1>1. /\ s \in Tagged /\ s.data \in Seq(Bytes) /\ m \in Nat /\ m >= 1
      /\ DOMAIN s.data = 1 .. m /\ conn_no \in ConnNos
  <2>1. s \in Tagged
    BY IncomingTagged
  <2>2. s.data \in Seq(Bytes) /\ s.data # <<>>
    BY <2>1, TaggedTyped
  <2> HIDE DEF s
  <2> QED
    BY <2>1, <2>2, Constants DEF IInv, TypeOK, Numbered
<1>2. PICK o \in 0 .. StreamLen : \A k \in DOMAIN s.data : s.data[k] = <<conn_no, o + k>>
  BY DEF FInv, Pieces, Piece
<1>3. /\ RestUnderWay /\ Received \in Nat /\ Len(incoming) \in Nat
      /\ DOMAIN incoming = 1 .. Len(incoming)
  <2>1. read \in Nat /\ Len(pending) \in Nat
    BY DEF FInv, ReadInOrder, IInv, TypeOK
  <2>2. incoming \in Seq(Tagged)
    BY DEF IInv
  <2> QED
    BY <2>1, <2>2 DEF FInv, Received
<1> HIDE DEF m
<1>4. \A k \in 1 .. m : o + k \in Positions /\ Brings(s, conn_no, o + k)
  <2> SUFFICES ASSUME NEW k \in 1 .. m
               PROVE  o + k \in Positions /\ Brings(s, conn_no, o + k)
    OBVIOUS
  <2>1. s.data[k] = <<conn_no, o + k>> /\ s.data[k] \in Bytes
    BY <1>1, <1>2
  <2>2. <<conn_no, o + k>> # NoByte
    BY <1>1, Constants DEF NoByte
  <2>3. o + k \in Positions
    BY <2>1, <2>2 DEF Bytes, Positions
  <2> QED
    BY <1>1, <2>1, <2>3 DEF Brings
<1>5. /\ \A k \in 1 .. m : Received < o + k /\ o + k <= server[conn_no].nxt
  BY <1>3, <1>4 DEF RestUnderWay
<1>6. 1 \in 1 .. m /\ m \in 1 .. m /\ o \in Nat /\ server[conn_no].nxt \in Nat
  BY <1>1, ServersTyped, Constants
<1>7. Received + 1 \in Positions /\ Received < Received + 1
      /\ Received + 1 <= server[conn_no].nxt
  <2>1. Received < o + 1 /\ o + 1 <= server[conn_no].nxt /\ o + 1 \in Positions
    BY <1>4, <1>5, <1>6
  <2> QED
    BY <1>3, <1>6, <2>1, Constants DEF Positions
<1>8. PICK j \in DOMAIN incoming : Brings(incoming[j], conn_no, Received + 1)
  BY <1>3, <1>7 DEF RestUnderWay
<1>9. Brings(s, conn_no, Received + 1)
  <2>1. CASE j = 1
    BY <1>8, <2>1
  <2>2. CASE j # 1
    <3>1. 1 < j
      BY <1>3, <2>2
    <3>2. o + 1 \in Positions /\ Brings(s, conn_no, o + 1) /\ Received < o + 1
      BY <1>4, <1>5, <1>6
    <3>3. o + 1 < Received + 1
      BY <1>3, <1>7, <1>8, <3>1, <3>2 DEF RestUnderWay
    <3> QED
      BY <1>3, <1>6, <3>2, <3>3
  <2> QED
    BY <2>1, <2>2
<1>10. o = Received
  <2>1. PICK k \in 1 .. m : s.data[k] = <<conn_no, Received + 1>>
    BY <1>1, <1>9 DEF Brings
  <2>2. o + k = Received + 1
    BY <1>1, <1>2, <2>1
  <2>3. Received < o + 1
    BY <1>5, <1>6
  <2> QED
    BY <1>3, <1>6, <2>2, <2>3
<1> QED
  BY <1>2, <1>3, <1>4, <1>5, <1>6, <1>10 DEF m

\* There is room in the ring for what comes next.
LEMMA AllIsKept ==
    ASSUME Orderly, IInv, RingHolds, FInv, state = "ESTABLISHED",
           NEW data \in Seq(Bytes), StoreData(data), Received + Len(data) \in Positions
    PROVE  /\ Len(pending') = Len(pending) + Len(data)
           /\ \A k \in 1 .. Len(pending) : pending'[k] = pending[k]
           /\ \A j \in 1 .. Len(data) : pending'[Len(pending) + j] = data[j]
<1>1. /\ TypeOK /\ Len(pending) = Avail /\ Len(pending) \in Nat /\ Len(data) \in Nat
      /\ read \in Nat
  BY DEF IInv, TypeOK, RingHolds, FInv, ReadInOrder
<1>2. Len(pending) + Len(data) <= RxBufSize - 1
  BY <1>1, Constants DEF Orderly, Positions, Received
<1>3. Room = RxBufSize - 1 - Len(pending)
  BY <1>1 DEF Room
<1>4. Kept(data) = SubSeq(data, 1, Len(data))
  BY <1>1, <1>2, <1>3, Constants DEF Kept
<1>5. Kept(data) = data
  BY <1>4
<1>6. pending' = pending \o data
  BY <1>5 DEF StoreData
<1>7. pending \in Seq(Bytes)
  BY <1>1 DEF TypeOK
<1> QED
  BY <1>1, <1>6, <1>7

LEMMA DataTaken ==
    ASSUME PortsSuffice, Orderly, IInv, IInv', RingHolds, EInv, FInv,
           1 \in DOMAIN incoming, ForUs(incoming[1]), HandleData(incoming[1]),
           incoming' = RemoveAt(incoming, 1), UNCHANGED <<conn_no, read>>
    PROVE  FInv'
<1> DEFINE s == incoming[1]
           m == Len(s.data)
           nxt == server[conn_no].nxt
<1>1. /\ state = "ESTABLISHED" /\ state' = "ESTABLISHED" /\ s.data # <<>>
      /\ StoreData(s.data) /\ (AckArrives(conn_no, ack', 0) \/ Lost)
  BY DEF HandleData
<1>2. /\ s \in Tagged /\ s.data \in Seq(Bytes) /\ m \in Nat /\ DOMAIN s.data = 1 .. m
      /\ s.of = conn_no /\ conn_no \in ConnNos
  <2>1. s \in Tagged
    BY IncomingTagged
  <2>2. s.of = conn_no
    BY <1>1, <2>1, AcceptedIsOwn
  <2> HIDE DEF s
  <2>3. s.data \in Seq(Bytes) /\ s.of \in ConnNos
    BY <2>1, TaggedTyped
  <2> QED
    BY <2>1, <2>2, <2>3
<1>3. /\ \A k \in 1 .. m : s.data[k] = <<conn_no, Received + k>>
      /\ Received + m <= nxt /\ Received + m \in Positions /\ Received \in Nat
  BY <1>1, <1>2, ComesNext
<1>4. /\ Len(pending') = Len(pending) + m
      /\ \A k \in 1 .. Len(pending) : pending'[k] = pending[k]
      /\ \A j \in 1 .. m : pending'[Len(pending) + j] = s.data[j]
  BY <1>1, <1>2, <1>3, AllIsKept
<1>5. /\ read \in Nat /\ Len(pending) \in Nat /\ Len(pending') \in Nat
      /\ DOMAIN pending = 1 .. Len(pending) /\ DOMAIN pending' = 1 .. Len(pending')
  <2>1. pending \in Seq(Bytes) /\ pending' \in Seq(Bytes)
    BY DEF IInv, TypeOK
  <2>2. read \in Nat
    BY <1>1 DEF FInv, ReadInOrder
  <2> QED
    BY <2>1, <2>2
<1>6. m >= 1
  <2> HIDE DEF s
  <2> QED
    BY <1>1, <1>2
<1>7. /\ Len(incoming') = Len(incoming) - 1
      /\ \A i \in 1 .. Len(incoming) - 1 : incoming'[i] = incoming[i + 1]
  BY RestOfQueue
<1>8. /\ Len(incoming) \in Nat /\ DOMAIN incoming = 1 .. Len(incoming)
      /\ DOMAIN incoming' = 1 .. Len(incoming) - 1
  <2>1. incoming \in Seq(Tagged) /\ incoming' \in Seq(Tagged)
    BY DEF IInv
  <2>2. Len(incoming) \in Nat /\ DOMAIN incoming = 1 .. Len(incoming)
    BY <2>1
  <2>3. DOMAIN incoming' = 1 .. Len(incoming')
    BY <2>1
  <2> QED
    BY <1>7, <2>2, <2>3
<1>9. \A k \in ConnNos :
          /\ server'[k].nxt = server[k].nxt
          /\ server[k].st = "open" => server'[k].st = "open"
          /\ server[k].st = "none" => server'[k].st = "none"
  <2>1. 0 \in Nat
    OBVIOUS
  <2> QED
    BY <1>1, <1>2, <2>1, AckWritesNothing
<1>10. Received' = Received + m
  <2> HIDE DEF m
  <2>1. Received' = read + Len(pending')
    BY DEF Received
  <2> QED
    BY <1>2, <1>4, <1>5, <2>1 DEF Received
<1>11. \A k \in 1 .. m : Received + k \in Positions /\ Brings(s, conn_no, Received + k)
  <2> HIDE DEF m, s
  <2>1. \A k \in 1 .. m : Received + k \in Positions
    BY <1>2, <1>3, Constants DEF Positions
  <2>2. \A k \in 1 .. m : Brings(s, conn_no, Received + k)
    BY <1>2, <1>3 DEF Brings
  <2> QED
    BY <2>1, <2>2
<1> HIDE DEF m, s, nxt
<1>12. Unopened'
  BY <1>1, <1>9 DEF FInv, Unopened
<1>13. ReadInOrder'
  <2>1. ASSUME NEW k \in DOMAIN pending'
        PROVE  pending'[k] = <<conn_no, read + k>>
    <3>1. k \in 1 .. Len(pending) + m
      BY <1>4, <1>5
    <3>2. CASE k <= Len(pending)
      <4>1. k \in DOMAIN pending
        BY <1>5, <3>1, <3>2
      <4> QED
        BY <1>1, <1>4, <1>5, <4>1 DEF FInv, ReadInOrder
    <3>3. CASE k > Len(pending)
      <4> DEFINE j == k - Len(pending)
      <4>1. j \in 1 .. m /\ Len(pending) + j = k /\ Received + j = read + k
        BY <1>2, <1>5, <3>1, <3>3 DEF Received
      <4> HIDE DEF j
      <4>2. pending'[k] = s.data[j]
        BY <1>4, <4>1
      <4> QED
        BY <1>3, <4>1, <4>2
    <3> QED
      BY <1>5, <3>1, <3>2, <3>3
  <2> QED
    BY <1>1, <1>5, <2>1 DEF ReadInOrder
<1>14. Pieces'
  <2>1. \A i \in DOMAIN incoming' : i + 1 \in DOMAIN incoming
    BY <1>8
  <2> QED
    BY <1>7, <1>8, <2>1 DEF FInv, Pieces
<1>15. RestUnderWay'
  <2>0. RestUnderWay /\ server'[conn_no].nxt = nxt /\ nxt = server[conn_no].nxt
    BY <1>1, <1>2, <1>9 DEF FInv, nxt
  <2>1. Received + m <= nxt
    BY <1>3
  <2>2. \A i \in DOMAIN incoming' : /\ i + 1 \in DOMAIN incoming /\ i + 1 > 1
                                    /\ incoming'[i] = incoming[i + 1]
    BY <1>7, <1>8
  <2>3. Received + m \in Positions /\ Brings(s, conn_no, Received + m)
    BY <1>2, <1>6, <1>11
  <2>4. ASSUME NEW i \in DOMAIN incoming', NEW b \in Positions,
               Brings(incoming'[i], conn_no, b)
        PROVE  Received + m < b /\ b <= nxt
    <3>1. b <= nxt
      BY <2>0, <2>2, <2>4 DEF RestUnderWay
    <3>2. Received + m < b
      BY <2>0, <2>2, <2>3, <2>4, <1>8 DEF RestUnderWay, s
    <3> QED
      BY <3>1, <3>2
  <2>5. ASSUME NEW b \in Positions, Received + m < b, b <= nxt
        PROVE  \E i \in DOMAIN incoming' : Brings(incoming'[i], conn_no, b)
    <3>1. Received < b
      BY <1>2, <1>3, <2>5, Constants DEF Positions
    <3>2. PICK j \in DOMAIN incoming : Brings(incoming[j], conn_no, b)
      BY <2>0, <2>5, <3>1 DEF RestUnderWay
    <3>3. j # 1
      <4> SUFFICES ASSUME j = 1
                   PROVE  FALSE
        OBVIOUS
      <4>1. PICK k \in 1 .. m : s.data[k] = <<conn_no, b>>
        BY <1>2, <3>2 DEF Brings, s
      <4>2. b = Received + k
        BY <1>3, <4>1
      <4> QED
        BY <1>2, <1>3, <2>5, <4>1, <4>2
    <3>4. j - 1 \in DOMAIN incoming' /\ (j - 1) + 1 = j
      BY <1>8, <3>3
    <3>5. incoming'[j - 1] = incoming[j]
      BY <2>2, <3>4
    <3> QED
      BY <3>2, <3>4, <3>5
  <2>6. \A i, j \in DOMAIN incoming', a, b \in Positions :
            i < j /\ Brings(incoming'[i], conn_no, a) /\ Brings(incoming'[j], conn_no, b)
                => a < b
    <3> SUFFICES ASSUME NEW i \in DOMAIN incoming', NEW j \in DOMAIN incoming',
                        NEW a \in Positions, NEW b \in Positions, i < j,
                        Brings(incoming'[i], conn_no, a), Brings(incoming'[j], conn_no, b)
                 PROVE  a < b
      OBVIOUS
    <3>1. i + 1 < j + 1
      BY <1>8
    <3> QED
      BY <2>0, <2>2, <3>1 DEF RestUnderWay
  <2>7. conn_no' = conn_no
    OBVIOUS
  <2> QED
    BY <1>10, <2>0, <2>1, <2>4, <2>5, <2>6, <2>7 DEF RestUnderWay
<1> QED
  BY <1>12, <1>13, <1>14, <1>15 DEF FInv

\* tcp_handle_packet, of the oldest segment.
LEMMA DeliverStream ==
    ASSUME PortsSuffice, Orderly, IInv, IInv', RingHolds, EInv, FInv, Deliver
    PROVE  FInv'
<1> DEFINE s == incoming[1]
<1>1. /\ 1 \in DOMAIN incoming /\ incoming' = RemoveAt(incoming, 1)
      /\ tcp_handle_packet(s)
  BY DEF Deliver, Orderly
<1>2. /\ Len(incoming') = Len(incoming) - 1
      /\ \A i \in 1 .. Len(incoming) - 1 : incoming'[i] = incoming[i + 1]
  BY <1>1, RestOfQueue
<1>3. UNCHANGED <<conn_no, read>>
  BY <1>1 DEF tcp_handle_packet
<1>4. 1 \in {0, 1} /\ ack' \in Int /\ 0 \in Nat
  BY Constants DEF IInv, TypeOK
<1>5. state # "CLOSED" => conn_no \in ConnNos
  BY Constants DEF IInv, TypeOK, Numbered
<1>6. CASE ForUs(s) /\ HandleData(s)
  BY <1>1, <1>3, <1>6, DataTaken
<1>7. CASE ForUs(s) /\ HandleSynSent(s)
  <2>1. /\ state = "SYN_SENT" /\ state' = "ESTABLISHED" /\ UNCHANGED pending
        /\ AckArrives(conn_no, ack', 0) \/ Lost
    BY <1>7 DEF HandleSynSent
  <2>2. \A k \in ConnNos :
            /\ server'[k].nxt = server[k].nxt
            /\ server[k].st = "open" => server'[k].st = "open"
            /\ server[k].st = "none" => server'[k].st = "none"
    BY <1>4, <1>5, <2>1, AckWritesNothing
  <2>3. \A b \in Positions : ~Brings(incoming[1], conn_no, b)
    BY <1>1, <2>1, NothingYet
  <2> QED
    BY <1>2, <1>3, <1>4, <2>1, <2>2, <2>3, Undisturbed
<1>8. CASE ForUs(s) /\ HandleReset(s)
  <2>1. state' = "CLOSED" /\ UNCHANGED <<pending, server>>
    BY <1>8 DEF HandleReset
  <2> QED
    BY <1>2, <1>3, <1>4, <2>1, Undisturbed
<1>9. CASE ForUs(s) /\ HandleFin(s)
  <2>1. /\ state = "ESTABLISHED" /\ state' = "CLOSED"
        /\ AckArrives(conn_no, Plus(s.seq, Len(s.data)), 0) \/ Lost
    BY <1>9 DEF HandleFin
  <2>2. \A k \in ConnNos :
            /\ server'[k].nxt = server[k].nxt
            /\ server[k].st = "open" => server'[k].st = "open"
            /\ server[k].st = "none" => server'[k].st = "none"
    BY <1>4, <1>5, <2>1, AckWritesNothing
  <2>3. Unopened' /\ ReadInOrder'
    BY <1>3, <2>1, <2>2 DEF FInv, Unopened, ReadInOrder
  <2>4. Pieces'
    <3>1. /\ Len(incoming) \in Nat /\ DOMAIN incoming = 1 .. Len(incoming)
          /\ DOMAIN incoming' = 1 .. Len(incoming')
      BY DEF IInv
    <3>2. DOMAIN incoming' = 1 .. Len(incoming) - 1
      BY <1>2, <3>1
    <3>3. \A i \in DOMAIN incoming' : i + 1 \in DOMAIN incoming
      BY <3>1, <3>2
    <3> QED
      BY <1>2, <3>2, <3>3 DEF FInv, Pieces
  <2> QED
    BY <2>1, <2>3, <2>4 DEF FInv
<1>10. CASE Dropped(s) /\ UNCHANGED <<state, pending, server>>
  <2>1. state # "CLOSED" => \A b \in Positions : ~Brings(incoming[1], conn_no, b)
    BY <1>1, <1>10, DroppedBringsNothing
  <2>2. state' = "SYN_SENT" => server'[conn_no].st # "open"
    BY <1>10 DEF FInv, Unopened
  <2> QED
    BY <1>2, <1>3, <1>4, <1>10, <2>1, <2>2, Undisturbed
<1> QED
  BY <1>1, <1>6, <1>7, <1>8, <1>9, <1>10 DEF tcp_handle_packet

\* The server of connection n writes and sends len bytes, in a segment.
Sends(n, seg, len) ==
    /\ incoming' = Append(incoming, seg)
    /\ seg.of = n /\ DOMAIN seg.data = 1 .. len
    /\ server[n].nxt + len <= StreamLen
    /\ \A k \in 1 .. len : seg.data[k] = <<n, server[n].nxt + k>>
    /\ server[n].st # "none" /\ (len > 0 => server[n].st = "open")
    /\ \A k \in ConnNos : server'[k].st = server[k].st
    /\ \A k \in ConnNos :
           server'[k].nxt = IF k = n THEN server[n].nxt + len ELSE server[k].nxt

\* Segments that are sent follow those that are under way.
LEMMA SentLast ==
    ASSUME IInv, IInv', FInv, UNCHANGED <<state, conn_no, read, pending>>,
           NEW n \in ConnNos, NEW seg, NEW len \in Nat, Sends(n, seg, len)
    PROVE  FInv'
<1> DEFINE nxt == server[n].nxt
<1> USE DEF Sends
<1>1. nxt \in Nat /\ nxt + 0 = nxt /\ \A k \in ConnNos : server[k].nxt \in Nat
  BY ServersTyped
<1>2. Unopened' /\ ReadInOrder'
  <2>1. \A k \in ConnNos : server'[k].st # "open" => server'[k].nxt = 0
    <3> SUFFICES ASSUME NEW k \in ConnNos, server[k].st # "open"
                 PROVE  server'[k].nxt = 0
      OBVIOUS
    <3>1. server[k].nxt = 0
      BY DEF FInv, Unopened
    <3>2. k = n => len = 0
      OBVIOUS
    <3> QED
      BY <3>1, <3>2
  <2>2. state = "SYN_SENT" => conn_no \in ConnNos
    BY Constants DEF IInv, TypeOK, Numbered
  <2>3. Unopened'
    BY <2>1, <2>2 DEF FInv, Unopened
  <2> QED
    BY <2>3 DEF FInv, ReadInOrder
<1>3. /\ Len(incoming) \in Nat /\ DOMAIN incoming = 1 .. Len(incoming)
      /\ DOMAIN incoming' = 1 .. Len(incoming) + 1
      /\ \A i \in DOMAIN incoming : incoming'[i] = incoming[i]
      /\ incoming'[Len(incoming) + 1] = seg
  <2>1. incoming \in Seq(Tagged \cup {seg})
    <3>1. incoming \in Seq(Tagged) /\ \A i \in DOMAIN incoming : incoming[i] \in Tagged
      BY DEF IInv
    <3> QED
      BY <3>1, RetypedSeq
  <2> QED
    BY <2>1
<1>4. \A i \in DOMAIN incoming' : i \in DOMAIN incoming \/ i = Len(incoming) + 1
  BY <1>3
<1>5. nxt \in 0 .. StreamLen /\ Piece(seg)
  <2>1. nxt \in 0 .. StreamLen
    BY <1>1, Constants
  <2> QED
    BY <2>1 DEF Piece
<1>6. Pieces'
  BY <1>3, <1>4, <1>5 DEF FInv, Pieces
<1>7. ASSUME NEW b \in Positions
      PROVE  Brings(seg, conn_no, b) <=> n = conn_no /\ nxt < b /\ b <= nxt + len
  <2>1. ASSUME Brings(seg, conn_no, b)
        PROVE  n = conn_no /\ nxt < b /\ b <= nxt + len
    <3>1. PICK k \in 1 .. len : seg.data[k] = <<conn_no, b>>
      BY <2>1 DEF Brings
    <3>2. n = conn_no /\ b = nxt + k
      BY <3>1
    <3> QED
      BY <1>1, <3>1, <3>2
  <2>2. ASSUME n = conn_no, nxt < b, b <= nxt + len
        PROVE  Brings(seg, conn_no, b)
    <3>1. b - nxt \in 1 .. len /\ nxt + (b - nxt) = b
      BY <1>1, <2>2, Constants DEF Positions
    <3> QED
      BY <2>2, <3>1 DEF Brings
  <2> QED
    BY <2>1, <2>2
<1> HIDE DEF nxt
<1>8. ASSUME state # "CLOSED"
      PROVE  RestUnderWay'
  <2> DEFINE old == server[conn_no].nxt
             new == server'[conn_no].nxt
  <2>1. RestUnderWay /\ conn_no \in ConnNos /\ Received' = Received
    BY <1>8, Constants DEF FInv, IInv, TypeOK, Numbered, Received
  <2>2. /\ old \in Nat /\ new \in Nat /\ old <= new
        /\ n = conn_no => old = nxt /\ new = nxt + len
        /\ n # conn_no => new = old
    BY <1>1, <2>1 DEF nxt
  <2>3. Received \in Int /\ Received <= old
    <3>1. read \in Int /\ Len(pending) \in Int
      BY Constants DEF IInv, TypeOK, Garbled
    <3> QED
      BY <2>1, <3>1 DEF RestUnderWay, Received
  <2>4. /\ \A i \in DOMAIN incoming, b \in Positions :
               Brings(incoming[i], conn_no, b) => Received < b /\ b <= old
        /\ \A b \in Positions :
               Received < b /\ b <= old
                  => \E i \in DOMAIN incoming : Brings(incoming[i], conn_no, b)
        /\ \A i, j \in DOMAIN incoming, a, b \in Positions :
               i < j /\ Brings(incoming[i], conn_no, a) /\ Brings(incoming[j], conn_no, b)
                   => a < b
    BY <2>1 DEF RestUnderWay
  <2> HIDE DEF old, new
  <2>5. \A b \in Positions : b \in Nat
    BY Constants DEF Positions
  <2>6. ASSUME NEW i \in DOMAIN incoming', NEW b \in Positions,
               Brings(incoming'[i], conn_no, b)
        PROVE  Received < b /\ b <= new
    <3>1. CASE i \in DOMAIN incoming
      BY <1>3, <2>2, <2>3, <2>4, <2>5, <2>6, <3>1
    <3>2. CASE i = Len(incoming) + 1
      <4>1. n = conn_no /\ nxt < b /\ b <= nxt + len
        BY <1>3, <1>7, <2>6, <3>2
      <4> QED
        BY <2>2, <2>3, <2>5, <4>1
    <3> QED
      BY <1>4, <3>1, <3>2
  <2>7. ASSUME NEW b \in Positions, Received < b, b <= new
        PROVE  \E i \in DOMAIN incoming' : Brings(incoming'[i], conn_no, b)
    <3>1. CASE b <= old
      <4>1. PICK i \in DOMAIN incoming : Brings(incoming[i], conn_no, b)
        BY <2>4, <2>7, <3>1
      <4>2. i \in DOMAIN incoming' /\ incoming'[i] = incoming[i]
        BY <1>3
      <4> QED
        BY <4>1, <4>2
    <3>2. CASE b > old
      <4>1. n = conn_no /\ nxt < b /\ b <= nxt + len
        BY <2>2, <2>5, <2>7, <3>2
      <4>2. Brings(seg, conn_no, b) /\ Len(incoming) + 1 \in DOMAIN incoming'
        BY <1>3, <1>7, <4>1
      <4> QED
        BY <1>3, <4>2
    <3> QED
      BY <2>2, <2>5, <3>1, <3>2
  <2>8. ASSUME NEW i \in DOMAIN incoming', NEW j \in DOMAIN incoming',
               NEW a \in Positions, NEW b \in Positions, i < j,
               Brings(incoming'[i], conn_no, a), Brings(incoming'[j], conn_no, b)
        PROVE  a < b
    <3>1. i \in DOMAIN incoming /\ incoming'[i] = incoming[i]
      BY <1>3, <2>8
    <3>2. CASE j \in DOMAIN incoming
      BY <1>3, <2>4, <2>8, <3>1, <3>2
    <3>3. CASE j = Len(incoming) + 1
      <4>1. n = conn_no /\ nxt < b
        BY <1>3, <1>7, <2>8, <3>3
      <4>2. a <= old
        BY <2>4, <2>8, <3>1
      <4> QED
        BY <2>2, <2>5, <4>1, <4>2
    <3> QED
      BY <1>4, <3>2, <3>3
  <2>9. Received <= new
    BY <2>2, <2>3
  <2>10. conn_no' = conn_no
    OBVIOUS
  <2> QED
    BY <2>1, <2>6, <2>7, <2>8, <2>9, <2>10 DEF RestUnderWay, new
<1>9. state' = state
  OBVIOUS
<1> QED
  BY <1>2, <1>6, <1>8, <1>9 DEF FInv

\* A part of the stream.
LEMMA StreamPart ==
    ASSUME NEW n \in ConnNos, NEW from \in Nat, NEW len \in Nat, from + len <= StreamLen
    PROVE  SubSeq(Stream(n), from + 1, from + len) = [k \in 1 .. len |-> <<n, from + k>>]
<1> DEFINE t == Stream(n)
           d == SubSeq(t, from + 1, from + len)
<1>1. \A i \in from + 1 .. from + len : t[i] = <<n, i>> /\ t[i] \in Bytes
  BY Constants DEF Stream, Bytes
<1> HIDE DEF t
<1>2. /\ d \in Seq(Bytes)
      /\ Len(d) = IF from + 1 <= from + len THEN (from + len) - (from + 1) + 1 ELSE 0
      /\ \A i \in 1 .. (from + len) - (from + 1) + 1 : d[i] = t[(from + 1) + i - 1]
  <2>1. from + 1 \in Int /\ from + len \in Int
    OBVIOUS
  <2> QED
    BY <1>1, <2>1, SubSeqProperties
<1> HIDE DEF d
<1>3. Len(d) = len /\ (from + len) - (from + 1) + 1 = len
  BY <1>2
<1>4. \A k \in 1 .. len : d[k] = <<n, from + k>>
  <2> SUFFICES ASSUME NEW k \in 1 .. len
               PROVE  d[k] = <<n, from + k>>
    OBVIOUS
  <2>1. (from + 1) + k - 1 = from + k /\ from + k \in from + 1 .. from + len
    OBVIOUS
  <2> QED
    BY <1>1, <1>2, <1>3, <2>1
<1>5. d = [k \in 1 .. len |-> d[k]]
  BY <1>2, <1>3
<1>6. d = [k \in 1 .. len |-> <<n, from + k>>]
  BY <1>4, <1>5
<1> QED
  BY <1>6 DEF d, t

LEMMA ServerStream ==
    ASSUME Orderly, IInv, IInv', FInv, ServerStep
    PROVE  FInv'
<1>1. \A n, flags, offset, data :
          ServerSends(n, flags, offset, data) =>
              /\ UNCHANGED <<state, conn_no, read, pending>>
              /\ incoming' = Append(incoming,
                   [of |-> n, from |-> server[n].at,
                    port |-> LocalPort(PortBase + n - 1),
                    flags |-> flags, seq |-> Plus(server[n].isn, offset),
                    ack |-> Plus(server[n].client, 1 + server[n].got), data |-> data])
  BY DEF ServerSends, conn, ghost
<1>2. ASSUME NEW n \in ConnNos, SynAck(n)
      PROVE  FInv'
  <2> DEFINE seg == [of |-> n, from |-> server[n].at,
                     port |-> LocalPort(PortBase + n - 1),
                     flags |-> {"SYN", "ACK"}, seq |-> Plus(server[n].isn, 0),
                     ack |-> Plus(server[n].client, 1 + server[n].got), data |-> <<>>]
  <2>1. /\ UNCHANGED <<state, conn_no, read, pending, server>>
        /\ incoming' = Append(incoming, seg) /\ server[n].st # "none"
    BY <1>1, <1>2 DEF SynAck
  <2>2. seg.of = n /\ DOMAIN seg.data = 1 .. 0
    OBVIOUS
  <2> HIDE DEF seg
  <2>3. /\ server[n].nxt + 0 <= StreamLen
        /\ \A k \in ConnNos :
               server'[k].nxt = IF k = n THEN server[n].nxt + 0 ELSE server[k].nxt
    <3>1. server[n] \in Server
      BY DEF IInv, TypeOK
    <3>2. server[n].nxt \in 0 .. StreamLen
      BY <3>1 DEF Server
    <3>3. server[n].nxt + 0 = server[n].nxt /\ server[n].nxt <= StreamLen
      BY <3>2, Constants
    <3> QED
      BY <2>1, <3>3
  <2>4. 0 \in Nat /\ \A k \in 1 .. 0 : seg.data[k] = <<n, server[n].nxt + k>>
    OBVIOUS
  <2> QED
    <3>1. Sends(n, seg, 0)
      BY <2>1, <2>2, <2>3, <2>4 DEF Sends
    <3> QED
      BY <2>1, <2>4, <3>1, SentLast
<1>3. ASSUME NEW n \in ConnNos, NEW from \in 0 .. StreamLen, NEW len \in 0 .. SegLen,
             NEW fin \in BOOLEAN, Data(n, from, len, fin)
      PROVE  FInv'
  <2> DEFINE to == from + len
             data == SubSeq(Stream(n), from + 1, to)
             flags == IF fin THEN {"ACK", "FIN"} ELSE {"ACK"}
             seg == [of |-> n, from |-> server[n].at,
                     port |-> LocalPort(PortBase + n - 1),
                     flags |-> flags, seq |-> Plus(server[n].isn, 1 + from),
                     ack |-> Plus(server[n].client, 1 + server[n].got), data |-> data]
  <2>1. /\ UNCHANGED <<state, conn_no, read, pending>>
        /\ incoming' = Append(incoming, seg)
        /\ server[n].st = "open" /\ from = server[n].nxt /\ to <= StreamLen
        /\ server' = [server EXCEPT
              ![n].nxt = IF to > server[n].nxt THEN to ELSE server[n].nxt,
              ![n].fin = server[n].fin \/ fin]
    BY <1>1, <1>3 DEF Data, Orderly, IInv, TypeOK
  <2>2. from \in Nat /\ len \in Nat /\ to \in Nat
    BY Constants
  <2>3. DOMAIN data = 1 .. len /\ \A k \in 1 .. len : data[k] = <<n, from + k>>
    <3>1. data = [k \in 1 .. len |-> <<n, from + k>>]
      BY <2>1, <2>2, StreamPart
    <3> HIDE DEF data
    <3> QED
      BY <3>1
  <2>4. seg.of = n /\ seg.data = data
    OBVIOUS
  <2> HIDE DEF data, seg, flags
  <2>5. server \in [ConnNos -> Server]
    BY DEF IInv, TypeOK
  <2>6. (IF to > server[n].nxt THEN to ELSE server[n].nxt) = server[n].nxt + len
    BY <2>1, <2>2
  <2>7. \A k \in ConnNos :
            /\ server'[k].st = server[k].st
            /\ server'[k].nxt = IF k = n THEN server[n].nxt + len ELSE server[k].nxt
    <3> SUFFICES ASSUME NEW k \in ConnNos
                 PROVE  /\ server'[k].st = server[k].st
                        /\ server'[k].nxt = IF k = n THEN server[n].nxt + len
                                            ELSE server[k].nxt
      OBVIOUS
    <3>1. CASE k = n
      BY <2>1, <2>5, <2>6, <3>1 DEF Server
    <3>2. CASE k # n
      BY <2>1, <2>5, <3>2
    <3> QED
      BY <3>1, <3>2
  <2>8. /\ seg.of = n /\ DOMAIN seg.data = 1 .. len /\ server[n].nxt + len <= StreamLen
        /\ \A k \in 1 .. len : seg.data[k] = <<n, server[n].nxt + k>>
    BY <2>1, <2>3, <2>4
  <2> QED
    <3>1. Sends(n, seg, len)
      BY <2>1, <2>2, <2>7, <2>8 DEF Sends
    <3> QED
      BY <2>1, <2>2, <3>1, SentLast
<1>4. ~\E n \in ConnNos : Reset(n)
  BY DEF Reset, Orderly
<1> QED
  BY <1>2, <1>3, <1>4 DEF ServerStep

\* tcp_recv returns the next bytes of the stream.
LEMMA RecvReturnsNext ==
    ASSUME IInv, RingHolds, OwnBytesOnly, FInv, NEW max_len \in RecvLens, Recv(max_len)
    PROVE  /\ state = "ESTABLISHED" /\ conn_no \in ConnNos /\ read \in Nat
           /\ \E n \in 1 .. Len(pending) :
                  /\ read' = read + n
                  /\ pending' \in Seq(Bytes)
                  /\ Len(pending') = Len(pending) - n
                  /\ \A k \in 1 .. Len(pending) - n : pending'[k] = pending[n + k]
<1>1. /\ TypeOK /\ Len(pending) = Avail /\ pending \in Seq(Bytes) /\ Len(pending) \in Nat
      /\ InRing = pending
  BY InvGivesRing DEF IInv, TypeOK, RingHolds, RingIsRight, RingIsFifo
<1>2. /\ state = "ESTABLISHED" /\ conn_no \in ConnNos /\ read \in Nat
      /\ \A k \in DOMAIN pending : pending[k] = <<conn_no, read + k>>
  <2>1. state = "ESTABLISHED"
    BY DEF Recv
  <2>2. conn_no \in ConnNos
    BY <2>1, Constants DEF IInv, TypeOK, Numbered
  <2> QED
    BY <2>1, <2>2 DEF FInv, ReadInOrder
<1> DEFINE n == IF Avail > max_len THEN max_len ELSE Avail
<1>3. n \in 1 .. Len(pending)
  <2>1. n > 0
    BY DEF Recv
  <2>2. max_len \in Nat
    BY TcpAssumption
  <2> QED
    BY <1>1, <2>1, <2>2
<1>4. /\ pending' = SubSeq(pending, n + 1, Len(pending))
      /\ read' = IF /\ read # Garbled /\ read + n <= StreamLen
                    /\ SubSeq(pending, 1, n) =
                          SubSeq(Stream(conn_no), read + 1, read + n)
                 THEN read + n ELSE Garbled
  BY <1>1 DEF Recv
<1> HIDE DEF n
<1>5. read # Garbled
  BY <1>2 DEF Garbled
<1>6. read + n <= StreamLen
  <2>1. pending[n] \in Bytes /\ pending[n] = <<conn_no, read + n>>
    BY <1>1, <1>2, <1>3
  <2>2. <<conn_no, read + n>> # NoByte
    BY <1>2, Constants DEF NoByte
  <2>3. read + n \in 1 .. StreamLen
    BY <2>1, <2>2 DEF Bytes
  <2> QED
    BY <2>3, Constants
<1>7. SubSeq(pending, 1, n) = SubSeq(Stream(conn_no), read + 1, read + n)
  <2> DEFINE a == SubSeq(pending, 1, n)
             t == Stream(conn_no)
             b == SubSeq(t, read + 1, read + n)
  <2>1. a = [k \in 1 .. n |-> <<conn_no, read + k>>]
    <3>1. a \in Seq(Bytes) /\ Len(a) = n /\ \A k \in 1 .. n : a[k] = pending[k]
      BY <1>1, <1>3
    <3>2. a = [k \in 1 .. n |-> a[k]]
      BY <3>1, <1>3
    <3> HIDE DEF a
    <3>3. \A k \in 1 .. n : a[k] = <<conn_no, read + k>>
      BY <1>2, <1>3, <3>1
    <3> QED
      BY <3>2, <3>3
  <2>2. b = [k \in 1 .. n |-> <<conn_no, read + k>>]
    <3>1. n \in Nat
      BY <1>1, <1>3
    <3> QED
      BY <1>2, <1>6, <3>1, StreamPart
  <2> QED
    BY <2>1, <2>2
<1>8. read' = read + n
  BY <1>4, <1>5, <1>6, <1>7
<1>9. /\ pending' \in Seq(Bytes)
      /\ Len(pending') = Len(pending) - n
      /\ \A k \in 1 .. Len(pending) - n : pending'[k] = pending[n + k]
  <2>1. \A i \in n + 1 .. Len(pending) : pending[i] \in Bytes
    BY <1>1, <1>3
  <2>2. /\ pending' \in Seq(Bytes)
        /\ Len(pending') = IF n + 1 <= Len(pending) THEN Len(pending) - (n + 1) + 1 ELSE 0
        /\ \A i \in 1 .. Len(pending) - (n + 1) + 1 : pending'[i] = pending[(n + 1) + i - 1]
    BY <1>1, <1>3, <1>4, <2>1, SubSeqProperties
  <2> DEFINE len  == Len(pending)
             rest == pending'
  <2>3. len \in Nat /\ n \in Nat /\ n <= len /\ len = Len(pending) /\ rest = pending'
    BY <1>1, <1>3
  <2> HIDE DEF len, rest
  <2>4. (IF n + 1 <= len THEN len - (n + 1) + 1 ELSE 0) = len - n
    BY <2>3
  <2>5. ASSUME NEW i \in 1 .. len - n
        PROVE  i \in 1 .. len - (n + 1) + 1 /\ (n + 1) + i - 1 = n + i
    BY <2>3
  <2>6. rest \in Seq(Bytes) /\ Len(rest) = len - n
    BY <2>2, <2>3, <2>4
  <2>7. \A i \in 1 .. len - (n + 1) + 1 : rest[i] = pending[(n + 1) + i - 1]
    BY <2>2, <2>3
  <2>8. ASSUME NEW i \in 1 .. len - n PROVE rest[i] = pending[n + i]
    BY <2>5, <2>7
  <2> QED
    BY <2>3, <2>6, <2>8
<1> QED
  BY <1>2, <1>3, <1>8, <1>9

LEMMA RecvStream ==
    ASSUME IInv, IInv', RingHolds, OwnBytesOnly, FInv,
           NEW max_len \in RecvLens, Recv(max_len)
    PROVE  FInv'
<1>1. UNCHANGED <<state, conn_no, server, incoming>>
  BY DEF Recv
<1>2. PICK n \in 1 .. Len(pending) :
          /\ read' = read + n
          /\ pending' \in Seq(Bytes)
          /\ Len(pending') = Len(pending) - n
          /\ \A k \in 1 .. Len(pending) - n : pending'[k] = pending[n + k]
  BY RecvReturnsNext
<1>3. state = "ESTABLISHED" /\ conn_no \in ConnNos /\ read \in Nat
  BY RecvReturnsNext
<1>4. /\ Len(pending) \in Nat /\ DOMAIN pending = 1 .. Len(pending)
      /\ DOMAIN pending' = 1 .. Len(pending')
  <2>1. pending \in Seq(Bytes)
    BY DEF IInv, TypeOK
  <2> QED
    BY <1>2, <2>1
<1>5. DOMAIN pending' = 1 .. Len(pending) - n
  BY <1>2, <1>4
<1>6. Received' = Received
  <2>1. Received' = (read + n) + (Len(pending) - n)
    BY <1>2 DEF Received
  <2> QED
    BY <1>3, <1>4, <2>1 DEF Received
<1>7. ReadInOrder'
  <2>1. ASSUME NEW k \in DOMAIN pending'
        PROVE  pending'[k] = <<conn_no, (read + n) + k>>
    <3>1. n + k \in DOMAIN pending /\ read + (n + k) = (read + n) + k
      BY <1>3, <1>4, <1>5
    <3>2. pending[n + k] = <<conn_no, read + (n + k)>>
      BY <1>3, <3>1 DEF FInv, ReadInOrder
    <3> QED
      BY <1>2, <1>5, <3>1, <3>2
  <2>2. read + n \in Nat
    BY <1>3, <1>4
  <2> QED
    BY <1>1, <1>2, <1>3, <2>1, <2>2 DEF ReadInOrder
<1>8. RestUnderWay'
  BY <1>1, <1>3, <1>6 DEF FInv, RestUnderWay
<1> QED
  BY <1>1, <1>7, <1>8 DEF FInv, Unopened, Pieces

LEMMA ConnectStream ==
    ASSUME IInv, IInv', EInv, FInv, NEW s \in Servers, NEW isn \in Isns, Connect(s, isn)
    PROVE  FInv'
<1>1. /\ conn_no' = conn_no + 1 /\ state' = "SYN_SENT" /\ read' = 0 /\ pending' = <<>>
      /\ UNCHANGED incoming
      /\ SynArrives(conn_no + 1, isn, s) \/ Lost
  BY DEF Connect
<1>2. conn_no + 1 \in ConnNos /\ conn_no \in Nat /\ \A n \in ConnNos : n \in Nat
  BY Constants DEF Connect, IInv, TypeOK
<1>3. \A k \in ConnNos :
          /\ server'[k].nxt = server[k].nxt
          /\ server'[k].st = "open" <=> server[k].st = "open"
          /\ server[k].st = "none" /\ k # conn_no + 1 => server'[k].st = "none"
  BY <1>1, <1>2, SynWritesNothing
<1>4. server[conn_no + 1].st = "none" /\ server'[conn_no + 1].nxt = 0
      /\ server'[conn_no + 1].st # "open"
  <2>1. conn_no + 1 > conn_no
    BY <1>2
  <2>2. server[conn_no + 1].st = "none"
    BY <1>2, <2>1 DEF FInv, Unopened
  <2>3. server[conn_no + 1].nxt = 0
    BY <1>2, <2>2 DEF FInv, Unopened
  <2> QED
    BY <1>2, <1>3, <2>2, <2>3
<1>5. Unopened'
  <2>1. \A n \in ConnNos : n > conn_no + 1 => n > conn_no /\ n # conn_no + 1
    BY <1>2
  <2> QED
    BY <1>1, <1>3, <1>4, <2>1 DEF FInv, Unopened
<1>6. ReadInOrder' /\ Pieces'
  BY <1>1 DEF ReadInOrder, FInv, Pieces
<1>7. RestUnderWay'
  <2>1. ASSUME NEW i \in DOMAIN incoming, NEW b \in Positions
        PROVE  ~Brings(incoming[i], conn_no + 1, b)
    <3> SUFFICES ASSUME Brings(incoming[i], conn_no + 1, b)
                 PROVE  FALSE
      OBVIOUS
    <3>1. incoming[i] \in Tagged /\ Truthful(incoming[i], server[incoming[i].of])
      BY IncomingTagged DEF EInv, SegmentsTrue
    <3>2. incoming[i].of = conn_no + 1
      BY <1>2, <3>1, BringsOwn
    <3> QED
      BY <1>4, <3>1, <3>2 DEF Truthful
  <2>2. Received' = 0
    BY <1>1 DEF Received
  <2>3. \A b \in Positions : ~(b <= 0)
    BY Constants DEF Positions
  <2> QED
    BY <1>1, <1>4, <2>1, <2>2, <2>3 DEF RestUnderWay
<1> QED
  BY <1>5, <1>6, <1>7 DEF FInv

\* Calls that leave the queue and the receive buffer alone.
LEMMA CalmStream ==
    ASSUME IInv, IInv', FInv, UNCHANGED <<conn_no, read, pending, incoming>>,
           state' = state \/ state' = "CLOSED",
           \A k \in ConnNos : server'[k].nxt = server[k].nxt,
           \A k \in ConnNos : server[k].st = "open" => server'[k].st = "open",
           \A k \in ConnNos :
              server[k].st = "none" /\ k # conn_no => server'[k].st = "none",
           state' = "SYN_SENT" => server'[conn_no].st # "open"
    PROVE  FInv'
<1>1. incoming \in Seq(Tagged) /\ Len(incoming) \in Nat
  BY DEF IInv
<1>2. PICK d \in {0, 1} : d = 0
  OBVIOUS
<1>3. /\ Len(incoming') = Len(incoming) - d
      /\ \A i \in 1 .. Len(incoming) - d : incoming'[i] = incoming[i + d]
  BY <1>1, <1>2
<1>4. d # 1
  BY <1>2
<1> HIDE <1>2
<1> QED
  BY <1>3, <1>4, Undisturbed

LEMMA StepFInv ==
    ASSUME PortsSuffice, Orderly, IInv, IInv', RingHolds, OwnBytesOnly, EInv, FInv,
           [Next]_vars
    PROVE  FInv'
<1>1. state = "SYN_SENT" => server[conn_no].st # "open"
  BY DEF FInv, Unopened
<1>2. ASSUME Tick \/ ConnectReturns \/ ConnectTimesOut \/ UNCHANGED vars
      PROVE  FInv'
  <2>1. /\ UNCHANGED <<conn_no, read, pending, incoming, server>>
        /\ state' = state \/ state' = "CLOSED"
    BY <1>2 DEF Tick, ConnectReturns, ConnectTimesOut, vars, conn, ghost
  <2> QED
    BY <1>1, <2>1, CalmStream
<1>3. ASSUME ResendSyn
      PROVE  FInv'
  <2>1. /\ UNCHANGED <<state, conn_no, read, pending, incoming>>
        /\ SynArrives(conn_no, seq, remote) \/ Lost
    BY <1>3 DEF ResendSyn, conn, ghost
  <2>2. conn_no \in ConnNos
    BY <1>3, Constants DEF ResendSyn, IInv, TypeOK, Numbered
  <2>3. \A k \in ConnNos :
            /\ server'[k].nxt = server[k].nxt
            /\ server'[k].st = "open" <=> server[k].st = "open"
            /\ server[k].st = "none" /\ k # conn_no => server'[k].st = "none"
    BY <2>1, <2>2, SynWritesNothing
  <2> QED
    BY <1>1, <2>1, <2>2, <2>3, CalmStream
<1>4. ASSUME Close \/ \E len \in 1 .. MaxSent : Send(len)
      PROVE  FInv'
  <2>1. PICK a \in Int, len \in Nat : AckArrives(conn_no, a, len) \/ Lost
    <3>1. /\ ack \in Int /\ 0 \in Nat /\ MaxSent \in Nat
          /\ \A len \in 1 .. MaxSent : len \in Nat
      BY TcpAssumption, Constants DEF IInv, TypeOK
    <3>2. \E len \in Nat : AckArrives(conn_no, ack, len) \/ Lost
      BY <1>4, <3>1 DEF Close, Send
    <3> QED
      BY <3>1, <3>2
  <2>2. /\ UNCHANGED <<conn_no, read, pending, incoming>>
        /\ state # "CLOSED"
        /\ (state' = state /\ state = "ESTABLISHED") \/ state' = "CLOSED"
    BY <1>4 DEF Close, Send
  <2>3. conn_no \in ConnNos
    BY <2>2, Constants DEF IInv, TypeOK, Numbered
  <2>4. \A k \in ConnNos :
            /\ server'[k].nxt = server[k].nxt
            /\ server[k].st = "open" => server'[k].st = "open"
            /\ server[k].st = "none" => server'[k].st = "none"
    BY <2>1, <2>3, AckWritesNothing
  <2> QED
    BY <2>2, <2>4, CalmStream
<1>5. ~Lose
  BY DEF Lose, Orderly
<1> QED
  BY <1>2, <1>3, <1>4, <1>5, ConnectStream, RecvStream, DeliverStream, ServerStream
     DEF Next, ConnectStep

LEMMA InitFInv == Init => FInv
<1> SUFFICES ASSUME Init
             PROVE  FInv
  OBVIOUS
<1>1. incoming = <<>> /\ state = "CLOSED"
  BY DEF Init
<1>2. \A n \in ConnNos : server[n].st = "none" /\ server[n].nxt = 0
  BY DEF Init
<1> QED
  BY <1>1, <1>2 DEF FInv, Unopened, ReadInOrder, Pieces

-----------------------------------------------------------------------------
(* Every step of the client is a step of the byte stream, or none. *)

\* The refinement mapping, as in Socket.
Phase == CASE state = "CLOSED"      -> "closed"
           [] state = "SYN_SENT"    -> "connecting"
           [] state = "ESTABLISHED" -> "open"
Written == IF conn_no = 0 THEN 0 ELSE server[conn_no].nxt

\* The steps of Socket, in terms of it.
LEMMA SocketSteps ==
    /\ Socket!Init <=> Phase = "closed" /\ Written = 0 /\ read = 0
    /\ Phase' = "connecting" /\ Written' = 0 /\ read' = 0 => Socket!Next
    /\ Phase = "connecting" /\ Phase' = "open" /\ Written' = Written /\ read' = read
           => Socket!Next
    /\ Written' \in Written + 1 .. StreamLen /\ Phase' = Phase /\ read' = read
           => Socket!Next
    /\ Phase = "open" /\ read' \in read + 1 .. Written
       /\ Phase' = Phase /\ Written' = Written
           => Socket!Next
    /\ Phase # "closed" /\ Phase' = "closed" /\ Written' = Written /\ read' = read
           => Socket!Next
    /\ Phase' = Phase /\ Written' = Written /\ read' = read => UNCHANGED Socket!vars
<1> QED
  BY DEF Socket!Init, Socket!Next, Socket!Open, Socket!Established, Socket!Write,
         Socket!Read, Socket!Closed, Socket!vars, Phase, Written

LEMMA PhaseOf ==
    ASSUME IInv
    PROVE  /\ Phase = "closed" <=> state = "CLOSED"
           /\ Phase = "connecting" <=> state = "SYN_SENT"
           /\ Phase = "open" <=> state = "ESTABLISHED"
  BY DEF IInv, TypeOK, Phase

\* Steps that write nothing and read nothing at most move the phase on.
LEMMA NothingWritten ==
    ASSUME IInv, IInv', UNCHANGED <<conn_no, read>>,
           \A k \in ConnNos : server'[k].nxt = server[k].nxt,
           \/ state' = state \/ state' = "CLOSED"
           \/ state = "SYN_SENT" /\ state' = "ESTABLISHED"
    PROVE  [Socket!Next]_(Socket!vars)
<1>1. conn_no \in 0 .. MaxConnections
  BY DEF IInv, TypeOK
<1>2. conn_no = 0 \/ conn_no \in ConnNos
  BY <1>1, Constants
<1>3. Written' = Written
  BY <1>2 DEF Written
<1>4. state' = state => Phase' = Phase
  BY DEF Phase
<1>5. /\ Phase' = "closed" <=> state' = "CLOSED"
      /\ Phase' = "open" <=> state' = "ESTABLISHED"
  BY DEF IInv, TypeOK, Phase
<1>6. CASE state' = state
  BY <1>3, <1>4, <1>6, SocketSteps
<1>7. CASE state' = "CLOSED" /\ state # "CLOSED"
  BY <1>3, <1>5, <1>7, PhaseOf, SocketSteps
<1>8. CASE state = "SYN_SENT" /\ state' = "ESTABLISHED"
  BY <1>3, <1>5, <1>8, PhaseOf, SocketSteps
<1> QED
  BY <1>6, <1>7, <1>8

LEMMA StepRefines ==
    ASSUME PortsSuffice, Orderly, IInv, IInv', RingHolds, OwnBytesOnly, EInv, FInv,
           [Next]_vars
    PROVE  [Socket!Next]_(Socket!vars)
<1>1. ASSUME NEW s \in Servers, NEW isn \in Isns, Connect(s, isn)
      PROVE  Socket!Next
  <2>1. /\ conn_no' = conn_no + 1 /\ state' = "SYN_SENT" /\ read' = 0
        /\ SynArrives(conn_no + 1, isn, s) \/ Lost
    BY <1>1 DEF Connect
  <2>2. conn_no + 1 \in ConnNos /\ conn_no + 1 > conn_no /\ conn_no + 1 # 0
    BY <1>1, Constants DEF Connect, IInv, TypeOK
  <2>3. server'[conn_no + 1].nxt = server[conn_no + 1].nxt
    BY <2>1, <2>2, SynWritesNothing
  <2>4. server[conn_no + 1].nxt = 0
    BY <2>2 DEF FInv, Unopened
  <2>5. Written' = 0 /\ Phase' = "connecting"
    BY <2>1, <2>2, <2>3, <2>4 DEF Written, Phase
  <2> QED
    BY <2>1, <2>5, SocketSteps
<1>2. ASSUME Tick \/ ConnectReturns \/ ConnectTimesOut \/ UNCHANGED vars
      PROVE  [Socket!Next]_(Socket!vars)
  <2>1. /\ UNCHANGED <<conn_no, read, server>>
        /\ state' = state \/ state' = "CLOSED"
    BY <1>2 DEF Tick, ConnectReturns, ConnectTimesOut, vars, conn, ghost
  <2> QED
    BY <2>1, NothingWritten
<1>3. ASSUME ResendSyn
      PROVE  [Socket!Next]_(Socket!vars)
  <2>1. /\ UNCHANGED <<state, conn_no, read>>
        /\ SynArrives(conn_no, seq, remote) \/ Lost
    BY <1>3 DEF ResendSyn, conn, ghost
  <2>2. conn_no \in ConnNos
    BY <1>3, Constants DEF ResendSyn, IInv, TypeOK, Numbered
  <2>3. \A k \in ConnNos : server'[k].nxt = server[k].nxt
    BY <2>1, <2>2, SynWritesNothing
  <2> QED
    BY <2>1, <2>3, NothingWritten
<1>4. ASSUME Close \/ \E len \in 1 .. MaxSent : Send(len)
      PROVE  [Socket!Next]_(Socket!vars)
  <2>1. PICK a \in Int, len \in Nat : AckArrives(conn_no, a, len) \/ Lost
    <3>1. /\ ack \in Int /\ 0 \in Nat
          /\ \A len \in 1 .. MaxSent : len \in Nat
      BY TcpAssumption, Constants DEF IInv, TypeOK
    <3>2. \E len \in Nat : AckArrives(conn_no, ack, len) \/ Lost
      BY <1>4, <3>1 DEF Close, Send
    <3> QED
      BY <3>1, <3>2
  <2>2. /\ UNCHANGED <<conn_no, read>> /\ state # "CLOSED"
        /\ state' = state \/ state' = "CLOSED"
    BY <1>4 DEF Close, Send
  <2>3. conn_no \in ConnNos
    BY <2>2, Constants DEF IInv, TypeOK, Numbered
  <2>4. \A k \in ConnNos : server'[k].nxt = server[k].nxt
    BY <2>1, <2>3, AckWritesNothing
  <2> QED
    BY <2>2, <2>4, NothingWritten
<1>5. ASSUME NEW max_len \in RecvLens, Recv(max_len)
      PROVE  Socket!Next
  <2>1. UNCHANGED <<state, conn_no, server>>
    BY <1>5 DEF Recv
  <2>2. state = "ESTABLISHED" /\ conn_no \in ConnNos /\ read \in Nat
    BY <1>5, RecvReturnsNext
  <2>3. PICK n \in 1 .. Len(pending) : read' = read + n
    BY <1>5, RecvReturnsNext
  <2>4. RestUnderWay /\ conn_no # 0 /\ Len(pending) \in Nat
    <3>1. pending \in Seq(Bytes)
      BY DEF IInv, TypeOK
    <3>2. RestUnderWay
      BY <2>2 DEF FInv
    <3> QED
      BY <2>2, <3>1, <3>2, Constants
  <2>5. read + Len(pending) <= server[conn_no].nxt /\ server[conn_no].nxt \in Nat
    BY <2>2, <2>4, ServersTyped DEF RestUnderWay, Received
  <2>6. read + n \in read + 1 .. server[conn_no].nxt
    BY <2>2, <2>4, <2>5
  <2>7. Written = server[conn_no].nxt /\ Written' = Written /\ Phase' = Phase
    BY <2>1, <2>4 DEF Written, Phase
  <2> QED
    BY <2>2, <2>3, <2>6, <2>7, PhaseOf, SocketSteps
<1>6. ASSUME Deliver
      PROVE  [Socket!Next]_(Socket!vars)
  <2>1. PICK i \in DOMAIN incoming : tcp_handle_packet(incoming[i])
    BY <1>6 DEF Deliver
  <2>2. /\ UNCHANGED <<conn_no, read>>
        /\ \/ state' = state \/ state' = "CLOSED"
           \/ state = "SYN_SENT" /\ state' = "ESTABLISHED"
    BY <2>1 DEF tcp_handle_packet, HandleSynSent, HandleReset, HandleData, HandleFin
  <2>3. \/ UNCHANGED server
        \/ state # "CLOSED" /\ \E a : AckArrives(conn_no, a, 0) \/ Lost
    BY <2>1 DEF tcp_handle_packet, HandleSynSent, HandleReset, HandleData, HandleFin
  <2>4. \A k \in ConnNos : server'[k].nxt = server[k].nxt
    <3>1. CASE UNCHANGED server
      BY <3>1
    <3>2. CASE state # "CLOSED" /\ \E a : AckArrives(conn_no, a, 0) \/ Lost
      <4>1. conn_no \in ConnNos /\ 0 \in Nat
        BY <3>2, Constants DEF IInv, TypeOK, Numbered
      <4> QED
        BY <3>2, <4>1, AckWritesNothing
    <3> QED
      BY <2>3, <3>1, <3>2
  <2> QED
    BY <2>2, <2>4, NothingWritten
<1>7. ASSUME ServerStep
      PROVE  [Socket!Next]_(Socket!vars)
  <2>1. \A n, flags, offset, data :
            ServerSends(n, flags, offset, data) => UNCHANGED <<state, conn_no, read>>
    BY DEF ServerSends, conn, ghost
  <2>2. ASSUME NEW n \in ConnNos, SynAck(n) \/ Reset(n)
        PROVE  [Socket!Next]_(Socket!vars)
    <3>1. UNCHANGED <<state, conn_no, read, server>>
      BY <2>1, <2>2 DEF SynAck, Reset
    <3> QED
      BY <3>1, NothingWritten
  <2>3. ASSUME NEW n \in ConnNos, NEW from \in 0 .. StreamLen, NEW len \in 0 .. SegLen,
               NEW fin \in BOOLEAN, Data(n, from, len, fin)
        PROVE  [Socket!Next]_(Socket!vars)
    <3> DEFINE to == from + len
               top == IF to > server[n].nxt THEN to ELSE server[n].nxt
    <3>1. /\ UNCHANGED <<state, conn_no, read>> /\ to <= StreamLen
          /\ server' = [server EXCEPT ![n].nxt = top, ![n].fin = server[n].fin \/ fin]
      BY <2>1, <2>3 DEF Data, IInv, TypeOK
    <3>2. /\ server \in [ConnNos -> Server] /\ to \in Nat
          /\ server[n].nxt \in Nat
      <4>1. server \in [ConnNos -> Server] /\ server[n].nxt \in Nat
        BY ServersTyped DEF IInv, TypeOK
      <4> QED
        BY <4>1, Constants
    <3>3. top \in Nat /\ (top = server[n].nxt \/ top \in server[n].nxt + 1 .. StreamLen)
      BY <3>1, <3>2, Constants
    <3> HIDE DEF top, to
    <3>4. server'[n].nxt = top /\ \A k \in ConnNos : k # n => server'[k] = server[k]
      BY <3>1, <3>2 DEF Server
    <3>5. CASE n = conn_no /\ top \in server[n].nxt + 1 .. StreamLen
      <4>1. conn_no # 0
        BY <3>5, Constants
      <4>2. Written = server[n].nxt /\ Written' = top /\ Phase' = Phase
        BY <3>1, <3>4, <3>5, <4>1 DEF Written, Phase
      <4> QED
        BY <3>1, <3>5, <4>2, SocketSteps
    <3>6. CASE n # conn_no \/ top = server[n].nxt
      <4>1. CASE conn_no = 0
        BY <3>1, <4>1, SocketSteps DEF Written, Phase
      <4>2. CASE conn_no # 0
        <5>1. conn_no \in ConnNos
          BY <4>2, Constants DEF IInv, TypeOK
        <5>2. server'[conn_no].nxt = server[conn_no].nxt
          BY <3>4, <3>6, <5>1
        <5> QED
          BY <3>1, <5>2, SocketSteps DEF Written, Phase
      <4> QED
        BY <4>1, <4>2
    <3> QED
      BY <3>3, <3>5, <3>6
  <2> QED
    BY <1>7, <2>2, <2>3 DEF ServerStep
<1>8. ~Lose
  BY DEF Lose, Orderly
<1> QED
  BY <1>1, <1>2, <1>3, <1>4, <1>5, <1>6, <1>7, <1>8 DEF Next, ConnectStep

\* Over a network that neither loses, repeats nor reorders, with room in the
\* ring for the whole stream and while no port comes round again, the client
\* is a byte stream: tcp_recv returns the server's bytes, each once, in order
\* and none that has not been written, however the stream is cut into segments
\* and calls.  Of a longer stream tcp_handle_packet may drop bytes that it
\* acknowledges (tcp.c:232), and nothing is said.
THEOREM ClientIsByteStream ==
    PortsSuffice /\ Orderly => (Spec => ImplementsByteStream)
<1> SUFFICES ASSUME PortsSuffice, Orderly
             PROVE  Spec => ImplementsByteStream
  OBVIOUS
<1> DEFINE AllInv == IInv /\ RingHolds /\ OwnBytesOnly /\ EInv /\ FInv
<1>1. Init => AllInv
  <2> SUFFICES ASSUME Init
               PROVE  AllInv
    OBVIOUS
  <2>1. pending = <<>>
    BY DEF Init
  <2> QED
    BY <2>1, InitIInv, InitRing, InitEInv, InitFInv DEF OwnBytesOnly
<1>2. AllInv /\ [Next]_vars => AllInv'
  <2> SUFFICES ASSUME AllInv, [Next]_vars
               PROVE  AllInv'
    OBVIOUS
  <2>1. IInv'
    BY StepIInv
  <2> QED
    BY <2>1, RingKept, OwnKept, StepEInv, StepFInv
<1>3. Init => Socket!Init
  <2> SUFFICES ASSUME Init
               PROVE  Socket!Init
    OBVIOUS
  <2>1. Phase = "closed" /\ Written = 0 /\ read = 0
    BY DEF Init, Phase, Written
  <2> QED
    BY <2>1, SocketSteps
<1>4. AllInv /\ AllInv' /\ [Next]_vars => [Socket!Next]_(Socket!vars)
  BY StepRefines
<1> HIDE DEF AllInv
<1> QED
  BY <1>1, <1>2, <1>3, <1>4, PTL DEF Spec, ImplementsByteStream, Socket!Spec
=============================================================================
