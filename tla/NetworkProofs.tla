--------------------------- MODULE NetworkProofs ---------------------------
(***************************************************************************)
(* What TLAPS proves of Ping's ARP cache, for every number of hosts and    *)
(* every size of the cache: no address is in it twice, what it says of a   *)
(* host is what that host said last, and when an entry has to go it is the *)
(* one that came in first; and what the ping command gets to hear when     *)
(* nothing is late.  Then the ring of the network card, the search of the  *)
(* PCI bus, the checksums, the readers of typed addresses and those of     *)
(* HTTP responses, which share no state with the cache.                    *)
(***************************************************************************)
EXTENDS Ping, Ne2000, Pci, InetChecksum, AddressText, HttpClient, Recursion,
        Integers, FiniteSetTheorems, FunctionTheorems, SequenceTheorems, TLAPS

FromHosts == {"arp_request", "arp_for_other", "arp_reply", "echo"}

\* What the cache's invariants need of the rest: the frames on their way
\* to the card that are answered or remembered speak of hosts and MACs.
FramesTyped ==
    /\ \A f \in in : f.kind \in FromHosts => f.host \in Hosts /\ f.mac \in Macs
    /\ \A f \in out : f.kind = "arp_request" => f.host \in Hosts
    /\ mac \in [Hosts -> Macs] /\ target \in Hosts

CacheTyped ==
    /\ arp_cache \in [Slots -> Entries] /\ next_arp_idx \in Slots
    /\ heard \in [Hosts -> Macs \union {"none"}]

IInv == FramesTyped /\ CacheTyped /\ NoAddressTwice /\ CacheIsLastHeard

-----------------------------------------------------------------------------
(* Entries and the index of the cache. *)

LEMMA EntryFacts ==
    ASSUME NEW e \in Entries
    PROVE  /\ e.valid \in BOOLEAN
           /\ e.valid => e.ip \in Hosts /\ e.mac \in Macs /\ e = Entry(e.ip, e.mac)
<1>1. CASE e = Invalid
  <2>1. e.valid = FALSE
    BY <1>1 DEF Invalid
  <2> QED
    BY <2>1
<1>2. CASE e # Invalid
  <2>1. PICK h \in Hosts, m \in Macs : e = Entry(h, m)
    BY <1>2 DEF Entries
  <2>2. e.valid = TRUE /\ e.ip = h /\ e.mac = m
    BY <2>1 DEF Entry
  <2> QED
    BY <2>1, <2>2
<1> QED
  BY <1>1, <1>2

LEMMA EntryFields ==
    ASSUME NEW h \in Hosts, NEW m \in Macs
    PROVE  /\ Entry(h, m) \in Entries /\ Entry(h, m).valid
           /\ Entry(h, m).ip = h /\ Entry(h, m).mac = m
<1>1. Entry(h, m) \in Entries
  BY DEF Entries
<1>2. Entry(h, m).valid = TRUE /\ Entry(h, m).ip = h /\ Entry(h, m).mac = m
  BY DEF Entry
<1> QED
  BY <1>1, <1>2

LEMMA NextIndex ==
    ASSUME NEW i \in Slots
    PROVE  (i + 1) % ARP_CACHE_SIZE \in Slots
  BY PingAssumption DEF Slots

(* The slot a lookup finds is one that holds the host. *)
LEMMA FirstSlot ==
    ASSUME NEW h, SlotOf(h) # {}, NoAddressTwice
    PROVE  LET s == CHOOSE s \in SlotOf(h) : \A t \in SlotOf(h) : s <= t
           IN  s \in SlotOf(h)
<1>1. PICK s \in SlotOf(h) : TRUE
  OBVIOUS
<1>2. \A t \in SlotOf(h) : t = s
  BY <1>1 DEF SlotOf, NoAddressTwice
<1>3. s <= s
  BY <1>1 DEF SlotOf, Slots
<1>4. \E r \in SlotOf(h) : \A t \in SlotOf(h) : r <= t
  BY <1>1, <1>2, <1>3
<1> QED
  BY <1>4

(* Hearing of a host keeps the cache as it should be. *)
LEMMA UpdateKeepsCache ==
    ASSUME NEW h \in Hosts, NEW m \in Macs, CacheTyped, NoAddressTwice,
           CacheIsLastHeard, arp_update_cache(h, m)
    PROVE  CacheTyped' /\ NoAddressTwice' /\ CacheIsLastHeard'
<1>1. heard' = [heard EXCEPT ![h] = m] /\ heard' \in [Hosts -> Macs \union {"none"}]
  BY DEF arp_update_cache, CacheTyped
<1>2. \A s \in Slots : arp_cache[s] \in Entries
  BY DEF CacheTyped
<1>3. CASE SlotOf(h) # {}
  <2> DEFINE s == CHOOSE s \in SlotOf(h) : \A t \in SlotOf(h) : s <= t
  <2>1. s \in SlotOf(h)
    BY <1>3, FirstSlot
  <2> HIDE DEF s
  <2>2. s \in Slots /\ arp_cache[s].valid /\ arp_cache[s].ip = h
    BY <2>1 DEF SlotOf
  <2>3. arp_cache' = [arp_cache EXCEPT ![s].mac = m] /\ next_arp_idx' = next_arp_idx
    BY <1>3 DEF arp_update_cache, s
  <2>4. arp_cache[s] = Entry(h, arp_cache[s].mac)
    BY <1>2, <2>2, EntryFacts
  <2>5. arp_cache'[s] = Entry(h, m)
    BY <2>2, <2>3, <2>4 DEF Entry, CacheTyped
  <2>6. \A t \in Slots : t # s => arp_cache'[t] = arp_cache[t]
    BY <2>3 DEF CacheTyped
  <2>7. CacheTyped'
    <3>1. \A t \in Slots : arp_cache'[t] \in Entries
      BY <1>2, <2>5, <2>6, EntryFields
    <3>2. arp_cache' = [t \in Slots |-> arp_cache'[t]]
      BY <2>3 DEF CacheTyped
    <3> QED
      BY <1>1, <2>3, <3>1, <3>2 DEF CacheTyped
  <2>8. NoAddressTwice'
    BY <2>2, <2>5, <2>6, EntryFields DEF NoAddressTwice
  <2>9. CacheIsLastHeard'
    <3> SUFFICES ASSUME NEW t \in Slots, arp_cache'[t].valid
                 PROVE  arp_cache'[t].mac = heard'[arp_cache'[t].ip]
      BY DEF CacheIsLastHeard
    <3>1. CASE t = s
      BY <1>1, <2>5, <3>1, EntryFields DEF CacheTyped
    <3>2. CASE t # s
      <4>1. arp_cache[t].valid /\ arp_cache[t].ip # h
        BY <2>2, <2>6, <3>2 DEF NoAddressTwice
      <4>2. arp_cache[t].ip \in Hosts
        BY <1>2, <4>1, EntryFacts
      <4>3. heard'[arp_cache[t].ip] = heard[arp_cache[t].ip]
        BY <1>1, <4>1, <4>2 DEF CacheTyped
      <4> QED
        BY <2>6, <3>2, <4>1, <4>3 DEF CacheIsLastHeard
    <3> QED
      BY <3>1, <3>2
  <2> QED
    BY <2>7, <2>8, <2>9
<1>4. CASE SlotOf(h) = {}
  <2>1. /\ arp_cache' = [arp_cache EXCEPT ![next_arp_idx] = Entry(h, m)]
        /\ next_arp_idx' = (next_arp_idx + 1) % ARP_CACHE_SIZE
    BY <1>4 DEF arp_update_cache
  <2>2. next_arp_idx \in Slots /\ arp_cache'[next_arp_idx] = Entry(h, m)
    BY <2>1 DEF CacheTyped
  <2>3. \A t \in Slots : t # next_arp_idx => arp_cache'[t] = arp_cache[t]
    BY <2>1 DEF CacheTyped
  <2>4. \A t \in Slots : arp_cache[t].valid => arp_cache[t].ip # h
    BY <1>4 DEF SlotOf
  <2>5. CacheTyped'
    BY <1>1, <2>1, <2>2, EntryFields, NextIndex DEF CacheTyped
  <2>6. NoAddressTwice'
    BY <2>2, <2>3, <2>4, EntryFields DEF NoAddressTwice
  <2>7. CacheIsLastHeard'
    <3> SUFFICES ASSUME NEW t \in Slots, arp_cache'[t].valid
                 PROVE  arp_cache'[t].mac = heard'[arp_cache'[t].ip]
      BY DEF CacheIsLastHeard
    <3>1. CASE t = next_arp_idx
      BY <1>1, <2>2, <3>1, EntryFields DEF CacheTyped
    <3>2. CASE t # next_arp_idx
      <4>1. arp_cache'[t] = arp_cache[t] /\ arp_cache[t].valid /\ arp_cache[t].ip # h
        BY <2>3, <2>4, <3>2
      <4>2. arp_cache[t].ip \in Hosts
        BY <1>2, <4>1, EntryFacts
      <4>3. heard'[arp_cache[t].ip] = heard[arp_cache[t].ip]
        BY <1>1, <4>1, <4>2 DEF CacheTyped
      <4> QED
        BY <4>1, <4>3 DEF CacheIsLastHeard
    <3> QED
      BY <3>1, <3>2
  <2> QED
    BY <2>5, <2>6, <2>7
<1> QED
  BY <1>3, <1>4

-----------------------------------------------------------------------------
(* The frames that are put on the wire. *)

LEMMA SentFrames ==
    ASSUME CacheTyped, NoAddressTwice, NEW h \in Hosts, NEW n, NEW f,
           \/ f \in EchoRequest(h, n)
           \/ f \in ip_send(h, [m \in Macs |-> EchoReply(h, m, 0)])
    PROVE  f.kind = "arp_request" => f.host \in Hosts
<1>1. \A s \in SlotOf(h) : arp_cache[s].mac \in Macs
  <2> SUFFICES ASSUME NEW s \in SlotOf(h)
               PROVE  arp_cache[s].mac \in Macs
    OBVIOUS
  <2>1. arp_cache[s] \in Entries /\ arp_cache[s].valid
    BY DEF SlotOf, CacheTyped
  <2> QED
    BY <2>1, EntryFacts
<1>2. CASE SlotOf(h) = {}
  BY <1>2 DEF EchoRequest, ip_send, ArpRequest
<1>3. CASE SlotOf(h) # {}
  <2> DEFINE s == CHOOSE s \in SlotOf(h) : \A t \in SlotOf(h) : s <= t
  <2>1. s \in SlotOf(h)
    BY <1>3, FirstSlot
  <2>2. f.kind \in {"echo", "echo_reply"}
    <3>1. f = Echo(h, arp_cache[s].mac, n) \/ f = EchoReply(h, arp_cache[s].mac, 0)
      BY <1>1, <1>3, <2>1 DEF EchoRequest, ip_send
    <3> QED
      BY <3>1 DEF Echo, EchoReply
  <2> QED
    BY <2>2
<1> QED
  BY <1>2, <1>3

LEMMA PolledFrame ==
    ASSUME IInv, NEW f \in in, in' = in \ {f}, mac' = mac, target' = target,
           HandleArp(f) \/ HandleEcho(f) \/ HandleEchoReply(f)
    PROVE  IInv'
<1>1. CASE HandleArp(f)
  <2>1. f.host \in Hosts /\ f.mac \in Macs /\ arp_update_cache(f.host, f.mac)
    BY <1>1 DEF HandleArp, IInv, FramesTyped, FromHosts
  <2>2. CacheTyped' /\ NoAddressTwice' /\ CacheIsLastHeard'
    BY <2>1, UpdateKeepsCache DEF IInv
  <2>3. \A g \in out' : g.kind = "arp_request" => g.host \in Hosts
    BY <1>1 DEF HandleArp, Arp, IInv, FramesTyped
  <2> QED
    BY <2>2, <2>3 DEF IInv, FramesTyped
<1>2. CASE HandleEcho(f)
  <2>1. UNCHANGED cacheVars
    BY <1>2 DEF HandleEcho
  <2>2. CacheTyped' /\ NoAddressTwice' /\ CacheIsLastHeard'
    BY <2>1 DEF IInv, CacheTyped, NoAddressTwice, CacheIsLastHeard, cacheVars
  <2>3. f.host \in Hosts
    BY <1>2 DEF HandleEcho, IInv, FramesTyped, FromHosts
  <2>4. \A g \in out' : g \in out \/ (g.kind = "arp_request" => g.host \in Hosts)
    BY <1>2, <2>3, SentFrames DEF HandleEcho, IInv
  <2> QED
    BY <2>2, <2>4, <1>2 DEF IInv, FramesTyped, HandleEcho
<1>3. CASE HandleEchoReply(f)
  BY <1>3 DEF HandleEchoReply, IInv, FramesTyped, CacheTyped, NoAddressTwice,
              CacheIsLastHeard, cacheVars
<1> QED
  BY <1>1, <1>2, <1>3

-----------------------------------------------------------------------------
LEMMA InitIInv == Init => IInv
  BY PingAssumption, EntryFacts
     DEF Init, IInv, FramesTyped, CacheTyped, NoAddressTwice, CacheIsLastHeard,
         Slots, Entries, Invalid

(* A step that leaves the cache alone and sends nothing badly typed. *)
LEMMA CacheUntouched ==
    ASSUME IInv, UNCHANGED cacheVars, FramesTyped'
    PROVE  IInv'
  BY DEF IInv, CacheTyped, NoAddressTwice, CacheIsLastHeard, cacheVars

LEMMA StepIInv == IInv /\ [Next]_vars => IInv'
<1> SUFFICES ASSUME IInv, [Next]_vars PROVE IInv'
  OBVIOUS
<1>1. ASSUME NEW f \in in, Poll(f) \/ IdlePoll(f) PROVE IInv'
  BY <1>1, PolledFrame DEF Poll, IdlePoll, pingVars
<1>2. ASSUME NEW h \in Hosts, PingStarts(h) PROVE IInv'
  <2>1. \A g \in out' : g.kind = "arp_request" => g.host \in Hosts
    BY <1>2, SentFrames DEF PingStarts, IInv, FramesTyped
  <2> QED
    BY <1>2, <2>1, CacheUntouched DEF PingStarts, IInv, FramesTyped
<1>3. ASSUME NEW h \in Hosts, HostSends(h) PROVE IInv'
  <2>1. PICK kind \in {"arp_request", "arp_for_other", "echo"} :
          in' = in \union {IF kind = "echo" THEN Echo(h, mac[h], 0)
                          ELSE Arp(kind, h, mac[h])}
    BY <1>3 DEF HostSends
  <2>2. \A g \in in' : g.kind \in FromHosts => g.host \in Hosts /\ g.mac \in Macs
    BY <2>1 DEF IInv, FramesTyped, Echo, Arp, FromHosts
  <2> QED
    BY <1>3, <2>2, CacheUntouched DEF HostSends, IInv, FramesTyped, pingVars
<1>4. CASE GotReply
  BY <1>4, CacheUntouched DEF GotReply, IInv, FramesTyped
<1>5. CASE Retry
  <2>1. \A g \in out' : g.kind = "arp_request" => g.host \in Hosts
    BY <1>5, SentFrames DEF Retry, IInv, FramesTyped
  <2> QED
    BY <1>5, <2>1, CacheUntouched DEF Retry, IInv, FramesTyped
<1>6. CASE TimedOut
  BY <1>6, CacheUntouched DEF TimedOut, IInv, FramesTyped
<1>7. CASE Tick
  BY <1>7, CacheUntouched DEF Tick, IInv, FramesTyped
<1>8. CASE Lose
  BY <1>8, CacheUntouched DEF Lose, IInv, FramesTyped, pingVars
<1>9. ASSUME NEW f \in out, HostAnswers(f) PROVE IInv'
  <2>1. \A g \in in' :
           g \in in \/ (g.kind \in FromHosts => g.host \in Hosts /\ g.mac \in Macs)
    <3> DEFINE answer ==
                 CASE f.kind = "arp_request" -> {Arp("arp_reply", f.host, mac[f.host])}
                   [] f.kind = "echo" -> IF mac[f.host] = f.mac
                                         THEN {EchoReply(f.host, f.mac, f.ping)} ELSE {}
                   [] OTHER -> {}
    <3>1. in' = in \union answer
      BY <1>9 DEF HostAnswers
    <3>2. ASSUME f.kind = "arp_request", NEW g \in answer
          PROVE  g.kind \in FromHosts => g.host \in Hosts /\ g.mac \in Macs
      BY <3>2 DEF Arp, IInv, FramesTyped
    <3>3. ASSUME f.kind = "echo", NEW g \in answer PROVE g.kind \notin FromHosts
      BY <3>3 DEF EchoReply, FromHosts
    <3>4. ASSUME f.kind # "echo", f.kind # "arp_request" PROVE answer = {}
      BY <3>4
    <3> QED
      BY <3>1, <3>2, <3>3, <3>4
  <2>2. FramesTyped'
    BY <1>9, <2>1 DEF HostAnswers, IInv, FramesTyped, pingVars
  <2> QED
    BY <1>9, <2>2, CacheUntouched DEF HostAnswers
<1>10. ASSUME NEW h \in Hosts, NEW m \in Macs, HostChangesMac(h, m) PROVE IInv'
  BY <1>10, CacheUntouched DEF HostChangesMac, IInv, FramesTyped, pingVars
<1>11. CASE UNCHANGED vars
  BY <1>11, CacheUntouched DEF IInv, FramesTyped, vars, pingVars
<1> QED
  BY <1>1, <1>2, <1>3, <1>4, <1>5, <1>6, <1>7, <1>8, <1>9, <1>10, <1>11 DEF Next

THEOREM CacheInvariant == Spec => []IInv
  BY InitIInv, StepIInv, PTL DEF Spec

(* No address is in the cache twice, whatever frames arrive in whatever order
   and however often the cache has gone round (arp.c:35). *)
THEOREM AddressesDiffer == Spec => []NoAddressTwice
<1>1. IInv => NoAddressTwice
  BY DEF IInv
<1> QED
  BY <1>1, CacheInvariant, PTL

(* What the cache says of a host is what the host said last. *)
THEOREM CacheIsCurrent == Spec => []CacheIsLastHeard
<1>1. IInv => CacheIsLastHeard
  BY DEF IInv
<1> QED
  BY <1>1, CacheInvariant, PTL

(* A lookup in the cache gives the one MAC the host was last heard with. *)
THEOREM CacheCorrect == Spec => []CacheIsRight
  BY AddressesDiffer, CacheIsCurrent, PTL DEF CacheIsRight

-----------------------------------------------------------------------------
(* The order in which the entries are evicted. *)

\* Whether every slot is taken, how many are, and which place in the order the
\* index gives to a slot.
Full == \A t \in Slots : arp_cache[t].valid
Taken == IF Full THEN ARP_CACHE_SIZE ELSE next_arp_idx
Turn(s) == IF Full /\ s < next_arp_idx THEN s - next_arp_idx + ARP_CACHE_SIZE
           ELSE IF Full THEN s - next_arp_idx ELSE s

\* The inductive invariant: the cache is filled from its first slot on, each
\* entry has the place in the order that the index gives it, and what has a
\* place is in the cache.
OrderInv ==
    /\ entered \in [Hosts -> Nat]
    /\ \A s \in Slots : arp_cache[s].valid <=> s < Taken
    /\ \A s \in Slots : s < Taken => entered[arp_cache[s].ip] = Turn(s) + 1
    /\ \A h \in Hosts : entered[h] # 0 => SlotOf(h) # {}

LEMMA SlotFacts ==
    /\ ARP_CACHE_SIZE \in Nat /\ ARP_CACHE_SIZE > 0
    /\ \A s : s \in Slots <=> s \in Nat /\ s < ARP_CACHE_SIZE
  BY PingAssumption DEF Slots

\* A remainder after less than two rounds.
LEMMA SmallRemainder ==
    ASSUME NEW m \in Nat, m > 0, NEW a \in Nat, a < 2 * m
    PROVE  a % m = IF a < m THEN a ELSE a - m
  OBVIOUS

\* The slots have the places from 0 to Taken - 1.
LEMMA TurnIs ==
    ASSUME next_arp_idx \in Slots
    PROVE  /\ Taken \in Nat /\ Taken <= ARP_CACHE_SIZE
           /\ \A s \in Slots : s < Taken => Turn(s) \in Nat /\ Turn(s) < Taken
           /\ \A s, t \in Slots : s < Taken /\ t < Taken /\ Turn(s) = Turn(t) => s = t
           /\ \A n \in Nat : n < Taken => \E s \in Slots : s < Taken /\ Turn(s) = n
<1> DEFINE size == ARP_CACHE_SIZE
           next == next_arp_idx
<1>1. size \in Nat /\ next \in Nat /\ next < size
  BY SlotFacts
<1>2. Taken = IF Full THEN size ELSE next
  BY DEF Taken
<1>3. ASSUME NEW s \in Slots
      PROVE  /\ s \in Nat /\ s < size
             /\ Turn(s) = IF Full /\ s < next THEN s - next + size
                          ELSE IF Full THEN s - next ELSE s
  BY SlotFacts DEF Turn
<1> HIDE DEF size, next
<1>4. ASSUME NEW s \in Slots, s < Taken
      PROVE  Turn(s) \in Nat /\ Turn(s) < Taken
  BY <1>1, <1>2, <1>3, <1>4
<1>5. ASSUME NEW s \in Slots, NEW t \in Slots, s < Taken, t < Taken, Turn(s) = Turn(t)
      PROVE  s = t
  BY <1>1, <1>2, <1>3, <1>5
<1>6. ASSUME NEW n \in Nat, n < Taken
      PROVE  \E s \in Slots : s < Taken /\ Turn(s) = n
  <2> DEFINE s == IF ~Full THEN n
                  ELSE IF n + next < size THEN n + next ELSE n + next - size
  <2>1. s \in Nat /\ s < size /\ s < Taken
    BY <1>1, <1>2, <1>6
  <2>2. s \in Slots
    BY <2>1, SlotFacts DEF size
  <2>3. Turn(s) = n
    <3>1. CASE Full
      BY <1>1, <1>2, <1>3, <1>6, <2>2, <3>1
    <3>2. CASE ~Full
      BY <1>3, <2>2, <3>2
    <3> QED BY <3>1, <3>2
  <2> HIDE DEF s
  <2> QED BY <2>1, <2>2, <2>3
<1>7. Taken \in Nat /\ Taken <= size
  BY <1>1, <1>2
<1> QED BY <1>4, <1>5, <1>6, <1>7 DEF size

\* As many hosts have a place as there are entries.
LEMMA PlacesCounted ==
    ASSUME CacheTyped, NoAddressTwice, OrderInv
    PROVE  Cardinality({x \in Hosts : entered[x] # 0}) = Taken
<1> DEFINE S == {x \in Hosts : entered[x] # 0}
           f == [i \in 1 .. Taken |-> CHOOSE x \in Hosts : entered[x] = i]
<1>1. next_arp_idx \in Slots /\ Taken \in Nat
  BY TurnIs DEF CacheTyped
<1>2. ASSUME NEW s \in Slots, s < Taken
      PROVE  arp_cache[s].valid /\ arp_cache[s].ip \in Hosts
  BY <1>2, EntryFacts DEF CacheTyped, OrderInv
<1>3. ASSUME NEW i \in 1 .. Taken
      PROVE  f[i] \in S /\ entered[f[i]] = i
  <2>1. i - 1 \in Nat /\ i - 1 < Taken /\ (i - 1) + 1 = i
    BY <1>1
  <2>2. PICK s \in Slots : s < Taken /\ Turn(s) = i - 1
    BY <1>1, <2>1, TurnIs
  <2>3. entered[arp_cache[s].ip] = i /\ arp_cache[s].ip \in Hosts
    BY <1>2, <2>1, <2>2 DEF OrderInv
  <2>4. f[i] \in Hosts /\ entered[f[i]] = i
    BY <2>3
  <2>5. i # 0
    BY <1>1
  <2> QED BY <2>4, <2>5
<1>4. ASSUME NEW x \in S
      PROVE  \E i \in 1 .. Taken : f[i] = x
  <2>1. PICK s \in Slots : arp_cache[s].valid /\ arp_cache[s].ip = x
    BY DEF OrderInv, SlotOf
  <2>2. s < Taken /\ entered[x] = Turn(s) + 1
    BY <2>1 DEF OrderInv
  <2>3. entered[x] \in 1 .. Taken
    BY <1>1, <2>2, TurnIs
  <2> DEFINE i == entered[x]
             y == f[i]
  <2>4. y \in S /\ entered[y] = i
    BY <1>3, <2>3
  <2> HIDE DEF f
  <2>5. PICK t \in Slots : arp_cache[t].valid /\ arp_cache[t].ip = y
    BY <2>4 DEF OrderInv, SlotOf
  <2>6. t < Taken /\ entered[y] = Turn(t) + 1
    BY <2>5 DEF OrderInv
  <2>7. Turn(s) \in Nat /\ Turn(t) \in Nat
    BY <1>1, <2>2, <2>6, TurnIs
  <2>8. Turn(s) = Turn(t)
    BY <2>2, <2>4, <2>6, <2>7
  <2>9. s = t
    BY <1>1, <2>2, <2>6, <2>8, TurnIs
  <2> QED BY <2>1, <2>3, <2>5, <2>9
<1> HIDE DEF f
<1>5. f \in [1 .. Taken -> S]
  <2>1. f = [i \in 1 .. Taken |-> f[i]]
    BY DEF f
  <2> QED BY <1>3, <2>1
<1>6. f \in Bijection(1 .. Taken, S)
  <2>1. \A i, j \in 1 .. Taken : f[i] = f[j] => i = j
    BY <1>3
  <2> HIDE DEF S
  <2> QED BY <1>4, <1>5, <2>1, Fun_IsBij
<1>7. IsFiniteSet(1 .. Taken) /\ Cardinality(1 .. Taken) = Taken
  <2>1. 1 \in Int /\ Taken \in Int
    BY <1>1
  <2>2. Cardinality(1 .. Taken) = IF 1 > Taken THEN 0 ELSE Taken - 1 + 1
    BY <2>1, FS_Interval
  <2> QED BY <1>1, <2>1, <2>2, FS_Interval
<1> QED BY <1>6, <1>7, FS_Bijection DEF ExistsBijection

\* What comes in takes the last place; if the cache was full the first goes.
LEMMA UpdateKeepsOrder ==
    ASSUME NEW h \in Hosts, NEW m \in Macs, CacheTyped, NoAddressTwice, OrderInv,
           arp_update_cache(h, m)
    PROVE  OrderInv'
<1>1. \A s \in Slots : arp_cache[s] \in Entries /\ arp_cache[s].valid \in BOOLEAN
  BY EntryFacts DEF CacheTyped
<1>2. CASE SlotOf(h) # {}
  <2> DEFINE s == CHOOSE s \in SlotOf(h) : \A t \in SlotOf(h) : s <= t
  <2>1. /\ arp_cache' = [arp_cache EXCEPT ![s].mac = m]
        /\ UNCHANGED <<next_arp_idx, entered>>
    BY <1>2 DEF arp_update_cache
  <2> HIDE DEF s
  <2>2. ASSUME NEW t \in Slots
        PROVE  /\ arp_cache'[t].valid = arp_cache[t].valid
               /\ arp_cache[t].valid => arp_cache'[t].ip = arp_cache[t].ip
    <3>1. CASE arp_cache[t].valid
      <4>1. arp_cache[t] = Entry(arp_cache[t].ip, arp_cache[t].mac)
        BY <1>1, <3>1, EntryFacts
      <4>2. arp_cache'[t] = IF t = s THEN [arp_cache[t] EXCEPT !.mac = m] ELSE arp_cache[t]
        BY <2>1 DEF CacheTyped
      <4> QED BY <4>1, <4>2 DEF Entry
    <3>2. CASE ~arp_cache[t].valid
      <4>1. s \in SlotOf(h)
        BY <1>2, FirstSlot DEF s
      <4>2. t # s
        BY <3>2, <4>1 DEF SlotOf
      <4> QED BY <2>1, <3>2, <4>2 DEF CacheTyped
    <3> QED BY <3>1, <3>2
  <2>3. Full' <=> Full
    BY <2>2 DEF Full
  <2>4. Taken' = Taken /\ \A t \in Slots : Turn(t)' = Turn(t)
    BY <2>1, <2>3 DEF Taken, Turn
  <2>5. \A x \in Hosts : SlotOf(x)' = SlotOf(x)
    BY <2>2 DEF SlotOf
  <2> QED BY <2>1, <2>2, <2>4, <2>5 DEF OrderInv
<1>3. CASE SlotOf(h) = {}
  <2> DEFINE size == ARP_CACHE_SIZE
             next == next_arp_idx
  <2>1. /\ arp_cache' = [arp_cache EXCEPT ![next] = Entry(h, m)]
        /\ next_arp_idx' = (next + 1) % size
        /\ entered' = EnteredAfter(h)
    BY <1>3 DEF arp_update_cache
  <2>2. size \in Nat /\ next \in Nat /\ next < size /\ next \in Slots
    BY SlotFacts DEF CacheTyped
  <2>3. next_arp_idx' = IF next + 1 = size THEN 0 ELSE next + 1
    <3>1. size > 0 /\ next + 1 \in Nat /\ next + 1 < 2 * size
      BY <2>2
    <3>2. (next + 1) % size = IF next + 1 < size THEN next + 1 ELSE next + 1 - size
      BY <2>2, <3>1, SmallRemainder
    <3> QED BY <2>1, <2>2, <3>2
  <2>4. entered' = [x \in Hosts |->
                       IF x = h THEN Taken + 1 - (IF Taken = size THEN 1 ELSE 0)
                       ELSE IF entered[x] = 0 THEN 0
                       ELSE entered[x] - (IF Taken = size THEN 1 ELSE 0)]
    BY <2>1, PlacesCounted DEF EnteredAfter
  <2>5. Taken = IF Full THEN size ELSE next
    BY DEF Taken
  <2>6. /\ arp_cache'[next].valid /\ arp_cache'[next].ip = h
        /\ \A s \in Slots : s # next => arp_cache'[s] = arp_cache[s]
    BY <2>1, <2>2, EntryFields DEF CacheTyped
  <2>7. /\ entered \in [Hosts -> Nat]
        /\ \A s \in Slots : arp_cache[s].valid <=> s < Taken
        /\ \A s \in Slots : s < Taken => arp_cache[s].ip \in Hosts /\ arp_cache[s].ip # h
        /\ \A s \in Slots : s < Taken => entered[arp_cache[s].ip] = Turn(s) + 1
    BY <1>1, <1>3, EntryFacts DEF OrderInv, SlotOf
  <2>8. \A s \in Slots : s \in Nat /\ s < size
    BY SlotFacts
  <2>9. ASSUME NEW x \in Hosts, entered[x] # 0
        PROVE  \E s \in Slots : s < Taken /\ arp_cache[s].ip = x /\ entered[x] = Turn(s) + 1
    BY <2>9 DEF OrderInv, SlotOf
  <2>10. \A s \in Slots : Turn(s) = IF Full /\ s < next THEN s - next + size
                                    ELSE IF Full THEN s - next ELSE s
    BY DEF Turn
  <2> DEFINE next2  == next_arp_idx'
             full2  == Full'
             taken2 == Taken'
             turn2  == [s \in Slots |-> Turn(s)']
  <2>11. taken2 = IF full2 THEN size ELSE next2
    BY DEF Taken
  <2>12. \A s \in Slots : turn2[s] = IF full2 /\ s < next2 THEN s - next2 + size
                                     ELSE IF full2 THEN s - next2 ELSE s
    BY DEF Turn
  <2>13. full2 <=> \A t \in Slots : arp_cache'[t].valid
    BY DEF Full
  <2>14. next2 = IF next + 1 = size THEN 0 ELSE next + 1
    BY <2>3
  <2> HIDE DEF next2, full2, taken2, turn2
  <2>15. full2 <=> Full \/ next + 1 = size
    <3>1. ASSUME Full PROVE full2
      BY <2>6, <2>13, <3>1 DEF Full
    <3>2. ASSUME ~Full, next + 1 = size, NEW t \in Slots PROVE arp_cache'[t].valid
      <4>1. CASE t = next
        BY <2>6, <4>1
      <4>2. CASE t # next
        <5>1. t < Taken
          BY <2>2, <2>5, <2>8, <3>2, <4>2
        <5> QED BY <2>6, <2>7, <4>2, <5>1
      <4> QED BY <4>1, <4>2
    <3>3. ASSUME ~Full, next + 1 # size PROVE ~full2
      <4>1. next + 1 \in Slots /\ next + 1 # next /\ ~(next + 1 < Taken)
        BY <2>2, <2>5, <3>3, SlotFacts
      <4> QED BY <2>6, <2>7, <2>13, <4>1
    <3> QED BY <2>13, <3>1, <3>2, <3>3
  <2>16. ASSUME NEW s \in Slots
         PROVE  /\ arp_cache'[s].valid <=> s < taken2
                /\ s < taken2 <=> s < Taken \/ s = next
    <3>1. s < taken2 <=> s < Taken \/ s = next
      BY <2>2, <2>5, <2>8, <2>11, <2>14, <2>15
    <3>2. CASE s = next
      BY <2>6, <3>1, <3>2
    <3>3. CASE s # next
      BY <2>6, <2>7, <3>1, <3>3
    <3> QED BY <3>1, <3>2, <3>3
  <2>17. ASSUME NEW s \in Slots, s < taken2
         PROVE  entered'[arp_cache'[s].ip] = turn2[s] + 1
    <3>1. CASE s = next
      <4>1. entered'[h] = Taken + 1 - (IF Taken = size THEN 1 ELSE 0)
        BY <2>4
      <4>2. turn2[s] + 1 = Taken + 1 - (IF Taken = size THEN 1 ELSE 0)
        BY <2>2, <2>5, <2>11, <2>12, <2>14, <2>15, <3>1
      <4> QED BY <2>6, <3>1, <4>1, <4>2
    <3>2. CASE s # next
      <4>1. s < Taken /\ arp_cache'[s] = arp_cache[s]
        BY <2>6, <2>16, <2>17, <3>2
      <4> DEFINE x == arp_cache[s].ip
      <4>2. x \in Hosts /\ x # h /\ entered[x] = Turn(s) + 1
        BY <2>7, <4>1
      <4> HIDE DEF x
      <4>3. Turn(s) \in Nat
        BY <2>2, <4>1, TurnIs
      <4>4. entered'[x] = Turn(s) + 1 - (IF Taken = size THEN 1 ELSE 0)
        BY <2>4, <4>2, <4>3
      <4>5. turn2[s] = Turn(s) - (IF Taken = size THEN 1 ELSE 0)
        BY <2>2, <2>5, <2>8, <2>10, <2>11, <2>12, <2>14, <2>15, <3>2, <4>1
      <4>6. turn2[s] + 1 = Turn(s) + 1 - (IF Taken = size THEN 1 ELSE 0)
        BY <2>2, <2>5, <4>3, <4>5
      <4> QED BY <4>1, <4>4, <4>6 DEF x
    <3> QED BY <3>1, <3>2
  <2>18. Taken \in Nat /\ Taken <= size
    BY <2>2, <2>5
  <2>19. entered' \in [Hosts -> Nat]
    BY <2>4, <2>7, <2>18
  <2>20. ASSUME NEW x \in Hosts, entered'[x] # 0
         PROVE  \E s \in Slots : arp_cache'[s].valid /\ arp_cache'[s].ip = x
    <3>1. CASE x = h
      BY <2>2, <2>6, <3>1
    <3>2. CASE x # h
      <4>1. entered[x] # 0
        BY <2>4, <2>20, <3>2
      <4>2. PICK s \in Slots : s < Taken /\ arp_cache[s].ip = x /\ entered[x] = Turn(s) + 1
        BY <2>9, <4>1
      <4>3. ASSUME s = next PROVE FALSE
        <5>1. Taken = size /\ Turn(s) = 0
          BY <2>2, <2>5, <2>10, <4>2, <4>3
        <5>2. entered'[x] = 0
          BY <2>4, <3>2, <4>2, <5>1
        <5> QED BY <2>20, <5>2
      <4>4. arp_cache'[s] = arp_cache[s] /\ arp_cache[s].valid
        BY <2>6, <2>7, <4>2, <4>3
      <4> QED BY <4>2, <4>4
    <3> QED BY <3>1, <3>2
  <2>21. /\ \A s \in Slots : arp_cache'[s].valid <=> s < Taken'
         /\ \A s \in Slots : s < Taken' => entered'[arp_cache'[s].ip] = Turn(s)' + 1
    BY <2>16, <2>17 DEF taken2, turn2
  <2>22. \A x \in Hosts : entered'[x] # 0 => SlotOf(x)' # {}
    BY <2>20 DEF SlotOf
  <2> QED BY <2>19, <2>21, <2>22 DEF OrderInv
<1> QED BY <1>2, <1>3

LEMMA InitOrder == Init => OrderInv
<1> SUFFICES ASSUME Init PROVE OrderInv
  OBVIOUS
<1>1. 0 \in Slots /\ \A s \in Slots : s \in Nat
  BY SlotFacts
<1>2. ~Full /\ \A s \in Slots : arp_cache[s].valid = FALSE
  BY <1>1 DEF Init, Full, Invalid
<1>3. Taken = 0
  BY <1>2 DEF Init, Taken
<1>4. \A s \in Slots : ~(s < Taken)
  BY <1>1, <1>3
<1>5. entered \in [Hosts -> Nat] /\ \A h \in Hosts : entered[h] = 0
  BY DEF Init
<1> QED BY <1>2, <1>4, <1>5 DEF OrderInv

\* The steps of the cache are those of arp_update_cache.
LEMMA CacheSteps ==
    ASSUME IInv, [Next]_vars
    PROVE  \/ UNCHANGED cacheVars
           \/ \E h \in Hosts, m \in Macs : arp_update_cache(h, m)
<1>1. ASSUME NEW f \in in, Poll(f) \/ IdlePoll(f)
      PROVE  \/ UNCHANGED cacheVars
             \/ \E h \in Hosts, m \in Macs : arp_update_cache(h, m)
  <2>1. CASE HandleArp(f)
    <3>1. f.host \in Hosts /\ f.mac \in Macs
      BY <2>1 DEF HandleArp, IInv, FramesTyped, FromHosts
    <3> QED BY <2>1, <3>1 DEF HandleArp
  <2>2. CASE HandleEcho(f) \/ HandleEchoReply(f)
    BY <2>2 DEF HandleEcho, HandleEchoReply
  <2> QED BY <1>1, <2>1, <2>2 DEF Poll, IdlePoll
<1>2. CASE \E h \in Hosts : PingStarts(h) \/ HostSends(h)
  BY <1>2 DEF PingStarts, HostSends
<1>3. CASE GotReply \/ Retry \/ TimedOut \/ Tick \/ Lose
  BY <1>3 DEF GotReply, Retry, TimedOut, Tick, Lose
<1>4. CASE \/ \E f \in out : HostAnswers(f)
           \/ \E h \in Hosts, m \in Macs : HostChangesMac(h, m)
  BY <1>4 DEF HostAnswers, HostChangesMac
<1>5. CASE UNCHANGED vars
  BY <1>5 DEF vars
<1> QED BY <1>1, <1>2, <1>3, <1>4, <1>5 DEF Next

LEMMA OrderIsOldestFirst ==
    ASSUME CacheTyped, OrderInv
    PROVE  OldestGoesFirst
<1> SUFFICES ASSUME NEW s \in Slots, arp_cache[s].valid
             PROVE  entered[arp_cache[s].ip] =
                       (IF Full THEN (s - next_arp_idx + ARP_CACHE_SIZE) % ARP_CACHE_SIZE
                        ELSE s) + 1
  BY DEF OldestGoesFirst, Full
<1> DEFINE size == ARP_CACHE_SIZE
           next == next_arp_idx
           a    == s - next + size
<1>1. size \in Nat /\ size > 0 /\ next \in Nat /\ next < size /\ s \in Nat /\ s < size
  BY SlotFacts DEF CacheTyped
<1>2. entered[arp_cache[s].ip] = Turn(s) + 1
  BY DEF OrderInv
<1>3. a \in Nat /\ a < 2 * size
  BY <1>1
<1>4. a % size = IF a < size THEN a ELSE a - size
  BY <1>1, <1>3, SmallRemainder
<1>5. Turn(s) = IF Full /\ s < next THEN s - next + size
                ELSE IF Full THEN s - next ELSE s
  BY DEF Turn
<1>6. (IF a < size THEN a ELSE a - size) = IF s < next THEN s - next + size ELSE s - next
  BY <1>1
<1>7. Full => Turn(s) = a % size
  BY <1>4, <1>5, <1>6
<1>8. ~Full => Turn(s) = s
  BY <1>5
<1> QED BY <1>2, <1>7, <1>8

LEMMA OrderStep ==
    ASSUME IInv, OrderInv, [Next]_vars
    PROVE  IInv' /\ OrderInv'
<1>1. IInv'
  BY StepIInv
<1>2. CASE UNCHANGED cacheVars
  <2>1. /\ UNCHANGED <<arp_cache, next_arp_idx, entered>>
        /\ Full' = Full /\ \A h \in Hosts : SlotOf(h)' = SlotOf(h)
    BY <1>2 DEF cacheVars, Full, SlotOf
  <2>2. Taken' = Taken /\ \A s \in Slots : Turn(s)' = Turn(s)
    BY <2>1 DEF Taken, Turn
  <2>3. OrderInv'
    BY <2>1, <2>2 DEF OrderInv
  <2> QED BY <1>1, <2>3
<1>3. CASE \E h \in Hosts, m \in Macs : arp_update_cache(h, m)
  BY <1>1, <1>3, UpdateKeepsOrder DEF IInv
<1> QED BY <1>1, <1>2, <1>3, CacheSteps

\* net/arp.c, for every size of the cache and every number of hosts: when an
\* entry has to go it is the one that came in first, however often the others
\* have been corrected meanwhile.
THEOREM EvictionIsInOrder == Spec => []OldestGoesFirst
<1>1. Init => IInv /\ OrderInv
  BY InitIInv, InitOrder
<1>2. IInv /\ OrderInv /\ [Next]_vars => (IInv /\ OrderInv)'
  BY OrderStep
<1>3. IInv /\ OrderInv => OldestGoesFirst
  BY OrderIsOldestFirst DEF IInv
<1> QED BY <1>1, <1>2, <1>3, PTL DEF Spec

-----------------------------------------------------------------------------
(* The ping command. *)

\* The first attempt has put the target into the cache, or will.
Reached ==
    \/ SlotOf(target) # {}
    \/ ArpRequest(target) \in out
    \/ \E f \in in : f.kind = "arp_reply" /\ f.host = target

\* The second attempt has had its answer, or will.
EchoIsOnItsWay ==
    \/ icmp_reply_received
    \/ \E f \in out : f.kind = "echo"
    \/ \E f \in in : f.kind = "echo_reply"

PingTyped ==
    /\ icmp_reply_received \in BOOLEAN /\ answered \in BOOLEAN /\ impaired \in BOOLEAN
    /\ pc \in {"idle", "phase1", "phase2"}
    /\ waited \in 0 .. Wait2
    /\ result \in {"none", "reply", "timeout"}
    /\ pings \in 0 .. MaxPings /\ stimuli \in 0 .. MaxStimuli

\* The inductive invariant, over that of the cache: when the time has moved on
\* with nothing late, what was under way has arrived.
PingInv ==
    /\ PingTyped /\ ColdCachePings
    /\ pc = "phase1" => waited <= Wait1
    /\ pc = "phase2" => waited >= Wait1
    /\ ~impaired => /\ pc = "phase1" /\ waited = 0 => Reached
                    /\ pc = "phase1" /\ waited > 0 => SlotOf(target) # {}
                    /\ pc = "phase2" /\ waited = Wait1 => EchoIsOnItsWay
                    /\ pc = "phase2" /\ waited > Wait1 => icmp_reply_received

\* A host is in the cache exactly if it has a place in the order.
LEMMA PlacedIsCached ==
    ASSUME CacheTyped, OrderInv, NEW h \in Hosts
    PROVE  SlotOf(h) # {} <=> entered[h] # 0
<1>1. ASSUME NEW s \in SlotOf(h) PROVE entered[h] # 0
  <2>1. s \in Slots /\ arp_cache[s].valid /\ arp_cache[s].ip = h
    BY DEF SlotOf
  <2>2. s < Taken /\ entered[h] = Turn(s) + 1
    BY <2>1 DEF OrderInv
  <2>3. Turn(s) \in Nat
    BY <2>1, <2>2, TurnIs DEF CacheTyped
  <2> QED
    BY <2>2, <2>3
<1> QED
  BY <1>1 DEF OrderInv

LEMMA UpdateCaches ==
    ASSUME NEW h \in Hosts, NEW m \in Macs, CacheTyped, NoAddressTwice, arp_update_cache(h, m)
    PROVE  SlotOf(h)' # {}
<1>1. CASE SlotOf(h) # {}
  <2> DEFINE s == CHOOSE s \in SlotOf(h) : \A t \in SlotOf(h) : s <= t
  <2>1. s \in SlotOf(h)
    BY <1>1, FirstSlot
  <2>2. arp_cache' = [arp_cache EXCEPT ![s].mac = m]
    BY <1>1 DEF arp_update_cache
  <2> HIDE DEF s
  <2>3. s \in Slots /\ arp_cache[s].valid /\ arp_cache[s].ip = h /\ arp_cache[s] \in Entries
    BY <2>1 DEF SlotOf, CacheTyped
  <2>4. arp_cache[s] = Entry(h, arp_cache[s].mac)
    BY <2>3, EntryFacts
  <2>5. arp_cache'[s] = Entry(h, m)
    BY <2>2, <2>3, <2>4 DEF Entry, CacheTyped
  <2> QED
    BY <2>3, <2>5, EntryFields DEF SlotOf
<1>2. CASE SlotOf(h) = {}
  <2>1. arp_cache' = [arp_cache EXCEPT ![next_arp_idx] = Entry(h, m)] /\ next_arp_idx \in Slots
    BY <1>2 DEF arp_update_cache, CacheTyped
  <2>2. arp_cache'[next_arp_idx] = Entry(h, m)
    BY <2>1 DEF CacheTyped
  <2> QED
    BY <2>1, <2>2, EntryFields DEF SlotOf
<1> QED
  BY <1>1, <1>2

LEMMA WaitFacts == Wait1 \in Nat /\ Wait2 \in Nat /\ 0 < Wait1 /\ Wait1 < Wait2
  BY PingAssumption

LEMMA BoundFacts == MaxPings \in Nat /\ MaxStimuli \in Nat
  BY PingAssumption

LEMMA PingStartsTyped == Init => PingInv
<1> SUFFICES ASSUME Init PROVE PingInv
  OBVIOUS
<1>1. /\ pc = "idle" /\ waited = 0 /\ result = "none" /\ pings = 0 /\ stimuli = 0
      /\ icmp_reply_received = FALSE /\ answered = FALSE /\ impaired = FALSE
  BY DEF Init
<1>2. waited \in 0 .. Wait2 /\ pings \in 0 .. MaxPings /\ stimuli \in 0 .. MaxStimuli
  BY <1>1, WaitFacts, BoundFacts
<1>3. PingTyped
  BY <1>1, <1>2 DEF PingTyped
<1> QED
  BY <1>1, <1>3 DEF PingInv, ColdCachePings

LEMMA FrameHandled ==
    ASSUME IInv, OrderInv, OrderInv', PingInv, NEW f \in in, Poll(f) \/ IdlePoll(f)
    PROVE  PingInv'
<1>1. /\ in' = in \ {f} /\ pc' = pc /\ target' = target /\ waited' = waited
      /\ result' = result /\ pings' = pings /\ stimuli' = stimuli
      /\ HandleArp(f) \/ HandleEcho(f) \/ HandleEchoReply(f)
  BY DEF Poll, IdlePoll, pingVars
<1>2. target \in Hosts /\ CacheTyped /\ NoAddressTwice
  BY DEF IInv, FramesTyped
<1>3. CASE HandleArp(f)
  <2>1. /\ f.host \in Hosts /\ f.mac \in Macs /\ arp_update_cache(f.host, f.mac)
        /\ f.kind # "echo_reply"
    BY <1>3 DEF HandleArp, IInv, FramesTyped, FromHosts
  <2>2. /\ icmp_reply_received' = icmp_reply_received /\ answered' = answered
        /\ impaired' = (impaired \/ (entered[target] # 0 /\ entered'[target] = 0))
        /\ \A g \in out : g \in out'
    BY <1>3 DEF HandleArp
  <2>3. impaired' \in BOOLEAN /\ (impaired => impaired')
    BY <2>2 DEF PingInv, PingTyped
  <2>4. ASSUME ~impaired' PROVE SlotOf(target) # {} => SlotOf(target)' # {}
    <3>1. SlotOf(target) # {} <=> entered[target] # 0
      BY <1>2, PlacedIsCached
    <3>2. CacheTyped'
      BY <1>2, <2>1, UpdateKeepsCache DEF IInv
    <3>3. entered'[target] # 0 => SlotOf(target)' # {}
      BY <1>1, <1>2 DEF OrderInv
    <3> QED
      BY <2>2, <2>4, <3>1, <3>3
  <2>5. SlotOf(f.host)' # {}
    BY <1>2, <2>1, UpdateCaches
  <2>6. ASSUME ~impaired', Reached PROVE Reached'
    <3>1. CASE SlotOf(target) # {}
      BY <1>1, <2>4, <2>6, <3>1 DEF Reached
    <3>2. CASE ArpRequest(target) \in out
      BY <1>1, <2>2, <3>2 DEF Reached
    <3>3. CASE \E g \in in : g.kind = "arp_reply" /\ g.host = target
      <4>1. PICK g \in in : g.kind = "arp_reply" /\ g.host = target
        BY <3>3
      <4>2. CASE g = f
        BY <1>1, <2>5, <4>1, <4>2 DEF Reached
      <4>3. CASE g # f
        BY <1>1, <4>1, <4>3 DEF Reached
      <4> QED
        BY <4>2, <4>3
    <3> QED
      BY <2>6, <3>1, <3>2, <3>3 DEF Reached
  <2>7. EchoIsOnItsWay => EchoIsOnItsWay'
    BY <1>1, <2>1, <2>2 DEF EchoIsOnItsWay
  <2> QED
    BY <1>1, <2>2, <2>3, <2>4, <2>6, <2>7 DEF PingInv, PingTyped, ColdCachePings
<1>4. CASE HandleEcho(f)
  <2>1. /\ icmp_reply_received' = icmp_reply_received /\ answered' = answered
        /\ impaired' = impaired /\ f.kind = "echo" /\ arp_cache' = arp_cache
        /\ \A g \in out : g \in out'
    BY <1>4 DEF HandleEcho, cacheVars
  <2>2. SlotOf(target)' = SlotOf(target)
    BY <1>1, <2>1 DEF SlotOf
  <2>3. Reached => Reached'
    BY <1>1, <2>1, <2>2 DEF Reached
  <2>4. EchoIsOnItsWay => EchoIsOnItsWay'
    BY <1>1, <2>1 DEF EchoIsOnItsWay
  <2> QED
    BY <1>1, <2>1, <2>2, <2>3, <2>4 DEF PingInv, PingTyped, ColdCachePings
<1>5. CASE HandleEchoReply(f)
  <2>1. /\ icmp_reply_received' = TRUE /\ answered' \in BOOLEAN
        /\ impaired' = impaired /\ f.kind = "echo_reply" /\ arp_cache' = arp_cache /\ out' = out
    BY <1>5 DEF HandleEchoReply, cacheVars, PingInv, PingTyped
  <2>2. SlotOf(target)' = SlotOf(target)
    BY <1>1, <2>1 DEF SlotOf
  <2>3. Reached => Reached'
    BY <1>1, <2>1, <2>2 DEF Reached
  <2>4. EchoIsOnItsWay'
    BY <2>1 DEF EchoIsOnItsWay
  <2> QED
    BY <1>1, <2>1, <2>2, <2>3, <2>4 DEF PingInv, PingTyped, ColdCachePings
<1> QED
  BY <1>1, <1>3, <1>4, <1>5

\* Steps that take nothing off the wire.
LEMMA NothingTaken ==
    ASSUME PingInv, arp_cache' = arp_cache, target' = target, pc' = pc, waited' = waited,
           result' = result, impaired' = impaired, icmp_reply_received' = icmp_reply_received,
           answered' = answered, pings' = pings, stimuli' \in 0 .. MaxStimuli,
           in \subseteq in', out \subseteq out'
    PROVE  PingInv'
<1>1. SlotOf(target)' = SlotOf(target)
  BY DEF SlotOf
<1>2. Reached => Reached'
  BY <1>1 DEF Reached
<1>3. EchoIsOnItsWay => EchoIsOnItsWay'
  BY DEF EchoIsOnItsWay
<1> QED
  BY <1>1, <1>2, <1>3 DEF PingInv, PingTyped, ColdCachePings

LEMMA FrameAnswered ==
    ASSUME IInv, PingInv, NEW f \in out, HostAnswers(f)
    PROVE  PingInv'
<1> DEFINE answer ==
             CASE f.kind = "arp_request" -> {Arp("arp_reply", f.host, mac[f.host])}
               [] f.kind = "echo" -> IF mac[f.host] = f.mac
                                     THEN {EchoReply(f.host, f.mac, f.ping)} ELSE {}
               [] OTHER -> {}
<1>1. /\ out' = out \ {f} /\ in' = in \union answer /\ arp_cache' = arp_cache
      /\ pc' = pc /\ target' = target /\ waited' = waited /\ result' = result
      /\ pings' = pings /\ stimuli' = stimuli /\ answered' = answered
      /\ icmp_reply_received' = icmp_reply_received
      /\ impaired' = (impaired \/ (f.kind = "echo" /\ mac[f.host] # f.mac))
  BY DEF HostAnswers, cacheVars, pingVars
<1>2. impaired' \in BOOLEAN /\ (impaired => impaired')
  BY <1>1 DEF PingInv, PingTyped
<1>3. SlotOf(target)' = SlotOf(target)
  BY <1>1 DEF SlotOf
<1>4. f = ArpRequest(target) => \E g \in answer : g.kind = "arp_reply" /\ g.host = target
  <2> SUFFICES ASSUME f = ArpRequest(target)
               PROVE  \E g \in answer : g.kind = "arp_reply" /\ g.host = target
    OBVIOUS
  <2>1. f.kind = "arp_request" /\ f.host = target
    BY DEF ArpRequest
  <2>2. answer = {Arp("arp_reply", target, mac[target])}
    BY <2>1
  <2> HIDE DEF answer
  <2> QED
    BY <2>2 DEF Arp
<1>5. f.kind = "echo" /\ ~impaired' => \E g \in answer : g.kind = "echo_reply"
  <2>1. ASSUME f.kind = "echo", ~impaired' PROVE answer = {EchoReply(f.host, f.mac, f.ping)}
    BY <1>1, <2>1
  <2> QED
    BY <2>1 DEF EchoReply
<1> HIDE DEF answer
<1>6. Reached => Reached'
  <2>1. ASSUME ArpRequest(target) \in out PROVE Reached'
    BY <1>1, <1>4, <2>1 DEF Reached
  <2> QED
    BY <1>1, <1>3, <2>1 DEF Reached
<1>7. EchoIsOnItsWay /\ ~impaired' => EchoIsOnItsWay'
  <2>1. ASSUME NEW g \in out, g.kind = "echo", ~impaired' PROVE EchoIsOnItsWay'
    BY <1>1, <1>5, <2>1 DEF EchoIsOnItsWay
  <2> QED
    BY <1>1, <2>1 DEF EchoIsOnItsWay
<1> QED
  BY <1>1, <1>2, <1>3, <1>6, <1>7 DEF PingInv, PingTyped, ColdCachePings

\* A cached host gets an echo request, another one an ARP request.
LEMMA RequestIs ==
    ASSUME CacheTyped, NoAddressTwice, NEW h \in Hosts, NEW n
    PROVE  /\ SlotOf(h) = {} => EchoRequest(h, n) = {ArpRequest(h)}
           /\ SlotOf(h) # {} => \E f \in EchoRequest(h, n) : f.kind = "echo"
<1>1. CASE SlotOf(h) = {}
  BY <1>1 DEF EchoRequest, ip_send
<1>2. CASE SlotOf(h) # {}
  <2> DEFINE s == CHOOSE s \in SlotOf(h) : \A t \in SlotOf(h) : s <= t
             frames == [m \in Macs |-> Echo(h, m, n)]
  <2>1. s \in SlotOf(h)
    BY <1>2, FirstSlot
  <2>2. EchoRequest(h, n) = {frames[arp_cache[s].mac]}
    BY <1>2 DEF EchoRequest, ip_send
  <2>3. arp_cache[s].mac \in Macs
    <3> HIDE DEF s
    <3>1. arp_cache[s] \in Entries /\ arp_cache[s].valid
      BY <2>1 DEF SlotOf, CacheTyped
    <3> QED
      BY <3>1, EntryFacts
  <2> HIDE DEF s
  <2>4. frames[arp_cache[s].mac].kind = "echo"
    BY <2>3 DEF Echo
  <2> HIDE DEF frames
  <2> QED
    BY <1>2, <2>2, <2>4
<1> QED
  BY <1>1, <1>2

LEMMA CommandStep ==
    ASSUME IInv, PingInv,
           \/ \E h \in Hosts : PingStarts(h)
           \/ GotReply \/ Retry \/ TimedOut \/ Tick
    PROVE  PingInv'
<1>1. target \in Hosts /\ CacheTyped /\ NoAddressTwice
  BY DEF IInv, FramesTyped
<1>2. ASSUME NEW h \in Hosts, PingStarts(h) PROVE PingInv'
  <2>1. /\ pc' = "phase1" /\ waited' = 0 /\ target' = h /\ result' = "none" /\ impaired' = FALSE
        /\ answered' = FALSE /\ icmp_reply_received' = FALSE /\ stimuli' = stimuli
        /\ pings' = pings + 1 /\ pings < MaxPings
        /\ arp_cache' = arp_cache /\ out' = out \union EchoRequest(h, pings + 1)
    BY <1>2 DEF PingStarts, cacheVars
  <2>3. Reached'
    <3>1. CASE SlotOf(h) = {}
      <4>1. ArpRequest(h) \in out'
        BY <1>1, <2>1, <3>1, RequestIs
      <4> QED
        BY <2>1, <4>1 DEF Reached, ArpRequest
    <3>2. CASE SlotOf(h) # {}
      BY <2>1, <3>2 DEF Reached, SlotOf
    <3> QED
      BY <3>1, <3>2
  <2>4. PingTyped'
    <3>1. stimuli' \in 0 .. MaxStimuli /\ pings \in 0 .. MaxPings
      BY <2>1 DEF PingInv, PingTyped
    <3>2. waited' \in 0 .. Wait2 /\ pings' \in 0 .. MaxPings
      BY <2>1, <3>1, WaitFacts, BoundFacts
    <3> QED
      BY <2>1, <3>1, <3>2 DEF PingTyped
  <2> QED
    BY <2>1, <2>3, <2>4, WaitFacts DEF PingInv, ColdCachePings
<1>3. CASE GotReply
  <2>1. /\ pc' = "idle" /\ result' = "reply" /\ waited' = waited /\ impaired' = impaired
        /\ answered' = answered /\ icmp_reply_received' = icmp_reply_received
        /\ stimuli' = stimuli /\ pings' = pings
    BY <1>3 DEF GotReply
  <2> QED
    BY <2>1 DEF PingInv, PingTyped, ColdCachePings
<1>4. CASE Retry
  <2>1. /\ pc = "phase1" /\ waited >= Wait1
        /\ pc' = "phase2" /\ target' = target /\ result' = result /\ waited' = waited
        /\ impaired' = impaired /\ answered' = answered /\ icmp_reply_received' = FALSE
        /\ stimuli' = stimuli /\ pings' = pings
        /\ out' = out \union EchoRequest(target, pings)
    BY <1>4 DEF Retry
  <2>2. waited' = Wait1 /\ 0 < waited
    BY <2>1, WaitFacts DEF PingInv, PingTyped
  <2>3. ASSUME ~impaired PROVE EchoIsOnItsWay'
    <3>1. SlotOf(target) # {}
      BY <2>1, <2>2, <2>3 DEF PingInv
    <3> QED
      BY <1>1, <2>1, <3>1, RequestIs DEF EchoIsOnItsWay
  <2>4. PingTyped' /\ ColdCachePings'
    BY <2>1 DEF PingInv, PingTyped, ColdCachePings
  <2> QED
    BY <2>1, <2>2, <2>3, <2>4, WaitFacts DEF PingInv
<1>5. CASE TimedOut
  <2>1. /\ pc = "phase2" /\ waited >= Wait2 /\ ~icmp_reply_received
        /\ pc' = "idle" /\ result' = "timeout" /\ waited' = waited
        /\ impaired' = impaired /\ answered' = answered
        /\ icmp_reply_received' = icmp_reply_received /\ stimuli' = stimuli /\ pings' = pings
    BY <1>5 DEF TimedOut
  <2>2. waited > Wait1
    BY <2>1, WaitFacts DEF PingInv, PingTyped
  <2>3. impaired
    BY <2>1, <2>2 DEF PingInv
  <2> QED
    BY <2>1, <2>3 DEF PingInv, PingTyped, ColdCachePings
<1>6. CASE Tick
  <2>1. /\ \/ pc = "phase1" /\ waited < Wait1
           \/ pc = "phase2" /\ waited < Wait2
        /\ waited' = waited + 1 /\ pc' = pc /\ target' = target /\ result' = result
        /\ answered' = answered /\ icmp_reply_received' = icmp_reply_received
        /\ stimuli' = stimuli /\ pings' = pings /\ arp_cache' = arp_cache
        /\ impaired' = (impaired \/ in # {} \/ out # {})
    BY <1>6 DEF Tick, cacheVars
  <2>2. impaired' \in BOOLEAN /\ (impaired => impaired')
    BY <2>1 DEF PingInv, PingTyped
  <2>3. SlotOf(target)' = SlotOf(target)
    BY <2>1 DEF SlotOf
  <2>4. waited' \in 0 .. Wait2 /\ waited' > 0 /\ (pc = "phase1" => waited' <= Wait1)
        /\ (pc = "phase2" => waited' > Wait1)
    BY <2>1, WaitFacts DEF PingInv, PingTyped
  <2>5. PingTyped' /\ ColdCachePings'
    BY <2>1, <2>2, <2>4 DEF PingInv, PingTyped, ColdCachePings
  <2>6. ASSUME ~impaired', pc = "phase1" PROVE SlotOf(target) # {}
    <3>1. ~impaired /\ in = {} /\ out = {}
      BY <2>1, <2>6
    <3>2. Reached => SlotOf(target) # {}
      BY <3>1 DEF Reached
    <3>3. waited = 0 \/ waited > 0
      BY DEF PingInv, PingTyped
    <3> QED
      BY <2>6, <3>1, <3>2, <3>3 DEF PingInv
  <2>7. ASSUME ~impaired', pc = "phase2" PROVE icmp_reply_received
    <3>1. ~impaired /\ in = {} /\ out = {}
      BY <2>1, <2>7
    <3>2. EchoIsOnItsWay => icmp_reply_received
      BY <3>1 DEF EchoIsOnItsWay
    <3>3. waited = Wait1 \/ waited > Wait1
      BY <2>7, WaitFacts DEF PingInv, PingTyped
    <3> QED
      BY <2>7, <3>1, <3>2, <3>3 DEF PingInv
  <2> QED
    BY <2>1, <2>3, <2>4, <2>5, <2>6, <2>7, WaitFacts DEF PingInv
<1> QED
  BY <1>2, <1>3, <1>4, <1>5, <1>6

LEMMA PingStep ==
    ASSUME IInv, OrderInv, PingInv, [Next]_vars
    PROVE  PingInv'
<1>1. OrderInv'
  BY OrderStep
<1>2. ASSUME NEW f \in in, Poll(f) \/ IdlePoll(f) PROVE PingInv'
  BY <1>1, <1>2, FrameHandled
<1>3. ASSUME NEW h \in Hosts, HostSends(h) PROVE PingInv'
  <2>1. stimuli' \in 0 .. MaxStimuli
    BY <1>3, BoundFacts DEF HostSends, Stimulus, PingInv, PingTyped
  <2>2. in \subseteq in'
    BY <1>3 DEF HostSends
  <2> QED
    BY <1>3, <2>1, <2>2, NothingTaken DEF HostSends, cacheVars, pingVars
<1>4. CASE Lose
  <2>1. /\ stimuli' \in 0 .. MaxStimuli /\ impaired' = TRUE
        /\ pc' = pc /\ waited' = waited /\ result' = result /\ pings' = pings
        /\ icmp_reply_received' = icmp_reply_received /\ answered' = answered
    BY <1>4, BoundFacts DEF Lose, Stimulus, pingVars, PingInv, PingTyped
  <2> QED
    BY <2>1 DEF PingInv, PingTyped, ColdCachePings
<1>5. ASSUME NEW f \in out, HostAnswers(f) PROVE PingInv'
  BY <1>5, FrameAnswered
<1>6. ASSUME NEW h \in Hosts, NEW m \in Macs, HostChangesMac(h, m) PROVE PingInv'
  <2>1. stimuli' \in 0 .. MaxStimuli
    BY <1>6, BoundFacts DEF HostChangesMac, Stimulus, PingInv, PingTyped
  <2> QED
    BY <1>6, <2>1, NothingTaken DEF HostChangesMac, cacheVars, pingVars
<1>7. CASE UNCHANGED vars
  <2>1. stimuli' \in 0 .. MaxStimuli
    BY <1>7 DEF vars, PingInv, PingTyped
  <2> QED
    BY <1>7, <2>1, NothingTaken DEF vars, cacheVars, pingVars
<1> QED
  BY <1>2, <1>3, <1>4, <1>5, <1>6, <1>7, CommandStep DEF Next

\* terminal_execute_command's ping, ip_send and arp_update_cache, for every
\* number of hosts, size of the cache and waits: a ping that times out has lost a
\* frame, or a frame came late, or the target has changed its MAC or been evicted
\* meanwhile; never is it the empty cache alone.
THEOREM PingIsAnswered == Spec => []PingSound
<1> DEFINE All == IInv /\ OrderInv /\ PingInv
<1>1. Init => All
  BY InitIInv, InitOrder, PingStartsTyped
<1>2. All /\ [Next]_vars => All'
  BY OrderStep, PingStep
<1>3. All => PingSound
  BY DEF IInv, FramesTyped, CacheTyped, OrderInv, PingInv, PingTyped, TypeOK, PingSound
<1> HIDE DEF All
<1> QED
  BY <1>1, <1>2, <1>3, PTL DEF Spec

-----------------------------------------------------------------------------
(* The ring of the network card. *)

RingSize == PStop - PStart

\* How many pages to lies behind from.
Distance(from, to) == IF from <= to THEN to - from ELSE to - from + RingSize

FromDriver(p) == Distance(next_packet_page, p)

\* The stored frames lie one behind the other from the page of the driver to
\* that of the card, and a page is left free.
FramesInOrder ==
    /\ \A k \in DOMAIN pending :
          FromDriver(pending[k].page) + pending[k].pages <= FromDriver(reg.CURR)
    /\ \A k, l \in DOMAIN pending :
          k < l => FromDriver(pending[k].page) + pending[k].pages
                      <= FromDriver(pending[l].page)
    /\ FromDriver(reg.CURR) < RingSize - 1

\* The registers the card goes by once the driver has set it up.
SetUp ==
    /\ reg.PSTART = PStart /\ reg.PSTOP = PStop /\ reg.CURR \in Pages
    /\ reg.BNRY = Boundary(next_packet_page)

\* An interrupted call whose frame the desktop has not taken finds it in the
\* ring as it left it.
OuterIntact ==
    loop.at \in Interrupted /\ loop.used # "received" =>
        /\ card_pc = "idle"
        /\ loop.at # "idle" => pending # <<>>
        /\ loop.at = "read" =>
              loop.rx.frame = pending[1].frame /\ loop.rx.next = StartOf(2)

\* The inductive invariant.
CardInv ==
    /\ CardTypeOK /\ FrameIntact /\ OuterIntact
    /\ \A k \in DOMAIN pending :
          /\ ring[StartOf(k)] = [frame |-> pending[k].frame,
                                      next |-> StartOf(k + 1)]
          /\ StartOf(k + 1) = Beyond(StartOf(k), pending[k].pages)
    /\ ne2k_found => SetUp /\ FramesInOrder /\ StartOf(1) = next_packet_page
    /\ ~ne2k_found => /\ pending = <<>> /\ card_pc = "idle"
                      /\ loop.at \notin {"curr", "read"}
    /\ card_pc \in {"curr", "read"} => pending # <<>>

\* A stored frame.
Stored == [frame : Frames, page : Pages, pages : FramePages]

\* What RingAssumption says of the sizes.
LEMMA RingFacts ==
    /\ PStart \in Nat /\ PStart > 0 /\ PStop \in Nat
    /\ RingSize \in Nat /\ RingSize >= 2 /\ PStop = PStart + RingSize
    /\ \A n \in FramePages : n \in Nat /\ n >= 1 /\ n < RingSize - 1
    /\ \A p : p \in Pages <=> p \in Nat /\ PStart <= p /\ p < PStart + RingSize
  BY RingAssumption DEF RingSize, Pages

\* What is known of a frame that waits in the ring.
LEMMA StoredFacts ==
    ASSUME CardInv, NEW k \in DOMAIN pending
    PROVE  /\ pending \in Seq(Stored) /\ k \in 1 .. Len(pending)
           /\ pending[k].page \in Pages /\ pending[k].pages \in FramePages
           /\ pending[k].pages \in Nat /\ pending[k].pages >= 1
<1>1. pending \in Seq(Stored)
  BY DEF CardInv, CardTypeOK, Stored
<1>2. k \in 1 .. Len(pending) /\ pending[k] \in Stored
  BY <1>1
<1>3. pending[k].page \in Pages /\ pending[k].pages \in FramePages
  BY <1>2 DEF Stored
<1> QED BY <1>1, <1>2, <1>3, RingFacts

\* Going on by less than a round wraps once at most.
LEMMA BeyondIs ==
    ASSUME NEW p \in Pages, NEW n \in Nat, n < RingSize
    PROVE  /\ Beyond(p, n) = IF p + n < PStop THEN p + n ELSE p + n - RingSize
           /\ Beyond(p, n) \in Pages
<1>1. /\ PStart \in Nat /\ RingSize \in Nat /\ RingSize >= 2
      /\ p \in Nat /\ PStart <= p /\ p < PStart + RingSize
      /\ PStop = PStart + RingSize
  BY RingFacts
<1> DEFINE a == p - PStart + n
<1>2. a \in Nat /\ a < 2 * RingSize
  BY <1>1
<1>3. a % RingSize = IF a < RingSize THEN a ELSE a - RingSize
  BY <1>1, <1>2, SmallRemainder
<1>4. Beyond(p, n) = PStart + (a % RingSize)
  BY DEF Beyond, RingSize
<1>5. PStart + (IF a < RingSize THEN a ELSE a - RingSize)
         = IF p + n < PStop THEN p + n ELSE p + n - RingSize
  BY <1>1, <1>2
<1>6. Beyond(p, n) = IF p + n < PStop THEN p + n ELSE p + n - RingSize
  BY <1>3, <1>4, <1>5
<1> DEFINE b == Beyond(p, n)
<1>7. b = IF p + n < PStop THEN p + n ELSE p + n - RingSize
  BY <1>6
<1> HIDE DEF b
<1>8. b \in Nat /\ PStart <= b /\ b < PStart + RingSize
  BY <1>1, <1>7
<1> QED BY <1>6, <1>8, RingFacts DEF b

\* Distances are less than a round, and count the pages gone beyond.
LEMMA DistanceIs ==
    ASSUME NEW p \in Pages, NEW q \in Pages
    PROVE  /\ Distance(p, q) \in Nat /\ Distance(p, q) < RingSize
           /\ Distance(p, q) = 0 <=> p = q
           /\ \A n \in Nat : Distance(p, q) + n < RingSize =>
                 /\ Beyond(q, n) \in Pages
                 /\ Distance(p, Beyond(q, n)) = Distance(p, q) + n
<1>1. /\ PStart \in Nat /\ RingSize \in Nat /\ RingSize >= 2
      /\ p \in Nat /\ PStart <= p /\ p < PStart + RingSize
      /\ q \in Nat /\ PStart <= q /\ q < PStart + RingSize
      /\ PStop = PStart + RingSize
  BY RingFacts
<1>2. /\ Distance(p, q) \in Nat /\ Distance(p, q) < RingSize
      /\ Distance(p, q) = 0 <=> p = q
  BY <1>1 DEF Distance
<1>3. ASSUME NEW n \in Nat, Distance(p, q) + n < RingSize
      PROVE  /\ Beyond(q, n) \in Pages
             /\ Distance(p, Beyond(q, n)) = Distance(p, q) + n
  <2> DEFINE b == Beyond(q, n)
  <2>1. n < RingSize
    BY <1>1, <1>2, <1>3
  <2>2. b = (IF q + n < PStop THEN q + n ELSE q + n - RingSize) /\ b \in Pages
    BY <2>1, BeyondIs
  <2> HIDE DEF b
  <2>3. Distance(p, b) = Distance(p, q) + n
    BY <1>1, <1>3, <2>1, <2>2 DEF Distance
  <2> QED BY <2>2, <2>3 DEF b
<1> QED BY <1>2, <1>3

\* When the driver goes on, what lies before it comes as much nearer.
LEMMA DistanceShrinks ==
    ASSUME NEW p \in Pages, NEW q \in Pages,
           NEW r \in Pages, Distance(p, q) <= Distance(p, r)
    PROVE  Distance(q, r) = Distance(p, r) - Distance(p, q)
<1>1. /\ PStart \in Nat /\ RingSize \in Nat /\ RingSize >= 2
      /\ p \in Nat /\ PStart <= p /\ p < PStart + RingSize
      /\ q \in Nat /\ PStart <= q /\ q < PStart + RingSize
      /\ r \in Nat /\ PStart <= r /\ r < PStart + RingSize
  BY RingFacts
<1> QED BY <1>1 DEF Distance

\* What the card takes for free is the rest of the round, but for a page.
LEMMA FreeIs ==
    ASSUME next_packet_page \in Pages, SetUp
    PROVE  /\ reg.BNRY \in Pages
           /\ FromDriver(reg.BNRY) = RingSize - 1
           /\ Beyond(reg.BNRY, 1) = next_packet_page
           /\ FromDriver(reg.CURR) < RingSize - 1 =>
                 FreePages = RingSize - 1 - FromDriver(reg.CURR)
<1> DEFINE p == next_packet_page
           c == reg.CURR
           b == reg.BNRY
<1>1. /\ PStart \in Nat /\ PStart > 0 /\ RingSize \in Nat /\ RingSize >= 2
      /\ p \in Nat /\ PStart <= p /\ p < PStart + RingSize
      /\ c \in Nat /\ PStart <= c /\ c < PStart + RingSize
      /\ PStop = PStart + RingSize
  BY RingFacts DEF SetUp
<1>2. b = IF p - 1 < PStart THEN PStop - 1 ELSE p - 1
  BY DEF SetUp, Boundary
<1>3. FreePages = IF c < b THEN b - c ELSE RingSize - (c - b)
  BY DEF SetUp, FreePages, RingSize
<1> HIDE DEF p, c, b
<1>4. b \in Nat /\ PStart <= b /\ b < PStart + RingSize
  BY <1>1, <1>2
<1>5. b \in Pages
  BY <1>4, RingFacts
<1>6. Distance(p, b) = RingSize - 1
  BY <1>1, <1>2, <1>4 DEF Distance
<1>7. Beyond(b, 1) = p
  <2>1. Beyond(b, 1) = IF b + 1 < PStop THEN b + 1 ELSE b + 1 - RingSize
    BY <1>1, <1>5, BeyondIs
  <2> QED BY <1>1, <1>2, <2>1
<1>8. ASSUME Distance(p, c) < RingSize - 1
      PROVE  (IF c < b THEN b - c ELSE RingSize - (c - b)) = RingSize - 1 - Distance(p, c)
  BY <1>1, <1>2, <1>4, <1>8 DEF Distance
<1> QED BY <1>3, <1>5, <1>6, <1>7, <1>8 DEF p, c, b, FromDriver

\* Before the card is set up the ring is empty.
LEMMA CardStarts ==
    ASSUME CardInit
    PROVE  CardInv
<1>1. /\ PStart \in Nat /\ RingSize \in Nat /\ RingSize >= 2
  BY RingFacts
<1>2. PStart + 1 \in Pages
  BY <1>1, RingFacts
<1>3. CardTypeOK
  <2>1. reg \in [Registers -> Nat]
    BY DEF CardInit
  <2>2. Nothing \in Reads
    BY DEF Nothing, Reads
  <2>3. ring \in [Pages -> Reads]
    BY <2>2 DEF CardInit
  <2>4. pending \in Seq(Stored)
    BY DEF CardInit
  <2>5. loop \in [at : Interrupted \cup {"boot", "running"}, rx : Reads,
                    used : {"no", "polled", "received"}]
    BY <2>2 DEF CardInit
  <2> QED BY <1>2, <2>1, <2>2, <2>3, <2>4, <2>5 DEF CardInit, CardTypeOK, Stored
<1> QED BY <1>3 DEF CardInit, CardInv, FrameIntact, OuterIntact, Interrupted

\* The driver sets the card up: the ring is empty.
LEMMA CardIsSetUp ==
    ASSUME CardInv, ne2k_init
    PROVE  CardInv'
<1>1. /\ PStart \in Nat /\ RingSize \in Nat /\ RingSize >= 2 /\ PStart > 0
      /\ PStop \in Nat
  BY RingFacts
<1>2. PStart + 1 \in Pages
  BY <1>1, RingFacts
<1>3. /\ pending = <<>> /\ card_pc = "idle"
      /\ reg \in [Registers -> Nat]
  BY DEF ne2k_init, CardInv, CardTypeOK
<1>4. /\ WrittenAt(NE_PSTART) = "PSTART"
      /\ WrittenAt(NE_PSTOP) = "PSTOP"
      /\ WrittenAt(NE_BNRY) = "BNRY" /\ WrittenAt(NE_RCR) = "RBCR0"
  BY DEF WrittenAt, NE_PSTART, NE_PSTOP, NE_BNRY, NE_RCR
<1>5. reg' = [reg EXCEPT !["PSTART"] = PStart, !["PSTOP"] = PStop, !["BNRY"] = PStart,
                         !["CURR"] = PStart + 1, !["RBCR0"] = 15]
  BY <1>4 DEF ne2k_init
<1>6. /\ reg' \in [Registers -> Nat]
      /\ reg'["PSTART"] = PStart /\ reg'["PSTOP"] = PStop
      /\ reg'["BNRY"] = PStart /\ reg'["CURR"] = PStart + 1
  BY <1>1, <1>3, <1>5 DEF Registers
<1>7. /\ ne2k_found' = TRUE /\ next_packet_page' = PStart + 1
      /\ UNCHANGED <<ring, card_pc, rx, loop, pending>>
  BY DEF ne2k_init
<1>8. CardTypeOK'
  BY <1>2, <1>6, <1>7 DEF CardInv, CardTypeOK
<1>9. SetUp'
  <2>1. Boundary(PStart + 1) = PStart
    BY <1>1 DEF Boundary
  <2> QED BY <1>2, <1>6, <1>7, <2>1 DEF SetUp
<1>10. FramesInOrder'
  <2>1. Distance(PStart + 1, PStart + 1) = 0 /\ RingSize - 1 > 0
    BY <1>1 DEF Distance
  <2>2. DOMAIN pending' = {}
    BY <1>3, <1>7
  <2> QED BY <1>6, <1>7, <2>1, <2>2 DEF FramesInOrder, FromDriver
<1>11. DOMAIN pending' = {} /\ StartOf(1)' = PStart + 1
  BY <1>3, <1>6, <1>7 DEF StartOf
<1>12. card_pc' = "idle"
  BY <1>3, <1>7
<1>13. OuterIntact'
  BY <1>7, <1>12 DEF OuterIntact, CardInv, ne2k_init, Interrupted
<1> QED BY <1>7, <1>8, <1>9, <1>10, <1>11, <1>12, <1>13 DEF CardInv, FrameIntact

\* The card stores a frame: it writes no page of a frame that is still there.
LEMMA FrameIsStored ==
    ASSUME CardInv, ne2k_found,
           NEW frame \in Frames, NEW pages \in FramePages, Fits(pages),
           CardStores(frame, pages),
           UNCHANGED <<next_packet_page, ne2k_found, card_pc, rx, loop>>
    PROVE  CardInv'
<1> DEFINE c    == reg.CURR
           next == Beyond(c, pages)
           n    == Len(pending)
           new  == [frame |-> frame, page |-> c, pages |-> pages]
<1> USE DEF FromDriver
<1>1. /\ RingSize \in Nat /\ RingSize >= 2
      /\ pages \in Nat /\ pages >= 1
      /\ next_packet_page \in Pages /\ c \in Pages
      /\ SetUp /\ FramesInOrder /\ StartOf(1) = next_packet_page
  BY RingFacts DEF CardInv, CardTypeOK, SetUp
<1>2. Distance(next_packet_page, c) + pages < RingSize - 1
  <2>1. Distance(next_packet_page, c) < RingSize - 1
    BY <1>1 DEF FramesInOrder
  <2>2. pages < RingSize - 1 - Distance(next_packet_page, c)
    BY <1>1, <2>1, FreeIs DEF Fits
  <2>3. Distance(next_packet_page, c) \in Nat
    BY <1>1, DistanceIs
  <2> QED BY <1>1, <2>2, <2>3
<1>3. /\ next \in Pages
      /\ Distance(next_packet_page, next) = Distance(next_packet_page, c) + pages
      /\ Distance(next_packet_page, c) \in Nat
  BY <1>1, <1>2, DistanceIs
<1>4. ASSUME NEW k \in 1 .. pages - 1
      PROVE  /\ Beyond(c, k) \in Pages
             /\ Distance(next_packet_page, Beyond(c, k))
                   = Distance(next_packet_page, c) + k
  <2>1. k \in Nat /\ Distance(next_packet_page, c) + k < RingSize
    BY <1>1, <1>2, <1>3
  <2> QED BY <1>1, <2>1, DistanceIs
<1>5. /\ reg' = [reg EXCEPT !.CURR = next]
      /\ pending' = Append(pending, new)
      /\ ring' = [p \in Pages |->
                     IF p = c THEN [frame |-> frame, next |-> next]
                     ELSE IF \E k \in 1 .. pages - 1 : p = Beyond(c, k)
                     THEN Nothing ELSE ring[p]]
  BY DEF CardStores
<1> HIDE DEF next
<1>6. /\ reg \in [Registers -> Nat]
      /\ pending \in Seq(Stored)
      /\ ring \in [Pages -> Reads]
  BY DEF CardInv, CardTypeOK, Stored
<1>7. new \in Stored
  BY <1>1 DEF Stored
<1>8. /\ new \in Stored
      /\ n \in Nat /\ pending' \in Seq(Stored)
      /\ DOMAIN pending = 1 .. n /\ DOMAIN pending' = 1 .. n + 1
      /\ pending'[n + 1] = new
      /\ \A k \in 1 .. n : pending'[k] = pending[k]
  BY <1>5, <1>6, <1>7
<1>9. /\ reg' \in [Registers -> Nat] /\ reg'.CURR = next
      /\ reg'.PSTART = reg.PSTART /\ reg'.PSTOP = reg.PSTOP /\ reg'.BNRY = reg.BNRY
  <2>1. next \in Nat
    BY <1>3, RingFacts
  <2> QED BY <1>5, <1>6, <2>1 DEF Registers
<1>10. CardTypeOK'
  <2>1. ring' \in [Pages -> Reads]
    BY <1>3, <1>5, <1>6 DEF Nothing, Reads
  <2> QED BY <1>8, <1>9, <2>1 DEF CardInv, CardTypeOK, Stored
<1>11. SetUp'
  BY <1>1, <1>3, <1>9 DEF SetUp, Boundary
<1>12. ASSUME NEW k \in 1 .. n
       PROVE  /\ pending[k].page \in Pages /\ pending[k].pages \in Nat
              /\ pending[k].pages >= 1
              /\ Distance(next_packet_page, pending[k].page) \in Nat
              /\ Distance(next_packet_page, pending[k].page) + pending[k].pages
                    <= Distance(next_packet_page, c)
  <2>1. /\ pending[k].page \in Pages
        /\ pending[k].pages \in Nat /\ pending[k].pages >= 1
    BY <1>8, StoredFacts
  <2> QED BY <1>1, <1>8, <2>1, RingFacts, DistanceIs DEF FramesInOrder
<1>13. FramesInOrder'
  <2>1. \A k \in 1 .. n + 1 : k \in 1 .. n \/ k = n + 1
    BY <1>8
  <2>2. ASSUME NEW k \in 1 .. n + 1
        PROVE  Distance(next_packet_page, pending'[k].page) + pending'[k].pages
                  <= Distance(next_packet_page, next)
    <3>1. CASE k \in 1 .. n
      <4>1. Distance(next_packet_page, pending[k].page) + pending[k].pages
               <= Distance(next_packet_page, c)
        BY <1>12, <3>1
      <4>2. Distance(next_packet_page, pending[k].page) \in Nat /\ pending[k].pages \in Nat
            /\ pending'[k] = pending[k]
        BY <1>8, <1>12, <3>1
      <4> QED BY <1>1, <1>3, <4>1, <4>2
    <3>2. CASE k = n + 1
      BY <1>1, <1>3, <1>8, <3>2
    <3> QED BY <2>1, <3>1, <3>2
  <2>3. ASSUME NEW k \in 1 .. n + 1, NEW l \in 1 .. n + 1, k < l
        PROVE  Distance(next_packet_page, pending'[k].page) + pending'[k].pages
                  <= Distance(next_packet_page, pending'[l].page)
    <3>1. k \in 1 .. n
      BY <1>8, <2>3
    <3>2. CASE l \in 1 .. n
      BY <1>1, <1>8, <2>3, <3>1, <3>2 DEF FramesInOrder
    <3>3. CASE l = n + 1
      BY <1>8, <1>12, <3>1, <3>3
    <3> QED BY <2>1, <3>2, <3>3
  <2>4. Distance(next_packet_page, next) < RingSize - 1
    BY <1>2, <1>3
  <2>5. /\ reg'.CURR = next /\ next_packet_page' = next_packet_page
        /\ DOMAIN pending' = 1 .. n + 1
    BY <1>8, <1>9
  <2> HIDE DEF n
  <2> QED BY <2>2, <2>3, <2>4, <2>5 DEF FramesInOrder
<1>14. ASSUME NEW k \in 1 .. n + 1
       PROVE  StartOf(k)' = StartOf(k)
  <2>1. CASE k \in 1 .. n
    BY <1>8, <2>1 DEF StartOf
  <2>2. CASE k = n + 1
    BY <1>8, <2>2 DEF StartOf
  <2> QED BY <1>8, <2>1, <2>2
<1>15. ASSUME NEW k \in 1 .. n + 1
       PROVE  /\ ring'[StartOf(k)'] = [frame |-> pending'[k].frame,
                                            next |-> StartOf(k + 1)']
              /\ StartOf(k + 1)' = Beyond(StartOf(k)', pending'[k].pages)
  <2>1. CASE k \in 1 .. n
    <3> DEFINE p == pending[k].page
    <3>1. p \in Pages /\ p = StartOf(k) /\ k + 1 \in 1 .. n + 1
      BY <1>8, <1>12, <2>1 DEF StartOf
    <3>2. Distance(next_packet_page, p) < Distance(next_packet_page, c)
      BY <1>3, <1>12, <2>1
    <3>3. p # c
      BY <1>3, <3>2
    <3>4. \A i \in 1 .. pages - 1 : p # Beyond(c, i)
      BY <1>1, <1>3, <1>4, <1>12, <2>1, <3>2
    <3>5. ring'[p] = ring[p]
      BY <1>5, <3>1, <3>3, <3>4
    <3>6. /\ ring[p] = [frame |-> pending[k].frame, next |-> StartOf(k + 1)]
          /\ StartOf(k + 1) = Beyond(p, pending[k].pages)
      BY <1>8, <2>1, <3>1 DEF CardInv
    <3> QED BY <1>8, <1>14, <2>1, <3>1, <3>5, <3>6
  <2>2. CASE k = n + 1
    <3>1. k + 1 = n + 2
      BY <1>8, <2>2
    <3>2. StartOf(k)' = c /\ StartOf(k + 1)' = next
      <4>1. pending'[k].page = c /\ k \in DOMAIN pending'
        BY <1>8, <2>2
      <4>2. StartOf(k)' = c
        BY <4>1 DEF StartOf
      <4>3. k + 1 \notin DOMAIN pending'
        BY <1>8, <3>1
      <4>4. StartOf(k + 1)' = next
        BY <1>9, <4>3 DEF StartOf
      <4> QED BY <4>2, <4>4
    <3>3. ring'[c] = [frame |-> frame, next |-> next]
      BY <1>1, <1>5
    <3> QED BY <1>8, <2>2, <3>2, <3>3 DEF next
  <2> QED BY <1>8, <2>1, <2>2
<1>16. FrameIntact'
  <2> SUFFICES ASSUME card_pc = "read"
               PROVE  rx.frame = pending'[1].frame /\ rx.next = StartOf(2)'
    BY DEF FrameIntact
  <2>1. n >= 1
    BY <1>6, <1>8 DEF CardInv
  <2>2. 1 \in 1 .. n /\ 2 \in 1 .. n + 1
    BY <1>8, <2>1
  <2> QED BY <1>8, <1>14, <2>2 DEF CardInv, FrameIntact
<1>17. StartOf(1)' = next_packet_page
  BY <1>1, <1>8, <1>14
<1>18. pending' # <<>>
  BY <1>8
<1>19. OuterIntact'
  <2> SUFFICES ASSUME loop.at \in Interrupted, loop.used # "received"
               PROVE  /\ card_pc = "idle"
                      /\ loop.at = "read" => /\ loop.rx.frame = pending'[1].frame
                                             /\ loop.rx.next = StartOf(2)'
    BY <1>18 DEF OuterIntact
  <2>1. /\ card_pc = "idle"
        /\ loop.at = "read" => /\ pending # <<>>
                               /\ loop.rx.frame = pending[1].frame
                               /\ loop.rx.next = StartOf(2)
    BY DEF CardInv, OuterIntact
  <2>2. loop.at = "read" => n >= 1
    BY <1>6, <1>8, <2>1
  <2>3. loop.at = "read" => 1 \in 1 .. n /\ 2 \in 1 .. n + 1
    BY <1>8, <2>2
  <2> QED BY <1>8, <1>14, <2>1, <2>3
<1> QED BY <1>8, <1>10, <1>11, <1>13, <1>15, <1>16, <1>17, <1>18, <1>19 DEF CardInv

\* The driver goes on to the page behind the frame it has read.
LEMMA DriverAdvances ==
    ASSUME CardInv, Advance
    PROVE  CardInv'
<1> DEFINE n == Len(pending)
           d == pending[1].pages
           p == next_packet_page
<1> USE DEF FromDriver
<1>1. /\ ne2k_found /\ pending # <<>>
      /\ RingSize \in Nat /\ RingSize >= 2
      /\ p \in Pages /\ reg.CURR \in Pages
      /\ SetUp /\ FramesInOrder /\ StartOf(1) = p
      /\ reg \in [Registers -> Nat]
      /\ pending \in Seq(Stored)
  BY RingFacts DEF CardInv, CardTypeOK, SetUp, Advance, Stored
<1>2. /\ n \in Nat /\ n >= 1 /\ DOMAIN pending = 1 .. n
      /\ \A k \in 1 .. n : /\ pending[k].page \in Pages
                           /\ pending[k].pages \in FramePages
                           /\ pending[k].pages \in Nat /\ pending[k].pages >= 1
  <2>1. n \in Nat /\ n >= 1 /\ DOMAIN pending = 1 .. n
    BY <1>1
  <2> QED BY <2>1, StoredFacts
<1>3. /\ card_pc' = "idle" /\ UNCHANGED <<ring, ne2k_found, loop>>
      /\ next_packet_page' = rx.next
      /\ reg' = [reg EXCEPT !.BNRY = Boundary(rx.next)]
      /\ rx' = Nothing
      /\ pending' = SubSeq(pending, 2, n)
  BY DEF Advance
<1>4. /\ pending' \in Seq(Stored)
      /\ DOMAIN pending' = 1 .. n - 1
      /\ \A k \in 1 .. n - 1 : pending'[k] = pending[k + 1]
  <2>1. pending' = Tail(pending)
    BY <1>1, <1>3, TailIsSubSeq
  <2> QED BY <1>1, <1>2, <2>1, HeadTailProperties
<1>5. rx.next = StartOf(2) /\ StartOf(2) = Beyond(p, d)
  <2>1. 1 \in DOMAIN pending
    BY <1>2
  <2>2. StartOf(1 + 1) = Beyond(StartOf(1), pending[1].pages)
    BY <2>1 DEF CardInv
  <2>3. rx.next = StartOf(2)
    BY DEF CardInv, FrameIntact, Advance
  <2> QED BY <1>1, <2>2, <2>3
<1>6. pending[1].page = p /\ Distance(p, p) = 0
  BY <1>1, <1>2, DistanceIs DEF StartOf
<1>7. /\ d \in Nat /\ d < RingSize - 1 /\ d <= Distance(p, reg.CURR)
      /\ Distance(p, reg.CURR) < RingSize - 1 /\ Distance(p, reg.CURR) \in Nat
  <2>1. Distance(p, reg.CURR) < RingSize - 1 /\ Distance(p, reg.CURR) \in Nat
    BY <1>1, DistanceIs DEF FramesInOrder
  <2>2. 1 \in 1 .. n /\ d \in Nat
    BY <1>2
  <2>3. Distance(p, pending[1].page) + d <= Distance(p, reg.CURR)
    BY <1>1, <1>2, <2>2 DEF FramesInOrder
  <2> QED BY <1>1, <1>6, <2>1, <2>2, <2>3
<1> DEFINE q == Beyond(p, d)
<1>8. q \in Pages /\ Distance(p, q) = d
  <2>1. Distance(p, p) + d < RingSize
    BY <1>1, <1>6, <1>7
  <2> QED BY <1>1, <1>6, <1>7, <2>1, DistanceIs
<1> HIDE DEF q
<1>9. next_packet_page' = q
  BY <1>3, <1>5 DEF q
<1>10. /\ reg' \in [Registers -> Nat] /\ reg'.BNRY = Boundary(q)
       /\ reg'.PSTART = reg.PSTART /\ reg'.PSTOP = reg.PSTOP /\ reg'.CURR = reg.CURR
  <2>1. Boundary(q) \in Nat
    BY <1>8, RingFacts DEF Boundary
  <2> QED BY <1>1, <1>3, <1>5, <2>1 DEF Registers, q
<1>11. CardTypeOK'
  <2>1. rx' \in Reads
    BY <1>3 DEF Nothing, Reads
  <2>2. ring' \in [Pages -> Reads]
        /\ ne2k_found' \in BOOLEAN
        /\ loop' \in [at : Interrupted \cup {"boot", "running"}, rx : Reads,
                      used : {"no", "polled", "received"}]
    BY <1>3 DEF CardInv, CardTypeOK
  <2> QED BY <1>3, <1>4, <1>8, <1>9, <1>10, <2>1, <2>2 DEF CardTypeOK, Stored
<1>12. SetUp'
  BY <1>1, <1>9, <1>10 DEF SetUp, Boundary
<1>13. Distance(q, reg.CURR) = Distance(p, reg.CURR) - d
  BY <1>1, <1>7, <1>8, DistanceShrinks
<1>14. ASSUME NEW k \in 1 .. n - 1
       PROVE  /\ Distance(q, pending'[k].page) = Distance(p, pending[k + 1].page) - d
              /\ Distance(p, pending[k + 1].page) \in Nat
              /\ k + 1 \in 1 .. n
  <2>1. k + 1 \in 1 .. n /\ 1 \in 1 .. n /\ 1 < k + 1
    BY <1>2
  <2>2. d <= Distance(p, pending[k + 1].page)
    <3>1. Distance(p, pending[1].page) + d <= Distance(p, pending[k + 1].page)
      BY <1>1, <1>2, <2>1 DEF FramesInOrder
    <3>2. 0 + d = d
      BY <1>7
    <3> QED BY <1>6, <3>1, <3>2
  <2>3. pending[k + 1].page \in Pages /\ pending'[k] = pending[k + 1]
    BY <1>2, <1>4, <2>1
  <2>4. Distance(p, q) <= Distance(p, pending[k + 1].page)
    BY <1>8, <2>2
  <2>5. Distance(q, pending[k + 1].page) = Distance(p, pending[k + 1].page) - d
    BY <1>1, <1>8, <2>3, <2>4, DistanceShrinks
  <2>6. Distance(p, pending[k + 1].page) \in Nat
    BY <1>1, <2>3, DistanceIs
  <2> QED BY <2>1, <2>3, <2>5, <2>6
<1>15. FramesInOrder'
  <2>1. ASSUME NEW k \in 1 .. n - 1
        PROVE  Distance(q, pending'[k].page) + pending'[k].pages <= Distance(q, reg.CURR)
    <3>1. Distance(p, pending[k + 1].page) + pending[k + 1].pages <= Distance(p, reg.CURR)
      BY <1>1, <1>2, <1>14 DEF FramesInOrder
    <3>2. pending[k + 1].pages \in Nat /\ pending'[k].pages = pending[k + 1].pages
      BY <1>2, <1>4, <1>14
    <3> QED BY <1>7, <1>13, <1>14, <3>1, <3>2
  <2>2. ASSUME NEW k \in 1 .. n - 1, NEW l \in 1 .. n - 1, k < l
        PROVE  Distance(q, pending'[k].page) + pending'[k].pages
                  <= Distance(q, pending'[l].page)
    <3>1. Distance(p, pending[k + 1].page) + pending[k + 1].pages
             <= Distance(p, pending[l + 1].page)
      <4>1. k + 1 \in DOMAIN pending /\ l + 1 \in DOMAIN pending /\ k + 1 < l + 1
        BY <1>2, <2>2
      <4> QED BY <1>1, <4>1 DEF FramesInOrder
    <3>2. pending[k + 1].pages \in Nat /\ pending'[k].pages = pending[k + 1].pages
      BY <1>2, <1>4, <1>14
    <3> QED BY <1>7, <1>14, <3>1, <3>2
  <2>3. Distance(q, reg.CURR) < RingSize - 1
    BY <1>1, <1>7, <1>13
  <2> HIDE DEF n
  <2> QED BY <1>4, <1>9, <1>10, <2>1, <2>2, <2>3 DEF FramesInOrder
<1>16. ASSUME NEW k \in 1 .. n
       PROVE  StartOf(k)' = StartOf(k + 1)
  <2>1. CASE k \in 1 .. n - 1
    <3>1. k + 1 \in DOMAIN pending /\ k \in DOMAIN pending' /\ pending'[k] = pending[k + 1]
      BY <1>2, <1>4, <2>1
    <3> QED BY <3>1 DEF StartOf
  <2>2. CASE k = n
    <3>1. k + 1 \notin DOMAIN pending /\ k \notin DOMAIN pending'
      BY <1>2, <1>4, <2>2
    <3> QED BY <1>10, <3>1 DEF StartOf
  <2>3. k \in 1 .. n - 1 \/ k = n
    <3>1. n \in Nat
      BY <1>2
    <3> HIDE DEF n
    <3> QED BY <3>1
  <2> QED BY <2>1, <2>2, <2>3
<1>17. ASSUME NEW k \in 1 .. n - 1
       PROVE  /\ ring'[StartOf(k)'] = [frame |-> pending'[k].frame,
                                            next |-> StartOf(k + 1)']
              /\ StartOf(k + 1)' = Beyond(StartOf(k)', pending'[k].pages)
  <2>1. k \in 1 .. n /\ k + 1 \in 1 .. n
    BY <1>2
  <2>2. /\ StartOf(k)' = StartOf(k + 1)
        /\ StartOf(k + 1)' = StartOf((k + 1) + 1)
    BY <1>16, <2>1
  <2>3. /\ ring[StartOf(k + 1)] = [frame |-> pending[k + 1].frame,
                                        next |-> StartOf((k + 1) + 1)]
        /\ StartOf((k + 1) + 1) =
              Beyond(StartOf(k + 1), pending[k + 1].pages)
    BY <1>2, <2>1 DEF CardInv
  <2> QED BY <1>3, <1>4, <2>2, <2>3
<1>18. StartOf(1)' = q
  BY <1>2, <1>5, <1>16 DEF q
<1>19. FrameIntact' /\ ne2k_found'
  BY <1>1, <1>3 DEF FrameIntact
<1>20. OuterIntact'
  BY <1>3 DEF CardInv, OuterIntact, Advance
<1> QED BY <1>3, <1>4, <1>9, <1>11, <1>12, <1>15, <1>17, <1>18, <1>19, <1>20 DEF CardInv

\* The driver reads CURR, and then the frame.
LEMMA DriverReads ==
    ASSUME CardInv, ReadCurr \/ ReadFrame
    PROVE  CardInv'
<1>1. UNCHANGED <<reg, ring, next_packet_page, ne2k_found, pending>>
  BY DEF ReadCurr, ReadFrame
<1>2. ne2k_found
  BY DEF ReadCurr, ReadFrame, CardInv
<1>3. pending # <<>>
  <2>1. CASE ReadCurr
    <3>1. StartOf(1) # reg.CURR
      BY <1>2, <2>1 DEF ReadCurr, CardInv
    <3> QED BY <3>1 DEF StartOf
  <2>2. CASE ReadFrame
    BY <2>2 DEF ReadFrame, CardInv
  <2> QED BY <2>1, <2>2
<1>4. /\ rx' \in Reads
      /\ card_pc' \in {"curr", "read"}
      /\ loop' \in [at : Interrupted \cup {"boot", "running"}, rx : Reads,
                    used : {"no", "polled", "received"}]
  BY DEF ReadCurr, ReadFrame, CardInv, CardTypeOK
<1>5. CardTypeOK'
  BY <1>1, <1>4 DEF CardInv, CardTypeOK
<1>6. FrameIntact'
  <2>1. CASE ReadCurr
    BY <2>1 DEF ReadCurr, FrameIntact
  <2>2. CASE ReadFrame
    <3>1. 1 \in DOMAIN pending
      BY <1>3 DEF CardInv, CardTypeOK
    <3>2. ring[StartOf(1)] = [frame |-> pending[1].frame, next |-> StartOf(2)]
      BY <3>1 DEF CardInv
    <3>3. rx' = ring[StartOf(1)]
      BY <1>2, <2>2 DEF ReadFrame, CardInv
    <3>4. StartOf(2)' = StartOf(2)
      BY <1>1 DEF StartOf
    <3> QED BY <1>1, <3>2, <3>3, <3>4 DEF FrameIntact
  <2> QED BY <2>1, <2>2
<1>7. (SetUp => SetUp') /\ (FramesInOrder => FramesInOrder')
  BY <1>1 DEF SetUp, FramesInOrder, FromDriver
<1>8. \A k : StartOf(k)' = StartOf(k)
  BY <1>1 DEF StartOf
<1>9. OuterIntact'
  <2>1. CASE ReadCurr
    BY <2>1 DEF ReadCurr, OuterIntact, CardInv, CardTypeOK
  <2>2. CASE ReadFrame
    BY <2>2 DEF ReadFrame, OuterIntact, CardInv
  <2> QED BY <2>1, <2>2
<1> QED BY <1>1, <1>2, <1>3, <1>4, <1>5, <1>6, <1>7, <1>8, <1>9 DEF CardInv

\* The desktop interrupts the idle loop, uses the card and is left: whatever the
\* interrupted call resumes with is in the ring, unless it is confused.
LEMMA DesktopInterrupts ==
    ASSUME CardInv,
           \/ IdleLoopBegins \/ KeyStartsDesktop \/ DesktopUsesCard \/ DesktopEnds
    PROVE  CardInv'
<1>1. UNCHANGED <<reg, ring, next_packet_page, ne2k_found, pending>>
  BY DEF IdleLoopBegins, KeyStartsDesktop, DesktopUsesCard, DesktopEnds
<1>2. /\ \A k : StartOf(k)' = StartOf(k)
      /\ (SetUp => SetUp') /\ (FramesInOrder => FramesInOrder')
  BY <1>1 DEF StartOf, SetUp, FramesInOrder, FromDriver
<1>3. Nothing \in Reads /\ rx \in Reads
      /\ loop \in [at : Interrupted \cup {"boot", "running"}, rx : Reads,
                   used : {"no", "polled", "received"}]
  BY DEF Nothing, Reads, CardInv, CardTypeOK
<1>4. ne2k_found /\ next_packet_page # reg.CURR => pending # <<>>
  BY DEF CardInv, StartOf
<1>5. /\ CardTypeOK' /\ FrameIntact' /\ OuterIntact'
      /\ ~ne2k_found => card_pc' = "idle" /\ loop'.at \notin {"curr", "read"}
      /\ card_pc' \in {"curr", "read"} => pending # <<>>
  <2>1. CASE IdleLoopBegins
    <3>1. card_pc' = card_pc /\ rx' = rx /\ loop' = [loop EXCEPT !.at = "running"]
      BY <2>1 DEF IdleLoopBegins
    <3>2. CardTypeOK'
      BY <1>1, <1>3, <3>1 DEF CardInv, CardTypeOK
    <3>3. loop'.at = "running"
      BY <1>3, <3>1
    <3>4. FrameIntact'
      BY <1>1, <1>2, <3>1 DEF CardInv, FrameIntact
    <3>5. OuterIntact'
      BY <3>3 DEF OuterIntact, Interrupted
    <3> QED BY <3>1, <3>2, <3>3, <3>4, <3>5 DEF CardInv
  <2>2. CASE KeyStartsDesktop
    <3>1. /\ card_pc' = "idle" /\ rx' = Nothing
          /\ loop' = [at |-> card_pc, rx |-> rx, used |-> "no"]
          /\ card_pc \in Interrupted
      BY <2>2 DEF KeyStartsDesktop, CardInv, CardTypeOK, Interrupted
    <3>2. CardTypeOK'
      BY <1>1, <1>3, <3>1 DEF CardInv, CardTypeOK
    <3>3. OuterIntact'
      BY <1>1, <1>2, <3>1 DEF CardInv, FrameIntact, OuterIntact, Interrupted
    <3> QED BY <3>1, <3>2, <3>3 DEF CardInv, FrameIntact
  <2>3. CASE DesktopUsesCard
    <3>1. /\ card_pc' = card_pc /\ rx' = rx /\ card_pc = "idle"
          /\ loop' = [loop EXCEPT !.used = "polled"] /\ loop.used = "no"
          /\ ne2k_found
      BY <2>3 DEF DesktopUsesCard
    <3>2. CardTypeOK'
      BY <1>1, <1>3, <3>1 DEF CardInv, CardTypeOK
    <3>3. loop'.at = loop.at /\ loop'.rx = loop.rx /\ loop'.used = "polled"
      BY <1>3, <3>1
    <3>4. OuterIntact'
      BY <1>1, <1>2, <3>1, <3>3 DEF CardInv, OuterIntact
    <3> QED BY <3>1, <3>2, <3>4 DEF CardInv, FrameIntact
  <2>4. CASE DesktopEnds
    <3>1. /\ loop' = [at |-> "running", rx |-> Nothing, used |-> "no"]
          /\ loop.at \in Interrupted /\ card_pc = "idle" /\ Resumes
      BY <2>4 DEF DesktopEnds
    <3>2. OuterIntact'
      BY <3>1 DEF OuterIntact, Interrupted
    <3>3. CASE card_pc' = "confused" /\ rx' = Nothing /\ loop.at # "idle"
      <4>1. CardTypeOK'
        BY <1>1, <1>3, <3>1, <3>3 DEF CardInv, CardTypeOK
      <4>2. ne2k_found
        BY <3>1, <3>3 DEF CardInv, Interrupted
      <4> QED BY <3>1, <3>2, <3>3, <4>1, <4>2 DEF FrameIntact
    <3>4. CASE /\ card_pc' = loop.at /\ rx' = loop.rx
               /\ \/ loop.at = "idle"
                  \/ loop.used # "received"
                  \/ loop.at = "curr" /\ next_packet_page # reg.CURR
      <4>1. CardTypeOK'
        BY <1>1, <1>3, <3>1, <3>4 DEF CardInv, CardTypeOK, Interrupted
      <4>2. ~ne2k_found => loop.at = "idle"
        BY <3>1 DEF CardInv, Interrupted
      <4>3. FrameIntact'
        BY <1>1, <1>2, <3>1, <3>4 DEF CardInv, FrameIntact, OuterIntact
      <4>4. loop.at \in {"curr", "read"} => pending # <<>>
        BY <1>4, <3>1, <3>4, <4>2 DEF CardInv, OuterIntact
      <4> QED BY <3>1, <3>2, <3>4, <4>1, <4>2, <4>3, <4>4
    <3> QED BY <3>1, <3>3, <3>4 DEF Resumes
  <2> QED BY <2>1, <2>2, <2>3, <2>4
<1> QED BY <1>1, <1>2, <1>5 DEF CardInv

\* Frames that lie one behind the other share no page.
LEMMA CardIsSound ==
    ASSUME CardInv
    PROVE  FramesIntact
<1>1. ASSUME NEW k \in DOMAIN pending, NEW l \in DOMAIN pending, k < l
      PROVE  PagesOf(k) \cap PagesOf(l) = {}
  <2> DEFINE a == pending[k].page
             b == pending[l].page
             m == pending[k].pages
             o == pending[l].pages
             p == next_packet_page
  <2>1. ne2k_found
    BY DEF CardInv
  <2>2. /\ a \in Pages /\ b \in Pages /\ m \in FramePages /\ o \in FramePages
        /\ p \in Pages
    BY StoredFacts DEF CardInv, CardTypeOK
  <2>3. /\ m \in Nat /\ o \in Nat /\ RingSize \in Nat
        /\ Distance(p, a) \in Nat /\ Distance(p, b) \in Nat /\ Distance(p, reg.CURR) \in Nat
        /\ Distance(p, a) + m <= Distance(p, b)
        /\ Distance(p, b) + o <= Distance(p, reg.CURR)
        /\ Distance(p, reg.CURR) < RingSize - 1
    BY <1>1, <2>1, <2>2, RingFacts, DistanceIs DEF CardInv, SetUp, FramesInOrder, FromDriver
  <2> SUFFICES ASSUME NEW i \in 0 .. m - 1, NEW j \in 0 .. o - 1
               PROVE  Beyond(a, i) # Beyond(b, j)
    BY DEF PagesOf, StartOf
  <2> HIDE DEF a, b, m, o, p
  <2>4. /\ i \in Nat /\ j \in Nat
        /\ Distance(p, a) + i < RingSize /\ Distance(p, b) + j < RingSize
        /\ Distance(p, a) + i < Distance(p, b) + j
    BY <2>3
  <2>5. /\ Distance(p, Beyond(a, i)) = Distance(p, a) + i
        /\ Distance(p, Beyond(b, j)) = Distance(p, b) + j
    BY <2>2, <2>4, DistanceIs
  <2> QED BY <2>3, <2>4, <2>5
<1>2. ASSUME NEW k \in DOMAIN pending, NEW l \in DOMAIN pending, k # l
      PROVE  PagesOf(k) \cap PagesOf(l) = {}
  <2>1. k \in Nat /\ l \in Nat
    BY DEF CardInv, CardTypeOK
  <2>2. k < l \/ l < k
    BY <1>2, <2>1
  <2> QED BY <1>1, <2>2
<1>3. RingHoldsFrames
  BY <1>2 DEF CardInv, RingHoldsFrames
<1>4. BoundaryBehind
  <2> SUFFICES ASSUME ne2k_found
               PROVE  /\ Beyond(reg.BNRY, 1) = next_packet_page
                      /\ reg.CURR # reg.BNRY
                      /\ pending = <<>> => \A n \in FramePages : Fits(n)
    BY DEF BoundaryBehind
  <2>1. next_packet_page \in Pages /\ SetUp /\ FramesInOrder
        /\ StartOf(1) = next_packet_page
    BY DEF CardInv, CardTypeOK
  <2>2. /\ FromDriver(reg.BNRY) = RingSize - 1
        /\ Beyond(reg.BNRY, 1) = next_packet_page
        /\ FreePages = RingSize - 1 - FromDriver(reg.CURR)
    BY <2>1, FreeIs DEF FramesInOrder
  <2>3. reg.CURR # reg.BNRY
    <3>1. FromDriver(reg.CURR) < RingSize - 1 /\ RingSize \in Nat
      BY <2>1, RingFacts DEF FramesInOrder
    <3>2. FromDriver(reg.CURR) \in Nat
      BY <2>1, DistanceIs DEF SetUp, FromDriver
    <3> QED BY <2>2, <3>1, <3>2
  <2>4. ASSUME pending = <<>>, NEW n \in FramePages
        PROVE  Fits(n)
    <3>1. reg.CURR = next_packet_page
      BY <2>1, <2>4 DEF StartOf
    <3>2. FromDriver(reg.CURR) = 0
      BY <2>1, <3>1, DistanceIs DEF FromDriver
    <3>3. n \in Nat /\ n < RingSize - 1 /\ RingSize \in Nat
      BY RingFacts
    <3> QED BY <2>2, <3>2, <3>3 DEF Fits
  <2> QED BY <2>2, <2>3, <2>4
<1> QED BY <1>3, <1>4 DEF CardInv, FramesIntact

\* drivers/ne2000.c, for every size of the ring and all frames that fit into
\* it: whatever the card stores while the driver reads, and wherever the desktop
\* interrupts the idle loop, as long as it has not used the card in the middle of
\* a frame: the frames lie in the ring in order, none over another; what the
\* driver hands over is the oldest one as it was stored; and BNRY stays behind
\* the driver and before the card.
THEOREM DriverReadsWhatCardStores == CardSpec => []FramesIntact
<1>1. CardInit => CardInv
  BY CardStarts
<1>2. CardInv /\ [CardNext]_cardVars => CardInv'
  <2> SUFFICES ASSUME CardInv, [CardNext]_cardVars
               PROVE  CardInv'
    OBVIOUS
  <2>1. CASE ne2k_init
    BY <2>1, CardIsSetUp
  <2>2. ASSUME NEW f \in Frames, NEW n \in FramePages, NEW b \in BOOLEAN,
               Arrive(f, n, b)
        PROVE  CardInv'
    <3>1. CASE Accepts(b) /\ Fits(n)
      BY <2>2, <3>1, FrameIsStored DEF Arrive
    <3>2. CASE ~(Accepts(b) /\ Fits(n))
      <4>1. UNCHANGED cardVars
        BY <2>2, <3>2 DEF Arrive, cardVars
      <4> QED BY <4>1 DEF cardVars, CardInv, CardTypeOK, FrameIntact, SetUp,
                          OuterIntact, FramesInOrder, FromDriver, StartOf
    <3> QED BY <3>1, <3>2
  <2>3. CASE ReadCurr \/ ReadFrame \/ Advance
    BY <2>3, DriverReads, DriverAdvances
  <2>5. CASE IdleLoopBegins \/ KeyStartsDesktop \/ DesktopUsesCard \/ DesktopEnds
    BY <2>5, DesktopInterrupts
  <2>4. CASE UNCHANGED cardVars
    BY <2>4 DEF cardVars, CardInv, CardTypeOK, FrameIntact, SetUp,
                OuterIntact, FramesInOrder, FromDriver, StartOf
  <2> QED BY <2>1, <2>2, <2>3, <2>4, <2>5 DEF CardNext
<1>3. CardInv => FramesIntact
  BY CardIsSound
<1> QED BY <1>1, <1>2, <1>3, PTL DEF CardSpec

-----------------------------------------------------------------------------
(* The search of the PCI bus. *)

\* Position p comes before the one that is probed next.
Before(p) == \/ p[1] < bus
             \/ p[1] = bus /\ p[2] < slot
             \/ p[1] = bus /\ p[2] = slot /\ p[3] < func

\* The inductive invariant: the card is at none of the positions behind us, and
\* beyond function 0 we are only in a slot that has one.
SearchInv ==
    /\ BusTypeOK /\ FindsTheCard
    /\ probe_pc = "probe" =>
          /\ \A p \in Positions : Before(p) => ~(IsWanted(p) /\ Reachable(p))
          /\ func # 0 => config[<<bus, slot, 0>>].low # Absent

LEMMA BusFacts ==
    /\ BUSES \in Nat /\ SLOTS \in Nat /\ FUNCS \in Nat
    /\ BUSES > 0 /\ SLOTS > 0 /\ FUNCS > 0
    /\ \A p : p \in Positions <=>
          /\ p = <<p[1], p[2], p[3]>>
          /\ p[1] \in Nat /\ p[1] < BUSES
          /\ p[2] \in Nat /\ p[2] < SLOTS
          /\ p[3] \in Nat /\ p[3] < FUNCS
  BY PciAssumption DEF Positions

\* The counters are wide enough for the next value of the loop.
LEMMA NothingWraps ==
    ASSUME NEW n \in Nat, NEW max \in Nat, NEW k \in Nat, n < max, k >= 2
    PROVE  (n + 1) % (k * max) = n + 1
<1> DEFINE w == k * max
<1>1. w \in Nat /\ w >= 2 * max
  OBVIOUS
<1>2. n + 1 \in Nat /\ n + 1 < w
  BY <1>1
<1> HIDE DEF w
<1>3. (n + 1) % w = n + 1
  BY <1>1, <1>2
<1> QED BY <1>3 DEF w

\* The three ways on from a position.
LEMMA WaysOn ==
    ASSUME NextFunc \/ NextSlot, <<bus, slot, func>> \in Positions
    PROVE  \/ /\ NextFunc /\ func + 1 < FUNCS
              /\ func' = func + 1 /\ UNCHANGED <<bus, slot, probe_pc>>
           \/ /\ NextSlot \/ func + 1 = FUNCS
              /\ func' = 0
              /\ \/ slot + 1 < SLOTS /\ slot' = slot + 1 /\ UNCHANGED <<bus, probe_pc>>
                 \/ /\ slot + 1 = SLOTS /\ slot' = 0 /\ bus' = bus + 1
                    /\ probe_pc' = IF bus + 1 < BUSES THEN "probe" ELSE "absent"
<1>1. /\ bus \in Nat /\ bus < BUSES /\ slot \in Nat /\ slot < SLOTS
      /\ func \in Nat /\ func < FUNCS
  BY BusFacts
<1>2. /\ (bus + 1) % Widths.bus = bus + 1 /\ (slot + 1) % Widths.slot = slot + 1
      /\ (func + 1) % Widths.func = func + 1
  <2>1. Widths.bus = 256 * BUSES /\ Widths.slot = 8 * SLOTS /\ Widths.func = 32 * FUNCS
    BY DEF Widths
  <2>2. (bus + 1) % (256 * BUSES) = bus + 1
    BY <1>1, BusFacts, NothingWraps
  <2>3. (slot + 1) % (8 * SLOTS) = slot + 1
    BY <1>1, BusFacts, NothingWraps
  <2>4. (func + 1) % (32 * FUNCS) = func + 1
    BY <1>1, BusFacts, NothingWraps
  <2> QED BY <2>1, <2>2, <2>3, <2>4
<1>3. NextSlot => /\ func' = 0
                  /\ \/ slot + 1 < SLOTS /\ slot' = slot + 1 /\ UNCHANGED <<bus, probe_pc>>
                     \/ /\ slot + 1 = SLOTS /\ slot' = 0 /\ bus' = bus + 1
                        /\ probe_pc' = IF bus + 1 < BUSES THEN "probe" ELSE "absent"
  BY <1>1, <1>2, BusFacts DEF NextSlot
<1>4. CASE NextSlot
  BY <1>3, <1>4
<1>5. CASE NextFunc
  <2>1. CASE func + 1 < FUNCS
    BY <1>2, <1>5, <2>1 DEF NextFunc
  <2>2. CASE ~(func + 1 < FUNCS)
    <3>1. func + 1 = FUNCS /\ NextSlot
      BY <1>1, <1>2, <1>5, <2>2, BusFacts DEF NextFunc
    <3> QED BY <1>3, <3>1
  <2> QED BY <2>1, <2>2
<1> QED BY <1>4, <1>5

LEMMA FuncStep ==
    ASSUME NextFunc, func \in Nat, func + 1 < FUNCS
    PROVE  func' = func + 1
<1>1. (func + 1) % (32 * FUNCS) = func + 1
  BY BusFacts, NothingWraps
<1>2. Widths.func = 32 * FUNCS
  BY DEF Widths
<1> QED BY <1>1, <1>2 DEF NextFunc

\* Every probe but the last is of a position further on.
LEMMA PlaceGrows ==
    ASSUME BusTypeOK, Probe, probe_pc' = "probe"
    PROVE  Place' > Place
<1>1. <<bus, slot, func>> \in Positions /\ (NextFunc \/ NextSlot)
  BY DEF Probe, BusTypeOK, EmptyProbe
<1>2. /\ bus \in Nat /\ bus < BUSES /\ slot \in Nat /\ slot < SLOTS
      /\ func \in Nat /\ func < FUNCS
  BY <1>1, BusFacts
<1> DEFINE b == bus  s == slot  f == func  b2 == bus'  s2 == slot'  f2 == func'
<1>3. \/ b2 = b /\ s2 = s /\ f2 = f + 1
      \/ b2 = b /\ s2 = s + 1 /\ f2 = 0
      \/ b2 = b + 1 /\ s2 = 0 /\ s + 1 = SLOTS /\ f2 = 0
  BY <1>1, WaysOn
<1>4. Place = (b * SLOTS + s) * FUNCS + f /\ Place' = (b2 * SLOTS + s2) * FUNCS + f2
  BY DEF Place
<1> HIDE DEF b, s, f, b2, s2, f2
<1>5. /\ b \in Nat /\ s \in Nat /\ f \in Nat /\ f < FUNCS
      /\ SLOTS \in Nat /\ FUNCS \in Nat
  BY <1>2, BusFacts DEF b, s, f
<1> DEFINE row  == b * SLOTS + s
           row2 == b2 * SLOTS + s2
<1>6. \/ row2 = row /\ f2 = f + 1
      \/ row2 = row + 1 /\ f2 = 0
  <2>1. CASE b2 = b /\ s2 = s /\ f2 = f + 1
    BY <2>1
  <2>2. CASE b2 = b /\ s2 = s + 1 /\ f2 = 0
    BY <1>5, <2>2
  <2>3. CASE b2 = b + 1 /\ s2 = 0 /\ s + 1 = SLOTS /\ f2 = 0
    <3>1. (b + 1) * SLOTS = b * SLOTS + SLOTS
      BY <1>5
    <3>2. b * SLOTS \in Nat
      BY <1>5
    <3> QED BY <1>5, <2>3, <3>1, <3>2
  <2> QED BY <1>3, <2>1, <2>2, <2>3
<1>7. row \in Nat
  BY <1>5
<1>8. Place = row * FUNCS + f /\ Place' = row2 * FUNCS + f2
  BY <1>4
<1> HIDE DEF row, row2
<1>9. (row + 1) * FUNCS = row * FUNCS + FUNCS /\ row * FUNCS \in Nat
  BY <1>5, <1>7
<1> DEFINE area == row * FUNCS
<1> HIDE DEF area
<1>10. \/ Place' = area + f + 1
       \/ Place' = area + FUNCS
  BY <1>5, <1>6, <1>8, <1>9 DEF area
<1>11. Place = area + f /\ area \in Nat
  BY <1>8, <1>9 DEF area
<1> QED BY <1>5, <1>10, <1>11

LEMMA InitSearch == BusInit => SearchInv
<1> SUFFICES ASSUME BusInit PROVE SearchInv
  OBVIOUS
<1>1. <<0, 0, 0>> \in Positions
  BY BusFacts
<1>2. \A p \in Positions : ~Before(p)
  BY BusFacts DEF Before, BusInit
<1>3. BusTypeOK /\ FindsTheCard
  BY <1>1 DEF BusInit, BusTypeOK, FindsTheCard
<1> QED BY <1>2, <1>3 DEF SearchInv, BusInit

LEMMA ProbeSearches ==
    ASSUME SearchInv, Probe
    PROVE  SearchInv'
<1> DEFINE here == <<bus, slot, func>>
<1>1. probe_pc = "probe" /\ here \in Positions /\ config' = config
  BY DEF Probe, SearchInv, BusTypeOK
<1>2. /\ bus \in Nat /\ bus < BUSES /\ slot \in Nat /\ slot < SLOTS
      /\ func \in Nat /\ func < FUNCS
  BY <1>1, BusFacts
<1>3. config \in [Positions -> Cards] /\ found \in Positions \cup {<<>>}
  BY DEF SearchInv, BusTypeOK
<1>4. /\ \A p \in Positions : Before(p) => ~(IsWanted(p) /\ Reachable(p))
      /\ func # 0 => config[<<bus, slot, 0>>].low # Absent
  BY <1>1 DEF SearchInv
<1>5. /\ pci_config_read_word(here, 0) = config[here].low
      /\ pci_config_read_word(here, 2) = config[here].high
  BY DEF pci_config_read_word
<1>6. CASE Matches(here) /\ config[here].low # Absent
  <2>1. found' = here /\ probe_pc' = "found" /\ UNCHANGED <<bus, slot, func>>
    BY <1>5, <1>6 DEF Probe
  <2>2. IsWanted(here)
    BY <1>5, <1>6 DEF Matches, IsWanted
  <2>3. IsWanted(found)'
    BY <1>1, <2>1, <2>2 DEF IsWanted
  <2> QED BY <1>1, <1>3, <2>1, <2>3 DEF SearchInv, BusTypeOK, FindsTheCard
<1>7. CASE ~(Matches(here) /\ config[here].low # Absent)
  <2>1. /\ IF config[here].low = Absent THEN EmptyProbe ELSE NextFunc
        /\ found' = found
    BY <1>5, <1>7 DEF Probe
  <2>2. NextFunc \/ NextSlot
    BY <2>1 DEF EmptyProbe
  <2>3. ~IsWanted(here)
    BY <1>5, <1>7 DEF Matches, IsWanted, Wanted, Absent
  <2> DEFINE zero == config[<<bus, slot, 0>>].low
  <2>4. \/ /\ func + 1 < FUNCS /\ zero # Absent
           /\ func' = func + 1 /\ UNCHANGED <<bus, slot, probe_pc>>
        \/ /\ func + 1 = FUNCS \/ zero = Absent
           /\ func' = 0
           /\ \/ slot + 1 < SLOTS /\ slot' = slot + 1 /\ UNCHANGED <<bus, probe_pc>>
              \/ /\ slot + 1 = SLOTS /\ slot' = 0 /\ bus' = bus + 1
                 /\ probe_pc' = IF bus + 1 < BUSES THEN "probe" ELSE "absent"
    <3>1. CASE func = 0 /\ config[here].low = Absent
      <4>1. NextSlot /\ zero = Absent
        BY <2>1, <3>1 DEF EmptyProbe
      <4>2. func' = 0
        BY <4>1 DEF NextSlot
      <4> QED BY <1>1, <1>2, <2>2, <3>1, <4>1, <4>2, WaysOn
    <3>2. CASE ~(func = 0 /\ config[here].low = Absent)
      <4>1. NextFunc
        BY <2>1, <3>2 DEF EmptyProbe
      <4>2. zero # Absent
        BY <1>4, <3>2
      <4>3. func + 1 < FUNCS => func' = func + 1
        BY <1>2, <4>1, FuncStep
      <4>4. CASE func + 1 < FUNCS
        <5>1. func' = func + 1 /\ func + 1 # 0
          BY <1>2, <4>3, <4>4
        <5>2. UNCHANGED <<bus, slot, probe_pc>>
          BY <1>1, <4>1, <5>1, WaysOn
        <5> QED BY <4>2, <4>4, <5>1, <5>2
      <4>5. CASE ~(func + 1 < FUNCS)
        <5>1. func + 1 = FUNCS
          BY <1>2, <4>5, BusFacts
        <5> QED BY <1>1, <4>1, <4>5, <5>1, WaysOn
      <4> QED BY <4>4, <4>5
    <3> QED BY <3>1, <3>2
  <2>5. ASSUME NEW p \in Positions, Before(p) \/ p = here
        PROVE  ~(IsWanted(p) /\ Reachable(p))
    BY <1>4, <2>3, <2>5
  <2>6. ASSUME NEW p \in Positions
        PROVE  /\ p = <<p[1], p[2], p[3]>>
               /\ p[1] \in Nat /\ p[1] < BUSES /\ p[2] \in Nat /\ p[2] < SLOTS
               /\ p[3] \in Nat /\ p[3] < FUNCS
    BY BusFacts
  <2> HIDE DEF here
  <2>7. CASE /\ func + 1 < FUNCS /\ zero # Absent
             /\ func' = func + 1 /\ UNCHANGED <<bus, slot, probe_pc>>
    <3>1. <<bus, slot, func>>' \in Positions
      BY <1>2, <2>7, BusFacts
    <3>2. BusTypeOK'
      BY <1>1, <1>3, <2>1, <2>7, <3>1 DEF BusTypeOK
    <3>3. ASSUME NEW p \in Positions, Before(p)'
          PROVE  Before(p) \/ p = here
      <4>1. \/ p[1] < bus
            \/ p[1] = bus /\ p[2] < slot
            \/ p[1] = bus /\ p[2] = slot /\ p[3] < func + 1
        BY <2>7, <3>3 DEF Before
      <4>2. p[3] < func + 1 => p[3] < func \/ p[3] = func
        BY <1>2, <2>6
      <4> QED BY <2>6, <4>1, <4>2 DEF Before, here
    <3>4. func' # 0 /\ probe_pc' = "probe" /\ config'[<<bus', slot', 0>>].low # Absent
      BY <1>1, <1>2, <2>7
    <3>5. \A p \in Positions : Before(p)' => ~(IsWanted(p) /\ Reachable(p))'
      BY <1>1, <2>5, <3>3 DEF IsWanted, Reachable
    <3>6. FindsTheCard'
      BY <3>4 DEF FindsTheCard
    <3> QED BY <3>2, <3>4, <3>5, <3>6 DEF SearchInv
  <2>8. CASE /\ func + 1 = FUNCS \/ zero = Absent
             /\ func' = 0
             /\ \/ slot + 1 < SLOTS /\ slot' = slot + 1 /\ UNCHANGED <<bus, probe_pc>>
                \/ /\ slot + 1 = SLOTS /\ slot' = 0 /\ bus' = bus + 1
                   /\ probe_pc' = IF bus + 1 < BUSES THEN "probe" ELSE "absent"
    <3>1. ASSUME NEW p \in Positions, \/ p[1] < bus
                                      \/ p[1] = bus /\ p[2] < slot
                                      \/ p[1] = bus /\ p[2] = slot
          PROVE  ~(IsWanted(p) /\ Reachable(p))
      <4>1. CASE p[1] < bus \/ (p[1] = bus /\ p[2] < slot)
        BY <2>5, <4>1 DEF Before
      <4>2. CASE p[1] = bus /\ p[2] = slot /\ zero = Absent
        BY <4>2 DEF Reachable
      <4>3. CASE p[1] = bus /\ p[2] = slot /\ func + 1 = FUNCS
        <5>1. p[3] < func \/ p[3] = func
          BY <1>2, <2>6, <4>3
        <5>2. Before(p) \/ p = here
          BY <2>6, <4>3, <5>1 DEF Before, here
        <5> QED BY <2>5, <5>2
      <4> QED BY <2>8, <3>1, <4>1, <4>2, <4>3
    <3>2. ASSUME probe_pc' = "probe"
          PROVE  <<bus, slot, func>>' \in Positions
      BY <1>2, <2>8, <3>2, BusFacts
    <3>3. probe_pc' \in {"probe", "absent"}
      BY <1>1, <2>8
    <3>4. BusTypeOK'
      BY <1>1, <1>3, <2>1, <3>2, <3>3 DEF BusTypeOK
    <3>5. ASSUME NEW p \in Positions, Before(p)'
          PROVE  \/ p[1] < bus
                 \/ p[1] = bus /\ p[2] < slot
                 \/ p[1] = bus /\ p[2] = slot
      <4>1. \/ p[1] < bus'
            \/ p[1] = bus' /\ p[2] < slot'
            \/ p[1] = bus' /\ p[2] = slot' /\ p[3] < 0
        BY <2>8, <3>5 DEF Before
      <4>2. ~(p[3] < 0)
        BY <2>6
      <4> QED BY <1>2, <2>6, <2>8, <4>1, <4>2
    <3>6. \A p \in Positions : Before(p)' => ~(IsWanted(p) /\ Reachable(p))'
      BY <1>1, <3>1, <3>5 DEF IsWanted, Reachable
    <3>7. ASSUME probe_pc' = "absent", NEW p \in Positions
          PROVE  ~(IsWanted(p) /\ Reachable(p))'
      <4>1. bus + 1 = BUSES /\ slot + 1 = SLOTS
        BY <1>1, <1>2, <2>8, <3>7, BusFacts
      <4>2. p[1] < bus \/ (p[1] = bus /\ (p[2] < slot \/ p[2] = slot))
        BY <1>2, <2>6, <4>1
      <4> QED BY <1>1, <3>1, <4>2 DEF IsWanted, Reachable
    <3>8. FindsTheCard'
      BY <3>3, <3>7 DEF FindsTheCard
    <3> QED BY <2>8, <3>4, <3>6, <3>8 DEF SearchInv
  <2> QED BY <2>4, <2>7, <2>8
<1> QED BY <1>6, <1>7

\* drivers/pci.c, for any numbers of buses, slots and functions: the search goes
\* on to a later position with every probe, and ends with the card if there is
\* one in a slot with a function 0.
THEOREM SearchFindsTheCard == BusSpec => SearchSound
<1>1. BusInit => SearchInv
  BY InitSearch
<1>2. SearchInv /\ [BusNext]_busVars => SearchInv'
  <2> SUFFICES ASSUME SearchInv, [BusNext]_busVars PROVE SearchInv'
    OBVIOUS
  <2>1. CASE Probe
    BY <2>1, ProbeSearches
  <2>2. CASE UNCHANGED busVars
    BY <2>2 DEF busVars, SearchInv, BusTypeOK, FindsTheCard, Before, IsWanted, Reachable
  <2> QED BY <2>1, <2>2 DEF BusNext
<1>3. SearchInv => BusTypeOK /\ FindsTheCard
  BY DEF SearchInv
<1>4. SearchInv /\ [BusNext]_busVars => [probe_pc' = "probe" => Place' > Place]_busVars
  BY PlaceGrows DEF SearchInv, BusNext
<1> QED BY <1>1, <1>2, <1>3, <1>4, PTL DEF BusSpec, SearchSound

-----------------------------------------------------------------------------
\* The checksums.  M is the number the sums count in: one's complement addition
\* of words is addition modulo W - 1.
M == W - 1

LEMMA WordSizes ==
    /\ B \in Nat /\ B >= 2 /\ W \in Nat /\ W = B * B /\ W >= 4
    /\ M \in Nat /\ M = W - 1 /\ M >= 3
<1>1. B \in Nat /\ B >= 2
  BY ChecksumAssumption
<1>2. B * B \in Nat /\ B * B >= 4
  <2>1. B * B >= 2 * B
    BY <1>1
  <2> QED
    BY <1>1, <2>1
<1> QED
  BY <1>1, <1>2 DEF W, M

\* A number and the two parts its division by another leaves.
LEMMA Division ==
    ASSUME NEW d \in Nat \ {0}, NEW n \in Int
    PROVE  n \div d \in Int /\ n % d \in 0 .. d - 1 /\ n = d * (n \div d) + (n % d)
  OBVIOUS

LEMMA Divided ==
    ASSUME NEW n \in Nat, NEW d \in Nat, d > 0
    PROVE  /\ n \div d \in Nat /\ n % d \in 0 .. d - 1
           /\ n = d * (n \div d) + (n % d)
<1> DEFINE q == n \div d
           r == n % d
<1>1. q \in Int /\ r \in 0 .. d - 1 /\ n = d * q + r
  <2>1. d \in Nat \ {0} /\ n \in Int
    OBVIOUS
  <2> QED
    BY <2>1, Division
<1> HIDE DEF q, r
<1>2. q >= 0
  <2> SUFFICES ASSUME q <= -1 PROVE FALSE
    BY <1>1
  <2>1. d * (-q) >= d /\ d * q = -(d * (-q))
    BY <1>1
  <2> QED
    BY <1>1, <2>1
<1> QED
  BY <1>1, <1>2 DEF q, r

\* Adding the carries in keeps the sum modulo M, and a sum that is not 0.
Carried(n) == (n % W) + (n \div W)

LEMMA CarryShrinks ==
    ASSUME NEW n \in Nat, n >= W
    PROVE  /\ Carried(n) \in Nat /\ Carried(n) < n /\ Carried(n) > 0
           /\ n = Carried(n) + (n \div W) * M /\ n \div W \in Nat
<1>1. /\ n \div W \in Nat /\ n % W \in 0 .. W - 1
      /\ n = W * (n \div W) + (n % W)
  BY WordSizes, Divided
<1> DEFINE q == n \div W
           r == n % W
<1>2. q \in Nat /\ r \in Nat /\ r < W /\ n = W * q + r
  BY <1>1, WordSizes
<1> HIDE DEF q, r
<1>3. q > 0
  <2>1. CASE q = 0
    <3>1. W * q = 0
      BY <2>1, WordSizes
    <3> QED
      BY <1>2, <3>1, WordSizes
  <2> QED
    BY <1>2, <2>1
<1>4. W * q = q * M + q
  BY <1>2, WordSizes
<1>5. q * M >= 3
  <2>1. q * M >= M /\ q * M \in Nat
    BY <1>2, <1>3, WordSizes
  <2>2. M >= 3 /\ M \in Nat
    BY WordSizes
  <2> QED
    BY <2>1, <2>2
<1>6. Carried(n) = r + q
  BY DEF Carried, q, r
<1>7. q * M \in Nat
  BY <1>2, WordSizes
<1> QED
  BY <1>2, <1>3, <1>4, <1>5, <1>6, <1>7 DEF q

\* The loop of the carries has a result for every sum.
LEMMA FoldIs ==
    ASSUME NEW n \in Nat
    PROVE  Fold(n) = IF n < W THEN n ELSE Fold(Carried(n))
<1> DEFINE Base == 0 .. W - 1
           first == [k \in Base |-> k]
           prev == [k \in Nat \ Base |-> Carried(k)]
           step == [k \in Nat \ Base |-> [x \in Nat |-> x]]
           Is(g) == g = [k \in Nat |-> IF k < W THEN k ELSE g[(k % W) + (k \div W)]]
           f == CHOOSE g : Is(g)
<1>1. \A k \in Nat : k \in Base <=> k < W
  BY WordSizes
<1>2. Base \in SUBSET Nat /\ first \in [Base -> Nat] /\ step \in [Nat \ Base -> [Nat -> Nat]]
  BY WordSizes
<1>3. \A k \in Nat \ Base : Carried(k) \in Nat /\ Carried(k) < k
  BY <1>1, CarryShrinks, WordSizes
<1>4. prev \in [Nat \ Base -> Nat] /\ \A k \in Nat \ Base : prev[k] < k
  BY <1>3
<1>5. \E g : Is(g)
  <2>1. PICK g : IsRecursive(g, Nat, Nat, Base, first, prev, step)
    <3>1. Nat \in SUBSET Nat
      OBVIOUS
    <3>2. Base \in SUBSET Nat /\ first \in [Base -> Nat]
      BY <1>2
    <3>3. step \in [Nat \ Base -> [Nat -> Nat]]
      BY <1>2
    <3>4. prev \in [Nat \ Base -> Nat]
      BY <1>4
    <3>5. \A k \in Nat \ Base : prev[k] < k
      BY <1>4
    <3> HIDE DEF Base, first, prev, step
    <3> QED
      BY <3>1, <3>2, <3>3, <3>4, <3>5, RecursionExists
  <2>2. /\ g \in [Nat -> Nat]
        /\ \A k \in Nat : g[k] =
             IF k \in Base THEN first[k] ELSE step[k][g[prev[k]]]
    BY <2>1 DEF IsRecursive
  <2>3. ASSUME NEW k \in Nat PROVE g[k] = IF k < W THEN k ELSE g[(k % W) + (k \div W)]
    <3>1. CASE k < W
      BY <1>1, <2>2, <3>1
    <3>2. CASE ~(k < W)
      <4>1. k \in Nat \ Base
        BY <1>1, <3>2
      <4>2. prev[k] = Carried(k) /\ Carried(k) \in Nat
        BY <1>3, <4>1
      <4>3. g[k] = g[Carried(k)]
        BY <2>2, <4>1, <4>2
      <4> QED
        BY <3>2, <4>3 DEF Carried
    <3> QED
      BY <3>1, <3>2
  <2>4. Is(g)
    BY <2>2, <2>3
  <2> QED
    BY <2>4
<1>6. Is(f)
  <2> HIDE DEF Is
  <2> QED
    BY <1>5
<1>7. \A k \in Nat : Fold(k) = f[k]
  BY Zenon DEF Fold
<1>8. f[n] = IF n < W THEN n ELSE f[Carried(n)]
  <2> HIDE DEF f
  <2> QED
    BY <1>6 DEF Carried
<1> HIDE DEF f
<1>9. CASE n < W
  BY <1>7, <1>8, <1>9
<1>10. CASE ~(n < W)
  <2>1. Carried(n) \in Nat
    BY <1>1, <1>3, <1>10
  <2> QED
    BY <1>7, <1>8, <1>10, <2>1
<1> QED
  BY <1>9, <1>10

LEMMA FoldIsRemainder ==
    ASSUME NEW n \in Nat
    PROVE  /\ Fold(n) \in 0 .. M /\ \E q \in Nat : n = Fold(n) + q * M
           /\ n > 0 => Fold(n) > 0
<1> DEFINE Good(k) == /\ Fold(k) \in 0 .. M /\ \E q \in Nat : k = Fold(k) + q * M
                      /\ k > 0 => Fold(k) > 0
           P == {k \in Nat : Good(k)}
<1>1. ASSUME NEW k \in Nat, \A j \in Nat : j < k => j \in P PROVE k \in P
  <2>1. CASE k < W
    <3>1. Fold(k) = k
      BY <2>1, FoldIs
    <3>2. k = Fold(k) + 0 * M
      BY <3>1, WordSizes
    <3>3. k \in 0 .. M
      BY <2>1, WordSizes
    <3> QED
      BY <3>1, <3>2, <3>3
  <2>2. CASE ~(k < W)
    <3>0. k >= W
      BY <2>2, WordSizes
    <3>1. /\ Carried(k) \in Nat /\ Carried(k) < k /\ Carried(k) > 0
          /\ k = Carried(k) + (k \div W) * M /\ k \div W \in Nat
      BY <3>0, CarryShrinks
    <3>2. Fold(k) = Fold(Carried(k))
      BY <2>2, FoldIs
    <3>3. Good(Carried(k))
      <4>1. Carried(k) \in P
        BY <1>1, <3>1
      <4> QED
        BY <4>1
    <3>4. PICK q \in Nat : Carried(k) = Fold(Carried(k)) + q * M
      BY <3>3
    <3> DEFINE d == k \div W
    <3>5. k = Fold(k) + (q + d) * M
      <4>1. k = Carried(k) + d * M /\ d \in Nat /\ Fold(k) \in Nat
        BY <3>1, <3>2, <3>3, WordSizes
      <4> HIDE DEF d
      <4>2. (q + d) * M = q * M + d * M
        BY <4>1, WordSizes
      <4> QED
        BY <3>2, <3>4, <4>1, <4>2, WordSizes
    <3>6. q + d \in Nat
      BY <3>1
    <3> QED
      BY <3>1, <3>2, <3>3, <3>5, <3>6
  <2> QED
    BY <2>1, <2>2
<1>2. Nat \subseteq P
  <2> HIDE DEF P
  <2> QED
    BY <1>1, StrongInduction
<1> QED
  BY <1>2

-----------------------------------------------------------------------------
\* The sum of words is the last of the sums of their beginnings.
IsTotal(f, words) ==
    /\ f \in [0 .. Len(words) -> Nat] /\ f[0] = 0
    /\ \A k \in 1 .. Len(words) : f[k] = f[k - 1] + words[k]
    /\ Total(words) = f[Len(words)]

LEMMA TotalIs ==
    ASSUME NEW words \in Seq(Nat)
    PROVE  \E f : IsTotal(f, words)
<1> DEFINE n == Len(words)
           step == [k \in 1 .. n |-> [x \in Nat |-> x + words[k]]]
           Is(g) == g = [k \in 0 .. n |-> IF k = 0 THEN 0 ELSE g[k - 1] + words[k]]
           f == CHOOSE g : Is(g)
<1>1. n \in Nat /\ \A k \in 1 .. n : words[k] \in Nat
  BY LenProperties, ElementOfSeq
<1>2. step \in [1 .. n -> [Nat -> Nat]]
  <2> SUFFICES ASSUME NEW k \in 1 .. n PROVE [x \in Nat |-> x + words[k]] \in [Nat -> Nat]
    OBVIOUS
  <2>1. words[k] \in Nat
    BY <1>1
  <2> QED
    BY <2>1
<1>3. \A k \in 1 .. n : \A x \in Nat : step[k][x] = x + words[k]
  OBVIOUS
<1> HIDE DEF step, n
<1>4. PICK g : IsLoop(g, n, Nat, 0, step)
  BY <1>1, <1>2, LoopExists
<1>5. Is(g)
  <2>1. /\ g \in [0 .. n -> Nat] /\ g[0] = 0
        /\ \A k \in 1 .. n : g[k] = step[k][g[k - 1]]
    BY <1>4 DEF IsLoop
  <2>2. ASSUME NEW k \in 0 .. n PROVE g[k] = IF k = 0 THEN 0 ELSE g[k - 1] + words[k]
    <3>1. CASE k = 0
      BY <2>1, <3>1
    <3>2. CASE k # 0
      <4>1. k \in 1 .. n /\ k - 1 \in 0 .. n
        BY <1>1, <3>2
      <4>2. g[k - 1] \in Nat
        BY <2>1, <4>1
      <4> QED
        BY <1>3, <2>1, <3>2, <4>1, <4>2
    <3> QED
      BY <3>1, <3>2
  <2> QED
    BY <2>1, <2>2
<1>6. Is(f)
  <2> HIDE DEF Is
  <2> QED
    BY <1>5
<1>7. Total(words) = f[n]
  BY Zenon DEF Total, n
<1> HIDE DEF f
<1>8. \A k \in 0 .. n : f[k] = IF k = 0 THEN 0 ELSE f[k - 1] + words[k]
  BY <1>6
<1>9. f[0] = 0 /\ \A k \in 1 .. n : f[k] = f[k - 1] + words[k]
  BY <1>1, <1>8
<1>10. f \in [0 .. n -> Nat]
  <2> DEFINE P == {k \in 0 .. n : f[k] \in Nat}
  <2>1. 0 \in P
    BY <1>1, <1>9
  <2>2. ASSUME NEW k \in 1 .. n, k - 1 \in P PROVE k \in P
    <3>1. k \in 0 .. n /\ f[k - 1] \in Nat /\ words[k] \in Nat
      BY <1>1, <2>2
    <3> QED
      BY <1>9, <3>1
  <2>3. \A k \in 0 .. n : k \in P
    <3> HIDE DEF P
    <3> QED
      BY <1>1, <2>1, <2>2, InductionTo
  <2>4. \A k \in 0 .. n : f[k] \in Nat
    BY <2>3
  <2>5. f = [k \in 0 .. n |-> f[k]]
    BY <1>6
  <2> QED
    BY <2>4, <2>5
<1> QED
  BY <1>7, <1>9, <1>10 DEF IsTotal, n

\* Words that agree modulo M, up to a factor, have sums that do.
LEMMA TotalsAgree ==
    ASSUME NEW t \in Seq(Nat), NEW u \in Seq(Nat), NEW c \in Nat,
           Len(t) = Len(u), NEW h \in [1 .. Len(t) -> Nat],
           \A k \in 1 .. Len(t) : c * u[k] = t[k] + M * h[k]
    PROVE  \E q \in Nat : c * Total(u) = Total(t) + M * q
<1> DEFINE n == Len(t)
<1>1. n \in Nat /\ \A k \in 1 .. n : t[k] \in Nat /\ u[k] \in Nat
  BY LenProperties, ElementOfSeq
<1>2. PICK f : IsTotal(f, t)
  BY TotalIs
<1>3. PICK g : IsTotal(g, u)
  BY TotalIs
<1>4. /\ f \in [0 .. n -> Nat] /\ f[0] = 0 /\ Total(t) = f[n]
      /\ \A k \in 1 .. n : f[k] = f[k - 1] + t[k]
  BY <1>2 DEF IsTotal
<1>5. /\ g \in [0 .. n -> Nat] /\ g[0] = 0 /\ Total(u) = g[n]
      /\ \A k \in 1 .. n : g[k] = g[k - 1] + u[k]
  BY <1>3 DEF IsTotal
<1> DEFINE P == {k \in 0 .. n : \E q \in Nat : c * g[k] = f[k] + M * q}
<1>6. 0 \in P
  <2>1. c * g[0] = f[0] + M * 0
    BY <1>4, <1>5, WordSizes
  <2> QED
    BY <1>1, <2>1
<1>7. ASSUME NEW k \in 1 .. n, k - 1 \in P PROVE k \in P
  <2>1. PICK q \in Nat : c * g[k - 1] = f[k - 1] + M * q
    BY <1>7
  <2>2. k - 1 \in 0 .. n /\ k \in 0 .. n
    BY <1>1
  <2> DEFINE f0 == f[k - 1]
             g0 == g[k - 1]
             v == u[k]
             w == t[k]
             x == h[k]
  <2>3. f0 \in Nat /\ g0 \in Nat /\ w \in Nat /\ v \in Nat /\ x \in Nat
    BY <1>1, <1>4, <1>5, <2>2
  <2>4. c * v = w + M * x /\ g[k] = g0 + v /\ f[k] = f0 + w /\ c * g0 = f0 + M * q
    BY <1>4, <1>5, <2>1
  <2> HIDE DEF f0, g0, v, w, x
  <2>5. c * (g0 + v) = c * g0 + c * v
    BY <2>3
  <2>6. M * (q + x) = M * q + M * x /\ M * q \in Nat /\ M * x \in Nat
    <3>1. M \in Nat
      BY WordSizes
    <3> HIDE DEF M
    <3> QED
      BY <2>3, <3>1
  <2>7. c * g[k] = f[k] + M * (q + x)
    <3>1. c * (g0 + v) = (f0 + M * q) + (w + M * x)
      BY <2>4, <2>5
    <3>2. (f0 + M * q) + (w + M * x) = (f0 + w) + (M * q + M * x)
      BY <2>3, <2>6
    <3> QED
      BY <2>4, <2>6, <3>1, <3>2
  <2>8. q + x \in Nat
    BY <2>3
  <2> QED
    BY <2>2, <2>7, <2>8
<1>8. n \in P
  <2>1. n \in 0 .. n
    BY <1>1
  <2> HIDE DEF P, n
  <2>2. \A k \in 0 .. n : k \in P
    BY <1>1, <1>6, <1>7, InductionTo
  <2> QED
    BY <2>1, <2>2
<1> QED
  BY <1>4, <1>5, <1>8

\* If all that is new is a first word that was 0, the sum grows by it.
LEMMA FirstWordAdds ==
    ASSUME NEW t \in Seq(Nat), NEW u \in Seq(Nat), Len(t) = Len(u), Len(t) > 0,
           t[1] = 0, \A k \in 2 .. Len(t) : u[k] = t[k]
    PROVE  Total(u) = Total(t) + u[1]
<1> DEFINE n == Len(t)
<1>1. n \in Nat /\ n > 0 /\ \A k \in 1 .. n : t[k] \in Nat /\ u[k] \in Nat
  BY LenProperties, ElementOfSeq
<1>2. PICK f : IsTotal(f, t)
  BY TotalIs
<1>3. PICK g : IsTotal(g, u)
  BY TotalIs
<1>4. /\ f \in [0 .. n -> Nat] /\ f[0] = 0 /\ Total(t) = f[n]
      /\ \A k \in 1 .. n : f[k] = f[k - 1] + t[k]
  BY <1>2 DEF IsTotal
<1>5. /\ g \in [0 .. n -> Nat] /\ g[0] = 0 /\ Total(u) = g[n]
      /\ \A k \in 1 .. n : g[k] = g[k - 1] + u[k]
  BY <1>3 DEF IsTotal
<1> DEFINE P == {k \in 0 .. n : k > 0 => g[k] = f[k] + u[1]}
<1>6. 0 \in P
  BY <1>1
<1>7. ASSUME NEW k \in 1 .. n, k - 1 \in P PROVE k \in P
  <2>1. g[k] = g[k - 1] + u[k] /\ f[k] = f[k - 1] + t[k] /\ k \in 0 .. n
    BY <1>4, <1>5
  <2>2. CASE k = 1
    <3>1. g[1] = u[1] /\ f[1] = 0 /\ u[1] \in Nat
      <4>1. 1 \in 1 .. n /\ k - 1 = 0
        BY <1>1, <2>2
      <4>2. u[1] \in Nat
        BY <1>1, <4>1
      <4> QED
        BY <1>4, <1>5, <2>1, <2>2, <4>1, <4>2
    <3> QED
      BY <2>1, <2>2, <3>1
  <2>3. CASE k # 1
    <3>1. k \in 2 .. n /\ k - 1 > 0 /\ k - 1 \in 0 .. n /\ 1 \in 1 .. n
      BY <1>1, <2>3
    <3>2. g[k - 1] = f[k - 1] + u[1]
      BY <1>7, <3>1
    <3>3. u[k] = t[k] /\ t[k] \in Nat /\ f[k - 1] \in Nat /\ u[1] \in Nat
      BY <1>1, <1>4, <3>1
    <3>4. g[k] = f[k] + u[1]
      BY <2>1, <3>2, <3>3
    <3> QED
      BY <2>1, <3>4
  <2> QED
    BY <2>2, <2>3
<1>8. n \in P
  <2>1. n \in 0 .. n
    BY <1>1
  <2> HIDE DEF P, n
  <2>2. \A k \in 0 .. n : k \in P
    BY <1>1, <1>6, <1>7, InductionTo
  <2> QED
    BY <2>1, <2>2
<1> QED
  BY <1>1, <1>4, <1>5, <1>8

-----------------------------------------------------------------------------
\* The words of a packet, as the processor reads them and on the wire.
LittleWords(s) == Words(s, Little, LAMBDA b : b)
BigWords(s) == Words(s, Big, LAMBDA b : B * b)
PlainWords(s) == Words(s, Big, LAMBDA b : b)

LEMMA Halves ==
    ASSUME NEW n \in Nat
    PROVE  /\ (n + 1) \div 2 \in Nat
           /\ \A k \in 1 .. (n + 1) \div 2 :
                 /\ 2 * k - 1 \in 1 .. n
                 /\ 2 * k - 1 # n => 2 * k - 1 + 1 \in 1 .. n
           /\ n >= 2 => 1 \in 1 .. (n + 1) \div 2 /\ 1 # n
           /\ n >= 2 => (n + 1) \div 2 > 0
OBVIOUS

LEMMA BytesAre ==
    /\ \A b \in Byte : b \in Nat /\ b < B
    /\ \A s \in Seq(Byte) : /\ Len(s) \in Nat
                             /\ \A i \in 1 .. Len(s) : s[i] \in Nat /\ s[i] \in Byte
<1>1. \A b \in Byte : b \in Nat /\ b < B
  BY WordSizes DEF Byte
<1>2. ASSUME NEW s \in Seq(Byte)
      PROVE  Len(s) \in Nat /\ \A i \in 1 .. Len(s) : s[i] \in Nat /\ s[i] \in Byte
  <2>1. \A i \in 1 .. Len(s) : s[i] \in Byte
    BY ElementOfSeq
  <2> QED
    BY <1>1, <2>1, LenProperties
<1> QED
  BY <1>1, <1>2

LEMMA WordsAre ==
    ASSUME NEW s \in Seq(Byte)
    PROVE  /\ LittleWords(s) \in Seq(Nat) /\ BigWords(s) \in Seq(Nat)
           /\ PlainWords(s) \in Seq(Nat)
           /\ Len(LittleWords(s)) = (Len(s) + 1) \div 2
           /\ Len(BigWords(s)) = (Len(s) + 1) \div 2
           /\ \A k \in 1 .. (Len(s) + 1) \div 2 :
                 /\ LittleWords(s)[k] = IF 2 * k - 1 = Len(s) THEN s[2 * k - 1]
                                        ELSE s[2 * k - 1] + B * s[2 * k - 1 + 1]
                 /\ BigWords(s)[k] = IF 2 * k - 1 = Len(s) THEN B * s[2 * k - 1]
                                     ELSE B * s[2 * k - 1] + s[2 * k - 1 + 1]
<1> DEFINE m == (Len(s) + 1) \div 2
           little(k) == IF 2 * k - 1 = Len(s) THEN s[2 * k - 1]
                        ELSE s[2 * k - 1] + B * s[2 * k - 1 + 1]
           big(k) == IF 2 * k - 1 = Len(s) THEN B * s[2 * k - 1]
                     ELSE B * s[2 * k - 1] + s[2 * k - 1 + 1]
           plain(k) == IF 2 * k - 1 = Len(s) THEN s[2 * k - 1]
                       ELSE B * s[2 * k - 1] + s[2 * k - 1 + 1]
<1>1. /\ LittleWords(s) = [k \in 1 .. m |-> little(k)]
      /\ BigWords(s) = [k \in 1 .. m |-> big(k)]
      /\ PlainWords(s) = [k \in 1 .. m |-> plain(k)]
  BY DEF LittleWords, BigWords, PlainWords, Words, Little, Big
<1>2. m \in Nat
  BY BytesAre, Halves
<1>3. ASSUME NEW k \in 1 .. m
      PROVE  little(k) \in Nat /\ big(k) \in Nat /\ plain(k) \in Nat
  <2>1. B \in Nat
    BY WordSizes
  <2>2. s[2 * k - 1] \in Nat
    BY BytesAre, Halves
  <2>3. 2 * k - 1 # Len(s) => s[2 * k - 1 + 1] \in Nat
    BY BytesAre, Halves
  <2> DEFINE a == s[2 * k - 1]
             b == s[2 * k - 1 + 1]
  <2>4. B * a \in Nat /\ (b \in Nat => B * b \in Nat)
    <3> HIDE DEF a, b
    <3>1. a \in Nat
      BY <2>2 DEF a
    <3> QED
      BY <2>1, <3>1
  <2> DEFINE last == 2 * k - 1 = Len(s)
             p == B * a
             q == B * b
  <2>5. /\ little(k) = IF last THEN a ELSE a + q
        /\ big(k) = IF last THEN p ELSE p + b
        /\ plain(k) = IF last THEN a ELSE p + b
    OBVIOUS
  <2>6. /\ a \in Nat /\ p \in Nat
        /\ ~last => b \in Nat /\ q \in Nat
    BY <2>2, <2>3, <2>4
  <2> HIDE DEF last, a, b, p, q, little, big, plain
  <2>7. little(k) \in Nat
    BY <2>5, <2>6
  <2>8. big(k) \in Nat
    BY <2>5, <2>6
  <2>9. plain(k) \in Nat
    BY <2>5, <2>6
  <2> QED
    BY <2>7, <2>8, <2>9
<1> HIDE DEF m, little, big, plain
<1>4. [k \in 1 .. m |-> little(k)] \in [1 .. m -> Nat]
  BY <1>3
<1>5. [k \in 1 .. m |-> big(k)] \in [1 .. m -> Nat]
  BY <1>3
<1>6. [k \in 1 .. m |-> plain(k)] \in [1 .. m -> Nat]
  BY <1>3
<1>7. LittleWords(s) \in Seq(Nat) /\ Len(LittleWords(s)) = m
  <2>1. LittleWords(s) \in [1 .. m -> Nat]
    BY <1>1, <1>4
  <2> QED
    BY <1>2, <2>1, SeqDef
<1>8. BigWords(s) \in Seq(Nat) /\ Len(BigWords(s)) = m
  <2>1. BigWords(s) \in [1 .. m -> Nat]
    BY <1>1, <1>5
  <2> QED
    BY <1>2, <2>1, SeqDef
<1>9. PlainWords(s) \in Seq(Nat)
  <2>1. PlainWords(s) \in [1 .. m -> Nat]
    BY <1>1, <1>6
  <2> QED
    BY <1>2, <2>1, SeqDef
<1>10. \A k \in 1 .. m : LittleWords(s)[k] = little(k) /\ BigWords(s)[k] = big(k)
  BY <1>1
<1> QED
  BY <1>7, <1>8, <1>9, <1>10 DEF m, little, big

\* The sum on the wire and the sum in the processor differ by a factor B.
LEMMA WireIsLittle ==
    ASSUME NEW s \in Seq(Byte)
    PROVE  /\ Total(LittleWords(s)) \in Nat /\ Total(BigWords(s)) \in Nat
           /\ Total(PlainWords(s)) \in Nat
           /\ \E q \in Nat : B * Total(BigWords(s)) = Total(LittleWords(s)) + M * q
<1> DEFINE m == (Len(s) + 1) \div 2
           h == [k \in 1 .. m |-> s[2 * k - 1]]
<1>1. ASSUME NEW w \in Seq(Nat) PROVE Total(w) \in Nat
  <2>1. PICK f : IsTotal(f, w)
    BY TotalIs
  <2>2. Len(w) \in 0 .. Len(w)
    BY LenProperties
  <2> QED
    BY <2>1, <2>2 DEF IsTotal
<1>2. h \in [1 .. m -> Nat]
  <2> SUFFICES ASSUME NEW k \in 1 .. m PROVE s[2 * k - 1] \in Nat
    OBVIOUS
  <2> QED
    BY BytesAre, Halves
<1>3. ASSUME NEW k \in 1 .. m
      PROVE  B * BigWords(s)[k] = LittleWords(s)[k] + M * h[k]
  <2> DEFINE a == s[2 * k - 1]
             b == s[2 * k - 1 + 1]
  <2>1. a \in Nat /\ (2 * k - 1 # Len(s) => b \in Nat) /\ h[k] = a
    BY BytesAre, Halves
  <2>2. /\ LittleWords(s)[k] = IF 2 * k - 1 = Len(s) THEN a ELSE a + B * b
        /\ BigWords(s)[k] = IF 2 * k - 1 = Len(s) THEN B * a ELSE B * a + b
    BY WordsAre
  <2> HIDE DEF a, b, h, m
  <2>3. B * (B * a) = a + M * a /\ B * (B * a) \in Nat /\ M * a \in Nat
    <3>1. B * (B * a) = W * a
      BY <2>1, WordSizes
    <3>2. W * a = a + M * a /\ M * a \in Nat
      <4>1. W \in Nat /\ M \in Nat /\ W = M + 1
        BY WordSizes
      <4> HIDE DEF M
      <4> QED
        BY <2>1, <4>1
    <3> QED
      BY <2>1, <3>1, <3>2
  <2>4. CASE 2 * k - 1 = Len(s)
    BY <2>1, <2>2, <2>3, <2>4
  <2>5. CASE 2 * k - 1 # Len(s)
    <3>1. b \in Nat /\ B \in Nat /\ B * a \in Nat /\ B * b \in Nat
      BY <2>1, <2>5, WordSizes
    <3>2. B * (B * a + b) = B * (B * a) + B * b
      BY <3>1
    <3>3. BigWords(s)[k] = B * a + b /\ LittleWords(s)[k] = a + B * b
      BY <2>2, <2>5
    <3>4. B * (B * a) + B * b = (a + B * b) + M * a
      BY <2>1, <2>3, <3>1
    <3> QED
      BY <2>1, <3>2, <3>3, <3>4
  <2> QED
    BY <2>4, <2>5
<1>4. /\ LittleWords(s) \in Seq(Nat) /\ BigWords(s) \in Seq(Nat)
      /\ PlainWords(s) \in Seq(Nat)
      /\ Len(LittleWords(s)) = m /\ Len(BigWords(s)) = m
  BY WordsAre
<1>5. B \in Nat
  BY WordSizes
<1>6. \E q \in Nat : B * Total(BigWords(s)) = Total(LittleWords(s)) + M * q
  <2> HIDE DEF h, m
  <2> DEFINE t == LittleWords(s)
             u == BigWords(s)
  <2>1. t \in Seq(Nat) /\ u \in Seq(Nat) /\ Len(t) = Len(u) /\ Len(t) = m
    BY <1>4
  <2>2. \A k \in 1 .. Len(t) : B * u[k] = t[k] + M * h[k]
    BY <1>3, <2>1
  <2>3. h \in [1 .. Len(t) -> Nat]
    BY <1>2, <2>1
  <2> HIDE DEF t, u
  <2>4. \E q \in Nat : B * Total(u) = Total(t) + M * q
    BY <1>5, <2>1, <2>2, <2>3, TotalsAgree
  <2> QED
    BY <2>4 DEF t, u
<1> QED
  BY <1>1, <1>4, <1>6

-----------------------------------------------------------------------------
\* A checksum is two bytes, and stored low byte first reads as itself.
LEMMA ChecksumFits ==
    ASSUME NEW n \in Nat
    PROVE  /\ Complement(n) \in Nat /\ Complement(n) \in 0 .. M
           /\ Complement(n) % B \in Byte /\ Complement(n) \div B \in Byte
           /\ (Complement(n) % B) + B * (Complement(n) \div B) = Complement(n)
<1> DEFINE c == Complement(n)
<1>1. c \in 0 .. M
  BY FoldIsRemainder, WordSizes DEF Complement
<1>2. c \in Nat /\ c < W
  BY <1>1, WordSizes
<1> HIDE DEF c
<1> DEFINE d == c \div B
           r == c % B
<1>3. d \in Nat /\ r \in 0 .. B - 1 /\ c = B * d + r
  <2>1. B \in Nat /\ B > 0
    BY WordSizes
  <2> QED
    BY <1>2, <2>1, Divided
<1> HIDE DEF d, r
<1>4. d < B
  <2>1. B \in Nat /\ W = B * B /\ B > 0
    BY WordSizes
  <2> SUFFICES ASSUME d >= B PROVE FALSE
    BY <1>3, <2>1
  <2>2. B * d >= B * B /\ B * d \in Nat
    BY <1>3, <2>1
  <2> QED
    BY <1>2, <1>3, <2>1, <2>2
<1>5. r \in Byte /\ d \in Byte
  BY <1>3, <1>4, WordSizes DEF Byte
<1>6. r + B * d = c
  <2>1. B * d \in Nat /\ r \in Nat
    BY <1>3, WordSizes
  <2> QED
    BY <1>3, <2>1
<1> QED
  BY <1>1, <1>2, <1>5, <1>6 DEF c, d, r

\* A multiple of M that is not 0 folds to M.
LEMMA MultipleFolds ==
    ASSUME NEW n \in Nat, n > 0, NEW j \in Int, n = M * j
    PROVE  Fold(n) = W - 1
<1>1. M \in Nat /\ M >= 3 /\ W - 1 = M
  BY WordSizes
<1>2. PICK q \in Nat : n = Fold(n) + q * M
  BY FoldIsRemainder
<1> DEFINE r == Fold(n)
<1>3. r \in 0 .. M /\ r > 0
  BY FoldIsRemainder
<1>4. r = M * (j - q)
  <2>1. n = r + q * M
    BY <1>2
  <2> HIDE DEF r, M
  <2>2. M * (j - q) = M * j - q * M
    BY <1>1
  <2>3. M * j \in Int /\ q * M \in Int
    BY <1>1
  <2> QED
    BY <1>3, <2>1, <2>2, <2>3
<1> HIDE DEF r, M
<1> DEFINE x == j - q
<1>5. x \in Int /\ r = M * x
  BY <1>4
<1> HIDE DEF x
<1>6. x = 1
  <2>1. CASE x <= 0
    <3>1. M * x <= 0
      BY <1>1, <1>5, <2>1
    <3> QED
      BY <1>1, <1>3, <1>5, <3>1
  <2>2. CASE x >= 2
    <3>1. M * x >= 2 * M
      BY <1>1, <1>5, <2>2
    <3> QED
      BY <1>1, <1>3, <1>5, <3>1
  <2> QED
    BY <1>5, <2>1, <2>2
<1> QED
  BY <1>1, <1>5, <1>6 DEF r

\* What calculate_checksum returns, stored in a packet whose checksum field was
\* 0, makes the sum of its words on the wire all ones.
LEMMA StoredIsAccepted ==
    ASSUME NEW s \in Seq(Byte), Len(s) >= 2, s[1] = 0, s[2] = 0,
           NEW c, c = calculate_checksum(s)
    PROVE  /\ [s EXCEPT ![1] = c % B, ![2] = c \div B] \in Seq(Byte)
           /\ Len([s EXCEPT ![1] = c % B, ![2] = c \div B]) = Len(s)
           /\ Fold(WireSum([s EXCEPT ![1] = c % B, ![2] = c \div B])) = W - 1
<1> DEFINE sum == Total(LittleWords(s))
           p == [s EXCEPT ![1] = c % B, ![2] = c \div B]
           m == (Len(s) + 1) \div 2
<1>1. sum \in Nat /\ c = Complement(sum)
  BY WireIsLittle DEF calculate_checksum, SumOf, LittleWords
<1>2. /\ c \in Nat /\ c % B \in Byte /\ c \div B \in Byte
      /\ (c % B) + B * (c \div B) = c
  <2> HIDE DEF sum
  <2> QED
    BY <1>1, ChecksumFits
<1>3. /\ p \in Seq(Byte) /\ Len(p) = Len(s)
      /\ \A i \in 1 .. Len(s) : p[i] = IF i = 1 THEN c % B
                                      ELSE IF i = 2 THEN c \div B ELSE s[i]
  <2> DEFINE x == c % B
             y == c \div B
             t == [s EXCEPT ![1] = x]
  <2> HIDE DEF x, y
  <2>0. x \in Byte /\ y \in Byte
    BY <1>2 DEF x, y
  <2>1. 1 \in 1 .. Len(s) /\ 2 \in 1 .. Len(s) /\ Len(s) \in Nat
    BY BytesAre
  <2>2. /\ t \in Seq(Byte) /\ Len(t) = Len(s)
        /\ \A i \in 1 .. Len(s) : t[i] = IF i = 1 THEN x ELSE s[i]
    BY <2>0, <2>1, ExceptSeq
  <2> HIDE DEF t
  <2>3. /\ [t EXCEPT ![2] = y] \in Seq(Byte) /\ Len([t EXCEPT ![2] = y]) = Len(s)
        /\ \A i \in 1 .. Len(s) : [t EXCEPT ![2] = y][i] = IF i = 2 THEN y ELSE t[i]
    BY <2>0, <2>1, <2>2, ExceptSeq
  <2>4. p = [t EXCEPT ![2] = y]
    BY DEF t, x, y
  <2>5. \A i \in 1 .. Len(s) : p[i] = IF i = 1 THEN x ELSE IF i = 2 THEN y ELSE s[i]
    <3> HIDE DEF p
    <3> QED
      BY <2>2, <2>3, <2>4
  <2> HIDE DEF p
  <2> QED
    BY <2>3, <2>4, <2>5 DEF x, y
<1> HIDE DEF p
\* The first word was 0 and is c.
<1>4. Total(LittleWords(p)) = sum + c
  <2> DEFINE t == LittleWords(s)
             u == LittleWords(p)
  <2>1. /\ t \in Seq(Nat) /\ u \in Seq(Nat) /\ Len(t) = m /\ Len(u) = m
    BY <1>3, WordsAre
  <2>2. m > 0 /\ 1 \in 1 .. m /\ 1 # Len(s) /\ m \in Nat /\ Len(s) \in Nat
    BY Halves, BytesAre
  <2>3. ASSUME NEW k \in 1 .. m
        PROVE  /\ t[k] = IF 2 * k - 1 = Len(s) THEN s[2 * k - 1]
                         ELSE s[2 * k - 1] + B * s[2 * k - 1 + 1]
               /\ u[k] = IF 2 * k - 1 = Len(s) THEN p[2 * k - 1]
                         ELSE p[2 * k - 1] + B * p[2 * k - 1 + 1]
    <3>1. k \in 1 .. (Len(p) + 1) \div 2 /\ Len(p) = Len(s) /\ p \in Seq(Byte)
      BY <1>3
    <3>2. u[k] = IF 2 * k - 1 = Len(p) THEN p[2 * k - 1]
                 ELSE p[2 * k - 1] + B * p[2 * k - 1 + 1]
      BY <3>1, WordsAre
    <3> QED
      BY <3>1, <3>2, WordsAre
  <2> HIDE DEF t, u
  <2>4. t[1] = 0
    <3>1. t[1] = s[1] + B * s[2]
      <4>1. 2 * 1 - 1 = 1 /\ 1 + 1 = 2
        OBVIOUS
      <4> QED
        BY <2>2, <2>3, <4>1
    <3> QED
      BY <3>1, WordSizes
  <2>5. u[1] = c
    <3>1. u[1] = p[1] + B * p[2]
      <4>1. 2 * 1 - 1 = 1 /\ 1 + 1 = 2
        OBVIOUS
      <4> QED
        BY <1>3, <2>2, <2>3, <4>1
    <3>2. p[1] = c % B /\ p[2] = c \div B
      <4>1. 1 \in 1 .. Len(s) /\ 2 \in 1 .. Len(s)
        BY <2>2
      <4> QED
        BY <1>3, <4>1
    <3> QED
      BY <1>2, <3>1, <3>2
  <2>6. ASSUME NEW k \in 2 .. m PROVE u[k] = t[k]
    <3>1. k \in 1 .. m
      BY <2>2
    <3>2. /\ 2 * k - 1 \in 1 .. Len(s)
          /\ 2 * k - 1 # Len(s) => 2 * k - 1 + 1 \in 1 .. Len(s)
      BY <2>2, <3>1, Halves
    <3>3. 2 * k - 1 # 1 /\ 2 * k - 1 # 2 /\ 2 * k - 1 + 1 # 1 /\ 2 * k - 1 + 1 # 2
      OBVIOUS
    <3>4. p[2 * k - 1] = s[2 * k - 1]
      BY <1>3, <3>2, <3>3
    <3>5. 2 * k - 1 # Len(s) => p[2 * k - 1 + 1] = s[2 * k - 1 + 1]
      BY <1>3, <3>2, <3>3
    <3> HIDE DEF m
    <3> QED
      BY <2>3, <3>1, <3>4, <3>5
  <2>7. Total(u) = Total(t) + u[1]
    <3>1. Len(t) = Len(u) /\ Len(t) > 0 /\ \A k \in 2 .. Len(t) : u[k] = t[k]
      BY <2>1, <2>2, <2>6
    <3> QED
      BY <2>1, <2>4, <3>1, FirstWordAdds
  <2> QED
    BY <2>5, <2>7 DEF t, u
<1> DEFINE wire == Total(BigWords(p))
<1>5. PICK q \in Nat : B * wire = Total(LittleWords(p)) + M * q
  BY <1>3, WireIsLittle
<1>6. wire \in Nat
  BY <1>3, WireIsLittle
<1>7. Fold(wire) = W - 1
  <2> HIDE DEF sum, wire
  <2>1. PICK z \in Nat : sum = Fold(sum) + z * M
    BY <1>1, FoldIsRemainder
  <2>2. Fold(sum) \in Nat /\ c = M - Fold(sum) /\ M \in Nat /\ M >= 3
        /\ M = W - 1 /\ W \in Nat /\ B \in Nat /\ W = B * B
    BY <1>1, FoldIsRemainder, WordSizes DEF Complement, M
  <2> DEFINE y == Fold(sum)
             j == z + 1 + q
  <2>3. B * wire = M * j
    <3>1. sum + c = z * M + M
      <4>1. z * M \in Nat
        BY <2>2
      <4> HIDE DEF M
      <4> QED
        BY <1>1, <2>1, <2>2, <4>1
    <3>2. B * wire = (z * M + M) + M * q
      BY <1>4, <1>5, <3>1
    <3>3. M * (z + 1 + q) = (z * M + M) + M * q
      <4>1. M \in Nat
        BY <2>2
      <4> HIDE DEF M
      <4> QED
        BY <4>1
    <3> QED
      BY <3>2, <3>3
  <2>4. j \in Nat /\ j > 0
    OBVIOUS
  <2> HIDE DEF j
  <2>5. wire > 0
    <3>1. M * j >= M
      BY <2>2, <2>4
    <3>2. CASE wire = 0
      <4>1. B * wire = 0
        BY <2>2, <3>2
      <4> QED
        BY <2>2, <2>3, <3>1, <4>1
    <3> QED
      BY <1>6, <3>2
  <2>6. wire = M * (B * j - wire)
    <3>1. B * (B * wire) = W * wire
      BY <1>6, <2>2
    <3>2. B * (M * j) = M * (B * j)
      <4>1. M \in Nat
        BY <2>2
      <4> HIDE DEF M
      <4> QED
        BY <2>2, <2>4, <4>1
    <3>3. W * wire = M * wire + wire
      <4>1. M \in Nat /\ W = M + 1
        BY <2>2
      <4> HIDE DEF M
      <4> QED
        BY <1>6, <4>1
    <3>4. M * (B * j - wire) = M * (B * j) - M * wire
      <4>1. M \in Nat /\ B * j \in Nat
        BY <2>2, <2>4
      <4> HIDE DEF M
      <4> QED
        BY <1>6, <4>1
    <3>5. M * wire \in Nat
      <4>1. M \in Nat
        BY <2>2
      <4> HIDE DEF M
      <4> QED
        BY <1>6, <4>1
    <3>6. M * (B * j) = M * wire + wire
      BY <2>3, <3>1, <3>2, <3>3
    <3> QED
      BY <1>6, <3>4, <3>5, <3>6
  <2>7. B * j - wire \in Int
    <3>1. B * j \in Nat
      BY <2>2, <2>4
    <3> QED
      BY <1>6, <3>1
  <2> QED
    BY <1>6, <2>5, <2>6, <2>7, MultipleFolds
<1>8. WireSum(p) = wire
  BY DEF WireSum, SumOf, BigWords
<1> QED
  BY <1>3, <1>7, <1>8 DEF p

-----------------------------------------------------------------------------
\* Until it is sent a packet has no checksum in its field.
SumInv ==
    /\ SumTypeOK
    /\ Len(packet) >= 2
    /\ ~sent => packet[1] = 0 /\ packet[2] = 0
    /\ sent /\ protocol # "tcp" => Fold(WireSum(packet)) = W - 1

LEMMA SumStarts == SumInit => SumInv
<1> SUFFICES ASSUME SumInit PROVE SumInv
  OBVIOUS
<1>1. PICK n \in Lengths : \E body \in [1 .. n - 2 -> Byte] : packet = <<0, 0>> \o body
  BY DEF SumInit
<1>2. PICK body \in [1 .. n - 2 -> Byte] : packet = <<0, 0>> \o body
  BY <1>1
<1>3. n - 2 \in Nat /\ 0 \in Byte
  BY ChecksumAssumption, WordSizes DEF Byte
<1>4. body \in Seq(Byte)
  BY <1>3, SeqDef
<1>5. <<0, 0>> \in Seq(Byte) /\ Len(<<0, 0>>) = 2
  BY <1>3
<1>6. /\ packet \in Seq(Byte) /\ Len(packet) = 2 + Len(body) /\ Len(body) \in Nat
      /\ \A i \in 1 .. 2 + Len(body) :
            packet[i] = IF i <= 2 THEN <<0, 0>>[i] ELSE body[i - 2]
  BY <1>2, <1>4, <1>5, ConcatProperties, LenProperties
<1>7. Len(packet) >= 2 /\ packet[1] = 0 /\ packet[2] = 0
  <2>1. 1 \in 1 .. 2 + Len(body) /\ 2 \in 1 .. 2 + Len(body) /\ 2 + Len(body) >= 2
    BY <1>6
  <2>2. <<0, 0>>[1] = 0 /\ <<0, 0>>[2] = 0
    OBVIOUS
  <2> QED
    BY <1>6, <2>1, <2>2
<1>8. ips \in Seq(Byte)
  <2>1. ips \in [1 .. 4 -> Byte]
    BY ChecksumAssumption DEF SumInit, Byte
  <2> QED
    BY <2>1, SeqDef
<1> QED
  BY <1>6, <1>7, <1>8 DEF SumInit, SumInv, SumTypeOK

LEMMA SumStep == SumInv /\ [SumNext]_sumVars => SumInv'
<1> SUFFICES ASSUME SumInv, [SumNext]_sumVars PROVE SumInv'
  OBVIOUS
<1>0. /\ packet \in Seq(Byte) /\ Len(packet) >= 2 /\ ips \in Seq(Byte) /\ sent \in BOOLEAN
      /\ protocol \in {"ip", "icmp", "tcp"}
  BY DEF SumInv, SumTypeOK
<1>1. ASSUME ~sent, packet' = WithChecksum(calculate_checksum(packet)), sent' = TRUE,
             UNCHANGED <<protocol, ips>>
      PROVE  SumInv'
  <2>1. packet[1] = 0 /\ packet[2] = 0
    BY <1>1 DEF SumInv
  <2> DEFINE c == calculate_checksum(packet)
  <2>2. packet' = [packet EXCEPT ![1] = c % B, ![2] = c \div B]
    BY <1>1 DEF WithChecksum
  <2> HIDE DEF c
  <2>3. /\ packet' \in Seq(Byte) /\ Len(packet') = Len(packet)
        /\ Fold(WireSum(packet')) = W - 1
    BY <1>0, <2>1, <2>2, StoredIsAccepted DEF c
  <2>4. (Fold(WireSum(packet)) = W - 1)'
    BY <2>3
  <2> QED
    BY <1>0, <1>1, <2>3, <2>4 DEF SumInv, SumTypeOK
<1>2. CASE SendIp
  BY <1>1, <1>2 DEF SendIp
<1>3. CASE SendIcmp
  BY <1>1, <1>3 DEF SendIcmp
<1>4. CASE SendTcp
  <2> DEFINE c == tcp_checksum(ips, packet)
             x == c % B
             y == c \div B
             t == [packet EXCEPT ![1] = x]
  <2>1. x \in Byte /\ y \in Byte
    <3> DEFINE n == Total(PlainWords(ips)) + TcpProto + Len(packet)
                    + Total(LittleWords(packet))
    <3>1. n \in Nat
      <4>1. /\ Total(PlainWords(ips)) \in Nat /\ Total(LittleWords(packet)) \in Nat
            /\ TcpProto \in Nat /\ Len(packet) \in Nat
        BY <1>0, WireIsLittle, BytesAre, ChecksumAssumption
      <4> QED
        BY <4>1
    <3>2. c = Complement(n)
      BY DEF tcp_checksum, SumOf, PlainWords, LittleWords
    <3> HIDE DEF n, c
    <3> QED
      BY <3>1, <3>2, ChecksumFits
  <2>2. packet' = [t EXCEPT ![2] = y] /\ sent' = TRUE /\ UNCHANGED <<protocol, ips>>
        /\ protocol = "tcp"
    BY <1>4 DEF SendTcp, WithChecksum
  <2> HIDE DEF x, y
  <2>3. 1 \in 1 .. Len(packet) /\ 2 \in 1 .. Len(packet) /\ Len(packet) \in Nat
    BY <1>0, BytesAre
  <2>4. t \in Seq(Byte) /\ Len(t) = Len(packet)
    BY <1>0, <2>1, <2>3, ExceptSeq
  <2> HIDE DEF t
  <2>5. packet' \in Seq(Byte) /\ Len(packet') = Len(packet)
    BY <2>1, <2>2, <2>3, <2>4, ExceptSeq
  <2> QED
    BY <1>0, <2>2, <2>5 DEF SumInv, SumTypeOK
<1>5. CASE Reply
  <2>1. PICK type \in Byte :
          LET reply == [packet EXCEPT ![1] = 0, ![2] = 0, ![3] = type]
              sum   == calculate_checksum(reply)
          IN packet' = [reply EXCEPT ![1] = sum % B, ![2] = sum \div B]
    BY <1>5 DEF Reply
  <2> DEFINE t1 == [packet EXCEPT ![1] = 0]
             t2 == [t1 EXCEPT ![2] = 0]
             reply == [t2 EXCEPT ![3] = type]
             c == calculate_checksum(reply)
  <2>2. packet' = [reply EXCEPT ![1] = c % B, ![2] = c \div B]
    BY <2>1
  <2>3. /\ 1 \in 1 .. Len(packet) /\ 2 \in 1 .. Len(packet) /\ 3 \in 1 .. Len(packet)
        /\ Len(packet) \in Nat /\ 0 \in Byte
    BY <1>0, <1>5, BytesAre, WordSizes DEF Reply, Byte
  <2>4. /\ t1 \in Seq(Byte) /\ Len(t1) = Len(packet)
        /\ \A i \in 1 .. Len(packet) : t1[i] = IF i = 1 THEN 0 ELSE packet[i]
    BY <1>0, <2>3, ExceptSeq
  <2> HIDE DEF t1
  <2>5. /\ t2 \in Seq(Byte) /\ Len(t2) = Len(packet)
        /\ \A i \in 1 .. Len(packet) : t2[i] = IF i = 2 THEN 0 ELSE t1[i]
    BY <2>3, <2>4, ExceptSeq
  <2> HIDE DEF t2
  <2>6. /\ reply \in Seq(Byte) /\ Len(reply) = Len(packet)
        /\ \A i \in 1 .. Len(packet) : reply[i] = IF i = 3 THEN type ELSE t2[i]
    BY <2>3, <2>5, ExceptSeq
  <2> HIDE DEF reply
  <2>7. reply[1] = 0 /\ reply[2] = 0
    BY <2>3, <2>4, <2>5, <2>6
  <2> HIDE DEF c
  <2>8. /\ packet' \in Seq(Byte) /\ Len(packet') = Len(packet)
        /\ Fold(WireSum(packet')) = W - 1
    BY <1>0, <2>2, <2>6, <2>7, StoredIsAccepted DEF c
  <2>9. (Fold(WireSum(packet)) = W - 1)'
    BY <2>8
  <2> QED
    BY <1>0, <1>5, <2>8, <2>9 DEF Reply, SumInv, SumTypeOK
<1>6. CASE UNCHANGED sumVars
  <2>1. UNCHANGED <<protocol, ips, packet, sent>>
    BY <1>6 DEF sumVars
  <2>2. SumTypeOK' /\ (Len(packet) >= 2)'
    BY <1>0, <2>1 DEF SumTypeOK
  <2>3. (~sent => packet[1] = 0 /\ packet[2] = 0)'
    BY <2>1 DEF SumInv
  <2>4. (Fold(WireSum(packet)) = W - 1)' <=> Fold(WireSum(packet)) = W - 1
    BY <2>1
  <2> QED
    BY <2>1, <2>2, <2>3, <2>4 DEF SumInv
<1> QED
  BY <1>2, <1>3, <1>4, <1>5, <1>6 DEF SumNext

(* Every IP and ICMP packet is accepted by its receiver, for every number of
   values of a byte, every length and every contents: what calculate_checksum
   adds up in the processor's byte order is right in the wire's.  It is 0
   modulo W - 1 in both, and not 0. *)
THEOREM ChecksumsAreRight == SumSpec => []PacketAccepted
<1>1. SumInv => PacketAccepted
  BY DEF SumInv, PacketAccepted
<1> QED
  BY <1>1, SumStarts, SumStep, PTL DEF SumSpec

-----------------------------------------------------------------------------
(* The readers of typed addresses. *)
Typings == Seq(Chars)
Quads == [0 .. 3 -> Nat]

LEMMA CharsOf ==
    ASSUME NEW s \in Typings
    PROVE  Len(s) \in Nat /\ \A i \in 1 .. Len(s) : s[i] \in Chars
  BY LenProperties, ElementOfSeq DEF Typings

LEMMA DigitsAre ==
    ASSUME NEW c, IsDigit(c)
    PROVE  Digits[c] \in 0 .. 9 /\ c # "dot" /\ c # "blank" /\ c # "slash"
  BY AddressAssumption DEF IsDigit

\* The octets that ping, http and arp have read.
OctetStates == [part : 0 .. 4, ip : Quads]

IsOctets(f, s) ==
    /\ f \in [0 .. Len(s) -> OctetStates]
    /\ f[0] = [part |-> 0, ip |-> [k \in 0 .. 3 |-> 0]]
    /\ \A i \in 1 .. Len(s) : f[i] = OctetStep(f[i - 1], s[i])

LEMMA OctetTyped ==
    ASSUME NEW x \in OctetStates, NEW c \in Chars
    PROVE  OctetStep(x, c) \in OctetStates
<1>1. x.part \in 0 .. 4 /\ x.ip \in Quads
  BY DEF OctetStates
<1>2. CASE x.part = 4
  BY <1>2 DEF OctetStep
<1>3. CASE x.part # 4
  <2>1. x.part \in 0 .. 3 /\ x.part + 1 \in 0 .. 4
    BY <1>1, <1>3
  <2>2. CASE c = "dot"
    BY <1>3, <2>1, <2>2 DEF OctetStep, OctetStates
  <2>3. CASE c # "dot" /\ IsDigit(c)
    <3> DEFINE v == (x.ip[x.part] * 10 + Digits[c]) % Modulus
               ip == [x.ip EXCEPT ![x.part] = v]
    <3>1. x.ip[x.part] * 10 + Digits[c] \in Nat
      <4>1. x.ip[x.part] \in Nat
        BY <1>1, <2>1 DEF Quads
      <4>2. Digits[c] \in 0 .. 9
        BY <2>3, DigitsAre
      <4> QED
        BY <4>1, <4>2
    <3>2. v \in Nat
      BY <3>1, AddressAssumption
    <3>3. OctetStep(x, c) = [x EXCEPT !.ip = ip]
      BY <1>3, <2>3 DEF OctetStep
    <3> HIDE DEF v
    <3>4. ip \in Quads
      BY <1>1, <3>2 DEF Quads
    <3> HIDE DEF ip
    <3> QED
      BY <3>3, <3>4 DEF OctetStates
  <2>4. CASE c # "dot" /\ ~IsDigit(c)
    BY <1>3, <2>4 DEF OctetStep
  <2> QED
    BY <2>2, <2>3, <2>4
<1> QED
  BY <1>2, <1>3

LEMMA NothingReadYet == [k \in 0 .. 3 |-> 0] \in Quads
  BY DEF Quads

LEMMA OctetsAre ==
    ASSUME NEW s \in Typings
    PROVE  IsOctets(OctetsRead(s), s)
<1> DEFINE n == Len(s)
           s0 == [part |-> 0, ip |-> [k \in 0 .. 3 |-> 0]]
           Step(x, i) == OctetStep(x, s[i])
           step == [i \in 1 .. n |-> [x \in OctetStates |-> Step(x, i)]]
           Is(g) == g = [i \in 0 .. n |->
                      IF i = 0 THEN [part |-> 0, ip |-> [k \in 0 .. 3 |-> 0]]
                      ELSE OctetStep(g[i - 1], s[i])]
           f == CHOOSE g : Is(g)
<1>1. n \in Nat /\ \A i \in 1 .. n : s[i] \in Chars
  BY CharsOf
<1>2. \A i \in 1 .. n : \A x \in OctetStates : Step(x, i) \in OctetStates
  BY <1>1, OctetTyped
<1>3. s0 \in OctetStates
  BY NothingReadYet DEF OctetStates
<1> HIDE DEF Step, n, s0
<1>4. /\ step \in [1 .. n -> [OctetStates -> OctetStates]]
     /\ \A i \in 1 .. n :
          \A x \in OctetStates : step[i][x] = Step(x, i)
  BY <1>2
<1> HIDE DEF step
<1>5. PICK g : IsLoop(g, n, OctetStates, s0, step)
  BY <1>1, <1>3, <1>4, LoopExists
<1>6. /\ g \in [0 .. n -> OctetStates] /\ g[0] = s0
      /\ \A i \in 1 .. n : g[i] = step[i][g[i - 1]]
  BY <1>5 DEF IsLoop
<1>7. ASSUME NEW i \in 1 .. n PROVE g[i] = Step(g[i - 1], i)
  <2>1. g[i - 1] \in OctetStates
    BY <1>1, <1>6
  <2> QED
    BY <1>4, <1>6, <2>1
<1>8. Is(g)
  <2>1. ASSUME NEW i \in 0 .. n PROVE g[i] = IF i = 0 THEN s0 ELSE Step(g[i - 1], i)
    <3>1. i # 0 => i \in 1 .. n
      BY <1>1
    <3> QED
      BY <1>6, <1>7, <3>1
  <2>2. g = [i \in 0 .. n |-> IF i = 0 THEN s0 ELSE Step(g[i - 1], i)]
    BY <1>6, <2>1
  <2> QED
    BY <2>2 DEF s0, Step
<1>9. Is(f)
  <2> HIDE DEF Is
  <2> QED
    BY <1>8
<1>10. OctetsRead(s) = f
  BY Zenon DEF OctetsRead, n
<1>11. f = [i \in 0 .. n |-> IF i = 0 THEN s0 ELSE Step(f[i - 1], i)]
  BY <1>9 DEF s0, Step
<1> HIDE DEF f
<1>12. \A i \in 0 .. n : f[i] = IF i = 0 THEN s0 ELSE Step(f[i - 1], i)
  BY <1>11
<1> DEFINE P == {i \in 0 .. n : f[i] = g[i]}
<1>13. \A i \in 0 .. n : i \in P
  <2>1. 0 \in P
    BY <1>1, <1>6, <1>12
  <2>2. ASSUME NEW i \in 1 .. n, i - 1 \in P PROVE i \in P
    <3>1. i \in 0 .. n /\ i # 0 /\ f[i - 1] = g[i - 1]
      BY <1>1, <2>2
    <3> QED
      BY <1>7, <1>12, <3>1
  <2> HIDE DEF P
  <2> QED
    BY <1>1, <2>1, <2>2, InductionTo
<1>14. f = g /\ n \in 0 .. n
  <2>1. f = [i \in 0 .. n |-> f[i]]
    BY <1>11
  <2>2. \A i \in 0 .. n : f[i] = g[i]
    BY <1>13
  <2> QED
    BY <1>1, <1>6, <2>1, <2>2
<1>15. g[0] = [part |-> 0, ip |-> [k \in 0 .. 3 |-> 0]]
  BY <1>6 DEF s0
<1>16. \A i \in 1 .. n : g[i] = OctetStep(g[i - 1], s[i])
  BY <1>7 DEF Step
<1> QED
  BY <1>6, <1>10, <1>14, <1>15, <1>16 DEF IsOctets, n

\* What the browser has read.
ParseStates == [part : 0 .. 4, ip : Quads, ok : BOOLEAN]

IsParsed(f, s) ==
    /\ f \in [0 .. Len(s) -> ParseStates]
    /\ f[0] = [part |-> 0, ip |-> [k \in 0 .. 3 |-> 0], ok |-> TRUE]
    /\ \A i \in 1 .. Len(s) : f[i] = ParseStep(f[i - 1], s[i])

LEMMA ParseTyped ==
    ASSUME NEW x \in ParseStates, NEW c \in Chars
    PROVE  ParseStep(x, c) \in ParseStates
<1>1. x.part \in 0 .. 4 /\ x.ip \in Quads /\ x.ok \in BOOLEAN
  BY DEF ParseStates
<1>2. CASE x.part = 4 \/ ~x.ok
  BY <1>2 DEF ParseStep
<1>3. CASE ~(x.part = 4 \/ ~x.ok)
  <2>1. x.part \in 0 .. 3 /\ x.part + 1 \in 0 .. 4
    BY <1>1, <1>3
  <2> DEFINE v == x.ip[x.part] * 10 + Digits[c]
             good == IsDigit(c) /\ v < Modulus
  <2>2. CASE c = "dot"
    BY <1>3, <2>1, <2>2 DEF ParseStep, ParseStates
  <2>3. CASE c # "dot" /\ good
    <3> DEFINE ip == [x.ip EXCEPT ![x.part] = v]
    <3>1. x.ip[x.part] \in Nat
      BY <1>1, <2>1 DEF Quads
    <3>2. v \in Nat
      <4>1. Digits[c] \in 0 .. 9
        BY <2>3, DigitsAre
      <4> QED
        BY <3>1, <4>1
    <3>3. ParseStep(x, c) = [x EXCEPT !.ip = ip]
      BY <1>3, <2>3 DEF ParseStep
    <3> HIDE DEF v
    <3>4. ip \in Quads
      BY <1>1, <3>2 DEF Quads
    <3> HIDE DEF ip
    <3> QED
      BY <3>3, <3>4 DEF ParseStates
  <2>4. CASE c # "dot" /\ ~good
    <3>1. ParseStep(x, c) = [x EXCEPT !.ok = FALSE]
      BY <1>3, <2>4 DEF ParseStep
    <3> QED
      BY <3>1 DEF ParseStates
  <2> QED
    BY <2>2, <2>3, <2>4
<1> QED
  BY <1>2, <1>3

LEMMA ParsedIs ==
    ASSUME NEW s \in Typings
    PROVE  IsParsed(Parsed(s), s)
<1> DEFINE n == Len(s)
           s0 == [part |-> 0, ip |-> [k \in 0 .. 3 |-> 0], ok |-> TRUE]
           Step(x, i) == ParseStep(x, s[i])
           step == [i \in 1 .. n |-> [x \in ParseStates |-> Step(x, i)]]
           Is(g) == g = [i \in 0 .. n |->
                      IF i = 0 THEN [part |-> 0, ip |-> [k \in 0 .. 3 |-> 0], ok |-> TRUE]
                      ELSE ParseStep(g[i - 1], s[i])]
           f == CHOOSE g : Is(g)
<1>1. n \in Nat /\ \A i \in 1 .. n : s[i] \in Chars
  BY CharsOf
<1>2. \A i \in 1 .. n : \A x \in ParseStates : Step(x, i) \in ParseStates
  BY <1>1, ParseTyped
<1>3. s0 \in ParseStates
  BY NothingReadYet DEF ParseStates
<1> HIDE DEF Step, n, s0
<1>4. /\ step \in [1 .. n -> [ParseStates -> ParseStates]]
     /\ \A i \in 1 .. n :
          \A x \in ParseStates : step[i][x] = Step(x, i)
  BY <1>2
<1> HIDE DEF step
<1>5. PICK g : IsLoop(g, n, ParseStates, s0, step)
  BY <1>1, <1>3, <1>4, LoopExists
<1>6. /\ g \in [0 .. n -> ParseStates] /\ g[0] = s0
      /\ \A i \in 1 .. n : g[i] = step[i][g[i - 1]]
  BY <1>5 DEF IsLoop
<1>7. ASSUME NEW i \in 1 .. n PROVE g[i] = Step(g[i - 1], i)
  <2>1. g[i - 1] \in ParseStates
    BY <1>1, <1>6
  <2> QED
    BY <1>4, <1>6, <2>1
<1>8. Is(g)
  <2>1. ASSUME NEW i \in 0 .. n PROVE g[i] = IF i = 0 THEN s0 ELSE Step(g[i - 1], i)
    <3>1. i # 0 => i \in 1 .. n
      BY <1>1
    <3> QED
      BY <1>6, <1>7, <3>1
  <2>2. g = [i \in 0 .. n |-> IF i = 0 THEN s0 ELSE Step(g[i - 1], i)]
    BY <1>6, <2>1
  <2> QED
    BY <2>2 DEF s0, Step
<1>9. Is(f)
  <2> HIDE DEF Is
  <2> QED
    BY <1>8
<1>10. Parsed(s) = f
  BY Zenon DEF Parsed, n
<1>11. f = [i \in 0 .. n |-> IF i = 0 THEN s0 ELSE Step(f[i - 1], i)]
  BY <1>9 DEF s0, Step
<1> HIDE DEF f
<1>12. \A i \in 0 .. n : f[i] = IF i = 0 THEN s0 ELSE Step(f[i - 1], i)
  BY <1>11
<1> DEFINE P == {i \in 0 .. n : f[i] = g[i]}
<1>13. \A i \in 0 .. n : i \in P
  <2>1. 0 \in P
    BY <1>1, <1>6, <1>12
  <2>2. ASSUME NEW i \in 1 .. n, i - 1 \in P PROVE i \in P
    <3>1. i \in 0 .. n /\ i # 0 /\ f[i - 1] = g[i - 1]
      BY <1>1, <2>2
    <3> QED
      BY <1>7, <1>12, <3>1
  <2> HIDE DEF P
  <2> QED
    BY <1>1, <2>1, <2>2, InductionTo
<1>14. f = g /\ n \in 0 .. n
  <2>1. f = [i \in 0 .. n |-> f[i]]
    BY <1>11
  <2>2. \A i \in 0 .. n : f[i] = g[i]
    BY <1>13
  <2> QED
    BY <1>1, <1>6, <2>1, <2>2
<1>15. g[0] = [part |-> 0, ip |-> [k \in 0 .. 3 |-> 0], ok |-> TRUE]
  BY <1>6 DEF s0
<1>16. \A i \in 1 .. n : g[i] = ParseStep(g[i - 1], s[i])
  BY <1>7 DEF Step
<1> QED
  BY <1>6, <1>10, <1>14, <1>15, <1>16 DEF IsParsed, n

\* The dots, and the numbers between them.
IsDots(f, s) ==
    /\ f \in [0 .. Len(s) -> Nat] /\ f[0] = 0
    /\ \A i \in 1 .. Len(s) : f[i] = IF s[i] = "dot" THEN f[i - 1] + 1 ELSE f[i - 1]

LEMMA DotsAre ==
    ASSUME NEW s \in Typings
    PROVE  IsDots(Dots(s), s)
<1> DEFINE n == Len(s)
           s0 == 0
           Step(x, i) == (IF s[i] = "dot" THEN x + 1 ELSE x)
           step == [i \in 1 .. n |-> [x \in Nat |-> Step(x, i)]]
           Is(g) == g = [i \in 0 .. n |->
                      IF i = 0 THEN 0
                      ELSE (IF s[i] = "dot" THEN g[i - 1] + 1 ELSE g[i - 1])]
           f == CHOOSE g : Is(g)
<1>1. n \in Nat /\ \A i \in 1 .. n : s[i] \in Chars
  BY CharsOf
<1>2. \A i \in 1 .. n : \A x \in Nat : Step(x, i) \in Nat
  BY <1>1
<1>3. s0 \in Nat
  OBVIOUS
<1> HIDE DEF Step, n, s0
<1>4. step \in [1 .. n -> [Nat -> Nat]] /\ \A i \in 1 .. n : \A x \in Nat : step[i][x] = Step(x, i)
  BY <1>2
<1> HIDE DEF step
<1>5. PICK g : IsLoop(g, n, Nat, s0, step)
  BY <1>1, <1>3, <1>4, LoopExists
<1>6. /\ g \in [0 .. n -> Nat] /\ g[0] = s0
      /\ \A i \in 1 .. n : g[i] = step[i][g[i - 1]]
  BY <1>5 DEF IsLoop
<1>7. ASSUME NEW i \in 1 .. n PROVE g[i] = Step(g[i - 1], i)
  <2>1. g[i - 1] \in Nat
    BY <1>1, <1>6
  <2> QED
    BY <1>4, <1>6, <2>1
<1>8. Is(g)
  <2>1. ASSUME NEW i \in 0 .. n PROVE g[i] = IF i = 0 THEN s0 ELSE Step(g[i - 1], i)
    <3>1. i # 0 => i \in 1 .. n
      BY <1>1
    <3> QED
      BY <1>6, <1>7, <3>1
  <2>2. g = [i \in 0 .. n |-> IF i = 0 THEN s0 ELSE Step(g[i - 1], i)]
    BY <1>6, <2>1
  <2> QED
    BY <2>2 DEF s0, Step
<1>9. Is(f)
  <2> HIDE DEF Is
  <2> QED
    BY <1>8
<1>10. Dots(s) = f
  BY Zenon DEF Dots, n
<1>11. f = [i \in 0 .. n |-> IF i = 0 THEN s0 ELSE Step(f[i - 1], i)]
  BY <1>9 DEF s0, Step
<1> HIDE DEF f
<1>12. \A i \in 0 .. n : f[i] = IF i = 0 THEN s0 ELSE Step(f[i - 1], i)
  BY <1>11
<1> DEFINE P == {i \in 0 .. n : f[i] = g[i]}
<1>13. \A i \in 0 .. n : i \in P
  <2>1. 0 \in P
    BY <1>1, <1>6, <1>12
  <2>2. ASSUME NEW i \in 1 .. n, i - 1 \in P PROVE i \in P
    <3>1. i \in 0 .. n /\ i # 0 /\ f[i - 1] = g[i - 1]
      BY <1>1, <2>2
    <3> QED
      BY <1>7, <1>12, <3>1
  <2> HIDE DEF P
  <2> QED
    BY <1>1, <2>1, <2>2, InductionTo
<1>14. f = g /\ n \in 0 .. n
  <2>1. f = [i \in 0 .. n |-> f[i]]
    BY <1>11
  <2>2. \A i \in 0 .. n : f[i] = g[i]
    BY <1>13
  <2> QED
    BY <1>1, <1>6, <2>1, <2>2
<1>15. g[0] = 0
  BY <1>6 DEF s0
<1>16. \A i \in 1 .. n : g[i] = (IF s[i] = "dot" THEN g[i - 1] + 1 ELSE g[i - 1])
  BY <1>7 DEF Step
<1> QED
  BY <1>6, <1>10, <1>14, <1>15, <1>16 DEF IsDots, n

IsNumber(f, s, k) ==
    /\ f \in [0 .. Len(s) -> Nat] /\ f[0] = 0
    /\ \A i \in 1 .. Len(s) :
          f[i] = IF InPiece(s, k, i) THEN f[i - 1] * 10 + Digits[s[i]] ELSE f[i - 1]
    /\ NumberOf(s, k) = f[Len(s)]

LEMMA DigitsInPieces ==
    ASSUME NEW s, OnlyDottedDigits(s), NEW k, NEW i \in 1 .. Len(s), InPiece(s, k, i)
    PROVE  Digits[s[i]] \in 0 .. 9
<1>1. IsDigit(s[i])
  BY DEF OnlyDottedDigits, InPiece
<1> QED
  BY <1>1, DigitsAre

LEMMA NumberIs ==
    ASSUME NEW s \in Typings, OnlyDottedDigits(s), NEW k
    PROVE  \E f : IsNumber(f, s, k)
<1> DEFINE n == Len(s)
           s0 == 0
           Step(x, i) == (IF InPiece(s, k, i) THEN x * 10 + Digits[s[i]] ELSE x)
           step == [i \in 1 .. n |-> [x \in Nat |-> Step(x, i)]]
           Is(g) == g = [i \in 0 .. n |->
                      IF i = 0 THEN 0
                      ELSE (IF InPiece(s, k, i) THEN g[i - 1] * 10 + Digits[s[i]] ELSE g[i - 1])]
           f == CHOOSE g : Is(g)
<1>1. n \in Nat /\ \A i \in 1 .. n : s[i] \in Chars
  BY CharsOf
<1>2. \A i \in 1 .. n : \A x \in Nat : Step(x, i) \in Nat
  <2> SUFFICES ASSUME NEW i \in 1 .. n, NEW x \in Nat, InPiece(s, k, i)
               PROVE  x * 10 + Digits[s[i]] \in Nat
    OBVIOUS
  <2>1. Digits[s[i]] \in 0 .. 9
    BY DigitsInPieces
  <2> QED
    BY <2>1
<1>3. s0 \in Nat
  OBVIOUS
<1> HIDE DEF Step, n, s0
<1>4. step \in [1 .. n -> [Nat -> Nat]] /\ \A i \in 1 .. n : \A x \in Nat : step[i][x] = Step(x, i)
  BY <1>2
<1> HIDE DEF step
<1>5. PICK g : IsLoop(g, n, Nat, s0, step)
  BY <1>1, <1>3, <1>4, LoopExists
<1>6. /\ g \in [0 .. n -> Nat] /\ g[0] = s0
      /\ \A i \in 1 .. n : g[i] = step[i][g[i - 1]]
  BY <1>5 DEF IsLoop
<1>7. ASSUME NEW i \in 1 .. n PROVE g[i] = Step(g[i - 1], i)
  <2>1. g[i - 1] \in Nat
    BY <1>1, <1>6
  <2> QED
    BY <1>4, <1>6, <2>1
<1>8. Is(g)
  <2>1. ASSUME NEW i \in 0 .. n PROVE g[i] = IF i = 0 THEN s0 ELSE Step(g[i - 1], i)
    <3>1. i # 0 => i \in 1 .. n
      BY <1>1
    <3> QED
      BY <1>6, <1>7, <3>1
  <2>2. g = [i \in 0 .. n |-> IF i = 0 THEN s0 ELSE Step(g[i - 1], i)]
    BY <1>6, <2>1
  <2> QED
    BY <2>2 DEF s0, Step
<1>9. Is(f)
  <2> HIDE DEF Is
  <2> QED
    BY <1>8
<1>10. NumberOf(s, k) = f[n]
  BY Zenon DEF NumberOf, n
<1>11. f = [i \in 0 .. n |-> IF i = 0 THEN s0 ELSE Step(f[i - 1], i)]
  BY <1>9 DEF s0, Step
<1> HIDE DEF f
<1>12. \A i \in 0 .. n : f[i] = IF i = 0 THEN s0 ELSE Step(f[i - 1], i)
  BY <1>11
<1> DEFINE P == {i \in 0 .. n : f[i] = g[i]}
<1>13. \A i \in 0 .. n : i \in P
  <2>1. 0 \in P
    BY <1>1, <1>6, <1>12
  <2>2. ASSUME NEW i \in 1 .. n, i - 1 \in P PROVE i \in P
    <3>1. i \in 0 .. n /\ i # 0 /\ f[i - 1] = g[i - 1]
      BY <1>1, <2>2
    <3> QED
      BY <1>7, <1>12, <3>1
  <2> HIDE DEF P
  <2> QED
    BY <1>1, <2>1, <2>2, InductionTo
<1>14. f = g /\ n \in 0 .. n
  <2>1. f = [i \in 0 .. n |-> f[i]]
    BY <1>11
  <2>2. \A i \in 0 .. n : f[i] = g[i]
    BY <1>13
  <2> QED
    BY <1>1, <1>6, <2>1, <2>2
<1>15. g[0] = 0
  BY <1>6 DEF s0
<1>16. \A i \in 1 .. n : g[i] =
        (IF InPiece(s, k, i) THEN g[i - 1] * 10 + Digits[s[i]] ELSE g[i - 1])
  BY <1>7 DEF Step
<1> QED
  BY <1>6, <1>10, <1>14, <1>15, <1>16 DEF IsNumber, n

LEMMA DotsGrow ==
    ASSUME NEW s \in Typings
    PROVE  \A j \in 0 .. Len(s) : \A i \in 0 .. j : Dots(s)[i] <= Dots(s)[j]
<1> DEFINE n == Len(s)
           g == Dots(s)
           Below(j) == \A i \in 0 .. j : g[i] <= g[j]
           P == {j \in 0 .. n : Below(j)}
<1>1. n \in Nat
  BY CharsOf
<1>2. /\ g \in [0 .. n -> Nat]
      /\ \A i \in 1 .. n : g[i] = IF s[i] = "dot" THEN g[i - 1] + 1 ELSE g[i - 1]
  BY DotsAre DEF IsDots
<1> HIDE DEF g, n
<1>3. 0 \in P
  BY <1>1, <1>2
<1>4. ASSUME NEW j \in 1 .. n, j - 1 \in P PROVE j \in P
  <2>1. j \in 0 .. n /\ j - 1 \in 0 .. n
    BY <1>1
  <2>2. Below(j - 1)
    BY <1>4
  <2>3. g[j] \in Nat /\ g[j - 1] \in Nat /\ g[j - 1] <= g[j]
    BY <1>2, <2>1
  <2>4. ASSUME NEW i \in 0 .. j PROVE g[i] <= g[j]
    <3>1. g[i] \in Nat
      BY <1>1, <1>2
    <3>2. CASE i = j
      BY <2>3, <3>2
    <3>3. CASE i # j
      <4>1. i \in 0 .. j - 1
        BY <1>1, <3>3
      <4> QED
        BY <2>2, <2>3, <3>1, <4>1
    <3> QED
      BY <3>2, <3>3
  <2>5. Below(j)
    BY <2>4
  <2> HIDE DEF Below
  <2> QED
    BY <2>1, <2>5
<1>5. \A j \in 0 .. n : j \in P
  <2> HIDE DEF P
  <2> QED
    BY <1>1, <1>3, <1>4, InductionTo
<1> QED
  BY <1>5 DEF n, g

LEMMA NumbersGrow ==
    ASSUME NEW s \in Typings, OnlyDottedDigits(s), NEW k, NEW f, IsNumber(f, s, k)
    PROVE  \A j \in 0 .. Len(s) : f[j] \in Nat /\ f[j] <= NumberOf(s, k)
<1> DEFINE n == Len(s)
           Below(j) == \A i \in 0 .. j : f[i] <= f[j]
           P == {j \in 0 .. n : Below(j)}
<1>1. n \in Nat
  BY CharsOf
<1>2. /\ f \in [0 .. n -> Nat] /\ NumberOf(s, k) = f[n]
      /\ \A i \in 1 .. n :
            f[i] = IF InPiece(s, k, i) THEN f[i - 1] * 10 + Digits[s[i]] ELSE f[i - 1]
  BY DEF IsNumber
<1>3. \A i \in 1 .. n : InPiece(s, k, i) => Digits[s[i]] \in 0 .. 9
  BY DigitsInPieces
<1> HIDE DEF n
<1>4. 0 \in P
  BY <1>1, <1>2
<1>5. ASSUME NEW j \in 1 .. n, j - 1 \in P PROVE j \in P
  <2>1. j \in 0 .. n /\ j - 1 \in 0 .. n
    BY <1>1
  <2>2. Below(j - 1)
    BY <1>5
  <2>4. f[j] \in Nat /\ f[j - 1] \in Nat
    BY <1>2, <2>1
  <2>5. f[j - 1] <= f[j]
    <3>1. CASE InPiece(s, k, j)
      <4> DEFINE a == f[j - 1]
                 d == Digits[s[j]]
      <4>1. f[j] = a * 10 + d /\ a \in Nat /\ d \in 0 .. 9
        BY <1>2, <1>3, <2>4, <3>1
      <4> HIDE DEF a, d
      <4>2. a <= f[j]
        BY <4>1
      <4> QED
        BY <4>2 DEF a
    <3>2. CASE ~InPiece(s, k, j)
      BY <1>2, <2>4, <3>2
    <3> QED
      BY <3>1, <3>2
  <2>6. ASSUME NEW i \in 0 .. j PROVE f[i] <= f[j]
    <3>1. f[i] \in Nat
      BY <1>1, <1>2
    <3>2. CASE i = j
      BY <2>4, <3>2
    <3>3. CASE i # j
      <4>1. i \in 0 .. j - 1
        BY <1>1, <3>3
      <4> QED
        BY <2>2, <2>4, <2>5, <3>1, <4>1
    <3> QED
      BY <3>2, <3>3
  <2>7. Below(j)
    BY <2>6
  <2> HIDE DEF Below
  <2> QED
    BY <2>1, <2>7
<1>6. \A j \in 0 .. n : j \in P
  <2> HIDE DEF P
  <2> QED
    BY <1>1, <1>4, <1>5, InductionTo
<1>7. Below(n)
  BY <1>1, <1>6
<1> QED
  BY <1>1, <1>2, <1>7 DEF n

\* What one more character does, read by either of the two.
LEMMA OctetStepIs ==
    ASSUME NEW x \in OctetStates, x.part # 4, NEW c
    PROVE  /\ c = "dot" => OctetStep(x, c).part = x.part + 1 /\ OctetStep(x, c).ip = x.ip
           /\ IsDigit(c) =>
                 /\ OctetStep(x, c).part = x.part
                 /\ \A k \in 0 .. 3 : OctetStep(x, c).ip[k] =
                       IF k = x.part THEN (x.ip[k] * 10 + Digits[c]) % Modulus ELSE x.ip[k]
<1>1. x.part \in 0 .. 3 /\ x.ip \in Quads
  BY DEF OctetStates
<1>2. CASE c = "dot"
  <2>1. ~IsDigit(c)
    BY <1>2, DigitsAre
  <2>2. OctetStep(x, c) = [x EXCEPT !.part = x.part + 1]
    BY <1>2 DEF OctetStep
  <2> QED
    BY <2>1, <2>2 DEF OctetStates
<1>3. CASE IsDigit(c)
  <2>1. c # "dot"
    BY <1>3, DigitsAre
  <2> DEFINE v == (x.ip[x.part] * 10 + Digits[c]) % Modulus
             ip == [x.ip EXCEPT ![x.part] = v]
  <2>2. OctetStep(x, c) = [x EXCEPT !.ip = ip]
    BY <1>3, <2>1 DEF OctetStep
  <2>3. \A k \in 0 .. 3 : ip[k] = IF k = x.part THEN v ELSE x.ip[k]
    BY <1>1 DEF Quads
  <2> HIDE DEF ip
  <2>4. OctetStep(x, c).part = x.part /\ OctetStep(x, c).ip = ip
    BY <2>2 DEF OctetStates
  <2> QED
    BY <2>1, <2>3, <2>4
<1> QED
  BY <1>2, <1>3

LEMMA ParseStepIs ==
    ASSUME NEW x \in ParseStates, x.part # 4, x.ok, NEW c
    PROVE  /\ c = "dot" => /\ ParseStep(x, c).part = x.part + 1
                           /\ ParseStep(x, c).ip = x.ip /\ ParseStep(x, c).ok
           /\ IsDigit(c) /\ x.ip[x.part] * 10 + Digits[c] < Modulus =>
                 /\ ParseStep(x, c).part = x.part /\ ParseStep(x, c).ok
                 /\ \A k \in 0 .. 3 : ParseStep(x, c).ip[k] =
                       IF k = x.part THEN x.ip[k] * 10 + Digits[c] ELSE x.ip[k]
           /\ c # "dot" /\ ~(IsDigit(c) /\ x.ip[x.part] * 10 + Digits[c] < Modulus) =>
                 ~ParseStep(x, c).ok
<1>1. x.part \in 0 .. 3 /\ x.ip \in Quads
  BY DEF ParseStates
<1> DEFINE v == x.ip[x.part] * 10 + Digits[c]
           good == IsDigit(c) /\ v < Modulus
<1>2. CASE c = "dot"
  <2>1. ~IsDigit(c)
    BY <1>2, DigitsAre
  <2>2. ParseStep(x, c) = [x EXCEPT !.part = x.part + 1]
    BY <1>2 DEF ParseStep
  <2> QED
    BY <1>2, <2>1, <2>2 DEF ParseStates
<1>3. CASE good
  <2>1. c # "dot"
    BY <1>3, DigitsAre
  <2> DEFINE ip == [x.ip EXCEPT ![x.part] = v]
  <2>2. ParseStep(x, c) = [x EXCEPT !.ip = ip]
    BY <1>3, <2>1 DEF ParseStep
  <2>3. \A k \in 0 .. 3 : ip[k] = IF k = x.part THEN v ELSE x.ip[k]
    BY <1>1 DEF Quads
  <2> HIDE DEF ip
  <2>4. /\ ParseStep(x, c).part = x.part /\ ParseStep(x, c).ip = ip
        /\ ParseStep(x, c).ok
    BY <2>2 DEF ParseStates
  <2>5. \A k \in 0 .. 3 : ParseStep(x, c).ip[k] =
           IF k = x.part THEN x.ip[k] * 10 + Digits[c] ELSE x.ip[k]
    BY <2>3, <2>4
  <2> QED
    BY <1>3, <2>1, <2>4, <2>5
<1>4. CASE c # "dot" /\ ~good
  <2>1. ParseStep(x, c) = [x EXCEPT !.ok = FALSE]
    BY <1>4 DEF ParseStep
  <2>2. ~ParseStep(x, c).ok
    BY <2>1 DEF ParseStates
  <2> QED
    BY <1>4, <2>2
<1> QED
  BY <1>2, <1>3, <1>4

\* The four numbers, as far as they are read.
AreNumbers(F, s) == \A k \in 0 .. 3 : IsNumber(F[k], s, k)

LEMMA NumbersAre ==
    ASSUME NEW s \in Typings, OnlyDottedDigits(s)
    PROVE  \E F : AreNumbers(F, s)
<1> DEFINE F == [k \in 0 .. 3 |-> CHOOSE f : IsNumber(f, s, k)]
<1>1. ASSUME NEW k \in 0 .. 3 PROVE IsNumber(F[k], s, k)
  <2>1. \E f : IsNumber(f, s, k)
    BY NumberIs
  <2>2. F[k] = CHOOSE f : IsNumber(f, s, k)
    OBVIOUS
  <2> QED
    BY Zenon, <2>1, <2>2
<1> HIDE DEF F
<1> QED
  BY <1>1 DEF AreNumbers

OneMore(F, s, i) ==
    /\ i \in 0 .. Len(s) /\ i - 1 \in 0 .. Len(s)
    /\ Dots(s)[i] \in Nat /\ Dots(s)[i - 1] \in Nat
    /\ \A k \in 0 .. 3 : F[k][i] \in Nat /\ F[k][i - 1] \in Nat
    /\ s[i] = "dot" => /\ Dots(s)[i] = Dots(s)[i - 1] + 1
                       /\ \A k \in 0 .. 3 : F[k][i] = F[k][i - 1]
    /\ s[i] # "dot" => /\ Dots(s)[i] = Dots(s)[i - 1]
                       /\ \A k \in 0 .. 3 : F[k][i] =
                             IF k = Dots(s)[i - 1] THEN F[k][i - 1] * 10 + Digits[s[i]]
                             ELSE F[k][i - 1]

LEMMA NumbersOneMore ==
    ASSUME NEW s \in Typings, NEW F, AreNumbers(F, s), NEW i \in 1 .. Len(s)
    PROVE  OneMore(F, s, i)
<1>1. Len(s) \in Nat
  BY CharsOf
<1>2. i \in 0 .. Len(s) /\ i - 1 \in 0 .. Len(s)
  BY <1>1
<1>3. IsDots(Dots(s), s)
  BY DotsAre
<1> DEFINE g == Dots(s)
<1>4. /\ g \in [0 .. Len(s) -> Nat]
      /\ g[i] = IF s[i] = "dot" THEN g[i - 1] + 1 ELSE g[i - 1]
  BY <1>3 DEF IsDots
<1>5. \A k \in 0 .. 3 : InPiece(s, k, i) <=> s[i] # "dot" /\ g[i] = k
  BY DEF InPiece
<1>6. ASSUME NEW k \in 0 .. 3
      PROVE  /\ F[k] \in [0 .. Len(s) -> Nat]
             /\ F[k][i] = IF InPiece(s, k, i) THEN F[k][i - 1] * 10 + Digits[s[i]] ELSE F[k][i - 1]
  BY DEF AreNumbers, IsNumber
<1> HIDE DEF g, OneMore
<1>7. g[i] \in Nat /\ g[i - 1] \in Nat /\ \A k \in 0 .. 3 : F[k][i] \in Nat /\ F[k][i - 1] \in Nat
  BY <1>2, <1>4, <1>6
<1>8. CASE s[i] = "dot"
  BY <1>2, <1>4, <1>5, <1>6, <1>7, <1>8 DEF g, OneMore
<1>9. CASE s[i] # "dot"
  <2>1. g[i] = g[i - 1]
    BY <1>4, <1>9
  <2>2. \A k \in 0 .. 3 : F[k][i] =
          IF k = g[i - 1] THEN F[k][i - 1] * 10 + Digits[s[i]] ELSE F[k][i - 1]
    BY <1>5, <1>6, <1>9, <2>1
  <2> QED
    BY <1>2, <1>7, <1>9, <2>1, <2>2 DEF g, OneMore
<1> QED
  BY <1>8, <1>9

LEMMA NothingYet ==
    ASSUME NEW s \in Typings, NEW F, AreNumbers(F, s)
    PROVE  Dots(s)[0] = 0 /\ \A k \in 0 .. 3 : F[k][0] = 0
  BY DotsAre DEF IsDots, AreNumbers, IsNumber

\* An address in dotted decimal, for ping, http and arp.
LEMMA OctetsAreNumbers ==
    ASSUME NEW s \in Typings, OnlyDottedDigits(s), Dots(s)[Len(s)] = 3,
           \A k \in 0 .. 3 : NumberOf(s, k) < Modulus
    PROVE  Octets(s).part = 3 /\ Octets(s).ip = Quad(s)
<1> DEFINE n == Len(s)
           x == OctetsRead(s)
           g == Dots(s)
<1>1. PICK F : AreNumbers(F, s)
  BY NumbersAre
<1> DEFINE Right(i) == x[i].part = g[i] /\ \A k \in 0 .. 3 : x[i].ip[k] = F[k][i]
           P == {i \in 0 .. n : Right(i)}
<1>2. n \in Nat
  BY CharsOf
<1>3. x \in [0 .. n -> OctetStates] /\ x[0] = [part |-> 0, ip |-> [k \in 0 .. 3 |-> 0]]
      /\ \A i \in 1 .. n : x[i] = OctetStep(x[i - 1], s[i])
  BY OctetsAre DEF IsOctets
<1>4. \A i \in 0 .. n : g[i] <= 3
  BY <1>2, DotsGrow
<1>5. \A k \in 0 .. 3 : \A i \in 0 .. n : F[k][i] \in Nat /\ F[k][i] < Modulus
  <2> SUFFICES ASSUME NEW k \in 0 .. 3, NEW i \in 0 .. n
               PROVE  F[k][i] \in Nat /\ F[k][i] < Modulus
    OBVIOUS
  <2>1. IsNumber(F[k], s, k)
    BY <1>1 DEF AreNumbers
  <2>2. F[k][i] \in Nat /\ F[k][i] <= NumberOf(s, k)
    BY <2>1, NumbersGrow
  <2>3. NumberOf(s, k) \in Nat
    <3>1. n \in 0 .. n
      BY <1>2
    <3> QED
      BY <2>1, <3>1 DEF IsNumber
  <2> QED
    BY <2>2, <2>3, AddressAssumption
<1>6. 0 \in P
  <2>1. g[0] = 0 /\ \A k \in 0 .. 3 : F[k][0] = 0
    BY <1>1, NothingYet
  <2>2. Right(0)
    BY <1>3, <2>1
  <2> QED
    BY <1>2, <2>2
<1>7. ASSUME NEW i \in 1 .. n, i - 1 \in P PROVE i \in P
  <2> DEFINE y == x[i - 1]
             c == s[i]
             d == Digits[c]
             h == g[i - 1]
  <2>0. i \in 0 .. n /\ i - 1 \in 0 .. n
    BY <1>2
  <2>1. y \in OctetStates /\ x[i] = OctetStep(y, c)
    BY <1>3, <2>0
  <2>2. y.part = h /\ \A k \in 0 .. 3 : y.ip[k] = F[k][i - 1]
    BY <1>7
  <2>3. /\ h \in Nat
        /\ \A k \in 0 .. 3 : F[k][i] \in Nat /\ F[k][i - 1] \in Nat
        /\ c = "dot" => g[i] = h + 1 /\ \A k \in 0 .. 3 : F[k][i] = F[k][i - 1]
        /\ c # "dot" => g[i] = h /\ \A k \in 0 .. 3 : F[k][i] =
                                      IF k = h THEN F[k][i - 1] * 10 + d ELSE F[k][i - 1]
    <3>1. OneMore(F, s, i)
      BY <1>1, NumbersOneMore
    <3> QED
      BY <3>1 DEF OneMore
  <2>4. h <= 3 /\ y.part # 4
    BY <1>4, <2>0, <2>2, <2>3
  <2>5. /\ c = "dot" => x[i].part = y.part + 1 /\ x[i].ip = y.ip
        /\ IsDigit(c) => /\ x[i].part = y.part
                         /\ \A k \in 0 .. 3 : x[i].ip[k] =
                               IF k = y.part THEN (y.ip[k] * 10 + d) % Modulus ELSE y.ip[k]
    BY <2>1, <2>4, OctetStepIs
  <2>6. c = "dot" \/ IsDigit(c)
    BY DEF OnlyDottedDigits
  <2> HIDE DEF y, c, d, h
  <2>7. CASE c = "dot"
    <3>1. x[i].part = g[i]
      BY <2>2, <2>3, <2>5, <2>7
    <3>2. ASSUME NEW k \in 0 .. 3 PROVE x[i].ip[k] = F[k][i]
      <4>1. x[i].ip = y.ip /\ F[k][i] = F[k][i - 1]
        BY <2>3, <2>5, <2>7
      <4> QED
        BY <2>2, <4>1
    <3> QED
      BY <2>0, <3>1, <3>2
  <2>8. CASE c # "dot"
    <3>1. ASSUME NEW k \in 0 .. 3 PROVE x[i].ip[k] = F[k][i]
      <4>1. CASE k = h
        <5>1. x[i].ip[k] = (F[k][i - 1] * 10 + d) % Modulus
          BY <2>2, <2>5, <2>6, <2>8, <4>1
        <5>2. F[k][i] = F[k][i - 1] * 10 + d
          BY <2>3, <2>8, <4>1
        <5>3. x[i].ip[k] = F[k][i] % Modulus
          BY <5>1, <5>2
        <5>4. F[k][i] \in Nat /\ F[k][i] < Modulus
          BY <1>5, <2>0
        <5> QED
          BY <5>3, <5>4, AddressAssumption
      <4>2. CASE k # h
        BY <2>2, <2>3, <2>5, <2>6, <2>8, <4>2
      <4> QED
        BY <4>1, <4>2
    <3>2. x[i].part = g[i]
      BY <2>2, <2>3, <2>5, <2>6, <2>8
    <3> QED
      BY <2>0, <3>1, <3>2
  <2> QED
    BY <2>7, <2>8
<1>8. \A i \in 0 .. n : i \in P
  <2> HIDE DEF P
  <2> QED
    BY <1>2, <1>6, <1>7, InductionTo
<1>9. n \in 0 .. n
  BY <1>2
<1>10. x[n].part = 3 /\ \A k \in 0 .. 3 : x[n].ip[k] = F[k][n]
  BY <1>8, <1>9
<1>11. x[n].ip \in Quads
  BY <1>3, <1>9 DEF OctetStates
<1>12. x[n].ip = Quad(s)
  BY <1>1, <1>10, <1>11 DEF Quad, Quads, AreNumbers, IsNumber
<1> QED
  BY <1>10, <1>12 DEF Octets

\* What the browser reads as an address is made of dots and digits.
LEMMA ParsedAreDotted ==
    ASSUME NEW s \in Typings
    PROVE  \A i \in 0 .. Len(s) :
              Parsed(s)[i].ok /\ Parsed(s)[i].part # 4 =>
                 /\ Parsed(s)[i].part = Dots(s)[i]
                 /\ \A j \in 1 .. i : s[j] = "dot" \/ IsDigit(s[j])
<1> DEFINE n == Len(s)
           x == Parsed(s)
           g == Dots(s)
           Dotted(i) == \A j \in 1 .. i : s[j] = "dot" \/ IsDigit(s[j])
           Right(i) == x[i].ok /\ x[i].part # 4 => x[i].part = g[i] /\ Dotted(i)
           P == {i \in 0 .. n : Right(i)}
<1>1. n \in Nat
  BY CharsOf
<1>2. /\ x \in [0 .. n -> ParseStates]
      /\ x[0] = [part |-> 0, ip |-> [k \in 0 .. 3 |-> 0], ok |-> TRUE]
      /\ \A i \in 1 .. n : x[i] = ParseStep(x[i - 1], s[i])
  BY ParsedIs DEF IsParsed
<1>3. /\ g \in [0 .. n -> Nat] /\ g[0] = 0
      /\ \A i \in 1 .. n : g[i] = IF s[i] = "dot" THEN g[i - 1] + 1 ELSE g[i - 1]
  BY DotsAre DEF IsDots
<1> HIDE DEF n, x, g
<1>4. 0 \in P
  BY <1>1, <1>2, <1>3
<1>5. ASSUME NEW i \in 1 .. n, i - 1 \in P PROVE i \in P
  <2> DEFINE y == x[i - 1]
             c == s[i]
  <2>1. i \in 0 .. n /\ i - 1 \in 0 .. n /\ \A j \in 1 .. i : j \in 1 .. i - 1 \/ j = i
    BY <1>1
  <2>2. y \in ParseStates /\ x[i] = ParseStep(y, c)
    BY <1>2, <2>1
  <2>3. y.ok /\ y.part # 4 => y.part = g[i - 1] /\ Dotted(i - 1)
    BY <1>5
  <2> HIDE DEF Dotted
  <2> SUFFICES ASSUME x[i].ok, x[i].part # 4
               PROVE  x[i].part = g[i] /\ Dotted(i)
    BY <2>1
  <2>4. y.ok /\ y.part # 4
    <3>1. ~y.ok \/ y.part = 4 => x[i] = y
      BY <2>2 DEF ParseStep
    <3> QED
      BY <3>1
  <2>5. /\ c = "dot" => x[i].part = y.part + 1
        /\ IsDigit(c) /\ y.ip[y.part] * 10 + Digits[c] < Modulus => x[i].part = y.part
        /\ c = "dot" \/ (IsDigit(c) /\ y.ip[y.part] * 10 + Digits[c] < Modulus)
    BY <2>2, <2>4, ParseStepIs
  <2>6. IsDigit(c) => c # "dot"
    BY DigitsAre
  <2>7. g[i] = IF c = "dot" THEN g[i - 1] + 1 ELSE g[i - 1]
    BY <1>3
  <2>8. x[i].part = g[i]
    BY <2>3, <2>4, <2>5, <2>6, <2>7
  <2>9. Dotted(i)
    <3>1. c = "dot" \/ IsDigit(c)
      BY <2>5
    <3> QED
      BY <2>1, <2>3, <2>4, <3>1 DEF Dotted
  <2> QED
    BY <2>8, <2>9
<1>6. \A i \in 0 .. n : i \in P
  <2> HIDE DEF P
  <2> QED
    BY <1>1, <1>4, <1>5, InductionTo
<1> QED
  BY <1>6 DEF n, x, g

\* An address in dotted decimal, for the browser.
LEMMA ParsedAreNumbers ==
    ASSUME NEW s \in Typings, NEW F, AreNumbers(F, s)
    PROVE  \A i \in 0 .. Len(s) :
              Parsed(s)[i].ok /\ Parsed(s)[i].part # 4 =>
                 /\ Parsed(s)[i].part = Dots(s)[i]
                 /\ \A k \in 0 .. 3 : Parsed(s)[i].ip[k] = F[k][i]
<1> DEFINE n == Len(s)
           x == Parsed(s)
           g == Dots(s)
           Right(i) == x[i].ok /\ x[i].part # 4 =>
                          /\ x[i].part = g[i]
                          /\ \A k \in 0 .. 3 : x[i].ip[k] = F[k][i]
           P == {i \in 0 .. n : Right(i)}
<1>2. n \in Nat
  BY CharsOf
<1>3. x \in [0 .. n -> ParseStates]
      /\ x[0] = [part |-> 0, ip |-> [k \in 0 .. 3 |-> 0], ok |-> TRUE]
      /\ \A i \in 1 .. n : x[i] = ParseStep(x[i - 1], s[i])
  BY ParsedIs DEF IsParsed
<1>4. 0 \in P
  <2>1. g[0] = 0 /\ \A k \in 0 .. 3 : F[k][0] = 0
    BY NothingYet
  <2>2. Right(0)
    BY <1>3, <2>1
  <2> QED
    BY <1>2, <2>2
<1>5. ASSUME NEW i \in 1 .. n, i - 1 \in P PROVE i \in P
  <2> DEFINE y == x[i - 1]
             c == s[i]
             d == Digits[c]
             h == g[i - 1]
  <2>0. i \in 0 .. n /\ i - 1 \in 0 .. n
    BY <1>2
  <2>1. y \in ParseStates /\ x[i] = ParseStep(y, c)
    BY <1>3, <2>0
  <2>2. y.ok /\ y.part # 4 => /\ y.part = h /\ \A k \in 0 .. 3 : y.ip[k] = F[k][i - 1]
    BY <1>5
  <2>3. /\ h \in Nat
        /\ \A k \in 0 .. 3 : F[k][i] \in Nat /\ F[k][i - 1] \in Nat
        /\ c = "dot" => g[i] = h + 1 /\ \A k \in 0 .. 3 : F[k][i] = F[k][i - 1]
        /\ c # "dot" => g[i] = h /\ \A k \in 0 .. 3 : F[k][i] =
                                      IF k = h THEN F[k][i - 1] * 10 + d ELSE F[k][i - 1]
    <3>1. OneMore(F, s, i)
      BY NumbersOneMore
    <3> QED
      BY <3>1 DEF OneMore
  <2> HIDE DEF d, h
  <2> SUFFICES ASSUME x[i].ok, x[i].part # 4
               PROVE  /\ x[i].part = g[i]
                      /\ \A k \in 0 .. 3 : x[i].ip[k] = F[k][i]
    BY <2>0
  <2>4. y.ok /\ y.part # 4
    <3>1. ~y.ok \/ y.part = 4 => x[i] = y
      BY <2>1 DEF ParseStep
    <3> QED
      BY <3>1
  <2>5. y.part \in 0 .. 3
    BY <2>1, <2>4 DEF ParseStates
  <2>6. /\ c = "dot" => x[i].part = y.part + 1 /\ x[i].ip = y.ip
        /\ IsDigit(c) /\ y.ip[y.part] * 10 + Digits[c] < Modulus =>
              /\ x[i].part = y.part
              /\ \A k \in 0 .. 3 : x[i].ip[k] =
                      IF k = y.part THEN y.ip[k] * 10 + Digits[c] ELSE y.ip[k]
        /\ c = "dot" \/ (IsDigit(c) /\ y.ip[y.part] * 10 + Digits[c] < Modulus)
    <3>1. CASE c # "dot" /\ ~(IsDigit(c) /\ y.ip[y.part] * 10 + Digits[c] < Modulus)
      <4>1. ~x[i].ok
        BY <2>1, <2>4, <3>1, ParseStepIs
      <4> QED
        BY <4>1
    <3>2. CASE c = "dot"
      BY <2>1, <2>4, <3>2, ParseStepIs, DigitsAre
    <3>3. CASE IsDigit(c) /\ y.ip[y.part] * 10 + Digits[c] < Modulus
      <4>1. c # "dot"
        BY <3>3, DigitsAre
      <4>2. /\ x[i].part = y.part
            /\ \A k \in 0 .. 3 : x[i].ip[k] =
                  IF k = y.part THEN y.ip[k] * 10 + Digits[c] ELSE y.ip[k]
        <5>1. /\ ParseStep(y, c).part = y.part
              /\ \A k \in 0 .. 3 : ParseStep(y, c).ip[k] =
                    IF k = y.part THEN y.ip[k] * 10 + Digits[c] ELSE y.ip[k]
          BY <2>1, <2>4, <3>3, ParseStepIs
        <5> HIDE DEF y, c
        <5> QED
          BY <2>1, <5>1
      <4> QED
        BY <3>3, <4>1, <4>2
    <3> QED
      BY <3>1, <3>2, <3>3
  <2> HIDE DEF y, c
  <2>8. CASE c = "dot"
    <3>1. x[i].part = g[i]
      BY <2>2, <2>3, <2>4, <2>6, <2>8
    <3>2. ASSUME NEW k \in 0 .. 3 PROVE x[i].ip[k] = F[k][i]
      <4>1. x[i].ip = y.ip /\ F[k][i] = F[k][i - 1]
        BY <2>3, <2>6, <2>8
      <4> QED
        BY <2>2, <2>4, <4>1
    <3> QED
      BY <3>1, <3>2
  <2>9. CASE c # "dot"
    <3>1. /\ x[i].part = y.part
          /\ \A k \in 0 .. 3 : x[i].ip[k] = IF k = y.part THEN y.ip[k] * 10 + d ELSE y.ip[k]
      BY <2>6, <2>9 DEF d
    <3>2. ASSUME NEW k \in 0 .. 3 PROVE x[i].ip[k] = F[k][i]
      <4>1. F[k][i] = IF k = h THEN F[k][i - 1] * 10 + d ELSE F[k][i - 1]
        BY <2>3, <2>9
      <4>2. y.ip[k] = F[k][i - 1] /\ y.part = h
        BY <2>2, <2>4
      <4> QED
        BY <3>1, <4>1, <4>2
    <3>3. x[i].part = g[i]
      BY <2>2, <2>3, <2>4, <2>9, <3>1
    <3> QED
      BY <3>2, <3>3
  <2> QED
    BY <2>8, <2>9
<1>6. \A i \in 0 .. n : i \in P
  <2> HIDE DEF P
  <2> QED
    BY <1>2, <1>4, <1>5, InductionTo
<1> QED
  BY <1>6

\* It takes every address in dotted decimal.
LEMMA DottedIsParsed ==
    ASSUME NEW s \in Typings, OnlyDottedDigits(s), Dots(s)[Len(s)] = 3,
           \A k \in 0 .. 3 : NumberOf(s, k) < Modulus
    PROVE  Parsed(s)[Len(s)].ok /\ Parsed(s)[Len(s)].part = 3
<1> DEFINE n == Len(s)
           x == Parsed(s)
           g == Dots(s)
           P == {i \in 0 .. n : x[i].ok /\ x[i].part # 4}
<1>1. PICK F : AreNumbers(F, s)
  BY NumbersAre
<1>2. n \in Nat
  BY CharsOf
<1>3. /\ x \in [0 .. n -> ParseStates]
      /\ x[0] = [part |-> 0, ip |-> [k \in 0 .. 3 |-> 0], ok |-> TRUE]
      /\ \A i \in 1 .. n : x[i] = ParseStep(x[i - 1], s[i])
  BY ParsedIs DEF IsParsed
<1>4. \A i \in 0 .. n : g[i] <= 3
  BY <1>2, DotsGrow
<1>5. \A i \in 0 .. n : x[i].ok /\ x[i].part # 4 =>
         x[i].part = g[i] /\ \A k \in 0 .. 3 : x[i].ip[k] = F[k][i]
  BY <1>1, ParsedAreNumbers
<1>6. 0 \in P
  BY <1>2, <1>3
<1>7. ASSUME NEW i \in 1 .. n, i - 1 \in P PROVE i \in P
  <2> DEFINE y == x[i - 1]
             c == s[i]
             d == Digits[c]
             h == g[i - 1]
  <2>1. i \in 0 .. n /\ i - 1 \in 0 .. n
    BY <1>2
  <2>2. y \in ParseStates /\ x[i] = ParseStep(y, c) /\ y.ok /\ y.part # 4
    BY <1>3, <1>7, <2>1
  <2>3. y.part = h /\ \A k \in 0 .. 3 : y.ip[k] = F[k][i - 1]
    BY <1>5, <2>1, <2>2
  <2>4. h \in 0 .. 3
    BY <2>2, <2>3 DEF ParseStates
  <2>5. /\ g[i] \in Nat
        /\ c = "dot" => g[i] = h + 1
        /\ c # "dot" => \A k \in 0 .. 3 : F[k][i] =
                          IF k = h THEN F[k][i - 1] * 10 + d ELSE F[k][i - 1]
    <3>1. OneMore(F, s, i)
      BY <1>1, NumbersOneMore
    <3> QED
      BY <3>1 DEF OneMore
  <2>6. c = "dot" \/ IsDigit(c)
    BY DEF OnlyDottedDigits
  <2>7. /\ c = "dot" => x[i].part = y.part + 1 /\ x[i].ok
        /\ IsDigit(c) /\ y.ip[y.part] * 10 + d < Modulus => x[i].part = y.part /\ x[i].ok
    BY <2>2, ParseStepIs
  <2>8. IsDigit(c) => c # "dot"
    BY DigitsAre
  <2> HIDE DEF y, c, d, h
  <2>9. CASE c = "dot"
    <3>1. x[i].part = g[i] /\ g[i] <= 3 /\ g[i] \in Nat
      BY <1>4, <2>1, <2>3, <2>5, <2>7, <2>9
    <3> QED
      BY <2>1, <2>7, <2>9, <3>1
  <2>10. CASE IsDigit(c)
    <3>1. y.ip[y.part] * 10 + d = F[h][i]
      BY <2>3, <2>4, <2>5, <2>8, <2>10
    <3>2. IsNumber(F[h], s, h)
      BY <1>1, <2>4 DEF AreNumbers
    <3>3. F[h][i] \in Nat /\ F[h][i] <= NumberOf(s, h)
      BY <2>1, <3>2, NumbersGrow
    <3>4. NumberOf(s, h) \in Nat /\ NumberOf(s, h) < Modulus
      <4>1. n \in 0 .. n
        BY <1>2
      <4> QED
        BY <2>4, <3>2, <4>1 DEF IsNumber
    <3>5. F[h][i] < Modulus
      BY <3>3, <3>4, AddressAssumption
    <3>6. x[i].part = y.part /\ x[i].ok
      BY <2>7, <2>10, <3>1, <3>5
    <3> QED
      BY <2>1, <2>2, <3>6
  <2> QED
    BY <2>6, <2>9, <2>10
<1>8. \A i \in 0 .. n : i \in P
  <2> HIDE DEF P
  <2> QED
    BY <1>2, <1>6, <1>7, InductionTo
<1>9. n \in 0 .. n
  BY <1>2
<1> QED
  BY <1>5, <1>8, <1>9

LEMMA ParsedIsQuad ==
    ASSUME NEW s \in Typings, Parsed(s)[Len(s)].ok, Parsed(s)[Len(s)].part = 3
    PROVE  OnlyDottedDigits(s) /\ Parsed(s)[Len(s)].ip = Quad(s)
<1> DEFINE n == Len(s)
<1>1. n \in 0 .. n
  BY CharsOf
<1>2. OnlyDottedDigits(s)
  BY <1>1, ParsedAreDotted DEF OnlyDottedDigits
<1>3. PICK F : AreNumbers(F, s)
  BY <1>2, NumbersAre
<1>4. \A k \in 0 .. 3 : Parsed(s)[n].ip[k] = F[k][n]
  BY <1>1, <1>3, ParsedAreNumbers
<1>5. \A k \in 0 .. 3 : F[k][n] = NumberOf(s, k)
  BY <1>3 DEF AreNumbers, IsNumber
<1>6. Parsed(s)[n].ip \in Quads
  BY <1>1, ParsedIs DEF IsParsed, ParseStates
<1> QED
  BY <1>2, <1>4, <1>5, <1>6 DEF Quads, Quad

\* The first word of a text.
LEMMA WordEnds ==
    ASSUME NEW s \in Typings
    PROVE  /\ WordEnd(s) \in 0 .. Len(s)
           /\ \A i \in 1 .. WordEnd(s) : s[i] # "blank"
           /\ WordEnd(s) = Len(s) \/ s[WordEnd(s) + 1] = "blank"
<1> DEFINE n == Len(s)
           IsEnd(e) == /\ \A i \in 1 .. e : s[i] # "blank"
                       /\ e = n \/ s[e + 1] = "blank"
           T == {i \in 1 .. n : s[i] = "blank"}
<1>1. n \in Nat
  BY CharsOf
<1>2. \E e \in 0 .. n : IsEnd(e)
  <2>1. CASE T = {}
    BY <1>1, <2>1
  <2>2. CASE T # {}
    <3>1. PICK b \in T : \A j \in T : b <= j
      <4>1. T \in SUBSET Nat
        BY <1>1
      <4> HIDE DEF T
      <4> QED
        BY <2>2, <4>1, LeastExists
    <3> DEFINE e == b - 1
    <3>2. e \in 0 .. n /\ s[e + 1] = "blank" /\ b = e + 1
      BY <1>1, <3>1
    <3>3. \A i \in 1 .. e : s[i] # "blank"
      <4> SUFFICES ASSUME NEW i \in 1 .. e, s[i] = "blank" PROVE FALSE
        OBVIOUS
      <4>1. i \in T /\ i < b /\ i \in Nat /\ b \in Nat
        BY <1>1, <3>1
      <4> QED
        BY <3>1, <4>1
    <3> QED
      BY <3>2, <3>3
  <2> QED
    BY <2>1, <2>2
<1>3. WordEnd(s) = CHOOSE e \in 0 .. n : IsEnd(e)
  BY DEF WordEnd
<1>4. WordEnd(s) \in 0 .. n /\ IsEnd(WordEnd(s))
  <2> HIDE DEF IsEnd, n
  <2> QED
    BY Zenon, <1>2, <1>3
<1> QED
  BY <1>4

LEMMA WordIs ==
    ASSUME NEW s \in Typings
    PROVE  /\ Word(s) \in Seq(Chars) /\ Len(Word(s)) = WordEnd(s)
           /\ \A i \in 1 .. WordEnd(s) : Word(s)[i] = s[i]
<1> DEFINE e == WordEnd(s)
<1>1. Len(s) \in Nat /\ e \in 0 .. Len(s)
  BY CharsOf, WordEnds
<1>2. \A i \in 1 .. e : s[i] \in Chars
  BY <1>1, CharsOf
<1> HIDE DEF e
<1>3. /\ SubSeq(s, 1, e) \in Seq(Chars)
      /\ Len(SubSeq(s, 1, e)) = IF 1 <= e THEN e - 1 + 1 ELSE 0
      /\ \A i \in 1 .. e - 1 + 1 : SubSeq(s, 1, e)[i] = s[1 + i - 1]
  <2>1. e \in Int /\ 1 \in Int
    BY <1>1
  <2> QED
    BY <1>2, <2>1, SubSeqProperties
<1> QED
  BY <1>1, <1>3 DEF Word, e

LEMMA DottedIsOneWord ==
    ASSUME NEW s \in Typings, OnlyDottedDigits(s)
    PROVE  Word(s) = s
<1>1. Len(s) \in Nat
  BY CharsOf
<1>2. WordEnd(s) = Len(s)
  <2> SUFFICES ASSUME WordEnd(s) # Len(s) PROVE FALSE
    OBVIOUS
  <2>1. WordEnd(s) + 1 \in 1 .. Len(s) /\ s[WordEnd(s) + 1] = "blank"
    BY <1>1, WordEnds
  <2>2. s[WordEnd(s) + 1] = "dot" \/ IsDigit(s[WordEnd(s) + 1])
    BY <2>1 DEF OnlyDottedDigits
  <2> QED
    BY <2>1, <2>2, DigitsAre
<1> QED
  BY <1>2, SubSeqFull DEF Word, Typings

LEMMA DottedUnderstood ==
    ASSUME NEW s \in Typings, IsDotted(s)
    PROVE  /\ parse_ip(s) = Quad(s)
           /\ PingTarget(s) = Quad(s)
           /\ HttpTarget(s) = Quad(s)
           /\ ArpTarget(s) = Quad(s)
<1>1. /\ OnlyDottedDigits(s) /\ Dots(s)[Len(s)] = 3
      /\ \A k \in 0 .. 3 : NumberOf(s, k) < Modulus
  BY DEF IsDotted
<1>2. Octets(s).part = 3 /\ Octets(s).ip = Quad(s)
  BY <1>1, OctetsAreNumbers
<1>3. Parsed(s)[Len(s)].ok /\ Parsed(s)[Len(s)].part = 3
  BY <1>1, DottedIsParsed
<1>4. Parsed(s)[Len(s)].ip = Quad(s)
  BY <1>3, ParsedIsQuad
<1>5. Word(s) = s
  BY <1>1, DottedIsOneWord
<1>6. parse_ip(s) = Quad(s)
  BY <1>3, <1>4 DEF parse_ip
<1>7. PingTarget(s) = Quad(s) /\ ArpTarget(s) = Quad(s)
  BY <1>1, <1>2 DEF PingTarget, ArpTarget
<1>8. HttpTarget(s) = Quad(s)
  BY <1>1, <1>2, <1>5 DEF HttpTarget
<1> QED
  BY <1>6, <1>7, <1>8

LEMMA OverflowRefused ==
    ASSUME NEW s \in Typings, parse_ip(s) # NoAddress
    PROVE  OnlyDottedDigits(s) /\ parse_ip(s) = Quad(s)
<1>1. /\ Parsed(s)[Len(s)].ok /\ Parsed(s)[Len(s)].part = 3
      /\ parse_ip(s) = Parsed(s)[Len(s)].ip
  BY DEF parse_ip
<1> QED
  BY <1>1, ParsedIsQuad

\* The reader of URLs.
UrlStates == [at : {"host", "path", "end"}, host : Typings, path : Typings]

IsUrl(f, s) ==
    /\ f \in [0 .. Len(s) -> UrlStates]
    /\ f[0] = [at |-> "host", host |-> <<>>, path |-> <<>>]
    /\ \A i \in 1 .. Len(s) : f[i] = UrlStep(f[i - 1], s[i])

LEMMA UrlStepIs ==
    ASSUME NEW x \in UrlStates, NEW c
    PROVE  /\ x.at = "host" /\ c \notin {"slash", "blank"} =>
                 UrlStep(x, c) = [x EXCEPT !.host = IF Len(x.host) < HostMax THEN Append(x.host, c)
                                                    ELSE x.host]
           /\ x.at = "host" /\ c = "slash" =>
                 UrlStep(x, c) = [x EXCEPT !.at = "path", !.path = <<"slash">>]
           /\ x.at = "path" /\ c # "blank" =>
                 UrlStep(x, c) = [x EXCEPT !.path = IF Len(x.path) < PathMax THEN Append(x.path, c)
                                                    ELSE x.path]
           /\ x.at = "end" \/ c = "blank" => UrlStep(x, c) = [x EXCEPT !.at = "end"]
  BY DEF UrlStep

LEMMA OneChar ==
    ASSUME NEW c \in Chars
    PROVE  <<c>> \in Typings /\ Len(<<c>>) = 1 /\ <<c>>[1] = c /\ <<c>> # <<>>
  BY DEF Typings

LEMMA UrlTyped ==
    ASSUME NEW x \in UrlStates, NEW c \in Chars
    PROVE  UrlStep(x, c) \in UrlStates
<1>1. x.at \in {"host", "path", "end"} /\ x.host \in Typings /\ x.path \in Typings
  BY DEF UrlStates
<1>2. Append(x.host, c) \in Typings /\ Append(x.path, c) \in Typings
  BY <1>1, AppendProperties DEF Typings
<1>3. CASE x.at = "host" /\ c \notin {"slash", "blank"}
  <2> DEFINE h == IF Len(x.host) < HostMax THEN Append(x.host, c) ELSE x.host
  <2>1. h \in Typings
    BY <1>1, <1>2
  <2>2. UrlStep(x, c) = [x EXCEPT !.host = h]
    BY <1>3, UrlStepIs
  <2> HIDE DEF h
  <2> QED
    BY <2>1, <2>2 DEF UrlStates
<1>4. CASE x.at = "host" /\ c = "slash"
  <2> DEFINE p == <<"slash">>
  <2>1. p \in Typings
    BY <1>4, OneChar
  <2>2. UrlStep(x, c) = [x EXCEPT !.at = "path", !.path = p]
    BY <1>4, UrlStepIs
  <2> HIDE DEF p
  <2> QED
    BY <2>1, <2>2 DEF UrlStates
<1>5. CASE x.at = "path" /\ c # "blank"
  <2> DEFINE p == IF Len(x.path) < PathMax THEN Append(x.path, c) ELSE x.path
  <2>1. p \in Typings
    BY <1>1, <1>2
  <2>2. UrlStep(x, c) = [x EXCEPT !.path = p]
    BY <1>5, UrlStepIs
  <2> HIDE DEF p
  <2> QED
    BY <2>1, <2>2 DEF UrlStates
<1>6. CASE x.at = "end" \/ c = "blank"
  <2>1. UrlStep(x, c) = [x EXCEPT !.at = "end"]
    BY <1>6, UrlStepIs
  <2> QED
    BY <2>1 DEF UrlStates
<1> QED
  BY <1>1, <1>3, <1>4, <1>5, <1>6

LEMMA NothingOfUrl == [at |-> "host", host |-> <<>>, path |-> <<>>] \in UrlStates
<1>1. <<>> \in Typings
  BY DEF Typings
<1> QED
  BY <1>1 DEF UrlStates

LEMMA UrlIs ==
    ASSUME NEW s \in Typings
    PROVE  IsUrl(UrlRead(s), s)
<1> DEFINE n == Len(s)
           s0 == [at |-> "host", host |-> <<>>, path |-> <<>>]
           Step(x, i) == UrlStep(x, s[i])
           step == [i \in 1 .. n |-> [x \in UrlStates |-> Step(x, i)]]
           Is(g) == g = [i \in 0 .. n |->
                      IF i = 0 THEN [at |-> "host", host |-> <<>>, path |-> <<>>]
                      ELSE UrlStep(g[i - 1], s[i])]
           f == CHOOSE g : Is(g)
<1>1. n \in Nat /\ \A i \in 1 .. n : s[i] \in Chars
  BY CharsOf
<1>2. \A i \in 1 .. n : \A x \in UrlStates : Step(x, i) \in UrlStates
  BY <1>1, UrlTyped
<1>3. s0 \in UrlStates
  BY NothingOfUrl
<1> HIDE DEF Step, n, s0
<1>4. /\ step \in [1 .. n -> [UrlStates -> UrlStates]]
     /\ \A i \in 1 .. n :
          \A x \in UrlStates : step[i][x] = Step(x, i)
  BY <1>2
<1> HIDE DEF step
<1>5. PICK g : IsLoop(g, n, UrlStates, s0, step)
  BY <1>1, <1>3, <1>4, LoopExists
<1>6. /\ g \in [0 .. n -> UrlStates] /\ g[0] = s0
      /\ \A i \in 1 .. n : g[i] = step[i][g[i - 1]]
  BY <1>5 DEF IsLoop
<1>7. ASSUME NEW i \in 1 .. n PROVE g[i] = Step(g[i - 1], i)
  <2>1. g[i - 1] \in UrlStates
    BY <1>1, <1>6
  <2> QED
    BY <1>4, <1>6, <2>1
<1>8. Is(g)
  <2>1. ASSUME NEW i \in 0 .. n PROVE g[i] = IF i = 0 THEN s0 ELSE Step(g[i - 1], i)
    <3>1. i # 0 => i \in 1 .. n
      BY <1>1
    <3> QED
      BY <1>6, <1>7, <3>1
  <2>2. g = [i \in 0 .. n |-> IF i = 0 THEN s0 ELSE Step(g[i - 1], i)]
    BY <1>6, <2>1
  <2> QED
    BY <2>2 DEF s0, Step
<1>9. Is(f)
  <2> HIDE DEF Is
  <2> QED
    BY <1>8
<1>10. UrlRead(s) = f
  BY Zenon DEF UrlRead, n
<1>11. f = [i \in 0 .. n |-> IF i = 0 THEN s0 ELSE Step(f[i - 1], i)]
  BY <1>9 DEF s0, Step
<1> HIDE DEF f
<1>12. \A i \in 0 .. n : f[i] = IF i = 0 THEN s0 ELSE Step(f[i - 1], i)
  BY <1>11
<1> DEFINE P == {i \in 0 .. n : f[i] = g[i]}
<1>13. \A i \in 0 .. n : i \in P
  <2>1. 0 \in P
    BY <1>1, <1>6, <1>12
  <2>2. ASSUME NEW i \in 1 .. n, i - 1 \in P PROVE i \in P
    <3>1. i \in 0 .. n /\ i # 0 /\ f[i - 1] = g[i - 1]
      BY <1>1, <2>2
    <3> QED
      BY <1>7, <1>12, <3>1
  <2> HIDE DEF P
  <2> QED
    BY <1>1, <2>1, <2>2, InductionTo
<1>14. f = g /\ n \in 0 .. n
  <2>1. f = [i \in 0 .. n |-> f[i]]
    BY <1>11
  <2>2. \A i \in 0 .. n : f[i] = g[i]
    BY <1>13
  <2> QED
    BY <1>1, <1>6, <2>1, <2>2
<1>15. g[0] = [at |-> "host", host |-> <<>>, path |-> <<>>]
  BY <1>6 DEF s0
<1>16. \A i \in 1 .. n : g[i] = UrlStep(g[i - 1], s[i])
  BY <1>7 DEF Step
<1> QED
  BY <1>6, <1>10, <1>14, <1>15, <1>16 DEF IsUrl, n

\* Where the reader is, after i characters of a text whose word has e.
PlaceRight(x, i, e) ==
    /\ x.at = "host" => x.path = <<>>
    /\ x.at = "path" => x.path # <<>>
    /\ x.at = "end" <=> i > e

\* What it has read, the first m characters, unless host or path was cut off.
PartsRight(x, s, m) ==
    Len(x.host) < HostMax /\ Len(x.path) < PathMax =>
      /\ Len(x.host) + Len(x.path) = m
      /\ \A j \in 1 .. Len(x.host) : x.host[j] = s[j] /\ s[j] # "slash"
      /\ \A j \in 1 .. Len(x.path) : x.path[j] = s[Len(x.host) + j]
      /\ x.path # <<>> => x.path[1] = "slash"

LEMMA HostGrows ==
    ASSUME NEW s, NEW m \in Nat, NEW x \in UrlStates, PartsRight(x, s, m),
           x.at = "host", x.path = <<>>,
           NEW c \in Chars, c = s[m + 1], c # "slash", c # "blank"
    PROVE  /\ UrlStep(x, c).at = "host" /\ UrlStep(x, c).path = <<>>
           /\ PartsRight(UrlStep(x, c), s, m + 1)
<1> DEFINE h == IF Len(x.host) < HostMax THEN Append(x.host, c) ELSE x.host
           y == UrlStep(x, c)
<1>1. x.host \in Seq(Chars)
  BY DEF UrlStates, Typings
<1>2. y = [x EXCEPT !.host = h]
  BY UrlStepIs
<1> HIDE DEF h, y
<1>3. y.at = "host" /\ y.path = <<>> /\ y.host = h
  BY <1>2 DEF UrlStates
<1>4. Len(x.host) \in Nat
  BY <1>1, LenProperties
<1>5. ASSUME Len(y.host) < HostMax, Len(y.path) < PathMax
      PROVE  /\ Len(y.host) + Len(y.path) = m + 1
             /\ \A j \in 1 .. Len(y.host) : y.host[j] = s[j] /\ s[j] # "slash"
             /\ \A j \in 1 .. Len(y.path) : y.path[j] = s[Len(y.host) + j]
             /\ y.path # <<>> => y.path[1] = "slash"
  <2>1. Len(x.host) < HostMax
    BY <1>3, <1>5 DEF h
  <2>2. /\ h = Append(x.host, c) /\ Len(h) = Len(x.host) + 1
        /\ \A j \in 1 .. Len(x.host) : h[j] = x.host[j]
        /\ h[Len(x.host) + 1] = c
    BY <1>1, <2>1, AppendProperties DEF h
  <2>3. Len(<<>>) = 0
    OBVIOUS
  <2>4. /\ Len(x.host) + Len(x.path) = m
        /\ \A j \in 1 .. Len(x.host) : x.host[j] = s[j] /\ s[j] # "slash"
    BY <1>3, <1>5, <2>1 DEF PartsRight
  <2>5. Len(x.host) = m
    BY <1>4, <2>3, <2>4
  <2>6. Len(h) = m + 1 /\ Len(y.path) = 0
    BY <1>3, <2>2, <2>3, <2>5
  <2>7. ASSUME NEW j \in 1 .. Len(y.host) PROVE y.host[j] = s[j] /\ s[j] # "slash"
    <3>1. j \in 1 .. m \/ j = m + 1
      BY <1>3, <2>6
    <3> QED
      BY <1>3, <2>2, <2>4, <2>5, <3>1
  <2>8. Len(y.host) + Len(y.path) = m + 1
    BY <1>3, <2>6
  <2>9. \A j \in 1 .. Len(y.path) : y.path[j] = s[Len(y.host) + j]
    BY <2>6
  <2> QED
    BY <1>3, <2>7, <2>8, <2>9
<1>6. PartsRight(y, s, m + 1)
  BY <1>5 DEF PartsRight
<1> QED
  BY <1>3, <1>6 DEF y

LEMMA PathStarts ==
    ASSUME NEW s, NEW m \in Nat, NEW x \in UrlStates, PartsRight(x, s, m),
           x.at = "host", x.path = <<>>,
           NEW c \in Chars, c = s[m + 1], c = "slash"
    PROVE  /\ UrlStep(x, c).at = "path" /\ UrlStep(x, c).path # <<>>
           /\ PartsRight(UrlStep(x, c), s, m + 1)
<1> DEFINE p == <<"slash">>
           y == UrlStep(x, c)
<1>1. x.host \in Seq(Chars)
  BY DEF UrlStates, Typings
<1>2. y = [x EXCEPT !.at = "path", !.path = p]
  BY UrlStepIs
<1>3. p # <<>> /\ Len(p) = 1 /\ p[1] = "slash"
  BY OneChar
<1> HIDE DEF p, y
<1>4. y.at = "path" /\ y.path = p /\ y.host = x.host
  BY <1>2 DEF UrlStates
<1>5. Len(x.host) \in Nat
  BY <1>1, LenProperties
<1>6. ASSUME Len(y.host) < HostMax, Len(y.path) < PathMax
      PROVE  /\ Len(y.host) + Len(y.path) = m + 1
             /\ \A j \in 1 .. Len(y.host) : y.host[j] = s[j] /\ s[j] # "slash"
             /\ \A j \in 1 .. Len(y.path) : y.path[j] = s[Len(y.host) + j]
             /\ y.path # <<>> => y.path[1] = "slash"
  <2>1. Len(<<>>) = 0 /\ 0 < PathMax
    BY AddressAssumption
  <2>2. /\ Len(x.host) + Len(x.path) = m
        /\ \A j \in 1 .. Len(x.host) : x.host[j] = s[j] /\ s[j] # "slash"
    BY <1>4, <1>6, <2>1 DEF PartsRight
  <2>3. Len(x.host) = m
    BY <1>5, <2>1, <2>2
  <2>4. Len(y.host) + Len(y.path) = m + 1
    BY <1>3, <1>4, <2>3
  <2>5. ASSUME NEW j \in 1 .. Len(y.path) PROVE y.path[j] = s[Len(y.host) + j]
    <3>1. j = 1
      <4>1. Len(y.path) = 1
        BY <1>3, <1>4
      <4> QED
        BY <4>1
    <3>2. Len(y.host) + j = m + 1
      BY <1>4, <2>3, <3>1
    <3>3. y.path[j] = c
      BY <1>3, <1>4, <3>1
    <3> QED
      BY <3>2, <3>3
  <2> QED
    BY <1>3, <1>4, <2>2, <2>4, <2>5
<1>7. PartsRight(y, s, m + 1)
  BY <1>6 DEF PartsRight
<1> QED
  BY <1>3, <1>4, <1>7 DEF y

LEMMA PathGrows ==
    ASSUME NEW s, NEW m \in Nat, NEW x \in UrlStates, PartsRight(x, s, m),
           x.at = "path", x.path # <<>>,
           NEW c \in Chars, c = s[m + 1], c # "blank"
    PROVE  /\ UrlStep(x, c).at = "path" /\ UrlStep(x, c).path # <<>>
           /\ PartsRight(UrlStep(x, c), s, m + 1)
<1> DEFINE p == IF Len(x.path) < PathMax THEN Append(x.path, c) ELSE x.path
           y == UrlStep(x, c)
<1>1. x.host \in Seq(Chars) /\ x.path \in Seq(Chars)
  BY DEF UrlStates, Typings
<1>2. y = [x EXCEPT !.path = p]
  BY UrlStepIs
<1>3. Len(x.host) \in Nat /\ Len(x.path) \in Nat /\ Len(x.path) # 0
  BY <1>1, LenProperties, EmptySeq
<1>4. Append(x.path, c) # <<>>
  BY <1>1, AppendProperties
<1>5. p # <<>>
  BY <1>4
<1> HIDE DEF p, y
<1>6. y.at = "path" /\ y.path = p /\ y.host = x.host
  BY <1>2 DEF UrlStates
<1>7. ASSUME Len(y.host) < HostMax, Len(y.path) < PathMax
      PROVE  /\ Len(y.host) + Len(y.path) = m + 1
             /\ \A j \in 1 .. Len(y.host) : y.host[j] = s[j] /\ s[j] # "slash"
             /\ \A j \in 1 .. Len(y.path) : y.path[j] = s[Len(y.host) + j]
             /\ y.path # <<>> => y.path[1] = "slash"
  <2>1. Len(x.path) < PathMax
    BY <1>6, <1>7 DEF p
  <2>2. /\ Len(p) = Len(x.path) + 1
        /\ \A j \in 1 .. Len(x.path) : p[j] = x.path[j]
        /\ p[Len(x.path) + 1] = c
    BY <1>1, <2>1, AppendProperties DEF p
  <2>3. /\ Len(x.host) + Len(x.path) = m
        /\ \A j \in 1 .. Len(x.host) : x.host[j] = s[j] /\ s[j] # "slash"
        /\ \A j \in 1 .. Len(x.path) : x.path[j] = s[Len(x.host) + j]
        /\ x.path[1] = "slash"
    BY <1>6, <1>7, <2>1 DEF PartsRight
  <2>4. Len(y.host) + Len(y.path) = m + 1
    <3> DEFINE a == Len(x.host)
               b == Len(x.path)
    <3>1. a \in Nat /\ b \in Nat /\ a + b = m /\ Len(y.host) = a /\ Len(y.path) = b + 1
      BY <1>3, <1>6, <2>2, <2>3
    <3> HIDE DEF a, b
    <3> QED
      BY <3>1
  <2>5. ASSUME NEW j \in 1 .. Len(y.path) PROVE y.path[j] = s[Len(y.host) + j]
    <3>1. j \in 1 .. Len(x.path) \/ j = Len(x.path) + 1
      BY <1>3, <1>6, <2>2
    <3>2. CASE j \in 1 .. Len(x.path)
      BY <1>6, <2>2, <2>3, <3>2
    <3>3. CASE j = Len(x.path) + 1
      <4>1. Len(x.host) + j = m + 1
        <5> DEFINE a == Len(x.host)
                   b == Len(x.path)
        <5>1. a \in Nat /\ b \in Nat /\ a + b = m /\ j = b + 1
          BY <1>3, <2>3, <3>3
        <5> HIDE DEF b
        <5>2. a + j = m + 1
          <6> HIDE DEF a
          <6> QED
            BY <5>1
        <5> QED
          BY <5>2
      <4> QED
        BY <1>6, <2>2, <3>3, <4>1
    <3> QED
      BY <3>1, <3>2, <3>3
  <2>6. y.path[1] = "slash"
    BY <1>3, <1>6, <2>2, <2>3
  <2> QED
    BY <1>6, <2>3, <2>4, <2>5, <2>6
<1>8. PartsRight(y, s, m + 1)
  BY <1>7 DEF PartsRight
<1> QED
  BY <1>5, <1>6, <1>8 DEF y

LEMMA UrlKeepsUp ==
    ASSUME NEW s \in Typings
    PROVE  \A i \in 0 .. Len(s) :
              /\ PlaceRight(UrlRead(s)[i], i, WordEnd(s))
              /\ PartsRight(UrlRead(s)[i], s, IF i <= WordEnd(s) THEN i ELSE WordEnd(s))
<1> DEFINE n == Len(s)
           e == WordEnd(s)
           x == UrlRead(s)
           Upto(i) == IF i <= e THEN i ELSE e
           Right(i) == PlaceRight(x[i], i, e) /\ PartsRight(x[i], s, Upto(i))
           P == {i \in 0 .. n : Right(i)}
<1>1. n \in Nat /\ e \in 0 .. n /\ \A i \in 1 .. n : s[i] \in Chars
  BY CharsOf, WordEnds
<1>2. (\A i \in 1 .. e : s[i] # "blank") /\ (e = n \/ s[e + 1] = "blank")
  BY WordEnds
<1>3. /\ x \in [0 .. n -> UrlStates]
      /\ x[0] = [at |-> "host", host |-> <<>>, path |-> <<>>]
      /\ \A i \in 1 .. n : x[i] = UrlStep(x[i - 1], s[i])
  BY UrlIs DEF IsUrl
<1> HIDE DEF n, e, x
<1>4. 0 \in P
  <2>1. Len(<<>>) = 0
    OBVIOUS
  <2>2. x[0].at = "host" /\ x[0].host = <<>> /\ x[0].path = <<>>
    BY <1>3
  <2>3. Upto(0) = 0
    BY <1>1
  <2>4. PlaceRight(x[0], 0, e)
    BY <1>1, <2>2 DEF PlaceRight
  <2>5. PartsRight(x[0], s, 0)
    BY <2>1, <2>2 DEF PartsRight
  <2> QED
    BY <1>1, <2>3, <2>4, <2>5
<1>5. ASSUME NEW i \in 1 .. n, i - 1 \in P PROVE i \in P
  <2> DEFINE y == x[i - 1]
             c == s[i]
             m == i - 1
  <2>1. i \in 0 .. n /\ m \in 0 .. n /\ m \in Nat /\ m + 1 = i /\ e \in Nat /\ i \in Nat
    BY <1>1
  <2>2. y \in UrlStates /\ x[i] = UrlStep(y, c) /\ c \in Chars
    BY <1>1, <1>3, <2>1
  <2>3. PlaceRight(y, m, e) /\ PartsRight(y, s, Upto(m))
    BY <1>5
  <2>4. y.at \in {"host", "path", "end"}
    BY <2>2 DEF UrlStates
  <2> HIDE DEF y, c, m
  <2>5. CASE i <= e
    <3>1. m <= e /\ Upto(m) = m /\ Upto(i) = m + 1 /\ ~(i > e) /\ ~(m > e)
      BY <2>1, <2>5
    <3>2. c # "blank" /\ c = s[m + 1]
      BY <1>2, <2>1, <2>5 DEF c
    <3>3. y.at # "end" /\ PartsRight(y, s, m)
      BY <2>3, <3>1 DEF PlaceRight
    <3>4. CASE y.at = "host" /\ c # "slash"
      <4>1. y.path = <<>>
        BY <2>3, <3>4 DEF PlaceRight
      <4>2. x[i].at = "host" /\ x[i].path = <<>> /\ PartsRight(x[i], s, m + 1)
        BY <2>1, <2>2, <3>2, <3>3, <3>4, <4>1, HostGrows
      <4>3. PlaceRight(x[i], i, e)
        BY <3>1, <4>2 DEF PlaceRight
      <4> QED
        BY <2>1, <3>1, <4>2, <4>3
    <3>5. CASE y.at = "host" /\ c = "slash"
      <4>1. y.path = <<>>
        BY <2>3, <3>5 DEF PlaceRight
      <4>2. x[i].at = "path" /\ x[i].path # <<>> /\ PartsRight(x[i], s, m + 1)
        <5> DEFINE z == UrlStep(y, c)
        <5>1. z.at = "path" /\ z.path # <<>> /\ PartsRight(z, s, m + 1)
          BY Zenon, <2>1, <2>2, <3>2, <3>3, <3>5, <4>1, PathStarts
        <5>2. x[i] = z
          BY <2>2
        <5> HIDE DEF z
        <5> QED
          BY <5>1, <5>2
      <4>3. PlaceRight(x[i], i, e)
        BY <3>1, <4>2 DEF PlaceRight
      <4> QED
        BY <2>1, <3>1, <4>2, <4>3
    <3>6. CASE y.at = "path"
      <4>1. y.path # <<>>
        BY <2>3, <3>6 DEF PlaceRight
      <4>2. x[i].at = "path" /\ x[i].path # <<>> /\ PartsRight(x[i], s, m + 1)
        BY <2>1, <2>2, <3>2, <3>3, <3>6, <4>1, PathGrows
      <4>3. PlaceRight(x[i], i, e)
        BY <3>1, <4>2 DEF PlaceRight
      <4> QED
        BY <2>1, <3>1, <4>2, <4>3
    <3> QED
      BY <2>4, <3>3, <3>4, <3>5, <3>6
  <2>6. CASE i > e
    <3>1. Upto(m) = e /\ Upto(i) = e
      BY <2>1, <2>6
    <3>2. y.at = "end" \/ c = "blank"
      <4>1. CASE m > e
        BY <2>3, <4>1 DEF PlaceRight
      <4>2. CASE ~(m > e)
        <5>1. i = e + 1 /\ e # n
          BY <1>1, <2>1, <2>6, <4>2
        <5> QED
          BY <1>2, <5>1 DEF c
      <4> QED
        BY <4>1, <4>2
    <3>3. UrlStep(y, c) = [y EXCEPT !.at = "end"]
      BY <2>2, <3>2, UrlStepIs
    <3>4. x[i].at = "end" /\ x[i].host = y.host /\ x[i].path = y.path
      BY <2>2, <3>3 DEF UrlStates
    <3>5. PlaceRight(x[i], i, e)
      BY <2>6, <3>4 DEF PlaceRight
    <3>6. PartsRight(x[i], s, e)
      <4>1. PartsRight(y, s, e)
        BY <2>3, <3>1
      <4> QED
        BY <3>4, <4>1 DEF PartsRight
    <3> QED
      BY <2>1, <3>1, <3>5, <3>6
  <2> QED
    BY <2>1, <2>5, <2>6
<1>6. \A i \in 0 .. n : i \in P
  <2> HIDE DEF P
  <2> QED
    BY <1>1, <1>4, <1>5, InductionTo
<1> QED
  BY <1>6 DEF n, e, x

LEMMA UrlSplit ==
    ASSUME NEW s \in Typings,
           Len(parse_url(s).host) < HostMax, Len(parse_url(s).path) < PathMax
    PROVE  IF \E i \in 1 .. Len(Word(s)) : Word(s)[i] = "slash"
           THEN parse_url(s).host \o parse_url(s).path = Word(s)
           ELSE parse_url(s).host = Word(s) /\ parse_url(s).path = <<"slash">>
<1> DEFINE n == Len(s)
           e == WordEnd(s)
           w == Word(s)
           x == UrlRead(s)[n]
           h == x.host
           p == x.path
           root == <<"slash">>
           default == IF p = <<>> THEN root ELSE p
<1>1. n \in Nat /\ e \in 0 .. n /\ n \in 0 .. n
  BY CharsOf, WordEnds
<1>2. w \in Seq(Chars) /\ Len(w) = e /\ \A i \in 1 .. e : w[i] = s[i]
  BY WordIs
<1>3. h \in Seq(Chars) /\ p \in Seq(Chars)
  <2>1. x \in UrlStates
    BY <1>1, UrlIs DEF IsUrl
  <2> QED
    BY <2>1 DEF UrlStates, Typings
<1>4. parse_url(s).host = h /\ parse_url(s).path = default
  BY DEF parse_url
<1> HIDE DEF default, root
<1>5. Len(h) < HostMax /\ Len(p) < PathMax
  <2>1. CASE p = <<>>
    <3>1. Len(p) = 0
      BY <2>1
    <3> QED
      BY <1>4, <3>1, AddressAssumption
  <2>2. CASE p # <<>>
    BY <1>4, <2>2 DEF default
  <2> QED
    BY <2>1, <2>2
<1>6. PartsRight(x, s, e)
  <2>1. PartsRight(x, s, IF n <= e THEN n ELSE e)
    BY <1>1, UrlKeepsUp
  <2>2. (IF n <= e THEN n ELSE e) = e
    BY <1>1
  <2> QED
    BY <2>1, <2>2
<1>7. /\ Len(h) + Len(p) = e
      /\ \A j \in 1 .. Len(h) : h[j] = s[j] /\ s[j] # "slash"
      /\ \A j \in 1 .. Len(p) : p[j] = s[Len(h) + j]
      /\ p # <<>> => p[1] = "slash"
  BY <1>5, <1>6 DEF PartsRight
<1> HIDE DEF n, e, w, h, p
<1>8. Len(h) \in Nat /\ Len(p) \in Nat /\ (p # <<>> => Len(p) # 0) /\ (p = <<>> => Len(p) = 0)
  BY <1>3, LenProperties, EmptySeq
<1>9. (\E i \in 1 .. Len(w) : w[i] = "slash") <=> p # <<>>
  <2>1. CASE p = <<>>
    <3>1. Len(h) = e
      BY <1>7, <1>8, <2>1
    <3>2. \A i \in 1 .. Len(w) : w[i] # "slash"
      BY <1>2, <1>7, <3>1
    <3> QED
      BY <2>1, <3>2
  <2>2. CASE p # <<>>
    <3> DEFINE a == Len(h)
               b == Len(p)
    <3>1. a \in Nat /\ b \in Nat /\ b # 0 /\ a + b = e
      BY <1>7, <1>8, <2>2
    <3>2. p[1] = "slash" /\ \A j \in 1 .. b : p[j] = s[a + j]
      BY <1>7, <2>2
    <3> HIDE DEF a, b
    <3>3. a + 1 \in 1 .. e /\ s[a + 1] = "slash"
      BY <3>1, <3>2
    <3>4. w[a + 1] = "slash" /\ a + 1 \in 1 .. Len(w)
      BY <1>2, <3>3
    <3> QED
      BY <2>2, <3>4
  <2> QED
    BY <2>1, <2>2
<1>10. CASE p # <<>>
  <2> DEFINE t == h \o p
             a == Len(h)
             b == Len(p)
  <2>1. /\ t \in Seq(Chars) /\ Len(t) = a + b
        /\ \A i \in 1 .. a + b : t[i] = IF i <= a THEN h[i] ELSE p[i - a]
    BY <1>3, ConcatProperties
  <2>2. a \in Nat /\ b \in Nat /\ a + b = e
    BY <1>7, <1>8
  <2>3. (\A j \in 1 .. a : h[j] = s[j]) /\ \A j \in 1 .. b : p[j] = s[a + j]
    BY <1>7
  <2> HIDE DEF t, a, b
  <2>4. ASSUME NEW i \in 1 .. Len(t) PROVE t[i] = w[i]
    <3>1. i \in 1 .. e /\ i \in 1 .. a + b /\ i \in Nat
      BY <2>1, <2>2
    <3>2. w[i] = s[i]
      BY <1>2, <3>1
    <3>3. CASE i <= a
      BY <2>1, <2>2, <2>3, <3>1, <3>2, <3>3
    <3>4. CASE ~(i <= a)
      <4>1. i - a \in 1 .. b /\ a + (i - a) = i
        BY <2>2, <3>1, <3>4
      <4>2. p[i - a] = s[a + (i - a)]
        BY <2>3, <4>1
      <4>3. t[i] = p[i - a]
        BY <2>1, <3>1, <3>4
      <4> QED
        BY <3>2, <4>1, <4>2, <4>3
    <3> QED
      BY <3>3, <3>4
  <2>5. t = w
    <3>1. Len(t) = Len(w)
      BY <1>2, <2>1, <2>2
    <3> QED
      BY <1>2, <2>1, <2>4, <3>1, SeqEqual
  <2>6. default = p
    BY <1>10 DEF default
  <2> QED
    BY <1>4, <1>9, <1>10, <2>5, <2>6 DEF t, w
<1>11. CASE p = <<>>
  <2>1. Len(h) = e
    BY <1>7, <1>8, <1>11
  <2>2. \A i \in 1 .. Len(h) : h[i] = w[i]
    BY <1>2, <1>7, <2>1
  <2>3. h = w
    <3>1. Len(h) = Len(w)
      BY <1>2, <2>1
    <3> QED
      BY <1>2, <1>3, <2>2, <3>1, SeqEqual
  <2>4. default = root
    BY <1>11 DEF default
  <2>5. ~(\E i \in 1 .. Len(w) : w[i] = "slash")
    BY <1>9, <1>11
  <2> QED
    BY <1>4, <2>3, <2>4, <2>5 DEF w, root
<1> QED
  BY <1>10, <1>11

\* The text is a sequence of the characters that can be typed.
TextTyped == text \in Typings

LEMMA TypingsTyped == TypedSpec => []TextTyped
<1>1. TypedInit => TextTyped
  BY DEF TypedInit, TextTyped, Typings
<1>2. TextTyped /\ [TypedNext]_text => TextTyped'
  <2> SUFFICES ASSUME TextTyped, [TypedNext]_text PROVE TextTyped'
    OBVIOUS
  <2>1. CASE TypedNext
    <3>1. PICK c \in Chars : text' = Append(text, c)
      BY <2>1 DEF TypedNext
    <3> QED
      BY <3>1, AppendProperties DEF TextTyped, Typings
  <2>2. CASE UNCHANGED text
    BY <2>2 DEF TextTyped
  <2> QED
    BY <2>1, <2>2
<1> QED
  BY <1>1, <1>2, PTL DEF TypedSpec

\* Whatever is typed: an address in dotted decimal is read as its four numbers by
\* ping, http, arp and the browser alike, the browser takes nothing with another
\* character or an octet out of range for an address, and parse_url splits a URL
\* at its first slash and loses no character of it.
THEOREM AddressesAreRead == TypedSpec => []AddressSound
<1>1. TextTyped => AddressSound
  <2> SUFFICES ASSUME text \in Typings PROVE AddressSound
    BY DEF TextTyped
  <2>1. DottedIsUnderstood
    BY DottedUnderstood DEF DottedIsUnderstood
  <2>2. BrowserRefusesOverflow
    BY OverflowRefused DEF BrowserRefusesOverflow
  <2>3. UrlIsSplit
    BY UrlSplit DEF UrlIsSplit
  <2> QED
    BY <2>1, <2>2, <2>3 DEF AddressSound
<1> QED
  BY <1>1, TypingsTyped, PTL

-----------------------------------------------------------------------------
(* How the package manager and the browser read a response (HttpClient).   *)

\* The blank line that ends at byte i of s.
Blank(s, i) ==
    s[i - 3] = "CR" /\ s[i - 2] = "LF" /\ s[i - 1] = "CR" /\ s[i] = "LF"

\* How many characters of a blank line the first t bytes of s end with.
BlankBegun(s, t) ==
    IF t >= 3 /\ s[t - 2] = "CR" /\ s[t - 1] = "LF" /\ s[t] = "CR" THEN 3
    ELSE IF t >= 2 /\ s[t - 1] = "CR" /\ s[t] = "LF" THEN 2
    ELSE IF t >= 1 /\ s[t] = "CR" THEN 1
    ELSE 0

\* The first blank line of the first t bytes ends at f.
FirstBlank(s, t, f) == Blank(s, f) /\ \A i \in 4 .. t : Blank(s, i) => f <= i

\* b is what follows byte f, up to byte t and the room.
FollowsByte(b, s, f, t) ==
    /\ Len(b) = IF t - f < BodyMax THEN t - f ELSE BodyMax
    /\ \A i \in 1 .. Len(b) : b[i] = s[f + i]

Readings == [header : 0 .. 3, ended : BOOLEAN, body : Seq(STRING)]

\* What the scanner knows after the first t bytes of s.
ReadUpTo(x, s, t) ==
    /\ x.ended =>
         \E f \in 4 .. t : FirstBlank(s, t, f) /\ FollowsByte(x.body, s, f, t)
    /\ ~x.ended =>
         /\ x.body = <<>> /\ x.header = BlankBegun(s, t)
         /\ \A i \in 4 .. t : ~Blank(s, i)

LEMMA RoomFacts ==
    /\ BodyMax \in Nat /\ ResponseMax \in Nat
    /\ \A c \in Clients : Timeout[c] \in Nat /\ RecvMax[c] \in Nat
    /\ Responses \subseteq Seq(STRING)
BY HttpAssumption

LEMMA BodyRoom == BodyMax \in Nat
  BY RoomFacts

LEMMA PageRoom == ResponseMax \in Nat
  BY RoomFacts

LEMMA HeaderIsNext ==
    ASSUME NEW s \in Seq(STRING), NEW t \in Nat, t < Len(s)
    PROVE  LET h == HeaderAfter(BlankBegun(s, t), s[t + 1])
           IN  /\ h = 4 => t + 1 \in 4 .. t + 1 /\ Blank(s, t + 1)
               /\ h # 4 => /\ h \in 0 .. 3 /\ h = BlankBegun(s, t + 1)
                           /\ t + 1 >= 4 => ~Blank(s, t + 1)
<1> DEFINE c == s[t + 1]
           b == BlankBegun(s, t)
<1>1. b \in 0 .. 3
  BY DEF BlankBegun
<1>2. t + 1 - 1 = t /\ t + 1 - 2 = t - 1 /\ t + 1 - 3 = t - 2
  OBVIOUS
<1>3. CASE b = 0
  <2>1. CASE c = "CR"
    <3>1. HeaderAfter(b, c) = 1
      BY <1>3, <2>1 DEF HeaderAfter
    <3>2. BlankBegun(s, t + 1) = 1
      BY <1>2, <1>3, <2>1 DEF BlankBegun
    <3>3. t + 1 >= 4 => ~Blank(s, t + 1)
      BY <2>1 DEF Blank
    <3> QED
      BY <3>1, <3>2, <3>3
  <2>2. CASE c # "CR"
    <3>1. HeaderAfter(b, c) = 0
      BY <1>3, <2>2 DEF HeaderAfter
    <3>2. BlankBegun(s, t + 1) = 0
      BY <1>2, <1>3, <2>2 DEF BlankBegun
    <3>3. t + 1 >= 4 => ~Blank(s, t + 1)
      BY <1>2, <1>3 DEF BlankBegun, Blank
    <3> QED
      BY <3>1, <3>2, <3>3
  <2> QED
    BY <2>1, <2>2
<1>4. CASE b = 1
  <2>1. t >= 1 /\ s[t] = "CR" /\ ~(t >= 3 /\ s[t - 2] = "CR" /\ s[t - 1] = "LF")
    BY <1>4 DEF BlankBegun
  <2>2. t + 1 >= 4 => ~Blank(s, t + 1)
    BY <1>2, <2>1 DEF Blank
  <2>3. CASE c = "LF"
    <3>1. HeaderAfter(b, c) = 2
      BY <1>4, <2>3 DEF HeaderAfter
    <3>2. BlankBegun(s, t + 1) = 2
      BY <1>2, <2>1, <2>3 DEF BlankBegun
    <3> QED
      BY <2>2, <3>1, <3>2
  <2>4. CASE c = "CR"
    <3>1. HeaderAfter(b, c) = 1
      BY <1>4, <2>4 DEF HeaderAfter
    <3>2. BlankBegun(s, t + 1) = 1
      BY <1>2, <2>1, <2>4 DEF BlankBegun
    <3> QED
      BY <2>2, <3>1, <3>2
  <2>5. CASE c # "LF" /\ c # "CR"
    <3>1. HeaderAfter(b, c) = 0
      BY <1>4, <2>5 DEF HeaderAfter
    <3>2. BlankBegun(s, t + 1) = 0
      BY <1>2, <2>1, <2>5 DEF BlankBegun
    <3> QED
      BY <2>2, <3>1, <3>2
  <2> QED
    BY <2>3, <2>4, <2>5
<1>5. CASE b = 2
  BY <1>2, <1>5 DEF HeaderAfter, BlankBegun, Blank
<1>6. CASE b = 3
  BY <1>2, <1>6 DEF HeaderAfter, BlankBegun, Blank
<1> QED
  BY <1>1, <1>3, <1>4, <1>5, <1>6

LEMMA ScannedTyped ==
    ASSUME NEW x \in Readings, NEW c \in STRING
    PROVE  Scanned(x, c) \in Readings
<1>1. CASE x.ended
  <2> DEFINE b == IF Len(x.body) < BodyMax THEN Append(x.body, c) ELSE x.body
  <2>1. b \in Seq(STRING)
    BY AppendProperties DEF Readings
  <2>2. Scanned(x, c) = [x EXCEPT !.body = b]
    BY <1>1 DEF Scanned
  <2> HIDE DEF b
  <2> QED
    BY <2>1, <2>2 DEF Readings
<1>2. CASE ~x.ended
  <2> DEFINE h == HeaderAfter(x.header, c)
  <2>1. h \in 0 .. 4
    BY DEF HeaderAfter
  <2>2. Scanned(x, c) = [x EXCEPT !.header = h % 4, !.ended = (h = 4)]
    BY <1>2 DEF Scanned
  <2> HIDE DEF h
  <2>3. h % 4 \in 0 .. 3
    BY <2>1
  <2> QED
    BY <2>2, <2>3 DEF Readings
<1> QED
  BY <1>1, <1>2

LEMMA BodyGrows ==
    ASSUME NEW s \in Seq(STRING), NEW t \in Nat, t < Len(s),
           NEW x \in Readings, x.ended, ReadUpTo(x, s, t)
    PROVE  ReadUpTo(Scanned(x, s[t + 1]), s, t + 1)
<1> DEFINE c == s[t + 1]
           b == IF Len(x.body) < BodyMax THEN Append(x.body, c) ELSE x.body
           y == Scanned(x, c)
<1>1. c \in STRING /\ x.body \in Seq(STRING) /\ Len(x.body) \in Nat
  BY LenProperties DEF Readings
<1>2. y = [x EXCEPT !.body = b]
  BY DEF Scanned
<1>3. y.ended /\ y.body = b
  BY <1>2 DEF Readings
<1>4. PICK f \in 4 .. t : FirstBlank(s, t, f) /\ FollowsByte(x.body, s, f, t)
  BY DEF ReadUpTo
<1>5. Append(x.body, c) \in Seq(STRING)
      /\ Len(Append(x.body, c)) = Len(x.body) + 1
      /\ Append(x.body, c)[Len(x.body) + 1] = c
      /\ \A i \in 1 .. Len(x.body) : Append(x.body, c)[i] = x.body[i]
  BY <1>1, AppendProperties
<1> HIDE DEF c, y
<1>6. /\ Len(x.body) = IF t - f < BodyMax THEN t - f ELSE BodyMax
      /\ \A i \in 1 .. Len(x.body) : x.body[i] = s[f + i]
  BY <1>4 DEF FollowsByte
<1>7. FollowsByte(b, s, f, t + 1)
  <2>1. CASE Len(x.body) < BodyMax
    <3> DEFINE d == t - f
    <3>1. b = Append(x.body, c) /\ Len(x.body) = d
      <4>1. Len(x.body) = IF d < BodyMax THEN d ELSE BodyMax
        BY <1>6
      <4>2. d \in Int /\ BodyMax \in Int
        BY BodyRoom
      <4> HIDE DEF d
      <4>3. Len(x.body) = d
        BY <2>1, <4>1, <4>2
      <4> QED
        BY <2>1, <4>3
    <3>2. Len(b) = d + 1 /\ d + 1 = t + 1 - f /\ Len(b) <= BodyMax
      <4>1. d \in Int /\ d + 1 = t + 1 - f
        OBVIOUS
      <4> HIDE DEF d
      <4>2. Len(b) = d + 1
        BY <1>5, <3>1
      <4> QED
        BY <2>1, <3>1, <4>1, <4>2, BodyRoom
    <3> HIDE DEF b
    <3>3. Len(b) = IF t + 1 - f < BodyMax THEN t + 1 - f ELSE BodyMax
      BY <3>2, BodyRoom
    <3>4. ASSUME NEW i \in 1 .. Len(b) PROVE b[i] = s[f + i]
      <4>1. CASE i = Len(x.body) + 1
        <5>1. f + i = t + 1
          BY <3>1, <4>1
        <5> QED
          BY <1>5, <3>1, <4>1, <5>1 DEF c
      <4>2. CASE i # Len(x.body) + 1
        <5>1. i \in 1 .. Len(x.body)
          BY <1>1, <1>5, <3>1, <4>2
        <5> QED
          BY <1>5, <1>6, <3>1, <5>1
      <4> QED
        BY <4>1, <4>2
    <3> QED
      BY <3>3, <3>4 DEF FollowsByte
  <2>2. CASE ~(Len(x.body) < BodyMax)
    <3>1. b = x.body /\ ~(t - f < BodyMax)
      BY <1>6, <2>2
    <3>2. ~(t + 1 - f < BodyMax)
      BY <3>1, BodyRoom
    <3>3. Len(b) = IF t + 1 - f < BodyMax THEN t + 1 - f ELSE BodyMax
      BY <1>6, <3>1, <3>2
    <3> QED
      BY <1>6, <3>1, <3>3 DEF FollowsByte
  <2> QED
    BY <2>1, <2>2
<1>8. FirstBlank(s, t + 1, f) /\ f \in 4 .. t + 1
  <2>1. ASSUME NEW i \in 4 .. t + 1, Blank(s, i) PROVE f <= i
    <3>1. CASE i \in 4 .. t
      BY <1>4, <2>1, <3>1 DEF FirstBlank
    <3>2. CASE i = t + 1
      BY <1>4, <3>2
    <3> QED
      BY <3>1, <3>2
  <2> QED
    BY <1>4, <2>1 DEF FirstBlank
<1> QED
  BY <1>3, <1>7, <1>8 DEF ReadUpTo, y, c

LEMMA HeaderGrows ==
    ASSUME NEW s \in Seq(STRING), NEW t \in Nat, t < Len(s),
           NEW x \in Readings, ~x.ended, ReadUpTo(x, s, t)
    PROVE  ReadUpTo(Scanned(x, s[t + 1]), s, t + 1)
<1> DEFINE h == HeaderAfter(x.header, s[t + 1])
           y == Scanned(x, s[t + 1])
<1>1. /\ x.body = <<>> /\ x.header = BlankBegun(s, t)
      /\ \A i \in 4 .. t : ~Blank(s, i)
  BY DEF ReadUpTo
<1>2. y = [x EXCEPT !.header = h % 4, !.ended = (h = 4)]
  BY DEF Scanned
<1>3. y.body = <<>> /\ y.header = h % 4 /\ y.ended = (h = 4)
  BY <1>1, <1>2 DEF Readings
<1>4. /\ h = 4 => t + 1 \in 4 .. t + 1 /\ Blank(s, t + 1)
      /\ h # 4 => /\ h \in 0 .. 3 /\ h = BlankBegun(s, t + 1)
                  /\ t + 1 >= 4 => ~Blank(s, t + 1)
  BY <1>1, HeaderIsNext
<1> HIDE DEF h, y
<1>5. CASE h = 4
  <2>1. \A i \in 4 .. t + 1 : Blank(s, i) => t + 1 <= i
    BY <1>1
  <2>2. FollowsByte(<<>>, s, t + 1, t + 1)
    BY RoomFacts DEF FollowsByte
  <2> QED
    BY <1>3, <1>4, <1>5, <2>1, <2>2 DEF ReadUpTo, FirstBlank, y
<1>6. CASE h # 4
  <2>1. h % 4 = h
    BY <1>4, <1>6
  <2>2. \A i \in 4 .. t + 1 : ~Blank(s, i)
    BY <1>1, <1>4, <1>6
  <2> QED
    BY <1>3, <1>4, <1>6, <2>1, <2>2 DEF ReadUpTo, y
<1> QED
  BY <1>5, <1>6

\* One byte more.
LEMMA ScanGrows ==
    ASSUME NEW s \in Seq(STRING), NEW t \in Nat, t < Len(s),
           NEW x \in Readings, ReadUpTo(x, s, t)
    PROVE  /\ Scanned(x, s[t + 1]) \in Readings
           /\ ReadUpTo(Scanned(x, s[t + 1]), s, t + 1)
<1>1. s[t + 1] \in STRING
  BY LenProperties
<1> QED
  BY <1>1, BodyGrows, HeaderGrows, ScannedTyped

\* The bytes one tcp_recv returned, read one after the other.
LEMMA ScanningIs ==
    ASSUME NEW s \in Seq(STRING), NEW t \in Nat, NEW k \in Nat, t + k <= Len(s),
           NEW bytes, Len(bytes) = k, \A i \in 1 .. k : bytes[i] = s[t + i],
           NEW x0 \in Readings, ReadUpTo(x0, s, t)
    PROVE  /\ Scanning(x0, bytes)[k] \in Readings
           /\ ReadUpTo(Scanning(x0, bytes)[k], s, t + k)
<1> DEFINE Step(x, i) == Scanned(x, bytes[i])
           step == [i \in 1 .. k |-> [x \in Readings |-> Step(x, i)]]
           Is(g) == g = [i \in 0 .. Len(bytes) |->
                      IF i = 0 THEN x0 ELSE Scanned(g[i - 1], bytes[i])]
           f == CHOOSE g : Is(g)
<1>1. \A i \in 1 .. k : s[t + i] \in STRING
  BY LenProperties
<1>2. \A i \in 1 .. k : \A x \in Readings : Step(x, i) \in Readings
  BY <1>1, ScannedTyped
<1> HIDE DEF Step
<1>4. /\ step \in [1 .. k -> [Readings -> Readings]]
      /\ \A i \in 1 .. k :
           \A x \in Readings : step[i][x] = Step(x, i)
  BY <1>2
<1> HIDE DEF step
<1>5. PICK g : IsLoop(g, k, Readings, x0, step)
  BY <1>4, LoopExists
<1>6. /\ g \in [0 .. k -> Readings] /\ g[0] = x0
      /\ \A i \in 1 .. k : g[i] = step[i][g[i - 1]]
  BY <1>5 DEF IsLoop
<1>7. ASSUME NEW i \in 1 .. k PROVE g[i] = Step(g[i - 1], i)
  <2>1. g[i - 1] \in Readings
    BY <1>6
  <2> QED
    BY <1>4, <1>6, <2>1
<1>8. Is(g)
  <2>1. ASSUME NEW i \in 0 .. k PROVE g[i] = IF i = 0 THEN x0 ELSE Step(g[i - 1], i)
    <3>1. i # 0 => i \in 1 .. k
      OBVIOUS
    <3> QED
      BY <1>6, <1>7, <3>1
  <2>2. g = [i \in 0 .. k |-> IF i = 0 THEN x0 ELSE Step(g[i - 1], i)]
    BY <1>6, <2>1
  <2> QED
    BY <2>2 DEF Step
<1>9. Is(f)
  <2> HIDE DEF Is
  <2> QED
    BY <1>8
<1>10. Scanning(x0, bytes) = f
  BY Zenon DEF Scanning
<1>11. f = [i \in 0 .. k |-> IF i = 0 THEN x0 ELSE Step(f[i - 1], i)]
  BY <1>9 DEF Step
<1> HIDE DEF f, Is
<1>12. \A i \in 0 .. k : f[i] = IF i = 0 THEN x0 ELSE Step(f[i - 1], i)
  BY <1>11
<1> DEFINE P == {i \in 0 .. k : f[i] \in Readings /\ ReadUpTo(f[i], s, t + i)}
<1>13. \A i \in 0 .. k : i \in P
  <2>1. 0 \in P
    <3>1. f[0] = x0 /\ t + 0 = t
      BY <1>12
    <3> QED
      BY <3>1
  <2>2. ASSUME NEW i \in 1 .. k, i - 1 \in P PROVE i \in P
    <3>1. i \in 0 .. k /\ i # 0 /\ i - 1 \in Nat
      OBVIOUS
    <3>2. f[i - 1] \in Readings /\ ReadUpTo(f[i - 1], s, t + (i - 1))
      BY <2>2
    <3> DEFINE u == t + (i - 1)
               x == f[i - 1]
    <3>3. u \in Nat /\ u < Len(s) /\ u + 1 = t + i
      <4>1. Len(s) \in Nat
        BY LenProperties
      <4> QED
        BY <4>1
    <3>4. f[i] = Scanned(x, s[t + i])
      BY <1>12, <3>1 DEF Step
    <3> HIDE DEF u, x
    <3>5. x \in Readings /\ ReadUpTo(x, s, u)
      BY <3>2 DEF u, x
    <3>6. /\ Scanned(x, s[u + 1]) \in Readings
          /\ ReadUpTo(Scanned(x, s[u + 1]), s, u + 1)
      BY <3>3, <3>5, ScanGrows
    <3>7. f[i] \in Readings /\ ReadUpTo(f[i], s, t + i)
      BY <3>3, <3>4, <3>6
    <3> QED
      BY <3>1, <3>7
  <2> HIDE DEF P
  <2> QED
    BY <2>1, <2>2, InductionTo
<1>14. k \in 0 .. k
  OBVIOUS
<1> QED
  BY <1>10, <1>13, <1>14

\* The blank line as the property states it.
LEMMA BlankIsPart ==
    ASSUME NEW s \in Seq(STRING), NEW i \in 4 .. Len(s)
    PROVE  SubSeq(s, i - 3, i) = <<"CR", "LF", "CR", "LF">> <=> Blank(s, i)
<1> DEFINE p == SubSeq(s, i - 3, i)
           q == <<"CR", "LF", "CR", "LF">>
           S == STRING \union {"CR", "LF"}
<1>1. \A j \in i - 3 .. i : s[j] \in S
  BY LenProperties
<1>2. i - 3 \in Int /\ i \in Int /\ i - 3 <= i
  OBVIOUS
<1>3. /\ p \in Seq(S) /\ Len(p) = i - (i - 3) + 1
      /\ \A j \in 1 .. i - (i - 3) + 1 : p[j] = s[i - 3 + j - 1]
  BY <1>1, <1>2, SubSeqProperties
<1>4. q \in Seq(S) /\ Len(q) = 4
  OBVIOUS
<1>5. q[1] = "CR" /\ q[2] = "LF" /\ q[3] = "CR" /\ q[4] = "LF"
  OBVIOUS
<1> HIDE DEF p, q, S
<1>6. Len(p) = 4
  BY <1>3
<1>7. p[1] = s[i - 3] /\ p[2] = s[i - 2] /\ p[3] = s[i - 1] /\ p[4] = s[i]
  <2>1. \A j \in 1 .. 4 : p[j] = s[i - 3 + j - 1]
    <3>1. i - (i - 3) + 1 = 4
      BY <1>2
    <3> QED
      BY <1>3, <3>1
  <2>2. /\ i - 3 + 1 - 1 = i - 3 /\ i - 3 + 2 - 1 = i - 2
        /\ i - 3 + 3 - 1 = i - 1 /\ i - 3 + 4 - 1 = i
    OBVIOUS
  <2> QED
    BY <2>1, <2>2
<1>8. ASSUME p = q PROVE Blank(s, i)
  BY <1>5, <1>7, <1>8 DEF Blank
<1>9. ASSUME Blank(s, i) PROVE p = q
  <2>1. \A j \in 1 .. 4 : p[j] = q[j]
    <3>1. p[1] = q[1] /\ p[2] = q[2] /\ p[3] = q[3] /\ p[4] = q[4]
      BY <1>5, <1>7, <1>9 DEF Blank
    <3> QED
      BY <3>1
  <2> QED
    BY <1>3, <1>4, <1>6, <2>1, SeqEqual
<1>10. p = q <=> Blank(s, i)
  BY <1>8, <1>9
<1> QED
  BY <1>10 DEF p, q

\* The inductive invariant: the timeout has run since the last byte, and the
\* scanner is where the bytes taken bring it.
HttpInv ==
    /\ HttpTypeOK
    /\ stream \in Seq(STRING) /\ dest_buf \in Seq(STRING)
    /\ response_buf \in Seq(STRING)
    /\ ticks \in Nat /\ quiet \in Nat
    /\ client \in {"sqpkg", "browser"} => quiet = ticks
    /\ client = "sqpkg" => ReadUpTo(Read, stream, taken)
    /\ PageIsPrefix

LEMMA HttpFacts ==
    ASSUME HttpInv
    PROVE  /\ stream \in Seq(STRING) /\ Len(stream) \in Nat
           /\ dest_buf \in Seq(STRING) /\ Len(dest_buf) \in Nat
           /\ response_buf \in Seq(STRING) /\ Len(response_buf) \in Nat
           /\ arrived \in Nat /\ arrived <= Len(stream)
           /\ taken \in Nat /\ taken <= arrived
           /\ Read \in Readings
<1>1. /\ stream \in Seq(STRING) /\ Len(stream) \in Nat
      /\ dest_buf \in Seq(STRING) /\ Len(dest_buf) \in Nat
      /\ response_buf \in Seq(STRING) /\ Len(response_buf) \in Nat
  BY LenProperties DEF HttpInv
<1>2. arrived \in 0 .. Len(stream) /\ taken \in 0 .. arrived
  BY DEF HttpInv, HttpTypeOK
<1>3. Read \in Readings
  BY <1>1 DEF HttpInv, HttpTypeOK, Read, Readings
<1> QED
  BY <1>1, <1>2, <1>3

LEMMA BodyIsRead ==
    ASSUME HttpInv
    PROVE  BodyFollowsHeader
<1> SUFFICES ASSUME client = "sqpkg"
             PROVE  IF BlankLineEnds = {} THEN dest_buf = <<>>
                    ELSE LET first == CHOOSE i \in BlankLineEnds :
                                        \A j \in BlankLineEnds : i <= j
                             rest  == SubSeq(stream, first + 1, taken)
                         IN  dest_buf = SubSeq(rest, 1, IF Len(rest) < BodyMax
                                                        THEN Len(rest) ELSE BodyMax)
  BY DEF BodyFollowsHeader
<1>1. ReadUpTo(Read, stream, taken)
  BY DEF HttpInv
<1>2. Read.ended = header_ended /\ Read.body = dest_buf
  BY DEF Read
<1>3. \A i \in 4 .. taken : i \in BlankLineEnds <=> Blank(stream, i)
  <2>1. ASSUME NEW i \in 4 .. taken PROVE i \in BlankLineEnds <=> Blank(stream, i)
    <3>1. i \in 4 .. Len(stream)
      BY HttpFacts
    <3> QED
      BY <3>1, HttpFacts, BlankIsPart DEF BlankLineEnds
  <2> QED
    BY <2>1
<1>4. BlankLineEnds \subseteq 4 .. taken
  BY DEF BlankLineEnds
<1>5. CASE ~header_ended
  <2>1. dest_buf = <<>> /\ \A i \in 4 .. taken : ~Blank(stream, i)
    BY <1>1, <1>2, <1>5 DEF ReadUpTo
  <2>2. BlankLineEnds = {}
    BY <1>3, <1>4, <2>1
  <2> QED
    BY <2>1, <2>2
<1>6. CASE header_ended
  <2>1. PICK f \in 4 .. taken :
               FirstBlank(stream, taken, f) /\ FollowsByte(dest_buf, stream, f, taken)
    BY <1>1, <1>2, <1>6 DEF ReadUpTo
  <2>2. f \in BlankLineEnds /\ \A j \in BlankLineEnds : f <= j
    BY <1>3, <1>4, <2>1 DEF FirstBlank
  <2> DEFINE first == CHOOSE i \in BlankLineEnds : \A j \in BlankLineEnds : i <= j
  <2>3. first = f
    <3>1. first \in BlankLineEnds /\ \A j \in BlankLineEnds : first <= j
      BY <2>2
    <3> HIDE DEF first
    <3>2. first \in Int /\ f \in Int /\ first <= f /\ f <= first
      BY <1>4, <2>2, <3>1, HttpFacts
    <3> QED
      BY <3>2
  <2> DEFINE rest == SubSeq(stream, f + 1, taken)
             m == IF Len(rest) < BodyMax THEN Len(rest) ELSE BodyMax
             kept == SubSeq(rest, 1, m)
  <2>4. f \in Nat /\ taken \in Nat /\ f <= taken
    BY <2>1, HttpFacts
  <2>5. /\ rest \in Seq(STRING) /\ Len(rest) = taken - f
        /\ \A i \in 1 .. taken - f : rest[i] = stream[f + i]
    <3>1. \A i \in f + 1 .. taken : stream[i] \in STRING
      BY <2>4, HttpFacts, LenProperties
    <3>2. f + 1 \in Int /\ taken \in Int
      BY <2>4
    <3>3. /\ rest \in Seq(STRING)
          /\ Len(rest) = IF f + 1 <= taken THEN taken - (f + 1) + 1 ELSE 0
          /\ \A i \in 1 .. taken - (f + 1) + 1 : rest[i] = stream[f + 1 + i - 1]
      BY <3>1, <3>2, SubSeqProperties
    <3> HIDE DEF rest
    <3>4. taken - (f + 1) + 1 = taken - f
      BY <2>4
    <3>5. Len(rest) = taken - f
      BY <2>4, <3>3, <3>4
    <3>6. ASSUME NEW i \in 1 .. taken - f PROVE rest[i] = stream[f + i]
      <4>1. i \in 1 .. taken - (f + 1) + 1 /\ f + 1 + i - 1 = f + i
        BY <2>4, <3>4
      <4> QED
        BY <3>3, <4>1
    <3> QED
      BY <3>3, <3>5, <3>6
  <2> HIDE DEF rest
  <2>6. m \in Nat /\ m <= taken - f /\ Len(dest_buf) = m
        /\ \A i \in 1 .. m : dest_buf[i] = stream[f + i]
    <3>1. m \in Nat /\ m <= taken - f
      BY <2>4, <2>5, BodyRoom
    <3> QED
      BY <2>1, <2>5, <3>1 DEF FollowsByte
  <2> HIDE DEF m
  <2>7. /\ kept \in Seq(STRING) /\ Len(kept) = m
        /\ \A i \in 1 .. m : kept[i] = rest[i]
    <3>1. \A i \in 1 .. m : rest[i] \in STRING
      BY <2>4, <2>5, <2>6, LenProperties
    <3>2. 1 \in Int /\ m \in Int
      BY <2>6
    <3>3. /\ kept \in Seq(STRING)
          /\ Len(kept) = IF 1 <= m THEN m - 1 + 1 ELSE 0
          /\ \A i \in 1 .. m - 1 + 1 : kept[i] = rest[1 + i - 1]
      BY <3>1, <3>2, SubSeqProperties
    <3> HIDE DEF kept
    <3>4. m - 1 + 1 = m /\ Len(kept) = m
      BY <2>6, <3>3
    <3>5. ASSUME NEW i \in 1 .. m PROVE kept[i] = rest[i]
      <4>1. i \in 1 .. m - 1 + 1 /\ 1 + i - 1 = i
        BY <3>4
      <4> QED
        BY <3>3, <4>1
    <3> QED
      BY <3>3, <3>4, <3>5
  <2> HIDE DEF kept
  <2>8. \A i \in 1 .. m : dest_buf[i] = kept[i]
    BY <2>4, <2>5, <2>6, <2>7
  <2>9. dest_buf = kept
    BY <2>6, <2>7, <2>8, HttpFacts, SeqEqual
  <2> QED
    BY <2>2, <2>3, <2>9 DEF first, rest, m, kept
<1> QED
  BY <1>5, <1>6

-----------------------------------------------------------------------------
(* The steps of a loop keep the invariant. *)

\* What tcp_recv returns is the next of what has arrived.
LEMMA BytesAreNext ==
    ASSUME HttpInv, NEW n \in 0 .. Len(stream), NEW fin \in BOOLEAN, Polled(n, fin),
           client \in Clients
    PROVE  /\ Took(n, fin) \in Nat /\ taken + Took(n, fin) <= arrived + n
           /\ arrived + n <= Len(stream)
           /\ Bytes(n, fin) \in Seq(STRING) /\ Len(Bytes(n, fin)) = Took(n, fin)
           /\ \A i \in 1 .. Took(n, fin) : Bytes(n, fin)[i] = stream[taken + i]
<1> DEFINE k == Took(n, fin)
           b == Bytes(n, fin)
<1>1. n \in Nat /\ arrived + n <= Len(stream)
  BY HttpFacts DEF Polled
<1>2. Available(n, fin) \in Nat /\ taken + Available(n, fin) <= arrived + n
  BY <1>1, HttpFacts DEF Available
<1>3. k \in Nat /\ k <= Available(n, fin)
  BY <1>2, RoomFacts DEF Took
<1>4. taken + k <= arrived + n
  BY <1>1, <1>2, <1>3, HttpFacts
<1>5. b = SubSeq(stream, taken + 1, taken + k)
  BY DEF Bytes
<1> HIDE DEF b, k
<1> DEFINE lo == taken + 1
           hi == taken + k
<1>6. \A i \in lo .. hi : stream[i] \in STRING
  BY <1>1, <1>3, <1>4, HttpFacts, LenProperties
<1>7. lo \in Int /\ hi \in Int /\ hi - lo + 1 = k
  BY <1>3, HttpFacts
<1> HIDE DEF lo, hi
<1>8. /\ b \in Seq(STRING)
      /\ Len(b) = IF lo <= hi THEN hi - lo + 1 ELSE 0
      /\ \A i \in 1 .. hi - lo + 1 : b[i] = stream[lo + i - 1]
  <2>1. b = SubSeq(stream, lo, hi)
    BY <1>5 DEF lo, hi
  <2> QED
    BY <1>6, <1>7, <2>1, SubSeqProperties
<1>9. Len(b) = k
  BY <1>3, <1>7, <1>8
<1>10. ASSUME NEW i \in 1 .. k PROVE b[i] = stream[taken + i]
  <2>1. b[i] = stream[lo + i - 1]
    BY <1>7, <1>8
  <2>2. lo + i - 1 = taken + i
    BY HttpFacts DEF lo
  <2> QED
    BY <2>1, <2>2
<1>11. b \in Seq(STRING)
  BY <1>8
<1> QED
  BY <1>1, <1>3, <1>4, <1>9, <1>10, <1>11 DEF k, b

\* The counts after a turn.
LEMMA PolledTyped ==
    ASSUME HttpInv, NEW n \in 0 .. Len(stream), NEW fin \in BOOLEAN, Polled(n, fin),
           client \in Clients, stream' = stream, taken' = taken + Took(n, fin)
    PROVE  /\ arrived' \in 0 .. Len(stream') /\ taken' \in 0 .. arrived'
           /\ open' \in BOOLEAN
<1>1. arrived' = arrived + n /\ open' = (open /\ ~fin) /\ n \in Nat
  BY HttpFacts DEF Polled
<1>2. arrived' \in Nat /\ arrived' <= Len(stream') /\ taken' \in Nat /\ taken' <= arrived'
  BY <1>1, BytesAreNext, HttpFacts
<1>3. Len(stream') \in Nat
  BY HttpFacts
<1> QED
  BY <1>1, <1>2, <1>3

LEMMA SqpkgStep ==
    ASSUME HttpInv, NEW n \in 0 .. Len(stream), NEW fin \in BOOLEAN,
           SqpkgPolls(n, fin)
    PROVE  HttpInv'
<1> DEFINE k == Took(n, fin)
           b == Bytes(n, fin)
           x == Scan(b)
<1>1. /\ client = "sqpkg" /\ client' = client /\ stream' = stream
      /\ response_buf' = response_buf /\ got_data' = got_data
      /\ taken' = taken + k /\ Polled(n, fin)
      /\ ticks' = (IF k > 0 THEN 0 ELSE ticks) /\ quiet' = (IF k > 0 THEN 0 ELSE quiet)
      /\ header' = x.header /\ header_ended' = x.ended /\ dest_buf' = x.body
  BY DEF SqpkgPolls, Restarted
<1>2. client \in Clients
  BY <1>1 DEF Clients
<1>3. /\ k \in Nat /\ taken + k <= arrived + n /\ arrived + n <= Len(stream)
      /\ Len(b) = k
      /\ \A i \in 1 .. k : b[i] = stream[taken + i]
  BY <1>1, <1>2, BytesAreNext
<1>4. x = Scanning(Read, b)[k]
  BY <1>3 DEF Scan
<1> HIDE DEF k, b, x
<1>5. Read \in Readings /\ ReadUpTo(Read, stream, taken)
  BY <1>1, HttpFacts DEF HttpInv
<1>6. stream \in Seq(STRING) /\ taken \in Nat /\ taken + k <= Len(stream)
  BY <1>3, HttpFacts
<1>7. x \in Readings /\ ReadUpTo(x, stream, taken + k)
  BY <1>3, <1>4, <1>5, <1>6, ScanningIs
<1>8. Read' = x
  BY <1>1, <1>7 DEF Read, Readings
<1>9. ReadUpTo(Read, stream, taken)'
  <2>1. ReadUpTo(Read', stream', taken')
    BY <1>1, <1>7, <1>8
  <2> QED
    BY <2>1 DEF ReadUpTo, FirstBlank, FollowsByte, Blank, BlankBegun
<1>10. header' \in 0 .. 3 /\ header_ended' \in BOOLEAN /\ dest_buf' \in Seq(STRING)
  BY <1>1, <1>7 DEF Readings
<1>11. Len(dest_buf') <= BodyMax
  <2>1. CASE x.ended
    <3>1. PICK f \in 4 .. taken + k : FollowsByte(x.body, stream, f, taken + k)
      BY <1>7, <2>1 DEF ReadUpTo
    <3> DEFINE d == taken + k - f
    <3>2. Len(x.body) = (IF d < BodyMax THEN d ELSE BodyMax) /\ d \in Int
      BY <1>3, <1>6, <3>1 DEF FollowsByte
    <3> HIDE DEF d
    <3> QED
      BY <1>1, <3>2, BodyRoom
  <2>2. CASE ~x.ended
    <3>1. x.body = <<>>
      BY <1>7, <2>2 DEF ReadUpTo
    <3> QED
      BY <1>1, <3>1, BodyRoom
  <2> QED
    BY <2>1, <2>2
<1>12. HttpTypeOK'
  <2>1. /\ arrived' \in 0 .. Len(stream') /\ taken' \in 0 .. arrived'
        /\ open' \in BOOLEAN
    BY <1>1, <1>2, PolledTyped DEF k
  <2>2. client' \in Clients \union {"none"} /\ got_data' \in BOOLEAN
        /\ Len(response_buf') <= ResponseMax
    BY <1>1 DEF HttpInv, HttpTypeOK
  <2> QED
    BY <1>10, <1>11, <2>1, <2>2 DEF HttpTypeOK
<1>13. ticks' \in Nat /\ quiet' \in Nat /\ quiet' = ticks'
  BY <1>1, <1>3 DEF HttpInv
<1>14. PageIsPrefix'
  BY <1>1 DEF PageIsPrefix
<1>15. stream' \in Seq(STRING) /\ response_buf' \in Seq(STRING)
  BY <1>1, HttpFacts
<1> QED
  BY <1>9, <1>10, <1>12, <1>13, <1>14, <1>15 DEF HttpInv

LEMMA TerminalStep ==
    ASSUME HttpInv, NEW n \in 0 .. Len(stream), NEW fin \in BOOLEAN,
           TerminalPolls(n, fin)
    PROVE  HttpInv'
<1>1. /\ client = "terminal" /\ client' \in {"terminal", "none"}
      /\ stream' = stream /\ ticks' = ticks /\ header' = header
      /\ header_ended' = header_ended /\ dest_buf' = dest_buf
      /\ response_buf' = response_buf /\ got_data' \in BOOLEAN
      /\ taken' = taken + Took(n, fin) /\ Polled(n, fin)
      /\ quiet' \in {0, quiet}
  BY DEF TerminalPolls
<1>2. client \in Clients
  BY <1>1 DEF Clients
<1>3. /\ arrived' \in 0 .. Len(stream') /\ taken' \in 0 .. arrived'
      /\ open' \in BOOLEAN
  BY <1>1, <1>2, PolledTyped
<1>4. HttpTypeOK'
  BY <1>1, <1>3 DEF HttpInv, HttpTypeOK, Clients
<1>5. client' \notin {"sqpkg", "browser"}
  BY <1>1
<1> QED
  BY <1>1, <1>4, <1>5 DEF HttpInv, PageIsPrefix

LEMMA BrowserStep ==
    ASSUME HttpInv, NEW n \in 0 .. Len(stream), NEW fin \in BOOLEAN,
           BrowserPolls(n, fin)
    PROVE  HttpInv' /\ (client' = "none" => ~open' \/ Len(response_buf') >= ResponseMax)
<1> DEFINE k == Took(n, fin)
           b == Bytes(n, fin)
<1>1. /\ client = "browser" /\ stream' = stream /\ header' = header
      /\ header_ended' = header_ended /\ dest_buf' = dest_buf
      /\ taken' = taken + k /\ Polled(n, fin)
      /\ ticks' = (IF k > 0 THEN 0 ELSE ticks) /\ quiet' = (IF k > 0 THEN 0 ELSE quiet)
      /\ k > 0 => /\ response_buf' = PageWith(b) /\ got_data' = TRUE
                  /\ client' = IF PageFull(b) THEN "none" ELSE client
      /\ ~(k > 0) => /\ client' = IF fin THEN "none" ELSE client
                     /\ response_buf' = response_buf /\ got_data' = got_data
  BY DEF BrowserPolls, Restarted
<1>2. client \in Clients
  BY <1>1 DEF Clients
<1>3. /\ k \in Nat /\ taken + k <= arrived + n /\ arrived + n <= Len(stream)
      /\ b \in Seq(STRING) /\ Len(b) = k
  BY <1>1, <1>2, BytesAreNext
<1>4. b = SubSeq(stream, taken + 1, taken + k)
  BY DEF Bytes
<1>5. open' = (open /\ ~fin)
  BY <1>1 DEF Polled
<1>6. /\ arrived' \in 0 .. Len(stream') /\ taken' \in 0 .. arrived'
      /\ open' \in BOOLEAN
  BY <1>1, <1>2, PolledTyped
<1> HIDE DEF k, b
<1> DEFINE r == Len(response_buf)
<1>7. r \in Nat /\ r <= ResponseMax /\ response_buf \in Seq(STRING)
  BY HttpFacts DEF HttpInv, HttpTypeOK
<1>8. response_buf = SubSeq(stream, 1, taken)
  BY <1>1 DEF HttpInv, PageIsPrefix
<1>9. ASSUME k > 0, PageFull(b)
      PROVE  response_buf' \in Seq(STRING) /\ Len(response_buf') = ResponseMax
  <2> DEFINE m == ResponseMax - r
             p == SubSeq(b, 1, m)
  <2>1. m \in Nat /\ m <= k
    BY <1>3, <1>7, <1>9, PageRoom DEF PageFull
  <2>2. Kept(b) = p
    <3>1. ~(r + Len(b) < ResponseMax)
      BY <1>3, <1>7, <1>9, PageRoom DEF PageFull
    <3> QED
      BY <3>1 DEF Kept
  <2> HIDE DEF m
  <2>3. p \in Seq(STRING) /\ Len(p) = m
    <3>1. \A i \in 1 .. m : b[i] \in STRING
      BY <1>3, <2>1, LenProperties
    <3>2. 1 \in Int /\ m \in Int
      BY <2>1
    <3>3. p \in Seq(STRING) /\ Len(p) = IF 1 <= m THEN m - 1 + 1 ELSE 0
      BY <3>1, <3>2, SubSeqProperties
    <3> QED
      BY <2>1, <3>3
  <2> HIDE DEF p
  <2>4. response_buf' = response_buf \o p
    BY <1>1, <1>9, <2>2 DEF PageWith
  <2>5. response_buf' \in Seq(STRING) /\ Len(response_buf') = r + m
    BY <1>7, <2>3, <2>4, ConcatProperties
  <2>6. r + m = ResponseMax
    BY <1>7, PageRoom DEF m
  <2> QED
    BY <2>5, <2>6
<1>10. ASSUME k > 0, ~PageFull(b)
       PROVE  /\ response_buf' \in Seq(STRING) /\ Len(response_buf') <= ResponseMax
              /\ response_buf' = SubSeq(stream, 1, taken + k)
  <2>1. r + Len(b) < ResponseMax
    BY <1>3, <1>7, <1>10, PageRoom DEF PageFull
  <2>2. response_buf' = response_buf \o b
    BY <1>1, <1>10, <2>1 DEF PageWith, Kept
  <2>3. response_buf' \in Seq(STRING) /\ Len(response_buf') = r + Len(b)
    BY <1>3, <1>7, <2>2, ConcatProperties
  <2>4. Len(response_buf') <= ResponseMax
    BY <1>3, <1>7, <2>1, <2>3, PageRoom
  <2>5. /\ 1 \in 1 .. Len(stream) + 1 /\ taken \in 1 - 1 .. Len(stream)
        /\ taken + k \in taken .. Len(stream)
    BY <1>3, HttpFacts
  <2>6. SubSeq(stream, 1, taken) \o SubSeq(stream, taken + 1, taken + k)
          = SubSeq(stream, 1, taken + k)
    BY <2>5, HttpFacts, ConcatAdjacentSubSeq
  <2> QED
    BY <1>4, <1>8, <2>2, <2>3, <2>4, <2>6
<1>11. /\ response_buf' \in Seq(STRING) /\ Len(response_buf') <= ResponseMax
       /\ client' \in {"browser", "none"} /\ got_data' \in BOOLEAN
       /\ client' = "browser" => response_buf' = SubSeq(stream, 1, taken + k)
       /\ client' = "none" => ~open' \/ Len(response_buf') >= ResponseMax
  <2>1. CASE k > 0 /\ PageFull(b)
    BY <1>1, <1>9, <2>1, RoomFacts
  <2>2. CASE k > 0 /\ ~PageFull(b)
    BY <1>1, <1>10, <2>2
  <2>3. CASE ~(k > 0)
    <3>1. k = 0 /\ taken + k = taken
      BY <1>3, <2>3, HttpFacts
    <3>2. got_data \in BOOLEAN
      BY DEF HttpInv, HttpTypeOK
    <3> QED
      BY <1>1, <1>5, <1>7, <1>8, <2>3, <3>1, <3>2
  <2> QED
    BY <2>1, <2>2, <2>3
<1>12. PageIsPrefix'
  BY <1>1, <1>11 DEF PageIsPrefix
<1>13. HttpTypeOK'
  BY <1>1, <1>6, <1>11 DEF HttpInv, HttpTypeOK, Clients
<1>14. ticks' \in Nat /\ quiet' \in Nat /\ quiet' = ticks'
  BY <1>1, <1>3 DEF HttpInv
<1>15. stream' \in Seq(STRING) /\ dest_buf' \in Seq(STRING)
  BY <1>1, HttpFacts
<1>16. client' # "sqpkg"
  BY <1>11
<1> QED
  BY <1>11, <1>12, <1>13, <1>14, <1>15, <1>16 DEF HttpInv

LEMMA BeginStep ==
    ASSUME HttpInv, NEW c \in Clients, Begin(c)
    PROVE  HttpInv'
<1>1. /\ client' = c /\ stream' \in Responses /\ arrived' = 0 /\ taken' = 0
      /\ open' = TRUE /\ ticks' = 0 /\ quiet' = 0 /\ header' = 0
      /\ header_ended' = FALSE /\ dest_buf' = <<>> /\ got_data' = FALSE
      /\ response_buf' \in {<<>>, response_buf}
      /\ c = "browser" => response_buf' = <<>>
  BY DEF Begin
<1>2. stream' \in Seq(STRING) /\ Len(stream') \in Nat
  BY <1>1, RoomFacts, LenProperties
<1>3. Len(<<>>) = 0 /\ <<>> \in Seq(STRING)
  OBVIOUS
<1>4. response_buf' \in Seq(STRING) /\ Len(response_buf') <= ResponseMax
  <2>1. response_buf \in Seq(STRING) /\ Len(response_buf) <= ResponseMax
    BY DEF HttpInv, HttpTypeOK
  <2>2. CASE response_buf' = <<>>
    <3>1. 0 <= ResponseMax
      BY RoomFacts
    <3> QED
      BY <1>3, <2>2, <3>1
  <2>3. CASE response_buf' = response_buf
    BY <2>1, <2>3
  <2> QED
    BY <1>1, <2>2, <2>3
<1>5. HttpTypeOK'
  <2>1. Len(dest_buf') <= BodyMax
    <3>1. 0 <= BodyMax
      BY RoomFacts
    <3> QED
      BY <1>1, <1>3, <3>1
  <2>2. arrived' \in 0 .. Len(stream') /\ taken' \in 0 .. arrived'
    BY <1>1, <1>2
  <2>3. client' \in Clients \union {"none"}
    BY <1>1
  <2>4. header' \in 0 .. 3
    BY <1>1
  <2>5. open' \in BOOLEAN /\ header_ended' \in BOOLEAN /\ got_data' \in BOOLEAN
    BY <1>1
  <2> QED
    BY <1>4, <2>1, <2>2, <2>3, <2>4, <2>5 DEF HttpTypeOK
<1>6. ReadUpTo(Read, stream, taken)'
  <2>1. Read'.ended = FALSE /\ Read'.header = 0 /\ Read'.body = <<>>
    BY <1>1 DEF Read
  <2>2. BlankBegun(stream', taken') = 0
    BY <1>1 DEF BlankBegun
  <2>3. ReadUpTo(Read', stream', taken')
    BY <1>1, <2>1, <2>2 DEF ReadUpTo
  <2> QED
    BY <2>3 DEF ReadUpTo, FirstBlank, FollowsByte, Blank, BlankBegun
<1>7. PageIsPrefix'
  <2>1. SubSeq(stream', 1, 0) = <<>>
    BY SubSeqEmpty
  <2> QED
    BY <1>1, <2>1 DEF PageIsPrefix
<1> QED
  BY <1>1, <1>2, <1>3, <1>4, <1>5, <1>6, <1>7 DEF HttpInv

\* The scanner and the page stay as they are while the response does.
LEMMA NothingRead ==
    ASSUME HttpInv, client' \in {client, "none"},
           UNCHANGED <<stream, arrived, taken, header, header_ended,
                       dest_buf, response_buf, got_data>>,
           open' \in BOOLEAN, ticks' \in Nat, quiet' \in Nat,
           client' \in {"sqpkg", "browser"} => quiet' = ticks'
    PROVE  HttpInv'
<1>1. HttpTypeOK'
  BY DEF HttpInv, HttpTypeOK
<1>2. PageIsPrefix'
  BY DEF HttpInv, PageIsPrefix
<1>3. client' = "sqpkg" => ReadUpTo(Read, stream, taken)'
  <2>1. Read' = Read
    BY DEF Read
  <2>2. client' = "sqpkg" => ReadUpTo(Read', stream', taken')
    BY <2>1 DEF HttpInv
  <2> QED
    BY <2>2 DEF ReadUpTo, FirstBlank, FollowsByte, Blank, BlankBegun
<1> QED
  BY <1>1, <1>2, <1>3 DEF HttpInv

\* Who gives up: a client that reads on and its connection is open.
GivesUp ==
    /\ client \in {"sqpkg", "browser"} /\ client' = "none" /\ open'
    /\ Len(response_buf) < ResponseMax /\ Len(response_buf') < ResponseMax

LEMMA HttpStep ==
    ASSUME HttpInv, HttpNext
    PROVE  HttpInv' /\ (GivesUp => quiet >= Timeout[client])
<1>1. ASSUME NEW c \in Clients, Begin(c) PROVE HttpInv' /\ ~GivesUp
  BY <1>1, BeginStep DEF Begin, GivesUp
<1>2. ASSUME NEW n \in 0 .. Len(stream), NEW fin \in BOOLEAN, SqpkgPolls(n, fin)
      PROVE  HttpInv' /\ ~GivesUp
  BY <1>2, SqpkgStep DEF SqpkgPolls, GivesUp
<1>3. ASSUME NEW n \in 0 .. Len(stream), NEW fin \in BOOLEAN, TerminalPolls(n, fin)
      PROVE  HttpInv' /\ ~GivesUp
  BY <1>3, TerminalStep DEF TerminalPolls, GivesUp
<1>4. ASSUME NEW n \in 0 .. Len(stream), NEW fin \in BOOLEAN, BrowserPolls(n, fin)
      PROVE  HttpInv' /\ ~GivesUp
  <2>1. HttpInv' /\ (client' = "none" => ~open' \/ Len(response_buf') >= ResponseMax)
    BY <1>4, BrowserStep
  <2>2. Len(response_buf') \in Nat
    BY <2>1, LenProperties DEF HttpInv
  <2> QED
    BY <2>1, <2>2, RoomFacts DEF GivesUp
<1>5. ASSUME HttpTick PROVE HttpInv' /\ ~GivesUp
  <2>1. /\ client' = client /\ client # "none" /\ ticks < Timeout[client]
        /\ ticks' = ticks + 1
        /\ quiet' = (IF quiet < Timeout[client] THEN quiet + 1 ELSE quiet)
        /\ open' = open
        /\ UNCHANGED <<stream, arrived, taken, header, header_ended,
                       dest_buf, response_buf, got_data>>
    BY <1>5 DEF HttpTick
  <2>2. ticks \in Nat /\ quiet \in Nat /\ open \in BOOLEAN
        /\ (client \in {"sqpkg", "browser"} => quiet = ticks)
    BY DEF HttpInv, HttpTypeOK
  <2>3. ticks' \in Nat /\ quiet' \in Nat
        /\ (client' \in {"sqpkg", "browser"} => quiet' = ticks')
    BY <2>1, <2>2
  <2>4. HttpInv'
    BY <2>1, <2>2, <2>3, NothingRead
  <2> QED
    BY <2>1, <2>4 DEF GivesUp
<1>6. ASSUME GiveUp PROVE HttpInv' /\ (GivesUp => quiet >= Timeout[client])
  <2>1. /\ client' = "none" /\ ticks >= Timeout[client]
        /\ UNCHANGED <<stream, arrived, taken, open, ticks, header, header_ended,
                       dest_buf, response_buf, got_data, quiet>>
    BY <1>6 DEF GiveUp
  <2>2. ticks \in Nat /\ quiet \in Nat /\ open \in BOOLEAN
        /\ (client \in {"sqpkg", "browser"} => quiet = ticks)
    BY DEF HttpInv, HttpTypeOK
  <2>3. HttpInv'
    BY <2>1, <2>2, NothingRead
  <2> QED
    BY <2>1, <2>2, <2>3 DEF GivesUp
<1>7. ASSUME Close PROVE HttpInv' /\ ~GivesUp
  <2>1. /\ client = "none" /\ client' = client /\ open' = FALSE
        /\ UNCHANGED <<stream, arrived, taken, ticks, header, header_ended,
                       dest_buf, response_buf, got_data, quiet>>
    BY <1>7 DEF Close
  <2>2. ticks \in Nat /\ quiet \in Nat
    BY DEF HttpInv
  <2>3. HttpInv'
    BY <2>1, <2>2, NothingRead
  <2> QED
    BY <2>1, <2>3 DEF GivesUp
<1> QED
  BY <1>1, <1>2, <1>3, <1>4, <1>5, <1>6, <1>7 DEF HttpNext, Polls

LEMMA HttpStarts ==
    ASSUME HttpInit
    PROVE  HttpInv
<1>1. Len(<<>>) = 0 /\ <<>> \in Seq(STRING)
  OBVIOUS
<1>2. HttpTypeOK
  <2>1. 0 <= BodyMax /\ 0 <= ResponseMax
    BY RoomFacts
  <2>2. Len(dest_buf) <= BodyMax /\ Len(response_buf) <= ResponseMax
    BY <1>1, <2>1 DEF HttpInit
  <2>3. arrived \in 0 .. Len(stream) /\ taken \in 0 .. arrived
    BY <1>1 DEF HttpInit
  <2>4. client \in Clients \union {"none"} /\ header \in 0 .. 3
    BY DEF HttpInit
  <2>5. open \in BOOLEAN /\ header_ended \in BOOLEAN /\ got_data \in BOOLEAN
    BY DEF HttpInit
  <2> QED
    BY <2>2, <2>3, <2>4, <2>5 DEF HttpTypeOK
<1> QED
  BY <1>1, <1>2 DEF HttpInit, HttpInv, PageIsPrefix

\* kernel/sqpkg.c and kernel/browser_app.c, for every response, every room and
\* every timeout: however the response is cut into segments, download_file has
\* kept what follows its first blank line, up to the room, and the browser's
\* page is the response from its first byte on; and neither stops reading an open
\* connection, but for a full page, before a whole timeout has passed in which
\* nothing came.
THEOREM ResponsesAreRead == HttpSpec => RequestSound
<1> DEFINE Safe == HttpTypeOK /\ BodyFollowsHeader /\ PageIsPrefix
           Quiet == (/\ client \in {"sqpkg", "browser"} /\ client' = "none"
                     /\ open' /\ Len(response_buf) < ResponseMax
                     /\ Len(response_buf') < ResponseMax)
                      => quiet >= Timeout[client]
<1>1. HttpInit => HttpInv
  BY HttpStarts
<1>2. HttpInv /\ [HttpNext]_httpVars => HttpInv'
  <2>1. ASSUME HttpInv, UNCHANGED httpVars PROVE HttpInv'
    <3>1. /\ client' = client /\ open' = open /\ ticks' = ticks /\ quiet' = quiet
          /\ UNCHANGED <<stream, arrived, taken, header, header_ended,
                         dest_buf, response_buf, got_data>>
      BY <2>1 DEF httpVars
    <3>2. ticks \in Nat /\ quiet \in Nat /\ open \in BOOLEAN
          /\ (client \in {"sqpkg", "browser"} => quiet = ticks)
      BY <2>1 DEF HttpInv, HttpTypeOK
    <3> QED
      BY <2>1, <3>1, <3>2, NothingRead
  <2> QED
    BY <2>1, HttpStep
<1>3. HttpInv /\ [HttpNext]_httpVars => [Quiet]_httpVars
  <2>1. ASSUME HttpInv, HttpNext PROVE Quiet
    BY <2>1, HttpStep DEF GivesUp
  <2> QED
    BY <2>1
<1>4. HttpInv => Safe
  BY BodyIsRead DEF HttpInv
<1> QED
  BY <1>1, <1>2, <1>3, <1>4, PTL DEF HttpSpec, GivesUpOnSilence, RequestSound
=============================================================================
