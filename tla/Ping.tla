-------------------------------- MODULE Ping --------------------------------
(***************************************************************************)
(* The ARP cache (net/arp.c), the packets that use it (ip.c, icmp.c,       *)
(* ethernet.c) and the terminal's ping command, which sends an echo        *)
(* request, polls the card for a second, sends another one and polls for   *)
(* another second.  The hosts and the network are external: a host that is *)
(* up answers what reaches its present MAC, frames may be lost, late or    *)
(* out of order, and hosts may ping, announce themselves and change their  *)
(* MACs.  Checksums are in InetChecksum, the card in Ne2000.               *)
(***************************************************************************)
EXTENDS Naturals, FiniteSets

CONSTANTS
    Hosts, Macs,
    ARP_CACHE_SIZE,
    Wait1, Wait2,       \* 18 and 36 ticks
    MaxPings,           \* bounds: on the pings,
    MaxStimuli          \* and on what the hosts and the network do unasked

ASSUME PingAssumption ==
    /\ ARP_CACHE_SIZE \in Nat \ {0}
    /\ Wait1 \in Nat \ {0} /\ Wait2 \in Nat /\ Wait1 < Wait2
    /\ MaxPings \in Nat /\ MaxStimuli \in Nat

VARIABLES
    arp_cache, next_arp_idx,
    icmp_reply_received,
    out, in,            \* the frames under way to the hosts and to the card
    mac,                \* the MAC each host has
    pc, target, waited, \* the ping command: "idle", "phase1" or "phase2"
    result,             \* of the last ping: "none", "reply" or "timeout"
    pings, stimuli,
    \* history: the MAC each host was last heard with, the hosts in the order
    \* they came into the cache, whether the target has answered this ping,
    \* and whether anything has been lost, late or sent to an old MAC, or the
    \* target has been evicted, since it began
    heard, entered, answered, impaired

cacheVars == <<arp_cache, next_arp_idx, heard, entered>>
pingVars == <<pc, target, waited, result, pings>>
vars == <<cacheVars, pingVars, icmp_reply_received, out, in, mac, stimuli,
          answered, impaired>>

Slots == 0 .. ARP_CACHE_SIZE - 1
Invalid == [valid |-> FALSE]
Entry(h, m) == [valid |-> TRUE, ip |-> h, mac |-> m]
Entries == {Entry(h, m) : h \in Hosts, m \in Macs} \union {Invalid}

\* The frames.  An echo carries the number of the ping, or 0.
ArpRequest(h) == [kind |-> "arp_request", host |-> h]
Echo(h, m, n) == [kind |-> "echo", host |-> h, mac |-> m, ping |-> n]
EchoReply(h, m, n) == [kind |-> "echo_reply", host |-> h, mac |-> m, ping |-> n]
Arp(kind, h, m) == [kind |-> kind, host |-> h, mac |-> m]
ArpFrames == [kind : {"arp_request", "arp_for_other", "arp_reply"}, host : Hosts, mac : Macs]

TypeOK ==
    /\ arp_cache \in [Slots -> Entries] /\ next_arp_idx \in Slots
    /\ icmp_reply_received \in BOOLEAN
    /\ mac \in [Hosts -> Macs] /\ heard \in [Hosts -> Macs \union {"none"}]
    /\ entered \in [Hosts -> Nat]
    /\ pc \in {"idle", "phase1", "phase2"} /\ target \in Hosts
    /\ waited \in 0 .. Wait2
    /\ result \in {"none", "reply", "timeout"}
    /\ pings \in 0 .. MaxPings /\ stimuli \in 0 .. MaxStimuli
    /\ answered \in BOOLEAN /\ impaired \in BOOLEAN

Init ==
    /\ arp_cache = [s \in Slots |-> Invalid] /\ next_arp_idx = 0
    /\ icmp_reply_received = FALSE
    /\ out = {} /\ in = {}
    /\ mac \in [Hosts -> Macs]
    /\ pc = "idle" /\ target \in Hosts /\ waited = 0 /\ result = "none"
    /\ pings = 0 /\ stimuli = 0
    /\ heard = [h \in Hosts |-> "none"] /\ entered = [h \in Hosts |-> 0]
    /\ answered = FALSE /\ impaired = FALSE

-----------------------------------------------------------------------------
(* arp.c and ip.c *)

SlotOf(h) == {s \in Slots : arp_cache[s].valid /\ arp_cache[s].ip = h}

\* The order of the hosts in the cache after h has come in and, if the cache
\* was full, the first has gone: entered[h] is h's place, 0 if it is not in.
EnteredAfter(h) ==
    LET in_cache == {x \in Hosts : entered[x] # 0}
        full == Cardinality(in_cache) = ARP_CACHE_SIZE
        gone == IF full THEN 1 ELSE 0
    IN [x \in Hosts |-> IF x = h THEN Cardinality(in_cache) + 1 - gone
                        ELSE IF entered[x] = 0 THEN 0 ELSE entered[x] - gone]

arp_update_cache_Mut1(h, m) ==
    /\ heard' = [heard EXCEPT ![h] = m]
    /\ arp_cache' = [arp_cache EXCEPT ![next_arp_idx] = Entry(h, m)]
    /\ next_arp_idx' = (next_arp_idx + 1) % ARP_CACHE_SIZE
    /\ entered' = EnteredAfter(h)

arp_update_cache_Mut3(h, m) ==
    /\ heard' = [heard EXCEPT ![h] = m]
    /\ IF SlotOf(h) # {}
       THEN /\ arp_cache' = [s \in Slots |-> IF s \in SlotOf(h) THEN Entry(h, m)
                                             ELSE arp_cache[s]]
            /\ UNCHANGED entered
       ELSE /\ arp_cache' = [arp_cache EXCEPT ![next_arp_idx] = Entry(h, m)]
            /\ entered' = EnteredAfter(h)
    /\ next_arp_idx' = (next_arp_idx + 1) % ARP_CACHE_SIZE

\* The entry of h gets the new MAC, or the entry at the index is replaced.
arp_update_cache(h, m) ==
    /\ heard' = [heard EXCEPT ![h] = m]
    /\ IF SlotOf(h) # {}
       THEN LET s == CHOOSE s \in SlotOf(h) : \A t \in SlotOf(h) : s <= t
            IN /\ arp_cache' = [arp_cache EXCEPT ![s].mac = m]
               /\ UNCHANGED <<next_arp_idx, entered>>
       ELSE /\ arp_cache' = [arp_cache EXCEPT ![next_arp_idx] = Entry(h, m)]
            /\ next_arp_idx' = (next_arp_idx + 1) % ARP_CACHE_SIZE
            /\ entered' = EnteredAfter(h)

\* What ip_send puts on the wire: the packet in the frame to the MAC of the
\* cache, or an ARP request instead of it.
ip_send(h, frames) ==
    IF SlotOf(h) = {} THEN {ArpRequest(h)}
    ELSE LET s == CHOOSE s \in SlotOf(h) : \A t \in SlotOf(h) : s <= t
         IN {frames[arp_cache[s].mac]}

\* icmp_send_echo_request, but for the flag it clears.
EchoRequest(h, n) == ip_send(h, [m \in Macs |-> Echo(h, m, n)])

-----------------------------------------------------------------------------
(* The card's frames: ethernet_receive, arp_handle_packet, icmp_handle_packet. *)

HandleArp(f) ==
    /\ f.kind \in {"arp_request", "arp_for_other", "arp_reply"}
    /\ arp_update_cache(f.host, f.mac)
    /\ IF f.kind = "arp_request" THEN out' = out \union {Arp("arp_answer", f.host, f.mac)}
                                 ELSE out' = out
    /\ impaired' = (impaired \/ (entered[target] # 0 /\ entered'[target] = 0))
    /\ UNCHANGED <<icmp_reply_received, answered>>

HandleEcho(f) ==
    /\ f.kind = "echo"
    /\ out' = out \union ip_send(f.host, [m \in Macs |-> EchoReply(f.host, m, 0)])
    /\ UNCHANGED <<cacheVars, icmp_reply_received, answered, impaired>>

HandleEchoReply(f) ==
    /\ f.kind = "echo_reply"
    /\ icmp_reply_received' = TRUE
    /\ answered' = (answered \/ (f.host = target /\ f.ping = pings))
    /\ UNCHANGED <<cacheVars, out, impaired>>

\* One frame of net_poll, which the ping command calls.
Poll(f) ==
    /\ pc # "idle"
    /\ f \in in
    /\ in' = in \ {f}
    /\ HandleArp(f) \/ HandleEcho(f) \/ HandleEchoReply(f)
    /\ UNCHANGED <<pingVars, mac, stimuli>>

\* The idle loop of the shell polls as well.
IdlePoll(f) ==
    /\ pc = "idle"
    /\ f \in in
    /\ in' = in \ {f}
    /\ HandleArp(f) \/ HandleEcho(f) \/ HandleEchoReply(f)
    /\ UNCHANGED <<pingVars, mac, stimuli>>

-----------------------------------------------------------------------------
(* The ping command. *)

PingStarts(h) ==
    /\ pc = "idle" /\ pings < MaxPings
    /\ pings' = pings + 1 /\ target' = h
    /\ pc' = "phase1" /\ waited' = 0 /\ result' = "none"
    /\ icmp_reply_received' = FALSE
    /\ out' = out \union EchoRequest(h, pings + 1)
    /\ answered' = FALSE /\ impaired' = FALSE
    /\ UNCHANGED <<cacheVars, in, mac, stimuli>>

\* The check after net_poll, which has handled all the frames there were.
GotReply ==
    /\ pc # "idle" /\ icmp_reply_received
    /\ pc' = "idle" /\ result' = "reply"
    /\ UNCHANGED <<cacheVars, target, waited, pings, icmp_reply_received, out, in,
                   mac, stimuli, answered, impaired>>

Retry_Mut2 ==
    /\ pc = "phase1" /\ waited >= Wait1 /\ ~icmp_reply_received
    /\ pc' = "phase2"
    /\ UNCHANGED <<cacheVars, target, waited, result, pings, in, mac, stimuli, out,
                   icmp_reply_received, answered, impaired>>

\* The second echo request.
Retry ==
    /\ pc = "phase1" /\ waited >= Wait1 /\ ~icmp_reply_received
    /\ pc' = "phase2"
    /\ out' = out \union EchoRequest(target, pings)
    /\ icmp_reply_received' = FALSE
    /\ UNCHANGED <<cacheVars, target, waited, result, pings, in, mac, stimuli,
                   answered, impaired>>

TimedOut ==
    /\ pc = "phase2" /\ waited >= Wait2 /\ ~icmp_reply_received
    /\ pc' = "idle" /\ result' = "timeout"
    /\ UNCHANGED <<cacheVars, target, waited, pings, icmp_reply_received, out, in,
                   mac, stimuli, answered, impaired>>

\* The timer, which the kernel as it is built masks (Scheduler): nothing says
\* that it ticks, and a ping nobody answers need not end.  A frame that is under
\* way meanwhile is late.
Tick ==
    /\ \/ pc = "phase1" /\ waited < Wait1
       \/ pc = "phase2" /\ waited < Wait2
    /\ waited' = waited + 1
    /\ impaired' = (impaired \/ in # {} \/ out # {})
    /\ UNCHANGED <<cacheVars, pc, target, result, pings, icmp_reply_received, out,
                   in, mac, stimuli, answered>>

-----------------------------------------------------------------------------
(* The hosts and the network: external. *)

HostAnswers(f) ==
    /\ f \in out
    /\ out' = out \ {f}
    /\ in' = in \union
          CASE f.kind = "arp_request" -> {Arp("arp_reply", f.host, mac[f.host])}
            [] f.kind = "echo" -> IF mac[f.host] = f.mac
                                  THEN {EchoReply(f.host, f.mac, f.ping)} ELSE {}
            [] OTHER -> {}
    /\ impaired' = (impaired \/ (f.kind = "echo" /\ mac[f.host] # f.mac))
    /\ UNCHANGED <<cacheVars, pingVars, icmp_reply_received, mac, stimuli, answered>>

Stimulus == stimuli < MaxStimuli /\ stimuli' = stimuli + 1

Lose ==
    /\ Stimulus
    /\ \/ \E f \in out : out' = out \ {f} /\ in' = in
       \/ \E f \in in : in' = in \ {f} /\ out' = out
    /\ impaired' = TRUE
    /\ UNCHANGED <<cacheVars, pingVars, icmp_reply_received, mac, answered>>

HostSends(h) ==
    /\ Stimulus
    /\ \E kind \in {"arp_request", "arp_for_other", "echo"} :
           in' = in \union {IF kind = "echo" THEN Echo(h, mac[h], 0) ELSE Arp(kind, h, mac[h])}
    /\ UNCHANGED <<cacheVars, pingVars, icmp_reply_received, mac, out, answered, impaired>>

HostChangesMac(h, m) ==
    /\ Stimulus
    /\ mac' = [mac EXCEPT ![h] = m]
    /\ UNCHANGED <<cacheVars, pingVars, icmp_reply_received, in, out, answered, impaired>>

Next ==
    \/ \E f \in in : Poll(f) \/ IdlePoll(f)
    \/ \E h \in Hosts : PingStarts(h) \/ HostSends(h)
    \/ GotReply \/ Retry \/ TimedOut \/ Tick \/ Lose
    \/ \E f \in out : HostAnswers(f)
    \/ \E h \in Hosts, m \in Macs : HostChangesMac(h, m)

Spec == Init /\ [][Next]_vars

-----------------------------------------------------------------------------
(* Properties. *)

\* No address is in the cache twice: arp_update_cache replaces what it finds,
\* so that a lookup cannot return a MAC that has been corrected further on.
NoAddressTwice ==
    \A s, t \in Slots :
        /\ arp_cache[s].valid /\ arp_cache[t].valid
        /\ arp_cache[s].ip = arp_cache[t].ip
        => s = t

\* What the cache says of a host is what the host said last, however often it
\* has been evicted and has come back.
CacheIsLastHeard ==
    \A s \in Slots : arp_cache[s].valid => arp_cache[s].mac = heard[arp_cache[s].ip]

\* A lookup in the cache gives the one MAC the host was last heard with.
CacheIsRight == NoAddressTwice /\ CacheIsLastHeard

\* The entry that is evicted is the one that came in first: the index goes
\* round the cache in the order of the entries.
OldestGoesFirst ==
    \A s \in Slots :
        arp_cache[s].valid =>
            LET full == \A t \in Slots : arp_cache[t].valid
                turn == IF full THEN (s - next_arp_idx + ARP_CACHE_SIZE) % ARP_CACHE_SIZE
                                ELSE s
            IN entered[arp_cache[s].ip] = turn + 1

\* A ping of a host that is up does not time out when no frame is lost, late
\* or sent to an old MAC and the host is not evicted meanwhile, whether or not
\* it was in the cache: the first packet is given up for an ARP request, and
\* the second attempt has its answer.
ColdCachePings == result = "timeout" => impaired

\* A ping that times out was not answered for a reason outside this host.
PingSound == TypeOK /\ ColdCachePings
=============================================================================
