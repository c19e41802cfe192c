----------------------------- MODULE NetworkMC -----------------------------
(***************************************************************************)
(* The parts of the network that do not share state with each other or     *)
(* with Tcp: the ping command with the ARP cache, the checksums, the ring  *)
(* of the network card, the search of the PCI bus, the readers of HTTP     *)
(* responses, and those of typed addresses.  As in PartsMC a behaviour    *)
(* explores the part the initial state picks, and the others stay where    *)
(* they are.                                                               *)
(***************************************************************************)
EXTENDS Ping, Ne2000, Pci, InetChecksum, AddressText, HttpClient, TLC

VARIABLE part

netVars == <<part, vars, sumVars, cardVars, busVars, httpVars, text>>

\* Responses of up to 11 bytes that matter to the scanner of the header,
\* timeouts of 2 ticks, and buffers that the responses overflow.
Headers == {<<"CR", "LF", "CR", "LF">>,
            <<"x", "CR", "LF", "CR", "LF">>,
            <<"CR", "CR", "LF", "CR", "LF">>,
            <<"CR", "LF", "CR", "CR", "LF", "CR", "LF">>,
            <<"CR", "LF", "x", "CR", "LF">>,
            <<"LF", "LF", "CR">>}
Bodies == {<<>>, <<"x">>, <<"CR", "LF", "CR", "LF">>}

MCResponses == {h \o b : h \in Headers, b \in Bodies}
MCTimeout == [sqpkg |-> 2, terminal |-> 1, browser |-> 2]
MCRecvMax == [sqpkg |-> 4, terminal |-> 2, browser |-> 3]

\* Octets of 16 values and the digits 1 and 8: "18" is out of range as "256"
\* is in the source.
MCDigits == "1" :> 1 @@ "8" :> 8

Parts == {"ping", "sums", "card", "bus", "http", "typed"}

\* What the unexplored parts are pinned to, where their Init leaves a choice;
\* PingStarts sets target, and hosts and MACs are interchangeable.
Pinned ==
    /\ target = CHOOSE h \in Hosts : TRUE
    /\ mac = [h \in Hosts |-> CHOOSE m \in Macs : TRUE]
    /\ part # "sums" => protocol = "ip" /\ packet = <<0, 0>>
    /\ part # "bus" =>
           config = [p \in Positions |-> [low |-> Absent, high |-> Absent]]

NetInit ==
    /\ part \in Parts /\ Pinned
    /\ Init /\ SumInit /\ CardInit /\ BusInit /\ HttpInit /\ TypedInit

AllBut(p) ==
    /\ part = p /\ UNCHANGED part
    /\ p # "ping" => UNCHANGED vars
    /\ p # "sums" => UNCHANGED sumVars
    /\ p # "card" => UNCHANGED cardVars
    /\ p # "bus" => UNCHANGED busVars
    /\ p # "http" => UNCHANGED httpVars
    /\ p # "typed" => UNCHANGED text

NetNext ==
    \/ AllBut("ping") /\ Next
    \/ AllBut("sums") /\ SumNext
    \/ AllBut("card") /\ CardNext
    \/ AllBut("bus") /\ BusNext
    \/ AllBut("http") /\ HttpNext
    \/ AllBut("typed") /\ TypedNext

NetSpec == NetInit /\ [][NetNext]_netVars

-----------------------------------------------------------------------------
(* Properties: CacheIsRight, OldestGoesFirst and PingSound are Ping's,     *)
(* FramesIntact Ne2000's, SearchSound Pci's, PacketAccepted InetChecksum's,*)
(* AddressSound AddressText's, and RequestSound HttpClient's.              *)
=============================================================================
