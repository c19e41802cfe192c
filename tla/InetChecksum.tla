---------------------------- MODULE InetChecksum ----------------------------
(***************************************************************************)
(* The Internet checksums of net/ip.c (IP and ICMP) and net/tcp.c, over    *)
(* bytes 0 .. B-1 (B = 256) and words of two bytes.  The processor is      *)
(* little-endian: a uint16_t read from or stored into a packet has its     *)
(* low byte first, on the wire the high byte comes first.                  *)
(*                                                                         *)
(* A packet is filled in with its checksum field 0, then its checksum is   *)
(* computed and stored.  The receiver, which is external, adds the words   *)
(* of the packet as they are on the wire (and of the pseudo-header, for    *)
(* TCP) in one's complement: the sum of a good packet is all ones.         *)
(***************************************************************************)
EXTENDS Integers, Sequences

CONSTANTS
    B,          \* the number of values of a byte: 256
    TcpProto,   \* 6
    Lengths,    \* lengths of packets, the checksum field included
    AddressBytes   \* the values of a byte of an address

ASSUME ChecksumAssumption ==
    /\ B \in Nat \ {0, 1}
    /\ TcpProto \in 0 .. B - 1
    /\ Lengths \subseteq {n \in Nat : n >= 2 /\ n < B * B}
    /\ AddressBytes \subseteq 0 .. B - 1

VARIABLES
    protocol,   \* which of the three a packet is for
    ips,        \* the bytes of the source and the destination address
    packet,     \* its bytes, the checksum in the first two
    sent        \* the checksum has been stored

sumVars == <<protocol, ips, packet, sent>>

Byte == 0 .. B - 1
W == B * B

Little(s, i) == s[i] + B * s[i + 1]
Big(s, i) == B * s[i] + s[i + 1]

(* The words of s, and the last byte if their number is odd. *)
Words(s, Word(_, _), OddByte(_)) ==
    [k \in 1 .. (Len(s) + 1) \div 2 |->
        IF 2 * k - 1 = Len(s) THEN OddByte(s[2 * k - 1]) ELSE Word(s, 2 * k - 1)]

(* The sum of some words. *)
Total(words) ==
    LET sum[k \in 0 .. Len(words)] == IF k = 0 THEN 0 ELSE sum[k - 1] + words[k]
    IN  sum[Len(words)]

SumOf(s, Word(_, _), OddByte(_)) == Total(Words(s, Word, OddByte))

(* while (sum >> 16): the carries are added in until there are none. *)
Fold(sum) ==
    LET f[n \in Nat] == IF n < W THEN n ELSE f[(n % W) + (n \div W)] IN f[sum]

Complement(sum) == W - 1 - Fold(sum)

(* calculate_checksum: words and last byte as the processor reads them. *)
calculate_checksum_Mut(s) == Complement(SumOf(s, Little, LAMBDA b : B * b))
calculate_checksum(s) == Complement(SumOf(s, Little, LAMBDA b : b))

(* tcp_checksum: the addresses, the protocol number and the length as numbers
   are written, high byte first; the segment as the processor reads it. *)
tcp_checksum(addresses, s) ==
    Complement(SumOf(addresses, Big, LAMBDA b : b) + TcpProto + Len(s)
               + SumOf(s, Little, LAMBDA b : b))

(* hdr->checksum = sum, in a packed structure. *)
WithChecksum(sum) == [packet EXCEPT ![1] = sum % B, ![2] = sum \div B]

SumTypeOK ==
    /\ protocol \in {"ip", "icmp", "tcp"}
    /\ ips \in Seq(Byte) /\ packet \in Seq(Byte)
    /\ sent \in BOOLEAN

SumInit ==
    /\ protocol \in {"ip", "icmp", "tcp"}
    /\ ips \in [1 .. 4 -> AddressBytes]
    /\ \E n \in Lengths :
          \E body \in [1 .. n - 2 -> Byte] : packet = <<0, 0>> \o body
    /\ sent = FALSE

(* ip_send, icmp_send_echo_request, tcp_send_segment: the end of each. *)
SendIp ==
    /\ ~sent /\ protocol = "ip"
    /\ packet' = WithChecksum(calculate_checksum(packet))
    /\ sent' = TRUE /\ UNCHANGED <<protocol, ips>>

SendIcmp ==
    /\ ~sent /\ protocol = "icmp"
    /\ packet' = WithChecksum(calculate_checksum(packet))
    /\ sent' = TRUE /\ UNCHANGED <<protocol, ips>>

SendTcp ==
    /\ ~sent /\ protocol = "tcp"
    /\ packet' = WithChecksum(tcp_checksum(ips, packet))
    /\ sent' = TRUE /\ UNCHANGED <<protocol, ips>>

(* An echo request comes back as an echo reply: icmp_handle_packet changes its
   type, clears the checksum and computes it again. *)
Reply ==
    /\ sent /\ protocol = "icmp" /\ Len(packet) > 2
    /\ \E type \in Byte :
          LET reply == [packet EXCEPT ![1] = 0, ![2] = 0, ![3] = type]
              sum   == calculate_checksum(reply)
          IN packet' = [reply EXCEPT ![1] = sum % B, ![2] = sum \div B]
    /\ UNCHANGED <<protocol, ips, sent>>

SumNext == SendIp \/ SendIcmp \/ SendTcp \/ Reply

SumSpec == SumInit /\ [][SumNext]_sumVars

-----------------------------------------------------------------------------
(* Properties. *)

(* What a receiver adds up, on the wire. *)
WireSum(s) == SumOf(s, Big, LAMBDA b : B * b)

(* A receiver accepts every IP and ICMP packet, whatever its contents, and
   also if its length is odd: the sum does not depend on the byte order. *)
PacketAccepted ==
    SumTypeOK /\ (sent /\ protocol # "tcp" => Fold(WireSum(packet)) = W - 1)

=============================================================================
