---------------------------- MODULE AddressText ----------------------------
(***************************************************************************)
(* What the programs make of an address or a URL someone typed: the ping,  *)
(* http and arp commands (kernel/terminal_app.c) and the browser's         *)
(* parse_ip and parse_url (kernel/browser_app.c).  The readers go over the *)
(* text once, and are compared here with the dotted-decimal notation       *)
(* itself on every text of a bounded length.                               *)
(*                                                                         *)
(* The octets of the source have 256 values and the runs' have Modulus.    *)
(* "dot", "slash" and "blank" are the characters of these names.           *)
(***************************************************************************)
EXTENDS Integers, Sequences

CONSTANTS Digits,     \* the digits texts are made of, as a function to numbers
          Others,     \* "dot" and characters that are no digit
          Modulus,    \* 2^8 in the source
          MaxLength,  \* bound of the runs
          HostMax, PathMax   \* 63 and 127 in parse_url

ASSUME AddressAssumption ==
  /\ {"dot", "slash", "blank"} \cap DOMAIN Digits = {} /\ "dot" \in Others
  /\ \A d \in DOMAIN Digits : Digits[d] \in 0 .. 9
  /\ Modulus \in Nat \ {0} /\ MaxLength \in Nat
  /\ HostMax \in Nat /\ PathMax \in Nat \ {0}

VARIABLE text

Chars == DOMAIN Digits \cup Others

IsDigit(c) == c \in DOMAIN Digits

(***************************************************************************)
(* The octet loop of ping, http and arp: a dot moves to the next octet, a  *)
(* digit is appended to the current one, in 8 bits.  It stops at a fourth  *)
(* dot.                                                                    *)
(***************************************************************************)
OctetStep(x, c) ==
  IF x.part = 4 THEN x
  ELSE IF c = "dot" THEN [x EXCEPT !.part = @ + 1]
  ELSE IF IsDigit(c)
       THEN [x EXCEPT !.ip = [x.ip EXCEPT ![x.part] = (x.ip[x.part] * 10 + Digits[c]) % Modulus]]
       ELSE x

\* What the loop has read, after so many of the characters.
OctetsRead(s) ==
  LET x[i \in 0 .. Len(s)] ==
        IF i = 0 THEN [part |-> 0, ip |-> [k \in 0 .. 3 |-> 0]] ELSE OctetStep(x[i - 1], s[i])
  IN  x

Octets(s) == OctetsRead(s)[Len(s)]

NoAddress == [k \in 0 .. 3 |-> -1]

OnlyDottedDigits(s) == \A i \in 1 .. Len(s) : s[i] = "dot" \/ IsDigit(s[i])

\* ping <ip>
PingTarget(s) ==
  IF OnlyDottedDigits(s) /\ Octets(s).part = 3 THEN Octets(s).ip ELSE NoAddress

\* The text before the first blank.
WordEnd(s) ==
  CHOOSE e \in 0 .. Len(s) :
    /\ \A i \in 1 .. e : s[i] # "blank"
    /\ e = Len(s) \/ s[e + 1] = "blank"

Word(s) == SubSeq(s, 1, WordEnd(s))

\* http <ip> [path]
HttpTarget(s) ==
  IF OnlyDottedDigits(Word(s)) /\ Octets(Word(s)).part = 3 THEN Octets(Word(s)).ip
  ELSE NoAddress

\* arp <ip>: whatever was typed.
ArpTarget(s) == Octets(s).ip

(***************************************************************************)
(* parse_ip of the browser refuses an octet over 255 and other characters, *)
(* as far as it reads.                                                     *)
(***************************************************************************)
ParseStep_Mut(x, c) ==
  IF x.part = 4 \/ ~x.ok THEN x
  ELSE IF c = "dot" THEN [x EXCEPT !.part = @ + 1]
  ELSE IF IsDigit(c)
       THEN [x EXCEPT !.ip = [x.ip EXCEPT ![x.part] = (x.ip[x.part] * 10 + Digits[c]) % Modulus]]
       ELSE [x EXCEPT !.ok = FALSE]

ParseStep(x, c) ==
  IF x.part = 4 \/ ~x.ok THEN x
  ELSE IF c = "dot" THEN [x EXCEPT !.part = @ + 1]
  ELSE IF IsDigit(c) /\ x.ip[x.part] * 10 + Digits[c] < Modulus
       THEN [x EXCEPT !.ip = [x.ip EXCEPT ![x.part] = x.ip[x.part] * 10 + Digits[c]]]
       ELSE [x EXCEPT !.ok = FALSE]

Parsed(s) ==
  LET x[i \in 0 .. Len(s)] ==
        IF i = 0 THEN [part |-> 0, ip |-> [k \in 0 .. 3 |-> 0], ok |-> TRUE]
        ELSE ParseStep(x[i - 1], s[i])
  IN  x

parse_ip(s) ==
  LET x == Parsed(s)[Len(s)] IN IF x.ok /\ x.part = 3 THEN x.ip ELSE NoAddress

(***************************************************************************)
(* parse_url, behind the scheme: the host up to a slash or a blank, and    *)
(* the path from the slash up to a blank.                                  *)
(***************************************************************************)
UrlStep(x, c) ==
  CASE x.at = "host" /\ c \notin {"slash", "blank"} ->
         [x EXCEPT !.host = IF Len(@) < HostMax THEN Append(@, c) ELSE @]
    [] x.at = "host" /\ c = "slash" -> [x EXCEPT !.at = "path", !.path = <<"slash">>]
    [] x.at = "path" /\ c # "blank" ->
         [x EXCEPT !.path = IF Len(@) < PathMax THEN Append(@, c) ELSE @]
    [] OTHER -> [x EXCEPT !.at = "end"]

UrlRead(s) ==
  LET x[i \in 0 .. Len(s)] ==
        IF i = 0 THEN [at |-> "host", host |-> <<>>, path |-> <<>>] ELSE UrlStep(x[i - 1], s[i])
  IN  x

parse_url(s) ==
  LET x == UrlRead(s)[Len(s)]
  IN  [host |-> x.host, path |-> IF x.path = <<>> THEN <<"slash">> ELSE x.path]

-----------------------------------------------------------------------------
(***************************************************************************)
(* Every text of up to MaxLength characters, one character at a time.      *)
(***************************************************************************)
TypedInit == text = <<>>

TypedNext ==
  /\ Len(text) < MaxLength
  /\ \E c \in Chars : text' = Append(text, c)

TypedSpec == TypedInit /\ [][TypedNext]_text

(***************************************************************************)
(* Reference: dotted decimal.                                              *)
(***************************************************************************)
\* How many of the first characters are dots.
Dots(s) ==
  LET n[i \in 0 .. Len(s)] ==
        IF i = 0 THEN 0 ELSE IF s[i] = "dot" THEN n[i - 1] + 1 ELSE n[i - 1]
  IN  n

\* The k-th of the pieces between dots, and the number its digits are.
InPiece(s, k, i) == s[i] # "dot" /\ Dots(s)[i] = k

NumberOf(s, k) ==
  LET n[i \in 0 .. Len(s)] ==
        IF i = 0 THEN 0
        ELSE IF InPiece(s, k, i) THEN n[i - 1] * 10 + Digits[s[i]] ELSE n[i - 1]
  IN  n[Len(s)]

IsDotted(s) ==
  /\ OnlyDottedDigits(s)
  /\ Dots(s)[Len(s)] = 3
  /\ \A k \in 0 .. 3 : (\E i \in 1 .. Len(s) : InPiece(s, k, i)) /\ NumberOf(s, k) < Modulus

Quad(s) == [k \in 0 .. 3 |-> NumberOf(s, k)]

(***************************************************************************)
(* Properties.                                                             *)
(***************************************************************************)
\* An address in dotted decimal is understood alike, and rightly, by all four.
DottedIsUnderstood ==
  IsDotted(text) =>
    /\ parse_ip(text) = Quad(text)
    /\ PingTarget(text) = Quad(text)
    /\ HttpTarget(text) = Quad(text)
    /\ ArpTarget(text) = Quad(text)

\* What the browser takes for an address consists of dots and digits, with no
\* octet out of range: it differs from dotted decimal by empty octets only.
BrowserRefusesOverflow ==
  parse_ip(text) # NoAddress =>
    /\ OnlyDottedDigits(text)
    /\ parse_ip(text) = Quad(text)

\* Host and path together are the text up to its first blank, with a path of
\* one slash where there is none, as long as neither is cut off.
UrlIsSplit ==
  LET u == parse_url(text)
      w == Word(text)
  IN  (Len(u.host) < HostMax /\ Len(u.path) < PathMax) =>
        IF \E i \in 1 .. Len(w) : w[i] = "slash" THEN u.host \o u.path = w
        ELSE u.host = w /\ u.path = <<"slash">>

\* The readers of addresses and URLs are right about what is one.
AddressSound == DottedIsUnderstood /\ BrowserRefusesOverflow /\ UrlIsSplit
=============================================================================
