----------------------------- MODULE HttpClient -----------------------------
(***************************************************************************)
(* The three HTTP clients of the system and how each reads a response from *)
(* its connection: the package manager's download_file (kernel/sqpkg.c),   *)
(* the terminal's http command (kernel/terminal_app.c) and the browser's   *)
(* browser_load_url (kernel/browser_app.c).                                *)
(*                                                                         *)
(* Each is one loop: while a number of ticks has not passed, poll the      *)
(* network once and take what tcp_recv has.  The connection is the stream  *)
(* that module ByteStream promises; a FIN makes tcp_recv return -1, with   *)
(* what was not read lost (module Tcp, TcpFin).                            *)
(***************************************************************************)
EXTENDS Integers, Sequences

CONSTANTS Responses,     \* the byte streams a server may send
          Timeout,       \* ticks of each client: sqpkg 108, terminal 54, browser 72
          RecvMax,       \* bytes one tcp_recv may take, of each client
          BodyMax,       \* max_size of download_file (16383 and 32767)
          ResponseMax    \* RESPONSE_MAX_LEN - 1 of the browser (4095)

Clients == {"sqpkg", "terminal", "browser"}

ASSUME HttpAssumption ==
  /\ Responses \subseteq Seq(STRING)
  /\ \A c \in Clients : Timeout[c] \in Nat \ {0} /\ RecvMax[c] \in Nat \ {0}
  /\ BodyMax \in Nat /\ ResponseMax \in Nat

VARIABLES client,        \* who is reading, "none" when nobody is
          stream,        \* the server's response
          arrived,       \* bytes of it received by the stack
          taken,         \* bytes of it returned by tcp_recv
          open,          \* the connection is established
          ticks,         \* system_ticks - start_ticks
          header,        \* header_state: 0 to 3
          header_ended,
          dest_buf,      \* [0 .. body_bytes - 1]
          response_buf,  \* [0 .. response_len - 1]
          got_data,
          quiet          \* history variable: ticks since the last byte was taken,
                         \* counted up to the timeout

httpVars == <<client, stream, arrived, taken, open, ticks, header, header_ended,
              dest_buf, response_buf, got_data, quiet>>

HttpTypeOK ==
  /\ client \in Clients \cup {"none"}
  /\ arrived \in 0 .. Len(stream) /\ taken \in 0 .. arrived
  /\ open \in BOOLEAN
  /\ header \in 0 .. 3 /\ header_ended \in BOOLEAN /\ got_data \in BOOLEAN
  /\ Len(dest_buf) <= BodyMax /\ Len(response_buf) <= ResponseMax

HttpInit ==
  /\ client = "none" /\ stream = <<>> /\ arrived = 0 /\ taken = 0
  /\ open = FALSE /\ ticks = 0 /\ header = 0 /\ header_ended = FALSE
  /\ dest_buf = <<>> /\ response_buf = <<>> /\ got_data = FALSE /\ quiet = 0

(***************************************************************************)
(* The request has been sent: the loop begins.                             *)
(***************************************************************************)
Begin(c) ==
  /\ client = "none" /\ ~open
  /\ client' = c
  /\ stream' \in Responses
  /\ arrived' = 0 /\ taken' = 0 /\ open' = TRUE /\ ticks' = 0 /\ quiet' = 0
  /\ header' = 0 /\ header_ended' = FALSE
  /\ dest_buf' = <<>> /\ got_data' = FALSE
  /\ response_buf' = IF c = "browser" THEN <<>> ELSE response_buf

(***************************************************************************)
(* download_file's scanner for the blank line: the header state after one  *)
(* byte more.                                                              *)
(***************************************************************************)
HeaderAfter_Mut(h, c) ==
  CASE h = 0 /\ c = "CR" -> 1
    [] h = 1 /\ c = "LF" -> 2
    [] h = 2 /\ c = "CR" -> 3
    [] h = 3 /\ c = "LF" -> 4
    [] OTHER -> 0

HeaderAfter(h, c) ==
  CASE h = 0 /\ c = "CR" -> 1
    [] h = 1 /\ c = "LF" -> 2
    [] h = 2 /\ c = "CR" -> 3
    [] h = 3 /\ c = "LF" -> 4         \* header_ended
    [] OTHER -> IF c = "CR" THEN 1 ELSE 0

\* One byte of the response: a header byte, or a body byte while there is room.
Scanned(x, c) ==
  IF x.ended
  THEN [x EXCEPT !.body = IF Len(@) < BodyMax THEN Append(@, c) ELSE @]
  ELSE LET h == HeaderAfter(x.header, c)
       IN  [x EXCEPT !.header = h % 4, !.ended = (h = 4)]

Scanning(start, bytes) ==
  LET x[i \in 0 .. Len(bytes)] ==
        IF i = 0 THEN start ELSE Scanned(x[i - 1], bytes[i])
  IN  x

Read == [header |-> header, ended |-> header_ended, body |-> dest_buf]

Scan(bytes) == Scanning(Read, bytes)[Len(bytes)]

(***************************************************************************)
(* One turn of a loop: the poll brings n bytes more and possibly the FIN,  *)
(* and tcp_recv takes what it may.                                         *)
(***************************************************************************)
Polled(n, fin) ==
  /\ client # "none" /\ ticks < Timeout[client]
  /\ open \/ (n = 0 /\ ~fin)
  /\ arrived + n <= Len(stream)
  /\ fin => arrived + n = Len(stream)
  /\ arrived' = arrived + n
  /\ open' = (open /\ ~fin)

Available(n, fin) == IF fin \/ ~open THEN 0 ELSE arrived + n - taken

Took(n, fin) ==
  IF Available(n, fin) < RecvMax[client] THEN Available(n, fin) ELSE RecvMax[client]

Bytes(n, fin) == SubSeq(stream, taken + 1, taken + Took(n, fin))

\* download_file: bytes restart the timeout; -1 and 0 only wait.
Restarted(n, fin) == IF Took(n, fin) > 0 THEN 0 ELSE ticks

SqpkgPolls(n, fin) ==
  /\ client = "sqpkg"
  /\ Polled(n, fin)
  /\ taken' = taken + Took(n, fin)
  /\ ticks' = Restarted(n, fin)
  /\ quiet' = IF Took(n, fin) > 0 THEN 0 ELSE quiet
  /\ header' = Scan(Bytes(n, fin)).header
  /\ header_ended' = Scan(Bytes(n, fin)).ended
  /\ dest_buf' = Scan(Bytes(n, fin)).body
  /\ UNCHANGED <<client, stream, response_buf, got_data>>

\* The http command: the first bytes end the loop, and the rest is not read.
TerminalPolls(n, fin) ==
  /\ client = "terminal"
  /\ Polled(n, fin)
  /\ taken' = taken + Took(n, fin)
  /\ got_data' = (Took(n, fin) > 0)
  /\ client' = IF Took(n, fin) > 0 THEN "none" ELSE client
  /\ quiet' = IF Took(n, fin) > 0 THEN 0 ELSE quiet
  /\ UNCHANGED <<stream, ticks, header, header_ended, dest_buf, response_buf>>

\* browser_load_url: bytes restart the timeout; a full page or -1 ends the loop.
Kept(bytes) ==
  IF Len(response_buf) + Len(bytes) < ResponseMax THEN bytes
  ELSE SubSeq(bytes, 1, ResponseMax - Len(response_buf))

PageFull(bytes) == Len(response_buf) + Len(bytes) >= ResponseMax

PageWith(bytes) == response_buf \o Kept(bytes)

BrowserPolls(n, fin) ==
  /\ client = "browser"
  /\ Polled(n, fin)
  /\ taken' = taken + Took(n, fin)
  /\ ticks' = Restarted(n, fin)
  /\ quiet' = IF Took(n, fin) > 0 THEN 0 ELSE quiet
  /\ IF Took(n, fin) > 0
     THEN /\ response_buf' = PageWith(Bytes(n, fin))
          /\ got_data' = TRUE
          /\ client' = IF PageFull(Bytes(n, fin)) THEN "none" ELSE client
     ELSE /\ client' = IF fin THEN "none" ELSE client
          /\ UNCHANGED <<response_buf, got_data>>
  /\ UNCHANGED <<stream, header, header_ended, dest_buf>>

\* The timer interrupt, in the middle of the loop.  The kernel as it is built
\* masks it (TextShell): nothing says that it comes, or that a loop ends.
HttpTick ==
  /\ client # "none" /\ ticks < Timeout[client]
  /\ ticks' = ticks + 1
  /\ quiet' = IF quiet < Timeout[client] THEN quiet + 1 ELSE quiet
  /\ UNCHANGED <<client, stream, arrived, taken, open, header, header_ended,
                 dest_buf, response_buf, got_data>>

\* The time is over: tcp_close.
GiveUp ==
  /\ client # "none" /\ ticks >= Timeout[client]
  /\ client' = "none"
  /\ UNCHANGED <<stream, arrived, taken, open, ticks, header, header_ended,
                 dest_buf, response_buf, got_data, quiet>>

\* After the loop the connection is closed and the client may ask again.
Close ==
  /\ client = "none" /\ open
  /\ open' = FALSE
  /\ UNCHANGED <<client, stream, arrived, taken, ticks, header, header_ended,
                 dest_buf, response_buf, got_data, quiet>>

Polls ==
  \E n \in 0 .. Len(stream), fin \in BOOLEAN :
    SqpkgPolls(n, fin) \/ TerminalPolls(n, fin) \/ BrowserPolls(n, fin)

HttpNext ==
  \/ \E c \in Clients : Begin(c)
  \/ Polls
  \/ HttpTick
  \/ GiveUp
  \/ Close

HttpSpec == HttpInit /\ [][HttpNext]_httpVars

-----------------------------------------------------------------------------
(***************************************************************************)
(* Properties.                                                             *)
(***************************************************************************)
\* Positions just behind a blank line of the bytes taken so far.
BlankLineEnds ==
  {i \in 4 .. taken : SubSeq(stream, i - 3, i) = <<"CR", "LF", "CR", "LF">>}

\* However the response is cut into segments, download_file keeps exactly the
\* bytes behind the first blank line, up to the room it was given.
BodyFollowsHeader ==
  client = "sqpkg" =>
    IF BlankLineEnds = {} THEN dest_buf = <<>>
    ELSE LET first == CHOOSE i \in BlankLineEnds : \A j \in BlankLineEnds : i <= j
             rest  == SubSeq(stream, first + 1, taken)
         IN  dest_buf = SubSeq(rest, 1, IF Len(rest) < BodyMax THEN Len(rest) ELSE BodyMax)

\* The browser's page is the response from its first byte on with nothing
\* missing in between, however the response is cut into segments.
PageIsPrefix ==
  client = "browser" => response_buf = SubSeq(stream, 1, taken)

\* A client that reads on gives up on a connection that is still open only
\* after a whole timeout in which nothing arrived.
GivesUpOnSilence ==
  [][(/\ client \in {"sqpkg", "browser"} /\ client' = "none"
      /\ open' /\ Len(response_buf) < ResponseMax /\ Len(response_buf') < ResponseMax)
       => quiet >= Timeout[client]]_httpVars

\* What a request returns is what the server sent, however it was cut into
\* segments, and no client gives up before its time.
RequestSound ==
  [](HttpTypeOK /\ BodyFollowsHeader /\ PageIsPrefix) /\ GivesUpOnSilence
=============================================================================
