------------------------------- MODULE Ne2000 -------------------------------
(***************************************************************************)
(* The receive ring of drivers/ne2000.c: pages PStart .. PStop-1 of the    *)
(* memory of the card, which the card fills from CURR and the driver       *)
(* empties from next_packet_page, telling the card by BNRY how far it is.  *)
(*                                                                         *)
(* The card is external: it stores a frame that is for us, behind a header *)
(* that names the page of the next frame, if that leaves a page free       *)
(* before BNRY, and drops it otherwise.  It works at any moment, so        *)
(* ne2k_receive is three steps: reading CURR, reading the frame, and       *)
(* giving its pages back.  Frames are told apart by model values.          *)
(*                                                                         *)
(* The idle loop of kernel_main calls net_poll with interrupts enabled,    *)
(* and the gui command runs the whole desktop, whose programs call it too, *)
(* inside keyboard_isr: ne2k_receive is entered again while it is under    *)
(* way.  What the interrupted call does with a frame it was reading while  *)
(* the card was used depends on the port access it was at: "confused" is   *)
(* the state from which on nothing is said of the driver.                  *)
(***************************************************************************)
EXTENDS Naturals, Sequences

CONSTANTS
    PStart, PStop,  \* 0x46 and 0x80
    Frames,         \* contents of frames
    FramePages      \* how many pages a frame may need: 1 .. 6

ASSUME RingAssumption ==
    /\ PStart \in Nat \ {0} /\ PStop \in Nat /\ PStart + 2 <= PStop
    /\ FramePages \subseteq Nat \ {0}
    /\ \A n \in FramePages : n < PStop - PStart - 1

VARIABLES
    reg,                \* the registers of the card, by name
    ring,               \* what the card has written at the start of a page
    next_packet_page, ne2k_found,
    card_pc,            \* where the driver is in ne2k_receive
    rx,                 \* what it has read: header and frame
    loop,               \* the idle loop of kernel_main: [at, rx, used], at
                        \* "boot" before it runs, "running", or where its call
                        \* of ne2k_receive was when the desktop interrupted it;
                        \* then rx is what it had read, and used what the
                        \* desktop has done with the card: "no", "polled" (or
                        \* sent a frame) or "received"
    \* history: the frames the card has stored and the driver has not handed
    \* over yet, each with the page it begins at and its number of pages
    pending

cardVars == <<reg, ring, next_packet_page, ne2k_found, card_pc, rx, loop, pending>>

Pages == PStart .. PStop - 1
Nothing == [frame |-> 0, next |-> 0]
Interrupted == {"idle", "curr", "read"}
Reads == [frame : Frames \cup {0}, next : Pages \cup {0}]
Registers == {"PSTART", "PSTOP", "BNRY", "CURR", "RBCR0", "RCR"}

CardTypeOK ==
    /\ reg \in [Registers -> Nat]
    /\ ring \in [Pages -> Reads]
    /\ next_packet_page \in Pages
    /\ ne2k_found \in BOOLEAN
    /\ card_pc \in {"idle", "curr", "read", "confused"}
    /\ rx \in Reads
    /\ loop \in [at : Interrupted \cup {"boot", "running"}, rx : Reads,
                 used : {"no", "polled", "received"}]
    /\ pending \in Seq([frame : Frames, page : Pages, pages : FramePages])

(* The page n pages after p. *)
Beyond(p, n) == PStart + ((p - PStart + n) % (PStop - PStart))

-----------------------------------------------------------------------------
(* ne2k_init.  A register is named by an offset, and which register that is
   for a write to page 0 is the card's: ne2000.h has NE_RCR at 0x0A. *)
NE_PSTART == 1
NE_PSTOP == 2
NE_BNRY == 3
NE_RCR == 10
WrittenAt(offset) ==
    CASE offset = 1  -> "PSTART"
      [] offset = 2  -> "PSTOP"
      [] offset = 3  -> "BNRY"
      [] offset = 10 -> "RBCR0"
      [] offset = 12 -> "RCR"

CardInit ==
    /\ reg = [r \in Registers |-> 0]
    /\ ring = [p \in Pages |-> Nothing]
    /\ next_packet_page = PStart + 1
    /\ ne2k_found = FALSE
    /\ card_pc = "idle" /\ rx = Nothing
    /\ loop = [at |-> "boot", rx |-> Nothing, used |-> "no"]
    /\ pending = <<>>

ne2k_init ==
    /\ ~ne2k_found /\ ne2k_found' = TRUE
    /\ reg' = [reg EXCEPT ![WrittenAt(NE_PSTART)] = PStart,
                          ![WrittenAt(NE_PSTOP)] = PStop,
                          ![WrittenAt(NE_BNRY)] = PStart,
                          !.CURR = PStart + 1,
                          ![WrittenAt(NE_RCR)] = 15]
    /\ next_packet_page' = PStart + 1
    /\ UNCHANGED <<ring, card_pc, rx, loop, pending>>

-----------------------------------------------------------------------------
(* The card. *)

(* Broadcasts are for us only with bit 2 of the receive configuration. *)
Accepts(broadcast) == broadcast => (reg.RCR \div 4) % 2 = 1

FreePages ==
    IF reg.CURR < reg.BNRY THEN reg.BNRY - reg.CURR
    ELSE reg.PSTOP - reg.PSTART - (reg.CURR - reg.BNRY)

Fits(pages) == pages < FreePages

CardStores(frame, pages) ==
    LET next == Beyond(reg.CURR, pages) IN
    /\ ring' = [p \in Pages |->
                   IF p = reg.CURR THEN [frame |-> frame, next |-> next]
                   ELSE IF \E k \in 1 .. pages - 1 : p = Beyond(reg.CURR, k)
                   THEN Nothing ELSE ring[p]]
    /\ reg' = [reg EXCEPT !.CURR = next]
    /\ pending' = Append(pending, [frame |-> frame, page |-> reg.CURR, pages |-> pages])

(* A frame arrives. *)
Arrive(frame, pages, broadcast) ==
    /\ ne2k_found
    /\ IF Accepts(broadcast) /\ Fits(pages) THEN CardStores(frame, pages)
       ELSE UNCHANGED <<ring, reg, pending>>
    /\ UNCHANGED <<next_packet_page, ne2k_found, card_pc, rx, loop>>

-----------------------------------------------------------------------------
(* ne2k_receive, called by net_poll until it returns 0. *)

(* There is a frame if CURR has moved on. *)
ReadCurr ==
    /\ ne2k_found /\ card_pc = "idle"
    /\ next_packet_page # reg.CURR
    /\ card_pc' = "curr"
    /\ loop' = IF loop.at \in Interrupted THEN [loop EXCEPT !.used = "received"] ELSE loop
    /\ UNCHANGED <<reg, ring, next_packet_page, ne2k_found, rx, pending>>

ReadFrame ==
    /\ card_pc = "curr" /\ card_pc' = "read"
    /\ rx' = ring[next_packet_page]
    /\ UNCHANGED <<reg, ring, next_packet_page, ne2k_found, loop, pending>>

(* BNRY is the page before the next frame. *)
Boundary(next) == IF next - 1 < PStart THEN PStop - 1 ELSE next - 1

(* The pages are given back, and the frame goes to ethernet_receive. *)
Advance_Mut ==
    /\ card_pc = "read" /\ card_pc' = "idle"
    /\ next_packet_page' = next_packet_page + 1
    /\ reg' = [reg EXCEPT !.BNRY = Boundary(rx.next)]
    /\ rx' = Nothing
    /\ pending' = SubSeq(pending, 2, Len(pending))
    /\ UNCHANGED <<ring, ne2k_found, loop>>
Advance ==
    /\ card_pc = "read" /\ card_pc' = "idle"
    /\ next_packet_page' = rx.next
    /\ reg' = [reg EXCEPT !.BNRY = Boundary(rx.next)]
    /\ rx' = Nothing
    /\ pending' = SubSeq(pending, 2, Len(pending))
    /\ UNCHANGED <<ring, ne2k_found, loop>>

-----------------------------------------------------------------------------
(* The idle loop and the desktop. *)

(* kernel_main's first desktop is left, and its idle loop polls. *)
IdleLoopBegins ==
    /\ loop.at = "boot" /\ card_pc = "idle"
    /\ loop' = [loop EXCEPT !.at = "running"]
    /\ UNCHANGED <<reg, ring, next_packet_page, ne2k_found, card_pc, rx, pending>>

(* "gui" is entered: keyboard_isr runs the desktop wherever the idle loop is. *)
KeyStartsDesktop ==
    /\ loop.at = "running" /\ card_pc # "confused"
    /\ loop' = [at |-> card_pc, rx |-> rx, used |-> "no"]
    /\ card_pc' = "idle" /\ rx' = Nothing
    /\ UNCHANGED <<reg, ring, next_packet_page, ne2k_found, pending>>

(* A net_poll of the desktop that finds nothing, which aborts a remote DMA, or
   ne2k_transmit, which starts one. *)
DesktopUsesCard ==
    /\ ne2k_found /\ card_pc = "idle"
    /\ loop.at \in Interrupted /\ loop.used = "no"
    /\ loop' = [loop EXCEPT !.used = "polled"]
    /\ UNCHANGED <<reg, ring, next_packet_page, ne2k_found, card_pc, rx, pending>>

(* What the interrupted call finds: the driver as it left it; the port access
   it was at may have been before the remote DMA of the frame or behind it; or
   neither. *)
Resumes ==
    \/ /\ \/ loop.at = "idle" \/ loop.used = "no"
          \/ loop.used = "polled"
          \/ loop.at = "curr" /\ next_packet_page # reg.CURR
       /\ card_pc' = loop.at /\ rx' = loop.rx
    \/ /\ loop.at # "idle" /\ loop.used # "no"
       /\ card_pc' = "confused" /\ rx' = Nothing

(* ESC: the handler returns to where the idle loop was. *)
DesktopEnds ==
    /\ loop.at \in Interrupted /\ card_pc = "idle"
    /\ Resumes
    /\ loop' = [at |-> "running", rx |-> Nothing, used |-> "no"]
    /\ UNCHANGED <<reg, ring, next_packet_page, ne2k_found, pending>>

CardNext ==
    \/ ne2k_init
    \/ \E f \in Frames, n \in FramePages, b \in BOOLEAN : Arrive(f, n, b)
    \/ ReadCurr \/ ReadFrame \/ Advance
    \/ IdleLoopBegins \/ KeyStartsDesktop \/ DesktopUsesCard \/ DesktopEnds

CardSpec == CardInit /\ [][CardNext]_cardVars

-----------------------------------------------------------------------------
(* Properties. *)

(* The page at which the k-th pending frame starts, and the pages it takes;
   the next one to arrive starts at CURR. *)
StartOf(k) == IF k \in DOMAIN pending THEN pending[k].page ELSE reg.CURR
PagesOf(k) == {Beyond(StartOf(k), i) : i \in 0 .. pending[k].pages - 1}

(* Driver and card agree on the ring, across its wrap-around: from
   next_packet_page to CURR there are the stored frames, in order and one
   behind the other, none of them overwritten, each header leading to the
   next one. *)
RingHoldsFrames ==
    /\ \A k \in DOMAIN pending :
          /\ ring[StartOf(k)] = [frame |-> pending[k].frame, next |-> StartOf(k + 1)]
          /\ StartOf(k + 1) = Beyond(StartOf(k), pending[k].pages)
          /\ \A l \in DOMAIN pending : k # l => PagesOf(k) \cap PagesOf(l) = {}
    /\ ne2k_found => StartOf(1) = next_packet_page

(* What ne2k_receive hands over is the oldest stored frame as it was stored,
   even if the card stores others while it is being read. *)
FrameIntact ==
    card_pc = "read" => rx.frame = pending[1].frame /\ rx.next = StartOf(2)

(* The card never takes a full ring for an empty one or the reverse: BNRY
   stays one page behind the driver, CURR never reaches it, and an emptied
   ring has room for the longest frame. *)
BoundaryBehind ==
    ne2k_found =>
        /\ Beyond(reg.BNRY, 1) = next_packet_page
        /\ reg.CURR # reg.BNRY
        /\ pending = <<>> => \A n \in FramePages : Fits(n)

(* Driver, card and ring agree at every step of the reading of a frame, whatever
   the card stores meanwhile, and also after the desktop has interrupted the idle
   loop and received frames of its own, if that was between two frames.  When it
   was in the middle of one and the desktop has used the card, nothing is
   promised: a frame may be lost, handed over twice or mixed. *)
FramesIntact ==
    /\ CardTypeOK
    /\ card_pc # "confused" => RingHoldsFrames /\ FrameIntact /\ BoundaryBehind

=============================================================================
