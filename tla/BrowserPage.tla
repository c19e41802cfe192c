---------------------------- MODULE BrowserPage ----------------------------
(***************************************************************************)
(* The browser's page (kernel/browser_app.c): the response it holds, the   *)
(* text made of it, the wrapped lines, and the lines in the window at the  *)
(* scroll position.                                                        *)
(*                                                                         *)
(* get_lines writes the start of every line into an array that outlives    *)
(* the drawing; the end of a line is read as the start of the next one.    *)
(* "HTTP" stands for a status line that begins with HTTP/, "LT" and "GT"   *)
(* for the brackets of a tag.                                              *)
(***************************************************************************)
EXTENDS Integers, Sequences

CONSTANTS Pages,        \* responses a request may bring
          WRAP,         \* characters of a line (28)
          VISIBLE,      \* lines of the window (8)
          MAX_LINES,    \* MAX_WRAPPED_LINES (512)
          MaxScroll,    \* bound of the runs: clicks on DN between two drawings
          TRACK         \* pixels the thumb may move

ASSUME PageAssumption ==
  /\ Pages \subseteq Seq(STRING)
  /\ WRAP \in Nat \ {0} /\ VISIBLE \in Nat \ {0}
  /\ MAX_LINES \in Nat /\ MAX_LINES > VISIBLE /\ MaxScroll \in Nat /\ TRACK \in Nat

VARIABLES response,      \* response_buf
          mode,          \* display_mode: "TXT" or "SRC"
          scroll,        \* scroll_offset
          line_starts,   \* the array, and one cell behind it that nothing writes
          drawn          \* the last drawing: its text, first line, lines; or NotDrawn

pageVars == <<response, mode, scroll, line_starts, drawn>>

Held == Pages \cup {<<>>}

NotDrawn == [text |-> <<>>, total |-> 0, first |-> 0, lines |-> <<>>, thumb |-> 0]

(***************************************************************************)
(* get_http_body: behind the first blank line of an HTTP response.         *)
(***************************************************************************)
FirstAfter(s, pattern) ==
  LET at == {i \in 1 .. Len(s) - Len(pattern) + 1 :
               SubSeq(s, i, i + Len(pattern) - 1) = pattern}
  IN  IF at = {} THEN 0
      ELSE (CHOOSE i \in at : \A j \in at : i <= j) + Len(pattern)

get_http_body(s) ==
  LET crlf == FirstAfter(s, <<"CR", "LF", "CR", "LF">>)
      lf   == FirstAfter(s, <<"LF", "LF">>)
  IN  IF s = <<>> \/ s[1] # "HTTP" THEN s
      ELSE IF crlf # 0 THEN SubSeq(s, crlf, Len(s))
      ELSE IF lf # 0 THEN SubSeq(s, lf, Len(s))
      ELSE s

(***************************************************************************)
(* strip_html_tags: the characters outside of tags, without CR.            *)
(***************************************************************************)
Strip(x, c) ==
  CASE c = "LT" -> [x EXCEPT !.in_tag = TRUE]
    [] c = "GT" -> [x EXCEPT !.in_tag = FALSE]
    [] c \notin {"LT", "GT"} /\ ~x.in_tag /\ c # "CR" -> [x EXCEPT !.out = Append(@, c)]
    [] OTHER -> x

Stripped(s) ==
  LET x[i \in 0 .. Len(s)] ==
        IF i = 0 THEN [in_tag |-> FALSE, out |-> <<>>] ELSE Strip(x[i - 1], s[i])
  IN  x

strip_html_tags(s) == Stripped(s)[Len(s)].out

RenderText ==
  IF mode = "TXT" THEN strip_html_tags(get_http_body(response)) ELSE response

(***************************************************************************)
(* get_lines: where the wrapped lines begin, counted from 0.               *)
(***************************************************************************)
LineStep(x, c) ==
  IF Len(x.starts) >= MAX_LINES THEN x
  ELSE IF c = "LF" \/ x.len + 1 >= WRAP
       THEN [i |-> x.i + 1, len |-> 0, starts |-> Append(x.starts, x.i + 1)]
       ELSE [x EXCEPT !.i = @ + 1, !.len = @ + 1]

Scanned(s) ==
  LET x[i \in 0 .. Len(s)] ==
        IF i = 0 THEN [i |-> 0, len |-> 0, starts |-> <<0>>] ELSE LineStep(x[i - 1], s[i])
  IN  x

get_lines(s) == Scanned(s)[Len(s)].starts

\* The array after the scan: entries behind the last line keep what they held.
StartsKept(starts) ==
  [k \in 0 .. MAX_LINES |-> IF k < Len(starts) THEN starts[k + 1] ELSE line_starts[k]]

(***************************************************************************)
(* One line of the window, of the text s, by the array a.                  *)
(***************************************************************************)
\* The end found by scanning, when the array gives none behind the start.
ScannedEnd(s, start) ==
  CHOOSE e \in start .. Len(s) :
    /\ \A k \in start .. e - 1 : s[k + 1] # "LF" /\ k - start < WRAP
    /\ e = Len(s) \/ s[e + 1] = "LF" \/ e - start = WRAP

LineEnd(s, a, idx) ==
  LET start == a[idx]
      next  == IF start < Len(s) THEN a[idx + 1] ELSE start
  IN  IF next <= start THEN ScannedEnd(s, start) ELSE next

\* The characters of s behind from, up to to, but for some.
Without(s, from, to, left_out) ==
  LET out[k \in 0 .. to - from] ==
        IF k = 0 THEN <<>>
        ELSE IF s[from + k] \in left_out THEN out[k - 1]
        ELSE Append(out[k - 1], s[from + k])
  IN  out[to - from]

Segment(s, a, idx) ==
  LET end == LineEnd(s, a, idx)
  IN  Without(s, a[idx], IF end < Len(s) THEN end ELSE Len(s), {"LF", "CR"})

Clamped_Mut(offset, total) ==
  LET low == IF offset > total THEN total ELSE offset
  IN  IF low < 0 THEN 0 ELSE low

Clamped(offset, total) ==
  LET low == IF offset > total - VISIBLE THEN total - VISIBLE ELSE offset
  IN  IF low < 0 THEN 0 ELSE low

(***************************************************************************)
(* draw_browser_content.                                                   *)
(***************************************************************************)
draw_browser_content ==
  LET text   == RenderText
      starts == get_lines(text)
      total  == Len(starts)
      first  == Clamped(scroll, total)
      a      == StartsKept(starts)
      shown  == IF total - first < VISIBLE THEN total - first ELSE VISIBLE
  IN  /\ line_starts' = a
      /\ scroll' = first
      /\ drawn' = [text |-> text, total |-> total, first |-> first,
                   lines |-> [i \in 1 .. shown |-> Segment(text, a, first + i - 1)],
                   thumb |-> IF total > VISIBLE
                             THEN (first * TRACK) \div (total - VISIBLE) ELSE 0]
      /\ UNCHANGED <<response, mode>>

(***************************************************************************)
(* browser_handle_click and browser_load_url.  A request that fails before *)
(* its connection is established changes the status line only.             *)
(***************************************************************************)
LoadUrl ==
  /\ response' \in Held
  /\ scroll' = 0
  /\ UNCHANGED <<mode, line_starts, drawn>>

ScrollUp ==
  /\ scroll > 0
  /\ scroll' = scroll - 1
  /\ UNCHANGED <<response, mode, line_starts, drawn>>

ScrollDown ==
  /\ scroll < MaxScroll
  /\ scroll' = scroll + 1
  /\ UNCHANGED <<response, mode, line_starts, drawn>>

ChangeMode ==
  /\ mode' = IF mode = "TXT" THEN "SRC" ELSE "TXT"
  /\ scroll' = 0
  /\ UNCHANGED <<response, line_starts, drawn>>

PageInit ==
  /\ response = <<>> /\ mode = "TXT" /\ scroll = 0
  /\ line_starts = [k \in 0 .. MAX_LINES |-> 0]
  /\ drawn = NotDrawn

PageNext == draw_browser_content \/ LoadUrl \/ ScrollUp \/ ScrollDown \/ ChangeMode

PageSpec == PageInit /\ [][PageNext]_pageVars

-----------------------------------------------------------------------------
(***************************************************************************)
(* Properties.                                                             *)
(***************************************************************************)
PageTypeOK ==
  /\ response \in Held /\ mode \in {"TXT", "SRC"}
  /\ scroll \in 0 .. MaxScroll
  /\ line_starts \in [0 .. MAX_LINES -> Nat]

\* Reference: what is left of a response when the tags are taken out.
InTag(s, i) ==
  \E j \in 1 .. i : s[j] = "LT" /\ \A k \in j .. i - 1 : s[k] # "GT"

WithoutTags(s) ==
  LET out[i \in 0 .. Len(s)] ==
        IF i = 0 THEN <<>>
        ELSE IF InTag(s, i) \/ s[i] \in {"GT", "CR"} THEN out[i - 1]
        ELSE Append(out[i - 1], s[i])
  IN  out[Len(s)]

\* In TXT mode the window shows text of the body and nothing of a tag
\* (get_http_body and strip_html_tags).
NoTagIsShown ==
  strip_html_tags(get_http_body(response)) = WithoutTags(get_http_body(response))

\* Reference: the wrapped lines of a text, as text.
Wrap(done, c) ==
  LET last == done[Len(done)]
      full == [done EXCEPT ![Len(done)] = Append(last, c)]
  IN  CASE c = "LF" -> Append(done, <<>>)
        [] c # "LF" /\ Len(last) + 1 >= WRAP -> Append(full, <<>>)
        [] OTHER -> full

Wrapped(s) ==
  LET done[i \in 0 .. Len(s)] == IF i = 0 THEN <<<<>>>> ELSE Wrap(done[i - 1], s[i])
  IN  done[Len(s)]

PrintedLine(line) == Without(line, 0, Len(line), {"CR"})

\* Every line in the window but the text's last is the line of the text it
\* should be, whatever was loaded and drawn before.
LinesAreTheTexts ==
  drawn # NotDrawn =>
    \A i \in 1 .. Len(drawn.lines) :
      drawn.first + i < drawn.total => drawn.lines[i] = PrintedLine(Wrapped(drawn.text)[drawn.first + i])

\* The window is full when the text is long enough, and the thumb is on its
\* track, however often DN was clicked and however short the new page is.
ScrollIsInRange ==
  drawn # NotDrawn =>
    /\ drawn.first + Len(drawn.lines) <= drawn.total
    /\ drawn.total >= VISIBLE => Len(drawn.lines) = VISIBLE
    /\ drawn.thumb \in 0 .. TRACK

\* What the window shows is the page, at the place its scroll bar says.
PageSound == PageTypeOK /\ NoTagIsShown /\ LinesAreTheTexts /\ ScrollIsInRange
=============================================================================
