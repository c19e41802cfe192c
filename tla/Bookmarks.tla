----------------------------- MODULE Bookmarks -----------------------------
(***************************************************************************)
(* The browser's address bar and its BOOKMARK button (kernel/              *)
(* browser_app.c): the URL as it is typed, and BOOKMARKS.TXT, read into a  *)
(* buffer, extended by a line and written back.  Other programs may write  *)
(* the file too.                                                           *)
(***************************************************************************)
EXTENDS Integers, Sequences

CONSTANTS URL_MAX_LEN,   \* 64
          BUF,           \* sizeof(bookmarks_buf), 1024
          ReadFaults         \* a subset of {"read_error"}

ASSUME BookmarksAssumption ==
  URL_MAX_LEN \in Nat /\ URL_MAX_LEN > 2 /\ BUF \in Nat /\ BUF > 2

VARIABLES current_url, shift_active, file, exists, status,
          buffered     \* history variable: bytes of bookmarks_buf used, NUL included

marksVars == <<current_url, shift_active, file, exists, status, buffered>>

MarksInit ==
  /\ current_url = <<>> /\ shift_active = FALSE /\ status = "Ready"
  /\ file \in {<<>>, <<"a">>, <<"a", "LF">>} /\ exists \in BOOLEAN
  /\ ~exists => file = <<>>
  /\ buffered = 0

(***************************************************************************)
(* browser_handle_key: the shift keys, a character, backspace.             *)
(***************************************************************************)
Shift(pressed) ==
  /\ shift_active' = pressed
  /\ UNCHANGED <<current_url, file, exists, status, buffered>>

Typed(c) ==
  IF Len(current_url) < URL_MAX_LEN - 2 THEN Append(current_url, c) ELSE current_url

TypeKey ==
  /\ current_url' = Typed(IF shift_active THEN "A" ELSE "a")
  /\ UNCHANGED <<shift_active, file, exists, status, buffered>>

Backspace ==
  /\ current_url # <<>>
  /\ current_url' = SubSeq(current_url, 1, Len(current_url) - 1)
  /\ UNCHANGED <<shift_active, file, exists, status, buffered>>

(***************************************************************************)
(* browser_bookmark_current.  A file that is missing or cannot be read     *)
(* counts as an empty one.                                                 *)
(***************************************************************************)
EndsLine(f) == f = <<>> \/ f[Len(f)] = "LF"

Read(failed) ==
  IF failed \/ ~exists THEN <<>>
  ELSE SubSeq(file, 1, IF Len(file) < BUF - 2 THEN Len(file) ELSE BUF - 2)

RoomForBookmark(r) == Len(r) + Len(current_url) + 2 < BUF

WithBookmark_Mut(r) == r \o current_url \o <<"LF">>

WithBookmark(r) ==
  r \o (IF EndsLine(r) THEN <<>> ELSE <<"LF">>) \o current_url \o <<"LF">>

Bookmark ==
  /\ current_url # <<>>
  /\ \E failed \in {FALSE} \cup {f \in {TRUE} : "read_error" \in ReadFaults} :
       LET r == Read(failed)
       IN  IF RoomForBookmark(r)
           THEN /\ buffered' = Len(WithBookmark(r)) + 1
                /\ \/ /\ file' = WithBookmark(r) /\ exists' = TRUE
                      /\ status' = "Bookmarked!"
                   \/ /\ status' = "Bookmark write err"       \* fs_write_file fails
                      /\ UNCHANGED <<file, exists>>
           ELSE /\ status' = "Bookmarks full"
                /\ UNCHANGED <<file, exists, buffered>>
  /\ UNCHANGED <<current_url, shift_active>>

BookmarkNothing ==
  /\ current_url = <<>>
  /\ status' = "URL is empty"
  /\ UNCHANGED <<current_url, shift_active, file, exists, buffered>>

MarksNext ==
  \/ \E pressed \in BOOLEAN : Shift(pressed)
  \/ TypeKey
  \/ Backspace
  \/ Bookmark
  \/ BookmarkNothing

MarksSpec == MarksInit /\ [][MarksNext]_marksVars

-----------------------------------------------------------------------------
(***************************************************************************)
(* Properties.                                                             *)
(***************************************************************************)
\* The address bar keeps room for its terminating NUL.
MarksTypeOK ==
  /\ current_url \in Seq({"a", "A"}) /\ Len(current_url) <= URL_MAX_LEN - 1
  /\ shift_active \in BOOLEAN /\ exists \in BOOLEAN
  /\ file \in Seq({"a", "A", "LF"}) /\ Len(file) < BUF
  /\ status \in {"Ready", "Bookmarked!", "Bookmark write err", "Bookmarks full",
                 "URL is empty"}

\* The bookmark with its newlines and its NUL fits the buffer at every length
\* of the file and of the URL, the newline that is put between them included.
BufferSuffices == buffered <= BUF

\* As long as the file can be read, a bookmark is added behind the earlier
\* ones, on a line of its own, and never changes them.
AddsALine ==
  file' # file =>
    /\ SubSeq(file', 1, Len(file)) = file
    /\ LET added == SubSeq(file', Len(file) + 1, Len(file'))
           line  == current_url \o <<"LF">>
       IN  added = IF EndsLine(file) THEN line ELSE <<"LF">> \o line

\* A bookmark fits, and the earlier ones stay.
BookmarksSound == [](MarksTypeOK /\ BufferSuffices) /\ [][AddsALine]_marksVars
=============================================================================
