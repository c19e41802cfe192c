------------------------------ MODULE NotesApp ------------------------------
(***************************************************************************)
(* The text editor (apps/notes.c): the text buffer with its NUL and its    *)
(* length, OPEN, SAVE and CLEAR, typing, and the lines that are drawn; and *)
(* the .TXT file clicked in the FILES window (kernel/desktop.c).  A file   *)
(* is a sequence of characters, read a sector at a time, and a read may    *)
(* fail at any sector.                                                     *)
(***************************************************************************)
EXTENDS Integers, Sequences

CONSTANTS NOTES_MAX_SIZE,  \* 4096
          LINE_MAX,        \* 30: characters of a drawn line
          SECTOR,          \* 512
          Other,           \* the contents of another text file of the disk
          Faults           \* a subset of {"read_error", "write_error"}

ASSUME NotesAssumption ==
  /\ NOTES_MAX_SIZE \in Nat /\ NOTES_MAX_SIZE > 3
  /\ LINE_MAX \in Nat \ {0} /\ SECTOR \in Nat \ {0}
  /\ Other \in Seq({"a", "z", "LF", "NUL"})

VARIABLES notes_text, notes_text_len, notes_status, notes_file,
          torn    \* history variable: an OPEN that failed has left a part of the file

notesVars == <<notes_text, notes_text_len, notes_status, notes_file, torn>>

Absent == <<"absent">>

\* The address of a character of the buffer counts from 0.
Buffer == [0 .. NOTES_MAX_SIZE - 1 -> {"a", "z", "LF", "NUL"}]
Text == [i \in 1 .. notes_text_len |-> notes_text[i - 1]]

NotesInit ==
  /\ notes_text = [i \in 0 .. NOTES_MAX_SIZE - 1 |-> "NUL"]
  /\ notes_text_len = 0 /\ notes_status = "none"
  /\ notes_file \in {Absent, <<>>, <<"a", "LF", "z">>} /\ torn = FALSE

(***************************************************************************)
(* fs_read_file and fat12_read_file: as many bytes as fit, or a failure    *)
(* after some whole sectors have been copied.                              *)
(***************************************************************************)
Least(a, b) == IF a < b THEN a ELSE b

Copied(f, n) == [i \in DOMAIN notes_text |-> IF i < n THEN f[i + 1] ELSE notes_text[i]]

Terminated(buf, n) == [buf EXCEPT ![n] = "NUL"]

Reads(f) == Least(Len(f), NOTES_MAX_SIZE - 1)

ReadFailures(f) ==
  IF f = Absent THEN {0}
  ELSE IF "read_error" \in Faults THEN {n \in 0 .. Reads(f) - 1 : n % SECTOR = 0} ELSE {}

Opened(f) ==
  /\ f # Absent
  /\ notes_text' = Terminated(Copied(f, Reads(f)), Reads(f))
  /\ notes_text_len' = Reads(f) /\ torn' = FALSE

notes_open ==
  /\ \/ Opened(notes_file) /\ notes_status' = "Loaded successfully"
     \/ \E n \in ReadFailures(notes_file) :
          /\ notes_text' = Copied(notes_file, n)
          /\ notes_status' = "No note found" /\ torn' = (torn \/ n # 0)
          /\ UNCHANGED notes_text_len
  /\ UNCHANGED notes_file

\* A click on another text file: the status stays, and so does the file that
\* SAVE writes.
OpenOther ==
  /\ \/ Opened(Other)
     \/ \E n \in ReadFailures(Other) :
          /\ notes_text' = [Copied(Other, n) EXCEPT ![0] = "NUL"]
          /\ notes_text_len' = 0 /\ torn' = FALSE
  /\ UNCHANGED <<notes_status, notes_file>>

\* fs_write_file stops at the sector it cannot write: the earlier ones are
\* new, and the size in the directory is still the old one.  A file that was not
\* there has been created, with no size, unless that is what failed.
notes_save ==
  /\ \/ notes_file' = Text /\ notes_status' = "Saved successfully"
     \/ /\ "write_error" \in Faults
        /\ notes_status' = "Save failed"
        /\ \E n \in 0 .. notes_text_len :
             /\ n % SECTOR = 0
             /\ notes_file' \in IF notes_file = Absent THEN {Absent, <<>>}
                                ELSE {[i \in DOMAIN notes_file |->
                                         IF i <= n THEN Text[i] ELSE notes_file[i]]}
  /\ UNCHANGED <<notes_text, notes_text_len, torn>>

notes_clear ==
  /\ notes_text' = [notes_text EXCEPT ![0] = "NUL"]
  /\ notes_text_len' = 0 /\ notes_status' = "none" /\ torn' = FALSE
  /\ UNCHANGED notes_file

(***************************************************************************)
(* notes_handle_key.  Every key that is pressed clears the status.         *)
(***************************************************************************)
HasRoom_Mut == notes_text_len < NOTES_MAX_SIZE

HasRoom == notes_text_len < NOTES_MAX_SIZE - 2

Insert(c) ==
  /\ HasRoom
  /\ notes_text' = [notes_text EXCEPT ![notes_text_len] = c, ![notes_text_len + 1] = "NUL"]
  /\ notes_text_len' = notes_text_len + 1 /\ torn' = FALSE

Erase ==
  /\ notes_text_len > 0
  /\ notes_text_len' = notes_text_len - 1
  /\ notes_text' = [notes_text EXCEPT ![notes_text_len - 1] = "NUL"]
  /\ torn' = FALSE

notes_handle_key ==
  /\ notes_status' = "none"
  /\ \/ \E c \in {"a", "LF"} : Insert(c)
     \/ Erase
     \/ UNCHANGED <<notes_text, notes_text_len, torn>>    \* no room, nothing to erase, or another key
  /\ UNCHANGED notes_file

NotesNext == notes_open \/ OpenOther \/ notes_save \/ notes_clear \/ notes_handle_key

NotesSpec == NotesInit /\ [][NotesNext]_notesVars

(***************************************************************************)
(* draw_notes_content: a line ends at a newline, at the NUL, or when it is *)
(* full; the character it ends at belongs to no line.                      *)
(***************************************************************************)
LineFull(line) == Len(line) >= LINE_MAX

DrawStep(s, c) ==
  IF s.ended THEN s
  ELSE IF c \in {"LF", "NUL"} \/ LineFull(s.line)
  THEN [lines |-> Append(s.lines, s.line), line |-> <<>>, ended |-> c = "NUL"]
  ELSE [s EXCEPT !.line = Append(@, c)]

\* The lines and the line begun, after so many of the characters.
Drawing ==
  LET seen[i \in 0 .. notes_text_len + 1] ==
        IF i = 0 THEN [lines |-> <<>>, line |-> <<>>, ended |-> FALSE]
        ELSE DrawStep(seen[i - 1], notes_text[i - 1])
  IN  seen

Drawn == Drawing[notes_text_len + 1].lines

-----------------------------------------------------------------------------
NotesTypeOK ==
  /\ notes_text \in Buffer /\ notes_text_len \in 0 .. NOTES_MAX_SIZE - 1
  /\ notes_status \in {"none", "Loaded successfully", "No note found", "Saved successfully", "Save failed"}
  /\ notes_file \in Seq({"a", "z", "LF", "NUL"}) \cup {Absent}
  /\ torn \in BOOLEAN

\* Whatever is typed, opened or loaded from other files before a SAVE, an OPEN
\* finds a file it can hold: nothing that was saved is cut off.
SavedFits == notes_file # Absent => Len(notes_file) < NOTES_MAX_SIZE

\* The text ends at its length: the drawing stops where SAVE stops, though the
\* buffer still holds longer texts' rests.
TextEnds == notes_text[notes_text_len] = "NUL"

\* The text a reader sees, up to its first NUL.
NulAt ==
  CHOOSE e \in 0 .. notes_text_len :
    notes_text[e] = "NUL" /\ \A k \in 0 .. e - 1 : notes_text[k] # "NUL"

\* The lines and, of each, the character it ended at, one behind the other:
\* line i begins at From[i - 1] and From[i] is behind it.
From ==
  LET from[i \in 0 .. Len(Drawn)] ==
        IF i = 0 THEN 0 ELSE from[i - 1] + Len(Drawn[i]) + 1
  IN  from

\* No line is longer than the 40 bytes of line_buf allow, and the lines are
\* the text: of each line only the character it ends at is lost, which is a
\* newline, or any other where the line is full, or the NUL.
LinesAreTheText ==
  /\ \A i \in 1 .. Len(Drawn) :
       /\ Len(Drawn[i]) <= LINE_MAX
       /\ \A j \in 1 .. Len(Drawn[i]) :
            Drawn[i][j] = notes_text[From[i - 1] + j - 1] /\ Drawn[i][j] # "LF"
       /\ i < Len(Drawn) => notes_text[From[i] - 1] = "LF" \/ LineFull(Drawn[i])
  /\ From[Len(Drawn)] = NulAt + 1

\* What the editor promises of its buffer and its file, whatever is drawn: the
\* text ends unless an OPEN that failed has torn it and nothing was typed since.
TextIsKept == NotesTypeOK /\ SavedFits /\ (~torn => TextEnds)

\* What is saved can be opened, and what is drawn and saved is the text.
NotesSound == TextIsKept /\ (TextEnds => LinesAreTheText)

=============================================================================
