----------------------------- MODULE Screenshot -----------------------------
(***************************************************************************)
(* The terminal's screenshot command (kernel/terminal_app.c): the back     *)
(* buffer goes to the disk as a bitmap, one byte at a time through a stage *)
(* of one sector, which is written to the next sector whenever it is full. *)
(* The sectors are addressed directly; the directory is not touched.       *)
(*                                                                         *)
(* A byte is what it says and which one of those it is: <<"header", i>>,   *)
(* <<"palette", i>>, <<"pixel", colour>> or <<"zero", 0>>.                 *)
(***************************************************************************)
EXTENDS Integers

CONSTANTS STAGE,         \* 512, the bytes of a sector
          HEADERS,       \* 14 + 40 bytes
          PALETTE,       \* 256 * 4 bytes
          Rows, Cols,    \* 200 and 320
          Pixels,        \* the colours
          LastLba,       \* the last sector of the disk
          WriteFaults    \* a subset of {"error"}: a request the disk refuses

ASSUME ScreenshotAssumption ==
  /\ STAGE \in Nat \ {0} /\ HEADERS \in Nat /\ PALETTE \in Nat
  /\ Rows \in Nat \ {0} /\ Cols \in Nat \ {0} /\ LastLba \in Nat
  /\ WriteFaults \subseteq {"error"}

VARIABLES frame,      \* the back buffer: rows of pixels
          disk,       \* the sectors from LBA 1 on
          part,       \* where in the command it is
          emitted,    \* bytes of this part emitted; in "pixels" the column
          row,        \* the row being copied
          stage, bi,  \* bmp_stage and its index
          lba_cur,
          failed,     \* history variable: a request was refused
          last_line   \* the last line of the terminal

shotVars == <<frame, disk, part, emitted, row, stage, bi, lba_cur, failed, last_line>>

FirstLba == 82

Zero == [i \in 0 .. STAGE - 1 |-> <<"zero", 0>>]

ShotInit ==
  /\ frame \in [0 .. Rows - 1 -> [0 .. Cols - 1 -> Pixels]]
  /\ disk = [l \in 1 .. LastLba |-> <<"old", l>>]
  /\ part = "header" /\ emitted = 0 /\ row = Rows - 1
  /\ stage = Zero /\ bi = 0 /\ lba_cur = FirstLba
  /\ failed = FALSE /\ last_line = "Capturing"

\* BMP_FLUSH of a stage: the result of disk_write_sector is not looked at.
Flush(s) ==
  \E refused \in {FALSE} \cup {b \in {TRUE} : "error" \in WriteFaults} :
    /\ disk' = IF refused THEN disk ELSE [disk EXCEPT ![lba_cur] = s]
    /\ failed' = (failed \/ refused)
    /\ lba_cur' = lba_cur + 1
    /\ stage' = Zero
    /\ bi' = 0

BMP_BYTE_Mut(b) ==
  LET s == [stage EXCEPT ![bi] = b]
  IN  IF bi + 1 = STAGE THEN Flush(stage)
      ELSE /\ stage' = s /\ bi' = bi + 1
           /\ UNCHANGED <<disk, lba_cur, failed>>

\* BMP_BYTE: one byte into the stage, which is flushed when it is full.
BMP_BYTE(b) ==
  LET s == [stage EXCEPT ![bi] = b]
  IN  IF bi + 1 = STAGE THEN Flush(s)
      ELSE /\ stage' = s /\ bi' = bi + 1
           /\ UNCHANGED <<disk, lba_cur, failed>>

\* The two headers and the palette.
Emit(this, size, next) ==
  /\ part = this
  /\ IF emitted < size THEN /\ BMP_BYTE(<<this, emitted>>)
                      /\ emitted' = emitted + 1
                      /\ UNCHANGED part
     ELSE /\ part' = next /\ emitted' = 0
          /\ UNCHANGED <<disk, stage, bi, lba_cur, failed>>
  /\ UNCHANGED <<frame, row, last_line>>

\* The rows, the last one first.
Pixel ==
  /\ part = "pixels" /\ row >= 0
  /\ BMP_BYTE(<<"pixel", frame[row][emitted]>>)
  /\ emitted' = IF emitted = Cols - 1 THEN 0 ELSE emitted + 1
  /\ row' = IF emitted = Cols - 1 THEN row - 1 ELSE row
  /\ UNCHANGED <<frame, part, last_line>>

\* What is left in the stage, and the message.
Rest ==
  /\ part = "pixels" /\ row < 0
  /\ IF bi > 0 THEN Flush(stage) ELSE UNCHANGED <<disk, stage, bi, lba_cur, failed>>
  /\ part' = "done"
  /\ last_line' = "Saved"
  /\ UNCHANGED <<frame, emitted, row>>

ShotNext ==
  \/ Emit("header", HEADERS, "palette")
  \/ Emit("palette", PALETTE, "pixels")
  \/ Pixel
  \/ Rest

ShotSpec == ShotInit /\ [][ShotNext]_shotVars

-----------------------------------------------------------------------------
(***************************************************************************)
(* Properties.                                                             *)
(***************************************************************************)
\* The bitmap of a picture, counted from 0: headers, palette, rows from the
\* bottom up, and the zeros that fill its last sector.
Bitmap(picture, i) ==
  LET p == i - HEADERS - PALETTE
  IN  CASE i \in 0 .. HEADERS - 1      -> <<"header", i>>
        [] p \in -PALETTE .. -1        -> <<"palette", i - HEADERS>>
        [] p \in 0 .. Rows * Cols - 1  -> <<"pixel", picture[Rows - 1 - (p \div Cols)][p % Cols]>>
        [] OTHER                       -> <<"zero", 0>>

BitmapSize == HEADERS + PALETTE + Rows * Cols
BitmapSectors == (BitmapSize + STAGE - 1) \div STAGE

\* What belongs into the n-th sector of the bitmap.
BitmapSector(picture, n) == [i \in 0 .. STAGE - 1 |-> Bitmap(picture, n * STAGE + i)]

\* The index stays inside the stage, and at no byte does the disk lag behind
\* or run ahead by more than the stage: what is staged is what follows the
\* sectors written.
StageFollowsDisk ==
  /\ bi \in 0 .. STAGE - 1
  /\ \A i \in 0 .. bi - 1 : stage[i] = BitmapSector(frame, lba_cur - FirstLba)[i]

\* When the command is done and the disk refused nothing, its sectors hold the
\* bitmap, whole, in order, with zeros behind it, and no other sector changed.
DiskHoldsBitmap ==
  (part = "done" /\ ~failed) =>
    \A l \in 1 .. LastLba :
      disk[l] = IF l \in FirstLba .. FirstLba + BitmapSectors - 1
                THEN BitmapSector(frame, l - FirstLba) ELSE <<"old", l>>

\* The picture on the disk is the picture of the screen.
BitmapSound == StageFollowsDisk /\ DiskHoldsBitmap
=============================================================================
