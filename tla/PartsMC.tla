------------------------------ MODULE PartsMC ------------------------------
(***************************************************************************)
(* The parts of the system that share no state with the scheduler or with  *)
(* each other: in the kernel the heap, the text shell, the memory of one   *)
(* user program and the reader of the clock; and what is kept on the disk, *)
(* the file system and the programs that keep files, for which a file is   *)
(* what their calls of fs/fs.h read and write.  A behaviour explores one   *)
(* part, which the initial state chooses, from all of that part's initial  *)
(* states, while the others stay where they are: since no part sees        *)
(* another, interleaving them would show no state of a part that this does *)
(* not.                                                                    *)
(***************************************************************************)
EXTENDS Heap, TextShell, Rtc, UserHeap,
        NotesApp, Fat12, Bookmarks, SqPkg, Screenshot, TLC

VARIABLE chosen     \* the part that is explored

partsVars == <<chosen, vars, shellVars, userVars, clockVars,
               notesVars, fatVars, marksVars, pkgVars, shotVars>>

-----------------------------------------------------------------------------
\* Pages of 16 bytes and tables of 4 pages.
Seg(vaddr, memsz, filesz) == [vaddr |-> vaddr, memsz |-> memsz, filesz |-> filesz]

\* Segments that begin and end inside pages, share a page or a table, have a
\* part without file contents or nothing else, or are not there.
UserPrograms ==
    {<<>>,
     <<Seg(64, 16, 16)>>,
     <<Seg(70, 40, 30), Seg(110, 20, 4)>>,
     <<Seg(72, 6, 6), Seg(78, 60, 0)>>,
     <<Seg(110, 20, 20), Seg(64, 40, 36)>>,
     <<Seg(120, 50, 9)>>}

MCRequests == {0, 1, 13, 41, 60}

\* The other text file of the disk is longer than the buffer.
MCOther == <<"z", "z", "LF", "z", "z", "z", "z">>

\* The disk as embed_apps.py leaves it, with a program of two sectors.
MCShipped == <<[name |-> "HELLO.ELF",  cluster |-> 2, size |-> 2],
               [name |-> "NOTES.TXT",  cluster |-> 4, size |-> 1],
               [name |-> "README.TXT", cluster |-> 5, size |-> 1]>>

\* "chess" has two files, "clock" one; every command with every failure, and
\* archives cut at every byte.
MCArchives ==
    [chess |-> [length |-> 9, headers |-> (0 :> [name |-> "CHESS.ELF", size |-> 3]) @@
                                          (5 :> [name |-> "CHESS.BMP", size |-> 2])],
     clock |-> [length |-> 3, headers |-> 0 :> [name |-> "CLOCK.ELF", size |-> 1]]]

MCRepository == <<"chess", "clock">>
MCElf == [chess |-> "CHESS.ELF", clock |-> "CLOCK.ELF"]

ASSUME WellLinked
ASSUME WellPacked

-----------------------------------------------------------------------------
Parts == {"heap", "shell", "user", "clock",
          "notes", "disk", "bookmarks", "packages", "picture"}

\* What the unexplored parts are pinned to, where their Init leaves a choice.
Pinned ==
    /\ chosen # "user" => phdr = <<>>
    /\ chosen # "clock" => clock = 0
    /\ chosen # "notes" => notes_file = Absent
    /\ chosen # "bookmarks" => file = <<>> /\ exists = FALSE
    /\ package = "chess"
    /\ chosen # "picture" => frame = [r \in 0 .. 2 |-> [c \in 0 .. 1 |-> 1]]

PartsInit ==
    /\ chosen \in Parts /\ Pinned
    /\ Init /\ ShellInit /\ UserInit /\ ClockInit
    /\ NotesInit /\ FatInit /\ MarksInit /\ PkgInit /\ ShotInit

AllBut(p) ==
    /\ chosen = p /\ UNCHANGED chosen
    /\ p # "heap" => UNCHANGED vars
    /\ p # "shell" => UNCHANGED shellVars
    /\ p # "user" => UNCHANGED userVars
    /\ p # "clock" => UNCHANGED clockVars
    /\ p # "notes" => UNCHANGED notesVars
    /\ p # "disk" => UNCHANGED fatVars
    /\ p # "bookmarks" => UNCHANGED marksVars
    /\ p # "packages" => UNCHANGED pkgVars
    /\ p # "picture" => UNCHANGED shotVars

PartsNext ==
    \/ AllBut("heap") /\ Next
    \/ AllBut("shell") /\ ShellNext
    \/ AllBut("user") /\ UserNext
    \/ AllBut("clock") /\ ClockNext
    \/ AllBut("notes") /\ NotesNext
    \/ AllBut("disk") /\ FatNext
    \/ AllBut("bookmarks") /\ MarksNext
    \/ AllBut("packages") /\ PkgNext
    \/ AllBut("picture") /\ ShotNext

PartsSpec == PartsInit /\ [][PartsNext]_partsVars
=============================================================================
