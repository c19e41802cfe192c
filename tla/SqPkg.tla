------------------------------- MODULE SqPkg -------------------------------
(***************************************************************************)
(* The package manager (kernel/sqpkg.c): the cached package database, and  *)
(* the commands that fetch it, search it, install a package and remove it. *)
(* A command goes from one call that may fail to the next; no other runs   *)
(* before it ends.  `list` only prints the directory and is left out.      *)
(*                                                                         *)
(* A line of the database is the name of a package.  Of an archive there   *)
(* is its length and where a file's header lies in it, with the size field *)
(* whatever that says.  download_file is module HttpClient's subject: it   *)
(* returns a prefix of what the server sent, also if the buffer is full.   *)
(***************************************************************************)
EXTENDS Integers, Sequences, SequencesExt

CONSTANTS Packages,      \* names of packages
          Elf,           \* package -> the name of its .ELF file
          Repository,    \* the server's database: a sequence of names
          Archives,      \* package -> [length, headers]; headers is
                         \* position -> [name, size]
          HEADER,        \* 40: magic, size and name
          Wrap,          \* 2^32, the width of cursor and fsize
          PkgFaults      \* a subset of {"memory", "network", "cut", "disk"}

\* Archives are far shorter than 2^32, their size fields need not be.
ASSUME SqPkgAssumption ==
  /\ Repository \in Seq(Packages) /\ HEADER \in Nat \ {0} /\ Wrap \in Nat \ {0}
  /\ \A p \in Packages :
        /\ Archives[p].length \in Nat /\ Archives[p].length + HEADER < Wrap
        /\ \A c \in DOMAIN Archives[p].headers :
              Archives[p].headers[c].size \in 0 .. Wrap - 1
  /\ PkgFaults \subseteq {"memory", "network", "cut", "disk"}

VARIABLES database,    \* PACKAGES.TXT, or NoDatabase
          files,       \* the files installed: name -> which bytes of how much of
                       \* an archive: [start, size, received]
          command,     \* how far sqpkg_execute is, or "idle"
          package,     \* the package being installed
          lines,       \* update: the text received
          pkg_size, cursor, unpacked,   \* the unpacking loop; unpacked is
                       \* whether files_unpacked is more than zero
          live,        \* buffers kmalloc gave that were not freed
          said         \* the message the last command ended with

unpacking == <<package, pkg_size, cursor, unpacked>>
pkgVars == <<database, files, command, lines, unpacking, live, said>>

NoDatabase == [lines |-> <<>>, ended |-> FALSE, there |-> FALSE]

PkgInit ==
  /\ database = NoDatabase /\ lines = NoDatabase /\ files = << >>
  /\ command = "idle" /\ live = {} /\ said = ""
  /\ package \in Packages /\ pkg_size = 0 /\ cursor = 0 /\ unpacked = FALSE

\* A command comes to its end, or to one of its early returns.
Returns(message, freed) ==
  /\ command' = "idle" /\ said' = message /\ live' = live \ freed

Goes(to, allocated, freed) ==
  /\ command' = to /\ live' = (live \cup allocated) \ freed /\ UNCHANGED said

\* Every command but remove starts with a buffer for the database.
Starts(c) ==
  /\ command = "idle"
  /\ \/ "memory" \in PkgFaults /\ Returns("Out of memory", {})
     \/ Goes(c, {"db_buf"}, {})
  /\ UNCHANGED <<database, files, lines, unpacking>>

(***************************************************************************)
(* sqpkg update.  The server's text may be cut anywhere; with its last     *)
(* line cut off whole, or left without its newline.                        *)
(***************************************************************************)
Downloads ==
  {[lines |-> SubSeq(Repository, 1, n), ended |-> e, there |-> TRUE] :
     n \in (IF "cut" \in PkgFaults THEN 1 ELSE Len(Repository)) .. Len(Repository),
     e \in BOOLEAN}

UpdateDownloads ==
  /\ command = "update"
  /\ \/ /\ "network" \in PkgFaults
        /\ Returns("Failed to download database", {"db_buf"})
        /\ UNCHANGED lines
     \/ /\ lines' \in Downloads
        /\ Goes("save", {}, {})
  /\ UNCHANGED <<database, files, unpacking>>

UpdateSaves ==
  /\ command = "save"
  /\ \/ /\ database' = lines
        /\ Returns("Repository database updated!", {"db_buf"})
     \/ /\ "disk" \in PkgFaults
        /\ Returns("Failed to save PACKAGES.TXT", {"db_buf"})
        /\ UNCHANGED database
  /\ lines' = NoDatabase
  /\ UNCHANGED <<files, unpacking>>

(***************************************************************************)
(* The scan of the database: a line counts when a newline ends it.         *)
(***************************************************************************)
Offered ==
  ToSet(IF database.ended \/ database.lines = <<>> THEN database.lines
        ELSE Front(database.lines))

CannotRead == ~database.there \/ "disk" \in PkgFaults

\* sqpkg search <query>: the query is taken as a set of names it is part of.
SearchScans(query) ==
  /\ command = "search"
  /\ \/ /\ CannotRead
        /\ Returns("No database found. Run sqpkg update.", {"db_buf"})
     \/ /\ database.there
        /\ Returns(IF Offered \cap query = {} THEN "No packages match query" ELSE "",
                   {"db_buf"})
  /\ UNCHANGED <<database, files, lines, unpacking>>

(***************************************************************************)
(* sqpkg install <package>                                                 *)
(***************************************************************************)
InstallScans(p) ==
  /\ command = "install"
  /\ \/ /\ CannotRead
        /\ Returns("No database. Run sqpkg update", {"db_buf"})
     \/ /\ database.there /\ p \notin Offered
        /\ Returns("Package not found in repo", {"db_buf"})
     \/ /\ database.there /\ p \in Offered
        /\ Goes("allocate", {}, {"db_buf"})
  /\ package' = IF command' = "allocate" THEN p ELSE package
  /\ UNCHANGED <<database, files, lines, pkg_size, cursor, unpacked>>

InstallAllocates ==
  /\ command = "allocate"
  /\ \/ "memory" \in PkgFaults /\ Returns("Out of memory", {})
     \/ Goes("download", {"pkg_buf"}, {})
  /\ UNCHANGED <<database, files, lines, unpacking>>

Archive == Archives[package]

InstallDownloads ==
  /\ command = "download"
  /\ \/ /\ "network" \in PkgFaults \/ Archive.length = 0
        /\ Returns("Download failed!", {"pkg_buf"})
        /\ UNCHANGED <<pkg_size, cursor, unpacked>>
     \/ /\ pkg_size' \in 1 .. Archive.length
        /\ "cut" \notin PkgFaults => pkg_size' = Archive.length
        /\ cursor' = 0 /\ unpacked' = FALSE
        /\ Goes("unpack", {}, {})
  /\ UNCHANGED <<database, files, lines, package>>

\* The cursor behind the header it is at, and the file the header is of.
Behind == (cursor + HEADER) % Wrap
Header == Archive.headers[cursor]
AtHeader == Behind <= pkg_size /\ cursor \in DOMAIN Archive.headers

Truncated_Mut == FALSE

\* The file is not there to its end.
Truncated == (Behind + Header.size) % Wrap > pkg_size

\* One turn of the loop; that the write may fail is not looked at.
UnpackFile ==
  /\ command = "unpack" /\ AtHeader /\ ~Truncated
  /\ \/ files' = [f \in DOMAIN files \cup {Header.name} |->
                    IF f = Header.name
                    THEN [start |-> Behind, size |-> Header.size, received |-> pkg_size]
                    ELSE files[f]]
     \/ "disk" \in PkgFaults /\ UNCHANGED files
  /\ cursor' = (Behind + Header.size) % Wrap
  /\ unpacked' = TRUE
  /\ UNCHANGED <<database, command, lines, package, pkg_size, live, said>>

\* What the next command finds in the loop's variables is of no account.
UnpackEnds ==
  /\ command = "unpack" /\ (AtHeader => Truncated)
  /\ Returns(IF unpacked THEN "Installation complete!" ELSE "Failed to unpack archive.",
             {"pkg_buf"})
  /\ pkg_size' = 0 /\ cursor' = 0 /\ unpacked' = FALSE
  /\ UNCHANGED <<database, files, lines, package>>

(***************************************************************************)
(* sqpkg remove <package> deletes the package's .ELF file, and no other.   *)
(***************************************************************************)
RemovePackage(p) ==
  /\ command = "idle"
  /\ \/ /\ Elf[p] \in DOMAIN files
        /\ files' = [f \in DOMAIN files \ {Elf[p]} |-> files[f]]
        /\ Returns("Package removed successfully.", {})
     \/ /\ Elf[p] \notin DOMAIN files \/ "disk" \in PkgFaults
        /\ Returns("Package not found / failed to remove.", {})
        /\ UNCHANGED files
  /\ UNCHANGED <<database, lines, unpacking>>

PkgNext ==
  \/ \E c \in {"update", "search", "install"} : Starts(c)
  \/ UpdateDownloads \/ UpdateSaves
  \/ \E query \in SUBSET Packages : SearchScans(query)
  \/ \E p \in Packages : InstallScans(p) \/ RemovePackage(p)
  \/ InstallAllocates \/ InstallDownloads \/ UnpackFile \/ UnpackEnds

PkgSpec == PkgInit /\ [][PkgNext]_pkgVars

-----------------------------------------------------------------------------
(***************************************************************************)
(* Properties.                                                             *)
(***************************************************************************)
\* No size field of an archive reaches around 2^32.
WellPacked ==
  \A p \in Packages : \A c \in DOMAIN Archives[p].headers :
     c + HEADER + Archives[p].headers[c].size < Wrap

\* However a command ends, at whichever of its early returns, it has freed
\* every buffer it allocated; and it never holds two.
NothingLeaks ==
  /\ command = "idle" => live = {}
  /\ \A a, b \in live : a = b

\* An archive that was cut off on the way, at any byte, gives whole files only:
\* a file whose data did not arrive is not written.
FilesAreWhole ==
  \A f \in DOMAIN files : files[f].start + files[f].size <= files[f].received

\* What the loop takes for a header or for data was received: the rest of the
\* buffer is what the heap held before.
ReadsWhatArrived == command = "unpack" => cursor <= pkg_size

\* A command, however it ends, leaves no buffer and no half of a file.
SqPkgSound == NothingLeaks /\ FilesAreWhole /\ ReadsWhatArrived
=============================================================================
