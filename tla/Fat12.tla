------------------------------- MODULE Fat12 -------------------------------
(***************************************************************************)
(* fs/fat12.c: the root directory and the data sectors of the disk, and    *)
(* the calls that create, write, read and delete files, with the disk      *)
(* requests they make.  The driver keeps nothing but the boot sector in    *)
(* memory, does not use the FATs, and takes the sectors of a file to be    *)
(* contiguous from its first cluster on.                                   *)
(*                                                                         *)
(* A write is several requests, and a power failure, an error or a request *)
(* that is lost (DRQ never comes, and disk_write_sector reports success)   *)
(* may come at each of them.  A request changes a whole sector or nothing. *)
(* Sizes are counted in sectors; names are already in their 8.3 form.      *)
(***************************************************************************)
EXTENDS Integers, Sequences, FiniteSets

CONSTANTS
    Shipped,            \* the directory embed_apps.py writes: a sequence of
                        \* [name, cluster, size]
    NewNames,           \* names that calls may use besides
    RootEntries,        \* 64
    EntriesPerSector,   \* 16
    FAT12_MAX_FILES,    \* 16
    LastCluster,        \* the last sector of the disk
    MaxSize, MaxWrites, \* bounds: on the size of a file and on the writes
    DiskFaults              \* of "crash", "error", "list_error", "lost"

Names == NewNames \union {Shipped[i].name : i \in DOMAIN Shipped}
Slots == 1 .. RootEntries
Clusters == 2 .. LastCluster
Covers(f, c) == c >= f.cluster /\ c < f.cluster + f.size

Files == [name : Names, cluster : Clusters, size : 0 .. MaxSize]

\* What embed_apps.py puts on the disk: files one behind the other, from
\* cluster 2 on, under names of their own.
ASSUME FatAssumption ==
    /\ RootEntries \in Nat /\ EntriesPerSector \in Nat \ {0}
    /\ LastCluster \in Nat /\ 3 \in Clusters
    /\ MaxSize \in Nat /\ MaxWrites \in Nat /\ FAT12_MAX_FILES \in Nat
    /\ DiskFaults \subseteq {"crash", "error", "list_error", "lost"}
    /\ {"empty", "deleted"} \intersect Names = {}
    /\ Shipped \in Seq(Files) /\ Len(Shipped) <= RootEntries
    /\ \A i \in DOMAIN Shipped :
          /\ Shipped[i].cluster + Shipped[i].size <= LastCluster + 1
          /\ \A j \in DOMAIN Shipped \ {i} :
                /\ Shipped[i].name # Shipped[j].name
                /\ \A c \in Clusters : ~(Covers(Shipped[i], c) /\ Covers(Shipped[j], c))

Empty == [name |-> "empty", cluster |-> 0, size |-> 0]

VARIABLES
    root,       \* the directory: Empty, "deleted" or a file in every slot
    data,       \* what each sector has: <<name, version, k>>, the k-th
                \* sector of that version, or <<>>
    call,       \* the write under way, or [pc |-> "idle"]
    versions,   \* how many writes have been called
    expected,   \* history: of each file the version and size that a read must
                \* find, or <<>> when nothing is promised
    missed      \* history: the files that a write has not found although they
                \* are there

fatVars == <<root, data, call, versions, expected, missed>>

Idle == [pc |-> "idle"]

Used(s) == root[s].name \in Names
SlotsOf(n) == {s \in Slots : root[s].name = n}

Calls == [pc : {"create", "data", "size"}, name : Names, version : 1 .. MaxWrites,
          size : 0 .. MaxSize, cluster : Clusters, written : 0 .. MaxSize]

FatTypeOK ==
    /\ root \in [Slots -> [name : Names \union {"empty", "deleted"},
                           cluster : {0} \union Clusters, size : 0 .. MaxSize]]
    /\ data \in [Clusters -> {<<>>} \union (Names \X (0 .. MaxWrites) \X (0 .. MaxSize))]
    /\ call \in {Idle} \union Calls
    /\ versions \in 0 .. MaxWrites
    /\ expected \in [Names -> {<<>>} \union ((0 .. MaxWrites) \X (0 .. MaxSize))]
    /\ missed \subseteq Names

FatInit ==
    /\ root = [s \in Slots |-> IF s <= Len(Shipped) THEN Shipped[s] ELSE Empty]
    /\ data = [c \in Clusters |->
                  IF \E s \in Slots : Used(s) /\ Covers(root[s], c)
                  THEN LET s == CHOOSE s \in Slots : Used(s) /\ Covers(root[s], c)
                       IN <<root[s].name, 0, c - root[s].cluster>>
                  ELSE <<>>]
    /\ call = Idle /\ versions = 0 /\ missed = {}
    /\ expected = [n \in Names |-> IF SlotsOf(n) = {} THEN <<>>
                                   ELSE <<0, Shipped[CHOOSE s \in SlotsOf(n) : TRUE].size>>]

-----------------------------------------------------------------------------
(* Searching. *)

\* The files fat12_list_root returns of the first n slots: it stops at the
\* first empty one, and after FAT12_MAX_FILES files.
Listed(n) ==
    {s \in 1 .. n :
        /\ Used(s)
        /\ \A t \in 1 .. s : root[t] # Empty
        /\ Cardinality({t \in 1 .. s : Used(t)}) <= FAT12_MAX_FILES}

\* How many slots a listing reads: all, unless reading a sector fails, which
\* fat12_list_root does not report.
Readable ==
    {RootEntries} \union
    IF "list_error" \in DiskFaults
    THEN {n \in 0 .. RootEntries : n % EntriesPerSector = 0} ELSE {}

First(S) == CHOOSE s \in S : \A t \in S : s <= t

\* fat12_find_file and fat12_read_file: what a read of n returns, the sectors
\* from the first cluster of the first listed entry of that name.
Found(n, readable) == Listed(readable) \intersect SlotsOf(n)
Contents(n) ==
    IF Found(n, RootEntries) = {} THEN <<>>
    ELSE LET f == root[First(Found(n, RootEntries))]
         IN [k \in 1 .. f.size |-> data[f.cluster + k - 1]]

Version(n, v, size) == [k \in 1 .. size |-> <<n, v, k - 1>>]

-----------------------------------------------------------------------------
(* disk_write_sector: what a request may come to. *)

Outcomes == {"ok"} \union (DiskFaults \intersect {"error", "lost"})

\* A request that changes the directory with ok, and the call goes on as next.
DirectoryRequest(changed, next) ==
    \E o \in Outcomes :
        /\ root' = IF o = "ok" THEN changed ELSE root
        /\ call' = IF o = "error" THEN Idle ELSE next
        /\ expected' = IF o = "error" /\ call.pc = "size"
                       THEN [expected EXCEPT ![call.name] = <<>>]
                       ELSE IF next = Idle /\ call.pc = "size"
                       THEN [expected EXCEPT ![call.name] = <<call.version, call.size>>]
                       ELSE expected

-----------------------------------------------------------------------------
(* fs_write_file(name, buffer, size) *)

DefaultCluster == 3

\* The file is looked for: its cluster is used, or it is created.  It is not
\* found, although it is there, behind the first FAT12_MAX_FILES files and in
\* or behind a sector that cannot be read: then cluster 3 is written, which is
\* not where the file is, and the call may report success.
WriteBegins(n, size) ==
    /\ call.pc = "idle" /\ versions < MaxWrites
    /\ versions' = versions + 1
    /\ \E readable \in Readable :
           LET found == Found(n, readable)
           IN /\ call' = [pc      |-> IF found = {} THEN "create" ELSE "data",
                          name    |-> n, version |-> versions + 1, size |-> size,
                          cluster |-> IF found = {} THEN DefaultCluster
                                      ELSE root[First(found)].cluster,
                          written |-> 0]
              /\ missed' = IF found = {} /\ SlotsOf(n) # {} THEN missed \union {n}
                           ELSE missed
    /\ expected' = [expected EXCEPT ![n] = <<>>]
    /\ UNCHANGED <<root, data>>

\* fs_create_file looks for it again, and takes the first slot that is free.
fs_create_file ==
    /\ call.pc = "create"
    /\ \E readable \in Readable :
           LET free == {s \in Slots : ~Used(s)}
           IN IF Found(call.name, readable) # {}
              THEN /\ call' = [call EXCEPT !.pc = "data"]
                   /\ UNCHANGED <<root, expected>>
              ELSE IF free = {}
              THEN call' = Idle /\ UNCHANGED <<root, expected>>
              ELSE DirectoryRequest(
                       [root EXCEPT ![First(free)] = [name |-> call.name, size |-> 0,
                                                      cluster |-> call.cluster]],
                       [call EXCEPT !.pc = "data"])
    /\ UNCHANGED <<data, versions, missed>>

\* Files other than the one that is written, and have sector c.
Victims(c) ==
    {n \in Names \ {call.name} : \E s \in SlotsOf(n) : Covers(root[s], c)}

\* One sector of the data.  There is no test for the end of the disk, but the
\* disk refuses what is beyond it.
WriteSector ==
    /\ call.pc = "data" /\ call.written < call.size
    /\ LET c == call.cluster + call.written
           next == [call EXCEPT !.written = call.written + 1]
       IN \E o \in IF c \in Clusters THEN Outcomes ELSE {"error"} :
              /\ data' = IF o = "ok" THEN [data EXCEPT ![c] = <<call.name, call.version, call.written>>]
                         ELSE data
              /\ call' = IF o = "error" THEN Idle ELSE next
              /\ expected' = [n \in Names |-> IF n \in Victims(c) THEN <<>> ELSE expected[n]]
    /\ UNCHANGED <<root, versions, missed>>

DataWritten_Mut ==
    /\ call.pc = "data"
    /\ call' = [call EXCEPT !.pc = "size"]
    /\ UNCHANGED <<root, data, versions, expected, missed>>

DataWritten ==
    /\ call.pc = "data" /\ call.written = call.size
    /\ call' = [call EXCEPT !.pc = "size"]
    /\ UNCHANGED <<root, data, versions, expected, missed>>

\* The size goes into the first entry of that name, listed or not.
WriteSize ==
    /\ call.pc = "size"
    /\ IF SlotsOf(call.name) = {}
       THEN call' = Idle /\ UNCHANGED <<root, expected>>
       ELSE DirectoryRequest([root EXCEPT ![First(SlotsOf(call.name))].size = call.size], Idle)
    /\ UNCHANGED <<data, versions, missed>>

-----------------------------------------------------------------------------
(* fs_delete_file(name), and the power. *)

SectorOf(s) == (s - 1) \div EntriesPerSector

\* In the first sector that has the name every entry of that name goes; -1 is
\* returned when there is none.
fs_delete_file(n) ==
    /\ call.pc = "idle"
    /\ IF SlotsOf(n) = {} THEN UNCHANGED <<root, call, expected>> ELSE
       LET sector == SectorOf(First(SlotsOf(n)))
           gone == {s \in SlotsOf(n) : SectorOf(s) = sector}
       IN DirectoryRequest([s \in Slots |-> IF s \in gone THEN [root[s] EXCEPT !.name = "deleted"]
                                            ELSE root[s]], Idle)
    /\ UNCHANGED <<data, versions, missed>>

PowerFails ==
    /\ "crash" \in DiskFaults
    /\ call # Idle
    /\ call' = Idle
    /\ UNCHANGED <<root, data, versions, expected, missed>>

FatNext ==
    \/ \E n \in Names, size \in 0 .. MaxSize : WriteBegins(n, size)
    \/ fs_create_file \/ WriteSector \/ DataWritten \/ WriteSize
    \/ \E n \in Names : fs_delete_file(n)
    \/ PowerFails

FatSpec == FatInit /\ [][FatNext]_fatVars

-----------------------------------------------------------------------------
(* Properties. *)

\* No two entries have the same name, except that of a file a write has not
\* found: a call looks for the file before it creates it.
NamesUnique == \A n \in Names \ missed : Cardinality(SlotsOf(n)) <= 1

\* No entry is behind the end of the directory, where fat12_list_root does
\* not look: a deleted entry is marked, not emptied.
NothingBehindEnd == \A s, t \in Slots : s < t /\ root[s] = Empty => root[t] = Empty

\* The size of a file never takes in a sector that no write has put there,
\* also after a power failure or an error in the middle of a write: the data
\* are written before the size.  A write that did not find its file puts the
\* data elsewhere, and its size into the entry that is there all the same.
SizeCoversWritten ==
    \A s \in Slots : Used(s) /\ root[s].name \notin missed =>
        \A c \in Clusters : Covers(root[s], c) => data[c] # <<>>

\* A read finds what the last write of the file wrote, if that write reported
\* success, no other file has been written over it since, and no write has
\* failed to find the file.
ReadsBack ==
    \A n \in Names \ missed :
        expected[n] # <<>> /\ Found(n, RootEntries) # {}
            => Contents(n) = Version(n, expected[n][1], expected[n][2])

\* The directory and the data agree, whatever request fails in the middle of
\* a write, for every file that the writes found when they looked for it.
Fat12Sound ==
    FatTypeOK /\ NamesUnique /\ NothingBehindEnd /\ SizeCoversWritten /\ ReadsBack

\* Writing or deleting a file leaves what a read of the others finds: the
\* header says of fs_write_file that it overwrites "a file's contents".  A new
\* file begins at cluster 3 whatever is there, and a file that grows runs into
\* the next one.
OthersUntouched ==
    [][\A n \in Names : call.pc # "idle" /\ n # call.name
           => Contents(n)' = Contents(n)]_fatVars
=============================================================================
