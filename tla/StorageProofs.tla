--------------------------- MODULE StorageProofs ---------------------------
(***************************************************************************)
(* Theorems about what is kept on the disk: the FAT12 volume (module       *)
(* Fat12), the browser's bookmarks (module Bookmarks), the screenshot      *)
(* (module Screenshot), the package manager (module SqPkg) and the text    *)
(* editor (module NotesApp), which modules of their own model and one run  *)
(* checks.                                                                 *)
(***************************************************************************)
EXTENDS NotesApp, Fat12, Bookmarks, Screenshot, SqPkg, Recursion,
        FiniteSetTheorems, FunctionTheorems, SequenceTheorems, TLAPS

-----------------------------------------------------------------------------
(***************************************************************************)
(* The FAT12 volume.  One hypothesis: a request to write a sector is        *)
(* answered, with success or an error (a disk that does not take the data  *)
(* is reported as if it did, which the driver cannot notice).  A power     *)
(* failure may come at any point, and a sector of the directory may not be *)
(* readable: then, or behind the first FAT12_MAX_FILES files, a write may  *)
(* miss its file, and of a file that was missed nothing is promised.       *)
(***************************************************************************)
RequestsAnswered == "lost" \notin DiskFaults

\* The inductive invariant.  It says of each directory entry what TypeOK does
\* not; of each file that a read finds what was last written to it; and of the
\* write under way how far it has come.
OneEntryEach ==
    \A s, t \in Slots :
        Used(s) /\ root[s].name = root[t].name /\ root[s].name \notin missed => s = t

EntriesHaveClusters == \A s \in Slots : Used(s) => root[s].cluster \in Clusters

\* Sectors 0 .. size - 1 from cluster c on have version v of file n.
Holds(c, n, v, size) ==
    \A k \in 0 .. size - 1 : c + k \in Clusters /\ data[c + k] = <<n, v, k>>

Kept ==
    \A n \in Names \ missed : expected[n] # <<>> =>
        \A s \in SlotsOf(n) :
            /\ root[s].size = expected[n][2]
            /\ Holds(root[s].cluster, n, expected[n][1], expected[n][2])

WriteUnderWay ==
    call.pc # "idle" =>
        /\ expected[call.name] = <<>>
        /\ Holds(call.cluster, call.name, call.version, call.written)
        /\ call.written <= call.size
        /\ call.pc = "create" => call.written = 0
        /\ call.pc = "size" => call.written = call.size

\* If the call has found its file, or found that there is none.
FileIsFound ==
    call.pc # "idle" /\ call.name \notin missed =>
        IF call.pc = "create" THEN SlotsOf(call.name) = {}
        ELSE \E s \in SlotsOf(call.name) : root[s].cluster = call.cluster

FatInv ==
    /\ FatTypeOK /\ OneEntryEach /\ EntriesHaveClusters
    /\ NothingBehindEnd /\ SizeCoversWritten /\ Kept /\ WriteUnderWay /\ FileIsFound

\* The first of some slots: there is one.
LEMMA FirstIsLeast ==
  ASSUME NEW S, S \subseteq Slots, S # {}
  PROVE  First(S) \in S /\ \A t \in S : First(S) <= t
<1>1. Slots \subseteq Nat
  BY FatAssumption DEF Slots
<1>2. PICK d \in S : \A e \in S : ~(<<e, d>> \in OpToRel(<, Nat))
  BY <1>1, NatLessThanWellFounded, WFMin
<1>3. \A e \in S : d <= e
  <2> SUFFICES ASSUME NEW e \in S PROVE d <= e
    OBVIOUS
  <2>1. ~(e < d)
    BY <1>1, <1>2 DEF OpToRel
  <2>2. d \in Nat /\ e \in Nat
    BY <1>1
  <2> QED
    BY <2>1, <2>2
<1> QED
  BY <1>3 DEF First

\* What the other proofs use of the constants.
LEMMA FatConstants ==
  /\ RootEntries \in Nat /\ LastCluster \in Nat /\ MaxSize \in Nat /\ MaxWrites \in Nat
  /\ FAT12_MAX_FILES \in Nat /\ 3 \in Clusters
  /\ "empty" \notin Names /\ "deleted" \notin Names
<1>1. {"empty", "deleted"} \intersect Names = {}
  BY FatAssumption
<1>2. "empty" \notin Names /\ "deleted" \notin Names
  BY <1>1
<1>3. RootEntries \in Nat /\ LastCluster \in Nat /\ MaxSize \in Nat /\ MaxWrites \in Nat
  BY FatAssumption
<1>4. FAT12_MAX_FILES \in Nat /\ 3 \in Clusters
  BY FatAssumption
<1> QED
  BY <1>2, <1>3, <1>4

\* A call is one of the records, or there is none.
LEMMA CallIsTyped ==
  ASSUME FatTypeOK
  PROVE  /\ call.pc = "idle" <=> call = Idle
         /\ call.pc # "idle" => call \in Calls
<1>1. Idle.pc = "idle"
  BY DEF Idle
<1>2. ASSUME call \in Calls PROVE call.pc # "idle"
  BY <1>2 DEF Calls
<1> QED
  BY <1>1, <1>2 DEF FatTypeOK

\* The length of a call's parts.
LEMMA CallParts ==
  ASSUME FatTypeOK, call.pc # "idle"
  PROVE  /\ call.name \in Names /\ call.version \in 1 .. MaxWrites
         /\ call.size \in 0 .. MaxSize /\ call.cluster \in Clusters
         /\ call.written \in 0 .. MaxSize /\ call.pc \in {"create", "data", "size"}
BY CallIsTyped DEF Calls

\* What a directory entry is made of.
LEMMA EntryParts ==
  ASSUME FatTypeOK, NEW s \in Slots
  PROVE  /\ root[s].name \in Names \union {"empty", "deleted"}
         /\ root[s].cluster \in {0} \union Clusters /\ root[s].size \in 0 .. MaxSize
         /\ root[s].cluster \in Int /\ root[s].size \in Int
<1> DEFINE e == root[s]
<1>1. e \in [name : Names \union {"empty", "deleted"},
             cluster : {0} \union Clusters, size : 0 .. MaxSize]
  BY DEF FatTypeOK
<1>2. Clusters \subseteq Int
  BY DEF Clusters
<1>3. e.cluster \in {0} \union Clusters
  <2> HIDE DEF e
  <2> QED  BY <1>1
<1>4. e.cluster \in Int
  <2> HIDE DEF e
  <2> QED  BY <1>3 DEF Clusters
<1> QED
  BY <1>1, <1>3, <1>4

\* In the beginning every file has the sectors embed_apps.py gave it, and no
\* other one has them.
LEMMA FatInvInit == FatInit => FatInv
<1> SUFFICES ASSUME FatInit PROVE FatInv
  OBVIOUS
<1> DEFINE Taken == {s \in Slots : s <= Len(Shipped)}
<1>1. /\ DOMAIN Shipped = 1 .. Len(Shipped) /\ Len(Shipped) \in Nat
      /\ \A i \in DOMAIN Shipped : Shipped[i] \in Files
  BY FatAssumption
<1>2. DOMAIN Shipped \subseteq Slots /\ Taken = DOMAIN Shipped
  BY <1>1, FatAssumption DEF Slots
<1>3. \A s \in Slots : IF s \in Taken THEN root[s] = Shipped[s] ELSE root[s] = Empty
  BY DEF FatInit
<1>4. \A s \in Slots : Used(s) <=> s \in Taken
  <2> SUFFICES ASSUME NEW s \in Slots PROVE Used(s) <=> s \in Taken
    OBVIOUS
  <2>1. CASE s \in Taken
    BY <2>1, <1>2, <1>3 DEF Used, Names
  <2>2. CASE s \notin Taken
    BY <2>2, <1>3, FatConstants DEF Used, Empty
  <2> QED
    BY <2>1, <2>2
<1>5. \A s \in Slots : Used(s) => /\ root[s].cluster \in Clusters /\ root[s].name \in Names
                                  /\ root[s].size \in 0 .. MaxSize
                                  /\ root[s].cluster + root[s].size <= LastCluster + 1
  BY <1>1, <1>2, <1>3, <1>4, FatAssumption DEF Files
<1>6. \A s, t \in Slots : Used(s) /\ Used(t) /\ s # t =>
         /\ root[s].name # root[t].name
         /\ \A c \in Clusters : ~(Covers(root[s], c) /\ Covers(root[t], c))
  <2> SUFFICES ASSUME NEW s \in Slots, NEW t \in Slots, Used(s), Used(t), s # t
               PROVE  /\ root[s].name # root[t].name
                      /\ \A c \in Clusters : ~(Covers(root[s], c) /\ Covers(root[t], c))
    OBVIOUS
  <2>1. s \in DOMAIN Shipped /\ t \in DOMAIN Shipped \ {s}
    BY <1>2, <1>4
  <2>2. root[s] = Shipped[s] /\ root[t] = Shipped[t]
    BY <2>1, <1>2, <1>3
  <2> QED
    BY <2>1, <2>2, FatAssumption
<1>7. ASSUME NEW s \in Slots, Used(s), NEW c \in Clusters, Covers(root[s], c)
      PROVE  data[c] = <<root[s].name, 0, c - root[s].cluster>>
  <2>1. \A t \in Slots : Used(t) /\ Covers(root[t], c) => t = s
    BY <1>6, <1>7
  <2>2. data[c] = LET t == CHOOSE t \in Slots : Used(t) /\ Covers(root[t], c)
                  IN  <<root[t].name, 0, c - root[t].cluster>>
    BY <1>7 DEF FatInit
  <2>3. (CHOOSE t \in Slots : Used(t) /\ Covers(root[t], c)) = s
    BY <2>1, <1>7
  <2> QED
    BY <2>2, <2>3
<1>8. ASSUME NEW c \in Clusters, \A s \in Slots : ~(Used(s) /\ Covers(root[s], c))
      PROVE  data[c] = <<>>
  BY <1>8 DEF FatInit
<1>9. ASSUME NEW s \in Slots, Used(s), NEW c \in Clusters, Covers(root[s], c)
      PROVE  c - root[s].cluster \in 0 .. MaxSize
  <2> DEFINE f == root[s].cluster
             z == root[s].size
  <2>1. f \in Int /\ z \in 0 .. MaxSize /\ c \in Int /\ MaxSize \in Nat
    BY <1>5, <1>9, FatConstants DEF Clusters
  <2>2. c >= f /\ c < f + z
    BY <1>9 DEF Covers
  <2> HIDE DEF f, z
  <2>3. c - f \in 0 .. MaxSize
    BY <2>1, <2>2
  <2> QED
    BY <2>3 DEF f
<1>10. \A n \in Names : expected[n] # <<>> =>
          \E s \in Slots : /\ Used(s) /\ root[s].name = n /\ SlotsOf(n) = {s}
                           /\ expected[n] = <<0, root[s].size>>
  <2> SUFFICES ASSUME NEW n \in Names, SlotsOf(n) # {}
               PROVE  \E s \in Slots : /\ Used(s) /\ root[s].name = n /\ SlotsOf(n) = {s}
                                       /\ expected[n] = <<0, root[s].size>>
    BY DEF FatInit
  <2>1. PICK s \in Slots : root[s].name = n
    BY DEF SlotsOf
  <2>2. \A t \in SlotsOf(n) : t = s
    BY <2>1, <1>6 DEF SlotsOf, Used
  <2>3. SlotsOf(n) = {s}
    BY <2>1, <2>2 DEF SlotsOf
  <2>4. (CHOOSE t \in SlotsOf(n) : TRUE) = s
    BY <2>3
  <2>5. expected[n] = <<0, Shipped[s].size>>
    BY <2>4 DEF FatInit
  <2>6. Used(s) /\ Shipped[s] = root[s]
    BY <2>1, <1>3, <1>4 DEF Used
  <2> QED
    BY <2>1, <2>3, <2>5, <2>6
<1>11. FatTypeOK
  <2>1. root \in [Slots -> [name : Names \union {"empty", "deleted"},
                            cluster : {0} \union Clusters, size : 0 .. MaxSize]]
    <3> DEFINE Entries == [name : Names \union {"empty", "deleted"},
                           cluster : {0} \union Clusters, size : 0 .. MaxSize]
    <3>1. Empty \in Entries
      BY FatConstants DEF Empty
    <3>2. Files \subseteq Entries
      BY DEF Files
    <3>3. \A s \in Slots : root[s] \in Entries
      <4> HIDE DEF Entries
      <4> QED  BY <3>1, <3>2, <1>1, <1>2, <1>3
    <3>4. root = [s \in Slots |-> root[s]]
      BY DEF FatInit
    <3> QED
      BY <3>3, <3>4
  <2>2. data \in [Clusters -> {<<>>} \union (Names \X (0 .. MaxWrites) \X (0 .. MaxSize))]
    <3> DEFINE Sectors == {<<>>} \union (Names \X (0 .. MaxWrites) \X (0 .. MaxSize))
    <3>1. ASSUME NEW c \in Clusters PROVE data[c] \in Sectors
      <4>1. CASE \E s \in Slots : Used(s) /\ Covers(root[s], c)
        <5>1. PICK s \in Slots : Used(s) /\ Covers(root[s], c)
          BY <4>1
        <5>2. root[s].name \in Names /\ c - root[s].cluster \in 0 .. MaxSize /\ 0 \in 0 .. MaxWrites
          BY <5>1, <1>5, <1>9, FatConstants
        <5>3. <<root[s].name, 0, c - root[s].cluster>>
                 \in Names \X (0 .. MaxWrites) \X (0 .. MaxSize)
          BY <5>2
        <5>4. data[c] = <<root[s].name, 0, c - root[s].cluster>>
          BY <5>1, <1>7
        <5> QED
          BY <5>3, <5>4
      <4>2. CASE \A s \in Slots : ~(Used(s) /\ Covers(root[s], c))
        BY <4>2, <1>8
      <4> QED
        BY <4>1, <4>2
    <3>2. data = [c \in Clusters |-> data[c]]
      BY DEF FatInit
    <3> HIDE DEF Sectors
    <3>3. data \in [Clusters -> Sectors]
      BY <3>1, <3>2
    <3> QED
      BY <3>3 DEF Sectors
  <2>3. expected \in [Names -> {<<>>} \union ((0 .. MaxWrites) \X (0 .. MaxSize))]
    <3>1. \A n \in Names : expected[n] \in {<<>>} \union ((0 .. MaxWrites) \X (0 .. MaxSize))
      <4> SUFFICES ASSUME NEW n \in Names, expected[n] # <<>>
                   PROVE  expected[n] \in (0 .. MaxWrites) \X (0 .. MaxSize)
        OBVIOUS
      <4>1. PICK s \in Slots : Used(s) /\ expected[n] = <<0, root[s].size>>
        BY <1>10
      <4>2. root[s].size \in 0 .. MaxSize /\ 0 \in 0 .. MaxWrites
        BY <4>1, <1>5, FatConstants
      <4> QED
        BY <4>1, <4>2
    <3>2. expected = [n \in Names |-> expected[n]]
      BY DEF FatInit
    <3> QED
      BY <3>1, <3>2
  <2>4. versions \in 0 .. MaxWrites /\ call \in {Idle} \union Calls /\ missed \subseteq Names
    BY FatConstants DEF FatInit
  <2> QED
    BY <2>1, <2>2, <2>3, <2>4 DEF FatTypeOK
<1>12. OneEntryEach /\ EntriesHaveClusters
  BY <1>5, <1>6 DEF OneEntryEach, EntriesHaveClusters, Used
<1>13. NothingBehindEnd
  <2> SUFFICES ASSUME NEW s \in Slots, NEW t \in Slots, s < t, root[s] = Empty
               PROVE  root[t] = Empty
    BY DEF NothingBehindEnd
  <2>1. ~Used(s)
    BY FatConstants DEF Used, Empty
  <2>2. s \notin Taken /\ s \in Int /\ t \in Int /\ Len(Shipped) \in Int
    BY <2>1, <1>4, <1>1 DEF Slots
  <2>3. t \notin Taken
    BY <2>2
  <2> QED
    BY <2>3, <1>3
<1>14. SizeCoversWritten
  BY <1>7 DEF SizeCoversWritten
<1>15. Kept
  <2> SUFFICES ASSUME NEW n \in Names, expected[n] # <<>>, NEW s \in SlotsOf(n)
               PROVE  /\ root[s].size = expected[n][2]
                      /\ Holds(root[s].cluster, n, expected[n][1], expected[n][2])
    BY DEF Kept
  <2>1. s \in Slots /\ Used(s) /\ root[s].name = n /\ expected[n] = <<0, root[s].size>>
    BY <1>10 DEF SlotsOf
  <2>2. ASSUME NEW k \in 0 .. root[s].size - 1
        PROVE  root[s].cluster + k \in Clusters /\ data[root[s].cluster + k] = <<n, 0, k>>
    <3> DEFINE f == root[s].cluster
               z == root[s].size
    <3>1. f \in Clusters /\ f \in Int /\ z \in 0 .. MaxSize /\ f + z <= LastCluster + 1
      BY <2>1, <1>5 DEF Clusters
    <3>2. LastCluster \in Nat /\ MaxSize \in Nat /\ k \in 0 .. z - 1
      BY FatConstants
    <3>3. f + k \in Clusters /\ f + k >= f /\ f + k < f + z /\ (f + k) - f = k
      <4> HIDE DEF f, z
      <4> QED  BY <3>1, <3>2 DEF Clusters
    <3>4. Covers(root[s], f + k)
      BY <3>3 DEF Covers
    <3>5. data[f + k] = <<root[s].name, 0, (f + k) - f>>
      BY <3>3, <3>4, <2>1, <1>7
    <3> QED
      BY <3>3, <3>5, <2>1
  <2> QED
    BY <2>1, <2>2 DEF Holds
<1>16. WriteUnderWay /\ FileIsFound
  BY DEF WriteUnderWay, FileIsFound, FatInit, Idle
<1> QED
  BY <1>11, <1>12, <1>13, <1>14, <1>15, <1>16 DEF FatInv

\* A promise that is not given anew is kept while the disk does not change.
LEMMA KeptStays ==
  ASSUME Kept, root' = root, data' = data, missed' = missed,
         \A n \in Names : expected'[n] # <<>> => expected'[n] = expected[n]
  PROVE  Kept'
<1> SUFFICES ASSUME NEW n \in Names \ missed, expected'[n] # <<>>, NEW s \in SlotsOf(n)
             PROVE  (/\ root[s].size = expected[n][2]
                     /\ Holds(root[s].cluster, n, expected[n][1], expected[n][2]))'
  BY DEF Kept, SlotsOf
<1>1. expected'[n] = expected[n]
  OBVIOUS
<1>2. /\ root[s].size = expected[n][2]
      /\ Holds(root[s].cluster, n, expected[n][1], expected[n][2])
  BY <1>1 DEF Kept
<1>3. Holds(root[s].cluster, n, expected[n][1], expected[n][2])'
  BY <1>1, <1>2 DEF Holds
<1> QED
  BY <1>1, <1>2, <1>3

\* A write begins: it finds the file, or it will create it, or it misses it.
LEMMA InvWriteBegins ==
  ASSUME FatInv, NEW n \in Names, NEW size \in 0 .. MaxSize, WriteBegins(n, size)
  PROVE  FatInv'
<1>1. /\ call.pc = "idle" /\ versions < MaxWrites /\ versions' = versions + 1
      /\ expected' = [expected EXCEPT ![n] = <<>>] /\ UNCHANGED <<root, data>>
  BY DEF WriteBegins
<1>2. PICK readable \in Readable :
        /\ call' = [pc      |-> IF Found(n, readable) = {} THEN "create" ELSE "data",
                    name    |-> n, version |-> versions + 1, size |-> size,
                    cluster |-> IF Found(n, readable) = {} THEN DefaultCluster
                                ELSE root[First(Found(n, readable))].cluster,
                    written |-> 0]
        /\ missed' = IF Found(n, readable) = {} /\ SlotsOf(n) # {} THEN missed \union {n}
                     ELSE missed
  BY DEF WriteBegins
<1> DEFINE found == Found(n, readable)
<1>3. expected \in [Names -> {<<>>} \union ((0 .. MaxWrites) \X (0 .. MaxSize))]
  BY DEF FatInv, FatTypeOK
<1>4. /\ expected' \in [Names -> {<<>>} \union ((0 .. MaxWrites) \X (0 .. MaxSize))]
      /\ expected'[n] = <<>>
      /\ \A m \in Names : expected'[m] # <<>> => m # n /\ expected'[m] = expected[m]
  <2> DEFINE Promises == {<<>>} \union ((0 .. MaxWrites) \X (0 .. MaxSize))
  <2>1. <<>> \in Promises /\ expected \in [Names -> Promises]
    BY <1>3
  <2> HIDE DEF Promises
  <2>2. expected' \in [Names -> Promises] /\ expected'[n] = <<>>
    BY <1>1, <2>1
  <2> QED
    BY <1>1, <2>1, <2>2 DEF Promises
<1>5. found # {} => First(found) \in SlotsOf(n) /\ root[First(found)].cluster \in Clusters
  <2> SUFFICES ASSUME found # {}
               PROVE  First(found) \in SlotsOf(n) /\ root[First(found)].cluster \in Clusters
    OBVIOUS
  <2>1. found \subseteq SlotsOf(n) /\ SlotsOf(n) \subseteq Slots
    BY DEF Found, SlotsOf
  <2> HIDE DEF found
  <2>2. First(found) \in SlotsOf(n)
    BY <2>1, FirstIsLeast
  <2>3. \A s \in SlotsOf(n) : Used(s)
    BY DEF SlotsOf, Used
  <2> QED
    BY <2>1, <2>2, <2>3 DEF FatInv, EntriesHaveClusters
<1>6. versions + 1 \in 1 .. MaxWrites /\ 0 \in 0 .. MaxSize /\ DefaultCluster \in Clusters
  BY <1>1, FatConstants DEF FatInv, FatTypeOK, DefaultCluster
<1> HIDE DEF found
<1>7. /\ call' = [pc |-> IF found = {} THEN "create" ELSE "data",
                  name |-> n, version |-> versions + 1, size |-> size,
                  cluster |-> IF found = {} THEN DefaultCluster ELSE root[First(found)].cluster,
                  written |-> 0]
      /\ missed' = IF found = {} /\ SlotsOf(n) # {} THEN missed \union {n} ELSE missed
  BY <1>2 DEF found
<1>8. call' \in Calls
  BY <1>5, <1>6, <1>7 DEF Calls
<1>9. missed \subseteq Names /\ missed \subseteq missed' /\ missed' \subseteq Names
  <2>1. missed \subseteq Names
    BY DEF FatInv, FatTypeOK
  <2> QED
    BY <2>1, <1>7
<1>10. FatTypeOK'
  <2>1. versions' \in 0 .. MaxWrites
    BY <1>1, <1>6, FatConstants DEF FatInv, FatTypeOK
  <2>2. FatTypeOK /\ root' = root /\ data' = data
    BY <1>1 DEF FatInv
  <2>3. /\ root' \in [Slots -> [name : Names \union {"empty", "deleted"},
                                cluster : {0} \union Clusters, size : 0 .. MaxSize]]
        /\ data' \in [Clusters -> {<<>>} \union (Names \X (0 .. MaxWrites) \X (0 .. MaxSize))]
    BY <2>2, Zenon DEF FatTypeOK
  <2>4. call' \in {Idle} \union Calls
    BY <1>8, Zenon
  <2>5. expected' \in [Names -> {<<>>} \union ((0 .. MaxWrites) \X (0 .. MaxSize))]
    BY <1>4, Zenon
  <2> QED
    BY <2>1, <2>3, <2>4, <2>5, <1>9, Zenon DEF FatTypeOK
<1>11. Kept'
  BY <1>1, <1>4, <1>9 DEF FatInv, Kept, SlotsOf, Holds
<1>12. call'.name = n /\ call'.written = 0 /\ call'.size = size
  BY <1>7
<1>13. WriteUnderWay'
  <2>1. 0 <= size /\ 0 .. 0 - 1 = {}
    BY FatConstants
  <2>2. Holds(call.cluster, call.name, call.version, call.written)'
    BY <1>12, <2>1 DEF Holds
  <2>3. call'.pc # "size"
    BY <1>7
  <2> QED
    BY <1>4, <1>12, <2>1, <2>2, <2>3 DEF WriteUnderWay
<1>14. FileIsFound'
  <2>1. SlotsOf(n)' = SlotsOf(n)
    BY <1>1 DEF SlotsOf
  <2>2. CASE found = {}
    <3>1. call'.pc = "create" /\ (n \notin missed' => SlotsOf(n) = {})
      BY <1>7, <2>2
    <3>2. SlotsOf(call.name)' = SlotsOf(n)
      BY <1>1, <1>12 DEF SlotsOf
    <3> QED
      BY <1>12, <3>1, <3>2 DEF FileIsFound
  <2>3. CASE found # {}
    <3>1. call'.pc = "data" /\ call'.cluster = root[First(found)].cluster
      BY <1>7, <2>3
    <3>2. \E s \in SlotsOf(n) : root'[s].cluster = call'.cluster
      BY <1>1, <1>5, <2>3, <3>1
    <3>3. (\E s \in SlotsOf(call.name) : root[s].cluster = call.cluster)'
      BY <1>1, <1>12, <3>2 DEF SlotsOf
    <3> QED
      BY <3>1, <3>3 DEF FileIsFound
  <2> QED
    BY <2>2, <2>3
<1>15. (OneEntryEach /\ EntriesHaveClusters /\ NothingBehindEnd /\ SizeCoversWritten)'
  BY <1>1, <1>9 DEF FatInv, OneEntryEach, EntriesHaveClusters, NothingBehindEnd,
                    SizeCoversWritten, Used
<1> QED
  BY <1>10, <1>11, <1>13, <1>14, <1>15 DEF FatInv

\* A call that ends without a promise, and without a change of the disk.
LEMMA InvCallEnds ==
  ASSUME FatInv, call' = Idle, UNCHANGED <<root, data, versions, missed>>,
         \/ expected' = expected
         \/ call.pc # "idle" /\ expected' = [expected EXCEPT ![call.name] = <<>>]
  PROVE  FatInv'
<1>1. expected' \in [Names -> {<<>>} \union ((0 .. MaxWrites) \X (0 .. MaxSize))]
  BY DEF FatInv, FatTypeOK
<1>2. \A n \in Names : expected'[n] # <<>> => expected'[n] = expected[n]
  BY DEF FatInv, FatTypeOK
<1>3. FatTypeOK'
  BY <1>1 DEF FatInv, FatTypeOK, Idle
<1>4. Kept'
  BY <1>2, KeptStays DEF FatInv
<1>5. (WriteUnderWay /\ FileIsFound)'
  BY DEF WriteUnderWay, FileIsFound, Idle
<1>6. (OneEntryEach /\ EntriesHaveClusters /\ NothingBehindEnd /\ SizeCoversWritten)'
  BY DEF FatInv, OneEntryEach, EntriesHaveClusters, NothingBehindEnd, SizeCoversWritten, Used
<1> QED
  BY <1>3, <1>4, <1>5, <1>6 DEF FatInv

\* A request for the directory succeeds or is refused.
LEMMA RequestOutcomes ==
  ASSUME RequestsAnswered PROVE Outcomes \subseteq {"ok", "error"}
BY DEF Outcomes, RequestsAnswered

\* A new entry takes the first slot that is free, which is not behind the end.
LEMMA InvEntryCreated ==
  ASSUME FatInv, call.pc = "create", NEW f \in Slots, ~Used(f),
         \A s \in Slots : ~Used(s) => f <= s,
         root' = [root EXCEPT ![f] = [name |-> call.name, size |-> 0,
                                      cluster |-> call.cluster]],
         call' = [call EXCEPT !.pc = "data"], UNCHANGED <<data, versions, expected, missed>>
  PROVE  FatInv'
<1>1. /\ call \in Calls /\ call.name \in Names /\ call.cluster \in Clusters
      /\ expected[call.name] = <<>> /\ call.written = 0 /\ call.written <= call.size
      /\ call.name \notin missed => SlotsOf(call.name) = {}
  BY CallIsTyped, CallParts DEF FatInv, WriteUnderWay, FileIsFound
<1>2. /\ call' \in Calls /\ call'.pc = "data" /\ call'.name = call.name
      /\ call'.cluster = call.cluster /\ call'.written = 0 /\ call'.size = call.size
      /\ call'.version = call.version
  BY <1>1 DEF Calls
<1> DEFINE e == [name |-> call.name, size |-> 0, cluster |-> call.cluster]
           Entries == [name : Names \union {"empty", "deleted"},
                       cluster : {0} \union Clusters, size : 0 .. MaxSize]
<1>3. e \in Entries /\ root \in [Slots -> Entries] /\ root' = [root EXCEPT ![f] = e]
  BY <1>1, FatConstants DEF FatInv, FatTypeOK
<1>4. e.name = call.name /\ e.cluster = call.cluster /\ e.size = 0 /\ e.name \in Names
  BY <1>1
<1>5. /\ root' \in [Slots -> Entries] /\ root'[f] = e
      /\ \A s \in Slots : s # f => root'[s] = root[s]
  <2> HIDE DEF e, Entries
  <2> QED  BY <1>3
<1>6. call.name \notin missed => \A s \in Slots : root[s].name # call.name
  BY <1>1 DEF SlotsOf
<1>7. FatTypeOK'
  BY <1>2, <1>5 DEF FatInv, FatTypeOK
<1> HIDE DEF e
<1>8. OneEntryEach'
  <2> SUFFICES ASSUME NEW s \in Slots, NEW t \in Slots,
                      root'[s].name \in Names, root'[s].name = root'[t].name,
                      root'[s].name \notin missed
               PROVE  s = t
    BY DEF OneEntryEach, Used
  <2>1. CASE s = f /\ t = f
    BY <2>1
  <2>2. CASE s = f /\ t # f
    BY <2>2, <1>4, <1>5, <1>6
  <2>3. CASE s # f /\ t = f
    BY <2>3, <1>4, <1>5, <1>6
  <2>4. CASE s # f /\ t # f
    BY <2>4, <1>5 DEF FatInv, OneEntryEach, Used
  <2> QED
    BY <2>1, <2>2, <2>3, <2>4
<1>9. EntriesHaveClusters'
  BY <1>1, <1>4, <1>5 DEF FatInv, EntriesHaveClusters, Used
<1>10. NothingBehindEnd'
  <2> SUFFICES ASSUME NEW s \in Slots, NEW t \in Slots, s < t, root'[s] = Empty
               PROVE  root'[t] = Empty
    BY DEF NothingBehindEnd
  <2>1. Empty.name \notin Names
    BY FatConstants DEF Empty
  <2>2. s # f
    BY <2>1, <1>4, <1>5
  <2>3. root[s] = Empty /\ ~Used(s)
    BY <2>1, <2>2, <1>5 DEF Used
  <2>4. f <= s /\ f \in Int /\ s \in Int /\ t \in Int
    BY <2>3 DEF Slots
  <2>5. t # f
    BY <2>4
  <2> QED
    BY <2>3, <2>5, <1>5 DEF FatInv, NothingBehindEnd
<1>11. SizeCoversWritten'
  <2> SUFFICES ASSUME NEW s \in Slots, root'[s].name \in Names, root'[s].name \notin missed,
                      NEW c \in Clusters, Covers(root'[s], c)
               PROVE  data[c] # <<>>
    BY DEF SizeCoversWritten, Used
  <2>1. CASE s = f
    <3>1. c >= e.cluster /\ c < e.cluster + 0
      BY <2>1, <1>4, <1>5 DEF Covers
    <3>2. c \in Int /\ e.cluster \in Int
      BY <1>1, <1>4 DEF Clusters
    <3> QED
      BY <3>1, <3>2
  <2>2. CASE s # f
    BY <2>2, <1>5 DEF FatInv, SizeCoversWritten, Used
  <2> QED
    BY <2>1, <2>2
<1>12. Kept'
  <2> SUFFICES ASSUME NEW n \in Names \ missed, expected[n] # <<>>, NEW s \in Slots,
                      root'[s].name = n
               PROVE  (/\ root[s].size = expected[n][2]
                       /\ Holds(root[s].cluster, n, expected[n][1], expected[n][2]))'
    BY DEF Kept, SlotsOf
  <2>1. s # f
    BY <1>1, <1>4, <1>5
  <2>2. root'[s] = root[s] /\ s \in SlotsOf(n)
    BY <2>1, <1>5 DEF SlotsOf
  <2>3. /\ root[s].size = expected[n][2]
        /\ Holds(root[s].cluster, n, expected[n][1], expected[n][2])
    BY <2>2 DEF FatInv, Kept
  <2>4. Holds(root[s].cluster, n, expected[n][1], expected[n][2])'
    BY <2>2, <2>3 DEF Holds
  <2> QED
    BY <2>2, <2>3, <2>4
<1>13. WriteUnderWay'
  <2>1. Holds(call.cluster, call.name, call.version, call.written)'
    BY <1>2, <1>1 DEF FatInv, WriteUnderWay, Holds
  <2> QED
    BY <1>1, <1>2, <2>1 DEF WriteUnderWay
<1>14. FileIsFound'
  <2>1. (\E s \in SlotsOf(call.name) : root[s].cluster = call.cluster)'
    BY <1>2, <1>4, <1>5 DEF SlotsOf
  <2> QED
    BY <1>2, <2>1 DEF FileIsFound
<1> QED
  BY <1>7, <1>8, <1>9, <1>10, <1>11, <1>12, <1>13, <1>14 DEF FatInv

\* A file that was missed, and is found on the second look, is written where it
\* is not.
LEMMA InvFoundLate ==
  ASSUME FatInv, call.pc = "create", call.name \in missed,
         call' = [call EXCEPT !.pc = "data"],
         UNCHANGED <<root, data, versions, expected, missed>>
  PROVE  FatInv'
<1>1. call \in Calls
  BY CallIsTyped DEF FatInv
<1>2. /\ call' \in Calls /\ call'.pc = "data" /\ call'.name = call.name
      /\ call'.cluster = call.cluster /\ call'.size = call.size
      /\ call'.version = call.version /\ call'.written = call.written
  BY <1>1 DEF Calls
<1>3. FatTypeOK'
  BY <1>2 DEF FatInv, FatTypeOK
<1>4. (OneEntryEach /\ EntriesHaveClusters /\ NothingBehindEnd /\ SizeCoversWritten)'
  BY DEF FatInv, OneEntryEach, EntriesHaveClusters, NothingBehindEnd, SizeCoversWritten, Used
<1>5. Kept'
  BY KeptStays DEF FatInv
<1>6. WriteUnderWay'
  BY <1>2 DEF FatInv, WriteUnderWay, Holds
<1>7. FileIsFound'
  BY <1>2 DEF FileIsFound
<1> QED
  BY <1>3, <1>4, <1>5, <1>6, <1>7 DEF FatInv

LEMMA InvCreate ==
  ASSUME FatInv, RequestsAnswered, fs_create_file
  PROVE  FatInv'
<1>1. /\ call.pc = "create" /\ call.name \in Names /\ UNCHANGED <<data, versions, missed>>
      /\ call.name \notin missed => SlotsOf(call.name) = {}
  BY CallParts DEF FatInv, FileIsFound, fs_create_file
<1> DEFINE free == {s \in Slots : ~Used(s)}
<1>2. PICK readable \in Readable :
        IF Found(call.name, readable) # {}
        THEN call' = [call EXCEPT !.pc = "data"] /\ UNCHANGED <<root, expected>>
        ELSE IF free = {}
        THEN call' = Idle /\ UNCHANGED <<root, expected>>
        ELSE DirectoryRequest(
                 [root EXCEPT ![First(free)] = [name |-> call.name, size |-> 0,
                                                cluster |-> call.cluster]],
                 [call EXCEPT !.pc = "data"])
  BY DEF fs_create_file
<1>3. CASE Found(call.name, readable) # {}
  <2>1. call.name \in missed
    BY <1>1, <1>3 DEF Found
  <2> QED
    BY <1>1, <1>2, <1>3, <2>1, InvFoundLate
<1>4. CASE Found(call.name, readable) = {} /\ free = {}
  BY <1>1, <1>2, <1>4, InvCallEnds
<1>5. CASE Found(call.name, readable) = {} /\ free # {}
  <2>1. First(free) \in free /\ \A s \in free : First(free) <= s
    BY <1>5, FirstIsLeast
  <2>2. PICK o \in Outcomes :
          /\ root' = IF o = "ok"
                     THEN [root EXCEPT ![First(free)] = [name |-> call.name, size |-> 0,
                                                         cluster |-> call.cluster]]
                     ELSE root
          /\ call' = IF o = "error" THEN Idle ELSE [call EXCEPT !.pc = "data"]
          /\ expected' = expected
    BY <1>1, <1>2, <1>5 DEF DirectoryRequest
  <2>3. CASE o = "error"
    BY <1>1, <2>2, <2>3, InvCallEnds
  <2>4. CASE o = "ok"
    BY <1>1, <2>1, <2>2, <2>4, InvEntryCreated
  <2> QED
    BY <2>3, <2>4, RequestOutcomes
<1> QED
  BY <1>3, <1>4, <1>5

\* A sector of the data is written: the files that had it are given up, and
\* the others' sectors are not this one.
LEMMA InvSectorWritten ==
  ASSUME FatInv, WriteSector, RequestsAnswered
  PROVE  FatInv'
<1> DEFINE c == call.cluster + call.written
           v == <<call.name, call.version, call.written>>
           Sectors == {<<>>} \union (Names \X (0 .. MaxWrites) \X (0 .. MaxSize))
           Promises == {<<>>} \union ((0 .. MaxWrites) \X (0 .. MaxSize))
<1>1. /\ call.pc = "data" /\ call.written < call.size /\ UNCHANGED <<root, versions, missed>>
      /\ expected' = [n \in Names |-> IF n \in Victims(c) THEN <<>> ELSE expected[n]]
  BY DEF WriteSector
<1>2. PICK o \in IF c \in Clusters THEN Outcomes ELSE {"error"} :
        /\ data' = IF o = "ok" THEN [data EXCEPT ![c] = v] ELSE data
        /\ call' = IF o = "error" THEN Idle ELSE [call EXCEPT !.written = call.written + 1]
  BY DEF WriteSector
<1>3. /\ call \in Calls /\ call.name \in Names /\ call.cluster \in Clusters
      /\ expected[call.name] = <<>> /\ call.version \in 1 .. MaxWrites
      /\ call.written \in 0 .. MaxSize /\ call.size \in 0 .. MaxSize
      /\ Holds(call.cluster, call.name, call.version, call.written)
  BY <1>1, CallIsTyped, CallParts DEF FatInv, WriteUnderWay
<1>4. call.written + 1 \in 0 .. MaxSize /\ call.written + 1 <= call.size
  BY <1>1, <1>3, FatConstants
<1>5. /\ o \in {"ok", "error"} /\ (o = "ok" => c \in Clusters)
  BY <1>2, RequestOutcomes
<1>6. data' \in [Clusters -> Sectors] /\ \A d \in Clusters : d # c => data'[d] = data[d]
  <2>1. v \in Sectors
    <3>1. call.version \in 0 .. MaxWrites
      BY <1>3, FatConstants
    <3> QED  BY <1>3, <3>1
  <2>2. data \in [Clusters -> Sectors]
    BY DEF FatInv, FatTypeOK
  <2> HIDE DEF c, v, Sectors
  <2> QED
    BY <1>2, <2>1, <2>2
<1>7. o = "ok" => data'[c] = v /\ v # <<>>
  <2>1. data \in [Clusters -> Sectors]
    BY DEF FatInv, FatTypeOK
  <2>2. v # <<>>
    OBVIOUS
  <2> HIDE DEF c, v, Sectors
  <2> QED
    BY <1>2, <1>5, <2>1, <2>2
<1>8. \A d \in Clusters : data'[d] # data[d] => d = c /\ o = "ok"
  <2> HIDE DEF c, v
  <2> QED
    BY <1>2, <1>6
<1>9. expected' \in [Names -> Promises]
  <2>1. expected \in [Names -> Promises] /\ <<>> \in Promises
    BY DEF FatInv, FatTypeOK
  <2> HIDE DEF Promises, c
  <2> QED
    BY <1>1, <2>1
<1>10. \A n \in Names : expected'[n] # <<>> => expected'[n] = expected[n] /\ n \notin Victims(c)
  <2> HIDE DEF c
  <2> QED
    BY <1>1
<1>11. o = "ok" => /\ call' \in Calls /\ call'.pc = "data" /\ call'.name = call.name
                   /\ call'.cluster = call.cluster /\ call'.size = call.size
                   /\ call'.version = call.version /\ call'.written = call.written + 1
  BY <1>2, <1>3, <1>4, <1>1 DEF Calls
<1>12. FatTypeOK'
  <2>1. call' \in {Idle} \union Calls
    BY <1>2, <1>5, <1>11
  <2> QED
    BY <1>1, <1>6, <1>9, <2>1 DEF FatInv, FatTypeOK
<1>13. (OneEntryEach /\ EntriesHaveClusters /\ NothingBehindEnd)'
  BY <1>1 DEF FatInv, OneEntryEach, EntriesHaveClusters, NothingBehindEnd, Used
<1>14. SizeCoversWritten'
  <2> SUFFICES ASSUME NEW s \in Slots, Used(s), root[s].name \notin missed,
                      NEW d \in Clusters, Covers(root[s], d)
               PROVE  data'[d] # <<>>
    BY <1>1 DEF SizeCoversWritten, Used
  <2>1. data[d] # <<>>
    BY DEF FatInv, SizeCoversWritten
  <2> HIDE DEF c, v
  <2> QED
    BY <2>1, <1>7, <1>8
<1>15. Kept'
  <2> SUFFICES ASSUME NEW n \in Names \ missed, expected'[n] # <<>>, NEW s \in SlotsOf(n)
               PROVE  (/\ root[s].size = expected[n][2]
                       /\ Holds(root[s].cluster, n, expected[n][1], expected[n][2]))'
    BY <1>1 DEF Kept, SlotsOf
  <2>1. expected'[n] = expected[n] /\ n \notin Victims(c) /\ n # call.name
    BY <1>3, <1>10
  <2>2. ~Covers(root[s], c)
    BY <2>1 DEF Victims
  <2>3. /\ root[s].size = expected[n][2]
        /\ Holds(root[s].cluster, n, expected[n][1], expected[n][2])
    BY <2>1 DEF FatInv, Kept
  <2>4. ASSUME NEW k \in 0 .. root[s].size - 1
        PROVE  /\ root[s].cluster + k \in Clusters
               /\ data'[root[s].cluster + k] = data[root[s].cluster + k]
    <3>1. root[s].cluster + k \in Clusters
      BY <2>3 DEF Holds
    <3>2. Covers(root[s], root[s].cluster + k)
      <4> DEFINE f == root[s].cluster
                 z == root[s].size
      <4>1. f \in Int /\ z \in Int
        BY EntryParts DEF FatInv, SlotsOf
      <4>2. k \in 0 .. z - 1
        OBVIOUS
      <4> HIDE DEF f, z
      <4>3. f + k >= f /\ f + k < f + z
        BY <4>1, <4>2
      <4> QED
        BY <4>3 DEF Covers, f, z
    <3>3. root[s].cluster + k # c
      BY <2>2, <3>2
    <3> HIDE DEF c
    <3> QED
      BY <3>1, <3>3, <1>8
  <2>5. Holds(root[s].cluster, n, expected[n][1], expected[n][2])'
    BY <1>1, <2>1, <2>3, <2>4 DEF Holds
  <2> QED
    BY <1>1, <2>1, <2>3, <2>5
<1>16. WriteUnderWay'
  <2>1. CASE o = "error"
    BY <1>2, <2>1 DEF WriteUnderWay, Idle
  <2>2. CASE o = "ok"
    <3>1. expected'[call'.name] = <<>>
      BY <1>3, <1>10, <1>11, <2>2
    <3>3. ASSUME NEW k \in 0 .. call.written
          PROVE  /\ call.cluster + k \in Clusters
                 /\ data'[call.cluster + k] = <<call.name, call.version, k>>
      <4>1. CASE k = call.written
        BY <4>1, <1>5, <1>7, <2>2
      <4>2. CASE k # call.written
        <5>1. k \in 0 .. call.written - 1 /\ call.cluster \in Int
          BY <4>2, <1>3, FatConstants DEF Clusters
        <5>2. /\ call.cluster + k \in Clusters
              /\ data[call.cluster + k] = <<call.name, call.version, k>>
          BY <5>1, <1>3 DEF Holds
        <5>3. call.cluster + k # c
          BY <5>1, <1>3, FatConstants
        <5> HIDE DEF c
        <5> QED
          BY <5>2, <5>3, <1>8
      <4> QED
        BY <4>1, <4>2
    <3>4. 0 .. (call.written + 1) - 1 = 0 .. call.written
      BY <1>3, FatConstants
    <3>5. Holds(call.cluster, call.name, call.version, call.written)'
      BY <3>3, <3>4, <1>11, <2>2 DEF Holds
    <3> QED
      BY <1>4, <1>11, <2>2, <3>1, <3>5 DEF WriteUnderWay
  <2> QED
    BY <2>1, <2>2, <1>5
<1>17. FileIsFound'
  <2>1. CASE o = "error"
    BY <1>2, <2>1 DEF FileIsFound, Idle
  <2>2. CASE o = "ok"
    BY <1>1, <1>11, <2>2 DEF FatInv, FileIsFound, SlotsOf
  <2> QED
    BY <2>1, <2>2, <1>5
<1> QED
  BY <1>12, <1>13, <1>14, <1>15, <1>16, <1>17 DEF FatInv

LEMMA InvDataWritten ==
  ASSUME FatInv, DataWritten
  PROVE  FatInv'
<1>1. /\ call.pc = "data" /\ call.written = call.size /\ call' = [call EXCEPT !.pc = "size"]
      /\ UNCHANGED <<root, data, versions, expected, missed>> /\ call \in Calls
  BY CallIsTyped DEF DataWritten, FatInv
<1>2. /\ call' \in Calls /\ call'.pc = "size" /\ call'.name = call.name
      /\ call'.cluster = call.cluster /\ call'.size = call.size
      /\ call'.version = call.version /\ call'.written = call.written
  BY <1>1 DEF Calls
<1>3. FatTypeOK'
  BY <1>1, <1>2 DEF FatInv, FatTypeOK
<1>4. (OneEntryEach /\ EntriesHaveClusters /\ NothingBehindEnd /\ SizeCoversWritten)'
  BY <1>1 DEF FatInv, OneEntryEach, EntriesHaveClusters, NothingBehindEnd,
              SizeCoversWritten, Used
<1>5. Kept'
  BY <1>1, KeptStays DEF FatInv
<1>6. WriteUnderWay'
  BY <1>1, <1>2 DEF FatInv, WriteUnderWay, Holds
<1>7. FileIsFound'
  BY <1>1, <1>2 DEF FatInv, FileIsFound, SlotsOf
<1> QED
  BY <1>3, <1>4, <1>5, <1>6, <1>7 DEF FatInv

\* The size goes into the entry the data were written for: only now is the
\* file what the call was given.
LEMMA InvSizeEntered ==
  ASSUME FatInv, call.pc = "size", NEW f \in Slots, root[f].name = call.name,
         root' = [root EXCEPT ![f].size = call.size], call' = Idle,
         expected' = [expected EXCEPT ![call.name] = <<call.version, call.size>>],
         UNCHANGED <<data, versions, missed>>
  PROVE  FatInv'
<1>1. /\ call \in Calls /\ call.name \in Names /\ call.cluster \in Clusters
      /\ call.version \in 1 .. MaxWrites /\ call.size \in 0 .. MaxSize
      /\ Holds(call.cluster, call.name, call.version, call.size)
  BY CallIsTyped, CallParts DEF FatInv, WriteUnderWay
<1>2. ASSUME call.name \notin missed
      PROVE  root[f].cluster = call.cluster /\ \A t \in Slots : root[t].name = call.name => t = f
  <2>1. PICK s \in SlotsOf(call.name) : root[s].cluster = call.cluster
    BY <1>2 DEF FatInv, FileIsFound
  <2>2. \A t \in Slots : root[t].name = call.name => t = f
    BY <1>1, <1>2 DEF FatInv, OneEntryEach, Used
  <2>3. s = f
    BY <2>1, <2>2 DEF SlotsOf
  <2> QED
    BY <2>1, <2>2, <2>3
<1> DEFINE Entries == [name : Names \union {"empty", "deleted"},
                       cluster : {0} \union Clusters, size : 0 .. MaxSize]
           Promises == {<<>>} \union ((0 .. MaxWrites) \X (0 .. MaxSize))
           e == [root[f] EXCEPT !.size = call.size]
<1>4. /\ e \in Entries /\ e.name = call.name /\ e.cluster = root[f].cluster
      /\ e.size = call.size
  <2>1. root[f] \in Entries
    BY DEF FatInv, FatTypeOK
  <2> QED
    BY <2>1, <1>1
<1>5. /\ root' \in [Slots -> Entries] /\ root'[f] = e
      /\ \A t \in Slots : t # f => root'[t] = root[t]
  <2>1. root \in [Slots -> Entries] /\ root' = [root EXCEPT ![f] = e]
    BY DEF FatInv, FatTypeOK
  <2> HIDE DEF e, Entries
  <2> QED  BY <2>1, <1>4
<1>6. /\ expected' \in [Names -> Promises]
      /\ expected'[call.name] = <<call.version, call.size>>
      /\ \A n \in Names : n # call.name => expected'[n] = expected[n]
  <2>1. expected \in [Names -> Promises] /\ <<call.version, call.size>> \in Promises
    BY <1>1, FatConstants DEF FatInv, FatTypeOK
  <2> HIDE DEF Promises
  <2> QED  BY <2>1, <1>1
<1>7. FatTypeOK'
  BY <1>5, <1>6 DEF FatInv, FatTypeOK
<1> HIDE DEF e
<1>8. \A t \in Slots : root'[t].name = root[t].name /\ root'[t].cluster = root[t].cluster
  BY <1>4, <1>5
<1>9. (OneEntryEach /\ EntriesHaveClusters)'
  BY <1>8 DEF FatInv, OneEntryEach, EntriesHaveClusters, Used
<1>10. NothingBehindEnd'
  <2> SUFFICES ASSUME NEW i \in Slots, NEW j \in Slots, i < j, root'[i] = Empty
               PROVE  root'[j] = Empty
    BY DEF NothingBehindEnd
  <2>1. Empty.name \notin Names
    BY FatConstants DEF Empty
  <2>2. i # f /\ root[i] = Empty
    BY <2>1, <1>1, <1>4, <1>5
  <2>3. root[j] = Empty
    BY <2>2 DEF FatInv, NothingBehindEnd
  <2>4. j # f
    BY <2>1, <2>3, <1>1
  <2> QED
    BY <2>3, <2>4, <1>5
<1>11. SizeCoversWritten'
  <2> SUFFICES ASSUME NEW t \in Slots, root'[t].name \in Names, root'[t].name \notin missed,
                      NEW c \in Clusters, Covers(root'[t], c)
               PROVE  data[c] # <<>>
    BY DEF SizeCoversWritten, Used
  <2>1. CASE t = f
    <3> DEFINE k == c - call.cluster
    <3>1. c \in Int /\ call.cluster \in Int /\ call.size \in Int
      BY <1>1 DEF Clusters
    <3>2. c >= call.cluster /\ c < call.cluster + call.size
      BY <2>1, <1>2, <1>4, <1>5 DEF Covers
    <3>3. k \in 0 .. call.size - 1 /\ call.cluster + k = c
      BY <3>1, <3>2
    <3>4. data[c] = <<call.name, call.version, k>>
      <4> HIDE DEF k
      <4> QED  BY <3>3, <1>1 DEF Holds
    <3> QED
      BY <3>4
  <2>2. CASE t # f
    BY <2>2, <1>5 DEF FatInv, SizeCoversWritten, Used
  <2> QED
    BY <2>1, <2>2
<1>12. Kept'
  <2> SUFFICES ASSUME NEW n \in Names \ missed, expected'[n] # <<>>, NEW t \in Slots,
                      root'[t].name = n
               PROVE  (/\ root[t].size = expected[n][2]
                       /\ Holds(root[t].cluster, n, expected[n][1], expected[n][2]))'
    BY DEF Kept, SlotsOf
  <2>1. CASE n = call.name
    <3>1. t = f
      BY <2>1, <1>2, <1>8
    <3>2. root'[t].size = expected'[n][2] /\ root'[t].cluster = call.cluster
      BY <2>1, <3>1, <1>2, <1>4, <1>5, <1>6
    <3>3. expected'[n][1] = call.version /\ expected'[n][2] = call.size
      BY <2>1, <1>6
    <3>4. Holds(root[t].cluster, n, expected[n][1], expected[n][2])'
      BY <2>1, <3>2, <3>3, <1>1 DEF Holds
    <3> QED
      BY <3>2, <3>4
  <2>2. CASE n # call.name
    <3>1. t # f /\ root'[t] = root[t] /\ expected'[n] = expected[n]
      BY <2>2, <1>4, <1>5, <1>6
    <3>2. /\ root[t].size = expected[n][2]
          /\ Holds(root[t].cluster, n, expected[n][1], expected[n][2])
      BY <3>1 DEF FatInv, Kept, SlotsOf
    <3>3. Holds(root[t].cluster, n, expected[n][1], expected[n][2])'
      BY <3>1, <3>2 DEF Holds
    <3> QED
      BY <3>1, <3>2, <3>3
  <2> QED
    BY <2>1, <2>2
<1>13. (WriteUnderWay /\ FileIsFound)'
  BY DEF WriteUnderWay, FileIsFound, Idle
<1> QED
  BY <1>7, <1>9, <1>10, <1>11, <1>12, <1>13 DEF FatInv

LEMMA InvWriteSize ==
  ASSUME FatInv, RequestsAnswered, WriteSize
  PROVE  FatInv'
<1>0. call.pc = "size" /\ UNCHANGED <<data, versions, missed>>
  BY DEF WriteSize
<1> SUFFICES ASSUME SlotsOf(call.name) # {} PROVE FatInv'
  BY <1>0, InvCallEnds DEF WriteSize
<1>1. call.pc = "size" /\ SlotsOf(call.name) # {} /\ UNCHANGED <<data, versions, missed>>
  BY <1>0
<1> DEFINE f == First(SlotsOf(call.name))
<1>2. f \in Slots /\ root[f].name = call.name
  <2>1. SlotsOf(call.name) \subseteq Slots
    BY DEF SlotsOf
  <2>2. First(SlotsOf(call.name)) \in SlotsOf(call.name)
    BY <2>1, <1>1, FirstIsLeast
  <2> QED
    BY <2>2 DEF SlotsOf
<1>3. PICK o \in Outcomes :
        /\ root' = IF o = "ok" THEN [root EXCEPT ![f].size = call.size] ELSE root
        /\ call' = Idle
        /\ expected' = IF o = "error" THEN [expected EXCEPT ![call.name] = <<>>]
                       ELSE [expected EXCEPT ![call.name] = <<call.version, call.size>>]
  BY <1>1 DEF WriteSize, DirectoryRequest
<1> HIDE DEF f
<1>4. CASE o = "error"
  <2>1. root' = root /\ expected' = [expected EXCEPT ![call.name] = <<>>] /\ call.pc # "idle"
    BY <1>1, <1>3, <1>4
  <2> QED
    BY <2>1, <1>1, <1>3, InvCallEnds
<1>5. CASE o = "ok"
  <2>1. /\ root' = [root EXCEPT ![f].size = call.size]
        /\ expected' = [expected EXCEPT ![call.name] = <<call.version, call.size>>]
    BY <1>3, <1>5
  <2> QED
    BY <2>1, <1>1, <1>2, <1>3, InvSizeEntered
<1> QED
  BY <1>4, <1>5, RequestOutcomes

\* Entries that are deleted keep their place, so the end stays where it is.
LEMMA InvEntriesDeleted ==
  ASSUME FatInv, call.pc = "idle", NEW gone \in SUBSET Slots,
         \A s \in gone : Used(s),
         root' = [s \in Slots |-> IF s \in gone THEN [root[s] EXCEPT !.name = "deleted"]
                                  ELSE root[s]],
         UNCHANGED <<data, call, versions, expected, missed>>
  PROVE  FatInv'
<1> DEFINE Entries == [name : Names \union {"empty", "deleted"},
                       cluster : {0} \union Clusters, size : 0 .. MaxSize]
<1>1. \A s \in Slots : s \notin gone => root'[s] = root[s]
  OBVIOUS
<1>2. \A s \in gone : root'[s] \in Entries /\ root'[s].name = "deleted"
  <2> SUFFICES ASSUME NEW s \in gone
               PROVE  root'[s] \in Entries /\ root'[s].name = "deleted"
    OBVIOUS
  <2>1. root[s] \in Entries
    BY DEF FatInv, FatTypeOK
  <2>2. root'[s] = [root[s] EXCEPT !.name = "deleted"]
    OBVIOUS
  <2> QED
    BY <2>1, <2>2
<1>3. root' \in [Slots -> Entries]
  <2>1. root \in [Slots -> Entries]
    BY DEF FatInv, FatTypeOK
  <2>2. \A s \in Slots : root'[s] \in Entries
    <3> HIDE DEF Entries
    <3> QED  BY <1>1, <1>2, <2>1
  <2>3. root' = [s \in Slots |-> root'[s]]
    OBVIOUS
  <2> HIDE DEF Entries
  <2> QED
    BY <2>2, <2>3
<1>4. FatTypeOK'
  BY <1>3 DEF FatInv, FatTypeOK
<1>5. \A s \in Slots : root'[s].name \in Names => s \notin gone /\ root'[s] = root[s]
  BY <1>1, <1>2, FatConstants
<1>6. (OneEntryEach /\ EntriesHaveClusters /\ SizeCoversWritten)'
  BY <1>5 DEF FatInv, OneEntryEach, EntriesHaveClusters, SizeCoversWritten, Used
<1>7. NothingBehindEnd'
  <2> SUFFICES ASSUME NEW i \in Slots, NEW j \in Slots, i < j, root'[i] = Empty
               PROVE  root'[j] = Empty
    BY DEF NothingBehindEnd
  <2>1. Empty.name = "empty"
    BY DEF Empty
  <2>2. i \notin gone /\ root[i] = Empty
    BY <2>1, <1>1, <1>2
  <2>3. root[j] = Empty
    BY <2>2 DEF FatInv, NothingBehindEnd
  <2>4. j \notin gone
    BY <2>1, <2>3, FatConstants DEF Used
  <2> QED
    BY <2>3, <2>4, <1>1
<1>8. Kept'
  <2> SUFFICES ASSUME NEW n \in Names \ missed, expected'[n] # <<>>, NEW t \in Slots,
                      root'[t].name = n
               PROVE  (/\ root[t].size = expected[n][2]
                       /\ Holds(root[t].cluster, n, expected[n][1], expected[n][2]))'
    BY DEF Kept, SlotsOf
  <2>1. root'[t] = root[t]
    BY <1>5
  <2>2. /\ root[t].size = expected[n][2]
        /\ Holds(root[t].cluster, n, expected[n][1], expected[n][2])
    BY <2>1 DEF FatInv, Kept, SlotsOf
  <2>3. Holds(root[t].cluster, n, expected[n][1], expected[n][2])'
    BY <2>1, <2>2 DEF Holds
  <2> QED
    BY <2>1, <2>2, <2>3
<1>9. (WriteUnderWay /\ FileIsFound)'
  BY DEF WriteUnderWay, FileIsFound
<1> QED
  BY <1>4, <1>6, <1>7, <1>8, <1>9 DEF FatInv

LEMMA InvDelete ==
  ASSUME FatInv, RequestsAnswered, NEW n \in Names, fs_delete_file(n)
  PROVE  FatInv'
<1>1. call.pc = "idle" /\ call = Idle /\ UNCHANGED <<data, versions, missed>>
  BY CallIsTyped DEF FatInv, fs_delete_file
<1>2. CASE SlotsOf(n) = {}
  BY <1>1, <1>2, InvCallEnds DEF fs_delete_file
<1>3. CASE SlotsOf(n) # {}
  <2> DEFINE gone == {s \in SlotsOf(n) : SectorOf(s) = SectorOf(First(SlotsOf(n)))}
             changed == [s \in Slots |-> IF s \in gone THEN [root[s] EXCEPT !.name = "deleted"]
                                         ELSE root[s]]
  <2>1. gone \in SUBSET Slots /\ \A s \in gone : Used(s)
    BY DEF SlotsOf, Used
  <2>2. DirectoryRequest(changed, Idle)
    BY <1>3 DEF fs_delete_file
  <2> HIDE DEF changed
  <2>3. PICK o \in Outcomes : /\ root' = IF o = "ok" THEN changed ELSE root
                              /\ call' = Idle /\ expected' = expected
    BY <1>1, <2>2 DEF DirectoryRequest
  <2>4. CASE o = "error"
    <3>1. root' = root
      BY <2>3, <2>4
    <3> QED
      BY <3>1, <1>1, <2>3, InvCallEnds
  <2>5. CASE o = "ok"
    <3>1. root' = changed
      BY <2>3, <2>5
    <3> HIDE DEF gone
    <3> QED
      BY <3>1, <1>1, <2>1, <2>3, InvEntriesDeleted DEF changed
  <2> QED
    BY <2>4, <2>5, RequestOutcomes
<1> QED
  BY <1>2, <1>3

LEMMA InvPowerFails ==
  ASSUME FatInv, PowerFails PROVE FatInv'
BY InvCallEnds DEF PowerFails

LEMMA FatInvNext ==
  ASSUME FatInv, RequestsAnswered, [FatNext]_fatVars
  PROVE  FatInv'
<1>1. ASSUME NEW n \in Names, NEW size \in 0 .. MaxSize, WriteBegins(n, size) PROVE FatInv'
  BY <1>1, InvWriteBegins
<1>2. CASE fs_create_file
  BY <1>2, InvCreate
<1>3. CASE WriteSector
  BY <1>3, InvSectorWritten
<1>4. CASE DataWritten
  BY <1>4, InvDataWritten
<1>5. CASE WriteSize
  BY <1>5, InvWriteSize
<1>6. ASSUME NEW n \in Names, fs_delete_file(n) PROVE FatInv'
  BY <1>6, InvDelete
<1>7. CASE PowerFails
  BY <1>7, InvPowerFails
<1>8. CASE UNCHANGED fatVars
  BY <1>8 DEF fatVars, FatInv, FatTypeOK, OneEntryEach, EntriesHaveClusters,
              NothingBehindEnd, SizeCoversWritten, Kept, WriteUnderWay, FileIsFound,
              SlotsOf, Used, Holds
<1> QED
  BY <1>1, <1>2, <1>3, <1>4, <1>5, <1>6, <1>7, <1>8 DEF FatNext

\* What a read finds follows from what the sectors of the entry are known to
\* have.
LEMMA FatInvIsEnough ==
  ASSUME FatInv
  PROVE  Fat12Sound
<1>1. NamesUnique
  <2> SUFFICES ASSUME NEW n \in Names \ missed PROVE Cardinality(SlotsOf(n)) <= 1
    BY DEF NamesUnique
  <2>1. CASE SlotsOf(n) = {}
    BY <2>1, FS_EmptySet
  <2>2. CASE SlotsOf(n) # {}
    <3>1. PICK s \in SlotsOf(n) : TRUE
      BY <2>2
    <3>2. SlotsOf(n) = {s}
      BY <3>1 DEF FatInv, OneEntryEach, SlotsOf, Used
    <3>3. Cardinality({s}) = 1
      BY FS_Singleton, Zenon
    <3>4. Cardinality(SlotsOf(n)) = 1
      BY <3>2, <3>3
    <3> QED
      BY <3>4
  <2> QED
    BY <2>1, <2>2
<1>2. ReadsBack
  <2> SUFFICES ASSUME NEW n \in Names \ missed, expected[n] # <<>>, Found(n, RootEntries) # {}
               PROVE  Contents(n) = Version(n, expected[n][1], expected[n][2])
    BY DEF ReadsBack
  <2>1. Found(n, RootEntries) \subseteq SlotsOf(n) /\ SlotsOf(n) \subseteq Slots
    BY DEF Found, SlotsOf
  <2> DEFINE s == First(Found(n, RootEntries))
             f == root[s].cluster
             z == root[s].size
             v == expected[n][1]
  <2>2. s \in SlotsOf(n)
    BY <2>1, FirstIsLeast
  <2>3. f \in Int /\ z \in 0 .. MaxSize /\ MaxSize \in Nat
    BY <2>2, EntryParts, FatConstants DEF FatInv, SlotsOf
  <2>4. z = expected[n][2] /\ Holds(f, n, v, z)
    BY <2>2 DEF FatInv, Kept
  <2>5. Contents(n) = [k \in 1 .. z |-> data[f + k - 1]]
    BY DEF Contents
  <2>6. ASSUME NEW k \in 1 .. z PROVE data[f + k - 1] = <<n, v, k - 1>>
    <3> HIDE DEF f, z, v
    <3>1. k - 1 \in 0 .. z - 1 /\ f + (k - 1) = f + k - 1
      BY <2>3
    <3> QED
      BY <3>1, <2>4 DEF Holds
  <2> QED
    <3>1. Version(n, v, z) = [k \in 1 .. z |-> <<n, v, k - 1>>]
      BY DEF Version
    <3> HIDE DEF f, z, v
    <3>2. Contents(n) = Version(n, v, z)
      BY <2>5, <2>6, <3>1
    <3> QED
      BY <3>2, <2>4 DEF v
<1> QED
  BY <1>1, <1>2 DEF FatInv, Fat12Sound

\* Fat12Sound: however writes, deletions, refused requests, sectors of the
\* directory that cannot be read and power failures (fs/fat12.c) come together,
\* nothing is behind the end of the directory, and of every file that the
\* writes found when they looked for it, the name stays unique, the size takes
\* in no sector nobody wrote, and what a read finds is what the last write
\* wrote, if that reported success.
THEOREM DirectoryAgreesWithData ==
  RequestsAnswered => (FatSpec => []Fat12Sound)
<1> SUFFICES ASSUME RequestsAnswered PROVE FatSpec => []Fat12Sound
  OBVIOUS
<1>1. FatInit => FatInv
  BY FatInvInit
<1>2. FatInv /\ [FatNext]_fatVars => FatInv'
  BY FatInvNext
<1>3. FatInv => Fat12Sound
  BY FatInvIsEnough
<1> QED
  BY <1>1, <1>2, <1>3, PTL DEF FatSpec

-----------------------------------------------------------------------------
(***************************************************************************)
(* The bookmarks.                                                          *)
(***************************************************************************)
Keys == {"a", "A"}
Chars == {"a", "A", "LF"}

\* The inductive invariant: a file that is not there is modelled as an empty one,
\* and the address bar keeps room for two more characters.
MarksInv ==
  /\ MarksTypeOK /\ BufferSuffices /\ buffered \in Nat
  /\ ~exists => file = <<>>
  /\ Len(current_url) <= URL_MAX_LEN - 2

\* What is appended to a sequence is what is found behind it.
LEMMA AppendedPart ==
  ASSUME NEW S, NEW s \in Seq(S), NEW t \in Seq(S), t # <<>>
  PROVE  /\ SubSeq(s \o t, 1, Len(s)) = s
         /\ SubSeq(s \o t, Len(s) + 1, Len(s \o t)) = t
<1>1. /\ Len(s) \in Nat /\ Len(t) \in Nat /\ Len(t) > 0 /\ Len(s \o t) = Len(s) + Len(t)
  <2>1. Len(s) \in Nat /\ Len(t) \in Nat
    BY LenProperties
  <2>2. Len(t) # 0
    BY EmptySeq
  <2> QED
    BY <2>1, <2>2, ConcatProperties
<1>2. SubSeq(s \o t, 1, Len(s)) = s
  <2>1. CASE s = <<>>
    <3>1. Len(s) = 0 /\ 0 < 1
      BY <2>1
    <3> QED
      BY <2>1, <3>1, SubSeqEmpty
  <2>2. CASE s # <<>>
    <3>1. 1 \in 1 .. Len(s) /\ Len(s) \in 1 .. Len(s)
      BY <1>1, <2>2, EmptySeq
    <3> QED
      BY <3>1, SubSeqOfConcat1, SubSeqFull
  <2> QED
    BY <2>1, <2>2
<1>3. SubSeq(s \o t, Len(s) + 1, Len(s \o t)) = t
  <2> DEFINE m == Len(s) + 1
             n == Len(s) + Len(t)
  <2>1. m \in Len(s) + 1 .. Len(s) + Len(t) /\ n \in Len(s) + 1 .. Len(s) + Len(t)
    BY <1>1
  <2>2. m - Len(s) = 1 /\ n - Len(s) = Len(t)
    BY <1>1
  <2>3. SubSeq(s \o t, m, n) = SubSeq(t, m - Len(s), n - Len(s))
    BY <2>1, SubSeqOfConcat2
  <2> QED
    BY <1>1, <2>2, <2>3, SubSeqFull
<1> QED
  BY <1>2, <1>3

\* Concatenation of texts.
LEMMA ConcatChars ==
  ASSUME NEW s \in Seq(Chars), NEW t \in Seq(Chars)
  PROVE  /\ s \o t \in Seq(Chars) /\ Len(s \o t) = Len(s) + Len(t)
         /\ Len(s) \in Nat /\ Len(t) \in Nat /\ (Len(s) = 0 <=> s = <<>>)
<1>1. s \o t \in Seq(Chars) /\ Len(s \o t) = Len(s) + Len(t)
  BY ConcatProperties
<1>2. Len(s) \in Nat /\ Len(t) \in Nat
  BY LenProperties
<1>3. Len(s) = 0 <=> s = <<>>
  BY EmptySeq
<1> QED
  BY <1>1, <1>2, <1>3

\* The line that BOOKMARK adds: a newline first, if the file does not end with one.
LineAdded(r) ==
  IF EndsLine(r) THEN current_url \o <<"LF">> ELSE <<"LF">> \o (current_url \o <<"LF">>)

LEMMA BookmarkIsALine ==
  ASSUME MarksInv, NEW r \in Seq(Chars)
  PROVE  /\ WithBookmark(r) = r \o LineAdded(r) /\ LineAdded(r) \in Seq(Chars)
         /\ LineAdded(r) # <<>> /\ WithBookmark(r) \in Seq(Chars)
         /\ Len(WithBookmark(r)) <= Len(r) + Len(current_url) + 2
<1> DEFINE nl == <<"LF">>
           u == current_url
           line == u \o nl
<1>1. nl \in Seq(Chars) /\ Len(nl) = 1 /\ <<>> \in Seq(Chars)
  BY DEF Chars
<1>2. u \in Seq(Chars) /\ Len(u) \in Nat /\ Len(r) \in Nat
  <2>1. u \in Seq(Keys) /\ Keys \subseteq Chars
    BY DEF MarksInv, MarksTypeOK, Keys, Chars
  <2>2. u \in Seq(Chars)
    BY <2>1, SeqMonotonic
  <2> QED
    BY <2>2, LenProperties
<1> HIDE DEF nl, u
<1>3. line \in Seq(Chars) /\ Len(line) = Len(u) + 1 /\ line # <<>>
  <2>1. line \in Seq(Chars) /\ Len(line) = Len(u) + Len(nl)
    BY <1>1, <1>2, ConcatChars
  <2> HIDE DEF line
  <2> QED
    BY <1>1, <1>2, <2>1, ConcatChars
<1>4. nl \o line \in Seq(Chars) /\ Len(nl \o line) = Len(u) + 2 /\ nl \o line # <<>>
  <2> HIDE DEF line
  <2> DEFINE l2 == nl \o line
  <2>1. l2 \in Seq(Chars) /\ Len(l2) = Len(nl) + Len(line)
    BY <1>1, <1>3, ConcatChars
  <2> HIDE DEF l2
  <2>2. Len(l2) = Len(u) + 2 /\ l2 # <<>>
    BY <1>1, <1>2, <1>3, <2>1, ConcatChars
  <2> QED
    BY <2>1, <2>2 DEF l2
<1>5. CASE EndsLine(r)
  <2>1. WithBookmark(r) = ((r \o <<>>) \o u) \o nl
    BY <1>5 DEF WithBookmark, u, nl
  <2>2. WithBookmark(r) = r \o line
    BY <2>1, <1>1, <1>2, ConcatEmptySeq, ConcatAssociative
  <2>3. LineAdded(r) = line
    BY <1>5 DEF LineAdded, u, nl
  <2> HIDE DEF line
  <2>4. r \o line \in Seq(Chars) /\ Len(r \o line) = Len(r) + Len(line)
    BY <1>3, ConcatChars
  <2> QED
    BY <1>2, <1>3, <2>2, <2>3, <2>4 DEF u
<1>6. CASE ~EndsLine(r)
  <2>1. WithBookmark(r) = ((r \o nl) \o u) \o nl
    BY <1>6 DEF WithBookmark, u, nl
  <2>2. (r \o nl) \in Seq(Chars) /\ (r \o nl) \o u \in Seq(Chars)
    BY <1>1, <1>2, ConcatProperties
  <2>3. ((r \o nl) \o u) \o nl = (r \o nl) \o line
    BY <1>1, <1>2, <2>2, ConcatAssociative
  <2>4. LineAdded(r) = nl \o line
    BY <1>6 DEF LineAdded, u, nl
  <2>5. (r \o nl) \o line = r \o (nl \o line)
    <3> HIDE DEF line
    <3> QED  BY <1>1, <1>3, ConcatAssociative
  <2>6. r \o (nl \o line) \in Seq(Chars) /\ Len(r \o (nl \o line)) = Len(r) + (Len(u) + 2)
    <3> DEFINE l2 == nl \o line
    <3>1. l2 \in Seq(Chars) /\ Len(l2) = Len(u) + 2
      BY <1>4
    <3> HIDE DEF l2
    <3>2. r \o l2 \in Seq(Chars) /\ Len(r \o l2) = Len(r) + Len(l2)
      BY <3>1, ConcatChars
    <3> QED
      BY <3>1, <3>2 DEF l2
  <2> HIDE DEF line
  <2> QED
    BY <1>2, <1>4, <2>1, <2>3, <2>4, <2>5, <2>6 DEF u
<1> QED
  BY <1>5, <1>6

\* What BOOKMARK reads is the file, or too long for another line.
LEMMA WholeFileRead ==
  ASSUME MarksInv, current_url # <<>>, RoomForBookmark(Read(FALSE))
  PROVE  Read(FALSE) = file
<1>1. file \in Seq(Chars) /\ Len(file) \in Nat /\ BUF \in Nat /\ Len(current_url) \in Nat
      /\ Len(current_url) > 0 /\ BUF > 2
  <2>1. file \in Seq(Chars) /\ current_url \in Seq(Keys)
    BY DEF MarksInv, MarksTypeOK, Chars, Keys
  <2>2. Len(file) \in Nat /\ Len(current_url) \in Nat
    BY <2>1, LenProperties
  <2>3. Len(current_url) # 0
    BY <2>1, EmptySeq
  <2> QED
    BY <2>1, <2>2, <2>3, BookmarksAssumption
<1>2. CASE ~exists
  BY <1>2 DEF Read, MarksInv
<1>3. CASE exists /\ Len(file) < BUF - 2
  <2>1. Read(FALSE) = SubSeq(file, 1, Len(file))
    BY <1>3 DEF Read
  <2> QED
    BY <1>1, <2>1, SubSeqFull
<1>4. CASE exists /\ ~(Len(file) < BUF - 2)
  <2>1. Read(FALSE) = SubSeq(file, 1, BUF - 2)
    BY <1>4 DEF Read
  <2>2. \A i \in 1 .. BUF - 2 : file[i] \in Chars
    <3>1. \A i \in 1 .. Len(file) : file[i] \in Chars
      BY <1>1, ElementOfSeq
    <3> QED
      BY <1>1, <1>4, <3>1
  <2>3. Len(Read(FALSE)) = BUF - 2
    <3>1. BUF - 2 \in Int /\ 1 <= BUF - 2 /\ (BUF - 2) - 1 + 1 = BUF - 2
      BY <1>1
    <3>2. Len(SubSeq(file, 1, BUF - 2)) = (BUF - 2) - 1 + 1
      BY <2>2, <3>1, SubSeqProperties
    <3> QED
      BY <2>1, <3>1, <3>2
  <2> DEFINE z == Len(Read(FALSE))
             y == Len(current_url)
  <2>4. z = BUF - 2 /\ z + y + 2 < BUF /\ y > 0 /\ y \in Nat /\ BUF \in Nat
    BY <1>1, <2>3 DEF RoomForBookmark
  <2> HIDE DEF z, y
  <2> QED
    BY <2>4
<1> QED
  BY <1>2, <1>3, <1>4

LEMMA MarksInvInit == MarksInit => MarksInv
<1> SUFFICES ASSUME MarksInit PROVE MarksInv
  OBVIOUS
<1>1. current_url = <<>> /\ Len(<<>>) = 0 /\ <<>> \in Seq(Keys)
  BY DEF MarksInit
<1>2. file \in Seq(Chars) /\ Len(file) <= 2
  <2>1. <<>> \in Seq(Chars) /\ <<"a">> \in Seq(Chars) /\ <<"a", "LF">> \in Seq(Chars)
    BY DEF Chars
  <2>2. Len(<<>>) = 0 /\ Len(<<"a">>) = 1 /\ Len(<<"a", "LF">>) = 2
    OBVIOUS
  <2>3. file = <<>> \/ file = <<"a">> \/ file = <<"a", "LF">>
    BY DEF MarksInit
  <2>4. CASE file = <<>>
    BY <2>1, <2>2, <2>4
  <2>5. CASE file = <<"a">>
    BY <2>1, <2>2, <2>5
  <2>6. CASE file = <<"a", "LF">>
    BY <2>1, <2>2, <2>6
  <2> QED
    BY <2>3, <2>4, <2>5, <2>6
<1>3. Len(file) \in Nat /\ URL_MAX_LEN > 2 /\ URL_MAX_LEN \in Nat /\ BUF > 2 /\ BUF \in Nat
  BY <1>2, LenProperties, BookmarksAssumption
<1>4. 0 <= URL_MAX_LEN - 2 /\ 0 <= URL_MAX_LEN - 1 /\ Len(file) < BUF /\ 0 <= BUF
  BY <1>2, <1>3
<1> QED
  BY <1>1, <1>2, <1>4
  DEF MarksInit, MarksInv, MarksTypeOK, BufferSuffices, Keys, Chars

LEMMA UrlHasRoom ==
  ASSUME NEW u \in Seq(Keys), Len(u) <= URL_MAX_LEN - 2
  PROVE  Len(u) <= URL_MAX_LEN - 1
BY LenProperties, BookmarksAssumption

\* A step of the address bar leaves the file alone.
LEMMA MarksInvUrl ==
  ASSUME MarksInv, current_url' \in Seq(Keys), Len(current_url') <= URL_MAX_LEN - 2,
         shift_active' \in BOOLEAN, UNCHANGED <<file, exists, buffered>>,
         status' \in {status, "URL is empty"}
  PROVE  MarksInv' /\ AddsALine
<1>1. Len(current_url') <= URL_MAX_LEN - 1
  BY UrlHasRoom
<1> QED
  BY <1>1 DEF MarksInv, MarksTypeOK, BufferSuffices, AddsALine, Keys

LEMMA MarksInvNext ==
  ASSUME MarksInv, ReadFaults = {}, MarksNext
  PROVE  MarksInv' /\ AddsALine
<1> USE DEF Keys
<1>1. /\ current_url \in Seq(Keys) /\ Len(current_url) \in Nat /\ URL_MAX_LEN \in Nat
      /\ BUF \in Nat /\ Len(current_url) <= URL_MAX_LEN - 2
      /\ shift_active \in BOOLEAN
  BY BookmarksAssumption, LenProperties DEF MarksInv, MarksTypeOK
<1>2. ASSUME NEW pressed \in BOOLEAN, Shift(pressed) PROVE MarksInv' /\ AddsALine
  BY <1>1, <1>2, MarksInvUrl DEF Shift
<1>3. CASE TypeKey
  <2> DEFINE c == IF shift_active THEN "A" ELSE "a"
  <2>1. c \in Keys /\ current_url' = Typed(c)
    BY <1>3 DEF TypeKey
  <2> HIDE DEF c
  <2>2. /\ Append(current_url, c) \in Seq(Keys)
        /\ Len(Append(current_url, c)) = Len(current_url) + 1
    BY <1>1, <2>1, AppendProperties
  <2>3. current_url' \in Seq(Keys) /\ Len(current_url') <= URL_MAX_LEN - 2
    BY <1>1, <2>1, <2>2 DEF Typed
  <2> QED
    BY <1>1, <1>3, <2>3, MarksInvUrl DEF TypeKey
<1>4. CASE Backspace
  <2> DEFINE n == Len(current_url) - 1
  <2>1. n \in Nat /\ current_url' = SubSeq(current_url, 1, n)
    BY <1>1, <1>4, EmptySeq DEF Backspace
  <2>2. \A i \in 1 .. n : current_url[i] \in Keys
    BY <1>1, ElementOfSeq
  <2>3. n <= URL_MAX_LEN - 2
    BY <1>1
  <2> HIDE DEF n
  <2>4. current_url' \in Seq(Keys) /\ Len(current_url') = IF 1 <= n THEN n - 1 + 1 ELSE 0
    BY <2>1, <2>2, SubSeqProperties
  <2>5. Len(current_url') <= URL_MAX_LEN - 2
    BY <1>1, <2>1, <2>3, <2>4
  <2> QED
    BY <1>1, <1>4, <2>4, <2>5, MarksInvUrl DEF Backspace
<1>5. CASE BookmarkNothing
  BY <1>1, <1>5, MarksInvUrl DEF BookmarkNothing
<1>6. CASE Bookmark
  <2> DEFINE r == Read(FALSE)
             w == WithBookmark(r)
  <2>1. /\ current_url # <<>> /\ UNCHANGED <<current_url, shift_active>>
        /\ IF RoomForBookmark(r)
           THEN /\ buffered' = Len(w) + 1
                /\ \/ file' = w /\ exists' = TRUE /\ status' = "Bookmarked!"
                   \/ status' = "Bookmark write err" /\ UNCHANGED <<file, exists>>
           ELSE status' = "Bookmarks full" /\ UNCHANGED <<file, exists, buffered>>
    BY <1>6 DEF Bookmark
  <2>2. CASE ~RoomForBookmark(r)
    BY <1>1, <2>1, <2>2 DEF MarksInv, MarksTypeOK, BufferSuffices, AddsALine
  <2>3. CASE RoomForBookmark(r)
    <3>1. r = file /\ file \in Seq(Chars) /\ Len(file) \in Nat
      BY <2>1, <2>3, WholeFileRead, LenProperties DEF MarksInv, MarksTypeOK, Chars
    <3>2. /\ w = file \o LineAdded(file) /\ LineAdded(file) \in Seq(Chars)
          /\ LineAdded(file) # <<>> /\ w \in Seq(Chars)
          /\ Len(w) <= Len(file) + Len(current_url) + 2
      BY <3>1, BookmarkIsALine
    <3>3. Len(file) + Len(current_url) + 2 < BUF
      BY <2>3, <3>1 DEF RoomForBookmark
    <3> HIDE DEF r, w
    <3>4. Len(w) \in Nat /\ Len(w) < BUF /\ Len(w) + 1 <= BUF /\ Len(w) + 1 \in Nat
      <4>1. Len(w) \in Nat
        BY <3>2, LenProperties
      <4> QED
        BY <4>1, <1>1, <3>1, <3>2, <3>3
    <3>5. CASE file' = w /\ exists' = TRUE /\ status' = "Bookmarked!"
      <4>1. MarksInv'
        BY <1>1, <2>1, <2>3, <3>2, <3>4, <3>5
        DEF MarksInv, MarksTypeOK, BufferSuffices, Chars
      <4>2. /\ SubSeq(w, 1, Len(file)) = file
            /\ SubSeq(w, Len(file) + 1, Len(w)) = LineAdded(file)
        BY <3>1, <3>2, AppendedPart
      <4>3. AddsALine
        BY <3>5, <4>2 DEF AddsALine, LineAdded
      <4> QED
        BY <4>1, <4>3
    <3>6. CASE status' = "Bookmark write err" /\ UNCHANGED <<file, exists>>
      BY <1>1, <2>1, <2>3, <3>4, <3>6 DEF MarksInv, MarksTypeOK, BufferSuffices, AddsALine
    <3> QED
      BY <2>1, <2>3, <3>5, <3>6
  <2> QED
    BY <2>2, <2>3
<1> QED
  BY <1>2, <1>3, <1>4, <1>5, <1>6 DEF MarksNext

\* BookmarksSound: the buffer of browser_bookmark_current suffices for every
\* file and every URL, and as long as the file can be read, a bookmark is a
\* line added behind the earlier ones.
THEOREM BookmarksAreAdded ==
  ReadFaults = {} => (MarksSpec => BookmarksSound)
<1> SUFFICES ASSUME ReadFaults = {} PROVE MarksSpec => BookmarksSound
  OBVIOUS
<1>1. MarksInit => MarksInv
  BY MarksInvInit
<1>2. MarksInv /\ [MarksNext]_marksVars => MarksInv' /\ [AddsALine]_marksVars
  <2> SUFFICES ASSUME MarksInv, [MarksNext]_marksVars
               PROVE  MarksInv' /\ [AddsALine]_marksVars
    OBVIOUS
  <2>1. CASE MarksNext
    BY <2>1, MarksInvNext
  <2>2. CASE UNCHANGED marksVars
    BY <2>2 DEF marksVars, MarksInv, MarksTypeOK, BufferSuffices
  <2> QED
    BY <2>1, <2>2
<1>3. MarksInv => MarksTypeOK /\ BufferSuffices
  BY DEF MarksInv
<1> QED
  BY <1>1, <1>2, <1>3, PTL DEF MarksSpec, BookmarksSound

-----------------------------------------------------------------------------
(***************************************************************************)
(* The screenshot, for every size of the picture and of a sector.          *)
(***************************************************************************)

(* The number of the sector being staged. *)
Staged == lba_cur - FirstLba

(* How many bytes of the bitmap the command has been through. *)
Captured ==
  CASE part = "header"  -> emitted
    [] part = "palette" -> HEADERS + emitted
    [] OTHER            -> HEADERS + PALETTE + (Rows - 1 - row) * Cols + emitted

(* The command is at a byte of the bitmap: each loop within its bounds. *)
InLoop ==
  /\ part \in {"header", "palette", "pixels", "done"}
  /\ emitted \in Nat /\ row \in -1 .. Rows - 1
  /\ part = "header" => emitted <= HEADERS
  /\ part = "palette" => emitted <= PALETTE
  /\ part \in {"header", "palette"} => row = Rows - 1
  /\ part \in {"pixels", "done"} => emitted \in 0 .. Cols - 1
  /\ row < 0 => emitted = 0
  /\ part = "done" => row < 0

(* The stage is the beginning of the sector that follows those written, and
   zeros. *)
StageIsNext ==
  /\ bi \in 0 .. STAGE - 1 /\ lba_cur \in Nat /\ lba_cur >= FirstLba
  /\ stage = [i \in 0 .. STAGE - 1 |->
                IF i < bi THEN Bitmap(frame, Staged * STAGE + i) ELSE <<"zero", 0>>]

(* The sectors written are the bitmap's, and the others are as they were. *)
WrittenSectors ==
  /\ failed \in BOOLEAN
  /\ DOMAIN disk = 1 .. LastLba
  /\ ~failed => \A l \in 1 .. LastLba :
       disk[l] = IF l \in FirstLba .. lba_cur - 1 THEN BitmapSector(frame, l - FirstLba)
                 ELSE <<"old", l>>

(* Before the last flush every byte the command has been through is in the
   stage or on the disk; after it, all of them are on the disk. *)
AllWritten ==
  IF part = "done" THEN bi = 0 /\ Staged = BitmapSectors
  ELSE Staged * STAGE + bi = Captured

ShotInv == InLoop /\ StageIsNext /\ WrittenSectors /\ AllWritten

(* A number is the quotient and the remainder it is put together from. *)
LEMMA QuotientAndRest ==
    ASSUME NEW d \in Nat \ {0}, NEW q \in Nat, NEW r \in 0 .. d - 1
    PROVE  (q * d + r) \div d = q /\ (q * d + r) % d = r
<1> DEFINE n == q * d + r
<1>1. n \in Nat /\ n \div d \in Nat /\ n % d \in 0 .. d - 1 /\ n = (n \div d) * d + (n % d)
  OBVIOUS
<1>2. ASSUME NEW x \in Nat, NEW y \in 0 .. d - 1, q * d + r = x * d + y
      PROVE  x = q /\ y = r
  <2>1. CASE x < q
    <3>1. PICK z \in Nat : q = x + 1 + z
      BY <2>1
    <3>2. q * d = x * d + d + z * d /\ z * d >= 0
      BY <3>1
    <3> QED
      BY <1>2, <3>2
  <2>2. CASE x > q
    <3>1. PICK z \in Nat : x = q + 1 + z
      BY <2>2
    <3>2. x * d = q * d + d + z * d /\ z * d >= 0
      BY <3>1
    <3> QED
      BY <1>2, <3>2
  <2>3. CASE x = q
    BY <1>2, <2>3
  <2> QED
    BY <2>1, <2>2, <2>3
<1> QED
  BY <1>1, <1>2

(* The bytes of the bitmap, by the loop that emits them. *)
LEMMA HeaderByte ==
    ASSUME NEW p, NEW i \in 0 .. HEADERS - 1
    PROVE  Bitmap(p, i) = <<"header", i>>
  BY ScreenshotAssumption DEF Bitmap

LEMMA PaletteByte ==
    ASSUME NEW p, NEW i \in 0 .. PALETTE - 1
    PROVE  Bitmap(p, HEADERS + i) = <<"palette", i>>
  BY ScreenshotAssumption DEF Bitmap

LEMMA PixelByte ==
    ASSUME NEW p, NEW r \in 0 .. Rows - 1, NEW c \in 0 .. Cols - 1
    PROVE  Bitmap(p, HEADERS + PALETTE + (Rows - 1 - r) * Cols + c) = <<"pixel", p[r][c]>>
<1> DEFINE n == Rows - 1 - r
           x == n * Cols + c
           i == HEADERS + PALETTE + x
<1>1. n \in Nat /\ n <= Rows - 1
  BY ScreenshotAssumption
<1>2. x \div Cols = n /\ x % Cols = c
  BY <1>1, QuotientAndRest, ScreenshotAssumption
<1>3. x \in 0 .. Rows * Cols - 1
  <2>1. PICK z \in Nat : Rows = n + 1 + z
    BY <1>1, ScreenshotAssumption
  <2>2. Rows * Cols = n * Cols + Cols + z * Cols /\ z * Cols >= 0 /\ n * Cols >= 0
    BY <1>1, <2>1, ScreenshotAssumption
  <2> QED
    BY <2>2, <1>1, ScreenshotAssumption
<1>4. Rows - 1 - n = r
  BY ScreenshotAssumption
<1>7. i = HEADERS + PALETTE + (Rows - 1 - r) * Cols + c
  BY <1>3, ScreenshotAssumption
<1> HIDE DEF x, n
<1>5. i - HEADERS - PALETTE = x /\ i \notin 0 .. HEADERS - 1 /\ x \notin -PALETTE .. -1
  BY <1>3, ScreenshotAssumption
<1>6. Bitmap(p, i) = <<"pixel", p[r][c]>>
  BY <1>2, <1>3, <1>4, <1>5 DEF Bitmap
<1> QED
  BY <1>6, <1>7

LEMMA ByteBehind ==
    ASSUME NEW p, NEW i \in Nat, i >= BitmapSize
    PROVE  Bitmap(p, i) = <<"zero", 0>>
<1>1. Rows * Cols \in Nat
  BY ScreenshotAssumption
<1> QED
  BY <1>1, ScreenshotAssumption DEF Bitmap, BitmapSize

(* A flush writes the sector whose bytes are in the stage. *)
LEMMA FlushWrites ==
    ASSUME WrittenSectors, lba_cur \in Nat, lba_cur >= FirstLba, frame' = frame,
           NEW s, s = BitmapSector(frame, Staged), Flush(s)
    PROVE  WrittenSectors'
<1>1. PICK refused \in BOOLEAN :
        /\ disk' = IF refused THEN disk ELSE [disk EXCEPT ![lba_cur] = s]
        /\ failed' = (failed \/ refused)
        /\ lba_cur' = lba_cur + 1
  BY DEF Flush
<1>2. DOMAIN disk' = 1 .. LastLba /\ failed' \in BOOLEAN
  BY <1>1 DEF WrittenSectors
<1>4. ASSUME ~failed', NEW l \in 1 .. LastLba
      PROVE  disk'[l] = IF l \in FirstLba .. lba_cur' - 1
                        THEN BitmapSector(frame, l - FirstLba) ELSE <<"old", l>>
  <2>1. ~failed /\ ~refused
    BY <1>1, <1>4 DEF WrittenSectors
  <2>2. disk[l] = IF l \in FirstLba .. lba_cur - 1 THEN BitmapSector(frame, l - FirstLba)
                  ELSE <<"old", l>>
    BY <2>1 DEF WrittenSectors
  <2>3. CASE l = lba_cur
    <3>1. disk'[l] = s
      BY <1>1, <2>1, <2>3 DEF WrittenSectors
    <3>2. l \in FirstLba .. lba_cur' - 1
      BY <1>1, <2>3 DEF FirstLba
    <3> QED
      BY <2>3, <3>1, <3>2 DEF Staged
  <2>4. CASE l # lba_cur
    <3>1. disk'[l] = disk[l]
      BY <1>1, <2>1, <2>4
    <3>2. l \in FirstLba .. lba_cur - 1 <=> l \in FirstLba .. lba_cur' - 1
      BY <1>1, <2>4 DEF FirstLba
    <3> QED
      BY <2>2, <3>1, <3>2
  <2> QED
    BY <2>3, <2>4
<1> QED
  BY <1>2, <1>4 DEF WrittenSectors

(* A flush leaves an empty stage for the next sector. *)
LEMMA FlushEmpties ==
    ASSUME lba_cur \in Nat, lba_cur >= FirstLba, NEW s, Flush(s)
    PROVE  StageIsNext' /\ Staged' = Staged + 1 /\ bi' = 0
<1>1. lba_cur' = lba_cur + 1 /\ bi' = 0
  BY Zenon DEF Flush
<1>2. stage' = [i \in 0 .. STAGE - 1 |-> <<"zero", 0>>]
  BY DEF Flush, Zero
<1>3. lba_cur' \in Nat /\ lba_cur' >= FirstLba /\ Staged' = Staged + 1
  BY <1>1 DEF Staged, FirstLba
<1>4. bi' \in 0 .. STAGE - 1
  BY <1>1, ScreenshotAssumption
<1>5. \A i \in 0 .. STAGE - 1 : ~(i < bi')
  BY <1>1
<1> QED
  BY <1>1, <1>2, <1>3, <1>4, <1>5 DEF StageIsNext

(* BMP_BYTE of the byte that is next. *)
LEMMA ByteStaged ==
    ASSUME StageIsNext, WrittenSectors, frame' = frame,
           BMP_BYTE(Bitmap(frame, Staged * STAGE + bi))
    PROVE  StageIsNext' /\ WrittenSectors' /\ Staged' * STAGE + bi' = Staged * STAGE + bi + 1
<1> DEFINE b == Bitmap(frame, Staged * STAGE + bi)
           s == [stage EXCEPT ![bi] = b]
<1>1. s = [i \in 0 .. STAGE - 1 |->
             IF i < bi + 1 THEN Bitmap(frame, Staged * STAGE + i) ELSE <<"zero", 0>>]
  <2>1. \A i \in 0 .. STAGE - 1 :
          (i < bi + 1 <=> i < bi \/ i = bi) /\ (i = bi => ~(i < bi))
    BY ScreenshotAssumption DEF StageIsNext
  <2> QED
    BY <2>1 DEF StageIsNext
<1>2. CASE bi + 1 = STAGE
  <2>1. Flush(s)
    BY <1>2 DEF BMP_BYTE
  <2>2. s = BitmapSector(frame, Staged)
    <3>1. \A i \in 0 .. STAGE - 1 : i < bi + 1
      BY <1>2, ScreenshotAssumption DEF StageIsNext
    <3> QED
      BY <1>1, <3>1 DEF BitmapSector
  <2>3. StageIsNext' /\ WrittenSectors' /\ Staged' = Staged + 1 /\ bi' = 0
    BY <2>1, <2>2, FlushWrites, FlushEmpties DEF StageIsNext
  <2>4. (Staged + 1) * STAGE + 0 = Staged * STAGE + bi + 1
    <3>1. Staged \in Nat
      BY DEF StageIsNext, Staged, FirstLba
    <3> QED
      BY <1>2, <3>1, ScreenshotAssumption DEF StageIsNext
  <2> QED
    BY <2>3, <2>4
<1>3. CASE bi + 1 # STAGE
  <2>1. stage' = s /\ bi' = bi + 1 /\ UNCHANGED <<disk, lba_cur, failed>>
    BY <1>3 DEF BMP_BYTE
  <2>2. bi + 1 \in 0 .. STAGE - 1
    BY <1>3, ScreenshotAssumption DEF StageIsNext
  <2>3. Staged' = Staged
    BY <2>1 DEF Staged
  <2> HIDE DEF s, b
  <2>4. StageIsNext'
    BY <1>1, <2>1, <2>2, <2>3 DEF StageIsNext
  <2>5. WrittenSectors'
    BY <2>1 DEF WrittenSectors
  <2>6. Staged * STAGE + (bi + 1) = Staged * STAGE + bi + 1
    BY ScreenshotAssumption DEF StageIsNext, Staged, FirstLba
  <2> QED
    BY <2>1, <2>3, <2>4, <2>5, <2>6
<1> QED
  BY <1>2, <1>3

LEMMA InitShot == ShotInit => ShotInv
<1> SUFFICES ASSUME ShotInit PROVE ShotInv
  OBVIOUS
<1>1. InLoop
  BY ScreenshotAssumption DEF ShotInit, InLoop
<1>2. \A i \in 0 .. STAGE - 1 : ~(i < bi)
  BY DEF ShotInit
<1>3. StageIsNext
  BY <1>2, ScreenshotAssumption DEF ShotInit, StageIsNext, Zero, FirstLba
<1>4. WrittenSectors
  <2>1. \A l \in 1 .. LastLba : l \notin FirstLba .. lba_cur - 1
    BY DEF ShotInit, FirstLba
  <2> QED
    BY <2>1 DEF ShotInit, WrittenSectors
<1>5. AllWritten
  BY ScreenshotAssumption DEF ShotInit, AllWritten, Captured, Staged, FirstLba
<1> QED
  BY <1>1, <1>3, <1>4, <1>5 DEF ShotInv

(* The headers and the palette, which are followed by what comes next. *)
LEMMA EmitKeeps ==
    ASSUME ShotInv,
           \/ Emit("header", HEADERS, "palette")
           \/ Emit("palette", PALETTE, "pixels")
    PROVE  ShotInv'
<1> USE DEF ShotInv
<1> DEFINE size == IF part = "header" THEN HEADERS ELSE PALETTE
<1>0. part \in {"header", "palette"} /\ emitted \in Nat /\ emitted <= size /\ row = Rows - 1
  BY DEF Emit, InLoop
<1>1. CASE emitted < size
  <2>1. /\ BMP_BYTE(<<part, emitted>>) /\ emitted' = emitted + 1
        /\ UNCHANGED <<part, frame, row>>
    BY <1>0, <1>1 DEF Emit
  <2>2. <<part, emitted>> = Bitmap(frame, Captured)
    <3>1. CASE part = "header"
      BY <1>0, <1>1, <3>1, HeaderByte, ScreenshotAssumption DEF Captured
    <3>2. CASE part = "palette"
      BY <1>0, <1>1, <3>2, PaletteByte, ScreenshotAssumption DEF Captured
    <3> QED
      BY <1>0, <3>1, <3>2
  <2>3. Captured = Staged * STAGE + bi
    BY <1>0 DEF AllWritten
  <2>4. StageIsNext' /\ WrittenSectors' /\ Staged' * STAGE + bi' = Staged * STAGE + bi + 1
    BY <2>1, <2>2, <2>3, ByteStaged
  <2>5. Captured' = Captured + 1
    BY <1>0, <2>1, ScreenshotAssumption DEF Captured
  <2>6. InLoop'
    BY <1>0, <1>1, <2>1, ScreenshotAssumption DEF InLoop
  <2>7. AllWritten'
    BY <1>0, <2>1, <2>3, <2>4, <2>5 DEF AllWritten
  <2> QED
    BY <2>4, <2>6, <2>7
<1>2. CASE emitted = size
  <2>1. /\ part' = IF part = "header" THEN "palette" ELSE "pixels"
        /\ emitted' = 0 /\ UNCHANGED <<disk, stage, bi, lba_cur, failed, frame, row>>
    BY <1>0, <1>2 DEF Emit
  <2>2. StageIsNext' /\ WrittenSectors' /\ Staged' = Staged
    BY <2>1 DEF StageIsNext, WrittenSectors, Staged
  <2>3. InLoop'
    BY <1>0, <2>1, ScreenshotAssumption DEF InLoop
  <2>4. Captured' = Captured
    BY <1>0, <1>2, <2>1, ScreenshotAssumption DEF Captured
  <2>5. AllWritten'
    BY <1>0, <2>1, <2>2, <2>4 DEF AllWritten
  <2> QED
    BY <2>2, <2>3, <2>5
<1> QED
  BY <1>0, <1>1, <1>2, ScreenshotAssumption

LEMMA PixelKeeps ==
    ASSUME ShotInv, Pixel
    PROVE  ShotInv'
<1> USE DEF ShotInv
<1>0. part = "pixels" /\ row \in 0 .. Rows - 1 /\ emitted \in 0 .. Cols - 1
  BY DEF Pixel, InLoop
<1>1. BMP_BYTE(<<"pixel", frame[row][emitted]>>) /\ UNCHANGED <<frame, part>>
  BY DEF Pixel
<1>2. Captured = HEADERS + PALETTE + (Rows - 1 - row) * Cols + emitted
  BY <1>0 DEF Captured
<1>3. Captured = Staged * STAGE + bi
  BY <1>0 DEF AllWritten
<1>4. <<"pixel", frame[row][emitted]>> = Bitmap(frame, Captured)
  BY <1>0, <1>2, PixelByte
<1>5. StageIsNext' /\ WrittenSectors' /\ Staged' * STAGE + bi' = Staged * STAGE + bi + 1
  BY <1>1, <1>3, <1>4, ByteStaged
<1>6. InLoop' /\ Captured' = Captured + 1
  <2>1. CASE emitted = Cols - 1
    <3>1. emitted' = 0 /\ row' = row - 1
      BY <2>1 DEF Pixel
    <3>2. InLoop'
      BY <1>0, <1>1, <3>1, ScreenshotAssumption DEF InLoop
    <3>3. (Rows - 1 - (row - 1)) * Cols + 0 = (Rows - 1 - row) * Cols + emitted + 1
      BY <1>0, <2>1, ScreenshotAssumption
    <3>4. (Rows - 1 - row) * Cols \in Int /\ (Rows - 1 - (row - 1)) * Cols \in Int
      BY <1>0, ScreenshotAssumption
    <3>5. Captured' = HEADERS + PALETTE + (Rows - 1 - (row - 1)) * Cols + 0
      BY <1>0, <1>1, <3>1 DEF Captured
    <3> QED
      BY <1>0, <1>2, <3>2, <3>3, <3>4, <3>5, ScreenshotAssumption
  <2>2. CASE emitted # Cols - 1
    <3>1. emitted' = emitted + 1 /\ row' = row
      BY <2>2 DEF Pixel
    <3>2. InLoop'
      BY <1>0, <1>1, <2>2, <3>1, ScreenshotAssumption DEF InLoop
    <3>3. (Rows - 1 - row) * Cols \in Int
      BY <1>0, ScreenshotAssumption
    <3>4. Captured' = HEADERS + PALETTE + (Rows - 1 - row) * Cols + (emitted + 1)
      BY <1>0, <1>1, <3>1 DEF Captured
    <3> QED
      BY <1>0, <1>2, <3>2, <3>3, <3>4, ScreenshotAssumption
  <2> QED
    BY <2>1, <2>2
<1>7. AllWritten'
  BY <1>0, <1>1, <1>3, <1>5, <1>6 DEF AllWritten
<1> QED
  BY <1>5, <1>6, <1>7

(* When the rows are through, what is in the stage and the zeros behind it are
   the last sector. *)
LEMMA RestKeeps ==
    ASSUME ShotInv, Rest
    PROVE  ShotInv'
<1> USE DEF ShotInv
<1>0. /\ part = "pixels" /\ row = -1 /\ emitted = 0
      /\ part' = "done" /\ UNCHANGED <<frame, emitted, row>>
  BY DEF Rest, InLoop
<1>1. InLoop'
  BY <1>0, ScreenshotAssumption DEF InLoop
<1>2. Staged * STAGE + bi = BitmapSize
  BY <1>0, ScreenshotAssumption DEF AllWritten, Captured, BitmapSize
<1>3. Staged \in Nat /\ bi \in 0 .. STAGE - 1
  BY DEF StageIsNext, Staged, FirstLba
<1>4. CASE bi > 0
  <2>1. Flush(stage)
    BY <1>4 DEF Rest
  <2>2. stage = BitmapSector(frame, Staged)
    <3>1. \A i \in 0 .. STAGE - 1 : ~(i < bi) => Bitmap(frame, Staged * STAGE + i) = <<"zero", 0>>
      BY <1>2, <1>3, ByteBehind, ScreenshotAssumption
    <3> QED
      BY <3>1 DEF StageIsNext, BitmapSector
  <2>3. WrittenSectors' /\ StageIsNext' /\ Staged' = Staged + 1 /\ bi' = 0
    BY <1>0, <2>1, <2>2, FlushWrites, FlushEmpties DEF StageIsNext
  <2>4. BitmapSectors = Staged + 1
    <3>1. BitmapSize + STAGE - 1 = (Staged + 1) * STAGE + (bi - 1)
      BY <1>2, <1>3, ScreenshotAssumption
    <3>2. Staged + 1 \in Nat /\ bi - 1 \in 0 .. STAGE - 1
      BY <1>3, <1>4, ScreenshotAssumption
    <3>3. ((Staged + 1) * STAGE + (bi - 1)) \div STAGE = Staged + 1
      BY <3>2, QuotientAndRest, ScreenshotAssumption
    <3> QED
      BY <3>1, <3>3 DEF BitmapSectors
  <2>5. AllWritten'
    BY <1>0, <2>3, <2>4 DEF AllWritten, BitmapSectors, BitmapSize
  <2> QED
    BY <1>1, <2>3, <2>5
<1>5. CASE bi = 0
  <2>1. UNCHANGED <<disk, stage, bi, lba_cur, failed>>
    BY <1>5 DEF Rest
  <2>2. StageIsNext' /\ WrittenSectors' /\ Staged' = Staged
    BY <1>0, <2>1 DEF StageIsNext, WrittenSectors, Staged
  <2>3. BitmapSectors = Staged
    <3>1. BitmapSize + STAGE - 1 = Staged * STAGE + (STAGE - 1)
      BY <1>2, <1>3, <1>5, ScreenshotAssumption
    <3> QED
      BY <1>3, <3>1, QuotientAndRest, ScreenshotAssumption DEF BitmapSectors
  <2>4. AllWritten'
    BY <1>0, <1>5, <2>1, <2>2, <2>3 DEF AllWritten, BitmapSectors, BitmapSize
  <2> QED
    BY <1>1, <2>2, <2>4
<1> QED
  BY <1>3, <1>4, <1>5

LEMMA ShotUnchanged == ShotInv /\ UNCHANGED shotVars => ShotInv'
  BY DEF ShotInv, shotVars, InLoop, StageIsNext, WrittenSectors, AllWritten, Captured,
         Staged, BitmapSectors, BitmapSize

LEMMA NextShot == ShotInv /\ [ShotNext]_shotVars => ShotInv'
  BY EmitKeeps, PixelKeeps, RestKeeps, ShotUnchanged DEF ShotNext

(* BitmapSound: what is staged always continues the sectors written, and when
   the command is done, unless the disk refused a request, its sectors hold
   the picture of the screen, padded with zeros, and no other sector has
   changed, whatever the picture and wherever the parts end in a sector. *)
THEOREM BitmapIsThePicture == ShotSpec => []BitmapSound
<1>1. ShotInv => BitmapSound
  <2> SUFFICES ASSUME ShotInv PROVE StageFollowsDisk /\ DiskHoldsBitmap
    BY DEF BitmapSound
  <2>1. StageFollowsDisk
    <3>1. \A i \in 0 .. bi - 1 : i \in 0 .. STAGE - 1 /\ i < bi
      BY ScreenshotAssumption DEF ShotInv, StageIsNext
    <3> QED
      BY <3>1 DEF ShotInv, StageIsNext, StageFollowsDisk, BitmapSector, Staged
  <2>2. DiskHoldsBitmap
    <3> SUFFICES ASSUME part = "done", ~failed PROVE DiskHoldsBitmap
      BY DEF DiskHoldsBitmap
    <3>1. lba_cur - 1 = FirstLba + BitmapSectors - 1
      <4>1. lba_cur \in Nat /\ lba_cur - FirstLba = BitmapSectors
        BY DEF ShotInv, StageIsNext, AllWritten, Staged
      <4> QED
        BY <4>1 DEF FirstLba
    <3>2. \A l \in 1 .. LastLba :
            disk[l] = IF l \in FirstLba .. lba_cur - 1 THEN BitmapSector(frame, l - FirstLba)
                      ELSE <<"old", l>>
      BY DEF ShotInv, WrittenSectors
    <3> QED
      BY <3>1, <3>2, Zenon DEF DiskHoldsBitmap
  <2> QED
    BY <2>1, <2>2
<1> QED
  BY <1>1, InitShot, NextShot, PTL DEF ShotSpec

-----------------------------------------------------------------------------
(***************************************************************************)
(* The package manager.                                                    *)
(***************************************************************************)
\* What the commands that hold a buffer hold, at each of their steps.
HeldAt(c) ==
    IF c \in {"update", "save", "search", "install"} THEN {"db_buf"}
    ELSE IF c \in {"download", "unpack"} THEN {"pkg_buf"} ELSE {}

\* The inductive invariant: which buffer is held follows from where the command
\* is; the cursor is within what was received of an archive, and every file has
\* been cut out of what was received.
PkgInv ==
    /\ live = HeldAt(command)
    /\ package \in Packages
    /\ cursor \in Nat /\ pkg_size \in Nat
    /\ command = "unpack" => cursor <= pkg_size /\ pkg_size <= Archive.length
    /\ \A f \in DOMAIN files :
          /\ files[f].start \in Nat /\ files[f].size \in Nat /\ files[f].received \in Nat
          /\ files[f].start + files[f].size <= files[f].received

LEMMA InitPkg == PkgInit => PkgInv
<1> SUFFICES ASSUME PkgInit PROVE PkgInv
  OBVIOUS
<1>1. << >> \in Seq(Packages) /\ Len(<< >>) = 0
  OBVIOUS
<1>2. files = << >> => DOMAIN files = {}
  BY <1>1
<1> QED
  BY <1>2 DEF PkgInit, PkgInv, HeldAt

\* At a header of a well-packed archive nothing wraps around.
LEMMA NoTurnWraps ==
    ASSUME PkgInv, WellPacked, AtHeader, command = "unpack"
    PROVE  /\ Behind = cursor + HEADER /\ Header.size \in Nat
           /\ Behind + Header.size < Wrap
           /\ (Behind + Header.size) % Wrap = Behind + Header.size
<1> DEFINE next == cursor + HEADER
           size == Header.size
<1>1. /\ Archive.length \in Nat /\ Archive.length + HEADER < Wrap
      /\ size \in 0 .. Wrap - 1 /\ HEADER \in Nat /\ Wrap \in Nat
      /\ cursor \in Nat /\ pkg_size \in Nat
      /\ cursor <= pkg_size /\ pkg_size <= Archive.length
      /\ next + size < Wrap
  BY SqPkgAssumption DEF PkgInv, WellPacked, AtHeader, Archive, Header
<1>2. next \in Nat /\ size \in Nat /\ next < Wrap /\ next + size < Wrap /\ next + size \in Nat
  BY <1>1
<1> HIDE DEF size
<1>3. \A n \in Nat : n < Wrap => n % Wrap = n
  BY <1>1
<1>4. Behind = next
  BY <1>2, <1>3 DEF Behind
<1> HIDE DEF next
<1>5. (next + size) % Wrap = next + size
  BY <1>2, <1>3
<1> QED
  BY <1>2, <1>4, <1>5 DEF next, size

\* One turn of the loop writes what was received and goes on within it.
LEMMA TurnStep == ASSUME PkgInv, WellPacked, UnpackFile PROVE PkgInv'
<1> DEFINE size == Header.size
           new == [start |-> Behind, size |-> size, received |-> pkg_size]
           end == Behind + size
<1>1. /\ command = "unpack" /\ AtHeader /\ HEADER \in Nat
  BY SqPkgAssumption DEF UnpackFile
<1>2. Behind = cursor + HEADER /\ size \in Nat /\ end % Wrap = end
  BY <1>1, NoTurnWraps
<1>3. cursor \in Nat /\ pkg_size \in Nat
  BY DEF PkgInv
<1>4. Behind \in Nat /\ end \in Nat
  BY <1>1, <1>2, <1>3
<1>5. ~(end % Wrap > pkg_size) /\ cursor' = end % Wrap
  BY DEF UnpackFile, Truncated
<1>6. end <= pkg_size /\ cursor' = end
  BY <1>2, <1>3, <1>4, <1>5
<1>7. \A f \in DOMAIN files' : files'[f] = new \/ (f \in DOMAIN files /\ files'[f] = files[f])
  BY Zenon DEF UnpackFile
<1>8. new.start + new.size <= new.received /\ new.start \in Nat /\ new.size \in Nat
      /\ new.received \in Nat
  BY <1>2, <1>3, <1>4, <1>6
<1> HIDE DEF new, size, end
<1>9. \A f \in DOMAIN files' :
          /\ files'[f].start \in Nat /\ files'[f].size \in Nat /\ files'[f].received \in Nat
          /\ files'[f].start + files'[f].size <= files'[f].received
  BY <1>7, <1>8 DEF PkgInv
<1>10. cursor' \in Nat
  BY <1>4, <1>6
<1> QED
  BY <1>3, <1>6, <1>9, <1>10 DEF PkgInv, UnpackFile, Archive

LEMMA PkgStep == ASSUME PkgInv, WellPacked, [PkgNext]_pkgVars PROVE PkgInv'
<1> USE DEF PkgInv, HeldAt, Returns, Goes, unpacking
<1>1. ASSUME NEW c \in {"update", "search", "install"}, Starts(c) PROVE PkgInv'
  BY <1>1 DEF Starts, Archive
<1>2. CASE UpdateDownloads
  BY <1>2 DEF UpdateDownloads, Archive
<1>3. CASE UpdateSaves
  BY <1>3 DEF UpdateSaves, Archive
<1>4. ASSUME NEW query, SearchScans(query) PROVE PkgInv'
  BY <1>4 DEF SearchScans, Archive
<1>5. ASSUME NEW p \in Packages, InstallScans(p) PROVE PkgInv'
  BY <1>5 DEF InstallScans
<1>6. ASSUME NEW p \in Packages, RemovePackage(p) PROVE PkgInv'
  BY <1>6 DEF RemovePackage, Archive
<1>7. CASE InstallAllocates
  BY <1>7 DEF InstallAllocates, Archive
<1>8. CASE InstallDownloads
<2>1. Archive.length \in Nat /\ Archive' = Archive
  BY <1>8, SqPkgAssumption DEF InstallDownloads, Archive
<2>2. CASE command' = "unpack"
  BY <1>8, <2>1, <2>2 DEF InstallDownloads
<2>3. CASE command' # "unpack"
  BY <1>8, <2>3 DEF InstallDownloads
<2> QED
  BY <2>2, <2>3
<1>9. CASE UnpackFile
  BY <1>9, TurnStep
<1>10. CASE UnpackEnds
  BY <1>10 DEF UnpackEnds, Archive
<1>11. CASE UNCHANGED pkgVars
  BY <1>11 DEF pkgVars, Archive
<1> QED
  BY <1>1, <1>2, <1>3, <1>4, <1>5, <1>6, <1>7, <1>8, <1>9, <1>10, <1>11 DEF PkgNext

LEMMA PkgInvIsSound == PkgInv => SqPkgSound
BY DEF PkgInv, HeldAt, SqPkgSound, NothingLeaks, FilesAreWhole, ReadsWhatArrived

\* However a command of sqpkg ends, it has freed its buffers, and installed only
\* files that arrived whole, for archives of any size whose size fields do not
\* reach around 2^32.
THEOREM PackagesAreWhole ==
    ASSUME WellPacked
    PROVE  PkgSpec => []SqPkgSound
<1>1. PkgInit => PkgInv
  BY InitPkg
<1>2. PkgInv /\ [PkgNext]_pkgVars => PkgInv'
  BY PkgStep
<1>3. PkgInv => SqPkgSound
  BY PkgInvIsSound
<1> QED
  BY <1>1, <1>2, <1>3, PTL DEF PkgSpec

-----------------------------------------------------------------------------
(***************************************************************************)
(* The text editor: its buffer and its file, and then the lines it draws.  *)
(***************************************************************************)
\* Characters and positions of the buffer; texts.
NoteChars == {"a", "z", "LF", "NUL"}
Places == 0 .. NOTES_MAX_SIZE - 1

LEMMA BufferSizes == /\ NOTES_MAX_SIZE \in Nat /\ NOTES_MAX_SIZE > 3
                     /\ Buffer = [Places -> NoteChars]
BY NotesAssumption DEF Buffer, Places, NoteChars

LEMMA InitNotes == NotesInit => TextIsKept
<1> SUFFICES ASSUME NotesInit PROVE TextIsKept
  OBVIOUS
<1>1. /\ notes_text = [i \in Places |-> "NUL"] /\ "NUL" \in NoteChars
      /\ notes_text_len = 0 /\ notes_status = "none" /\ torn = FALSE
  BY DEF NotesInit, Places, NoteChars
<1>2. notes_text \in [Places -> NoteChars] /\ 0 \in Places /\ notes_text[0] = "NUL"
  BY <1>1, BufferSizes DEF Places
<1>3. << >> \in Seq(NoteChars) /\ Len(<< >>) = 0
  OBVIOUS
<1>4. <<"a", "LF", "z">> \in Seq(NoteChars) /\ Len(<<"a", "LF", "z">>) = 3
  BY DEF NoteChars
<1>5. /\ notes_file \in Seq(NoteChars) \cup {Absent}
      /\ notes_file # Absent => Len(notes_file) = 0 \/ Len(notes_file) = 3
  <2> DEFINE none == << >>
             short == <<"a", "LF", "z">>
  <2>1. notes_file = Absent \/ notes_file = none \/ notes_file = short
    BY Zenon DEF NotesInit
  <2>2. none \in Seq(NoteChars) /\ Len(none) = 0 /\ short \in Seq(NoteChars) /\ Len(short) = 3
    BY <1>3, <1>4
  <2> HIDE DEF none, short
  <2>3. notes_file \in Seq(NoteChars) \cup {Absent}
    BY <2>1, <2>2
  <2>4. notes_file # Absent => Len(notes_file) = 0 \/ Len(notes_file) = 3
    BY <2>1, <2>2, Zenon
  <2> QED
    BY <2>3, <2>4, Zenon
<1>6. SavedFits
  <2>1. 0 < NOTES_MAX_SIZE /\ 3 < NOTES_MAX_SIZE
    BY BufferSizes
  <2> QED
    BY <1>5, <2>1, Zenon DEF SavedFits
<1> QED
  BY <1>1, <1>2, <1>5, <1>6, BufferSizes DEF TextIsKept, NotesTypeOK, TextEnds, NoteChars, Places

\* Reading copies what fits, and the NUL behind it lies in the buffer.
LEMMA ReadFits ==
    ASSUME NEW f \in Seq(NoteChars)
    PROVE  /\ Reads(f) \in 0 .. NOTES_MAX_SIZE - 1 /\ Reads(f) <= Len(f)
BY BufferSizes DEF Reads, Least

LEMMA CopyTyped ==
    ASSUME NEW f \in Seq(NoteChars), NEW n \in Nat, n <= Len(f), notes_text \in [Places -> NoteChars]
    PROVE  Copied(f, n) \in [Places -> NoteChars]
<1>1. ASSUME NEW i \in Places, i < n PROVE f[i + 1] \in NoteChars
  BY <1>1, ElementOfSeq, BufferSizes DEF Places
<1>2. \A i \in Places : (IF i < n THEN f[i + 1] ELSE notes_text[i]) \in NoteChars
  BY <1>1
<1>3. DOMAIN notes_text = Places
  OBVIOUS
<1> QED
  BY <1>2, <1>3 DEF Copied

LEMMA OpenedFits ==
    ASSUME NotesTypeOK, NEW f, f \in Seq(NoteChars) \/ f = Absent, Opened(f)
    PROVE  /\ notes_text' \in Buffer /\ notes_text_len' \in 0 .. NOTES_MAX_SIZE - 1
           /\ TextEnds' /\ torn' = FALSE
<1>1. f \in Seq(NoteChars)
  BY DEF Opened
<1>2. Reads(f) \in Places /\ Reads(f) <= Len(f) /\ Reads(f) \in Nat
  BY <1>1, ReadFits, BufferSizes DEF Places
<1>3. Copied(f, Reads(f)) \in [Places -> NoteChars]
  BY <1>1, <1>2, CopyTyped, BufferSizes DEF NotesTypeOK
<1>4. notes_text' = [Copied(f, Reads(f)) EXCEPT ![Reads(f)] = "NUL"] /\ notes_text_len' = Reads(f)
      /\ torn' = FALSE
  BY DEF Opened, Terminated
<1> DEFINE copy == Copied(f, Reads(f))
<1> HIDE DEF copy
<1>5. notes_text' = [copy EXCEPT ![Reads(f)] = "NUL"] /\ copy \in [Places -> NoteChars]
  BY <1>3, <1>4 DEF copy
<1>6. notes_text' \in [Places -> NoteChars] /\ notes_text'[Reads(f)] = "NUL"
  BY <1>2, <1>5 DEF NoteChars
<1> QED
  BY <1>2, <1>4, <1>6, BufferSizes DEF TextEnds, Places

\* A read that fails leaves some sectors copied, or none.
LEMMA FailureTyped ==
    ASSUME NotesTypeOK, NEW f, f \in Seq(NoteChars) \/ f = Absent, NEW n \in ReadFailures(f)
    PROVE  /\ Copied(f, n) \in [Places -> NoteChars]
           /\ n = 0 => Copied(f, n) = notes_text
<1>1. notes_text \in [Places -> NoteChars] /\ DOMAIN notes_text = Places
  BY BufferSizes DEF NotesTypeOK
<1>2. n = 0 => Copied(f, n) = notes_text
  <2> SUFFICES ASSUME n = 0 PROVE Copied(f, n) = notes_text
    OBVIOUS
  <2>1. \A i \in Places : ~(i < n)
    BY BufferSizes DEF Places
  <2>2. Copied(f, n) = [i \in Places |-> notes_text[i]]
    BY <1>1, <2>1 DEF Copied
  <2> QED
    BY <1>1, <2>2
<1>3. CASE n = 0
  BY <1>1, <1>2, <1>3
<1>4. CASE n # 0
  <2>1. f \in Seq(NoteChars) /\ n \in 0 .. Reads(f) - 1
    BY <1>4 DEF ReadFailures
  <2>2. n \in Nat /\ n <= Len(f)
    BY <2>1, ReadFits, BufferSizes
  <2> QED
    BY <1>1, <1>4, <2>1, <2>2, CopyTyped
<1> QED
  BY <1>3, <1>4

LEMMA OtherTyped == Other \in Seq(NoteChars)
BY NotesAssumption DEF NoteChars

LEMMA OpenStep == ASSUME TextIsKept, notes_open PROVE TextIsKept'
<1>1. NotesTypeOK /\ (notes_file \in Seq(NoteChars) \/ notes_file = Absent) /\ UNCHANGED notes_file
  BY DEF TextIsKept, NotesTypeOK, NoteChars, notes_open
<1>2. SavedFits'
  BY <1>1 DEF TextIsKept, SavedFits
<1>3. CASE Opened(notes_file) /\ notes_status' = "Loaded successfully"
  BY <1>1, <1>2, <1>3, OpenedFits DEF TextIsKept, NotesTypeOK
<1>4. ASSUME NEW n \in ReadFailures(notes_file), notes_text' = Copied(notes_file, n),
             notes_status' = "No note found", torn' = (torn \/ n # 0), UNCHANGED notes_text_len
      PROVE  TextIsKept'
  <2>1. notes_text' \in Buffer
    BY <1>1, <1>4, FailureTyped, BufferSizes
  <2>2. ~torn' => TextEnds'
    <3> SUFFICES ASSUME ~torn' PROVE TextEnds'
      OBVIOUS
    <3>1. ~torn /\ n = 0
      BY <1>4
    <3>2. notes_text' = notes_text
      BY <1>1, <1>4, <3>1, FailureTyped
    <3> QED
      BY <1>4, <3>1, <3>2 DEF TextIsKept, TextEnds
  <2>3. torn' \in BOOLEAN
    BY <1>4
  <2> QED
    BY <1>1, <1>2, <1>4, <2>1, <2>2, <2>3 DEF TextIsKept, NotesTypeOK
<1> QED
  BY <1>3, <1>4 DEF notes_open

\* The buffer with a NUL at its beginning.
LEMMA Cleared ==
    ASSUME NEW buf \in [Places -> NoteChars]
    PROVE  /\ [buf EXCEPT ![0] = "NUL"] \in [Places -> NoteChars]
           /\ [buf EXCEPT ![0] = "NUL"][0] = "NUL"
BY BufferSizes DEF Places, NoteChars

LEMMA OtherStep == ASSUME TextIsKept, OpenOther PROVE TextIsKept'
<1>1. /\ NotesTypeOK /\ UNCHANGED <<notes_status, notes_file>>
  BY DEF TextIsKept, OpenOther
<1>2. SavedFits'
  BY <1>1 DEF TextIsKept, SavedFits
<1>3. CASE Opened(Other)
  BY <1>1, <1>2, <1>3, OpenedFits, OtherTyped DEF TextIsKept, NotesTypeOK
<1>4. ASSUME NEW n \in ReadFailures(Other), notes_text_len' = 0, torn' = FALSE,
             notes_text' = [Copied(Other, n) EXCEPT ![0] = "NUL"]
      PROVE  TextIsKept'
  <2>1. Copied(Other, n) \in [Places -> NoteChars]
    BY <1>1, <1>4, FailureTyped, OtherTyped
  <2>2. notes_text' \in Buffer /\ notes_text'[0] = "NUL"
    BY <1>4, <2>1, Cleared, BufferSizes
  <2>3. notes_text_len' \in 0 .. NOTES_MAX_SIZE - 1 /\ TextEnds'
    BY <1>4, <2>2, BufferSizes DEF TextEnds
  <2> QED
    BY <1>1, <1>2, <1>4, <2>2, <2>3 DEF TextIsKept, NotesTypeOK
<1> QED
  BY <1>3, <1>4 DEF OpenOther

\* What SAVE writes is shorter than the buffer, also when it breaks off.
LEMMA SaveStep == ASSUME TextIsKept, notes_save PROVE TextIsKept'
<1>1. /\ NotesTypeOK /\ UNCHANGED <<notes_text, notes_text_len, torn>>
      /\ notes_text_len \in 0 .. NOTES_MAX_SIZE - 1 /\ notes_text \in [Places -> NoteChars]
      /\ notes_file \in Seq(NoteChars) \cup {Absent}
  BY BufferSizes DEF TextIsKept, notes_save, NotesTypeOK, NoteChars
<1>2. Text \in Seq(NoteChars) /\ Len(Text) = notes_text_len /\ Len(Text) < NOTES_MAX_SIZE
  <2>1. \A i \in 1 .. notes_text_len : notes_text[i - 1] \in NoteChars
    BY <1>1, BufferSizes DEF Places
  <2>2. notes_text_len \in Nat
    BY <1>1, BufferSizes
  <2> QED
    BY <1>1, <2>1, <2>2, BufferSizes DEF Text
<1>3. ~torn' => TextEnds'
  BY <1>1 DEF TextIsKept, TextEnds
<1>4. CASE notes_file' = Text /\ notes_status' = "Saved successfully"
  BY <1>1, <1>2, <1>3, <1>4 DEF TextIsKept, NotesTypeOK, SavedFits, NoteChars
<1>5. ASSUME NEW n \in 0 .. notes_text_len, notes_status' = "Save failed",
             notes_file' \in IF notes_file = Absent THEN {Absent, <<>>}
                             ELSE {[i \in DOMAIN notes_file |->
                                      IF i <= n THEN Text[i] ELSE notes_file[i]]}
      PROVE  TextIsKept'
  <2>1. CASE notes_file = Absent
    <3>1. notes_file' \in {Absent, <<>>}
      BY <1>5, <2>1
    <3>2. CASE notes_file' = Absent
      BY <1>1, <1>3, <1>5, <3>2 DEF TextIsKept, NotesTypeOK, SavedFits
    <3>3. CASE notes_file' = <<>>
      <4>1. <<>> \in Seq(NoteChars) /\ Len(<<>>) = 0 /\ 0 < NOTES_MAX_SIZE
        BY BufferSizes
      <4>2. notes_file' \in Seq(NoteChars) /\ Len(notes_file') < NOTES_MAX_SIZE
        BY <4>1, <3>3
      <4> QED
        BY <1>1, <1>3, <1>5, <4>2 DEF TextIsKept, NotesTypeOK, SavedFits, NoteChars
    <3> QED
      BY <3>1, <3>2, <3>3
  <2>2. CASE notes_file # Absent
    <3>1. notes_file \in Seq(NoteChars) /\ Len(notes_file) \in Nat /\ Len(notes_file) < NOTES_MAX_SIZE
          /\ DOMAIN notes_file = 1 .. Len(notes_file)
      BY <1>1, <2>2 DEF TextIsKept, SavedFits
    <3>2. \A i \in 1 .. Len(notes_file) :
             i <= n => i \in 1 .. Len(Text) /\ Text[i] \in NoteChars
      <4> DEFINE text == Text
      <4>1. text \in Seq(NoteChars) /\ Len(text) = notes_text_len /\ notes_text_len \in Nat
        BY <1>1, <1>2, BufferSizes
      <4> HIDE DEF text
      <4>2. \A i \in 1 .. Len(notes_file) : i <= n => i \in 1 .. Len(text) /\ text[i] \in NoteChars
        <5>1. \A i \in 1 .. Len(notes_file) : i <= n => i \in 1 .. Len(text)
          BY <3>1, <4>1
        <5>2. \A i \in 1 .. Len(text) : text[i] \in NoteChars
          BY <4>1, ElementOfSeq
        <5> QED
          BY <5>1, <5>2
      <4> QED
        BY <4>2 DEF text
    <3>3. \A i \in 1 .. Len(notes_file) : notes_file[i] \in NoteChars
      BY <3>1, ElementOfSeq
    <3>4. notes_file' = [i \in 1 .. Len(notes_file) |-> IF i <= n THEN Text[i] ELSE notes_file[i]]
      BY <1>5, <2>2, <3>1
    <3> DEFINE kept(i) == IF i <= n THEN Text[i] ELSE notes_file[i]
    <3>5. \A i \in 1 .. Len(notes_file) : kept(i) \in NoteChars
      BY <3>2, <3>3
    <3> HIDE DEF kept
    <3>6. notes_file' = [i \in 1 .. Len(notes_file) |-> kept(i)]
      BY <3>4 DEF kept
    <3>7. notes_file' \in Seq(NoteChars) /\ Len(notes_file') = Len(notes_file)
      BY <3>1, <3>5, <3>6
    <3> QED
      BY <1>1, <1>3, <1>5, <3>1, <3>7 DEF TextIsKept, NotesTypeOK, SavedFits, NoteChars
  <2> QED
    BY <2>1, <2>2
<1> QED
  BY <1>4, <1>5 DEF notes_save

LEMMA ClearStep == ASSUME TextIsKept, notes_clear PROVE TextIsKept'
<1>1. notes_text' \in Buffer /\ notes_text'[0] = "NUL"
  BY Cleared, BufferSizes DEF TextIsKept, NotesTypeOK, notes_clear
<1>2. notes_text_len' \in 0 .. NOTES_MAX_SIZE - 1 /\ TextEnds'
  BY <1>1, BufferSizes DEF TextEnds, notes_clear
<1>3. SavedFits' /\ UNCHANGED notes_file /\ torn' = FALSE
  BY DEF TextIsKept, SavedFits, notes_clear
<1> QED
  BY <1>1, <1>2, <1>3 DEF TextIsKept, NotesTypeOK, notes_clear

\* A key keeps room for the NUL.
LEMMA KeyStep == ASSUME TextIsKept, notes_handle_key PROVE TextIsKept'
<1>1. /\ UNCHANGED notes_file /\ notes_status' = "none"
      /\ notes_text_len \in 0 .. NOTES_MAX_SIZE - 1 /\ notes_text \in [Places -> NoteChars]
  BY BufferSizes DEF TextIsKept, NotesTypeOK, notes_handle_key
<1>2. SavedFits'
  BY <1>1 DEF TextIsKept, SavedFits
<1>3. ASSUME NEW c \in {"a", "LF"}, Insert(c) PROVE TextIsKept'
  <2> DEFINE n == notes_text_len
  <2>1. n \in Places /\ n + 1 \in Places /\ n # n + 1 /\ n + 1 \in 0 .. NOTES_MAX_SIZE - 1
    BY <1>1, <1>3, BufferSizes DEF Insert, HasRoom, Places
  <2>2. notes_text' = [notes_text EXCEPT ![n] = c, ![n + 1] = "NUL"] /\ notes_text_len' = n + 1
        /\ torn' = FALSE
    BY <1>3 DEF Insert
  <2>3. c \in NoteChars /\ "NUL" \in NoteChars
    BY DEF NoteChars
  <2> HIDE DEF n
  <2>4. notes_text' \in [Places -> NoteChars] /\ notes_text'[n + 1] = "NUL"
    BY <1>1, <2>1, <2>2, <2>3
  <2> QED
    BY <1>1, <1>2, <2>1, <2>2, <2>4, BufferSizes DEF TextIsKept, NotesTypeOK, TextEnds
<1>4. CASE Erase
  <2> DEFINE n == notes_text_len - 1
  <2>1. n \in Places /\ n \in 0 .. NOTES_MAX_SIZE - 1
    BY <1>1, <1>4, BufferSizes DEF Erase, Places
  <2>2. notes_text' = [notes_text EXCEPT ![n] = "NUL"] /\ notes_text_len' = n
        /\ torn' = FALSE
    BY <1>4 DEF Erase
  <2> HIDE DEF n
  <2>3. notes_text' \in [Places -> NoteChars] /\ notes_text'[n] = "NUL"
    BY <1>1, <2>1, <2>2 DEF NoteChars
  <2> QED
    BY <1>1, <1>2, <2>1, <2>2, <2>3, BufferSizes DEF TextIsKept, NotesTypeOK, TextEnds
<1>5. CASE UNCHANGED <<notes_text, notes_text_len, torn>>
  BY <1>1, <1>2, <1>5 DEF TextIsKept, NotesTypeOK, TextEnds
<1> QED
  BY <1>3, <1>4, <1>5 DEF notes_handle_key

\* Whatever is typed, opened, saved and broken off: the text ends at its length
\* unless a read failed, and a file that was saved can be opened whole, for a
\* buffer of any size.
THEOREM EditorKeepsTheText == NotesSpec => []TextIsKept
<1>1. TextIsKept /\ [NotesNext]_notesVars => TextIsKept'
  <2> SUFFICES ASSUME TextIsKept, [NotesNext]_notesVars PROVE TextIsKept'
    OBVIOUS
  <2>1. CASE UNCHANGED notesVars
    BY <2>1 DEF notesVars, TextIsKept, NotesTypeOK, SavedFits, TextEnds
  <2> QED
    BY <2>1, OpenStep, OtherStep, SaveStep, ClearStep, KeyStep DEF NotesNext
<1> QED
  BY <1>1, InitNotes, PTL DEF NotesSpec

\* The drawing.  The loop of draw_notes_content is a recursive function of the
\* number of characters it has seen; it has the values its definition gives.
Scan == [lines : Seq(Seq(NoteChars)), line : Seq(NoteChars), ended : BOOLEAN]
NothingSeen == [lines |-> <<>>, line |-> <<>>, ended |-> FALSE]

LEMMA DrawStepTyped ==
    ASSUME NEW s \in Scan, NEW c \in NoteChars
    PROVE  DrawStep(s, c) \in Scan
<1>1. s.lines \in Seq(Seq(NoteChars)) /\ s.line \in Seq(NoteChars)
  BY DEF Scan
<1>2. Append(s.lines, s.line) \in Seq(Seq(NoteChars)) /\ Append(s.line, c) \in Seq(NoteChars)
  BY <1>1
<1>3. << >> \in Seq(NoteChars)
  OBVIOUS
<1>4. CASE s.ended
  BY <1>4 DEF DrawStep
<1>5. CASE ~s.ended /\ (c \in {"LF", "NUL"} \/ LineFull(s.line))
  BY <1>2, <1>3, <1>5 DEF DrawStep, Scan
<1>6. CASE ~s.ended /\ ~(c \in {"LF", "NUL"} \/ LineFull(s.line))
  BY <1>1, <1>2, <1>6 DEF DrawStep, Scan
<1> QED
  BY <1>4, <1>5, <1>6

LEMMA DrawingIs ==
    ASSUME NotesTypeOK
    PROVE  /\ Drawing \in [0 .. notes_text_len + 1 -> Scan]
           /\ Drawing[0] = NothingSeen
           /\ \A i \in 1 .. notes_text_len + 1 :
                 Drawing[i] = DrawStep(Drawing[i - 1], notes_text[i - 1])
<1> DEFINE n == notes_text_len + 1
           step == [i \in 1 .. n |-> [s \in Scan |-> DrawStep(s, notes_text[i - 1])]]
           Is(g) == g = [i \in 0 .. n |-> IF i = 0 THEN NothingSeen
                                          ELSE DrawStep(g[i - 1], notes_text[i - 1])]
<1>1. n \in Nat /\ \A i \in 1 .. n : i - 1 \in 0 .. n /\ notes_text[i - 1] \in NoteChars
  <2>0. notes_text \in Buffer /\ notes_text_len \in 0 .. NOTES_MAX_SIZE - 1
    BY Zenon DEF NotesTypeOK
  <2>1. notes_text \in [Places -> NoteChars] /\ n \in 1 .. NOTES_MAX_SIZE
    BY <2>0, BufferSizes
  <2> HIDE DEF n
  <2>2. \A i \in 1 .. n : i - 1 \in Places /\ i - 1 \in 0 .. n
    BY <2>1, BufferSizes DEF Places
  <2> QED
    BY <2>1, <2>2
<1>2. NothingSeen \in Scan
  <2>1. << >> \in Seq(NoteChars) /\ << >> \in Seq(Seq(NoteChars))
    OBVIOUS
  <2> QED
    BY <2>1 DEF NothingSeen, Scan
<1>3. step \in [1 .. n -> [Scan -> Scan]]
  BY <1>1, DrawStepTyped
<1>4. \E g : Is(g)
  <2> HIDE DEF step, n
  <2>0. PICK f : IsLoop(f, n, Scan, NothingSeen, step)
    BY <1>1, <1>2, <1>3, LoopExists
  <2>1. /\ f \in [0 .. n -> Scan]
        /\ f[0] = NothingSeen /\ \A i \in 1 .. n : f[i] = step[i][f[i - 1]]
    BY <2>0 DEF IsLoop
  <2>2. \A i \in 1 .. n : f[i] = DrawStep(f[i - 1], notes_text[i - 1])
    <3> SUFFICES ASSUME NEW i \in 1 .. n PROVE f[i] = DrawStep(f[i - 1], notes_text[i - 1])
      OBVIOUS
    <3>1. f[i - 1] \in Scan
      BY <1>1, <2>1
    <3> QED
      BY <2>1, <3>1 DEF step
  <2>3. \A i \in 0 .. n : f[i] = IF i = 0 THEN NothingSeen
                                 ELSE DrawStep(f[i - 1], notes_text[i - 1])
    <3> SUFFICES ASSUME NEW i \in 0 .. n, i # 0 PROVE i \in 1 .. n
      BY <2>1, <2>2
    <3> QED
      BY <1>1
  <2>4. Is(f)
    BY <2>1, <2>3
  <2> QED
    BY <2>4
<1>5. Is(Drawing)
  BY <1>4, Zenon DEF Drawing, NothingSeen
<1>6. Drawing[0] = NothingSeen
  BY <1>1, <1>5
<1>7. ASSUME NEW i \in 1 .. n PROVE Drawing[i] = DrawStep(Drawing[i - 1], notes_text[i - 1])
  BY <1>1, <1>5
<1>8. \A i \in 0 .. n : Drawing[i] \in Scan
  <2> DEFINE P == {i \in 0 .. n : Drawing[i] \in Scan}
  <2>1. 0 \in P
    BY <1>1, <1>2, <1>6
  <2>2. ASSUME NEW i \in 1 .. n, i - 1 \in P PROVE i \in P
    BY <1>1, <1>7, <2>2, DrawStepTyped
  <2>3. \A i \in 0 .. n : i \in P
    <3> HIDE DEF P, n
    <3> QED
      BY <1>1, <2>1, <2>2, InductionTo
  <2> QED
    BY <2>3
<1>9. Drawing \in [0 .. n -> Scan]
  BY <1>5, <1>8
<1> QED
  BY <1>6, <1>7, <1>9

\* A line that begins at a position of the buffer, and the lines that b places
\* one behind the other from position 0 on.
LineAt(line, from) ==
    /\ Len(line) <= LINE_MAX
    /\ \A j \in 1 .. Len(line) : line[j] = notes_text[from + j - 1] /\ line[j] # "LF"

Placed(b, ls) ==
    /\ b \in [0 .. Len(ls) -> Nat] /\ b[0] = 0
    /\ \A k \in 1 .. Len(ls) :
          /\ b[k] = b[k - 1] + Len(ls[k]) + 1
          /\ LineAt(ls[k], b[k - 1])

\* Every line that has ended was full or ended at a newline.
EndedWell(b, ls) ==
    \A k \in 1 .. Len(ls) : notes_text[b[k] - 1] = "LF" \/ LineFull(ls[k])

\* What the loop has made of the first i characters, none of them a NUL.
ScanIsText(s, i) ==
    /\ ~s.ended
    /\ \E b : /\ Placed(b, s.lines) /\ EndedWell(b, s.lines)
              /\ b[Len(s.lines)] + Len(s.line) = i
              /\ LineAt(s.line, b[Len(s.lines)])

\* One more line, wherever it ends.
Further(b, n, line) == [k \in 0 .. n + 1 |-> IF k <= n THEN b[k] ELSE b[n] + Len(line) + 1]

OneMore(b, c, ls, line, all) ==
    /\ Placed(c, all) /\ Len(all) = Len(ls) + 1
    /\ \A k \in 0 .. Len(ls) : c[k] = b[k]
    /\ \A k \in 1 .. Len(ls) : all[k] = ls[k]
    /\ c[Len(ls) + 1] = b[Len(ls)] + Len(line) + 1 /\ all[Len(ls) + 1] = line

LEMMA PlaceOneMore ==
    ASSUME NEW ls \in Seq(Seq(NoteChars)), NEW line \in Seq(NoteChars), NEW b,
           Placed(b, ls), LineAt(line, b[Len(ls)])
    PROVE  OneMore(b, Further(b, Len(ls), line), ls, line, Append(ls, line))
<1> DEFINE all == Append(ls, line)
           n == Len(ls)
           c == Further(b, n, line)
<1>1. n \in Nat /\ Len(line) \in Nat
  OBVIOUS
<1>2. /\ all \in Seq(Seq(NoteChars)) /\ Len(all) = n + 1
      /\ \A k \in 1 .. n : all[k] = ls[k]
      /\ all[n + 1] = line
  OBVIOUS
<1>3. b \in [0 .. n -> Nat]
  BY DEF Placed
<1> HIDE DEF n, all
<1>4. /\ c \in [0 .. n + 1 -> Nat]
      /\ \A k \in 0 .. n : c[k] = b[k]
      /\ c[n + 1] = b[n] + Len(line) + 1
  <2>1. \A k \in 0 .. n + 1 : k <= n => k \in 0 .. n
    BY <1>1
  <2>2. \A k \in 0 .. n + 1 : (IF k <= n THEN b[k] ELSE b[n] + Len(line) + 1) \in Nat
    BY <1>1, <1>3, <2>1
  <2>3. n \in 0 .. n + 1 /\ n + 1 \in 0 .. n + 1 /\ ~(n + 1 <= n)
        /\ \A k \in 0 .. n : k \in 0 .. n + 1 /\ k <= n
    BY <1>1
  <2> QED
    BY <2>2, <2>3 DEF Further
<1> HIDE DEF c
<1>5. ASSUME NEW k \in 1 .. n + 1
      PROVE  c[k] = c[k - 1] + Len(all[k]) + 1 /\ LineAt(all[k], c[k - 1])
  <2>1. CASE k \in 1 .. n
    <3>1. k \in 0 .. n /\ k - 1 \in 0 .. n
      BY <1>1, <2>1
    <3>2. b[k] = b[k - 1] + Len(ls[k]) + 1 /\ LineAt(ls[k], b[k - 1])
      BY <2>1 DEF Placed, n
    <3> QED
      BY <1>2, <1>4, <2>1, <3>1, <3>2
  <2>2. CASE k = n + 1
    <3>1. k - 1 = n /\ n \in 0 .. n
      BY <1>1, <2>2
    <3>2. LineAt(line, b[n])
      BY DEF n
    <3> QED
      BY <1>2, <1>4, <2>2, <3>1, <3>2
  <2> QED
    BY <1>1, <2>1, <2>2
<1>6. c[0] = 0
  BY <1>1, <1>4 DEF Placed
<1>7. Placed(c, all)
  BY <1>2, <1>4, <1>5, <1>6 DEF Placed
<1> QED
  BY <1>2, <1>4, <1>7 DEF c, n, all, OneMore

\* The lines when the NUL at position e has been seen.
LinesAreText(ls, e) ==
    \E b : /\ Placed(b, ls) /\ b[Len(ls)] = e + 1
          /\ \A k \in 1 .. Len(ls) - 1 : notes_text[b[k] - 1] = "LF" \/ LineFull(ls[k])

LEMMA ScanGoesOn ==
    ASSUME NEW s \in Scan, NEW i \in Nat, ScanIsText(s, i), notes_text[i] \in NoteChars \ {"NUL"}
    PROVE  ScanIsText(DrawStep(s, notes_text[i]), i + 1)
<1> DEFINE c == notes_text[i]
           n == Len(s.lines)
           t == DrawStep(s, c)
<1>1. s.lines \in Seq(Seq(NoteChars)) /\ s.line \in Seq(NoteChars) /\ ~s.ended
  BY DEF Scan, ScanIsText
<1>2. PICK b : /\ Placed(b, s.lines) /\ EndedWell(b, s.lines)
               /\ b[n] + Len(s.line) = i /\ LineAt(s.line, b[n])
  BY DEF ScanIsText
<1>3. n \in Nat /\ Len(s.line) \in Nat /\ b[n] \in Nat
  <2>1. n \in Nat /\ Len(s.line) \in Nat
    BY <1>1
  <2>2. b \in [0 .. n -> Nat]
    BY <1>2 DEF Placed
  <2> HIDE DEF n
  <2> QED
    BY <2>1, <2>2
<1>4. CASE c = "LF" \/ LineFull(s.line)
  <2> DEFINE all == Append(s.lines, s.line)
             d == Further(b, n, s.line)
  <2>1. t = [lines |-> all, line |-> <<>>, ended |-> FALSE]
    BY <1>1, <1>4 DEF DrawStep, NoteChars
  <2>2. /\ Placed(d, all) /\ Len(all) = n + 1
        /\ \A k \in 0 .. n : d[k] = b[k]
        /\ \A k \in 1 .. n : all[k] = s.lines[k]
        /\ d[n + 1] = b[n] + Len(s.line) + 1 /\ all[n + 1] = s.line
    BY <1>1, <1>2, PlaceOneMore DEF OneMore
  <2>3. << >> \in Seq(NoteChars) /\ Len(<< >>) = 0
    OBVIOUS
  <2> DEFINE none == << >>
  <2> HIDE DEF all, d, t, none
  <2>4. d[n + 1] = i + 1
    BY <1>2, <1>3, <2>2
  <2>5. EndedWell(d, all)
    <3> SUFFICES ASSUME NEW k \in 1 .. n + 1
                 PROVE  notes_text[d[k] - 1] = "LF" \/ LineFull(all[k])
      BY <2>2 DEF EndedWell
    <3>1. CASE k \in 1 .. n
      <4>1. k \in 0 .. n
        BY <1>3, <3>1
      <4> QED
        BY <1>2, <2>2, <3>1, <4>1 DEF EndedWell
    <3>2. CASE k = n + 1
      <4>1. d[k] - 1 = i
        BY <2>4, <3>2
      <4> QED
        BY <1>4, <2>2, <3>2, <4>1
    <3> QED
      BY <1>3, <3>1, <3>2
  <2>6. LineAt(none, d[n + 1])
    <3>1. LINE_MAX \in Nat /\ Len(none) = 0 /\ 0 <= LINE_MAX
      BY <2>3, NotesAssumption DEF none
    <3>2. \A j \in 1 .. Len(none) : FALSE
      BY <3>1
    <3>3. Len(none) <= LINE_MAX
      BY <3>1
    <3> QED
      BY <3>2, <3>3 DEF LineAt
  <2>7. d[n + 1] + Len(none) = i + 1
    BY <2>3, <2>4 DEF none
  <2>8. t.lines = all /\ t.line = none /\ t.ended = FALSE
    BY <2>1 DEF none
  <2>9. /\ Placed(d, t.lines) /\ EndedWell(d, t.lines)
        /\ d[Len(t.lines)] + Len(t.line) = i + 1 /\ LineAt(t.line, d[Len(t.lines)])
    BY <2>2, <2>5, <2>6, <2>7, <2>8
  <2>10. ScanIsText(t, i + 1)
    BY <2>8, <2>9 DEF ScanIsText
  <2> QED
    BY <2>10 DEF t
<1>5. CASE ~(c = "LF" \/ LineFull(s.line))
  <2> DEFINE longer == Append(s.line, c)
  <2>1. t = [s EXCEPT !.line = longer]
    BY <1>1, <1>5 DEF DrawStep, NoteChars
  <2>2. t.lines = s.lines /\ t.line = longer /\ ~t.ended
    BY <1>1, <2>1 DEF Scan
  <2>3. /\ Len(longer) = Len(s.line) + 1 /\ longer[Len(s.line) + 1] = c
        /\ \A j \in 1 .. Len(s.line) : longer[j] = s.line[j]
    BY <1>1
  <2> HIDE DEF longer, t
  <2>4. LineAt(longer, b[n])
    <3>1. Len(longer) <= LINE_MAX
      BY <1>3, <1>5, <2>3, NotesAssumption DEF LineFull
    <3>2. ASSUME NEW j \in 1 .. Len(longer)
          PROVE  longer[j] = notes_text[b[n] + j - 1] /\ longer[j] # "LF"
      <4>1. CASE j \in 1 .. Len(s.line)
        BY <1>2, <2>3, <4>1 DEF LineAt
      <4>2. CASE j = Len(s.line) + 1
        <5>1. b[n] + j - 1 = i
          BY <1>2, <1>3, <4>2
        <5> QED
          BY <1>5, <2>3, <4>2, <5>1
      <4> QED
        BY <1>3, <2>3, <4>1, <4>2
    <3> QED
      BY <3>1, <3>2 DEF LineAt
  <2>5. b[n] + Len(longer) = i + 1
    BY <1>2, <1>3, <2>3
  <2>6. ScanIsText(t, i + 1)
    BY <1>2, <2>2, <2>4, <2>5 DEF ScanIsText
  <2> QED
    BY <2>6 DEF t
<1> QED
  BY <1>4, <1>5

LEMMA ScanEnds ==
    ASSUME NEW s \in Scan, NEW i \in Nat, ScanIsText(s, i), notes_text[i] = "NUL"
    PROVE  LET t == DrawStep(s, notes_text[i]) IN t.ended /\ LinesAreText(t.lines, i)
<1> DEFINE n == Len(s.lines)
           t == DrawStep(s, notes_text[i])
           all == Append(s.lines, s.line)
<1>1. s.lines \in Seq(Seq(NoteChars)) /\ s.line \in Seq(NoteChars) /\ ~s.ended
  BY DEF Scan, ScanIsText
<1>2. PICK b : /\ Placed(b, s.lines) /\ EndedWell(b, s.lines)
               /\ b[n] + Len(s.line) = i /\ LineAt(s.line, b[n])
  BY DEF ScanIsText
<1>3. n \in Nat /\ Len(s.line) \in Nat /\ b[n] \in Nat
  <2>1. n \in Nat /\ Len(s.line) \in Nat
    BY <1>1
  <2>2. b \in [0 .. n -> Nat]
    BY <1>2 DEF Placed
  <2> HIDE DEF n
  <2> QED
    BY <2>1, <2>2
<1> DEFINE d == Further(b, n, s.line)
<1>4. t.lines = all /\ t.ended
  BY <1>1 DEF DrawStep
<1> HIDE DEF t
<1>5. /\ Placed(d, all) /\ Len(all) = n + 1
      /\ \A k \in 0 .. n : d[k] = b[k]
      /\ \A k \in 1 .. n : all[k] = s.lines[k]
      /\ d[n + 1] = b[n] + Len(s.line) + 1
  <2>1. OneMore(b, Further(b, Len(s.lines), s.line), s.lines, s.line, Append(s.lines, s.line))
    BY <1>1, <1>2, PlaceOneMore
  <2> QED
    BY <2>1 DEF OneMore
<1> HIDE DEF all, d
<1>6. d[Len(all)] = i + 1
  BY <1>2, <1>3, <1>5
<1>7. ASSUME NEW k \in 1 .. Len(all) - 1
      PROVE  notes_text[d[k] - 1] = "LF" \/ LineFull(all[k])
  <2>1. k \in 1 .. n /\ k \in 0 .. n
    BY <1>3, <1>5
  <2> QED
    BY <1>2, <1>5, <2>1 DEF EndedWell
<1>8. LinesAreText(all, i)
  BY <1>5, <1>6, <1>7 DEF LinesAreText
<1> QED
  BY <1>4, <1>8 DEF t

\* The first NUL of a text that ends.
LEMMA EndIs ==
    ASSUME NotesTypeOK, TextEnds
    PROVE  /\ NulAt \in 0 .. notes_text_len /\ notes_text[NulAt] = "NUL"
           /\ \A k \in 0 .. NulAt - 1 : notes_text[k] \in NoteChars \ {"NUL"}
<1>1. notes_text \in Buffer /\ notes_text_len \in 0 .. NOTES_MAX_SIZE - 1
  BY Zenon DEF NotesTypeOK
<1> DEFINE Nuls == {e \in 0 .. notes_text_len : notes_text[e] = "NUL"}
           IsEnd(e) == /\ notes_text[e] = "NUL"
                       /\ \A k \in 0 .. e - 1 : notes_text[k] # "NUL"
<1>2. notes_text_len \in Nuls /\ Nuls \subseteq Nat
  BY <1>1, BufferSizes DEF TextEnds
<1>3. PICK e \in Nuls : \A d \in Nuls : ~(<<d, e>> \in OpToRel(<, Nat))
  BY <1>2, NatLessThanWellFounded, WFMin
<1>4. ASSUME NEW k \in 0 .. e - 1 PROVE notes_text[k] # "NUL"
  <2>0. e \in Nat /\ notes_text_len \in Nat /\ e <= notes_text_len
    <3>1. notes_text_len \in Nat
      BY <1>1, BufferSizes
    <3>2. e \in 0 .. notes_text_len
      BY <1>3
    <3> HIDE DEF Nuls
    <3> QED
      BY <3>1, <3>2
  <2>1. k < e /\ k \in Nat /\ e \in Nat /\ k \in 0 .. notes_text_len
    BY <2>0
  <2> QED
    BY <1>3, <2>1 DEF OpToRel
<1>5. \E x \in 0 .. notes_text_len : IsEnd(x)
  BY <1>3, <1>4
<1>6. NulAt = CHOOSE x \in 0 .. notes_text_len : IsEnd(x)
  BY DEF NulAt
<1>7. NulAt \in 0 .. notes_text_len /\ IsEnd(NulAt)
  <2> HIDE DEF IsEnd
  <2> QED
    BY <1>5, <1>6
<1>8. ASSUME NEW k \in 0 .. NulAt - 1 PROVE notes_text[k] \in NoteChars \ {"NUL"}
  <2>1. k \in Places
    BY <1>1, <1>7, BufferSizes DEF Places
  <2>2. notes_text[k] \in NoteChars
    BY <1>1, <2>1, BufferSizes
  <2> QED
    BY <1>7, <2>2
<1> QED
  BY <1>7, <1>8

\* The positions a scan ends with are those the definition of From counts.
LEMMA FromIs ==
    ASSUME NEW b, Drawn \in Seq(Seq(NoteChars)), Placed(b, Drawn)
    PROVE  \A k \in 0 .. Len(Drawn) : From[k] = b[k]
<1> DEFINE n == Len(Drawn)
           Is(g) == g = [i \in 0 .. n |-> IF i = 0 THEN 0 ELSE g[i - 1] + Len(Drawn[i]) + 1]
<1>1. n \in Nat
  OBVIOUS
<1>2. /\ b \in [0 .. n -> Nat] /\ b[0] = 0
      /\ \A k \in 1 .. n : b[k] = b[k - 1] + Len(Drawn[k]) + 1
  BY DEF Placed
<1> HIDE DEF n
<1>3. Is(b)
  <2>1. \A i \in 0 .. n : b[i] = IF i = 0 THEN 0 ELSE b[i - 1] + Len(Drawn[i]) + 1
    <3> SUFFICES ASSUME NEW i \in 0 .. n, i # 0 PROVE i \in 1 .. n
      BY <1>2
    <3> QED
      BY <1>1
  <2> QED
    BY <1>2, <2>1
<1>4. Is(From)
  BY <1>3, Zenon DEF From, n
<1> DEFINE P == {k \in 0 .. n : From[k] = b[k]}
<1>5. 0 \in P
  <2>1. 0 \in 0 .. n
    BY <1>1
  <2>2. From[0] = IF 0 = 0 THEN 0 ELSE From[0 - 1] + Len(Drawn[0]) + 1
    BY <1>4, <2>1, Zenon
  <2> QED
    BY <1>2, <2>1, <2>2
<1>6. ASSUME NEW i \in 1 .. n, i - 1 \in P PROVE i \in P
  <2>1. i \in 0 .. n /\ i # 0
    BY <1>1
  <2>2. From[i] = IF i = 0 THEN 0 ELSE From[i - 1] + Len(Drawn[i]) + 1
    BY <1>4, <2>1, Zenon
  <2>3. From[i - 1] = b[i - 1]
    BY <1>6
  <2>4. From[i] = b[i]
    BY <1>2, <2>1, <2>2, <2>3
  <2> QED
    BY <2>1, <2>4
<1>7. \A i \in 0 .. n : i \in P
  <2> HIDE DEF P
  <2> QED
    BY <1>1, <1>5, <1>6, InductionTo
<1> QED
  BY <1>7 DEF n

\* What is drawn is the text.
LEMMA DrawnIsText == ASSUME NotesTypeOK, TextEnds PROVE LinesAreTheText
<1> DEFINE n == notes_text_len
<1>1. /\ n \in Nat /\ NulAt \in 0 .. n /\ notes_text[NulAt] = "NUL"
      /\ \A k \in 0 .. NulAt - 1 : notes_text[k] \in NoteChars \ {"NUL"}
  <2>1. n \in 0 .. NOTES_MAX_SIZE - 1
    BY Zenon DEF NotesTypeOK
  <2> QED
    BY <2>1, EndIs, BufferSizes
<1>2. /\ Drawing \in [0 .. n + 1 -> Scan] /\ Drawing[0] = NothingSeen
      /\ \A i \in 1 .. n + 1 : Drawing[i] = DrawStep(Drawing[i - 1], notes_text[i - 1])
  BY DrawingIs
<1> HIDE DEF n
<1>3. ScanIsText(NothingSeen, 0)
  <2> DEFINE none == << >>
             noLines == << >>
             b == [k \in 0 .. 0 |-> 0]
  <2>1. Len(none) = 0 /\ Len(noLines) = 0
    OBVIOUS
  <2>2. NothingSeen.lines = noLines /\ NothingSeen.line = none /\ ~NothingSeen.ended
    BY DEF NothingSeen
  <2>3. b \in [0 .. 0 -> Nat] /\ b[0] = 0
    OBVIOUS
  <2> HIDE DEF none, noLines, b
  <2>4. Placed(b, noLines) /\ EndedWell(b, noLines)
    BY <2>1, <2>3 DEF Placed, EndedWell
  <2>5. LineAt(none, b[0])
    BY <2>1, NotesAssumption DEF LineAt
  <2>6. b[Len(noLines)] + Len(none) = 0 /\ LineAt(none, b[Len(noLines)])
    BY <2>1, <2>3, <2>5
  <2> QED
    BY <2>2, <2>4, <2>6 DEF ScanIsText
<1>4. \A i \in 0 .. NulAt : ScanIsText(Drawing[i], i)
  <2> DEFINE P == {i \in 0 .. NulAt : ScanIsText(Drawing[i], i)}
  <2>1. 0 \in P
    BY <1>1, <1>2, <1>3
  <2>2. ASSUME NEW i \in 1 .. NulAt, i - 1 \in P PROVE i \in P
    <3>1. i - 1 \in Nat /\ i - 1 \in 0 .. n + 1 /\ i \in 1 .. n + 1 /\ i - 1 \in 0 .. NulAt - 1
          /\ (i - 1) + 1 = i /\ i \in 0 .. NulAt
      BY <1>1
    <3>2. Drawing[i - 1] \in Scan /\ ScanIsText(Drawing[i - 1], i - 1)
      BY <1>2, <2>2, <3>1
    <3>3. ScanIsText(DrawStep(Drawing[i - 1], notes_text[i - 1]), (i - 1) + 1)
      BY <1>1, <3>1, <3>2, ScanGoesOn
    <3> QED
      BY <1>2, <3>1, <3>3
  <2>3. \A i \in 0 .. NulAt : i \in P
    <3> HIDE DEF P
    <3>1. NulAt \in Nat
      BY <1>1
    <3> QED
      BY <2>1, <2>2, <3>1, InductionTo
  <2> QED
    BY <2>3
<1> DEFINE e == NulAt + 1
<1>5. Drawing[e].ended /\ LinesAreText(Drawing[e].lines, NulAt)
  <2>1. NulAt \in Nat /\ NulAt \in 0 .. NulAt /\ NulAt \in 0 .. n + 1 /\ e \in 1 .. n + 1 /\ e - 1 = NulAt
    BY <1>1
  <2>2. Drawing[NulAt] \in Scan /\ ScanIsText(Drawing[NulAt], NulAt)
    BY <1>2, <1>4, <2>1
  <2>3. Drawing[e] = DrawStep(Drawing[NulAt], notes_text[NulAt])
    BY <1>2, <2>1
  <2> HIDE DEF e
  <2> QED
    BY <1>1, <2>1, <2>2, <2>3, ScanEnds
\* Behind the NUL the loop has stopped.
<1>6. Drawing[n + 1] = Drawing[e]
  <2> DEFINE P == {i \in 0 .. n - NulAt : Drawing[e + i] = Drawing[e]}
  <2>1. n - NulAt \in Nat /\ e \in Nat /\ e + (n - NulAt) = n + 1
    BY <1>1
  <2> HIDE DEF e
  <2>2. 0 \in P
    <3>1. e + 0 = e /\ 0 \in 0 .. n - NulAt
      BY <2>1
    <3> QED
      BY <3>1
  <2>3. ASSUME NEW i \in 1 .. n - NulAt, i - 1 \in P PROVE i \in P
    <3>1. e + i \in 1 .. n + 1 /\ (e + i) - 1 = e + (i - 1) /\ i \in 0 .. n - NulAt
      BY <1>1, <2>1 DEF e
    <3>2. Drawing[e + i] = DrawStep(Drawing[e], notes_text[(e + i) - 1])
      BY <1>2, <2>3, <3>1
    <3>3. Drawing[e + i] = Drawing[e]
      BY <1>5, <3>2 DEF DrawStep
    <3> QED
      BY <3>1, <3>3
  <2>4. \A i \in 0 .. n - NulAt : i \in P
    <3> HIDE DEF P
    <3> QED
      BY <2>1, <2>2, <2>3, InductionTo
  <2>5. n - NulAt \in 0 .. n - NulAt
    BY <2>1
  <2>6. Drawing[e + (n - NulAt)] = Drawing[e]
    BY <2>4, <2>5
  <2> QED
    BY <2>1, <2>6
<1>7. Drawn \in Seq(Seq(NoteChars)) /\ LinesAreText(Drawn, NulAt)
  <2>1. Drawn = Drawing[n + 1].lines
    BY DEF Drawn, n
  <2>2. n + 1 \in 0 .. n + 1
    BY <1>1
  <2>3. Drawing[n + 1].lines \in Seq(Seq(NoteChars))
    BY <1>2, <2>2 DEF Scan
  <2> QED
    BY <1>5, <1>6, <2>1, <2>3
<1>8. PICK b : /\ Placed(b, Drawn) /\ b[Len(Drawn)] = NulAt + 1
               /\ \A k \in 1 .. Len(Drawn) - 1 :
                     notes_text[b[k] - 1] = "LF" \/ LineFull(Drawn[k])
  BY <1>7 DEF LinesAreText
<1>9. \A k \in 0 .. Len(Drawn) : From[k] = b[k]
  BY <1>7, <1>8, FromIs
<1> DEFINE ls == Drawn
           m == Len(ls)
<1>10. m \in Nat /\ \A k \in 0 .. m : From[k] = b[k]
  BY <1>7, <1>9
<1>11. ASSUME NEW i \in 1 .. m
       PROVE  /\ Len(ls[i]) <= LINE_MAX
              /\ \A j \in 1 .. Len(ls[i]) :
                   ls[i][j] = notes_text[From[i - 1] + j - 1] /\ ls[i][j] # "LF"
              /\ i < m => notes_text[From[i] - 1] = "LF" \/ LineFull(ls[i])
  <2>1. LineAt(ls[i], b[i - 1])
    BY <1>8 DEF Placed
  <2>2. i < m => notes_text[b[i] - 1] = "LF" \/ LineFull(ls[i])
    <3> SUFFICES ASSUME i < m PROVE i \in 1 .. m - 1
      BY <1>8
    <3> HIDE DEF m
    <3> QED
      BY <1>10
  <2> HIDE DEF ls, m
  <2>3. From[i - 1] = b[i - 1] /\ From[i] = b[i]
    <3>1. i - 1 \in 0 .. m /\ i \in 0 .. m
      BY <1>10
    <3> QED
      BY <1>10, <3>1
  <2> QED
    BY <2>1, <2>2, <2>3 DEF LineAt
<1>12. From[m] = NulAt + 1
  <2>1. m \in 0 .. m
    BY <1>10
  <2> QED
    BY <1>8, <1>10, <2>1
<1> QED
  BY <1>11, <1>12 DEF LinesAreTheText

\* Whatever is typed, opened, saved and broken off, for a buffer and lines of any
\* size: what the editor draws is the text it would save, but for the characters
\* that full lines end at (draw_notes_content), and what it saves it can open.
THEOREM EditorIsSound == NotesSpec => []NotesSound
<1>1. TextIsKept => NotesSound
  BY DrawnIsText DEF NotesSound, TextIsKept
<1> QED
  BY <1>1, EditorKeepsTheText, PTL

=============================================================================
