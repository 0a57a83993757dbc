-------------------------------- MODULE Fat32 --------------------------------
(***************************************************************************)
(* The file system (src/filesystem/fat32.c): clusters on a disk, an        *)
(* allocation table that chains them, directory tables whose entries point *)
(* at the first cluster of a file or of another directory.                 *)
(*                                                                         *)
(* A call runs with interrupts off, yet each of its disk writes is a step  *)
(* of its own: what is on the disk between two of them is what a machine   *)
(* switched off there finds when it starts again.  disk and fat are on the *)
(* disk; job holds the locals of the call, its copy of the table included. *)
(***************************************************************************)
EXTENDS Integers, SequencesExt

CONSTANTS
  CLUSTER_COUNT,         \* clusters of the disk
  ROOT_CLUSTER_NUMBER,   \* after cluster 0 and those that hold the table
  ENTRY_COUNT,           \* entries of a directory in one cluster
  CLUSTER_SIZE,          \* bytes of a cluster
  FOLDER_SIZE,           \* what a directory counts for in sizes: 32
  SIZE_LIMIT,            \* sizes are computed modulo this: 2^32
  END_OF_FILE,
  Names, Exts, NoExt,    \* names; extensions; the empty one
  FileSizes              \* sizes of the files written

ASSUME FatAssumption ==
  /\ ROOT_CLUSTER_NUMBER \in 2 .. CLUSTER_COUNT - 1
  /\ CLUSTER_COUNT \in Nat /\ END_OF_FILE \in Nat /\ END_OF_FILE >= CLUSTER_COUNT
  /\ ENTRY_COUNT \in Nat \ {0} /\ CLUSTER_SIZE \in Nat \ {0}
  /\ SIZE_LIMIT \in Nat \ {0} /\ FOLDER_SIZE \in 0 .. SIZE_LIMIT - 1
  /\ FileSizes \subseteq 1 .. SIZE_LIMIT - 1
  /\ "" \notin Names

VARIABLES disk, fat, job
fsVars == <<disk, fat, job>>

Cluster == 0 .. CLUSTER_COUNT - 1
Slot == 0 .. ENTRY_COUNT - 1

\* struct FAT32DriverRequest; buffer_size 0 stands for a directory.  The bytes
\* of buf are known by the file they are written for.  A file may go without
\* an extension, as the shell's own does, and then has the key of a directory.
Request ==
  [parent : Cluster, name : Names, ext : {NoExt}, buffer_size : {0}] \cup
  [parent : Cluster, name : Names, ext : Exts, buffer_size : FileSizes]

-----------------------------------------------------------------------------
(* What a cluster holds *)

Zero == [kind |-> "zero"]
Signature == [kind |-> "signature"]
Data(r, part) == [kind |-> "data", parent |-> r.parent, name |-> r.name, ext |-> r.ext, part |-> part]

emptyEntry == [name |-> "", ext |-> NoExt, directory |-> FALSE, cluster_number |-> 0, size |-> 0]

Table(info) == [kind |-> "table", info |-> info, entry |-> [i \in Slot |-> emptyEntry]]

Info(base, actual, number, size) ==
  [parent_base_cluster |-> base, parent_actual_cluster |-> actual,
   entry_number |-> number, size |-> size]

EntryAt(d, at) == IF d[at[1]].kind = "table" THEN d[at[1]].entry[at[2]] ELSE emptyEntry

WithEntry(d, at, e) == [d EXCEPT ![at[1]].entry[at[2]] = e]

IsDirectory(d, c) == d[c].kind = "table"

\* The directories that callers can name: they come from an entry.
IsFolder(d, c) ==
  \/ c = ROOT_CLUSTER_NUMBER
  \/ \E b \in Cluster : IsDirectory(d, b) /\ \E i \in Slot :
       d[b].entry[i].directory /\ d[b].entry[i].cluster_number = c
-----------------------------------------------------------------------------
(* Chains and searches *)

\* The clusters of a chain in order.  A chain is no longer than the disk.
Chain(f, c) ==
  LET at[n \in 1 .. CLUSTER_COUNT] ==
        IF n = 1 THEN c
        ELSE IF at[n - 1] = END_OF_FILE THEN END_OF_FILE ELSE f[at[n - 1]]
  IN  [n \in {m \in 1 .. CLUSTER_COUNT : at[m] # END_OF_FILE} |-> at[n]]

Clusters(f, c) == ToSet(Chain(f, c))

\* The places of a directory, in the order in which every search goes.
Places(f, c) ==
  LET s == Chain(f, c)
  IN  [k \in 1 .. Len(s) * ENTRY_COUNT |->
        <<s[(k - 1) \div ENTRY_COUNT + 1], (k - 1) % ENTRY_COUNT>>]

\* The first place with such an entry, as a sequence of one, or none.
First(d, f, c, Such(_)) ==
  LET s     == Places(f, c)
      found == {k \in DOMAIN s : Such(EntryAt(d, s[k]))}
  IN  IF found = {} THEN <<>> ELSE <<s[Min(found)]>>

\* Faulty: the extension is never compared.
SelfPlaceByName(d, f, r) == First(d, f, r.parent, LAMBDA e : e.name = r.name)

\* get_self_entry, and the search at the end of delete: for a directory the
\* name alone decides.
SelfPlace(d, f, r) ==
  First(d, f, r.parent, LAMBDA e : e.name = r.name /\ (r.buffer_size = 0 \/ e.ext = r.ext))

name_exists(d, f, r) == First(d, f, r.parent, LAMBDA e : e.name = r.name /\ e.ext = r.ext) # <<>>

FreePlace(d, f, c) == First(d, f, c, LAMBDA e : e = emptyEntry)

UsedPlace(d, f, c) == First(d, f, c, LAMBDA e : e # emptyEntry)

FreeAfter(f, c) == CHOOSE i \in Cluster : i > c /\ f[i] = 0 /\ \A j \in c + 1 .. i - 1 : f[j] # 0
-----------------------------------------------------------------------------
(* Reading *)

self_directory_info(d, f, c) == [k \in DOMAIN Chain(f, c) |-> d[Chain(f, c)[k]]]

\* What an entry stands for: its size and its clusters.
Contents(d, f, e) == <<e.size, self_directory_info(d, f, e.cluster_number)>>

get_self_entry(d, f, r) ==
  LET at == SelfPlace(d, f, r) IN IF at = <<>> THEN emptyEntry ELSE EntryAt(d, at[1])

\* What stands in retval.content when there is nothing to read, 0 otherwise.
ReadCode(d, f, r, directory) ==
  CASE r.parent < 2 \/ ~IsDirectory(d, r.parent) -> 2
    [] r.parent >= 2 /\ IsDirectory(d, r.parent) /\ ~name_exists(d, f, r) -> 1
    [] OTHER -> IF get_self_entry(d, f, r).directory = directory THEN 0 ELSE 3

read(d, f, r) ==
  IF ReadCode(d, f, r, FALSE) = 0 THEN Contents(d, f, get_self_entry(d, f, r)) ELSE <<>>

read_directory(d, f, r) ==
  IF ReadCode(d, f, r, TRUE) = 0
  THEN self_directory_info(d, f, get_self_entry(d, f, r).cluster_number)
  ELSE <<>>

\* What load puts into the memory of a new process.
load(d, f, r) ==
  LET self == get_self_entry(d, f, r)
  IN  IF self = emptyEntry \/ r.buffer_size < self.size THEN <<>> ELSE Contents(d, f, self)[2]
-----------------------------------------------------------------------------
(* Sizes *)

\* A directory and those it lies in, up to the root.
Lineage(d, c) ==
  LET upto[n \in 0 .. CLUSTER_COUNT] ==
        IF n = 0 THEN {c}
        ELSE UNION {{b, d[b].info.parent_base_cluster} : b \in upto[n - 1]}
  IN  upto[CLUSTER_COUNT]

Counted(r) == IF r.buffer_size = 0 THEN FOLDER_SIZE ELSE r.buffer_size

\* Faulty: sizes do not wrap.
ResizedRaw(n, change) == n + change

Resized(n, change) == (n + change) % SIZE_LIMIT

\* update_size: every directory of the lineage, in all its clusters, and the
\* entry of every one but the root in the directory above.
update_size(d, f, r, sign) ==
  LET line   == Lineage(d, r.parent)
      tables == UNION {Clusters(f, c) : c \in line}
      places == {<<d[c].info.parent_actual_cluster, d[c].info.entry_number>> :
                   c \in line \ {ROOT_CLUSTER_NUMBER}}
      change == sign * Counted(r)
  IN  [c \in Cluster |->
        IF ~IsDirectory(d, c) THEN d[c]
        ELSE [d[c] EXCEPT
               !.info.size = IF c \in tables THEN Resized(@, change) ELSE @,
               !.entry = [i \in Slot |->
                 IF <<c, i>> \in places THEN [d[c].entry[i] EXCEPT !.size = Resized(@, change)]
                 ELSE d[c].entry[i]]]]
-----------------------------------------------------------------------------
Idle == [pc |-> "idle"]

\* initialize_filesystem_fat32 on an empty drive, up to the write of its
\* system directory, which is a write like any other.
FsInit ==
  /\ disk = [c \in Cluster |->
       IF c = 0 THEN Signature
       ELSE IF c = ROOT_CLUSTER_NUMBER
            THEN Table(Info(ROOT_CLUSTER_NUMBER, ROOT_CLUSTER_NUMBER, 0, FOLDER_SIZE))
            ELSE Zero]
  /\ fat = [c \in Cluster |->
       IF c \in {0, ROOT_CLUSTER_NUMBER - 1, ROOT_CLUSTER_NUMBER} THEN END_OF_FILE
       ELSE IF c < ROOT_CLUSTER_NUMBER THEN c + 1 ELSE 0]
  /\ job = Idle

is_empty_storage == disk[0] # Signature
-----------------------------------------------------------------------------
(* write *)

\* Bound: nobody fills the disk.  The code would run past the end of its table.
HasRoom(r) ==
  Cardinality({c \in Cluster : fat[c] = 0}) >= r.buffer_size \div CLUSTER_SIZE + 2

Refused(r) ==
  r.parent < 2 \/ ~IsDirectory(disk, r.parent) \/ name_exists(disk, fat, r)

\* The call returns 1 or 2.
WriteRefuse(r) == job = Idle /\ Refused(r) /\ UNCHANGED fsVars

WriteBegin(r) ==
  /\ job = Idle /\ ~Refused(r) /\ IsFolder(disk, r.parent) /\ HasRoom(r)
  /\ disk' = update_size(disk, fat, r, 1)
  /\ job' = [pc |-> "allocate", request |-> r, fat |-> fat, size |-> r.buffer_size,
             cachedindex |-> ROOT_CLUSTER_NUMBER, startCluster |-> 0, index |-> 0, at |-> <<>>]
  /\ UNCHANGED fat

\* One round of the loop: the next free cluster gets its part of the file and
\* its place in the chain.
WriteCluster ==
  /\ job.pc = "allocate"
  /\ LET i     == FreeAfter(job.fat, job.cachedindex)
         large == job.index > 0
         last  == job.size <= CLUSTER_SIZE
     IN  /\ disk' = IF job.size = 0 THEN disk
                    ELSE [disk EXCEPT ![i] = Data(job.request, job.index)]
         /\ job' = [job EXCEPT
              !.pc           = IF last THEN "entry" ELSE @,
              !.fat          = [c \in Cluster |->
                                 IF large /\ c = job.cachedindex THEN i
                                 ELSE IF last /\ c = i THEN END_OF_FILE ELSE @[c]],
              !.size         = IF last THEN @ ELSE @ - CLUSTER_SIZE,
              !.cachedindex  = i,
              !.startCluster = IF large THEN @ ELSE i,
              !.index        = @ + 1]
  /\ UNCHANGED fat

\* create_entry finds a place.
CreateEntry ==
  /\ job.pc = "entry"
  /\ LET r  == job.request
         to == FreePlace(disk, job.fat, r.parent)
     IN  /\ to # <<>>
         /\ disk' = WithEntry(disk, to[1],
              [name |-> r.name, ext |-> r.ext, directory |-> r.buffer_size = 0,
               cluster_number |-> job.startCluster, size |-> Counted(r)])
         /\ job' = [job EXCEPT !.at = to, !.pc = IF r.buffer_size = 0 THEN "table" ELSE "fat"]
  /\ UNCHANGED fat

\* Faulty: the search looks at the table on the disk, which does not have the
\* clusters of the file yet.
ExpandFolderStale ==
  /\ job.pc = "entry"
  /\ FreePlace(disk, job.fat, job.request.parent) = <<>>
  /\ LET i    == FreeAfter(fat, ROOT_CLUSTER_NUMBER)
         s    == Chain(job.fat, job.request.parent)
         with == [job.fat EXCEPT ![Last(s)] = i, ![i] = END_OF_FILE]
     IN  /\ fat' = with
         /\ job' = [job EXCEPT !.fat = with, !.cachedindex = i, !.pc = "expanded"]
  /\ UNCHANGED disk

\* It finds none: expand_folder, which writes the table,
ExpandFolder ==
  /\ job.pc = "entry"
  /\ FreePlace(disk, job.fat, job.request.parent) = <<>>
  /\ LET i    == FreeAfter(job.fat, ROOT_CLUSTER_NUMBER)
         s    == Chain(job.fat, job.request.parent)
         with == [job.fat EXCEPT ![Last(s)] = i, ![i] = END_OF_FILE]
     IN  /\ fat' = with
         /\ job' = [job EXCEPT !.fat = with, !.cachedindex = i, !.pc = "expanded"]
  /\ UNCHANGED disk

\* and then the cluster it added.
ExpandTable ==
  /\ job.pc = "expanded"
  /\ disk' = [disk EXCEPT ![job.cachedindex] = Table(disk[job.request.parent].info)]
  /\ job' = [job EXCEPT !.pc = "entry"]
  /\ UNCHANGED fat

\* Faulty: the entry is looked for in the first cluster of the directory.
InitTableBase ==
  /\ job.pc = "table"
  /\ disk' = [disk EXCEPT ![job.startCluster] =
       Table(Info(job.request.parent, job.request.parent, job.at[1][2], FOLDER_SIZE))]
  /\ job' = [job EXCEPT !.pc = "fat"]
  /\ UNCHANGED fat

init_directory_table ==
  /\ job.pc = "table"
  /\ disk' = [disk EXCEPT ![job.startCluster] =
       Table(Info(job.request.parent, job.at[1][1], job.at[1][2], FOLDER_SIZE))]
  /\ job' = [job EXCEPT !.pc = "fat"]
  /\ UNCHANGED fat

\* Faulty: the copy of the table is not written back.
WriteFatLost == job.pc = "fat" /\ job' = Idle /\ UNCHANGED <<disk, fat>>

WriteFat ==
  /\ job.pc = "fat"
  /\ fat' = job.fat
  /\ job' = Idle
  /\ UNCHANGED disk
-----------------------------------------------------------------------------
(* delete *)

\* The callers name a directory that is there, and as a file only what they
\* found to be one; what is to be deleted may be gone (mv with the same source
\* twice).  Bound: once a missing file was deleted, and cluster 0 with it, none
\* is deleted again.
DeleteBegin(r) ==
  /\ job = Idle /\ IsFolder(disk, r.parent)
  /\ LET after == update_size(disk, fat, r, -1)
         at    == SelfPlace(after, fat, r)
         self  == IF at = <<>> THEN emptyEntry ELSE EntryAt(after, at[1])
     IN  /\ at = <<>> => ~is_empty_storage
         /\ at # <<>> /\ r.buffer_size # 0 => ~self.directory /\ self.size = r.buffer_size
         /\ disk' = after
         /\ job' = [pc |-> IF self.directory THEN "folder" ELSE "wipe", request |-> r,
                    fat |-> fat, at |-> at, self |-> self.cluster_number,
                    currentCluster |-> self.cluster_number,
                    marker |-> fat[self.cluster_number], below |-> <<>>]
  /\ UNCHANGED fat

\* What deleteFolder deletes next: the first entry that has nothing below it,
\* as a sequence of one; none if the folder is empty.
NextBelow(d, f, c) ==
  LET upto[n \in 0 .. CLUSTER_COUNT] ==
        IF n = 0 THEN UsedPlace(d, f, c)
        ELSE LET p == upto[n - 1]
                 e == EntryAt(d, p[1])
             IN  IF p = <<>> \/ ~e.directory \/ UsedPlace(d, f, e.cluster_number) = <<>>
                 THEN p ELSE UsedPlace(d, f, e.cluster_number)
  IN  upto[CLUSTER_COUNT]

\* deleteRecurse for one entry of one cluster: it wipes the cluster,
deleteRecurse ==
  /\ job.pc = "folder"
  /\ LET below == NextBelow(disk, job.fat, job.self)
         c     == EntryAt(disk, below[1]).cluster_number
     IN  /\ below # <<>> /\ job.fat[c] = END_OF_FILE
         /\ disk' = [disk EXCEPT ![c] = Zero]
         /\ job' = [job EXCEPT !.pc = "below", !.fat[c] = 0, !.below = below]
  /\ UNCHANGED fat

\* and then takes the entry away.  Entries go in order, so that the search by
\* name finds the entry itself, whatever buffer_size the request happens to have.
DeleteRecurseEntry ==
  /\ job.pc = "below"
  /\ disk' = WithEntry(disk, job.below[1], emptyEntry)
  /\ job' = [job EXCEPT !.pc = "folder", !.below = <<>>]
  /\ UNCHANGED fat

\* Its loop loses its way on a longer chain, as the one of delete does.
DeleteRecurseAstray ==
  /\ job.pc = "folder"
  /\ LET below == NextBelow(disk, job.fat, job.self)
         c     == EntryAt(disk, below[1]).cluster_number
     IN  /\ below # <<>> /\ job.fat[c] # END_OF_FILE
         /\ job' = [job EXCEPT !.pc = "wipe", !.currentCluster = c, !.marker = job.fat[c]]
  /\ UNCHANGED <<disk, fat>>

FolderDone ==
  /\ job.pc = "folder"
  /\ NextBelow(disk, job.fat, job.self) = <<>>
  /\ job' = [job EXCEPT !.pc = "wipe"]
  /\ UNCHANGED <<disk, fat>>

\* One round of the loop of delete.  The next marker comes from reader, which
\* is zero, and not from the table: after the second cluster it is cluster 0
\* for ever.  (reader ends at cluster CLUSTER_SIZE / 4; chains beyond it are
\* left out.)
Wipe ==
  /\ job.pc = "wipe"
  /\ disk' = [disk EXCEPT ![job.currentCluster] = Zero]
  /\ job' = IF job.marker = END_OF_FILE THEN [job EXCEPT !.pc = "wiped"]
            ELSE [job EXCEPT !.currentCluster = job.marker, !.marker = 0]
  /\ UNCHANGED fat

DeleteFat ==
  /\ job.pc = "wiped"
  /\ fat' = job.fat
  /\ job' = [job EXCEPT !.pc = "unlink"]
  /\ UNCHANGED disk

DeleteEntry ==
  /\ job.pc = "unlink"
  /\ LET at == SelfPlace(disk, job.fat, job.request)
     IN  disk' = IF at = <<>> THEN disk ELSE WithEntry(disk, at[1], emptyEntry)
  /\ job' = Idle
  /\ UNCHANGED fat
-----------------------------------------------------------------------------
FsNext ==
  \/ \E r \in Request : WriteRefuse(r) \/ WriteBegin(r) \/ DeleteBegin(r)
  \/ WriteCluster \/ CreateEntry \/ ExpandFolder \/ ExpandTable
  \/ init_directory_table \/ WriteFat
  \/ deleteRecurse \/ DeleteRecurseEntry \/ DeleteRecurseAstray \/ FolderDone
  \/ Wipe \/ DeleteFat \/ DeleteEntry

FsSpec == FsInit /\ [][FsNext]_fsVars
=============================================================================
