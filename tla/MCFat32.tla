------------------------------ MODULE MCFat32 ------------------------------
(***************************************************************************)
(* The file system on a disk of a few clusters, against the tree of files  *)
(* it promises.                                                            *)
(***************************************************************************)
EXTENDS Fat32

\* The places that hold an entry, each with its directory, in the directories
\* reached from the root, without those that lie at or below a hidden place.
Reached(d, f, hidden) ==
  LET Shown(c) == {at \in ToSet(Places(f, c)) :
                     EntryAt(d, at) # emptyEntry /\ at \notin hidden}
      Inner(c) == {EntryAt(d, at).cluster_number :
                     at \in {p \in Shown(c) : EntryAt(d, p).directory}}
      upto[n \in 0 .. CLUSTER_COUNT] ==
        IF n = 0 THEN {ROOT_CLUSTER_NUMBER}
        ELSE UNION {{c} \cup Inner(c) : c \in upto[n - 1]}
  IN  UNION {{<<c, at>> : at \in Shown(c)} : c \in upto[CLUSTER_COUNT]}

\* What a call is about to add, or takes away.
Hidden(j) == IF j = Idle THEN {} ELSE ToSet(j.at)

NodeOf(d, f, e) ==
  IF e.directory THEN [folder |-> TRUE, handle |-> e.cluster_number]
  ELSE [folder |-> FALSE, content |-> Contents(d, f, e)]

KeyOf(c, e) == [in |-> c, name |-> e.name, ext |-> e.ext]

\* The tree that a machine started now would read, but for the file or folder
\* of the call in progress.
TreeOn(d, f, j) ==
  LET shown  == Reached(d, f, Hidden(j))
      Key(p) == KeyOf(p[1], EntryAt(d, p[2]))
  IN  [k \in {Key(p) : p \in shown} |->
         NodeOf(d, f, EntryAt(d, (CHOOSE p \in shown : Key(p) = k)[2]))]

WrittenFor(k, n) ==
  <<n, [i \in 1 .. (n + CLUSTER_SIZE - 1) \div CLUSTER_SIZE |->
          Data([parent |-> k.in, name |-> k.name, ext |-> k.ext], i - 1)]>>

\* The names of the instance are interchangeable.
NameSymmetry == Permutations(Names)

\* What the disk reads as, kept in a variable so that it is computed once a step.
VARIABLE tree

MCInit == FsInit /\ tree = TreeOn(disk, fat, job)
MCNext == FsNext /\ tree' = TreeOn(disk', fat', job')
MCSpec == MCInit /\ [][MCNext]_<<fsVars, tree>>

Tree == INSTANCE FileTree WITH
  Folder  <- Cluster,
  Root    <- ROOT_CLUSTER_NUMBER,
  Key     <- [in : Cluster, name : Names, ext : Exts \cup {NoExt}],
  Size    <- FileSizes,
  Written <- WrittenFor

\* At every moment, between any two disk writes of any call, a machine that is
\* started again reads every file with what was written into it, except the one
\* being written or deleted; a write adds one name, a delete takes one away
\* with what is below it.
KeepsFiles == Tree!TreeSpec

\* A delete of a file takes away that name with that extension and nothing
\* else; a delete of a directory takes away something of its name, also when
\* the names of other entries differ in the extension alone.
DeletesWhatIsAsked ==
  [][LET gone == DOMAIN tree \ DOMAIN tree'
         r == job'.request
     IN  gone # {} => \E k \in gone :
           /\ k.in = r.parent /\ k.name = r.name
           /\ r.buffer_size # 0 => k.ext = r.ext /\ gone = {k}]_tree

\* Between calls the chains of all files and directories, the root's included,
\* end, have the length their size asks for, and share no cluster.
ChainsDisjoint ==
  job = Idle =>
    LET entries == {EntryAt(disk, p[2]) : p \in Reached(disk, fat, {})}
        starts == {e.cluster_number : e \in entries} \cup {ROOT_CLUSTER_NUMBER}
    IN  /\ Cardinality(starts) = Cardinality(Reached(disk, fat, {})) + 1
        /\ \A c, b \in starts : c # b => Clusters(fat, c) \cap Clusters(fat, b) = {}
        /\ \A c \in starts : \A b \in Clusters(fat, c) : b >= ROOT_CLUSTER_NUMBER /\ fat[b] # 0
        /\ \A e \in entries : ~e.directory =>
             Len(Chain(fat, e.cluster_number)) = (e.size + CLUSTER_SIZE - 1) \div CLUSTER_SIZE

\* Between calls every cluster of a directory knows the directory above it,
\* the place of its entry there and its size as that entry has it, also after
\* directories grew, were emptied and their places and clusters reused.
DirectoriesKnowTheirEntry ==
  job = Idle =>
    \A p \in Reached(disk, fat, {}) : LET e == EntryAt(disk, p[2]) IN
      e.directory =>
        \A c \in Clusters(fat, e.cluster_number) :
          disk[c].info = Info(p[1], p[2][1], p[2][2], e.size)

\* Between calls read and load find by its name every file that is there, and
\* nothing else, also beside files and folders of the same name; a directory is
\* read with all its entries unless another entry has its name.  (load does not
\* ask whether what it found is a directory; its callers do.)
FindsByName ==
  job = Idle =>
    /\ \A c \in {k.in : k \in DOMAIN tree}, name \in Names, ext \in Exts, n \in FileSizes :
         LET k    == [in |-> c, name |-> name, ext |-> ext]
             r    == [parent |-> c, name |-> name, ext |-> ext, buffer_size |-> n]
             file == k \in DOMAIN tree /\ ~tree[k].folder
         IN  /\ read(disk, fat, r) = IF file THEN tree[k].content ELSE <<>>
             /\ file \/ k \notin DOMAIN tree =>
                  load(disk, fat, r) = IF file /\ tree[k].content[1] <= n
                                       THEN tree[k].content[2] ELSE <<>>
    /\ \A k \in DOMAIN tree :
         tree[k].folder /\ (\A j \in DOMAIN tree : j.in = k.in /\ j.name = k.name => j = k) =>
           LET s == read_directory(disk, fat,
                      [parent |-> k.in, name |-> k.name, ext |-> k.ext, buffer_size |-> 0])
           IN  {KeyOf(tree[k].handle, e) :
                  e \in (UNION {{s[n].entry[i] : i \in Slot} : n \in DOMAIN s}) \ {emptyEntry}}
                 = {j \in DOMAIN tree : j.in = tree[k].handle}

\* The type invariant of the file system: tables and markers hold clusters.
FsTypeOK ==
  /\ fat \in [Cluster -> Cluster \cup {END_OF_FILE}]
  /\ \A c \in Cluster : IsDirectory(disk, c) =>
       /\ disk[c].info \in [parent_base_cluster : Cluster, parent_actual_cluster : Cluster,
                            entry_number : Slot, size : 0 .. SIZE_LIMIT - 1]
       /\ \A i \in Slot : disk[c].entry[i] \in
            {emptyEntry} \cup [name : Names, ext : Exts \cup {NoExt}, directory : BOOLEAN,
                               cluster_number : Cluster, size : 0 .. SIZE_LIMIT - 1]

\* "If drive is empty, initialize boot sector, FAT table, and root directory.
\* Else do nothing": the next start formats the drive only if it holds nothing.
OnlyEmptyDriveFormatted == is_empty_storage => Reached(disk, fat, {}) = {}
=============================================================================
