---------------------------- MODULE Fat32_proofs ----------------------------
(***************************************************************************)
(* Proofs about the file system: at every moment the disk is a tree of     *)
(* chains, or becomes one by what the call in progress has left to do.     *)
(*                                                                         *)
(* Layout says of a disk, a table and its chains that they are in order;   *)
(* FsInv says for each point of each call which disk is.                   *)
(***************************************************************************)
EXTENDS MCFat32, Induction, FiniteSetTheorems, FunctionTheorems
-----------------------------------------------------------------------------
(* The order on the disk *)

Size == 0 .. SIZE_LIMIT - 1

InfoType == [parent_base_cluster : Cluster, parent_actual_cluster : Cluster,
             entry_number : Slot, size : Size]

EntryType ==
  {emptyEntry} \cup
  [name : Names, ext : {NoExt}, directory : {TRUE}, cluster_number : Cluster, size : Size] \cup
  [name : Names, ext : Exts, directory : {FALSE}, cluster_number : Cluster, size : FileSizes]

TableType == [kind : {"table"}, info : InfoType, entry : [Slot -> EntryType]]

OtherType ==
  {Zero, Signature} \cup
  [kind : {"data"}, parent : Cluster, name : Names, ext : Exts, part : Nat]

DiskType == [Cluster -> TableType \cup OtherType]

FatType == [Cluster -> Cluster \cup {END_OF_FILE}]

Place == Cluster \X Slot

\* The places in use, the first cluster of what they stand for, and the first
\* clusters of directories.
Used(d) == {p \in Place : EntryAt(d, p) # emptyEntry}
Base(d, p) == EntryAt(d, p).cluster_number
Heads(d) == {ROOT_CLUSTER_NUMBER} \cup {Base(d, p) : p \in Used(d)}
Dirs(d) == {ROOT_CLUSTER_NUMBER} \cup {Base(d, p) : p \in {q \in Used(d) : EntryAt(d, q).directory}}

\* s is the chain of c.
Runs(f, c, s) ==
  /\ s \in Seq(Cluster) /\ s # << >> /\ s[1] = c
  /\ \A i, k \in 1 .. Len(s) : s[i] = s[k] => i = k
  /\ \A k \in 1 .. Len(s) :
       s[k] >= ROOT_CLUSTER_NUMBER /\ f[s[k]] = IF k = Len(s) THEN END_OF_FILE ELSE s[k + 1]

\* The cluster c is one of the chain of b; for the cluster of a place, the
\* place is one of the directory b.
InChain(ch, c, b) == \E k \in DOMAIN ch[b] : ch[b][k] = c

\* The clusters of a directory know where its entry is.
Placed(d, ch, p, b) ==
  \A k \in DOMAIN ch[Base(d, p)] :
    d[ch[Base(d, p)][k]].info = Info(b, p[1], p[2], EntryAt(d, p).size)

\* A file has the clusters its size asks for, with what was written into it.
Stored(d, ch, p, b) ==
  LET e == EntryAt(d, p)
      s == ch[Base(d, p)]
  IN  /\ Len(s) = (e.size + CLUSTER_SIZE - 1) \div CLUSTER_SIZE
      /\ \A k \in DOMAIN s :
           d[s[k]] = Data([parent |-> b, name |-> e.name, ext |-> e.ext], k - 1)

\* ch are the chains of the disk d with the table f: they end, and no cluster
\* is in two of them.
ChainsGood(d, f, ch) ==
  /\ DOMAIN ch = Heads(d) /\ \A h \in Heads(d) : Runs(f, h, ch[h])
  /\ \A g, h \in Heads(d) : \A c \in Cluster : InChain(ch, c, g) /\ InChain(ch, c, h) => g = h

\* No two entries stand for the same.
EntriesGood(d) ==
  /\ \A p \in Used(d) : Base(d, p) # ROOT_CLUSTER_NUMBER
  /\ \A p, q \in Used(d) : Base(d, p) = Base(d, q) => p = q

\* The tables are the clusters of directories; nothing is left of former ones.
TablesGood(d, ch) ==
  /\ \A c \in Cluster : IsDirectory(d, c) <=> \E h \in Dirs(d) : InChain(ch, c, h)
  /\ \A k \in DOMAIN ch[ROOT_CLUSTER_NUMBER] :
       d[ch[ROOT_CLUSTER_NUMBER][k]].info.parent_base_cluster = ROOT_CLUSTER_NUMBER

\* rank goes up from a directory to those in it, so that they form a tree.
HomesGood(d, ch, rank) ==
  \A p \in Used(d), b \in Dirs(d) : InChain(ch, p[1], b) =>
    IF EntryAt(d, p).directory THEN Placed(d, ch, p, b) /\ rank[b] < rank[Base(d, p)]
    ELSE Stored(d, ch, p, b)

\* No two entries of a directory have the same name and extension.
NamesGood(d, ch) ==
  \A p, q \in Used(d), b \in Dirs(d) :
    /\ InChain(ch, p[1], b) /\ InChain(ch, q[1], b)
    /\ EntryAt(d, p).name = EntryAt(d, q).name /\ EntryAt(d, p).ext = EntryAt(d, q).ext
    => p = q

TypesGood(d, f, rank) ==
  /\ d \in DiskType /\ f \in FatType /\ \A c \in 0 .. ROOT_CLUSTER_NUMBER : f[c] # 0
  /\ rank \in [Cluster -> Nat]

Layout(d, f, ch, rank) ==
  /\ TypesGood(d, f, rank) /\ ChainsGood(d, f, ch) /\ EntriesGood(d)
  /\ TablesGood(d, ch) /\ HomesGood(d, ch, rank) /\ NamesGood(d, ch)

Sound(d, f) == \E ch, rank : Layout(d, f, ch, rank)

-----------------------------------------------------------------------------
(* A call in progress *)

\* The clusters of a chain that has no entry yet are nobody's.
Spare(d, ch, s) ==
  \A k \in 1 .. Len(s) : ~IsDirectory(d, s[k]) /\ \A h \in Heads(d) : ~InChain(ch, s[k], h)

\* What is to be written into them is there.
Filled(d, r, s) == r.buffer_size # 0 => \A k \in 1 .. Len(s) : d[s[k]] = Data(r, k - 1)

\* The directory of a request is there, and nothing in it has its name.
Welcome(d, ch, r) ==
  /\ r.parent \in Dirs(d)
  /\ \A p \in Used(d) : InChain(ch, p[1], r.parent) =>
       EntryAt(d, p).name # r.name \/ EntryAt(d, p).ext # r.ext

FreeAbove(f, c) == {i \in Cluster : i > c /\ f[i] = 0}

\* The part of a file whose clusters s are taken, and what is left of it.
Taking(j, d, f, ch, s) ==
  LET r == j.request
      n == Len(s)
  IN  /\ s \in Seq(Cluster) /\ j.index = n
      /\ \A k \in 1 .. n : s[k] > ROOT_CLUSTER_NUMBER /\ f[s[k]] = 0 /\ s[k] <= j.cachedindex
      /\ \A i, k \in 1 .. n : s[i] = s[k] => i = k
      /\ \A k \in 1 .. n - 1 : j.fat[s[k]] = s[k + 1]
      /\ \A c \in Cluster : (\A k \in 1 .. n - 1 : s[k] # c) => j.fat[c] = f[c]
      /\ Spare(d, ch, s) /\ Filled(d, r, s) /\ Welcome(d, ch, r)
      /\ IF n = 0 THEN j.cachedindex = ROOT_CLUSTER_NUMBER
         ELSE j.cachedindex = s[n] /\ j.startCluster = s[1]
      /\ j.size + n * CLUSTER_SIZE = r.buffer_size
      /\ n # 0 => j.size > 0
      /\ Cardinality(FreeAbove(f, j.cachedindex)) >= j.size \div CLUSTER_SIZE + 2

\* The chain s of a file or directory that waits for its entry.
Awaits(d, f, ch, r, s) ==
  /\ Runs(f, s[1], s) /\ Spare(d, ch, s) /\ Filled(d, r, s) /\ Welcome(d, ch, r)
  /\ Len(s) = IF r.buffer_size = 0 THEN 1
              ELSE (r.buffer_size + CLUSTER_SIZE - 1) \div CLUSTER_SIZE

Waiting(j, d) ==
  \E ch, rank, s : /\ Layout(d, j.fat, ch, rank) /\ Awaits(d, j.fat, ch, j.request, s)
                   /\ j.startCluster = s[1]

Expanded(d, j) == [d EXCEPT ![j.cachedindex] = Table(d[j.request.parent].info)]

Created(d, j) ==
  [d EXCEPT ![j.startCluster] =
     Table(Info(j.request.parent, j.at[1][1], j.at[1][2], FOLDER_SIZE))]

Wiped(d, j) == [d EXCEPT ![j.currentCluster] = Zero]

Unlinked(d, j) == IF j.at = << >> THEN d ELSE WithEntry(d, j.at[1], emptyEntry)

Doomed(d, j) == SelfPlace(d, j.fat, j.request) = j.at /\ Sound(Unlinked(d, j), j.fat)

WriteJob ==
  [pc : {"allocate", "entry", "expanded", "table", "fat"}, request : Request, fat : FatType,
   size : Nat, cachedindex : Cluster, startCluster : Cluster, index : Nat,
   at : {<< >>} \cup {<<p>> : p \in Place}]

DeleteJob ==
  [pc : {"folder", "below", "wipe", "wiped", "unlink"}, request : Request, fat : FatType,
   at : {<< >>} \cup {<<p>> : p \in Place}, self : Cluster, currentCluster : Cluster,
   marker : Cluster \cup {END_OF_FILE}, below : {<< >>} \cup {<<p>> : p \in Place}]

\* What is in the directory of a delete is being deleted.
Emptying(j, d) ==
  /\ Sound(d, j.fat) /\ j.request.parent \in Dirs(d)
  /\ SelfPlace(d, j.fat, j.request) = j.at /\ j.at # << >>
  /\ EntryAt(d, j.at[1]).directory /\ Base(d, j.at[1]) = j.self
  /\ j.currentCluster = j.self /\ j.marker = j.fat[j.self]

\* The disk without the entry whose cluster is wiped.
Shrunk(d, j) == WithEntry(d, j.below[1], emptyEntry)

\* How far a call is, and what the disk is then, with the table in memory.
Progress(j, d, f) ==
  /\ j.pc = "idle" => Sound(d, f)
  /\ j.pc = "allocate" => \E ch, rank, s : Layout(d, f, ch, rank) /\ Taking(j, d, f, ch, s)
  /\ j.pc = "entry" =>
       /\ Waiting(j, d)
       /\ FreePlace(d, j.fat, j.request.parent) # << >> \/ FreeAbove(j.fat, ROOT_CLUSTER_NUMBER) # {}
  /\ j.pc = "expanded" =>
       Waiting(j, Expanded(d, j)) /\ FreePlace(Expanded(d, j), j.fat, j.request.parent) # << >>
  /\ j.pc = "table" => j.at # << >> /\ Sound(Created(d, j), j.fat)
  /\ j.pc = "fat" => Sound(d, j.fat)
  /\ j.pc = "folder" => Emptying(j, d)
  /\ j.pc = "below" => Shrunk(d, j) \in DiskType /\ Emptying(j, Shrunk(d, j))
  /\ j.pc = "wipe" => (j.marker = END_OF_FILE => Doomed(Wiped(d, j), j))
  /\ j.pc \in {"wiped", "unlink"} => Doomed(d, j)

FsInv ==
  /\ disk \in DiskType /\ fat \in FatType
  /\ job \in {Idle} \cup WriteJob \cup DeleteJob
  /\ job.pc = "unlink" => job.fat = fat
  /\ Progress(job, disk, fat)
\* Numbers.
LEMMA Bounds ==
  /\ CLUSTER_COUNT \in Nat /\ CLUSTER_COUNT >= 3
  /\ ROOT_CLUSTER_NUMBER \in Cluster /\ ROOT_CLUSTER_NUMBER \in Nat /\ ROOT_CLUSTER_NUMBER >= 2
  /\ 0 \in Cluster /\ END_OF_FILE \in Nat /\ END_OF_FILE \notin Cluster /\ END_OF_FILE # 0
  /\ Cluster \subseteq Nat
<1>1. /\ ROOT_CLUSTER_NUMBER \in 2 .. CLUSTER_COUNT - 1 /\ CLUSTER_COUNT \in Nat
      /\ END_OF_FILE \in Nat /\ END_OF_FILE >= CLUSTER_COUNT
  BY FatAssumption
<1>2. QED
  BY <1>1 DEF Cluster

LEMMA SizeBounds ==
  /\ ENTRY_COUNT \in Nat \ {0} /\ CLUSTER_SIZE \in Nat \ {0} /\ 0 \in Slot
  /\ SIZE_LIMIT \in Nat \ {0} /\ FOLDER_SIZE \in Size /\ 0 \in Size
  /\ FileSizes \subseteq Size /\ 0 \notin FileSizes /\ Size \subseteq Nat
<1>1. /\ ENTRY_COUNT \in Nat \ {0} /\ CLUSTER_SIZE \in Nat \ {0}
      /\ SIZE_LIMIT \in Nat \ {0} /\ FOLDER_SIZE \in 0 .. SIZE_LIMIT - 1
      /\ FileSizes \subseteq 1 .. SIZE_LIMIT - 1
  BY FatAssumption
<1>2. QED
  BY <1>1 DEF Slot, Size

LEMMA NameBounds == "" \notin Names
BY FatAssumption

LEMMA ClustersAreFew ==
  /\ IsFiniteSet(Cluster) /\ Cardinality(Cluster) = CLUSTER_COUNT
  /\ \A T \in SUBSET Cluster : IsFiniteSet(T) /\ Cardinality(T) \in 0 .. CLUSTER_COUNT
<1>1. IsFiniteSet(Cluster) /\ Cardinality(Cluster) = CLUSTER_COUNT
  <2>1. CLUSTER_COUNT - 1 \in Int /\ 0 \in Int /\ CLUSTER_COUNT >= 1
    BY Bounds
  <2>2. QED
    BY <2>1, FS_Interval, Bounds DEF Cluster
<1>2. ASSUME NEW T \in SUBSET Cluster
      PROVE  IsFiniteSet(T) /\ Cardinality(T) \in 0 .. CLUSTER_COUNT
  <2>1. IsFiniteSet(T) /\ Cardinality(T) <= Cardinality(Cluster)
    BY <1>1, FS_Subset
  <2>2. Cardinality(T) \in Nat
    BY <2>1, FS_CardinalityType
  <2>3. QED
    BY <1>1, <2>1, <2>2, Bounds
<1>3. QED
  BY <1>1, <1>2

LEMMA DivMod ==
  ASSUME NEW a \in Nat, NEW b \in Nat \ {0}
  PROVE  a \div b \in Nat /\ a % b \in 0 .. b - 1 /\ a = b * (a \div b) + (a % b)
OBVIOUS

LEMMA DivLess ==
  ASSUME NEW a \in Nat, NEW b \in Nat \ {0}, NEW n \in Nat, a < n * b
  PROVE  a \div b < n
<1> DEFINE q == a \div b
<1>1. q \in Nat /\ a >= b * q
  BY DivMod
<1> HIDE DEF q
<1>2. ASSUME q >= n PROVE FALSE
  <2>1. PICK m \in Nat : q = n + m
    BY <1>1, <1>2
  <2>2. b * q = n * b + m * b /\ m * b >= 0
    BY <2>1
  <2>3. QED
    BY <2>2, <1>1
<1>3. QED
  BY <1>1, <1>2 DEF q

LEMMA DivOf ==
  ASSUME NEW q \in Nat, NEW b \in Nat \ {0}, NEW i \in 0 .. b - 1
  PROVE  (q * b + i) \div b = q /\ (q * b + i) % b = i
OBVIOUS

\* What an entry is and what a cluster holds.
LEMMA EntryGives ==
  ASSUME NEW e \in EntryType
  PROVE  /\ e.cluster_number \in Cluster /\ e.directory \in BOOLEAN /\ e.size \in Size
         /\ e.name \in Names \cup {""} /\ e.ext \in Exts \cup {NoExt}
         /\ (e = emptyEntry) <=> (e.name = "")
         /\ e # emptyEntry => /\ e.name \in Names
                              /\ e.directory => e.ext = NoExt
                              /\ ~e.directory => e.ext \in Exts /\ e.size \in FileSizes
<1>1. CASE e = emptyEntry
  BY <1>1, Bounds, SizeBounds DEF emptyEntry, Size
<1>2. CASE e # emptyEntry
  BY <1>2, SizeBounds, NameBounds DEF EntryType, emptyEntry
<1>3. QED
  BY <1>1, <1>2

LEMMA DiskGives ==
  ASSUME NEW d \in DiskType, NEW c \in Cluster
  PROVE  /\ IsDirectory(d, c) => d[c] \in TableType
         /\ ~IsDirectory(d, c) => d[c] \in OtherType
BY DEF DiskType, IsDirectory, TableType, OtherType, Zero, Signature

LEMMA EntryAtType ==
  ASSUME NEW d \in DiskType, NEW p \in Place
  PROVE  /\ p[1] \in Cluster /\ p[2] \in Slot /\ p = <<p[1], p[2]>>
         /\ EntryAt(d, p) \in EntryType
         /\ EntryAt(d, p) # emptyEntry => IsDirectory(d, p[1]) /\ EntryAt(d, p) = d[p[1]].entry[p[2]]
<1>1. p[1] \in Cluster /\ p[2] \in Slot /\ p = <<p[1], p[2]>>
  BY DEF Place
<1>2. IsDirectory(d, p[1]) => d[p[1]].entry[p[2]] \in EntryType
  BY <1>1, DiskGives DEF TableType
<1>3. emptyEntry \in EntryType
  BY DEF EntryType
<1>4. QED
  BY <1>1, <1>2, <1>3 DEF EntryAt, IsDirectory

\* A function that takes the steps of an equation is the recursive one.
LEMMA ChainIs ==
  ASSUME NEW f \in FatType, NEW c, NEW s, Runs(f, c, s)
  PROVE  Chain(f, c) = s /\ Len(s) \in 1 .. CLUSTER_COUNT /\ c \in Cluster
<1> DEFINE L == Len(s)
           G == 1 .. CLUSTER_COUNT
           Next(a) == IF a = END_OF_FILE THEN END_OF_FILE ELSE f[a]
           x == [n \in G |-> IF n <= L THEN s[n] ELSE END_OF_FILE]
           at[n \in G] == IF n = 1 THEN c
                          ELSE IF at[n - 1] = END_OF_FILE THEN END_OF_FILE ELSE f[at[n - 1]]
<1>1. /\ L \in Nat /\ L >= 1 /\ DOMAIN s = 1 .. L /\ s \in [1 .. L -> Cluster] /\ s[1] = c
      /\ \A i, k \in 1 .. L : s[i] = s[k] => i = k
      /\ \A k \in 1 .. L : f[s[k]] = IF k = L THEN END_OF_FILE ELSE s[k + 1]
  <2>1. s \in Seq(Cluster) /\ s # << >>
    BY DEF Runs
  <2>2. L \in Nat /\ L # 0 /\ DOMAIN s = 1 .. L /\ s \in [1 .. L -> Cluster]
    BY <2>1, LenProperties, EmptySeq
  <2>3. /\ s[1] = c /\ \A i, k \in 1 .. L : s[i] = s[k] => i = k
        /\ \A k \in 1 .. L : f[s[k]] = IF k = L THEN END_OF_FILE ELSE s[k + 1]
    BY DEF Runs
  <2> HIDE DEF L
  <2>4. QED
    BY <2>2, <2>3
<1> HIDE DEF L
<1>2. L <= CLUSTER_COUNT
  <2>1. s \in Injection(1 .. L, Cluster)
    BY <1>1 DEF Injection, IsInjective
  <2>2. Cardinality(1 .. L) <= CLUSTER_COUNT
    BY <2>1, FS_Injection, ClustersAreFew
  <2>3. QED
    <3>1. L \in Int /\ 1 \in Int /\ ~(1 > L)
      BY <1>1
    <3>2. Cardinality(1 .. L) = L
      BY <3>1, FS_Interval
    <3>3. QED
      BY <2>2, <3>2
<1>3. \A n \in G : x[n] = IF n = 1 THEN c ELSE Next(x[n - 1])
  <2> SUFFICES ASSUME NEW n \in G PROVE x[n] = IF n = 1 THEN c ELSE Next(x[n - 1])
    OBVIOUS
  <2>1. CASE n = 1
    BY <2>1, <1>1
  <2>2. CASE n # 1 /\ n - 1 <= L
    <3>1. n - 1 \in 1 .. L /\ n - 1 \in G
      BY <2>2, <1>1, Bounds
    <3>2. x[n - 1] = s[n - 1] /\ s[n - 1] # END_OF_FILE
      BY <3>1, <1>1, Bounds
    <3>3. f[s[n - 1]] = IF n - 1 = L THEN END_OF_FILE ELSE s[n]
      BY <3>1, <1>1
    <3>4. QED
      BY <3>1, <3>2, <3>3, <1>1, <2>2
  <2>3. CASE n # 1 /\ ~(n - 1 <= L)
    <3>1. n - 1 \in G /\ ~(n <= L)
      BY <2>3, <1>1, Bounds
    <3>2. QED
      BY <3>1, <2>3
  <2>4. QED
    BY <2>1, <2>2, <2>3
<1>4. x = [n \in G |-> IF n = 1 THEN c ELSE Next(x[n - 1])]
  BY <1>3
<1>5. \A n \in G : at[n] = IF n = 1 THEN c ELSE Next(at[n - 1])
  <2>1. at = CHOOSE y : y = [n \in G |-> IF n = 1 THEN c ELSE Next(y[n - 1])]
    BY DEF at
  <2>2. at = [n \in G |-> IF n = 1 THEN c ELSE Next(at[n - 1])]
    BY <1>4, <2>1
  <2>3. QED
    BY <2>2
<1>6. DOMAIN at = G
  <2>1. at = CHOOSE y : y = [n \in G |-> IF n = 1 THEN c ELSE Next(y[n - 1])]
    BY DEF at
  <2>2. at = [n \in G |-> IF n = 1 THEN c ELSE Next(at[n - 1])]
    BY <1>4, <2>1
  <2>3. QED
    BY <2>2
<1> HIDE DEF at, x
<1>7. \A n \in 0 .. CLUSTER_COUNT : n \in G => at[n] = x[n]
  <2> DEFINE S == {n \in 0 .. CLUSTER_COUNT : n \in G => at[n] = x[n]}
  <2>1. 0 \in S
    BY Bounds
  <2>2. ASSUME NEW k \in 0 .. CLUSTER_COUNT, k < CLUSTER_COUNT, k \in S PROVE k + 1 \in S
    <3>1. k + 1 \in G /\ (k + 1) - 1 = k /\ (k + 1 = 1 <=> k = 0)
      BY <2>2, Bounds
    <3>2. k # 0 => k \in G /\ at[k] = x[k]
      BY <2>2
    <3>3. QED
      BY <3>1, <3>2, <1>3, <1>5
  <2> HIDE DEF S
  <2>3. 0 .. CLUSTER_COUNT \subseteq S
    BY <2>1, <2>2, RangeInSet, Bounds
  <2>4. QED
    BY <2>3 DEF S
<1>8. \A n \in G : at[n] = IF n <= L THEN s[n] ELSE END_OF_FILE
  BY <1>7, Bounds DEF x
<1>9. {m \in G : at[m] # END_OF_FILE} = 1 .. L
  BY <1>1, <1>2, <1>8, Bounds
<1>10. Chain(f, c) = [n \in {m \in G : at[m] # END_OF_FILE} |-> at[n]]
  BY DEF Chain, at
<1>11. Chain(f, c) = [n \in 1 .. L |-> s[n]]
  <2>1. \A n \in 1 .. L : at[n] = s[n]
    BY <1>8, <1>1, <1>2, Bounds
  <2>2. QED
    BY <1>9, <1>10, <2>1
<1>12. s = [n \in 1 .. L |-> s[n]]
  BY <1>1
<1>13. c \in Cluster
  BY <1>1
<1>14. QED
  BY <1>1, <1>2, <1>11, <1>12, <1>13 DEF L
-----------------------------------------------------------------------------
(* Searches *)

\* The places of a chain.
In(s, p) == \E i \in 1 .. Len(s) : s[i] = p[1]

LEMMA RunsGives ==
  ASSUME NEW f, NEW c, NEW s, Runs(f, c, s)
  PROVE  /\ Len(s) \in Nat /\ Len(s) >= 1 /\ DOMAIN s = 1 .. Len(s)
         /\ s \in [1 .. Len(s) -> Cluster] /\ s[1] = c
         /\ \A i, k \in 1 .. Len(s) : s[i] = s[k] => i = k
         /\ \A k \in 1 .. Len(s) :
              /\ s[k] \in Cluster /\ s[k] >= ROOT_CLUSTER_NUMBER
              /\ f[s[k]] = IF k = Len(s) THEN END_OF_FILE ELSE s[k + 1]
<1> DEFINE L == Len(s)
<1>1. s \in Seq(Cluster) /\ s # << >>
  BY DEF Runs
<1>2. L \in Nat /\ L # 0 /\ DOMAIN s = 1 .. L /\ s \in [1 .. L -> Cluster]
  BY <1>1, LenProperties, EmptySeq
<1>3. /\ s[1] = c /\ \A i, k \in 1 .. L : s[i] = s[k] => i = k
      /\ \A k \in 1 .. L : s[k] >= ROOT_CLUSTER_NUMBER
                           /\ f[s[k]] = IF k = L THEN END_OF_FILE ELSE s[k + 1]
  BY DEF Runs
<1> HIDE DEF L
<1>4. L >= 1 /\ \A k \in 1 .. L : s[k] \in Cluster
  BY <1>2
<1>5. QED
  BY <1>2, <1>3, <1>4 DEF L

LEMMA PlacesGive ==
  ASSUME NEW f \in FatType, NEW c, NEW s, Runs(f, c, s)
  PROVE  /\ DOMAIN Places(f, c) \subseteq Nat
         /\ \A k \in DOMAIN Places(f, c) : Places(f, c)[k] \in Place /\ In(s, Places(f, c)[k])
         /\ \A p \in Place : In(s, p) => \E k \in DOMAIN Places(f, c) : Places(f, c)[k] = p
<1> DEFINE L == Len(s)
           E == ENTRY_COUNT
           P == Places(f, c)
<1>1. L \in Nat /\ E \in Nat \ {0} /\ \A k \in 1 .. L : s[k] \in Cluster
  BY RunsGives, SizeBounds
<1>2. P = [k \in 1 .. L * E |-> <<s[(k - 1) \div E + 1], (k - 1) % E>>]
  BY ChainIs DEF Places
<1>3. Slot = 0 .. E - 1
  BY DEF Slot
<1>4. \A p : In(s, p) <=> \E i \in 1 .. L : s[i] = p[1]
  BY DEF In
<1> HIDE DEF L, E, P
<1>5. ASSUME NEW k \in DOMAIN P PROVE P[k] \in Place /\ In(s, P[k])
  <2>1. k \in 1 .. L * E /\ L * E \in Nat
    BY <1>1, <1>2
  <2>2. k - 1 \in Nat /\ k - 1 < L * E
    BY <2>1
  <2>3. (k - 1) \div E \in Nat /\ (k - 1) % E \in Slot
    BY <2>2, <1>1, <1>3, DivMod
  <2>4. (k - 1) \div E < L
    BY <2>2, <1>1, DivLess
  <2>5. (k - 1) \div E + 1 \in 1 .. L
    BY <2>3, <2>4, <1>1
  <2>6. P[k] = <<s[(k - 1) \div E + 1], (k - 1) % E>>
    BY <1>2, <2>1
  <2>7. QED
    BY <2>3, <2>5, <2>6, <1>1, <1>4 DEF Place
<1>6. ASSUME NEW p \in Place, In(s, p) PROVE \E k \in DOMAIN P : P[k] = p
  <2>1. PICK i \in 1 .. L : s[i] = p[1]
    BY <1>6, <1>4
  <2>2. p[2] \in 0 .. E - 1 /\ p = <<p[1], p[2]>>
    BY <1>3 DEF Place
  <2> DEFINE q == i - 1
             j == p[2]
             k == q * E + j + 1
  <2>3. q \in Nat /\ q + 1 = i /\ i <= L
    BY <2>1, <1>1
  <2>4. q * E \in Nat /\ q * E + E <= L * E
    <3>1. PICK m \in Nat : L = i + m
      BY <2>3, <1>1
    <3>2. L * E = q * E + E + m * E /\ m * E \in Nat /\ q * E \in Nat
      BY <3>1, <2>3, <1>1
    <3>3. QED
      BY <3>2, <1>1
  <2>5. (q * E + j) \div E = q /\ (q * E + j) % E = j
    BY <2>3, <2>2, <1>1, DivOf
  <2> HIDE DEF q, j
  <2>6. j \in 0 .. E - 1 /\ p = <<s[q + 1], j>>
    BY <2>1, <2>2, <2>3 DEF j
  <2>7. k - 1 = q * E + j /\ k \in 1 .. L * E
    BY <2>4, <2>6, <1>1
  <2>8. P[k] = p /\ k \in DOMAIN P
    BY <2>5, <2>6, <2>7, <1>2
  <2>9. QED
    BY <2>8
<1>7. DOMAIN P \subseteq Nat
  BY <1>1, <1>2
<1>8. QED
  BY <1>5, <1>6, <1>7 DEF P

\* A search over the places of a chain for one of a set: it finds one if there is one.
Finds(s, G, at) ==
  \/ at = << >> /\ \A p \in Place : In(s, p) => p \notin G
  \/ \E p \in Place : In(s, p) /\ p \in G /\ at = <<p>>

LEMMA SearchFinds ==
  ASSUME NEW f \in FatType, NEW c, NEW s, Runs(f, c, s), NEW G,
         NEW K, K = {k \in DOMAIN Places(f, c) : Places(f, c)[k] \in G}
  PROVE  Finds(s, G, IF K = {} THEN << >> ELSE <<Places(f, c)[Min(K)]>>)
<1> DEFINE P == Places(f, c)
<1>1. /\ DOMAIN P \subseteq Nat
      /\ \A k \in DOMAIN P : P[k] \in Place /\ In(s, P[k])
      /\ \A p \in Place : In(s, p) => \E k \in DOMAIN P : P[k] = p
  BY PlacesGive
<1> HIDE DEF P
<1>2. CASE K = {}
  BY <1>1, <1>2 DEF Finds, P
<1>3. CASE K # {}
  <2>1. K \in SUBSET Nat
    BY <1>1 DEF P
  <2>2. \E x \in K : \A y \in K : x <= y
    BY <2>1, <1>3, LeastNat
  <2>3. Min(K) \in K
    BY <2>2 DEF Min
  <2>4. P[Min(K)] \in Place /\ In(s, P[Min(K)]) /\ P[Min(K)] \in G
    BY <2>3, <1>1 DEF P
  <2>5. QED
    BY <2>4, <1>3 DEF Finds, P
<1>4. QED
  BY <1>2, <1>3

Asked(d, r) ==
  {p \in Place : EntryAt(d, p).name = r.name /\ (r.buffer_size = 0 \/ EntryAt(d, p).ext = r.ext)}

Named(d, r) == {p \in Place : EntryAt(d, p).name = r.name /\ EntryAt(d, p).ext = r.ext}

LEMMA SelfPlaceFinds ==
  ASSUME NEW d, NEW f \in FatType, NEW r, NEW s, Runs(f, r.parent, s)
  PROVE  Finds(s, Asked(d, r), SelfPlace(d, f, r))
<1> DEFINE P == Places(f, r.parent)
           K == {k \in DOMAIN P : LET e == EntryAt(d, P[k])
                                  IN  e.name = r.name /\ (r.buffer_size = 0 \/ e.ext = r.ext)}
<1>1. \A k \in DOMAIN P : P[k] \in Place
  BY PlacesGive
<1>2. K = {k \in DOMAIN P : P[k] \in Asked(d, r)}
  BY <1>1 DEF Asked
<1>3. SelfPlace(d, f, r) = IF K = {} THEN << >> ELSE <<P[Min(K)]>>
  BY DEF SelfPlace, First
<1> HIDE DEF K
<1>4. Finds(s, Asked(d, r), IF K = {} THEN << >> ELSE <<P[Min(K)]>>)
  BY <1>2, SearchFinds
<1>5. QED
  BY <1>3, <1>4

LEMMA NameExistsFinds ==
  ASSUME NEW d, NEW f \in FatType, NEW r, NEW s, Runs(f, r.parent, s)
  PROVE  /\ ~name_exists(d, f, r) => \A p \in Named(d, r) : ~In(s, p)
         /\ name_exists(d, f, r) => \E p \in Named(d, r) : In(s, p)
<1> DEFINE P == Places(f, r.parent)
           K == {k \in DOMAIN P : LET e == EntryAt(d, P[k]) IN e.name = r.name /\ e.ext = r.ext}
<1>1. \A k \in DOMAIN P : P[k] \in Place
  BY PlacesGive
<1>2. K = {k \in DOMAIN P : P[k] \in Named(d, r)}
  BY <1>1 DEF Named
<1>3. name_exists(d, f, r) <=> (IF K = {} THEN << >> ELSE <<P[Min(K)]>>) # << >>
  BY DEF name_exists, First
<1> HIDE DEF K
<1>4. Finds(s, Named(d, r), IF K = {} THEN << >> ELSE <<P[Min(K)]>>)
  BY <1>2, SearchFinds
<1>5. QED
  BY <1>3, <1>4 DEF Finds, Named

LEMMA FreePlaceFinds ==
  ASSUME NEW d, NEW f \in FatType, NEW c, NEW s, Runs(f, c, s)
  PROVE  /\ Finds(s, Place \ Used(d), FreePlace(d, f, c))
         /\ Finds(s, Used(d), UsedPlace(d, f, c))
<1> DEFINE P == Places(f, c)
           K == {k \in DOMAIN P : EntryAt(d, P[k]) = emptyEntry}
           U == {k \in DOMAIN P : EntryAt(d, P[k]) # emptyEntry}
<1>1. \A k \in DOMAIN P : P[k] \in Place
  BY PlacesGive
<1>2. K = {k \in DOMAIN P : P[k] \in Place \ Used(d)} /\ U = {k \in DOMAIN P : P[k] \in Used(d)}
  BY <1>1 DEF Used
<1>3. /\ FreePlace(d, f, c) = IF K = {} THEN << >> ELSE <<P[Min(K)]>>
      /\ UsedPlace(d, f, c) = IF U = {} THEN << >> ELSE <<P[Min(U)]>>
  BY DEF FreePlace, UsedPlace, First
<1> HIDE DEF K, U
<1>4. Finds(s, Place \ Used(d), IF K = {} THEN << >> ELSE <<P[Min(K)]>>)
  BY <1>2, SearchFinds
<1>5. Finds(s, Used(d), IF U = {} THEN << >> ELSE <<P[Min(U)]>>)
  BY <1>2, SearchFinds
<1>6. QED
  BY <1>3, <1>4, <1>5

\* A search finds the same on another disk on which it sees the same names.
SameNames(s, d, b) ==
  \A p \in Place : In(s, p) => /\ EntryAt(b, p).name = EntryAt(d, p).name
                               /\ EntryAt(b, p).ext = EntryAt(d, p).ext

LEMMA SelfPlaceSame ==
  ASSUME NEW d, NEW b, NEW f \in FatType, NEW g \in FatType, NEW r, NEW s,
         Runs(f, r.parent, s), Runs(g, r.parent, s), SameNames(s, d, b)
  PROVE  SelfPlace(b, g, r) = SelfPlace(d, f, r)
<1> DEFINE P == Places(f, r.parent)
           K == {k \in DOMAIN P : LET e == EntryAt(d, P[k])
                                  IN  e.name = r.name /\ (r.buffer_size = 0 \/ e.ext = r.ext)}
           L == {k \in DOMAIN P : LET e == EntryAt(b, P[k])
                                  IN  e.name = r.name /\ (r.buffer_size = 0 \/ e.ext = r.ext)}
<1>1. Chain(f, r.parent) = s /\ Chain(g, r.parent) = s
  BY ChainIs
<1>2. Places(g, r.parent) = P
  BY <1>1 DEF Places
<1>3. /\ SelfPlace(d, f, r) = IF K = {} THEN << >> ELSE <<P[Min(K)]>>
      /\ SelfPlace(b, g, r) = IF L = {} THEN << >> ELSE <<P[Min(L)]>>
  BY <1>2 DEF SelfPlace, First
<1>4. \A k \in DOMAIN P : P[k] \in Place /\ In(s, P[k])
  BY PlacesGive
<1>5. L = K
  BY <1>4 DEF SameNames
<1> HIDE DEF K, L
<1>6. QED
  BY <1>3, <1>5
-----------------------------------------------------------------------------
(* A disk in order *)

LEMMA UsedGives ==
  ASSUME NEW d \in DiskType
  PROVE  /\ \A p \in Used(d) :
              /\ p \in Place /\ p[1] \in Cluster /\ p[2] \in Slot /\ p = <<p[1], p[2]>>
              /\ EntryAt(d, p) \in EntryType \ {emptyEntry} /\ Base(d, p) \in Heads(d)
              /\ IsDirectory(d, p[1]) /\ EntryAt(d, p) = d[p[1]].entry[p[2]]
              /\ EntryAt(d, p).directory => Base(d, p) \in Dirs(d)
         /\ Dirs(d) \subseteq Heads(d) /\ Heads(d) \subseteq Cluster
         /\ ROOT_CLUSTER_NUMBER \in Dirs(d)
         /\ \A h \in Heads(d) : h # ROOT_CLUSTER_NUMBER => \E p \in Used(d) : h = Base(d, p)
         /\ \A h \in Dirs(d) : h # ROOT_CLUSTER_NUMBER =>
              \E p \in Used(d) : h = Base(d, p) /\ EntryAt(d, p).directory
<1>1. ASSUME NEW p \in Used(d)
      PROVE  /\ p \in Place /\ p[1] \in Cluster /\ p[2] \in Slot /\ p = <<p[1], p[2]>>
             /\ EntryAt(d, p) \in EntryType \ {emptyEntry} /\ Base(d, p) \in Cluster
             /\ IsDirectory(d, p[1]) /\ EntryAt(d, p) = d[p[1]].entry[p[2]]
  <2>1. p \in Place /\ EntryAt(d, p) # emptyEntry
    BY DEF Used
  <2>2. QED
    BY <2>1, EntryAtType, EntryGives DEF Base
<1>2. QED
  BY <1>1, Bounds DEF Heads, Dirs

LEMMA LayoutGives ==
  ASSUME NEW d, NEW f, NEW ch, NEW rank, Layout(d, f, ch, rank)
  PROVE  /\ d \in DiskType /\ f \in FatType
         /\ \A h \in Heads(d) :
              /\ Runs(f, h, ch[h]) /\ Chain(f, h) = ch[h] /\ DOMAIN ch[h] = 1 .. Len(ch[h])
              /\ InChain(ch, h, h) /\ \A c : InChain(ch, c, h) => c \in Cluster
              /\ \A p : In(ch[h], p) <=> InChain(ch, p[1], h)
         /\ \A g, h \in Heads(d) : \A c : InChain(ch, c, g) /\ InChain(ch, c, h) => g = h
         /\ \A p \in Used(d) : \E b \in Dirs(d) : InChain(ch, p[1], b)
         /\ \A p \in Place, b \in Dirs(d) : InChain(ch, p[1], b) => IsDirectory(d, p[1])
<1>1. d \in DiskType /\ f \in FatType
  BY DEF Layout, TypesGood
<1>2. /\ \A h \in Heads(d) : Runs(f, h, ch[h])
      /\ \A g, h \in Heads(d) : \A c \in Cluster : InChain(ch, c, g) /\ InChain(ch, c, h) => g = h
  BY DEF Layout, ChainsGood
<1>3. ASSUME NEW h \in Heads(d)
      PROVE  /\ Runs(f, h, ch[h]) /\ Chain(f, h) = ch[h] /\ DOMAIN ch[h] = 1 .. Len(ch[h])
             /\ InChain(ch, h, h) /\ \A c : InChain(ch, c, h) => c \in Cluster
             /\ \A p : In(ch[h], p) <=> InChain(ch, p[1], h)
  <2>1. Runs(f, h, ch[h])
    BY <1>2
  <2>2. Chain(f, h) = ch[h]
    BY <1>1, <2>1, ChainIs
  <2>3. /\ Len(ch[h]) \in Nat /\ Len(ch[h]) >= 1 /\ DOMAIN ch[h] = 1 .. Len(ch[h])
        /\ ch[h][1] = h /\ \A k \in 1 .. Len(ch[h]) : ch[h][k] \in Cluster
    BY <2>1, RunsGives
  <2>4. 1 \in DOMAIN ch[h]
    BY <2>3
  <2>5. QED
    BY <2>1, <2>2, <2>3, <2>4 DEF InChain, In
<1>4. \A p \in Used(d) : IsDirectory(d, p[1]) /\ p[1] \in Cluster
  BY <1>1, UsedGives
<1>5. \A c \in Cluster : IsDirectory(d, c) <=> \E h \in Dirs(d) : InChain(ch, c, h)
  BY DEF Layout, TablesGood
<1>6. \A p \in Place : p[1] \in Cluster
  BY DEF Place
<1>7. QED
  BY <1>1, <1>2, <1>3, <1>4, <1>5, <1>6

\* Writing an entry changes nothing else.
LEMMA WithEntryGives ==
  ASSUME NEW d \in DiskType, NEW p \in Place, IsDirectory(d, p[1]), NEW e \in EntryType
  PROVE  LET b == WithEntry(d, p, e)
         IN  /\ b \in DiskType /\ EntryAt(b, p) = e
             /\ \A q \in Place : q # p => EntryAt(b, q) = EntryAt(d, q)
             /\ \A c \in Cluster : /\ IsDirectory(b, c) <=> IsDirectory(d, c)
                                   /\ c # p[1] => b[c] = d[c]
                                   /\ IsDirectory(d, c) => b[c].info = d[c].info
<1> DEFINE b == WithEntry(d, p, e)
           t == d[p[1]]
           u == [t EXCEPT !.entry[p[2]] = e]
<1>1. p[1] \in Cluster /\ p[2] \in Slot /\ p = <<p[1], p[2]>> /\ t \in TableType
  BY EntryAtType, DiskGives
<1>2. u \in TableType /\ u.info = t.info /\ u.kind = "table" /\ t.kind = "table"
      /\ u.entry = [t.entry EXCEPT ![p[2]] = e] /\ DOMAIN t.entry = Slot
  BY <1>1 DEF TableType
<1>3. b = [d EXCEPT ![p[1]] = u]
  BY DEF WithEntry
<1> HIDE DEF u, b, t
<1>4. DOMAIN d = Cluster
  BY DEF DiskType
<1>5. b[p[1]] = u /\ \A c \in Cluster : c # p[1] => b[c] = d[c]
  BY <1>3, <1>1, <1>4
<1>6. b \in DiskType
  BY <1>2, <1>3, <1>1 DEF DiskType
<1>7. EntryAt(b, p) = e
  BY <1>5, <1>2, <1>1 DEF EntryAt
<1>8. ASSUME NEW q \in Place, q # p PROVE EntryAt(b, q) = EntryAt(d, q)
  <2>1. q[1] \in Cluster /\ q[2] \in Slot /\ q = <<q[1], q[2]>>
    BY DEF Place
  <2>2. CASE q[1] = p[1]
    <3>1. q[2] # p[2]
      BY <2>1, <2>2, <1>1, <1>8
    <3>2. u.entry[q[2]] = t.entry[q[2]]
      BY <3>1, <2>1, <1>2
    <3>3. QED
      BY <3>2, <2>2, <1>5, <1>2 DEF EntryAt, t
  <2>3. CASE q[1] # p[1]
    BY <2>1, <2>3, <1>5 DEF EntryAt
  <2>4. QED
    BY <2>2, <2>3
<1>9. ASSUME NEW c \in Cluster
      PROVE  /\ IsDirectory(b, c) <=> IsDirectory(d, c)
             /\ c # p[1] => b[c] = d[c]
             /\ IsDirectory(d, c) => b[c].info = d[c].info
  BY <1>5, <1>2 DEF IsDirectory, t
<1>10. QED
  BY <1>6, <1>7, <1>8, <1>9 DEF b

\* What nobody's chain goes through may change, as long as it does not become
\* a table.
LEMMA ElsewhereKeeps ==
  ASSUME NEW d, NEW f, NEW ch, NEW rank, Layout(d, f, ch, rank),
         NEW b \in DiskType, NEW g \in FatType, \A c \in 0 .. ROOT_CLUSTER_NUMBER : g[c] # 0,
         \A c \in Cluster : IF \E h \in Heads(d) : InChain(ch, c, h)
                            THEN b[c] = d[c] /\ g[c] = f[c]
                            ELSE ~IsDirectory(b, c)
  PROVE  /\ Layout(b, g, ch, rank) /\ Used(b) = Used(d)
         /\ Heads(b) = Heads(d) /\ Dirs(b) = Dirs(d)
         /\ \A p \in Place : EntryAt(b, p) = EntryAt(d, p)
<1>1. /\ d \in DiskType /\ f \in FatType
      /\ \A h \in Heads(d) : Runs(f, h, ch[h]) /\ DOMAIN ch[h] = 1 .. Len(ch[h])
      /\ \A h \in Heads(d) : \A c : InChain(ch, c, h) => c \in Cluster
  BY LayoutGives
<1>2. Dirs(d) \subseteq Heads(d) /\ ROOT_CLUSTER_NUMBER \in Dirs(d)
      /\ \A p \in Used(d) : p \in Place /\ Base(d, p) \in Heads(d)
  BY <1>1, UsedGives
<1>3. \A c \in Cluster : IsDirectory(d, c) <=> \E h \in Dirs(d) : InChain(ch, c, h)
  BY DEF Layout, TablesGood
<1>4. \A c \in Cluster : /\ IsDirectory(b, c) <=> IsDirectory(d, c)
                         /\ IsDirectory(d, c) => b[c] = d[c]
  <2> SUFFICES ASSUME NEW c \in Cluster
               PROVE  /\ IsDirectory(b, c) <=> IsDirectory(d, c)
                      /\ IsDirectory(d, c) => b[c] = d[c]
    OBVIOUS
  <2>1. CASE \E h \in Heads(d) : InChain(ch, c, h)
    BY <2>1 DEF IsDirectory
  <2>2. CASE ~\E h \in Heads(d) : InChain(ch, c, h)
    BY <2>2, <1>2, <1>3
  <2>3. QED
    BY <2>1, <2>2
<1>5. \A p \in Place : EntryAt(b, p) = EntryAt(d, p)
  <2>1. \A p \in Place : p[1] \in Cluster
    BY DEF Place
  <2>2. QED
    BY <2>1, <1>4 DEF EntryAt, IsDirectory
<1>6. Used(b) = Used(d)
  BY <1>5 DEF Used
<1>7. \A p \in Used(d) : Base(b, p) = Base(d, p)
  BY <1>5, <1>2 DEF Base
<1>8. Heads(b) = Heads(d)
  BY <1>6, <1>7 DEF Heads
<1>9. Dirs(b) = Dirs(d)
  BY <1>5, <1>6, <1>7, <1>2 DEF Dirs
<1>10. \A h \in Heads(d) : \A k \in DOMAIN ch[h] : b[ch[h][k]] = d[ch[h][k]] /\ g[ch[h][k]] = f[ch[h][k]]
  BY <1>1 DEF InChain
<1>11. TypesGood(b, g, rank)
  BY DEF Layout, TypesGood
<1>12. ChainsGood(b, g, ch)
  <2>1. ASSUME NEW h \in Heads(d) PROVE Runs(g, h, ch[h])
    BY <1>1, <1>10 DEF Runs
  <2>2. QED
    BY <2>1, <1>8 DEF Layout, ChainsGood
<1>13. EntriesGood(b)
  BY <1>6, <1>7 DEF Layout, EntriesGood
<1>14. TablesGood(b, ch)
  BY <1>2, <1>4, <1>9, <1>10 DEF Layout, TablesGood
<1>15. HomesGood(b, ch, rank)
  <2> SUFFICES ASSUME NEW p \in Used(d), NEW a \in Dirs(d), InChain(ch, p[1], a)
               PROVE  IF EntryAt(b, p).directory THEN Placed(b, ch, p, a) /\ rank[a] < rank[Base(b, p)]
                      ELSE Stored(b, ch, p, a)
    BY <1>6, <1>9 DEF HomesGood
  <2>1. IF EntryAt(d, p).directory THEN Placed(d, ch, p, a) /\ rank[a] < rank[Base(d, p)]
        ELSE Stored(d, ch, p, a)
    BY DEF Layout, HomesGood
  <2>2. EntryAt(b, p) = EntryAt(d, p) /\ Base(b, p) = Base(d, p) /\ Base(d, p) \in Heads(d)
    BY <1>5, <1>7, <1>2
  <2>3. \A k \in DOMAIN ch[Base(d, p)] : b[ch[Base(d, p)][k]] = d[ch[Base(d, p)][k]]
    BY <2>2, <1>10
  <2>4. QED
    BY <2>1, <2>2, <2>3 DEF Placed, Stored
<1>16. NamesGood(b, ch)
  BY <1>5, <1>6, <1>9, <1>2 DEF Layout, NamesGood
<1>17. QED
  BY <1>5, <1>6, <1>8, <1>9, <1>11, <1>12, <1>13, <1>14, <1>15, <1>16 DEF Layout
-----------------------------------------------------------------------------
(* A new entry *)

NewEntry(r, c) ==
  [name |-> r.name, ext |-> r.ext, directory |-> r.buffer_size = 0,
   cluster_number |-> c, size |-> Counted(r)]

LEMMA RequestGives ==
  ASSUME NEW r \in Request
  PROVE  /\ r.parent \in Cluster /\ r.name \in Names /\ r.buffer_size \in Size
         /\ r.buffer_size = 0 => r.ext = NoExt /\ Counted(r) = FOLDER_SIZE
         /\ r.buffer_size # 0 => r.ext \in Exts /\ r.buffer_size \in FileSizes /\ Counted(r) = r.buffer_size
         /\ \A c \in Cluster : NewEntry(r, c) \in EntryType \ {emptyEntry}
<1>1. CASE r \in [parent : Cluster, name : Names, ext : {NoExt}, buffer_size : {0}]
  <2>1. r.parent \in Cluster /\ r.name \in Names /\ r.buffer_size = 0 /\ r.ext = NoExt
        /\ Counted(r) = FOLDER_SIZE
    BY <1>1 DEF Counted
  <2>2. \A c \in Cluster : NewEntry(r, c) \in EntryType /\ NewEntry(r, c).name # ""
    BY <2>1, SizeBounds, NameBounds DEF NewEntry, EntryType
  <2>3. \A c \in Cluster : NewEntry(r, c) # emptyEntry
    <3>1. emptyEntry.name = ""
      BY DEF emptyEntry
    <3>2. QED
      BY <2>2, <3>1
  <2>4. QED
    BY <2>1, <2>2, <2>3, SizeBounds
<1>2. CASE r \in [parent : Cluster, name : Names, ext : Exts, buffer_size : FileSizes]
  <2>1. r.parent \in Cluster /\ r.name \in Names /\ r.buffer_size # 0 /\ r.ext \in Exts
        /\ r.buffer_size \in FileSizes /\ Counted(r) = r.buffer_size
    BY <1>2, SizeBounds DEF Counted
  <2>2. \A c \in Cluster : NewEntry(r, c) \in EntryType /\ NewEntry(r, c).name # ""
    BY <2>1, SizeBounds, NameBounds DEF NewEntry, EntryType
  <2>3. \A c \in Cluster : NewEntry(r, c) # emptyEntry
    <3>1. emptyEntry.name = ""
      BY DEF emptyEntry
    <3>2. QED
      BY <2>2, <3>1
  <2>4. QED
    BY <2>1, <2>2, <2>3, SizeBounds
<1>3. QED
  BY <1>1, <1>2 DEF Request

\* A cluster becomes a table without entries.
LEMMA TableGives ==
  ASSUME NEW d \in DiskType, NEW c \in Cluster, ~IsDirectory(d, c), NEW info \in InfoType,
         NEW b, b[c] = Table(info), \A a \in Cluster : a # c => b[a] = d[a]
  PROVE  /\ IsDirectory(b, c) /\ b[c].info = info
         /\ \A q \in Place : EntryAt(b, q) = EntryAt(d, q)
<1>1. Table(info) \in TableType /\ Table(info).kind = "table" /\ Table(info).info = info
      /\ \A i \in Slot : Table(info).entry[i] = emptyEntry
  BY DEF Table, TableType, EntryType
<1>5. ASSUME NEW q \in Place PROVE EntryAt(b, q) = EntryAt(d, q)
  <2>1. q[1] \in Cluster /\ q[2] \in Slot
    BY DEF Place
  <2>2. CASE q[1] = c
    BY <2>1, <2>2, <1>1 DEF EntryAt, IsDirectory
  <2>3. CASE q[1] # c
    BY <2>1, <2>3 DEF EntryAt
  <2>4. QED
    BY <2>2, <2>3
<1>6. QED
  BY <1>1, <1>5 DEF IsDirectory

\* The disk with the entry of a file or of a directory, and with its table.
WithNew(d, r, s, p) ==
  LET b == WithEntry(d, p, NewEntry(r, s[1]))
  IN  IF r.buffer_size = 0 THEN [b EXCEPT ![s[1]] = Table(Info(r.parent, p[1], p[2], FOLDER_SIZE))]
      ELSE b

NewChains(ch, s) == [h \in DOMAIN ch \cup {s[1]} |-> IF h = s[1] THEN s ELSE ch[h]]

NewRank(rank, r, s) == [rank EXCEPT ![s[1]] = rank[r.parent] + 1]

LEMMA WithNewGives ==
  ASSUME NEW d, NEW f, NEW ch, NEW rank, Layout(d, f, ch, rank), NEW r \in Request,
         NEW s, Awaits(d, f, ch, r, s),
         NEW p \in Place, p \notin Used(d), InChain(ch, p[1], r.parent)
  PROVE  LET b == WithNew(d, r, s, p)
         IN  /\ b \in DiskType /\ EntryAt(b, p) = NewEntry(r, s[1])
             /\ \A q \in Place : q # p => EntryAt(b, q) = EntryAt(d, q)
             /\ \A c \in Cluster :
                  /\ IsDirectory(b, c) <=> IsDirectory(d, c) \/ (r.buffer_size = 0 /\ c = s[1])
                  /\ c # p[1] /\ (r.buffer_size = 0 => c # s[1]) => b[c] = d[c]
                  /\ IsDirectory(d, c) => b[c].info = d[c].info
             /\ r.buffer_size = 0 => b[s[1]].info = Info(r.parent, p[1], p[2], FOLDER_SIZE)
             /\ s[1] \in Cluster /\ s[1] \notin Heads(d) /\ IsDirectory(d, p[1]) /\ r.parent \in Dirs(d)
<1> DEFINE a == WithEntry(d, p, NewEntry(r, s[1]))
           b == WithNew(d, r, s, p)
           info == Info(r.parent, p[1], p[2], FOLDER_SIZE)
<1>1. d \in DiskType /\ r.parent \in Dirs(d) /\ r.parent \in Heads(d)
  BY LayoutGives, UsedGives DEF Awaits, Welcome
<1>2. IsDirectory(d, p[1]) /\ p[1] \in Cluster /\ p[2] \in Slot
  BY <1>1, LayoutGives, EntryAtType
<1>3. /\ s[1] \in Cluster /\ 1 \in 1 .. Len(s)
  BY RunsGives DEF Awaits
<1>4. ~IsDirectory(d, s[1]) /\ \A h \in Heads(d) : ~InChain(ch, s[1], h)
  BY <1>3 DEF Awaits, Spare
<1>5. s[1] \notin Heads(d)
  BY <1>4, LayoutGives
<1>6. /\ a \in DiskType /\ EntryAt(a, p) = NewEntry(r, s[1])
      /\ \A q \in Place : q # p => EntryAt(a, q) = EntryAt(d, q)
      /\ \A c \in Cluster : /\ IsDirectory(a, c) <=> IsDirectory(d, c)
                            /\ c # p[1] => a[c] = d[c]
                            /\ IsDirectory(d, c) => a[c].info = d[c].info
  <2>1. NewEntry(r, s[1]) \in EntryType
    BY <1>3, RequestGives
  <2>2. QED
    BY <2>1, <1>1, <1>2, WithEntryGives
<1>7. CASE r.buffer_size # 0
  <2>1. b = a
    BY <1>7 DEF WithNew
  <2> HIDE DEF a, b
  <2>2. QED
    BY <2>1, <1>1, <1>2, <1>3, <1>5, <1>6, <1>7 DEF b
<1>8. CASE r.buffer_size = 0
  <2>1. b = [a EXCEPT ![s[1]] = Table(info)]
    BY <1>8 DEF WithNew
  <2>2. info \in InfoType
    BY <1>2, RequestGives, SizeBounds DEF Info, InfoType
  <2>3. ~IsDirectory(a, s[1])
    BY <1>3, <1>4, <1>6
  <2> HIDE DEF a, b, info
  <2>4. /\ b \in DiskType /\ IsDirectory(b, s[1]) /\ b[s[1]].info = info
        /\ \A q \in Place : EntryAt(b, q) = EntryAt(a, q)
        /\ \A c \in Cluster : c # s[1] => b[c] = a[c]
    <3>1. a \in DiskType /\ s[1] \in Cluster
      BY <1>3, <1>6
    <3>2. Table(info) \in TableType
      BY <2>2 DEF Table, TableType, EntryType
    <3>3. b \in DiskType /\ b[s[1]] = Table(info) /\ \A c \in Cluster : c # s[1] => b[c] = a[c]
      BY <3>1, <3>2, <2>1 DEF DiskType
    <3>4. IsDirectory(b, s[1]) /\ b[s[1]].info = info /\ \A q \in Place : EntryAt(b, q) = EntryAt(a, q)
      BY <3>1, <3>3, <2>2, <2>3, TableGives
    <3>5. QED
      BY <3>3, <3>4
  <2>5. \A c \in Cluster :
          /\ IsDirectory(b, c) <=> IsDirectory(d, c) \/ c = s[1]
          /\ c # p[1] /\ c # s[1] => b[c] = d[c]
          /\ IsDirectory(d, c) => b[c].info = d[c].info
    BY <1>4, <1>6, <2>4 DEF IsDirectory
  <2>6. QED
    BY <1>1, <1>2, <1>3, <1>5, <1>6, <1>8, <2>4, <2>5 DEF b, info
<1>9. QED
  BY <1>7, <1>8

LEMMA NewKeeps ==
  ASSUME NEW d, NEW f, NEW ch, NEW rank, Layout(d, f, ch, rank), NEW r \in Request,
         NEW s, Awaits(d, f, ch, r, s),
         NEW p \in Place, p \notin Used(d), InChain(ch, p[1], r.parent)
  PROVE  LET b == WithNew(d, r, s, p)
         IN  /\ Layout(b, f, NewChains(ch, s), NewRank(rank, r, s))
             /\ Used(b) = Used(d) \cup {p} /\ Heads(b) = Heads(d) \cup {s[1]}
             /\ Dirs(b) = Dirs(d) \cup (IF r.buffer_size = 0 THEN {s[1]} ELSE {})
<1> DEFINE b == WithNew(d, r, s, p)
           n == s[1]
           e == NewEntry(r, n)
           ch2 == NewChains(ch, s)
           rank2 == NewRank(rank, r, s)
<1>1. /\ b \in DiskType /\ EntryAt(b, p) = e
      /\ \A q \in Place : q # p => EntryAt(b, q) = EntryAt(d, q)
      /\ \A c \in Cluster :
           /\ IsDirectory(b, c) <=> IsDirectory(d, c) \/ (r.buffer_size = 0 /\ c = n)
           /\ c # p[1] /\ (r.buffer_size = 0 => c # n) => b[c] = d[c]
           /\ IsDirectory(d, c) => b[c].info = d[c].info
      /\ r.buffer_size = 0 => b[n].info = Info(r.parent, p[1], p[2], FOLDER_SIZE)
      /\ n \in Cluster /\ n \notin Heads(d) /\ IsDirectory(d, p[1]) /\ r.parent \in Dirs(d)
  BY WithNewGives
<1>2. /\ e \in EntryType \ {emptyEntry} /\ e.cluster_number = n /\ e.name = r.name /\ e.ext = r.ext
      /\ e.directory = (r.buffer_size = 0) /\ e.size = Counted(r)
  BY <1>1, RequestGives DEF NewEntry
<1>3. /\ Runs(f, n, s) /\ DOMAIN s = 1 .. Len(s) /\ Len(s) \in Nat /\ Len(s) >= 1
      /\ \A k \in 1 .. Len(s) : /\ s[k] \in Cluster /\ ~IsDirectory(d, s[k])
                                /\ \A h \in Heads(d) : ~InChain(ch, s[k], h)
      /\ Filled(d, r, s)
      /\ Len(s) = IF r.buffer_size = 0 THEN 1
                  ELSE (r.buffer_size + CLUSTER_SIZE - 1) \div CLUSTER_SIZE
      /\ \A q \in Used(d) : InChain(ch, q[1], r.parent) =>
           EntryAt(d, q).name # r.name \/ EntryAt(d, q).ext # r.ext
  BY RunsGives DEF Awaits, Spare, Welcome
<1>4. /\ d \in DiskType /\ f \in FatType /\ DOMAIN ch = Heads(d)
      /\ \A h \in Heads(d) : Runs(f, h, ch[h]) /\ \A c : InChain(ch, c, h) => c \in Cluster
      /\ \A g, h \in Heads(d) : \A c : InChain(ch, c, g) /\ InChain(ch, c, h) => g = h
      /\ \A q \in Used(d) : \E a \in Dirs(d) : InChain(ch, q[1], a)
      /\ \A q \in Place, a \in Dirs(d) : InChain(ch, q[1], a) => IsDirectory(d, q[1])
  BY LayoutGives DEF Layout, ChainsGood
<1>5. /\ \A q \in Used(d) : q \in Place /\ q[1] \in Cluster /\ Base(d, q) \in Heads(d)
                            /\ (EntryAt(d, q).directory => Base(d, q) \in Dirs(d))
      /\ Dirs(d) \subseteq Heads(d) /\ ROOT_CLUSTER_NUMBER \in Dirs(d) /\ Heads(d) \subseteq Cluster
  BY <1>4, UsedGives
<1>6. p[1] \in Cluster
  BY DEF Place
<1> HIDE DEF b, e
<1>7. \A q \in Used(d) : q # p /\ EntryAt(b, q) = EntryAt(d, q) /\ Base(b, q) = Base(d, q)
  BY <1>1, <1>5 DEF Base
<1>8. Used(b) = Used(d) \cup {p}
  BY <1>1, <1>2 DEF Used
<1>9. Base(b, p) = n
  BY <1>1, <1>2 DEF Base
<1>10. Heads(b) = Heads(d) \cup {n}
  BY <1>7, <1>8, <1>9 DEF Heads
<1>11. Dirs(b) = Dirs(d) \cup (IF r.buffer_size = 0 THEN {n} ELSE {})
  <2> DEFINE D == {q \in Used(d) : EntryAt(d, q).directory}
             B == {q \in Used(b) : EntryAt(b, q).directory}
  <2>1. B = D \cup (IF r.buffer_size = 0 THEN {p} ELSE {})
    BY <1>1, <1>2, <1>7, <1>8
  <2>2. \A q \in D : Base(b, q) = Base(d, q)
    BY <1>7
  <2>3. /\ Dirs(d) = {ROOT_CLUSTER_NUMBER} \cup {Base(d, q) : q \in D}
        /\ Dirs(b) = {ROOT_CLUSTER_NUMBER} \cup {Base(b, q) : q \in B}
    BY DEF Dirs
  <2> HIDE DEF D, B
  <2>4. {Base(b, q) : q \in B} =
          {Base(d, q) : q \in D} \cup (IF r.buffer_size = 0 THEN {n} ELSE {})
    BY <2>1, <2>2, <1>9
  <2>5. QED
    BY <2>3, <2>4
<1> HIDE DEF n
<1>12. /\ DOMAIN ch2 = Heads(b) /\ ch2[n] = s /\ \A h \in Heads(d) : ch2[h] = ch[h]
  BY <1>1, <1>4, <1>10 DEF NewChains, n
<1> HIDE DEF ch2
<1>13. /\ \A h \in Heads(d) : \A c : InChain(ch2, c, h) <=> InChain(ch, c, h)
       /\ \A c : InChain(ch2, c, n) <=> \E k \in 1 .. Len(s) : s[k] = c
  BY <1>3, <1>12 DEF InChain
<1>14. /\ rank2 \in [Cluster -> Nat] /\ rank2[n] = rank[r.parent] + 1
       /\ \A h \in Heads(d) : rank2[h] = rank[h]
  <2>1. rank \in [Cluster -> Nat]
    BY DEF Layout, TypesGood
  <2>2. rank[r.parent] \in Nat
    BY <2>1, <1>1, <1>5
  <2>3. QED
    BY <2>1, <2>2, <1>1, <1>5 DEF NewRank, n
<1> HIDE DEF rank2
<1>15. TypesGood(b, f, rank2)
  BY <1>1, <1>14 DEF Layout, TypesGood
<1>16. ChainsGood(b, f, ch2)
  <2>1. \A h \in Heads(b) : Runs(f, h, ch2[h])
    BY <1>3, <1>4, <1>10, <1>12
  <2>2. \A g, h \in Heads(b) : \A c \in Cluster : InChain(ch2, c, g) /\ InChain(ch2, c, h) => g = h
    BY <1>3, <1>4, <1>10, <1>13
  <2>3. QED
    BY <2>1, <2>2, <1>12 DEF ChainsGood
<1>17. EntriesGood(b)
  <2>1. \A q \in Used(d) : Base(b, q) # n
    BY <1>1, <1>5, <1>7
  <2>2. n # ROOT_CLUSTER_NUMBER
    BY <1>1, <1>5
  <2>3. QED
    BY <2>1, <2>2, <1>7, <1>8, <1>9 DEF Layout, EntriesGood
<1>18. TablesGood(b, ch2)
  <2>1. ASSUME NEW c \in Cluster PROVE IsDirectory(b, c) <=> \E h \in Dirs(b) : InChain(ch2, c, h)
    <3>1. IsDirectory(d, c) <=> \E h \in Dirs(d) : InChain(ch, c, h)
      BY DEF Layout, TablesGood
    <3>2. r.buffer_size = 0 => (InChain(ch2, c, n) <=> c = n)
      <4>1. s[1] = n
        BY DEF n
      <4>2. QED
        BY <4>1, <1>3, <1>13
    <3>3. QED
      BY <3>1, <3>2, <1>1, <1>5, <1>11, <1>13
  <2>2. ASSUME NEW k \in DOMAIN ch2[ROOT_CLUSTER_NUMBER]
        PROVE  b[ch2[ROOT_CLUSTER_NUMBER][k]].info.parent_base_cluster = ROOT_CLUSTER_NUMBER
    <3>1. ch2[ROOT_CLUSTER_NUMBER] = ch[ROOT_CLUSTER_NUMBER]
      BY <1>5, <1>12
    <3>2. InChain(ch, ch[ROOT_CLUSTER_NUMBER][k], ROOT_CLUSTER_NUMBER)
      BY <2>2, <3>1 DEF InChain
    <3>3. IsDirectory(d, ch[ROOT_CLUSTER_NUMBER][k]) /\ ch[ROOT_CLUSTER_NUMBER][k] \in Cluster
      BY <3>2, <1>4, <1>5 DEF Layout, TablesGood
    <3>4. QED
      BY <2>2, <3>1, <3>3, <1>1 DEF Layout, TablesGood
  <2>3. QED
    BY <2>1, <2>2 DEF TablesGood
<1>19. HomesGood(b, ch2, rank2)
  <2> SUFFICES ASSUME NEW q \in Used(b), NEW a \in Dirs(b), InChain(ch2, q[1], a)
               PROVE  IF EntryAt(b, q).directory THEN Placed(b, ch2, q, a) /\ rank2[a] < rank2[Base(b, q)]
                      ELSE Stored(b, ch2, q, a)
    BY DEF HomesGood
  <2>1. IsDirectory(d, q[1]) /\ q[1] \in Cluster
    BY <1>1, <1>5, <1>6, <1>8, <1>4
  <2>2. a \in Dirs(d) /\ InChain(ch, q[1], a)
    BY <2>1, <1>3, <1>5, <1>11, <1>13
  <2>3. CASE q = p
    <3>1. a = r.parent
      BY <2>2, <2>3, <1>1, <1>4, <1>5
    <3>2. CASE r.buffer_size = 0
      <4>1. rank2[a] < rank2[Base(b, q)]
        <5>1. rank[a] \in Nat /\ rank2[a] = rank[a] /\ rank2[n] = rank[a] + 1
          BY <3>1, <1>1, <1>5, <1>14 DEF Layout, TypesGood
        <5>2. QED
          BY <5>1, <2>3, <1>9
      <4>2. Placed(b, ch2, p, a)
        <5>1. DOMAIN s = {1} /\ s[1] = n
          BY <1>3, <3>2 DEF n
        <5>2. EntryAt(b, p).size = FOLDER_SIZE
          BY <1>1, <1>2, <3>2, RequestGives
        <5>3. QED
          BY <5>1, <5>2, <3>1, <3>2, <1>1, <1>9, <1>12 DEF Placed
      <4>3. QED
        BY <4>1, <4>2, <2>3, <1>1, <1>2, <3>2
    <3>3. CASE r.buffer_size # 0
      <4>1. e.size = r.buffer_size /\ \A k \in 1 .. Len(s) : d[s[k]] = Data(r, k - 1)
        BY <3>3, <1>2, <1>3, RequestGives DEF Filled
      <4>2. \A k \in 1 .. Len(s) : b[s[k]] = d[s[k]]
        BY <1>1, <1>3, <3>3
      <4>3. \A k : Data(r, k) = Data([parent |-> a, name |-> e.name, ext |-> e.ext], k)
        BY <1>2, <3>1 DEF Data
      <4>4. Stored(b, ch2, p, a)
        BY <4>1, <4>2, <4>3, <1>1, <1>3, <1>9, <1>12, <3>3 DEF Stored
      <4>5. QED
        BY <4>4, <2>3, <1>1, <1>2, <3>3
    <3>4. QED
      BY <3>2, <3>3
  <2>4. CASE q # p
    <3>1. q \in Used(d) /\ EntryAt(b, q) = EntryAt(d, q) /\ Base(b, q) = Base(d, q)
          /\ Base(d, q) \in Heads(d) /\ ch2[Base(d, q)] = ch[Base(d, q)]
      BY <2>4, <1>5, <1>7, <1>8, <1>12
    <3>2. IF EntryAt(d, q).directory THEN Placed(d, ch, q, a) /\ rank[a] < rank[Base(d, q)]
          ELSE Stored(d, ch, q, a)
      BY <2>2, <3>1 DEF Layout, HomesGood
    <3>3. rank2[a] = rank[a] /\ rank2[Base(d, q)] = rank[Base(d, q)]
      BY <2>2, <3>1, <1>5, <1>14
    <3>4. \A k \in DOMAIN ch[Base(d, q)] : InChain(ch, ch[Base(d, q)][k], Base(d, q))
      BY DEF InChain
    <3>5. CASE EntryAt(d, q).directory
      <4>1. \A k \in DOMAIN ch[Base(d, q)] : b[ch[Base(d, q)][k]].info = d[ch[Base(d, q)][k]].info
        <5>1. Base(d, q) \in Dirs(d)
          BY <3>1, <3>5, <1>5
        <5>2. QED
          BY <5>1, <3>4, <1>1, <1>4, <1>5 DEF Layout, TablesGood
      <4>2. QED
        BY <4>1, <3>1, <3>2, <3>3, <3>5 DEF Placed
    <3>6. CASE ~EntryAt(d, q).directory
      <4>1. ASSUME NEW k \in DOMAIN ch[Base(d, q)]
            PROVE  b[ch[Base(d, q)][k]] = d[ch[Base(d, q)][k]]
        <5> DEFINE c == ch[Base(d, q)][k]
        <5>1. InChain(ch, c, Base(d, q)) /\ c \in Cluster
          BY <3>1, <3>4, <1>4
        <5>2. c # n
          <6>1. s[1] = n /\ 1 \in 1 .. Len(s)
            BY <1>3 DEF n
          <6>2. QED
            BY <5>1, <6>1, <3>1, <1>3
        <5>3. c # p[1]
          <6>1. d[c] = Data([parent |-> a, name |-> EntryAt(d, q).name, ext |-> EntryAt(d, q).ext], k - 1)
            BY <3>2, <3>6 DEF Stored
          <6>2. ~IsDirectory(d, c)
            BY <6>1 DEF IsDirectory, Data
          <6>3. QED
            BY <6>2, <1>1
        <5>4. QED
          BY <5>1, <5>2, <5>3, <1>1
      <4>2. QED
        BY <4>1, <3>1, <3>2, <3>6 DEF Stored
    <3>7. QED
      BY <3>5, <3>6
  <2>5. QED
    BY <2>3, <2>4
<1>20. NamesGood(b, ch2)
  <2> SUFFICES ASSUME NEW q \in Used(b), NEW t \in Used(b), NEW a \in Dirs(b),
                      InChain(ch2, q[1], a), InChain(ch2, t[1], a),
                      EntryAt(b, q).name = EntryAt(b, t).name, EntryAt(b, q).ext = EntryAt(b, t).ext
               PROVE  q = t
    BY DEF NamesGood
  <2>1. /\ IsDirectory(d, q[1]) /\ q[1] \in Cluster /\ IsDirectory(d, t[1]) /\ t[1] \in Cluster
    BY <1>1, <1>5, <1>6, <1>8, <1>4
  <2>2. a \in Dirs(d) /\ InChain(ch, q[1], a) /\ InChain(ch, t[1], a)
    BY <2>1, <1>3, <1>5, <1>11, <1>13
  <2>3. q = p \/ t = p => a = r.parent
    BY <2>2, <1>1, <1>4, <1>5
  <2>4. CASE q = p /\ t # p
    BY <2>2, <2>3, <2>4, <1>1, <1>2, <1>3, <1>7, <1>8
  <2>5. CASE q # p /\ t = p
    BY <2>2, <2>3, <2>5, <1>1, <1>2, <1>3, <1>7, <1>8
  <2>6. CASE q # p /\ t # p
    BY <2>2, <2>6, <1>7, <1>8 DEF Layout, NamesGood
  <2>7. QED
    BY <2>4, <2>5, <2>6
<1>21. Layout(b, f, ch2, rank2)
  BY <1>15, <1>16, <1>17, <1>18, <1>19, <1>20 DEF Layout
<1>22. QED
  BY <1>8, <1>10, <1>11, <1>21 DEF b, n, ch2, rank2
-----------------------------------------------------------------------------
(* An entry less *)

WithoutChain(ch, n) == [h \in DOMAIN ch \ {n} |-> ch[h]]

\* The disk without the entry p and with nothing in its cluster n.
LEMMA WithoutGives ==
  ASSUME NEW d \in DiskType, NEW p \in Used(d), NEW n \in Cluster, n # p[1],
         IsDirectory(d, n) => \A q \in Used(d) : q[1] # n,
         NEW b, b \in DiskType, b[n] = Zero,
         \A c \in Cluster : c # n => b[c] = WithEntry(d, p, emptyEntry)[c]
  PROVE  /\ EntryAt(b, p) = emptyEntry
         /\ \A q \in Place : q # p => EntryAt(b, q) = EntryAt(d, q)
         /\ \A c \in Cluster :
              /\ IsDirectory(b, c) <=> IsDirectory(d, c) /\ c # n
              /\ c # p[1] /\ c # n => b[c] = d[c]
              /\ IsDirectory(d, c) /\ c # n => b[c].info = d[c].info
<1> DEFINE a == WithEntry(d, p, emptyEntry)
<1>1. p \in Place /\ p[1] \in Cluster /\ IsDirectory(d, p[1])
  BY UsedGives
<1>2. /\ EntryAt(a, p) = emptyEntry
      /\ \A q \in Place : q # p => EntryAt(a, q) = EntryAt(d, q)
      /\ \A c \in Cluster : /\ IsDirectory(a, c) <=> IsDirectory(d, c)
                            /\ c # p[1] => a[c] = d[c]
                            /\ IsDirectory(d, c) => a[c].info = d[c].info
  <2>1. emptyEntry \in EntryType
    BY DEF EntryType
  <2>2. QED
    BY <2>1, <1>1, WithEntryGives
<1> HIDE DEF a
<1>3. \A c \in Cluster : c # n => b[c] = a[c]
  BY DEF a
<1>4. ~IsDirectory(b, n)
  BY DEF IsDirectory, Zero
<1>5. ASSUME NEW q \in Place PROVE EntryAt(b, q) = IF q = p THEN emptyEntry ELSE EntryAt(d, q)
  <2>1. q[1] \in Cluster
    BY DEF Place
  <2>2. CASE q[1] # n
    <3>1. EntryAt(b, q) = EntryAt(a, q)
      BY <2>1, <2>2, <1>3 DEF EntryAt
    <3>2. QED
      BY <3>1, <1>2
  <2>3. CASE q[1] = n
    <3>1. EntryAt(b, q) = emptyEntry
      BY <2>3, <1>4 DEF EntryAt, IsDirectory
    <3>2. EntryAt(d, q) = emptyEntry
      <4>1. CASE IsDirectory(d, n)
        BY <4>1, <2>3 DEF Used
      <4>2. CASE ~IsDirectory(d, n)
        BY <4>2, <2>3 DEF EntryAt, IsDirectory
      <4>3. QED
        BY <4>1, <4>2
    <3>3. QED
      BY <3>1, <3>2
  <2>4. QED
    BY <2>2, <2>3
<1>6. ASSUME NEW c \in Cluster
      PROVE  /\ IsDirectory(b, c) <=> IsDirectory(d, c) /\ c # n
             /\ c # p[1] /\ c # n => b[c] = d[c]
             /\ IsDirectory(d, c) /\ c # n => b[c].info = d[c].info
  BY <1>2, <1>3, <1>4 DEF IsDirectory
<1>7. QED
  BY <1>1, <1>5, <1>6

LEMMA WithoutKeeps ==
  ASSUME NEW d, NEW f, NEW ch, NEW rank, Layout(d, f, ch, rank), NEW p \in Used(d),
         NEW n, n = Base(d, p), f[n] = END_OF_FILE,
         EntryAt(d, p).directory => \A q \in Used(d) : q[1] # n,
         NEW b, b \in DiskType, b[n] = Zero,
         \A c \in Cluster : c # n => b[c] = WithEntry(d, p, emptyEntry)[c],
         NEW g \in FatType, \A c \in Cluster : c # n => g[c] = f[c]
  PROVE  /\ Layout(b, g, WithoutChain(ch, n), rank)
         /\ Used(b) = Used(d) \ {p} /\ n \in Heads(d) /\ n # ROOT_CLUSTER_NUMBER
         /\ Heads(b) = Heads(d) \ {n} /\ Dirs(b) = Dirs(d) \ {n}
<1> DEFINE ch2 == WithoutChain(ch, n)
<1>1. /\ d \in DiskType /\ f \in FatType /\ DOMAIN ch = Heads(d)
      /\ \A h \in Heads(d) : Runs(f, h, ch[h]) /\ \A c : InChain(ch, c, h) => c \in Cluster
      /\ \A g1, h \in Heads(d) : \A c : InChain(ch, c, g1) /\ InChain(ch, c, h) => g1 = h
      /\ \A q \in Used(d) : \E a \in Dirs(d) : InChain(ch, q[1], a)
      /\ \A h \in Heads(d) : InChain(ch, h, h) /\ DOMAIN ch[h] = 1 .. Len(ch[h])
  BY LayoutGives DEF Layout, ChainsGood
<1>2. /\ \A q \in Used(d) : /\ q \in Place /\ q[1] \in Cluster /\ Base(d, q) \in Heads(d)
                            /\ (EntryAt(d, q).directory => Base(d, q) \in Dirs(d))
                            /\ IsDirectory(d, q[1]) /\ EntryAt(d, q) # emptyEntry
      /\ Dirs(d) \subseteq Heads(d) /\ ROOT_CLUSTER_NUMBER \in Dirs(d) /\ Heads(d) \subseteq Cluster
  BY <1>1, UsedGives
<1>3. n \in Heads(d) /\ n \in Cluster /\ n # ROOT_CLUSTER_NUMBER
  BY <1>2 DEF Layout, EntriesGood
<1>4. \A q \in Used(d) : Base(d, q) = n => q = p
  BY DEF Layout, EntriesGood
<1>5. DOMAIN ch[n] = {1} /\ ch[n][1] = n /\ \A c : InChain(ch, c, n) => c = n
  <2> DEFINE s == ch[n]
             L == Len(s)
  <2>1. Runs(f, n, s)
    BY <1>1, <1>3
  <2> HIDE DEF s
  <2>2. /\ L \in Nat /\ L >= 1 /\ DOMAIN s = 1 .. L /\ s[1] = n
        /\ \A k \in 1 .. L : /\ s[k] \in Cluster
                             /\ f[s[k]] = IF k = L THEN END_OF_FILE ELSE s[k + 1]
    BY <2>1, RunsGives
  <2> HIDE DEF L
  <2>3. L = 1
    <3> SUFFICES ASSUME L # 1 PROVE FALSE
      OBVIOUS
    <3>1. 1 \in 1 .. L /\ 2 \in 1 .. L /\ 1 + 1 = 2
      BY <2>2
    <3>2. s[2] \in Cluster /\ f[s[1]] = s[2]
      BY <2>2, <3>1
    <3>3. QED
      BY <2>2, <3>2, Bounds
  <2>4. DOMAIN s = {1} /\ s[1] = n
    BY <2>2, <2>3
  <2>5. QED
    BY <2>4 DEF InChain, s
<1>6. IsDirectory(d, n) <=> EntryAt(d, p).directory
  <2>1. CASE EntryAt(d, p).directory
    BY <2>1, <1>1, <1>2, <1>3 DEF Layout, TablesGood
  <2>2. CASE ~EntryAt(d, p).directory
    <3>1. \A h \in Dirs(d) : h # n
      <4>1. ASSUME NEW h \in Dirs(d), h = n PROVE FALSE
        <5>1. PICK q \in Used(d) : h = Base(d, q) /\ EntryAt(d, q).directory
          BY <4>1, <1>1, <1>3, UsedGives
        <5>2. QED
          BY <5>1, <4>1, <1>4, <2>2
      <4>2. QED
        BY <4>1
    <3>2. QED
      BY <3>1, <2>2, <1>1, <1>2, <1>3 DEF Layout, TablesGood
  <2>3. QED
    BY <2>1, <2>2
<1>7. n # p[1]
  BY <1>2, <1>6
<1>8. /\ EntryAt(b, p) = emptyEntry
      /\ \A q \in Place : q # p => EntryAt(b, q) = EntryAt(d, q)
      /\ \A c \in Cluster :
           /\ IsDirectory(b, c) <=> IsDirectory(d, c) /\ c # n
           /\ c # p[1] /\ c # n => b[c] = d[c]
           /\ IsDirectory(d, c) /\ c # n => b[c].info = d[c].info
  BY <1>1, <1>3, <1>6, <1>7, WithoutGives
<1>9. Used(b) = Used(d) \ {p}
  BY <1>2, <1>8 DEF Used
<1>10. \A q \in Used(b) : q \in Used(d) /\ q # p /\ EntryAt(b, q) = EntryAt(d, q) /\ Base(b, q) = Base(d, q)
                          /\ Base(d, q) # n
  BY <1>2, <1>4, <1>8, <1>9 DEF Base
<1>11. Heads(b) = Heads(d) \ {n}
  BY <1>3, <1>9, <1>10 DEF Heads
<1>12. Dirs(b) = Dirs(d) \ {n}
  BY <1>3, <1>9, <1>10 DEF Dirs
<1>13. DOMAIN ch2 = Heads(b) /\ \A h \in Heads(b) : ch2[h] = ch[h]
  BY <1>1, <1>11 DEF WithoutChain
<1> HIDE DEF ch2
<1>14. \A h \in Heads(b) : h \in Heads(d) /\ h # n /\ \A c : InChain(ch2, c, h) <=> InChain(ch, c, h)
  BY <1>11, <1>13 DEF InChain
<1>15. \A h \in Heads(b) : \A c : InChain(ch2, c, h) => c # n
  BY <1>1, <1>3, <1>14
<1>16. TypesGood(b, g, rank)
  <2>1. \A c \in 0 .. ROOT_CLUSTER_NUMBER : c # n /\ c \in Cluster
    <3>1. n >= ROOT_CLUSTER_NUMBER
      BY <1>1, <1>3, <1>5, RunsGives
    <3>2. n \in Nat /\ n > ROOT_CLUSTER_NUMBER
      BY <3>1, <1>3, Bounds
    <3>3. ROOT_CLUSTER_NUMBER \in 0 .. CLUSTER_COUNT - 1
      BY Bounds DEF Cluster
    <3>4. QED
      BY <3>2, <3>3, Bounds DEF Cluster
  <2>2. QED
    BY <2>1 DEF Layout, TypesGood
<1>17. ChainsGood(b, g, ch2)
  <2>1. ASSUME NEW h \in Heads(b) PROVE Runs(g, h, ch2[h])
    <3>1. \A k \in 1 .. Len(ch[h]) : InChain(ch2, ch[h][k], h)
      BY <1>1, <1>13, <1>14 DEF InChain
    <3>2. \A k \in 1 .. Len(ch[h]) : g[ch[h][k]] = f[ch[h][k]]
      BY <3>1, <1>1, <1>14, <1>15
    <3>3. QED
      BY <3>2, <1>1, <1>13, <1>14 DEF Runs
  <2>2. QED
    BY <2>1, <1>1, <1>13, <1>14 DEF ChainsGood
<1>18. EntriesGood(b)
  BY <1>10 DEF Layout, EntriesGood
<1>19. TablesGood(b, ch2)
  <2>1. ASSUME NEW c \in Cluster PROVE IsDirectory(b, c) <=> \E h \in Dirs(b) : InChain(ch2, c, h)
    <3>1. IsDirectory(d, c) <=> \E h \in Dirs(d) : InChain(ch, c, h)
      BY DEF Layout, TablesGood
    <3>2. \A h \in Dirs(b) : h \in Heads(b)
      BY <1>2, <1>11, <1>12
    <3>3. QED
      BY <3>1, <3>2, <1>5, <1>8, <1>12, <1>14, <1>15
  <2>2. ASSUME NEW k \in DOMAIN ch2[ROOT_CLUSTER_NUMBER]
        PROVE  b[ch2[ROOT_CLUSTER_NUMBER][k]].info.parent_base_cluster = ROOT_CLUSTER_NUMBER
    <3>1. ROOT_CLUSTER_NUMBER \in Heads(b) /\ ch2[ROOT_CLUSTER_NUMBER] = ch[ROOT_CLUSTER_NUMBER]
      BY <1>2, <1>3, <1>11, <1>13
    <3> DEFINE c == ch[ROOT_CLUSTER_NUMBER][k]
    <3>2. InChain(ch2, c, ROOT_CLUSTER_NUMBER)
      BY <2>2, <3>1 DEF InChain
    <3>3. c \in Cluster /\ c # n /\ IsDirectory(d, c)
      BY <3>1, <3>2, <1>1, <1>2, <1>14, <1>15 DEF Layout, TablesGood
    <3>4. QED
      BY <2>2, <3>1, <3>3, <1>8 DEF Layout, TablesGood
  <2>3. QED
    BY <2>1, <2>2 DEF TablesGood
<1>20. HomesGood(b, ch2, rank)
  <2> SUFFICES ASSUME NEW q \in Used(b), NEW a \in Dirs(b), InChain(ch2, q[1], a)
               PROVE  IF EntryAt(b, q).directory THEN Placed(b, ch2, q, a) /\ rank[a] < rank[Base(b, q)]
                      ELSE Stored(b, ch2, q, a)
    BY DEF HomesGood
  <2> DEFINE m == Base(d, q)
  <2>1. a \in Dirs(d) /\ a \in Heads(b) /\ InChain(ch, q[1], a)
    BY <1>2, <1>11, <1>12, <1>14
  <2>2. q \in Used(d) /\ q # p /\ EntryAt(b, q) = EntryAt(d, q) /\ Base(b, q) = m /\ m # n
        /\ m \in Heads(b) /\ ch2[m] = ch[m]
    BY <1>2, <1>10, <1>11, <1>13
  <2>3. IF EntryAt(d, q).directory THEN Placed(d, ch, q, a) /\ rank[a] < rank[m]
        ELSE Stored(d, ch, q, a)
    BY <2>1, <2>2 DEF Layout, HomesGood
  <2>4. \A k \in DOMAIN ch[m] : InChain(ch2, ch[m][k], m) /\ InChain(ch, ch[m][k], m)
    BY <2>2 DEF InChain
  <2>5. \A k \in DOMAIN ch[m] : ch[m][k] # n /\ ch[m][k] \in Cluster
    BY <2>2, <2>4, <1>1, <1>14, <1>15
  <2>6. CASE EntryAt(d, q).directory
    <3>1. \A k \in DOMAIN ch[m] : IsDirectory(d, ch[m][k])
      BY <2>2, <2>4, <2>5, <2>6, <1>2 DEF Layout, TablesGood
    <3>2. \A k \in DOMAIN ch[m] : b[ch[m][k]].info = d[ch[m][k]].info
      BY <3>1, <2>5, <1>8
    <3>3. QED
      BY <3>2, <2>2, <2>3, <2>6 DEF Placed
  <2>7. CASE ~EntryAt(d, q).directory
    <3>1. ASSUME NEW k \in DOMAIN ch[m] PROVE b[ch[m][k]] = d[ch[m][k]]
      <4> DEFINE w == [parent |-> a, name |-> EntryAt(d, q).name, ext |-> EntryAt(d, q).ext]
      <4>0. d[ch[m][k]] = Data(w, k - 1)
        BY <2>3, <2>7, <3>1 DEF Stored
      <4>1. ~IsDirectory(d, ch[m][k])
        <5>1. Data(w, k - 1).kind = "data"
          BY DEF Data
        <5>2. QED
          BY <4>0, <5>1 DEF IsDirectory
      <4>2. ch[m][k] # p[1]
        BY <4>1, <1>2
      <4>3. QED
        BY <4>2, <2>5, <1>8
    <3>2. QED
      BY <3>1, <2>2, <2>3, <2>7 DEF Stored
  <2>8. QED
    BY <2>6, <2>7
<1>21. NamesGood(b, ch2)
  <2>1. \A a \in Dirs(b) : a \in Dirs(d) /\ a \in Heads(b)
    BY <1>2, <1>11, <1>12
  <2>2. QED
    BY <2>1, <1>10, <1>14 DEF Layout, NamesGood
<1>22. Layout(b, g, ch2, rank)
  BY <1>16, <1>17, <1>18, <1>19, <1>20, <1>21 DEF Layout
<1>23. QED
  BY <1>3, <1>9, <1>11, <1>12, <1>22 DEF ch2
-----------------------------------------------------------------------------
(* A directory with a cluster more *)

\* A directory or a file is where it was and as it was if its entry, its chain
\* and its clusters are.
LEMMA PlacedSame ==
  ASSUME NEW d, NEW b, NEW ch, NEW ch2, NEW q, NEW x, Placed(d, ch, q, x),
         EntryAt(b, q) = EntryAt(d, q), Base(b, q) = Base(d, q), ch2[Base(d, q)] = ch[Base(d, q)],
         \A k \in DOMAIN ch[Base(d, q)] : b[ch[Base(d, q)][k]].info = d[ch[Base(d, q)][k]].info
  PROVE  Placed(b, ch2, q, x)
BY DEF Placed

LEMMA StoredSame ==
  ASSUME NEW d, NEW b, NEW ch, NEW ch2, NEW q, NEW x, Stored(d, ch, q, x),
         EntryAt(b, q) = EntryAt(d, q), Base(b, q) = Base(d, q), ch2[Base(d, q)] = ch[Base(d, q)],
         \A k \in DOMAIN ch[Base(d, q)] : b[ch[Base(d, q)][k]] = d[ch[Base(d, q)][k]]
  PROVE  Stored(b, ch2, q, x)
BY DEF Stored

LEMMA LongerRuns ==
  ASSUME NEW f, NEW c, NEW s, Runs(f, c, s), NEW i \in Cluster, i >= ROOT_CLUSTER_NUMBER,
         \A k \in 1 .. Len(s) : s[k] # i,
         NEW g, g[i] = END_OF_FILE, g[s[Len(s)]] = i,
         \A a \in Cluster : a # i /\ a # s[Len(s)] => g[a] = f[a]
  PROVE  /\ Runs(g, c, Append(s, i)) /\ DOMAIN Append(s, i) = 1 .. Len(s) + 1
         /\ \A k \in 1 .. Len(s) + 1 : Append(s, i)[k] = IF k = Len(s) + 1 THEN i ELSE s[k]
<1> DEFINE L == Len(s)
           t == Append(s, i)
<1>1. /\ L \in Nat /\ L >= 1 /\ s \in [1 .. L -> Cluster] /\ s[1] = c
      /\ \A j, k \in 1 .. L : s[j] = s[k] => j = k
      /\ \A k \in 1 .. L : /\ s[k] \in Cluster /\ s[k] >= ROOT_CLUSTER_NUMBER
                           /\ f[s[k]] = IF k = L THEN END_OF_FILE ELSE s[k + 1]
      /\ \A k \in 1 .. L : s[k] # i
  BY RunsGives
<1>2. s \in Seq(Cluster)
  BY DEF Runs
<1>3. t = [k \in 1 .. L + 1 |-> IF k = L + 1 THEN i ELSE s[k]]
  BY <1>2, AppendGives
<1>4. t \in Seq(Cluster) /\ Len(t) = L + 1
  BY <1>2, AppendProperties
<1>5. g[i] = END_OF_FILE /\ g[s[L]] = i /\ \A a \in Cluster : a # i /\ a # s[L] => g[a] = f[a]
  OBVIOUS
<1> HIDE DEF L, t
<1>6. DOMAIN t = 1 .. L + 1 /\ \A k \in 1 .. L + 1 : t[k] = IF k = L + 1 THEN i ELSE s[k]
  BY <1>3
<1>7. \A k \in 1 .. L + 1 : k = L + 1 \/ (k \in 1 .. L /\ k # L + 1)
  BY <1>1
<1>8. \A j, k \in 1 .. L + 1 : t[j] = t[k] => j = k
  BY <1>1, <1>6, <1>7
<1>9. ASSUME NEW k \in 1 .. L + 1
      PROVE  t[k] >= ROOT_CLUSTER_NUMBER /\ g[t[k]] = IF k = L + 1 THEN END_OF_FILE ELSE t[k + 1]
  <2>1. CASE k = L + 1
    BY <2>1, <1>5, <1>6
  <2>2. CASE k = L
    <3>1. k \in 1 .. L /\ k # L + 1 /\ k + 1 \in 1 .. L + 1
      BY <2>2, <1>1
    <3>2. t[k] = s[k] /\ t[k + 1] = i
      BY <3>1, <2>2, <1>6
    <3>3. QED
      BY <3>1, <3>2, <2>2, <1>1, <1>5
  <2>3. CASE k # L + 1 /\ k # L
    <3>1. k \in 1 .. L /\ L \in 1 .. L /\ k + 1 \in 1 .. L + 1 /\ k + 1 # L + 1
      BY <2>3, <1>1
    <3>2. t[k] = s[k] /\ t[k + 1] = s[k + 1]
      BY <3>1, <2>3, <1>6
    <3>3. s[k] \in Cluster /\ s[k] # i /\ s[k] # s[L] /\ f[s[k]] = s[k + 1]
      BY <3>1, <2>3, <1>1
    <3>4. QED
      BY <3>1, <3>2, <3>3, <2>3, <1>1, <1>5
  <2>4. QED
    BY <2>1, <2>2, <2>3
<1>10. t # << >> /\ t[1] = c
  <2>1. 1 \in 1 .. L + 1 /\ 1 # L + 1
    BY <1>1
  <2>2. 1 \in DOMAIN t
    BY <2>1, <1>6
  <2>3. QED
    BY <2>1, <2>2, <1>1, <1>6
<1>11. Runs(g, c, t)
  BY <1>4, <1>8, <1>9, <1>10 DEF Runs
<1>12. QED
  BY <1>6, <1>11 DEF L, t

LEMMA ExpandKeeps ==
  ASSUME NEW d, NEW f, NEW ch, NEW rank, Layout(d, f, ch, rank), NEW a \in Dirs(d),
         NEW i \in Cluster, f[i] = 0,
         NEW b \in DiskType, b[i] = Table(d[a].info), \A c \in Cluster : c # i => b[c] = d[c],
         NEW g \in FatType, g[i] = END_OF_FILE, g[ch[a][Len(ch[a])]] = i,
         \A c \in Cluster : c # i /\ c # ch[a][Len(ch[a])] => g[c] = f[c],
         NEW ch2, DOMAIN ch2 = DOMAIN ch, ch2[a] = Append(ch[a], i),
         \A h \in DOMAIN ch : h # a => ch2[h] = ch[h]
  PROVE  /\ Layout(b, g, ch2, rank)
         /\ Used(b) = Used(d) /\ Heads(b) = Heads(d) /\ Dirs(b) = Dirs(d)
         /\ \A p \in Place : EntryAt(b, p) = EntryAt(d, p)
         /\ ~IsDirectory(d, i) /\ \A h \in Heads(d) : ~InChain(ch, i, h)
         /\ \A h \in Heads(d) : \A c : InChain(ch2, c, h) <=> InChain(ch, c, h) \/ (h = a /\ c = i)
<1> DEFINE s == ch[a]
           t == Append(s, i)
           last == s[Len(s)]
<1>1. /\ d \in DiskType /\ f \in FatType /\ DOMAIN ch = Heads(d)
      /\ \A h \in Heads(d) : /\ Runs(f, h, ch[h]) /\ DOMAIN ch[h] = 1 .. Len(ch[h]) /\ InChain(ch, h, h)
                             /\ \A c : InChain(ch, c, h) => c \in Cluster
      /\ \A h, k \in Heads(d) : \A c : InChain(ch, c, h) /\ InChain(ch, c, k) => h = k
      /\ \A q \in Used(d) : \E x \in Dirs(d) : InChain(ch, q[1], x)
  <2>1. DOMAIN ch = Heads(d)
    BY DEF Layout, ChainsGood
  <2>2. QED
    BY <2>1, LayoutGives
<1>2. /\ \A q \in Used(d) : /\ q \in Place /\ q[1] \in Cluster /\ Base(d, q) \in Heads(d)
                            /\ (EntryAt(d, q).directory => Base(d, q) \in Dirs(d))
                            /\ IsDirectory(d, q[1])
      /\ Dirs(d) \subseteq Heads(d) /\ ROOT_CLUSTER_NUMBER \in Dirs(d) /\ Heads(d) \subseteq Cluster
      /\ \A h \in Dirs(d) : h # ROOT_CLUSTER_NUMBER => \E p \in Used(d) : h = Base(d, p) /\ EntryAt(d, p).directory
  BY <1>1, UsedGives
<1>3. \A c \in Cluster : IsDirectory(d, c) <=> \E h \in Dirs(d) : InChain(ch, c, h)
  BY DEF Layout, TablesGood
<1>4. \A h \in Heads(d) : \A k \in 1 .. Len(ch[h]) :
        ch[h][k] \in Cluster /\ ch[h][k] >= ROOT_CLUSTER_NUMBER /\ f[ch[h][k]] # 0 /\ InChain(ch, ch[h][k], h)
  <2> SUFFICES ASSUME NEW h \in Heads(d), NEW k \in 1 .. Len(ch[h])
               PROVE  /\ ch[h][k] \in Cluster /\ ch[h][k] >= ROOT_CLUSTER_NUMBER
                      /\ f[ch[h][k]] # 0 /\ InChain(ch, ch[h][k], h)
    OBVIOUS
  <2> DEFINE z == ch[h]
             L == Len(z)
  <2>1. Runs(f, h, z) /\ InChain(ch, z[k], h)
    BY <1>1 DEF InChain
  <2> HIDE DEF z
  <2>2. /\ L \in Nat
        /\ \A j \in 1 .. L : z[j] \in Cluster /\ z[j] >= ROOT_CLUSTER_NUMBER
                             /\ f[z[j]] = IF j = L THEN END_OF_FILE ELSE z[j + 1]
    BY <2>1, RunsGives
  <2>3. k \in 1 .. L
    BY DEF z
  <2> HIDE DEF L
  <2>4. f[z[k]] # 0
    <3>1. CASE k = L
      BY <2>2, <2>3, <3>1, Bounds
    <3>2. CASE k # L
      <4>1. k + 1 \in 1 .. L
        BY <2>2, <2>3, <3>2
      <4>2. f[z[k]] = z[k + 1] /\ z[k + 1] \in Cluster /\ z[k + 1] >= ROOT_CLUSTER_NUMBER
        BY <2>2, <2>3, <3>2, <4>1
      <4>3. z[k + 1] \in Nat
        BY <4>2, Bounds
      <4>4. QED
        BY <4>2, <4>3, Bounds
    <3>3. QED
      BY <3>1, <3>2
  <2>5. QED
    BY <2>1, <2>2, <2>3, <2>4 DEF z
<1>5. i > ROOT_CLUSTER_NUMBER /\ \A h \in Heads(d) : ~InChain(ch, i, h)
  <2>1. \A h \in Heads(d) : ~InChain(ch, i, h)
    BY <1>1, <1>4 DEF InChain
  <2>2. \A c \in 0 .. ROOT_CLUSTER_NUMBER : f[c] # 0
    BY DEF Layout, TypesGood
  <2>3. i \in Nat /\ i \notin 0 .. ROOT_CLUSTER_NUMBER
    BY <2>2, Bounds
  <2>4. QED
    BY <2>1, <2>3, Bounds
<1>6. ~IsDirectory(d, i)
  BY <1>2, <1>3, <1>5
<1>7. IsDirectory(d, a) /\ a \in Heads(d) /\ d[a].info \in InfoType
  BY <1>1, <1>2, <1>3, DiskGives DEF TableType
<1>8. /\ IsDirectory(b, i) /\ b[i].info = d[a].info
      /\ \A q \in Place : EntryAt(b, q) = EntryAt(d, q)
  BY <1>1, <1>6, <1>7, TableGives
<1>9. \A c \in Cluster : IsDirectory(b, c) <=> IsDirectory(d, c) \/ c = i
  BY <1>8 DEF IsDirectory
<1>10. Used(b) = Used(d)
  BY <1>8 DEF Used
<1>11. \A p \in Used(d) : EntryAt(b, p) = EntryAt(d, p) /\ Base(b, p) = Base(d, p)
  BY <1>8, <1>2 DEF Base
<1>12. Heads(b) = Heads(d)
  BY <1>10, <1>11 DEF Heads
<1>13. Dirs(b) = Dirs(d)
  BY <1>10, <1>11 DEF Dirs
<1>14. s[1] = a /\ s \in Seq(Cluster) /\ Len(s) \in Nat /\ Len(s) \in 1 .. Len(s) /\ InChain(ch, last, a)
       /\ last \in Cluster
  <2>1. Runs(f, a, s)
    BY <1>1, <1>7
  <2>2. s[1] = a /\ Len(s) \in Nat /\ Len(s) >= 1
    BY <2>1, RunsGives
  <2>3. Len(s) \in 1 .. Len(s)
    BY <2>2
  <2>4. InChain(ch, last, a)
    BY <2>3, <1>1, <1>7 DEF InChain
  <2>5. QED
    BY <2>1, <2>2, <2>3, <2>4, <1>1, <1>7 DEF Runs
<1>15. /\ Runs(g, a, t) /\ DOMAIN t = 1 .. Len(s) + 1
       /\ \A k \in 1 .. Len(s) + 1 : t[k] = IF k = Len(s) + 1 THEN i ELSE s[k]
  <2>1. Runs(f, a, s) /\ i >= ROOT_CLUSTER_NUMBER
    BY <1>1, <1>5, <1>7, Bounds
  <2>2. \A k \in 1 .. Len(s) : s[k] # i
    BY <1>4, <1>7
  <2>3. QED
    BY <2>1, <2>2, LongerRuns
<1>16. DOMAIN ch2 = Heads(d) /\ ch2[a] = t /\ \A h \in Heads(d) : h # a => ch2[h] = ch[h]
  BY <1>1, <1>7
<1> HIDE DEF t, s, last
<1>17. \A h \in Heads(d) : \A c : InChain(ch2, c, h) <=> InChain(ch, c, h) \/ (h = a /\ c = i)
  <2>1. ASSUME NEW c PROVE InChain(ch2, c, a) <=> InChain(ch, c, a) \/ c = i
    <3>1. DOMAIN s = 1 .. Len(s) /\ s = ch[a]
      BY <1>1, <1>7 DEF s
    <3> DEFINE L == Len(s)
    <3>2. L \in Nat /\ DOMAIN s = 1 .. L /\ s = ch[a] /\ DOMAIN t = 1 .. L + 1
          /\ \A k \in 1 .. L + 1 : t[k] = IF k = L + 1 THEN i ELSE s[k]
      BY <3>1, <1>14, <1>15
    <3> HIDE DEF L
    <3>3. L + 1 \in 1 .. L + 1 /\ t[L + 1] = i
      BY <3>2
    <3>4. \A k \in 1 .. L : k \in 1 .. L + 1 /\ k # L + 1 /\ t[k] = s[k]
      BY <3>2
    <3>5. \A k \in 1 .. L + 1 : k = L + 1 \/ k \in 1 .. L
      BY <3>2
    <3>6. QED
      BY <3>2, <3>3, <3>4, <3>5, <1>16 DEF InChain
  <2>2. ASSUME NEW h \in Heads(d), h # a, NEW c PROVE InChain(ch2, c, h) <=> InChain(ch, c, h)
    <3>1. ch2[h] = ch[h]
      BY <2>2, <1>16
    <3>2. QED
      BY <3>1 DEF InChain
  <2>3. QED
    BY <2>1, <2>2
<1>18. TypesGood(b, g, rank)
  <2>1. \A c \in 0 .. ROOT_CLUSTER_NUMBER : g[c] # 0
    <3>1. ASSUME NEW c \in 0 .. ROOT_CLUSTER_NUMBER PROVE g[c] # 0
      <4>1. c \in Cluster /\ c # i
        <5>1. ROOT_CLUSTER_NUMBER \in 0 .. CLUSTER_COUNT - 1
          BY Bounds DEF Cluster
        <5>2. QED
          BY <5>1, <1>5, Bounds DEF Cluster
      <4>2. i # 0
        BY <1>5, Bounds
      <4>3. f[c] # 0
        BY DEF Layout, TypesGood
      <4>4. QED
        BY <4>1, <4>2, <4>3
    <3>2. QED
      BY <3>1
  <2>2. QED
    BY <2>1 DEF Layout, TypesGood
<1>19. ChainsGood(b, g, ch2)
  <2>1. ASSUME NEW h \in Heads(d), h # a PROVE Runs(g, h, ch2[h])
    <3>1. \A k \in 1 .. Len(ch[h]) : g[ch[h][k]] = f[ch[h][k]]
      <4>1. \A k \in 1 .. Len(ch[h]) : ch[h][k] \in Cluster /\ ch[h][k] # i /\ ch[h][k] # last
        BY <2>1, <1>1, <1>4, <1>7, <1>14
      <4>2. \A c \in Cluster : c # i /\ c # last => g[c] = f[c]
        BY DEF last, s
      <4>3. QED
        BY <4>1, <4>2
    <3>2. QED
      BY <3>1, <2>1, <1>1, <1>16 DEF Runs
  <2>2. \A h \in Heads(d) : Runs(g, h, ch2[h])
    BY <2>1, <1>15, <1>16
  <2>3. \A h, k \in Heads(d) : \A c \in Cluster : InChain(ch2, c, h) /\ InChain(ch2, c, k) => h = k
    BY <1>1, <1>5, <1>17
  <2>4. QED
    BY <2>2, <2>3, <1>12, <1>16 DEF ChainsGood
<1>20. EntriesGood(b)
  BY <1>10, <1>11 DEF Layout, EntriesGood
<1>21. /\ \A h \in Heads(d) : h # a => /\ ch2[h] = ch[h]
                                       /\ \A k \in DOMAIN ch[h] : ch[h][k] # i /\ b[ch[h][k]] = d[ch[h][k]]
       /\ \A k \in DOMAIN ch2[a] : \/ ch2[a][k] = i
                                   \/ k \in DOMAIN ch[a] /\ ch2[a][k] = ch[a][k] /\ b[ch[a][k]] = d[ch[a][k]]
  <2>1. \A h \in Heads(d) : \A k \in DOMAIN ch[h] : ch[h][k] # i /\ b[ch[h][k]] = d[ch[h][k]]
    BY <1>1, <1>4
  <2>2. \A k \in 1 .. Len(s) + 1 : k = Len(s) + 1 \/ k \in 1 .. Len(s)
    BY <1>14
  <2>3. DOMAIN ch[a] = 1 .. Len(s) /\ s = ch[a]
    BY <1>1, <1>7 DEF s
  <2>4. QED
    BY <2>1, <2>2, <2>3, <1>7, <1>15, <1>16
<1>22. TablesGood(b, ch2)
  <2>1. ASSUME NEW c \in Cluster PROVE IsDirectory(b, c) <=> \E h \in Dirs(b) : InChain(ch2, c, h)
    BY <1>2, <1>3, <1>9, <1>13, <1>17
  <2>2. ASSUME NEW k \in DOMAIN ch2[ROOT_CLUSTER_NUMBER]
        PROVE  b[ch2[ROOT_CLUSTER_NUMBER][k]].info.parent_base_cluster = ROOT_CLUSTER_NUMBER
    <3>1. \A j \in DOMAIN ch[ROOT_CLUSTER_NUMBER] :
            d[ch[ROOT_CLUSTER_NUMBER][j]].info.parent_base_cluster = ROOT_CLUSTER_NUMBER
      BY DEF Layout, TablesGood
    <3>2. CASE a # ROOT_CLUSTER_NUMBER
      BY <2>2, <3>1, <3>2, <1>2, <1>21
    <3>3. CASE a = ROOT_CLUSTER_NUMBER
      <4>1. ch[a][1] = a /\ 1 \in DOMAIN ch[a]
        BY <1>1, <1>7, <1>14 DEF s
      <4>2. d[a].info.parent_base_cluster = ROOT_CLUSTER_NUMBER
        BY <4>1, <3>1, <3>3
      <4>3. k \in DOMAIN ch2[a]
        BY <2>2, <3>3
      <4>4. CASE ch2[a][k] = i
        BY <4>4, <4>2, <3>3, <1>8
      <4>5. CASE k \in DOMAIN ch[a] /\ ch2[a][k] = ch[a][k] /\ b[ch[a][k]] = d[ch[a][k]]
        BY <4>5, <3>1, <3>3
      <4>6. QED
        BY <4>3, <4>4, <4>5, <1>21
    <3>4. QED
      BY <3>2, <3>3
  <2>3. QED
    BY <2>1, <2>2 DEF TablesGood
<1>23. HomesGood(b, ch2, rank)
  <2> SUFFICES ASSUME NEW q \in Used(d), NEW x \in Dirs(d), InChain(ch2, q[1], x)
               PROVE  IF EntryAt(b, q).directory THEN Placed(b, ch2, q, x) /\ rank[x] < rank[Base(b, q)]
                      ELSE Stored(b, ch2, q, x)
    BY <1>10, <1>13 DEF HomesGood
  <2> DEFINE m == Base(d, q)
  <2>1. q[1] # i /\ InChain(ch, q[1], x)
    <3>1. q[1] # i /\ x \in Heads(d)
      BY <1>2, <1>6
    <3>2. QED
      BY <3>1, <1>17
  <2>2. IF EntryAt(d, q).directory THEN Placed(d, ch, q, x) /\ rank[x] < rank[m]
        ELSE Stored(d, ch, q, x)
    BY <2>1 DEF Layout, HomesGood
  <2>3. EntryAt(b, q) = EntryAt(d, q) /\ Base(b, q) = m /\ m \in Heads(d)
    BY <1>2, <1>11
  <2>4. CASE m # a
    <3>1. ch2[m] = ch[m] /\ \A k \in DOMAIN ch[m] : b[ch[m][k]] = d[ch[m][k]]
      BY <2>3, <2>4, <1>21
    <3>2. CASE EntryAt(d, q).directory
      <4>1. Placed(b, ch2, q, x)
        <5>1. Placed(d, ch, q, x)
          BY <3>2, <2>2
        <5>2. EntryAt(b, q) = EntryAt(d, q) /\ Base(b, q) = Base(d, q) /\ ch2[Base(d, q)] = ch[Base(d, q)]
          BY <2>3, <3>1
        <5>3. \A k \in DOMAIN ch[Base(d, q)] : b[ch[Base(d, q)][k]].info = d[ch[Base(d, q)][k]].info
          BY <3>1
        <5>4. QED
          BY <5>1, <5>2, <5>3 DEF Placed
      <4>2. QED
        BY <4>1, <3>2, <2>2, <2>3
    <3>3. CASE ~EntryAt(d, q).directory
      <4>1. Stored(b, ch2, q, x)
        <5>1. Stored(d, ch, q, x)
          BY <3>3, <2>2
        <5>2. EntryAt(b, q) = EntryAt(d, q) /\ Base(b, q) = Base(d, q) /\ ch2[Base(d, q)] = ch[Base(d, q)]
          BY <2>3, <3>1
        <5>3. \A k \in DOMAIN ch[Base(d, q)] : b[ch[Base(d, q)][k]] = d[ch[Base(d, q)][k]]
          BY <3>1
        <5>4. QED
          BY <5>1, <5>2, <5>3 DEF Stored
      <4>2. QED
        BY <4>1, <3>3, <2>3
    <3>4. QED
      BY <3>2, <3>3
  <2>5. CASE m = a
    <3>1. a # ROOT_CLUSTER_NUMBER
      BY <2>5 DEF Layout, EntriesGood
    <3>2. EntryAt(d, q).directory
      <4>1. PICK p \in Used(d) : a = Base(d, p) /\ EntryAt(d, p).directory
        BY <3>1, <1>2
      <4>2. p = q
        BY <4>1, <2>5 DEF Layout, EntriesGood
      <4>3. QED
        BY <4>1, <4>2
    <3>3. \A k \in DOMAIN ch[a] : d[ch[a][k]].info = Info(x, q[1], q[2], EntryAt(d, q).size)
      BY <2>2, <2>5, <3>2 DEF Placed
    <3>4. d[a].info = Info(x, q[1], q[2], EntryAt(d, q).size)
      <4>1. ch[a][1] = a /\ 1 \in DOMAIN ch[a]
        BY <1>1, <1>7, <1>14 DEF s
      <4>2. QED
        BY <4>1, <3>3
    <3>5. Placed(b, ch2, q, x)
      <4>1. ASSUME NEW k \in DOMAIN ch2[a]
            PROVE  b[ch2[a][k]].info = Info(x, q[1], q[2], EntryAt(d, q).size)
        <5>1. CASE ch2[a][k] = i
          BY <5>1, <3>4, <1>8
        <5>2. CASE k \in DOMAIN ch[a] /\ ch2[a][k] = ch[a][k] /\ b[ch[a][k]] = d[ch[a][k]]
          BY <5>2, <3>3
        <5>3. QED
          BY <4>1, <5>1, <5>2, <1>21
      <4>2. Base(b, q) = a
        BY <2>3, <2>5
      <4>3. QED
        BY <4>1, <4>2, <2>3 DEF Placed
    <3>6. QED
      BY <3>2, <3>5, <2>2, <2>3
  <2>6. QED
    BY <2>4, <2>5
<1>24. NamesGood(b, ch2)
  <2>1. \A q \in Used(d), x \in Dirs(d) : InChain(ch2, q[1], x) => InChain(ch, q[1], x)
    BY <1>2, <1>6, <1>17
  <2>2. QED
    BY <2>1, <1>10, <1>11, <1>13 DEF Layout, NamesGood
<1>25. Layout(b, g, ch2, rank)
  BY <1>18, <1>19, <1>20, <1>22, <1>23, <1>24 DEF Layout
<1>26. QED
  BY <1>5, <1>6, <1>8, <1>10, <1>12, <1>13, <1>17, <1>25
-----------------------------------------------------------------------------
(* Sizes *)

\* A set with the directory above each of its directories has all above one of them.
LEMMA LineageIn ==
  ASSUME NEW d, NEW D, NEW c \in D, \A b \in D : d[b].info.parent_base_cluster \in D
  PROVE  Lineage(d, c) \subseteq D
<1> DEFINE N == CLUSTER_COUNT
           G == 0 .. N
           V == SUBSET D
           Above(T) == UNION {{b, d[b].info.parent_base_cluster} : b \in T}
           step == [x \in (1 .. N) \X V |-> Above(x[2])]
           upto[n \in G] == IF n = 0 THEN {c} ELSE Above(upto[n - 1])
<1>1. N \in Nat /\ {c} \in V /\ \A T \in V : Above(T) \in V
  <2>1. \A T \in V : Above(T) \in V
    OBVIOUS
  <2>2. QED
    BY <2>1, Bounds
<1> HIDE DEF N, Above, V
<1>2. \A k \in 1 .. N, T \in V : step[<<k, T>>] = Above(T)
  OBVIOUS
<1>3. Turns(N, V, {c}, step)
  BY <1>1 DEF Turns
<1> HIDE DEF step
<1>4. PICK x \in [G -> V] : Counts(x, N, {c}, step)
  BY <1>3, RecursionDown
<1>5. \A n \in G : x[n] = IF n = 0 THEN {c} ELSE Above(x[n - 1])
  <2>1. ASSUME NEW n \in G, n # 0 PROVE x[n] = Above(x[n - 1])
    <3>1. n \in 1 .. N /\ n - 1 \in G
      BY <2>1, <1>1
    <3>2. x[n - 1] \in V
      BY <3>1
    <3>3. x[n] = step[<<n, x[n - 1]>>]
      BY <3>1, <1>4 DEF Counts
    <3>4. QED
      BY <3>1, <3>2, <3>3, <1>2
  <2>2. x[0] = {c}
    BY <1>4 DEF Counts
  <2>3. QED
    BY <2>1, <2>2
<1>6. x = [n \in G |-> IF n = 0 THEN {c} ELSE Above(x[n - 1])]
  BY <1>5
<1>7. \A n \in G : upto[n] = IF n = 0 THEN {c} ELSE Above(upto[n - 1])
  <2>1. upto = CHOOSE y : y = [n \in G |-> IF n = 0 THEN {c} ELSE Above(y[n - 1])]
    BY DEF upto
  <2>2. upto = [n \in G |-> IF n = 0 THEN {c} ELSE Above(upto[n - 1])]
    BY <1>6, <2>1
  <2>3. QED
    BY <2>2
<1> HIDE DEF upto
<1>8. 0 .. N \subseteq {n \in G : upto[n] \in V}
  <2> DEFINE S == {n \in G : upto[n] \in V}
  <2>1. 0 \in S
    <3>1. 0 \in G
      BY <1>1
    <3>2. upto[0] = {c}
      BY <3>1, <1>7
    <3>3. QED
      BY <3>1, <3>2, <1>1
  <2>2. ASSUME NEW k \in 0 .. N, k < N, k \in S PROVE k + 1 \in S
    <3>1. k + 1 \in G /\ k + 1 # 0 /\ (k + 1) - 1 = k
      BY <2>2, <1>1
    <3>2. upto[k + 1] = Above(upto[k])
      BY <3>1, <1>7
    <3>3. QED
      BY <3>1, <3>2, <2>2, <1>1
  <2> HIDE DEF S
  <2>3. 0 .. N \subseteq S
    BY <2>1, <2>2, <1>1, RangeInSet
  <2>4. QED
    BY <2>3 DEF S
<1>9. upto[N] \in V
  <2>1. N \in 0 .. N
    BY <1>1
  <2>2. QED
    BY <2>1, <1>8
<1>10. Lineage(d, c) = upto[N]
  BY DEF Lineage, upto, Above, N
<1>11. QED
  BY <1>9, <1>10 DEF V

LEMMA ResizedIn ==
  ASSUME NEW n \in Size, NEW change \in Int
  PROVE  Resized(n, change) \in Size
<1>1. n + change \in Int /\ SIZE_LIMIT \in Nat \ {0}
  BY SizeBounds
<1>2. (n + change) % SIZE_LIMIT \in 0 .. SIZE_LIMIT - 1
  BY <1>1
<1>3. QED
  BY <1>2 DEF Resized, Size

\* Where the sizes of a lineage stand.
Tables(f, T) == UNION {Clusters(f, c) : c \in T}
EntriesOf(d, T) ==
  {<<d[c].info.parent_actual_cluster, d[c].info.entry_number>> : c \in T \ {ROOT_CLUSTER_NUMBER}}

\* b is the disk d but for sizes, which z changes for the directories of T.
Resizes(d, b, f, T, z) ==
  /\ b \in DiskType
  /\ \A c \in Cluster :
       /\ IsDirectory(b, c) <=> IsDirectory(d, c)
       /\ ~IsDirectory(d, c) => b[c] = d[c]
       /\ IsDirectory(d, c) =>
            b[c].info = [d[c].info EXCEPT !.size = IF c \in Tables(f, T) THEN z[@] ELSE @]
  /\ \A p \in Place : EntryAt(b, p) =
       IF p \in EntriesOf(d, T) THEN [EntryAt(d, p) EXCEPT !.size = z[@]] ELSE EntryAt(d, p)

LEMMA SizesGive ==
  ASSUME NEW d \in DiskType, NEW f, NEW r \in Request, NEW sign \in {1, -1},
         \A p \in EntriesOf(d, Lineage(d, r.parent)) :
           p \in Place /\ EntryAt(d, p) # emptyEntry /\ EntryAt(d, p).directory
  PROVE  \E z \in [Size -> Size] :
           Resizes(d, update_size(d, f, r, sign), f, Lineage(d, r.parent), z)
<1> DEFINE b == update_size(d, f, r, sign)
           T == Lineage(d, r.parent)
           change == sign * Counted(r)
           z == [n \in Size |-> Resized(n, change)]
           C == Tables(f, T)
           P == EntriesOf(d, T)
           NewInfo(c) == [d[c].info EXCEPT !.size = IF c \in C THEN z[@] ELSE @]
           NewEntries(c) == [i \in Slot |-> IF <<c, i>> \in P THEN [d[c].entry[i] EXCEPT !.size = z[@]]
                                            ELSE d[c].entry[i]]
<1>1. change \in Int
  <2>1. Counted(r) \in Nat
    BY RequestGives, SizeBounds
  <2>2. QED
    BY <2>1
<1> HIDE DEF change
<1>2. z \in [Size -> Size]
  BY <1>1, ResizedIn
<1>3. \A c \in Cluster : IsDirectory(d, c) =>
        /\ d[c] \in TableType /\ d[c].info \in InfoType /\ d[c].info.size \in Size
        /\ \A i \in Slot : d[c].entry[i] \in EntryType /\ d[c].entry[i].size \in Size
  <2>1. \A c \in Cluster : IsDirectory(d, c) => d[c] \in TableType
    BY DiskGives
  <2>2. QED
    BY <2>1, EntryGives DEF TableType, InfoType
<1>4. ASSUME NEW c \in Cluster
      PROVE  b[c] = IF ~IsDirectory(d, c) THEN d[c]
                    ELSE [d[c] EXCEPT !.info = NewInfo(c), !.entry = NewEntries(c)]
  <2>1. CASE ~IsDirectory(d, c)
    BY <2>1 DEF update_size
  <2>2. CASE IsDirectory(d, c)
    <3>1. /\ d[c].info.size \in Size /\ \A i \in Slot : d[c].entry[i].size \in Size
      BY <2>2, <1>3
    <3>2. \A n \in Size : z[n] = Resized(n, change)
      OBVIOUS
    <3> DEFINE I2 == [d[c].info EXCEPT !.size = IF c \in C THEN Resized(@, change) ELSE @]
               E2 == [i \in Slot |-> IF <<c, i>> \in P THEN [d[c].entry[i] EXCEPT !.size = Resized(@, change)]
                                     ELSE d[c].entry[i]]
    <3>3. b[c] = [d[c] EXCEPT !.info = I2, !.entry = E2]
      <4>1. d[c] \in TableType
        BY <2>2, <1>3
      <4>2. b[c] = [d[c] EXCEPT
               !.info.size = IF c \in C THEN Resized(@, change) ELSE @,
               !.entry = [i \in Slot |->
                 IF <<c, i>> \in P THEN [d[c].entry[i] EXCEPT !.size = Resized(@, change)] ELSE d[c].entry[i]]]
        BY <2>2 DEF update_size, Tables, EntriesOf, change
      <4> HIDE DEF C, P, b
      <4> DEFINE X == IF c \in C THEN Resized(d[c].info.size, change) ELSE d[c].info.size
                 t == d[c]
                 I1 == [t EXCEPT !.info.size = X]
      <4>a. b[c] = [d[c] EXCEPT !.info.size = X, !.entry = E2]
        BY <4>2
      <4>b. I1 = [d[c] EXCEPT !.info = I2] /\ I1.entry = d[c].entry
        BY <4>1 DEF TableType
      <4> HIDE DEF I1
      <4>c. b[c] = [I1 EXCEPT !.entry = E2]
        BY <4>a DEF I1
      <4>3. /\ b[c] = [[d[c] EXCEPT !.info = I2] EXCEPT !.entry = E2]
        BY <4>b, <4>c
      <4> HIDE DEF I2, E2
      <4>4. QED
        BY <4>1, <4>3 DEF TableType
    <3> HIDE DEF z, C, P
    <3>4. I2 = NewInfo(c)
      BY <3>1, <3>2
    <3>5. E2 = NewEntries(c)
      BY <3>1, <3>2
    <3> HIDE DEF I2, E2, NewInfo, NewEntries
    <3>6. QED
      BY <3>3, <3>4, <3>5, <2>2
  <2>3. QED
    BY <2>1, <2>2
<1>5. DOMAIN b = Cluster
  BY DEF update_size
<1> HIDE DEF b, z, C, P
<1>6. \A c \in Cluster : IsDirectory(d, c) => NewInfo(c) \in InfoType
  BY <1>2, <1>3 DEF InfoType
<1>7. ASSUME NEW c \in Cluster, IsDirectory(d, c), NEW i \in Slot
      PROVE  NewEntries(c)[i] \in EntryType
  <2>1. CASE <<c, i>> \in P
    <3> DEFINE e == d[c].entry[i]
    <3>1. EntryAt(d, <<c, i>>) = e
      BY <1>7 DEF EntryAt, IsDirectory
    <3>2. e # emptyEntry /\ e.directory
      BY <2>1, <3>1 DEF P
    <3>3. e \in EntryType /\ e.size \in Size
      BY <1>3, <1>7
    <3> HIDE DEF e
    <3>4. e \in [name : Names, ext : {NoExt}, directory : {TRUE}, cluster_number : Cluster, size : Size]
      BY <3>2, <3>3 DEF EntryType
    <3>5. [e EXCEPT !.size = z[@]] \in EntryType
      BY <3>3, <3>4, <1>2 DEF EntryType
    <3>6. QED
      BY <3>5, <2>1 DEF e
  <2>2. CASE <<c, i>> \notin P
    BY <2>2, <1>3, <1>7
  <2>3. QED
    BY <2>1, <2>2
<1>8. \A c \in Cluster : DOMAIN NewEntries(c) = Slot
  OBVIOUS
<1>9. \A c \in Cluster : \A i \in Slot : NewEntries(c)[i] =
        IF <<c, i>> \in P THEN [d[c].entry[i] EXCEPT !.size = z[@]] ELSE d[c].entry[i]
  OBVIOUS
<1>10. \A c \in Cluster : NewEntries(c) = [i \in Slot |-> NewEntries(c)[i]]
  OBVIOUS
<1> HIDE DEF NewInfo, NewEntries
<1>11. \A c \in Cluster : IsDirectory(d, c) => NewEntries(c) \in [Slot -> EntryType]
  BY <1>7, <1>10
<1>12. ASSUME NEW c \in Cluster, IsDirectory(d, c)
       PROVE  /\ b[c] \in TableType /\ b[c].info = NewInfo(c) /\ b[c].entry = NewEntries(c)
              /\ b[c].kind = "table" /\ d[c].kind = "table"
  <2> DEFINE u == NewInfo(c)
             w == NewEntries(c)
  <2>1. b[c] = [d[c] EXCEPT !.info = u, !.entry = w] /\ u \in InfoType /\ w \in [Slot -> EntryType]
    BY <1>4, <1>6, <1>11, <1>12
  <2>2. d[c] \in [kind : {"table"}, info : InfoType, entry : [Slot -> EntryType]]
    BY <1>3, <1>12 DEF TableType
  <2> HIDE DEF u, w
  <2>3. /\ b[c] \in [kind : {"table"}, info : InfoType, entry : [Slot -> EntryType]]
        /\ b[c].info = u /\ b[c].entry = w /\ b[c].kind = "table" /\ d[c].kind = "table"
    BY <2>1, <2>2
  <2>4. QED
    BY <2>3 DEF TableType, u, w
<1>13. \A c \in Cluster : ~IsDirectory(d, c) => b[c] = d[c]
  BY <1>4
<1>14. b \in DiskType
  <2>1. \A c \in Cluster : b[c] \in TableType \cup OtherType
    BY <1>12, <1>13, DiskGives
  <2>2. b = [c \in Cluster |-> b[c]]
    <3>1. b = [c \in Cluster |-> IF ~IsDirectory(d, c) THEN d[c] ELSE update_size(d, f, r, sign)[c]]
      <4>1. b = update_size(d, f, r, sign)
        BY DEF b
      <4>2. update_size(d, f, r, sign) = [c \in Cluster |-> update_size(d, f, r, sign)[c]]
        BY DEF update_size
      <4>3. QED
        BY <4>1, <4>2, <1>13
    <3>2. QED
      BY <3>1
  <2>3. QED
    BY <2>1, <2>2 DEF DiskType
<1>15. \A c \in Cluster : IsDirectory(b, c) <=> IsDirectory(d, c)
  BY <1>12, <1>13 DEF IsDirectory
<1>16. ASSUME NEW p \in Place
       PROVE  EntryAt(b, p) = IF p \in P THEN [EntryAt(d, p) EXCEPT !.size = z[@]] ELSE EntryAt(d, p)
  <2>1. p[1] \in Cluster /\ p[2] \in Slot /\ p = <<p[1], p[2]>>
    BY DEF Place
  <2>2. CASE IsDirectory(d, p[1])
    <3>1. EntryAt(b, p) = NewEntries(p[1])[p[2]] /\ EntryAt(d, p) = d[p[1]].entry[p[2]]
      BY <2>1, <2>2, <1>12 DEF EntryAt
    <3>2. QED
      BY <2>1, <3>1, <1>9
  <2>3. CASE ~IsDirectory(d, p[1])
    <3>1. EntryAt(d, p) = emptyEntry /\ EntryAt(b, p) = emptyEntry
      BY <2>1, <2>3, <1>13 DEF EntryAt, IsDirectory
    <3>2. p \notin P
      BY <3>1 DEF P
    <3>3. QED
      BY <3>1, <3>2
  <2>4. QED
    BY <2>2, <2>3
<1>17. QED
  <2>1. \A c \in Cluster : IsDirectory(d, c) =>
          b[c].info = [d[c].info EXCEPT !.size = IF c \in C THEN z[@] ELSE @]
    BY <1>12 DEF NewInfo
  <2>2. Resizes(d, b, f, T, z)
    BY <2>1, <1>13, <1>14, <1>15, <1>16 DEF Resizes, C, P
  <2>3. QED
    BY <2>2, <1>2 DEF b, T

\* The entries of the directories of T are where these say.
LEMMA EntriesAre ==
  ASSUME NEW d, NEW f, NEW ch, NEW rank, Layout(d, f, ch, rank), NEW T \in SUBSET Dirs(d)
  PROVE  /\ EntriesOf(d, T) = {p \in Used(d) : EntryAt(d, p).directory /\ Base(d, p) \in T}
         /\ \A h \in Heads(d) : \A c : InChain(ch, c, h) => (c \in Tables(f, T) <=> h \in T)
<1>1. /\ d \in DiskType /\ f \in FatType
      /\ \A h \in Heads(d) : Chain(f, h) = ch[h] /\ InChain(ch, h, h) /\ DOMAIN ch[h] = 1 .. Len(ch[h])
      /\ \A g, h \in Heads(d) : \A c : InChain(ch, c, g) /\ InChain(ch, c, h) => g = h
      /\ \A p \in Used(d) : \E b \in Dirs(d) : InChain(ch, p[1], b)
  BY LayoutGives
<1>2. /\ \A q \in Used(d) : q \in Place /\ q = <<q[1], q[2]>> /\ Base(d, q) \in Heads(d)
      /\ Dirs(d) \subseteq Heads(d)
      /\ \A h \in Dirs(d) : h # ROOT_CLUSTER_NUMBER => \E p \in Used(d) : h = Base(d, p) /\ EntryAt(d, p).directory
  BY <1>1, UsedGives
<1>3. \A p \in Used(d) : Base(d, p) # ROOT_CLUSTER_NUMBER
  BY DEF Layout, EntriesGood
<1>4. ASSUME NEW p \in Used(d), EntryAt(d, p).directory
      PROVE  <<d[Base(d, p)].info.parent_actual_cluster, d[Base(d, p)].info.entry_number>> = p
  <2>1. PICK x \in Dirs(d) : InChain(ch, p[1], x)
    BY <1>1
  <2>2. Placed(d, ch, p, x)
    BY <2>1, <1>4 DEF Layout, HomesGood
  <2>3. PICK k \in DOMAIN ch[Base(d, p)] : ch[Base(d, p)][k] = Base(d, p)
    BY <1>1, <1>2 DEF InChain
  <2>4. d[Base(d, p)].info = Info(x, p[1], p[2], EntryAt(d, p).size)
    BY <2>2, <2>3 DEF Placed
  <2>5. QED
    BY <2>4, <1>2 DEF Info
<1>5. EntriesOf(d, T) = {p \in Used(d) : EntryAt(d, p).directory /\ Base(d, p) \in T}
  <2>1. ASSUME NEW c \in T \ {ROOT_CLUSTER_NUMBER}
        PROVE  \E p \in Used(d) : /\ EntryAt(d, p).directory /\ Base(d, p) = c
                                  /\ p = <<d[c].info.parent_actual_cluster, d[c].info.entry_number>>
    <3>1. PICK p \in Used(d) : c = Base(d, p) /\ EntryAt(d, p).directory
      BY <1>2
    <3>2. QED
      BY <3>1, <1>4
  <2>2. ASSUME NEW p \in Used(d), EntryAt(d, p).directory, Base(d, p) \in T
        PROVE  \E c \in T \ {ROOT_CLUSTER_NUMBER} :
                 p = <<d[c].info.parent_actual_cluster, d[c].info.entry_number>>
    BY <2>2, <1>3, <1>4
  <2>3. QED
    BY <2>1, <2>2 DEF EntriesOf
<1>6. ASSUME NEW h \in Heads(d), NEW c, InChain(ch, c, h) PROVE c \in Tables(f, T) <=> h \in T
  <2>1. \A g \in Heads(d) : c \in Clusters(f, g) <=> InChain(ch, c, g)
    <3>1. ASSUME NEW g \in Heads(d) PROVE c \in Clusters(f, g) <=> InChain(ch, c, g)
      <4>1. Clusters(f, g) = {ch[g][k] : k \in DOMAIN ch[g]}
        BY <1>1 DEF Clusters, ToSet
      <4>2. QED
        BY <4>1 DEF InChain
    <3>2. QED
      BY <3>1
  <2>2. \A g \in T : g \in Heads(d)
    BY <1>2
  <2>3. c \in Tables(f, T) <=> \E g \in T : c \in Clusters(f, g)
    BY DEF Tables
  <2>4. QED
    BY <2>1, <2>2, <2>3, <1>1, <1>6
<1>7. QED
  BY <1>5, <1>6

LEMMA ResizeKeeps ==
  ASSUME NEW d, NEW f, NEW ch, NEW rank, Layout(d, f, ch, rank), NEW r \in Request,
         r.parent \in Dirs(d), NEW sign \in {1, -1}
  PROVE  LET b == update_size(d, f, r, sign)
         IN  /\ Layout(b, f, ch, rank)
             /\ Used(b) = Used(d) /\ Heads(b) = Heads(d) /\ Dirs(b) = Dirs(d)
             /\ \A p \in Place :
                  /\ EntryAt(b, p).name = EntryAt(d, p).name /\ EntryAt(b, p).ext = EntryAt(d, p).ext
                  /\ EntryAt(b, p).directory = EntryAt(d, p).directory
                  /\ EntryAt(b, p).cluster_number = EntryAt(d, p).cluster_number
                  /\ EntryAt(d, p).directory \/ EntryAt(b, p) = EntryAt(d, p)
             /\ \A c \in Cluster : /\ IsDirectory(b, c) <=> IsDirectory(d, c)
                                   /\ ~IsDirectory(d, c) => b[c] = d[c]
<1> DEFINE b == update_size(d, f, r, sign)
           T == Lineage(d, r.parent)
           P == EntriesOf(d, T)
<1>1. /\ d \in DiskType /\ f \in FatType
      /\ \A h \in Heads(d) : /\ Chain(f, h) = ch[h] /\ InChain(ch, h, h) /\ DOMAIN ch[h] = 1 .. Len(ch[h])
                             /\ \A c : InChain(ch, c, h) => c \in Cluster
      /\ \A q \in Used(d) : \E x \in Dirs(d) : InChain(ch, q[1], x)
  BY LayoutGives
<1>2. /\ \A q \in Used(d) : /\ q \in Place /\ q[1] \in Cluster /\ Base(d, q) \in Heads(d)
                            /\ (EntryAt(d, q).directory => Base(d, q) \in Dirs(d))
                            /\ IsDirectory(d, q[1]) /\ EntryAt(d, q) # emptyEntry
      /\ Dirs(d) \subseteq Heads(d) /\ ROOT_CLUSTER_NUMBER \in Dirs(d) /\ Heads(d) \subseteq Cluster
      /\ \A h \in Dirs(d) : h # ROOT_CLUSTER_NUMBER => \E p \in Used(d) : h = Base(d, p) /\ EntryAt(d, p).directory
  BY <1>1, UsedGives
<1>3. \A c \in Cluster : IsDirectory(d, c) <=> \E h \in Dirs(d) : InChain(ch, c, h)
  BY DEF Layout, TablesGood
<1>4. ASSUME NEW h \in Dirs(d) PROVE d[h].info.parent_base_cluster \in Dirs(d)
  <2>1. CASE h = ROOT_CLUSTER_NUMBER
    <3>1. PICK k \in DOMAIN ch[ROOT_CLUSTER_NUMBER] : ch[ROOT_CLUSTER_NUMBER][k] = ROOT_CLUSTER_NUMBER
      BY <1>1, <1>2 DEF InChain
    <3>2. QED
      BY <2>1, <3>1, <1>2 DEF Layout, TablesGood
  <2>2. CASE h # ROOT_CLUSTER_NUMBER
    <3>1. PICK p \in Used(d) : h = Base(d, p) /\ EntryAt(d, p).directory
      BY <2>2, <1>2
    <3>2. PICK x \in Dirs(d) : InChain(ch, p[1], x)
      BY <1>1
    <3>3. Placed(d, ch, p, x)
      BY <3>1, <3>2 DEF Layout, HomesGood
    <3>4. PICK k \in DOMAIN ch[h] : ch[h][k] = h
      BY <1>1, <1>2 DEF InChain
    <3>5. d[h].info = Info(x, p[1], p[2], EntryAt(d, p).size)
      BY <3>1, <3>3, <3>4 DEF Placed
    <3>6. QED
      BY <3>5 DEF Info
  <2>3. QED
    BY <2>1, <2>2
<1>5. T \in SUBSET Dirs(d)
  BY <1>4, LineageIn
<1>6. /\ P = {p \in Used(d) : EntryAt(d, p).directory /\ Base(d, p) \in T}
      /\ \A h \in Heads(d) : \A c : InChain(ch, c, h) => (c \in Tables(f, T) <=> h \in T)
  BY <1>5, EntriesAre
<1> HIDE DEF T, P
<1>7. PICK z \in [Size -> Size] : Resizes(d, b, f, T, z)
  <2>1. \A p \in P : p \in Place /\ EntryAt(d, p) # emptyEntry /\ EntryAt(d, p).directory
    BY <1>2, <1>6
  <2>2. QED
    BY <2>1, <1>1, SizesGive DEF T, P
<1>7a. /\ b \in DiskType
       /\ \A c \in Cluster :
            /\ IsDirectory(b, c) <=> IsDirectory(d, c)
            /\ ~IsDirectory(d, c) => b[c] = d[c]
            /\ IsDirectory(d, c) =>
                 b[c].info = [d[c].info EXCEPT !.size = IF c \in Tables(f, T) THEN z[@] ELSE @]
       /\ \A p \in Place : EntryAt(b, p) =
            IF p \in P THEN [EntryAt(d, p) EXCEPT !.size = z[@]] ELSE EntryAt(d, p)
  BY <1>7 DEF Resizes, P
<1> HIDE DEF b
<1>8. ASSUME NEW p \in Place
      PROVE  /\ EntryAt(b, p).name = EntryAt(d, p).name /\ EntryAt(b, p).ext = EntryAt(d, p).ext
             /\ EntryAt(b, p).directory = EntryAt(d, p).directory
             /\ EntryAt(b, p).cluster_number = EntryAt(d, p).cluster_number
             /\ EntryAt(b, p) = emptyEntry <=> EntryAt(d, p) = emptyEntry
             /\ EntryAt(d, p).directory \/ EntryAt(b, p) = EntryAt(d, p)
  <2>1. EntryAt(d, p) \in EntryType /\ EntryAt(b, p) \in EntryType
    BY <1>1, <1>7a, EntryAtType
  <2> DEFINE e == EntryAt(d, p)
  <2>2. CASE p \in P
    <3>1. e \in EntryType /\ e # emptyEntry
      BY <2>1, <2>2, <1>2, <1>6
    <3>2. EntryAt(b, p) = [e EXCEPT !.size = z[@]]
      BY <2>2, <1>7a
    <3> HIDE DEF e
    <3>3. /\ [e EXCEPT !.size = z[@]].name = e.name /\ [e EXCEPT !.size = z[@]].ext = e.ext
          /\ [e EXCEPT !.size = z[@]].directory = e.directory
          /\ [e EXCEPT !.size = z[@]].cluster_number = e.cluster_number
      BY <3>1 DEF EntryType
    <3>4. EntryAt(b, p) # emptyEntry
      BY <2>1, <3>1, <3>2, <3>3, EntryGives
    <3>5. EntryAt(d, p).directory
      BY <2>2, <1>6
    <3>6. QED
      BY <3>1, <3>2, <3>3, <3>4, <3>5 DEF e
  <2>3. CASE p \notin P
    BY <2>3, <1>7a
  <2>4. QED
    BY <2>2, <2>3
<1>9. Used(b) = Used(d)
  BY <1>8 DEF Used
<1>10. \A q \in Used(d) : Base(b, q) = Base(d, q)
  BY <1>2, <1>8 DEF Base
<1>11. Heads(b) = Heads(d)
  BY <1>9, <1>10 DEF Heads
<1>12. Dirs(b) = Dirs(d)
  <2>1. {q \in Used(b) : EntryAt(b, q).directory} = {q \in Used(d) : EntryAt(d, q).directory}
    BY <1>2, <1>8, <1>9
  <2>2. QED
    BY <2>1, <1>10 DEF Dirs
<1>13. TypesGood(b, f, rank)
  BY <1>7a DEF Layout, TypesGood
<1>14. ChainsGood(b, f, ch)
  BY <1>11 DEF Layout, ChainsGood
<1>15. EntriesGood(b)
  BY <1>9, <1>10 DEF Layout, EntriesGood
<1>16. TablesGood(b, ch)
  <2>1. \A k \in DOMAIN ch[ROOT_CLUSTER_NUMBER] :
          b[ch[ROOT_CLUSTER_NUMBER][k]].info.parent_base_cluster = ROOT_CLUSTER_NUMBER
    <3> SUFFICES ASSUME NEW k \in DOMAIN ch[ROOT_CLUSTER_NUMBER]
                 PROVE  b[ch[ROOT_CLUSTER_NUMBER][k]].info.parent_base_cluster = ROOT_CLUSTER_NUMBER
      OBVIOUS
    <3> DEFINE c == ch[ROOT_CLUSTER_NUMBER][k]
    <3>1. InChain(ch, c, ROOT_CLUSTER_NUMBER)
      BY DEF InChain
    <3>2. c \in Cluster /\ IsDirectory(d, c) /\ d[c].info.parent_base_cluster = ROOT_CLUSTER_NUMBER
      BY <3>1, <1>1, <1>2, <1>3 DEF Layout, TablesGood
    <3>3. d[c].info \in InfoType
      BY <3>2, <1>1, DiskGives DEF TableType
    <3>4. b[c].info = [d[c].info EXCEPT !.size = IF c \in Tables(f, T) THEN z[@] ELSE @]
      BY <3>2, <1>7a
    <3> HIDE DEF c
    <3>5. b[c].info.parent_base_cluster = ROOT_CLUSTER_NUMBER
      BY <3>2, <3>3, <3>4 DEF InfoType
    <3>6. QED
      BY <3>5 DEF c
  <2>2. QED
    BY <2>1, <1>3, <1>7a, <1>12 DEF TablesGood
<1>17. HomesGood(b, ch, rank)
  <2> SUFFICES ASSUME NEW q \in Used(d), NEW x \in Dirs(d), InChain(ch, q[1], x)
               PROVE  IF EntryAt(b, q).directory THEN Placed(b, ch, q, x) /\ rank[x] < rank[Base(b, q)]
                      ELSE Stored(b, ch, q, x)
    BY <1>9, <1>12 DEF HomesGood
  <2> DEFINE m == Base(d, q)
  <2>1. IF EntryAt(d, q).directory THEN Placed(d, ch, q, x) /\ rank[x] < rank[m]
        ELSE Stored(d, ch, q, x)
    BY DEF Layout, HomesGood
  <2>2. q \in Place /\ m \in Heads(d) /\ Base(b, q) = m /\ EntryAt(b, q).directory = EntryAt(d, q).directory
    BY <1>2, <1>8, <1>10
  <2>3. \A k \in DOMAIN ch[m] : InChain(ch, ch[m][k], m) /\ ch[m][k] \in Cluster
    BY <2>2, <1>1 DEF InChain
  <2>4. CASE EntryAt(d, q).directory
    <3>1. ASSUME NEW k \in DOMAIN ch[m]
          PROVE  b[ch[m][k]].info = Info(x, q[1], q[2], EntryAt(b, q).size)
      <4> DEFINE c == ch[m][k]
                 e == EntryAt(d, q)
      <4>1. c \in Cluster /\ IsDirectory(d, c) /\ (c \in Tables(f, T) <=> m \in T)
        BY <2>2, <2>3, <2>4, <1>2, <1>3, <1>6
      <4>2. d[c].info = Info(x, q[1], q[2], e.size)
        BY <2>1, <2>4 DEF Placed
      <4>3. b[c].info = [d[c].info EXCEPT !.size = IF c \in Tables(f, T) THEN z[@] ELSE @]
        BY <4>1, <1>7a
      <4>4. q \in P <=> m \in T
        BY <2>4, <1>6
      <4>5. EntryAt(b, q) = IF q \in P THEN [e EXCEPT !.size = z[@]] ELSE e
        BY <2>2, <1>7a
      <4>6. e \in EntryType /\ e # emptyEntry
        BY <2>2, <1>1, <1>2, EntryAtType
      <4> HIDE DEF c, e, m
      <4>7. EntryAt(b, q).size = IF m \in T THEN z[e.size] ELSE e.size
        BY <4>4, <4>5, <4>6 DEF EntryType
      <4>8. b[c].info = Info(x, q[1], q[2], IF m \in T THEN z[e.size] ELSE e.size)
        BY <4>1, <4>2, <4>3 DEF Info
      <4>9. QED
        BY <4>7, <4>8 DEF c
    <3>2. Placed(b, ch, q, x)
      BY <3>1, <2>2 DEF Placed
    <3>3. QED
      BY <3>2, <2>1, <2>2, <2>4
  <2>5. CASE ~EntryAt(d, q).directory
    <3>1. Stored(d, ch, q, x)
      BY <2>1, <2>5
    <3>2. q \notin P
      BY <2>5, <1>6
    <3>3. EntryAt(b, q) = EntryAt(d, q)
      BY <2>2, <3>2, <1>7a
    <3>4. ASSUME NEW k \in DOMAIN ch[m] PROVE b[ch[m][k]] = d[ch[m][k]]
      <4> DEFINE w == [parent |-> x, name |-> EntryAt(d, q).name, ext |-> EntryAt(d, q).ext]
      <4>1. d[ch[m][k]] = Data(w, k - 1)
        BY <3>1 DEF Stored
      <4>2. Data(w, k - 1).kind = "data"
        BY DEF Data
      <4>3. ~IsDirectory(d, ch[m][k])
        BY <4>1, <4>2 DEF IsDirectory
      <4>4. QED
        BY <4>3, <2>3, <1>7a
    <3>5. Stored(b, ch, q, x)
      BY <3>1, <3>3, <3>4, <2>2, StoredSame
    <3>6. QED
      BY <3>5, <2>2, <2>5
  <2>6. QED
    BY <2>4, <2>5
<1>18. NamesGood(b, ch)
  <2>1. \A q \in Used(d) : EntryAt(b, q).name = EntryAt(d, q).name /\ EntryAt(b, q).ext = EntryAt(d, q).ext
    BY <1>2, <1>8
  <2>2. QED
    BY <2>1, <1>9, <1>12 DEF Layout, NamesGood
<1>19. Layout(b, f, ch, rank)
  BY <1>13, <1>14, <1>15, <1>16, <1>17, <1>18 DEF Layout
<1>20. QED
  BY <1>7a, <1>8, <1>9, <1>11, <1>12, <1>19 DEF b
-----------------------------------------------------------------------------
(* Free clusters, and clusters that are taken *)

LEMMA FreeAfterGives ==
  ASSUME NEW f, NEW c \in Nat, FreeAbove(f, c) # {}
  PROVE  /\ FreeAfter(f, c) \in FreeAbove(f, c)
         /\ FreeAbove(f, FreeAfter(f, c)) = FreeAbove(f, c) \ {FreeAfter(f, c)}
         /\ Cardinality(FreeAbove(f, c)) \in Nat
         /\ Cardinality(FreeAbove(f, FreeAfter(f, c))) = Cardinality(FreeAbove(f, c)) - 1
<1> DEFINE A == FreeAbove(f, c)
           i == FreeAfter(f, c)
<1>1. A \in SUBSET Cluster /\ A \in SUBSET Nat
  BY Bounds DEF FreeAbove
<1>2. \E x \in A : \A y \in A : x <= y
  BY <1>1, LeastNat
<1>3. \E x \in Cluster : x > c /\ f[x] = 0 /\ \A j \in c + 1 .. x - 1 : f[j] # 0
  <2>1. PICK x \in A : \A y \in A : x <= y
    BY <1>2
  <2>2. x \in Cluster /\ x \in Nat /\ x > c /\ f[x] = 0
    BY <2>1, <1>1 DEF FreeAbove
  <2>3. ASSUME NEW j \in c + 1 .. x - 1, f[j] = 0 PROVE FALSE
    <3>1. j \in Nat /\ j > c /\ j < x
      BY <2>2
    <3>2. j \in Cluster
      BY <3>1, <2>2, Bounds DEF Cluster
    <3>3. j \in A
      BY <2>3, <3>1, <3>2 DEF FreeAbove
    <3>4. QED
      BY <3>1, <3>3, <2>1, <2>2
  <2>4. QED
    BY <2>2, <2>3
<1>4. i \in Cluster /\ i > c /\ f[i] = 0 /\ \A j \in c + 1 .. i - 1 : f[j] # 0
  BY <1>3 DEF FreeAfter
<1> HIDE DEF i
<1>5. i \in A /\ i \in Nat
  BY <1>4, Bounds DEF FreeAbove
<1>6. FreeAbove(f, i) = A \ {i}
  <2>1. ASSUME NEW x \in A PROVE x >= i
    <3>1. x \in Nat /\ x > c /\ f[x] = 0
      BY <1>1 DEF FreeAbove
    <3>2. x \notin c + 1 .. i - 1
      BY <3>1, <1>4
    <3>3. QED
      BY <3>1, <3>2, <1>5
  <2>2. ASSUME NEW x \in A, x # i PROVE x \in FreeAbove(f, i)
    <3>1. x \in Nat /\ x \in Cluster /\ f[x] = 0
      BY <1>1 DEF FreeAbove
    <3>2. x > i
      BY <3>1, <2>1, <2>2, <1>5
    <3>3. QED
      BY <3>1, <3>2 DEF FreeAbove
  <2>3. ASSUME NEW x \in FreeAbove(f, i) PROVE x \in A /\ x # i
    <3>1. x \in Cluster /\ x \in Nat /\ x > i /\ f[x] = 0
      BY Bounds DEF FreeAbove
    <3>2. x > c
      BY <3>1, <1>4, <1>5
    <3>3. QED
      BY <3>1, <3>2, <1>5 DEF FreeAbove
  <2>4. QED
    BY <2>2, <2>3
<1>7. Cardinality(A) \in Nat /\ Cardinality(FreeAbove(f, i)) = Cardinality(A) - 1
  <2>1. IsFiniteSet(A)
    BY <1>1, ClustersAreFew
  <2>2. Cardinality(A) \in Nat
    BY <2>1, FS_CardinalityType
  <2>3. Cardinality(A \ {i}) = Cardinality(A) - 1
    BY <2>1, <1>5, FS_RemoveElement
  <2>4. QED
    BY <2>2, <2>3, <1>6
<1>8. QED
  BY <1>5, <1>6, <1>7 DEF i

\* The clusters of a chain are not free.
LEMMA RunsTaken ==
  ASSUME NEW f, NEW c, NEW s, Runs(f, c, s), NEW k \in 1 .. Len(s)
  PROVE  f[s[k]] # 0
<1> DEFINE L == Len(s)
<1>1. /\ L \in Nat /\ \A j \in 1 .. L : s[j] \in Cluster /\ s[j] >= ROOT_CLUSTER_NUMBER
                                        /\ f[s[j]] = IF j = L THEN END_OF_FILE ELSE s[j + 1]
  BY RunsGives
<1>2. k \in 1 .. L
  OBVIOUS
<1> HIDE DEF L
<1>3. CASE k = L
  BY <1>1, <1>2, <1>3, Bounds
<1>4. CASE k # L
  <2>1. k + 1 \in 1 .. L
    BY <1>1, <1>2, <1>4
  <2>2. f[s[k]] = s[k + 1] /\ s[k + 1] \in Cluster /\ s[k + 1] >= ROOT_CLUSTER_NUMBER
    BY <1>1, <1>2, <1>4, <2>1
  <2>3. s[k + 1] \in Nat
    BY <2>2, Bounds
  <2>4. QED
    BY <2>2, <2>3, Bounds
<1>5. QED
  BY <1>3, <1>4

\* A free cluster is behind the root and in nobody's chain.
LEMMA FreeIsNobodys ==
  ASSUME NEW d, NEW f, NEW ch, NEW rank, Layout(d, f, ch, rank), NEW i \in Cluster, f[i] = 0
  PROVE  /\ i > ROOT_CLUSTER_NUMBER /\ \A h \in Heads(d) : ~InChain(ch, i, h)
         /\ ~IsDirectory(d, i)
<1>1. \A h \in Heads(d) : Runs(f, h, ch[h]) /\ DOMAIN ch[h] = 1 .. Len(ch[h])
  BY LayoutGives
<1>2. \A h \in Heads(d) : ~InChain(ch, i, h)
  <2>1. ASSUME NEW h \in Heads(d), NEW k \in DOMAIN ch[h], ch[h][k] = i PROVE FALSE
    <3>1. f[ch[h][k]] # 0
      BY <1>1, RunsTaken
    <3>2. QED
      BY <2>1, <3>1
  <2>2. QED
    BY <2>1 DEF InChain
<1>3. i > ROOT_CLUSTER_NUMBER
  <2>1. \A c \in 0 .. ROOT_CLUSTER_NUMBER : f[c] # 0
    BY DEF Layout, TypesGood
  <2>2. i \in Nat /\ i \notin 0 .. ROOT_CLUSTER_NUMBER
    BY <2>1, Bounds
  <2>3. QED
    BY <2>2, Bounds
<1>4. ~IsDirectory(d, i)
  <2>1. Dirs(d) \subseteq Heads(d)
    BY LayoutGives, UsedGives
  <2>2. QED
    BY <2>1, <1>2 DEF Layout, TablesGood
<1>5. QED
  BY <1>2, <1>3, <1>4

\* The directory a gets the cluster i: d, f and ch become b, g and ch2.
Grows(d, f, ch, a, i, b, g, ch2) ==
  /\ i \in Cluster /\ f[i] = 0
  /\ b \in DiskType /\ b[i] = Table(d[a].info) /\ \A c \in Cluster : c # i => b[c] = d[c]
  /\ g \in FatType /\ g[i] = END_OF_FILE /\ g[ch[a][Len(ch[a])]] = i
  /\ \A c \in Cluster : c # i /\ c # ch[a][Len(ch[a])] => g[c] = f[c]
  /\ DOMAIN ch2 = DOMAIN ch /\ ch2[a] = Append(ch[a], i)
  /\ \A h \in DOMAIN ch : h # a => ch2[h] = ch[h]

LEMMA GrowsKeeps ==
  ASSUME NEW d, NEW f, NEW ch, NEW rank, Layout(d, f, ch, rank), NEW a \in Dirs(d),
         NEW i, NEW b, NEW g, NEW ch2, Grows(d, f, ch, a, i, b, g, ch2)
  PROVE  /\ Layout(b, g, ch2, rank)
         /\ Used(b) = Used(d) /\ Heads(b) = Heads(d) /\ ~IsDirectory(d, i)
         /\ \A h \in Heads(d) : \A c : InChain(ch2, c, h) <=> InChain(ch, c, h) \/ (h = a /\ c = i)
<1>1. /\ i \in Cluster /\ f[i] = 0
      /\ b \in DiskType /\ b[i] = Table(d[a].info) /\ \A c \in Cluster : c # i => b[c] = d[c]
      /\ g \in FatType /\ g[i] = END_OF_FILE /\ g[ch[a][Len(ch[a])]] = i
      /\ \A c \in Cluster : c # i /\ c # ch[a][Len(ch[a])] => g[c] = f[c]
      /\ DOMAIN ch2 = DOMAIN ch /\ ch2[a] = Append(ch[a], i)
      /\ \A h \in DOMAIN ch : h # a => ch2[h] = ch[h]
  BY DEF Grows
<1>2. QED
  BY <1>1, ExpandKeeps

\* A chain that waits for its entry still does when a directory grows.
LEMMA ExpandAwaits ==
  ASSUME NEW d, NEW f, NEW ch, NEW rank, Layout(d, f, ch, rank), NEW a \in Dirs(d),
         NEW i, NEW b, NEW g, NEW ch2, Grows(d, f, ch, a, i, b, g, ch2),
         NEW r, NEW s, Awaits(d, f, ch, r, s)
  PROVE  Awaits(b, g, ch2, r, s)
<1>0. /\ i \in Cluster /\ f[i] = 0
      /\ b \in DiskType /\ b[i] = Table(d[a].info) /\ \A c \in Cluster : c # i => b[c] = d[c]
      /\ g \in FatType /\ g[i] = END_OF_FILE /\ g[ch[a][Len(ch[a])]] = i
      /\ \A c \in Cluster : c # i /\ c # ch[a][Len(ch[a])] => g[c] = f[c]
      /\ DOMAIN ch2 = DOMAIN ch /\ ch2[a] = Append(ch[a], i)
      /\ \A h \in DOMAIN ch : h # a => ch2[h] = ch[h]
  BY DEF Grows
<1>1. /\ Used(b) = Used(d) /\ Heads(b) = Heads(d) /\ Dirs(b) = Dirs(d)
      /\ \A p \in Place : EntryAt(b, p) = EntryAt(d, p)
      /\ ~IsDirectory(d, i)
      /\ \A h \in Heads(d) : \A c : InChain(ch2, c, h) <=> InChain(ch, c, h) \/ (h = a /\ c = i)
  BY <1>0, ExpandKeeps
<1>2. a \in Heads(d) /\ Dirs(d) \subseteq Heads(d)
      /\ \A q \in Used(d) : q \in Place /\ q[1] \in Cluster /\ IsDirectory(d, q[1])
  BY LayoutGives, UsedGives
<1>3. Runs(f, s[1], s) /\ Spare(d, ch, s) /\ Filled(d, r, s) /\ Welcome(d, ch, r)
  BY DEF Awaits
<1>4. \A k \in 1 .. Len(s) : s[k] \in Cluster /\ ~IsDirectory(d, s[k])
                             /\ \A h \in Heads(d) : ~InChain(ch, s[k], h)
  BY <1>3, RunsGives DEF Spare
<1>5. \A k \in 1 .. Len(s) : s[k] # i
  BY <1>0, <1>3, RunsTaken
<1>6. \A k \in 1 .. Len(s) : b[s[k]] = d[s[k]] /\ g[s[k]] = f[s[k]]
  <2>1. InChain(ch, ch[a][Len(ch[a])], a)
    <3>1. Runs(f, a, ch[a]) /\ DOMAIN ch[a] = 1 .. Len(ch[a])
      BY <1>2, LayoutGives
    <3>2. Len(ch[a]) \in Nat /\ Len(ch[a]) >= 1
      BY <3>1, RunsGives
    <3>3. Len(ch[a]) \in DOMAIN ch[a]
      BY <3>1, <3>2
    <3>4. QED
      BY <3>3 DEF InChain
  <2>2. QED
    BY <2>1, <1>0, <1>2, <1>4, <1>5
<1>7. Runs(g, s[1], s)
  BY <1>3, <1>6 DEF Runs
<1>8. Spare(b, ch2, s)
  <2>1. \A k \in 1 .. Len(s) : ~IsDirectory(b, s[k])
    BY <1>4, <1>6 DEF IsDirectory
  <2>2. \A k \in 1 .. Len(s) : \A h \in Heads(b) : ~InChain(ch2, s[k], h)
    BY <1>1, <1>4, <1>5
  <2>3. QED
    BY <2>1, <2>2 DEF Spare
<1>9. Filled(b, r, s)
  BY <1>3, <1>6 DEF Filled
<1>10. Welcome(b, ch2, r)
  <2>1. \A p \in Used(d) : p[1] # i /\ EntryAt(b, p) = EntryAt(d, p)
    BY <1>1, <1>2
  <2>2. r.parent \in Dirs(d) /\ r.parent \in Heads(d)
    BY <1>2, <1>3 DEF Welcome
  <2>3. \A p \in Used(d) : InChain(ch2, p[1], r.parent) => InChain(ch, p[1], r.parent)
    BY <2>1, <2>2, <1>1
  <2>4. QED
    BY <2>1, <2>2, <2>3, <1>1, <1>3 DEF Welcome
<1>11. QED
  BY <1>7, <1>8, <1>9, <1>10 DEF Awaits
-----------------------------------------------------------------------------
(* What is deleted next *)

\* The number of directories with a lower rank is a rank as well, and small.
LEMMA RankIsSmall ==
  ASSUME NEW d, NEW f, NEW ch, NEW rank, Layout(d, f, ch, rank)
  PROVE  \E rank2 : Layout(d, f, ch, rank2) /\ \A h \in Cluster : rank2[h] < CLUSTER_COUNT
<1> DEFINE Below(h) == {g \in Dirs(d) : rank[g] < rank[h]}
           rank2 == [h \in Cluster |-> IF h \in Dirs(d) THEN Cardinality(Below(h)) ELSE 0]
<1>1. d \in DiskType /\ rank \in [Cluster -> Nat]
  BY DEF Layout, TypesGood
<1>2. Dirs(d) \subseteq Cluster /\ \A q \in Used(d) : EntryAt(d, q).directory => Base(d, q) \in Dirs(d)
  BY <1>1, UsedGives
<1>3. ASSUME NEW h \in Dirs(d)
      PROVE  /\ IsFiniteSet(Below(h)) /\ Cardinality(Below(h)) \in Nat
             /\ Cardinality(Below(h)) < CLUSTER_COUNT
  <2>1. h \in Cluster /\ rank[h] \in Nat
    BY <1>1, <1>2
  <2>2. Below(h) \subseteq Cluster \ {h}
    BY <2>1, <1>2
  <2> DEFINE C == Cluster \ {h}
  <2>3. IsFiniteSet(C) /\ Cardinality(C) = CLUSTER_COUNT - 1
    BY <2>1, ClustersAreFew, FS_RemoveElement
  <2> HIDE DEF C, Below
  <2>4. IsFiniteSet(Below(h)) /\ Cardinality(Below(h)) <= Cardinality(C)
    BY <2>2, <2>3, FS_Subset DEF C
  <2>5. Cardinality(Below(h)) \in Nat
    BY <2>4, FS_CardinalityType
  <2>6. QED
    BY <2>3, <2>4, <2>5, Bounds
<1>4. ASSUME NEW g \in Dirs(d), NEW h \in Dirs(d), rank[g] < rank[h]
      PROVE  Cardinality(Below(g)) < Cardinality(Below(h))
  <2>1. rank[g] \in Nat /\ rank[h] \in Nat /\ \A x \in Dirs(d) : rank[x] \in Nat
    BY <1>1, <1>2
  <2> DEFINE B == Below(g) \cup {g}
  <2>2. B \subseteq Below(h) /\ g \notin Below(g)
    BY <2>1, <1>4
  <2>3. /\ IsFiniteSet(Below(g)) /\ Cardinality(Below(g)) \in Nat
        /\ IsFiniteSet(Below(h)) /\ Cardinality(Below(h)) \in Nat
    BY <1>3
  <2> HIDE DEF Below
  <2>4. IsFiniteSet(B) /\ Cardinality(B) = Cardinality(Below(g)) + 1
    BY <2>2, <2>3, FS_AddElement
  <2> HIDE DEF B
  <2>5. Cardinality(B) <= Cardinality(Below(h))
    BY <2>2, <2>3, FS_Subset
  <2>6. QED
    BY <2>3, <2>4, <2>5
<1>5. rank2 \in [Cluster -> Nat] /\ \A h \in Cluster : rank2[h] < CLUSTER_COUNT
  <2>1. \A h \in Cluster : rank2[h] = IF h \in Dirs(d) THEN Cardinality(Below(h)) ELSE 0
    OBVIOUS
  <2>2. \A h \in Dirs(d) : Cardinality(Below(h)) \in Nat /\ Cardinality(Below(h)) < CLUSTER_COUNT
    BY <1>3
  <2>3. rank2 = [h \in Cluster |-> rank2[h]]
    OBVIOUS
  <2> HIDE DEF rank2, Below
  <2>4. \A h \in Cluster : rank2[h] \in Nat /\ rank2[h] < CLUSTER_COUNT
    BY <2>1, <2>2, Bounds
  <2>5. QED
    BY <2>3, <2>4
<1>6. HomesGood(d, ch, rank2)
  <2> SUFFICES ASSUME NEW q \in Used(d), NEW b \in Dirs(d), InChain(ch, q[1], b)
               PROVE  IF EntryAt(d, q).directory THEN Placed(d, ch, q, b) /\ rank2[b] < rank2[Base(d, q)]
                      ELSE Stored(d, ch, q, b)
    BY DEF HomesGood
  <2>1. IF EntryAt(d, q).directory THEN Placed(d, ch, q, b) /\ rank[b] < rank[Base(d, q)]
        ELSE Stored(d, ch, q, b)
    BY DEF Layout, HomesGood
  <2>2. \A x \in Dirs(d) : rank2[x] = Cardinality(Below(x))
    BY <1>2
  <2> HIDE DEF rank2, Below
  <2>3. QED
    BY <2>1, <2>2, <1>2, <1>4
<1> HIDE DEF rank2
<1>7. Layout(d, f, ch, rank2)
  BY <1>5, <1>6 DEF Layout, TypesGood
<1>8. QED
  BY <1>5, <1>7

\* The entry that is deleted next stands in a directory of W, which has with a
\* directory those in it, and is a file or a directory without entries; there
\* is none if there is no entry.
LastBelow(d, ch, W, c, at) ==
  \/ at = << >> /\ \A p \in Used(d) : ~InChain(ch, p[1], c)
  \/ \E p \in Used(d), x \in W :
       /\ at = <<p>> /\ InChain(ch, p[1], x)
       /\ EntryAt(d, p).directory => \A q \in Used(d) : ~InChain(ch, q[1], Base(d, p))

LEMMA NextBelowFinds ==
  ASSUME NEW d, NEW f, NEW ch, NEW rank, Layout(d, f, ch, rank),
         \A h \in Cluster : rank[h] < CLUSTER_COUNT,
         NEW W \in SUBSET Dirs(d), NEW c \in W,
         \A p \in Used(d), h \in W :
           InChain(ch, p[1], h) /\ EntryAt(d, p).directory => Base(d, p) \in W
  PROVE  LastBelow(d, ch, W, c, NextBelow(d, f, c))
<1> DEFINE N == CLUSTER_COUNT
           G == 0 .. N
           V == {<< >>} \cup {<<p>> : p \in Used(d)}
           In1(at) == UsedPlace(d, f, EntryAt(d, at[1]).cluster_number)
           Last1(at) == at = << >> \/ ~EntryAt(d, at[1]).directory \/ In1(at) = << >>
           Go(at) == IF Last1(at) THEN at ELSE In1(at)
           step == [x \in (1 .. N) \X V |-> Go(x[2])]
           upto[n \in G] == IF n = 0 THEN UsedPlace(d, f, c)
                            ELSE LET p == upto[n - 1]
                                     e == EntryAt(d, p[1])
                                 IN  IF p = << >> \/ ~e.directory \/ UsedPlace(d, f, e.cluster_number) = << >>
                                     THEN p ELSE UsedPlace(d, f, e.cluster_number)
<1>1. /\ d \in DiskType /\ f \in FatType /\ rank \in [Cluster -> Nat]
      /\ \A h \in Heads(d) : Runs(f, h, ch[h]) /\ \A p : In(ch[h], p) <=> InChain(ch, p[1], h)
  BY LayoutGives DEF Layout, TypesGood
<1>2. /\ \A q \in Used(d) : q \in Place /\ (EntryAt(d, q).directory => Base(d, q) \in Dirs(d))
      /\ Dirs(d) \subseteq Heads(d) /\ Heads(d) \subseteq Cluster
  BY <1>1, UsedGives
<1>3. ASSUME NEW h \in Dirs(d)
      PROVE  \/ UsedPlace(d, f, h) = << >> /\ \A p \in Used(d) : ~InChain(ch, p[1], h)
             \/ \E p \in Used(d) : UsedPlace(d, f, h) = <<p>> /\ InChain(ch, p[1], h)
  <2>1. Finds(ch[h], Used(d), UsedPlace(d, f, h))
    BY <1>1, <1>2, FreePlaceFinds
  <2>2. QED
    BY <2>1, <1>1, <1>2 DEF Finds
<1>4. \A h \in Dirs(d) : UsedPlace(d, f, h) \in V
  BY <1>3
<1>5. \A p \in Used(d) : /\ <<p>> # << >> /\ <<p>>[1] = p
                         /\ In1(<<p>>) = UsedPlace(d, f, Base(d, p))
                         /\ Last1(<<p>>) <=> ~EntryAt(d, p).directory \/ UsedPlace(d, f, Base(d, p)) = << >>
  BY DEF Base
<1>6. N \in Nat /\ Last1(<< >>)
  BY Bounds
<1> HIDE DEF N, In1, Last1
<1>7. \A at \in V : Go(at) \in V
  <2>1. ASSUME NEW p \in Used(d), ~Last1(<<p>>) PROVE In1(<<p>>) \in V
    BY <2>1, <1>2, <1>4, <1>5
  <2>2. QED
    BY <2>1, <1>6
<1>8. UsedPlace(d, f, c) \in V
  BY <1>4
<1> HIDE DEF V, Go
<1>9. \A k \in 1 .. N, at \in V : step[<<k, at>>] = Go(at)
  OBVIOUS
<1>10. Turns(N, V, UsedPlace(d, f, c), step)
  BY <1>6, <1>7, <1>8 DEF Turns
<1> HIDE DEF step
<1>11. PICK x \in [G -> V] : Counts(x, N, UsedPlace(d, f, c), step)
  BY <1>10, RecursionDown
<1>12. \A n \in G : x[n] = IF n = 0 THEN UsedPlace(d, f, c) ELSE Go(x[n - 1])
  <2>1. ASSUME NEW n \in G, n # 0 PROVE x[n] = Go(x[n - 1])
    <3>1. n \in 1 .. N /\ n - 1 \in G
      BY <2>1, <1>6
    <3>2. x[n - 1] \in V
      BY <3>1
    <3>3. x[n] = step[<<n, x[n - 1]>>]
      BY <3>1, <1>11 DEF Counts
    <3>4. QED
      BY <3>1, <3>2, <3>3, <1>9
  <2>2. x[0] = UsedPlace(d, f, c)
    BY <1>11 DEF Counts
  <2>3. QED
    BY <2>1, <2>2
<1>13. x = [n \in G |-> IF n = 0 THEN UsedPlace(d, f, c) ELSE Go(x[n - 1])]
  BY <1>12
<1>14. \A n \in G : upto[n] = IF n = 0 THEN UsedPlace(d, f, c) ELSE Go(upto[n - 1])
  <2>1. upto = CHOOSE y : y = [n \in G |-> IF n = 0 THEN UsedPlace(d, f, c) ELSE Go(y[n - 1])]
    BY DEF upto, Go, Last1, In1
  <2>2. upto = [n \in G |-> IF n = 0 THEN UsedPlace(d, f, c) ELSE Go(upto[n - 1])]
    BY <1>13, <2>1
  <2>3. QED
    BY <2>2
<1>15. NextBelow(d, f, c) = upto[N]
  BY DEF NextBelow, upto, N
<1> HIDE DEF upto
<1> DEFINE Deep(n, at) ==
      \E p \in Used(d), h \in W :
        /\ at = <<p>> /\ InChain(ch, p[1], h)
        /\ ~Last1(at) => rank[h] >= rank[c] + n
           S == {n \in G : \/ upto[n] = << >> /\ \A p \in Used(d) : ~InChain(ch, p[1], c)
                           \/ Deep(n, upto[n])}
<1>16. 0 .. N \subseteq S
  <2>1. 0 \in S
    <3>1. 0 \in G /\ upto[0] = UsedPlace(d, f, c) /\ rank[c] \in Nat
      BY <1>1, <1>2, <1>6, <1>14
    <3>2. ASSUME NEW p \in Used(d), upto[0] = <<p>>, InChain(ch, p[1], c) PROVE Deep(0, upto[0])
      BY <3>1, <3>2
    <3> HIDE DEF Deep
    <3>3. QED
      BY <3>1, <3>2, <1>3
  <2>2. ASSUME NEW k \in 0 .. N, k < N, k \in S PROVE k + 1 \in S
    <3>1. k + 1 \in G /\ k + 1 # 0 /\ (k + 1) - 1 = k /\ k \in Nat
      BY <2>2, <1>6
    <3>2. upto[k + 1] = Go(upto[k])
      BY <3>1, <1>14
    <3>3. CASE upto[k] = << >> /\ \A p \in Used(d) : ~InChain(ch, p[1], c)
      <4>1. upto[k + 1] = << >>
        BY <3>2, <3>3, <1>6 DEF Go
      <4>2. QED
        BY <4>1, <3>1, <3>3
    <3>4. CASE Deep(k, upto[k])
      <4>1. PICK p \in Used(d), h \in W :
              /\ upto[k] = <<p>> /\ InChain(ch, p[1], h)
              /\ ~Last1(<<p>>) => rank[h] >= rank[c] + k
        BY <3>4
      <4>2. CASE Last1(<<p>>)
        <5>1. upto[k + 1] = <<p>>
          BY <3>2, <4>1, <4>2 DEF Go
        <5>2. Deep(k + 1, upto[k + 1])
          BY <5>1, <4>1, <4>2
        <5>3. QED
          BY <5>2, <3>1
      <4>3. CASE ~Last1(<<p>>)
        <5> DEFINE m == Base(d, p)
        <5>1. EntryAt(d, p).directory /\ UsedPlace(d, f, m) # << >> /\ m \in Dirs(d) /\ m \in W
          BY <4>1, <4>3, <1>2, <1>5
        <5>2. upto[k + 1] = UsedPlace(d, f, m)
          BY <3>2, <4>1, <4>3, <1>5 DEF Go
        <5>3. PICK q \in Used(d) : UsedPlace(d, f, m) = <<q>> /\ InChain(ch, q[1], m)
          BY <5>1, <1>3
        <5>4. rank[h] < rank[m]
          BY <4>1, <5>1 DEF Layout, HomesGood
        <5>5. rank[h] \in Nat /\ rank[m] \in Nat /\ rank[c] \in Nat
          BY <5>1, <1>1, <1>2
        <5> HIDE DEF m
        <5>6. rank[m] >= rank[c] + (k + 1)
          BY <5>4, <5>5, <4>1, <4>3, <3>1
        <5>7. Deep(k + 1, upto[k + 1])
          BY <5>1, <5>2, <5>3, <5>6
        <5>8. QED
          BY <5>7, <3>1
      <4>4. QED
        BY <4>2, <4>3
    <3> HIDE DEF Deep
    <3>5. QED
      BY <2>2, <3>3, <3>4
  <2> HIDE DEF S
  <2>3. QED
    BY <2>1, <2>2, <1>6, RangeInSet
<1>17. N \in S
  BY <1>6, <1>16
<1>18. CASE upto[N] = << >> /\ \A p \in Used(d) : ~InChain(ch, p[1], c)
  BY <1>15, <1>18 DEF LastBelow
<1>19. CASE Deep(N, upto[N])
  <2>1. PICK p \in Used(d), h \in W :
          /\ upto[N] = <<p>> /\ InChain(ch, p[1], h)
          /\ ~Last1(<<p>>) => rank[h] >= rank[c] + N
    BY <1>19
  <2>2. Last1(<<p>>)
    <3>1. rank[h] \in Nat /\ rank[c] \in Nat /\ rank[h] < N
      BY <1>1, <1>2 DEF N
    <3>2. QED
      BY <3>1, <2>1, <1>6
  <2>3. EntryAt(d, p).directory => \A q \in Used(d) : ~InChain(ch, q[1], Base(d, p))
    BY <2>2, <1>2, <1>3, <1>5
  <2>4. QED
    BY <2>1, <2>3, <1>15 DEF LastBelow
<1> HIDE DEF Deep
<1>20. QED
  BY <1>17, <1>18, <1>19
-----------------------------------------------------------------------------
(* The steps of a write after the clusters *)

LEMMA JobGives ==
  ASSUME NEW j \in {Idle} \cup WriteJob \cup DeleteJob
  PROVE  /\ j.pc \in {"allocate", "entry", "expanded", "table", "fat"} => j \in WriteJob
         /\ j.pc \in {"folder", "below", "wipe", "wiped", "unlink"} => j \in DeleteJob
         /\ j.pc = "idle" => j = Idle
         /\ Idle.pc = "idle"
BY DEF WriteJob, DeleteJob, Idle

LEMMA SoundType ==
  ASSUME NEW d, NEW f, Sound(d, f)
  PROVE  d \in DiskType /\ f \in FatType
BY DEF Sound, Layout, TypesGood

LEMMA ExpandTableStep ==
  ASSUME FsInv, ExpandTable
  PROVE  FsInv'
<1>1. job \in WriteJob /\ job.pc = "expanded"
  BY JobGives DEF FsInv, ExpandTable
<1>2. disk' = Expanded(disk, job) /\ fat' = fat /\ job' = [job EXCEPT !.pc = "entry"]
  BY DEF ExpandTable, Expanded
<1>3. /\ job' \in WriteJob /\ job'.pc = "entry" /\ job'.fat = job.fat
      /\ job'.request = job.request /\ job'.startCluster = job.startCluster
  BY <1>1, <1>2 DEF WriteJob
<1>4. Waiting(job, disk') /\ FreePlace(disk', job.fat, job.request.parent) # << >>
  BY <1>1, <1>2 DEF FsInv, Progress
<1>5. Waiting(job', disk')
  BY <1>3, <1>4 DEF Waiting
<1>6. disk' \in DiskType
  BY <1>4 DEF Waiting, Layout, TypesGood
<1>7. Progress(job', disk', fat')
  BY <1>3, <1>4, <1>5 DEF Progress
<1>8. QED
  BY <1>2, <1>3, <1>6, <1>7 DEF FsInv

LEMMA InitTableStep ==
  ASSUME FsInv, init_directory_table
  PROVE  FsInv'
<1>1. job \in WriteJob /\ job.pc = "table"
  BY JobGives DEF FsInv, init_directory_table
<1>2. disk' = Created(disk, job) /\ fat' = fat /\ job' = [job EXCEPT !.pc = "fat"]
  BY DEF init_directory_table, Created
<1>3. job' \in WriteJob /\ job'.pc = "fat" /\ job'.fat = job.fat
  BY <1>1, <1>2 DEF WriteJob
<1>4. Sound(disk', job.fat)
  BY <1>1, <1>2 DEF FsInv, Progress
<1>5. Progress(job', disk', fat')
  BY <1>3, <1>4 DEF Progress
<1>6. QED
  BY <1>2, <1>3, <1>4, <1>5, SoundType DEF FsInv

LEMMA WriteFatStep ==
  ASSUME FsInv, WriteFat
  PROVE  FsInv'
<1>1. job \in WriteJob /\ job.pc = "fat"
  BY JobGives DEF FsInv, WriteFat
<1>2. disk' = disk /\ fat' = job.fat /\ job' = Idle /\ job'.pc = "idle"
  BY JobGives DEF WriteFat, FsInv
<1>3. Sound(disk', fat')
  BY <1>1, <1>2 DEF FsInv, Progress
<1>4. Progress(job', disk', fat')
  BY <1>2, <1>3 DEF Progress
<1>5. QED
  BY <1>2, <1>3, <1>4, SoundType DEF FsInv

LEMMA CreateEntryStep ==
  ASSUME FsInv, CreateEntry
  PROVE  FsInv'
<1> DEFINE r == job.request
           to == FreePlace(disk, job.fat, r.parent)
           p == to[1]
<1>1. job \in WriteJob /\ job.pc = "entry" /\ r \in Request /\ job.fat \in FatType
  BY JobGives DEF FsInv, CreateEntry, WriteJob
<1>2. PICK ch, rank, s : /\ Layout(disk, job.fat, ch, rank) /\ Awaits(disk, job.fat, ch, r, s)
                         /\ job.startCluster = s[1]
  BY <1>1 DEF FsInv, Progress, Waiting
<1>3. /\ to # << >> /\ fat' = fat
      /\ disk' = WithEntry(disk, p, NewEntry(r, s[1]))
      /\ job' = [job EXCEPT !.at = to, !.pc = IF r.buffer_size = 0 THEN "table" ELSE "fat"]
  BY <1>2 DEF CreateEntry, NewEntry
<1>4. /\ p \in Place /\ p \notin Used(disk) /\ InChain(ch, p[1], r.parent) /\ to = <<p>>
  <2>1. r.parent \in Heads(disk)
    BY <1>2, LayoutGives, UsedGives DEF Awaits, Welcome
  <2>2. Runs(job.fat, r.parent, ch[r.parent]) /\ \A q : In(ch[r.parent], q) <=> InChain(ch, q[1], r.parent)
    BY <1>2, <2>1, LayoutGives
  <2>3. Finds(ch[r.parent], Place \ Used(disk), to)
    BY <1>1, <2>2, FreePlaceFinds
  <2>4. PICK q \in Place : In(ch[r.parent], q) /\ q \in Place \ Used(disk) /\ to = <<q>>
    BY <1>3, <2>3 DEF Finds
  <2>5. p = q
    BY <2>4
  <2>6. QED
    BY <2>2, <2>4, <2>5
<1> HIDE DEF to, p
<1>5. job' \in WriteJob /\ job'.fat = job.fat /\ job'.request = r /\ job'.startCluster = s[1]
      /\ job'.at = <<p>> /\ job'.pc = IF r.buffer_size = 0 THEN "table" ELSE "fat"
  BY <1>1, <1>2, <1>3, <1>4 DEF WriteJob
<1>6. Sound(WithNew(disk, r, s, p), job.fat)
  BY <1>1, <1>2, <1>4, NewKeeps DEF Sound
<1>7. disk' \in DiskType
  <2>1. disk \in DiskType /\ IsDirectory(disk, p[1])
    BY <1>1, <1>2, <1>4, WithNewGives, LayoutGives
  <2>2. NewEntry(r, s[1]) \in EntryType
    <3>1. s[1] \in Cluster
      BY <1>1, <1>2, <1>4, WithNewGives
    <3>2. QED
      BY <3>1, <1>1, RequestGives
  <2>3. QED
    BY <2>1, <2>2, <1>3, <1>4, WithEntryGives
<1>8. CASE r.buffer_size # 0
  <2>1. WithNew(disk, r, s, p) = disk'
    BY <1>3, <1>8 DEF WithNew
  <2>2. job'.pc = "fat" /\ Sound(disk', job'.fat)
    BY <2>1, <1>5, <1>6, <1>8
  <2>3. Progress(job', disk', fat')
    BY <2>2 DEF Progress
  <2>4. QED
    BY <2>2, <2>3, <1>3, <1>5, <1>7 DEF FsInv
<1>9. CASE r.buffer_size = 0
  <2>1. WithNew(disk, r, s, p) = Created(disk', job')
    BY <1>3, <1>5, <1>9 DEF WithNew, Created
  <2>2. job'.pc = "table" /\ Sound(Created(disk', job'), job'.fat) /\ job'.at # << >>
    BY <2>1, <1>5, <1>6, <1>9
  <2>3. Progress(job', disk', fat')
    BY <2>2 DEF Progress
  <2>4. QED
    BY <2>2, <2>3, <1>3, <1>5, <1>7 DEF FsInv
<1>10. QED
  BY <1>8, <1>9

\* What expand_folder does: the directory of the request gets the cluster i.
Growing(ch, rank, s, i, ch2) ==
  /\ Layout(disk, job.fat, ch, rank) /\ Awaits(disk, job.fat, ch, job.request, s)
  /\ job.request.parent \in Dirs(disk)
  /\ Grows(disk, job.fat, ch, job.request.parent, i, Expanded(disk, job'), fat', ch2)
  /\ disk' = disk /\ job' \in WriteJob /\ job'.pc = "expanded" /\ job'.fat = fat'
  /\ job'.request = job.request /\ job'.at = job.at
  /\ job'.cachedindex = i /\ job'.startCluster = s[1]

LEMMA ExpandFolderGrows ==
  ASSUME FsInv, ExpandFolder
  PROVE  \E ch, rank, s, i, ch2 : Growing(ch, rank, s, i, ch2)
<1> DEFINE r == job.request
           a == r.parent
           i == FreeAfter(job.fat, ROOT_CLUSTER_NUMBER)
           with == [job.fat EXCEPT ![Last(Chain(job.fat, a))] = i, ![i] = END_OF_FILE]
           b == Expanded(disk, job')
<1>1. job \in WriteJob /\ job.pc = "entry" /\ r \in Request /\ job.fat \in FatType /\ disk \in DiskType
  BY JobGives DEF FsInv, ExpandFolder, WriteJob
<1>2. PICK ch, rank, s : /\ Layout(disk, job.fat, ch, rank) /\ Awaits(disk, job.fat, ch, r, s)
                         /\ job.startCluster = s[1]
  BY <1>1 DEF FsInv, Progress, Waiting
<1>3. /\ fat' = with /\ disk' = disk
      /\ job' = [job EXCEPT !.fat = with, !.cachedindex = i, !.pc = "expanded"]
      /\ FreePlace(disk, job.fat, a) = << >>
  BY DEF ExpandFolder
<1>4. i \in Cluster /\ job.fat[i] = 0 /\ i \in Nat
  <2>1. FreeAbove(job.fat, ROOT_CLUSTER_NUMBER) # {}
    BY <1>1, <1>3 DEF FsInv, Progress
  <2>2. i \in FreeAbove(job.fat, ROOT_CLUSTER_NUMBER)
    BY <2>1, FreeAfterGives, Bounds
  <2>3. QED
    BY <2>2, Bounds DEF FreeAbove
<1>5. a \in Dirs(disk) /\ a \in Heads(disk) /\ IsDirectory(disk, a) /\ a \in Cluster
  <2>1. a \in Dirs(disk)
    BY <1>2 DEF Awaits, Welcome
  <2>2. a \in Heads(disk) /\ a \in Cluster
    BY <1>1, <2>1, UsedGives
  <2>3. InChain(ch, a, a)
    BY <1>2, <2>2, LayoutGives
  <2>4. QED
    BY <2>1, <2>2, <2>3, <1>2 DEF Layout, TablesGood
<1> DEFINE last == ch[a][Len(ch[a])]
           ch2 == [ch EXCEPT ![a] = Append(@, i)]
<1> HIDE DEF i
<1>6. Last(Chain(job.fat, a)) = last /\ last \in Cluster /\ last # i
  <2>1. Chain(job.fat, a) = ch[a] /\ Runs(job.fat, a, ch[a])
    BY <1>2, <1>5, LayoutGives
  <2>2. Len(ch[a]) \in Nat /\ Len(ch[a]) >= 1 /\ \A k \in 1 .. Len(ch[a]) : ch[a][k] \in Cluster
    BY <2>1, RunsGives
  <2>3. Len(ch[a]) \in 1 .. Len(ch[a])
    BY <2>2
  <2>4. job.fat[last] # 0
    BY <2>1, <2>3, RunsTaken
  <2>5. QED
    BY <2>1, <2>2, <2>3, <2>4, <1>4 DEF Last
<1>7. with = [job.fat EXCEPT ![last] = i, ![i] = END_OF_FILE]
  BY <1>6
<1> HIDE DEF with, last
<1>8. /\ with \in FatType /\ with[i] = END_OF_FILE /\ with[last] = i
      /\ \A c \in Cluster : c # i /\ c # last => with[c] = job.fat[c]
  BY <1>1, <1>4, <1>6, <1>7 DEF FatType
<1>9. /\ job' \in WriteJob /\ job'.fat = with /\ job'.cachedindex = i /\ job'.pc = "expanded"
      /\ job'.request = r /\ job'.startCluster = s[1] /\ job'.at = job.at
  BY <1>1, <1>2, <1>3, <1>4, <1>8 DEF WriteJob
<1>10. /\ b \in DiskType /\ b[i] = Table(disk[a].info) /\ \A c \in Cluster : c # i => b[c] = disk[c]
  <2>1. b = [disk EXCEPT ![i] = Table(disk[a].info)]
    BY <1>9 DEF Expanded
  <2>2. disk[a].info \in InfoType
    BY <1>1, <1>5, DiskGives DEF TableType
  <2>3. Table(disk[a].info) \in TableType
    BY <2>2 DEF Table, TableType, EntryType
  <2> HIDE DEF b
  <2>4. QED
    BY <2>1, <2>3, <1>1, <1>4 DEF DiskType
<1>11. /\ DOMAIN ch2 = DOMAIN ch /\ ch2[a] = Append(ch[a], i)
       /\ \A h \in DOMAIN ch : h # a => ch2[h] = ch[h]
  <2>1. DOMAIN ch = Heads(disk)
    BY <1>2 DEF Layout, ChainsGood
  <2>2. QED
    BY <2>1, <1>5
<1> HIDE DEF ch2, b
<1>12. /\ with[ch[a][Len(ch[a])]] = i
       /\ \A c \in Cluster : c # i /\ c # ch[a][Len(ch[a])] => with[c] = job.fat[c]
  BY <1>8 DEF last
<1> DEFINE f == job.fat
<1> HIDE DEF a, r, f
<1>12a. /\ Layout(disk, f, ch, rank) /\ f[i] = 0 /\ Awaits(disk, f, ch, r, s)
        /\ \A c \in Cluster : c # i /\ c # ch[a][Len(ch[a])] => with[c] = f[c]
  BY <1>2, <1>4, <1>12 DEF f
<1>12b. Grows(disk, f, ch, a, i, b, with, ch2)
  BY <1>12a, <1>4, <1>8, <1>10, <1>11, <1>12 DEF Grows
<1>13. Growing(ch, rank, s, i, ch2)
  BY <1>2, <1>3, <1>5, <1>9, <1>12b DEF Growing, a, b, r, f
<1>14. QED
  BY <1>13

LEMMA ExpandFolderStep ==
  ASSUME FsInv, ExpandFolder
  PROVE  FsInv'
<1> DEFINE r == job.request
           a == r.parent
           f == job.fat
           b == Expanded(disk, job')
<1>1. PICK ch, rank, s, i, ch2 : Growing(ch, rank, s, i, ch2)
  BY ExpandFolderGrows
<1>2. /\ Layout(disk, f, ch, rank) /\ Awaits(disk, f, ch, r, s) /\ a \in Dirs(disk)
      /\ Grows(disk, f, ch, a, i, b, fat', ch2)
      /\ disk' = disk /\ job' \in WriteJob /\ job'.pc = "expanded" /\ job'.fat = fat'
      /\ job'.request = r /\ job'.cachedindex = i /\ job'.startCluster = s[1]
  BY <1>1 DEF Growing
<1>3. disk \in DiskType /\ fat' \in FatType /\ a \in Heads(disk)
  BY <1>2, LayoutGives, UsedGives DEF Grows
<1> HIDE DEF r, a, f, b
<1>4. i \in Cluster
  BY <1>2 DEF Grows
<1>5. /\ Layout(b, fat', ch2, rank) /\ Used(b) = Used(disk) /\ Heads(b) = Heads(disk)
      /\ ~IsDirectory(disk, i)
      /\ \A h \in Heads(disk) : \A c : InChain(ch2, c, h) <=> InChain(ch, c, h) \/ (h = a /\ c = i)
  BY <1>2, GrowsKeeps
<1>6. Awaits(b, fat', ch2, r, s)
  BY <1>2, ExpandAwaits
<1>7. Waiting(job', b)
  BY <1>2, <1>5, <1>6 DEF Waiting
<1>8. FreePlace(b, fat', a) # << >>
  <2> DEFINE p == <<i, 0>>
  <2>1. p \in Place /\ p[1] = i
    BY <1>4, SizeBounds DEF Place
  <2> HIDE DEF p
  <2>2. p \notin Used(b)
    BY <2>1, <1>3, <1>5, UsedGives
  <2>3. InChain(ch2, i, a)
    BY <1>3, <1>5
  <2>4. Runs(fat', a, ch2[a]) /\ In(ch2[a], p)
    BY <2>1, <2>3, <1>3, <1>5, LayoutGives
  <2>5. Finds(ch2[a], Place \ Used(b), FreePlace(b, fat', a))
    BY <2>4, <1>3, FreePlaceFinds
  <2>6. QED
    BY <2>1, <2>2, <2>4, <2>5 DEF Finds
<1>9. Progress(job', disk', fat')
  <2>1. Waiting(job', Expanded(disk', job')) /\ FreePlace(Expanded(disk', job'), job'.fat, job'.request.parent) # << >>
    BY <1>2, <1>7, <1>8 DEF b, a, r
  <2>2. QED
    BY <2>1, <1>2 DEF Progress
<1>10. QED
  BY <1>2, <1>3, <1>9 DEF FsInv
-----------------------------------------------------------------------------
(* The clusters of a write *)

LEMMA FolderIsDir ==
  ASSUME NEW d \in DiskType, NEW c, IsFolder(d, c)
  PROVE  c \in Dirs(d)
<1>1. CASE c = ROOT_CLUSTER_NUMBER
  BY <1>1 DEF Dirs
<1>2. CASE c # ROOT_CLUSTER_NUMBER
  <2>1. PICK b \in Cluster, i \in Slot :
          IsDirectory(d, b) /\ d[b].entry[i].directory /\ d[b].entry[i].cluster_number = c
    BY <1>2 DEF IsFolder
  <2> DEFINE p == <<b, i>>
  <2>2. p \in Place /\ EntryAt(d, p) = d[b].entry[i]
    BY <2>1 DEF Place, EntryAt, IsDirectory
  <2>3. EntryAt(d, p) # emptyEntry
    <3>1. emptyEntry.directory = FALSE
      BY DEF emptyEntry
    <3>2. QED
      BY <2>1, <2>2, <3>1
  <2> HIDE DEF p
  <2>4. p \in Used(d) /\ EntryAt(d, p).directory /\ Base(d, p) = c
    BY <2>1, <2>2, <2>3 DEF Used, Base
  <2>5. QED
    BY <2>4 DEF Dirs
<1>3. QED
  BY <1>1, <1>2

LEMMA WriteBeginStep ==
  ASSUME FsInv, NEW r \in Request, WriteBegin(r)
  PROVE  FsInv'
<1> DEFINE b == update_size(disk, fat, r, 1)
<1>1. /\ job = Idle /\ ~name_exists(disk, fat, r) /\ IsFolder(disk, r.parent) /\ HasRoom(r)
      /\ disk' = b /\ fat' = fat
      /\ job' = [pc |-> "allocate", request |-> r, fat |-> fat, size |-> r.buffer_size,
                 cachedindex |-> ROOT_CLUSTER_NUMBER, startCluster |-> 0, index |-> 0, at |-> << >>]
  BY DEF WriteBegin, Refused
<1>2. disk \in DiskType /\ fat \in FatType /\ Sound(disk, fat)
  BY <1>1, JobGives DEF FsInv, Progress
<1>3. PICK ch, rank : Layout(disk, fat, ch, rank)
  BY <1>2 DEF Sound
<1>4. r.parent \in Dirs(disk) /\ r.parent \in Heads(disk)
  BY <1>1, <1>2, FolderIsDir, UsedGives
<1>5. /\ Layout(b, fat, ch, rank)
      /\ Used(b) = Used(disk) /\ Dirs(b) = Dirs(disk)
      /\ \A p \in Place : /\ EntryAt(b, p).name = EntryAt(disk, p).name
                          /\ EntryAt(b, p).ext = EntryAt(disk, p).ext
  <2>1. 1 \in {1, -1}
    OBVIOUS
  <2>2. QED
    BY <2>1, <1>3, <1>4, ResizeKeeps
<1> HIDE DEF b
<1>6. /\ r.buffer_size \in Nat
  BY RequestGives, SizeBounds
<1>7. job' \in WriteJob
  BY <1>1, <1>2, <1>6, Bounds DEF WriteJob
<1>8. Welcome(b, ch, r)
  <2>1. Runs(fat, r.parent, ch[r.parent]) /\ \A p : In(ch[r.parent], p) <=> InChain(ch, p[1], r.parent)
    BY <1>3, <1>4, LayoutGives
  <2>2. \A p \in Named(disk, r) : ~In(ch[r.parent], p)
    BY <2>1, <1>1, <1>2, NameExistsFinds
  <2>3. \A p \in Used(disk) : p \in Place
    BY DEF Used
  <2>4. QED
    BY <2>1, <2>2, <2>3, <1>4, <1>5 DEF Welcome, Named
<1>9. Cardinality(FreeAbove(fat, ROOT_CLUSTER_NUMBER)) >= r.buffer_size \div CLUSTER_SIZE + 2
  <2>1. {c \in Cluster : fat[c] = 0} = FreeAbove(fat, ROOT_CLUSTER_NUMBER)
    BY <1>3, FreeIsNobodys DEF FreeAbove
  <2>2. QED
    BY <2>1, <1>1 DEF HasRoom
<1>10. Taking(job', b, fat, ch, << >>)
  <2>1. << >> \in Seq(Cluster) /\ Len(<< >>) = 0
    OBVIOUS
  <2>2. 1 .. 0 = {} /\ 1 .. 0 - 1 = {}
    OBVIOUS
  <2>3. Spare(b, ch, << >>) /\ Filled(b, r, << >>)
    BY <2>1 DEF Spare, Filled
  <2>4. /\ job'.index = 0 /\ job'.fat = fat /\ job'.request = r /\ job'.size = r.buffer_size
        /\ job'.cachedindex = ROOT_CLUSTER_NUMBER
    BY <1>1
  <2>5. r.buffer_size + 0 * CLUSTER_SIZE = r.buffer_size
    BY <1>6, SizeBounds
  <2>6. QED
    BY <2>1, <2>2, <2>3, <2>4, <2>5, <1>8, <1>9 DEF Taking
<1>11. Progress(job', disk', fat')
  <2>1. job'.pc = "allocate" /\ Layout(disk', fat', ch, rank) /\ Taking(job', disk', fat', ch, << >>)
    BY <1>1, <1>5, <1>10
  <2>2. QED
    BY <2>1 DEF Progress
<1>12. QED
  <2>1. disk' \in DiskType
    BY <1>1, <1>5 DEF Layout, TypesGood
  <2>2. job'.pc # "unlink"
    BY <1>1
  <2>3. QED
    BY <2>1, <2>2, <1>1, <1>2, <1>7, <1>11 DEF FsInv

LEMMA DivMinus ==
  ASSUME NEW a \in Nat, NEW b \in Nat \ {0}, a >= b
  PROVE  a - b \in Nat /\ (a - b) \div b = a \div b - 1
<1> DEFINE q == a \div b
           m == a % b
<1>1. q \in Nat /\ m \in 0 .. b - 1 /\ a = b * q + m
  BY DivMod
<1> HIDE DEF q, m
<1>2. q # 0
  BY <1>1
<1>3. q - 1 \in Nat /\ a - b = (q - 1) * b + m /\ a - b \in Nat
  BY <1>1, <1>2
<1>4. ((q - 1) * b + m) \div b = q - 1
  BY <1>1, <1>3, DivOf
<1>5. QED
  BY <1>3, <1>4 DEF q

LEMMA WriteClusterStep ==
  ASSUME FsInv, WriteCluster
  PROVE  FsInv'
<1> DEFINE r == job.request
           c0 == job.cachedindex
           i == FreeAfter(job.fat, c0)
           large == job.index > 0
           last == job.size <= CLUSTER_SIZE
           g == [c \in Cluster |-> IF large /\ c = c0 THEN i
                                   ELSE IF last /\ c = i THEN END_OF_FILE ELSE job.fat[c]]
           b == disk'
<1>1. /\ job \in WriteJob /\ job.pc = "allocate" /\ r \in Request /\ job.fat \in FatType
      /\ disk \in DiskType /\ fat \in FatType /\ c0 \in Cluster /\ c0 \in Nat /\ job.size \in Nat
      /\ job.startCluster \in Cluster
  BY JobGives, Bounds DEF FsInv, WriteCluster, WriteJob
<1>2. /\ fat' = fat
      /\ b = IF job.size = 0 THEN disk ELSE [disk EXCEPT ![i] = Data(r, job.index)]
      /\ job' = [job EXCEPT
              !.pc           = IF last THEN "entry" ELSE @,
              !.fat          = g,
              !.size         = IF last THEN @ ELSE @ - CLUSTER_SIZE,
              !.cachedindex  = i,
              !.startCluster = IF large THEN @ ELSE i,
              !.index        = @ + 1]
  BY DEF WriteCluster
<1>3. PICK ch, rank, s : Layout(disk, fat, ch, rank) /\ Taking(job, disk, fat, ch, s)
  BY <1>1 DEF FsInv, Progress
<1> DEFINE n == Len(s)
           t == Append(s, i)
<1>4. /\ s \in Seq(Cluster) /\ job.index = n
      /\ \A k \in 1 .. n : s[k] > ROOT_CLUSTER_NUMBER /\ fat[s[k]] = 0 /\ s[k] <= c0
      /\ \A h, k \in 1 .. n : s[h] = s[k] => h = k
      /\ \A k \in 1 .. n - 1 : job.fat[s[k]] = s[k + 1]
      /\ \A c \in Cluster : (\A k \in 1 .. n - 1 : s[k] # c) => job.fat[c] = fat[c]
      /\ Spare(disk, ch, s) /\ Filled(disk, r, s) /\ Welcome(disk, ch, r)
      /\ IF n = 0 THEN c0 = ROOT_CLUSTER_NUMBER ELSE c0 = s[n] /\ job.startCluster = s[1]
      /\ job.size + n * CLUSTER_SIZE = r.buffer_size
      /\ n # 0 => job.size > 0
      /\ Cardinality(FreeAbove(fat, c0)) >= job.size \div CLUSTER_SIZE + 2
  BY <1>3 DEF Taking
<1>5. n \in Nat /\ \A k \in 1 .. n : s[k] \in Cluster /\ s[k] \in Nat
  BY <1>4, LenProperties, ElementOfSeq, Bounds
<1> HIDE DEF g, b, i, n, c0
<1>6. \A k \in 1 .. n - 1 : k \in 1 .. n /\ k + 1 \in 1 .. n
  BY <1>5
<1>7. c0 >= ROOT_CLUSTER_NUMBER
  BY <1>1, <1>4, <1>5, Bounds
<1>8. \A c \in Cluster : c > c0 => job.fat[c] = fat[c] /\ \A k \in 1 .. n : s[k] # c
  <2>1. \A c \in Cluster : c > c0 => \A k \in 1 .. n : s[k] # c
    BY <1>1, <1>4, <1>5, Bounds
  <2>2. QED
    BY <2>1, <1>4, <1>6
<1>9. FreeAbove(job.fat, c0) = FreeAbove(fat, c0)
  BY <1>8 DEF FreeAbove
<1>10. job.size \div CLUSTER_SIZE \in Nat
  BY <1>1, SizeBounds, DivMod
<1>11. FreeAbove(fat, c0) # {}
  <2> SUFFICES ASSUME FreeAbove(fat, c0) = {} PROVE FALSE
    OBVIOUS
  <2> DEFINE x == job.size \div CLUSTER_SIZE
  <2>1. Cardinality({}) = 0
    BY FS_EmptySet
  <2>2. 0 >= x + 2
    BY <2>1, <1>4
  <2>3. x \in Nat
    BY <1>10
  <2> HIDE DEF x
  <2>4. QED
    BY <2>2, <2>3
<1>12. /\ i \in Cluster /\ i \in Nat /\ i > c0 /\ fat[i] = 0 /\ job.fat[i] = 0
       /\ Cardinality(FreeAbove(fat, i)) = Cardinality(FreeAbove(fat, c0)) - 1
       /\ Cardinality(FreeAbove(fat, c0)) \in Nat
  <2>1. /\ i \in FreeAbove(job.fat, c0)
        /\ Cardinality(FreeAbove(job.fat, c0)) \in Nat
        /\ Cardinality(FreeAbove(job.fat, i)) = Cardinality(FreeAbove(job.fat, c0)) - 1
    BY <1>1, <1>9, <1>11, FreeAfterGives DEF i
  <2>2. i \in Cluster /\ i \in Nat /\ i > c0 /\ job.fat[i] = 0
    BY <2>1, Bounds DEF FreeAbove
  <2>3. FreeAbove(job.fat, i) = FreeAbove(fat, i)
    <3>1. \A c \in Cluster : c > i => c > c0
      BY <2>2, <1>1, Bounds
    <3>2. QED
      BY <3>1, <1>8 DEF FreeAbove
  <2>4. QED
    BY <2>1, <2>2, <2>3, <1>8, <1>9
<1>13. /\ i > ROOT_CLUSTER_NUMBER /\ ~IsDirectory(disk, i)
       /\ \A h \in Heads(disk) : ~InChain(ch, i, h)
       /\ \A k \in 1 .. n : s[k] # i
  BY <1>3, <1>8, <1>12, FreeIsNobodys
<1>14. n * CLUSTER_SIZE \in Nat /\ (n = 0 => n * CLUSTER_SIZE = 0) /\ CLUSTER_SIZE \in Nat \ {0}
  BY <1>5, SizeBounds
<1>15. job.size # 0 <=> r.buffer_size # 0
  BY <1>1, <1>4, <1>14
<1>16. /\ b \in DiskType /\ \A c \in Cluster : c # i => b[c] = disk[c]
       /\ ~IsDirectory(b, i)
       /\ r.buffer_size # 0 => b[i] = Data(r, n)
  <2>1. CASE job.size = 0
    BY <2>1, <1>1, <1>2, <1>13, <1>15
  <2>2. CASE job.size # 0
    <3>1. b = [disk EXCEPT ![i] = Data(r, n)]
      BY <2>2, <1>2, <1>4
    <3>2. Data(r, n) \in OtherType /\ Data(r, n).kind = "data"
      <4>1. r.parent \in Cluster /\ r.name \in Names /\ r.ext \in Exts
        BY <2>2, <1>1, <1>15, RequestGives
      <4>2. QED
        BY <4>1, <1>5 DEF Data, OtherType
    <3>3. b[i] = Data(r, n) /\ b \in DiskType /\ \A c \in Cluster : c # i => b[c] = disk[c]
      BY <3>1, <3>2, <1>1, <1>12 DEF DiskType
    <3>4. QED
      BY <3>2, <3>3 DEF IsDirectory
  <2>3. QED
    BY <2>1, <2>2
<1>17. /\ t \in Seq(Cluster) /\ Len(t) = n + 1
       /\ \A k \in 1 .. n : t[k] = s[k]
       /\ t[n + 1] = i /\ \A k \in 1 .. n + 1 : k = n + 1 \/ k \in 1 .. n
  BY <1>4, <1>5, <1>12, AppendProperties DEF n
<1> HIDE DEF t, large, last, r
<1>18. large <=> n # 0
  BY <1>4, <1>5 DEF large
<1>19. g \in FatType /\ \A c \in Cluster : g[c] = IF large /\ c = c0 THEN i
                                                 ELSE IF last /\ c = i THEN END_OF_FILE ELSE job.fat[c]
  BY <1>1, <1>12 DEF g, FatType
<1>20. \A k \in 1 .. n : g[t[k]] = t[k + 1]
  <2> SUFFICES ASSUME NEW k \in 1 .. n PROVE g[s[k]] = t[k + 1]
    BY <1>17
  <2>1. n # 0 /\ large /\ c0 = s[n] /\ n \in 1 .. n /\ s[k] \in Cluster
    BY <1>4, <1>5, <1>18
  <2>2. CASE k = n
    BY <2>1, <2>2, <1>17, <1>19
  <2>3. CASE k # n
    <3>1. k \in 1 .. n - 1 /\ k + 1 \in 1 .. n
      BY <2>3, <1>5
    <3>2. s[k] # c0 /\ s[k] # i
      BY <2>1, <2>3, <1>4, <1>13
    <3>3. QED
      BY <2>1, <3>1, <3>2, <1>4, <1>17, <1>19
  <2>4. QED
    BY <2>2, <2>3
<1>21. \A c \in Cluster : (\A k \in 1 .. n : t[k] # c) =>
         g[c] = IF last /\ c = i THEN END_OF_FILE ELSE fat[c]
  <2> SUFFICES ASSUME NEW c \in Cluster, \A k \in 1 .. n : t[k] # c
               PROVE  g[c] = IF last /\ c = i THEN END_OF_FILE ELSE fat[c]
    OBVIOUS
  <2>1. \A k \in 1 .. n : s[k] # c
    BY <1>17
  <2>2. ~(large /\ c = c0)
    <3>1. large => n \in 1 .. n
      BY <1>5, <1>18
    <3>2. QED
      BY <2>1, <3>1, <1>4, <1>18
  <2>3. job.fat[c] = fat[c]
    BY <2>1, <1>4, <1>6
  <2>4. QED
    BY <2>2, <2>3, <1>19
<1>22. \A c \in Cluster : \A h \in Heads(disk) : InChain(ch, c, h) =>
         /\ c # i /\ b[c] = disk[c] /\ \A k \in 1 .. n : t[k] # c
  <2>1. \A k \in 1 .. n : \A h \in Heads(disk) : ~InChain(ch, s[k], h)
    BY <1>4 DEF Spare, n
  <2>2. QED
    BY <2>1, <1>13, <1>16, <1>17
<1>23. \A c \in Cluster : (~\E h \in Heads(disk) : InChain(ch, c, h)) => ~IsDirectory(b, c)
  <2>1. Dirs(disk) \subseteq Heads(disk)
    BY <1>1, UsedGives
  <2>2. \A c \in Cluster : IsDirectory(disk, c) <=> \E h \in Dirs(disk) : InChain(ch, c, h)
    BY <1>3 DEF Layout, TablesGood
  <2>3. \A c \in Cluster : c # i => (IsDirectory(b, c) <=> IsDirectory(disk, c))
    BY <1>16 DEF IsDirectory
  <2>4. QED
    BY <2>1, <2>2, <2>3, <1>16
<1>24. /\ Layout(b, fat, ch, rank) /\ Used(b) = Used(disk)
       /\ Heads(b) = Heads(disk) /\ Dirs(b) = Dirs(disk)
       /\ \A p \in Place : EntryAt(b, p) = EntryAt(disk, p)
  <2>1. \A c \in 0 .. ROOT_CLUSTER_NUMBER : fat[c] # 0
    BY <1>3 DEF Layout, TypesGood
  <2>2. \A c \in Cluster : IF \E h \in Heads(disk) : InChain(ch, c, h)
                           THEN b[c] = disk[c] /\ fat[c] = fat[c] ELSE ~IsDirectory(b, c)
    BY <1>22, <1>23
  <2>3. QED
    BY <2>1, <2>2, <1>1, <1>3, <1>16, ElsewhereKeeps
<1>25. Layout(b, g, ch, rank)
  <2>1. ASSUME NEW c \in 0 .. ROOT_CLUSTER_NUMBER PROVE g[c] # 0
    <3>1. fat[c] # 0
      BY <1>3 DEF Layout, TypesGood
    <3>2. c \in Cluster /\ c # i
      <4>1. ROOT_CLUSTER_NUMBER \in 0 .. CLUSTER_COUNT - 1
        BY Bounds DEF Cluster
      <4>2. QED
        BY <4>1, <1>12, <1>13, Bounds DEF Cluster
    <3>3. \A k \in 1 .. n : t[k] # c
      BY <3>1, <1>4, <1>17
    <3>4. QED
      BY <3>1, <3>2, <3>3, <1>21
  <2>2. \A c \in Cluster : IF \E h \in Heads(disk) : InChain(ch, c, h)
                           THEN b[c] = disk[c] /\ g[c] = fat[c] ELSE ~IsDirectory(b, c)
    BY <1>21, <1>22, <1>23
  <2>3. QED
    BY <2>1, <2>2, <1>3, <1>16, <1>19, ElsewhereKeeps
<1>26. Spare(b, ch, t)
  <2>1. \A k \in 1 .. n : ~IsDirectory(disk, s[k]) /\ \A h \in Heads(disk) : ~InChain(ch, s[k], h)
    BY <1>4 DEF Spare, n
  <2>2. \A k \in 1 .. n : ~IsDirectory(b, s[k])
    BY <2>1, <1>5, <1>13, <1>16 DEF IsDirectory
  <2>3. \A k \in 1 .. n + 1 : ~IsDirectory(b, t[k]) /\ \A h \in Heads(b) : ~InChain(ch, t[k], h)
    BY <2>1, <2>2, <1>13, <1>16, <1>17, <1>24
  <2>4. QED
    BY <2>3, <1>17 DEF Spare
<1>27. Filled(b, r, t)
  <2> SUFFICES ASSUME r.buffer_size # 0, NEW k \in 1 .. n + 1 PROVE b[t[k]] = Data(r, k - 1)
    BY <1>17 DEF Filled
  <2>1. CASE k = n + 1
    <3>1. k - 1 = n
      BY <2>1, <1>5
    <3>2. QED
      BY <2>1, <3>1, <1>16, <1>17
  <2>2. CASE k \in 1 .. n
    <3>1. disk[s[k]] = Data(r, k - 1)
      BY <2>2, <1>4 DEF Filled, n
    <3>2. QED
      BY <2>2, <3>1, <1>5, <1>13, <1>16, <1>17
  <2>3. QED
    BY <2>1, <2>2, <1>17
<1>28. Welcome(b, ch, r)
  <2>1. \A p \in Used(disk) : p \in Place
    BY DEF Used
  <2>2. QED
    BY <2>1, <1>4, <1>24 DEF Welcome
<1>29. \A h, k \in 1 .. n + 1 : t[h] = t[k] => h = k
  BY <1>4, <1>13, <1>17
<1>30. \A k \in 1 .. n + 1 : t[k] \in Cluster /\ t[k] > ROOT_CLUSTER_NUMBER /\ fat[t[k]] = 0 /\ t[k] <= i
  <2>1. \A k \in 1 .. n : s[k] <= i
    BY <1>1, <1>4, <1>5, <1>12
  <2>2. i <= i
    BY <1>12
  <2>3. \A k \in 1 .. n : t[k] \in Cluster /\ t[k] > ROOT_CLUSTER_NUMBER /\ fat[t[k]] = 0 /\ t[k] <= i
    BY <2>1, <1>4, <1>5, <1>17
  <2>4. t[n + 1] \in Cluster /\ t[n + 1] > ROOT_CLUSTER_NUMBER /\ fat[t[n + 1]] = 0 /\ t[n + 1] <= i
    BY <2>2, <1>12, <1>13, <1>17
  <2>5. QED
    BY <2>3, <2>4, <1>17
<1>31. /\ job'.request = r /\ job'.fat = g /\ job'.cachedindex = i /\ job'.index = n + 1
       /\ job'.startCluster = t[1]
       /\ job'.size = IF last THEN job.size ELSE job.size - CLUSTER_SIZE
       /\ job'.pc = IF last THEN "entry" ELSE "allocate"
       /\ job' \in WriteJob
  <2>1. t[1] = IF large THEN job.startCluster ELSE i
    <3>1. CASE n = 0
      <4>1. t[n + 1] = t[1]
        BY <3>1
      <4>2. QED
        BY <4>1, <3>1, <1>17, <1>18
    <3>2. CASE n # 0
      <4>1. 1 \in 1 .. n
        BY <3>2, <1>5
      <4>2. QED
        BY <4>1, <3>2, <1>4, <1>17, <1>18
    <3>3. QED
      BY <3>1, <3>2
  <2>2. ~last => job.size - CLUSTER_SIZE \in Nat
    BY <1>1, <1>14 DEF last
  <2>3. t[1] \in Cluster /\ n + 1 \in Nat
    BY <2>1, <1>1, <1>5, <1>12
  <2>4. job' = [job EXCEPT !.pc = IF last THEN "entry" ELSE "allocate", !.fat = g,
                           !.size = IF last THEN job.size ELSE job.size - CLUSTER_SIZE,
                           !.cachedindex = i, !.startCluster = t[1], !.index = n + 1]
    BY <2>1, <1>1, <1>2, <1>4
  <2>5. QED
    BY <2>2, <2>3, <2>4, <1>1, <1>12, <1>19 DEF WriteJob, r
<1>32. CASE ~last
  <2>1. /\ job'.size > 0 /\ job'.size + (n + 1) * CLUSTER_SIZE = r.buffer_size
        /\ job'.size \div CLUSTER_SIZE = job.size \div CLUSTER_SIZE - 1
    <3>1. job.size > CLUSTER_SIZE /\ job.size >= CLUSTER_SIZE
      BY <1>1, <1>14, <1>32 DEF last
    <3>2. job'.size = job.size - CLUSTER_SIZE
      BY <1>31, <1>32
    <3>3. (n + 1) * CLUSTER_SIZE = n * CLUSTER_SIZE + CLUSTER_SIZE
      BY <1>5, <1>14
    <3>4. job'.size > 0
      BY <3>1, <3>2, <1>1, <1>14
    <3>5. job'.size + (n + 1) * CLUSTER_SIZE = r.buffer_size
      BY <3>2, <3>3, <1>1, <1>4, <1>14
    <3>6. job'.size \div CLUSTER_SIZE = job.size \div CLUSTER_SIZE - 1
      BY <3>1, <3>2, <1>1, <1>14, DivMinus
    <3>7. QED
      BY <3>4, <3>5, <3>6
  <2>2. Cardinality(FreeAbove(fat, i)) >= job'.size \div CLUSTER_SIZE + 2
    BY <2>1, <1>4, <1>10, <1>12
  <2>3. \A k \in 1 .. (n + 1) - 1 : g[t[k]] = t[k + 1]
    <3>1. (n + 1) - 1 = n
      BY <1>5
    <3>2. QED
      BY <3>1, <1>20
  <2>4. \A c \in Cluster : (\A k \in 1 .. (n + 1) - 1 : t[k] # c) => g[c] = fat[c]
    <3>1. (n + 1) - 1 = n
      BY <1>5
    <3>2. QED
      BY <3>1, <1>21, <1>32
  <2>5. n + 1 # 0
    BY <1>5
  <2>6. Taking(job', b, fat, ch, t)
    BY <2>1, <2>2, <2>3, <2>4, <2>5, <1>17, <1>26, <1>27, <1>28, <1>29, <1>30, <1>31 DEF Taking
  <2>7. job'.pc = "allocate" /\ Layout(disk', fat', ch, rank) /\ Taking(job', disk', fat', ch, t)
    BY <2>6, <1>2, <1>24, <1>31, <1>32 DEF b
  <2>8. Progress(job', disk', fat')
    BY <2>7 DEF Progress
  <2>9. QED
    BY <2>7, <2>8, <1>1, <1>2, <1>16, <1>31 DEF FsInv, b
<1>33. CASE last
  <2>1. Runs(g, t[1], t)
    <3>1. t # << >>
      BY <1>5, <1>17, EmptySeq
    <3>2. \A k \in 1 .. n + 1 : g[t[k]] = IF k = n + 1 THEN END_OF_FILE ELSE t[k + 1]
      <4>1. g[i] = END_OF_FILE
        BY <1>12, <1>13, <1>17, <1>21, <1>33
      <4>2. \A k \in 1 .. n : k # n + 1
        BY <1>5
      <4>3. QED
        BY <4>1, <4>2, <1>17, <1>20
    <3>3. \A k \in 1 .. n + 1 : t[k] >= ROOT_CLUSTER_NUMBER
      <4> SUFFICES ASSUME NEW k \in 1 .. n + 1 PROVE t[k] >= ROOT_CLUSTER_NUMBER
        OBVIOUS
      <4>1. t[k] \in Cluster /\ t[k] > ROOT_CLUSTER_NUMBER
        BY <1>30
      <4>2. t[k] \in Nat /\ ROOT_CLUSTER_NUMBER \in Nat
        BY <4>1, Bounds
      <4>3. QED
        BY <4>1, <4>2
    <3>4. QED
      BY <3>1, <3>2, <3>3, <1>17, <1>29 DEF Runs
  <2>2. n + 1 = IF r.buffer_size = 0 THEN 1 ELSE (r.buffer_size + CLUSTER_SIZE - 1) \div CLUSTER_SIZE
    <3>1. CASE r.buffer_size = 0
      BY <3>1, <1>4, <1>5, <1>15
    <3>2. CASE r.buffer_size # 0
      <4>1. job.size - 1 \in 0 .. CLUSTER_SIZE - 1
        BY <3>2, <1>1, <1>14, <1>15, <1>33 DEF last
      <4>2. (n + 1) * CLUSTER_SIZE = n * CLUSTER_SIZE + CLUSTER_SIZE
        BY <1>5, <1>14
      <4>3. r.buffer_size + CLUSTER_SIZE - 1 = (n + 1) * CLUSTER_SIZE + (job.size - 1)
        BY <4>2, <1>1, <1>4, <1>14
      <4>4. ((n + 1) * CLUSTER_SIZE + (job.size - 1)) \div CLUSTER_SIZE = n + 1
        <5>1. n + 1 \in Nat
          BY <1>5
        <5>2. QED
          BY <5>1, <4>1, <1>14, DivOf
      <4>5. QED
        BY <3>2, <4>3, <4>4
    <3>3. QED
      BY <3>1, <3>2
  <2>3. Awaits(b, g, ch, r, t)
    BY <2>1, <2>2, <1>17, <1>26, <1>27, <1>28 DEF Awaits
  <2>4. Waiting(job', disk')
    BY <2>3, <1>25, <1>31 DEF Waiting, b
  <2>5. FreeAbove(g, ROOT_CLUSTER_NUMBER) # {}
    <3>1. FreeAbove(fat, i) # {}
      <4>1. Cardinality({}) = 0
        BY FS_EmptySet
      <4>2. Cardinality(FreeAbove(fat, i)) >= 1
        BY <1>4, <1>10, <1>12
      <4>3. QED
        BY <4>1, <4>2
    <3>2. PICK x \in Cluster : x > i /\ fat[x] = 0
      BY <3>1 DEF FreeAbove
    <3>3. x \in Nat /\ x # i /\ x > ROOT_CLUSTER_NUMBER /\ \A k \in 1 .. n + 1 : t[k] # x
      <4>1. x \in Nat
        BY Bounds
      <4>2. \A k \in 1 .. n + 1 : t[k] \in Nat /\ t[k] <= i
        BY <1>30, Bounds
      <4>3. QED
        BY <3>2, <4>1, <4>2, <1>12, <1>13, Bounds
    <3>4. g[x] = fat[x]
      <4>1. \A k \in 1 .. n : k \in 1 .. n + 1
        BY <1>5
      <4>2. QED
        BY <4>1, <3>3, <1>21
    <3>5. QED
      BY <3>2, <3>3, <3>4 DEF FreeAbove
  <2>6. job'.pc = "entry" /\ job'.fat = g
    BY <1>31, <1>33
  <2>7. Progress(job', disk', fat')
    BY <2>4, <2>5, <2>6 DEF Progress
  <2>8. QED
    BY <2>6, <2>7, <1>1, <1>2, <1>16, <1>31 DEF FsInv, b
<1>34. QED
  BY <1>32, <1>33
-----------------------------------------------------------------------------
(* The steps of a delete *)

\* What stands for a directory is the entry of one.
LEMMA DirIsDirectory ==
  ASSUME NEW d, NEW f, NEW ch, NEW rank, Layout(d, f, ch, rank), NEW p \in Used(d), Base(d, p) \in Dirs(d)
  PROVE  EntryAt(d, p).directory
<1>1. /\ Base(d, p) # ROOT_CLUSTER_NUMBER /\ \A q \in Used(d) : Base(d, p) = Base(d, q) => p = q
  BY DEF Layout, EntriesGood
<1>2. PICK q \in Used(d) : Base(d, p) = Base(d, q) /\ EntryAt(d, q).directory
  BY <1>1, UsedGives, LayoutGives
<1>3. QED
  BY <1>1, <1>2

\* The entry that a delete has found can be removed with its cluster; the
\* search finds it again when the cluster is empty.
LEMMA WipeKeeps ==
  ASSUME NEW d, NEW f, NEW ch, NEW rank, Layout(d, f, ch, rank), NEW r, r.parent \in Dirs(d),
         NEW p \in Used(d), SelfPlace(d, f, r) = <<p>>, NEW n, n = Base(d, p), f[n] = END_OF_FILE,
         EntryAt(d, p).directory => \A q \in Used(d) : q[1] # n,
         NEW w, w \in DiskType, w[n] = Zero, \A c \in Cluster : c # n => w[c] = d[c]
  PROVE  SelfPlace(w, f, r) = <<p>> /\ Sound(WithEntry(w, p, emptyEntry), f)
<1> DEFINE a == r.parent
           b == WithEntry(w, p, emptyEntry)
<1>1. /\ d \in DiskType /\ f \in FatType /\ a \in Heads(d) /\ n \in Heads(d) /\ n \in Cluster
      /\ Runs(f, a, ch[a]) /\ \A q : In(ch[a], q) <=> InChain(ch, q[1], a)
      /\ p \in Place /\ p[1] \in Cluster /\ IsDirectory(d, p[1])
  BY LayoutGives, UsedGives
<1>2. InChain(ch, p[1], a)
  <2>1. Finds(ch[a], Asked(d, r), <<p>>)
    BY <1>1, SelfPlaceFinds
  <2>2. PICK q \in Place : In(ch[a], q) /\ <<p>> = <<q>>
    BY <2>1 DEF Finds
  <2>3. QED
    BY <1>1, <2>2
<1>3. a # n
  <2>1. CASE EntryAt(d, p).directory
    <3>1. rank[a] < rank[n]
      BY <1>2, <2>1 DEF Layout, HomesGood
    <3>2. rank[a] \in Nat
      BY <1>1, LayoutGives, UsedGives DEF Layout, TypesGood
    <3>3. QED
      BY <3>1, <3>2
  <2>2. CASE ~EntryAt(d, p).directory
    BY <2>2, DirIsDirectory
  <2>3. QED
    BY <2>1, <2>2
<1>4. \A q \in Place : In(ch[a], q) => q[1] # n /\ q[1] \in Cluster
  <2> SUFFICES ASSUME NEW q \in Place, In(ch[a], q) PROVE q[1] # n /\ q[1] \in Cluster
    OBVIOUS
  <2>1. InChain(ch, n, n) /\ InChain(ch, q[1], a)
    BY <1>1, LayoutGives
  <2>2. QED
    BY <2>1, <1>1, <1>3, LayoutGives
<1>5. w \in DiskType /\ w[n] = Zero /\ \A c \in Cluster : c # n => w[c] = d[c]
  OBVIOUS
<1>6. SelfPlace(w, f, r) = SelfPlace(d, f, r)
  <2>1. \A q \in Place : In(ch[a], q) => EntryAt(w, q) = EntryAt(d, q)
    BY <1>4, <1>5 DEF EntryAt
  <2> DEFINE s == ch[a]
  <2>2. SameNames(s, d, w)
    BY <2>1 DEF SameNames
  <2>3. f \in FatType /\ Runs(f, r.parent, s)
    BY <1>1
  <2> HIDE DEF b, s
  <2>4. QED
    BY <2>2, <2>3, SelfPlaceSame
<1>7. p[1] # n
  BY <1>1, <1>2, <1>4
<1>8. IsDirectory(w, p[1]) /\ emptyEntry \in EntryType
  BY <1>1, <1>5, <1>7 DEF IsDirectory, EntryType
<1>9. b \in DiskType /\ \A c \in Cluster : c # p[1] => b[c] = w[c]
  <2>1. b \in DiskType
    BY <1>1, <1>5, <1>8, WithEntryGives
  <2>2. ASSUME NEW c \in Cluster, c # p[1] PROVE b[c] = w[c]
    BY <2>2, <1>1, <1>5 DEF WithEntry, DiskType
  <2>3. QED
    BY <2>1, <2>2
<1>10. b[n] = Zero /\ \A c \in Cluster : c # n => b[c] = WithEntry(d, p, emptyEntry)[c]
  <2>1. b[n] = Zero
    BY <1>1, <1>5, <1>7, <1>9
  <2>2. ASSUME NEW c \in Cluster, c # n PROVE b[c] = WithEntry(d, p, emptyEntry)[c]
    <3>1. w[c] = d[c]
      BY <2>2, <1>5
    <3>2. QED
      BY <3>1, <1>1, <1>5 DEF WithEntry, DiskType
  <2>3. QED
    BY <2>1, <2>2
<1> HIDE DEF b
<1>11. Layout(b, f, WithoutChain(ch, n), rank)
  BY <1>1, <1>9, <1>10, WithoutKeeps
<1>12. QED
  BY <1>6, <1>11 DEF Sound, b

LEMMA DeleteBeginStep ==
  ASSUME FsInv, NEW r \in Request, DeleteBegin(r)
  PROVE  FsInv'
<1> DEFINE b == update_size(disk, fat, r, -1)
           at == SelfPlace(b, fat, r)
           self == IF at = << >> THEN emptyEntry ELSE EntryAt(b, at[1])
           a == r.parent
<1>1. /\ job = Idle /\ IsFolder(disk, a) /\ disk' = b /\ fat' = fat
      /\ job' = [pc |-> IF self.directory THEN "folder" ELSE "wipe", request |-> r,
                 fat |-> fat, at |-> at, self |-> self.cluster_number,
                 currentCluster |-> self.cluster_number, marker |-> fat[self.cluster_number],
                 below |-> << >>]
  BY DEF DeleteBegin
<1>2. disk \in DiskType /\ fat \in FatType /\ Sound(disk, fat)
  BY <1>1, JobGives DEF FsInv, Progress
<1>3. PICK ch, rank : Layout(disk, fat, ch, rank)
  BY <1>2 DEF Sound
<1>4. Layout(b, fat, ch, rank) /\ a \in Dirs(b)
  <2>1. -1 \in {1, -1} /\ a \in Dirs(disk)
    BY <1>1, <1>2, FolderIsDir
  <2>2. QED
    BY <2>1, <1>3, ResizeKeeps
<1> HIDE DEF b
<1>5. /\ b \in DiskType /\ a \in Heads(b) /\ Runs(fat, a, ch[a])
      /\ \A q : In(ch[a], q) <=> InChain(ch, q[1], a)
  BY <1>4, LayoutGives, UsedGives
<1>6. at = << >> \/ \E p \in Used(b) : at = <<p>>
  <2>1. Finds(ch[a], Asked(b, r), at)
    BY <1>2, <1>5, SelfPlaceFinds
  <2>2. ASSUME NEW p \in Place, p \in Asked(b, r) PROVE p \in Used(b)
    <3>1. EntryAt(b, p).name \in Names
      BY <2>2, RequestGives DEF Asked
    <3>2. emptyEntry.name = ""
      BY DEF emptyEntry
    <3>3. QED
      BY <3>1, <3>2, NameBounds DEF Used
  <2>3. QED
    BY <2>1, <2>2 DEF Finds
<1> HIDE DEF at
<1>7. CASE at = << >>
  <2> DEFINE w == Wiped(b, job')
  <2>1. /\ job' = [pc |-> "wipe", request |-> r, fat |-> fat, at |-> << >>, self |-> 0,
                   currentCluster |-> 0, marker |-> fat[0], below |-> << >>]
    BY <1>1, <1>7 DEF emptyEntry
  <2>2. job' \in DeleteJob /\ job'.pc = "wipe"
    BY <2>1, <1>2, Bounds DEF DeleteJob, FatType
  <2>3. w \in DiskType /\ w[0] = Zero /\ \A c \in Cluster : c # 0 => w[c] = b[c]
    BY <2>1, <1>5, Bounds DEF Wiped, DiskType, OtherType
  <2> HIDE DEF w
  <2>4. \A h \in Heads(b) : ~InChain(ch, 0, h)
    <3> SUFFICES ASSUME NEW h \in Heads(b), NEW k \in 1 .. Len(ch[h]), ch[h][k] = 0 PROVE FALSE
      BY <1>4, LayoutGives DEF InChain
    <3>1. Runs(fat, h, ch[h])
      BY <1>4, LayoutGives
    <3>2. ch[h][k] >= ROOT_CLUSTER_NUMBER
      BY <3>1, RunsGives
    <3>3. QED
      BY <3>2, Bounds
  <2>5. \A c \in Cluster : IF \E h \in Heads(b) : InChain(ch, c, h)
                           THEN w[c] = b[c] /\ fat[c] = fat[c] ELSE ~IsDirectory(w, c)
    <3>1. ASSUME NEW c \in Cluster, \E h \in Heads(b) : InChain(ch, c, h) PROVE w[c] = b[c]
      BY <3>1, <2>3, <2>4
    <3>2. ASSUME NEW c \in Cluster, ~\E h \in Heads(b) : InChain(ch, c, h) PROVE ~IsDirectory(w, c)
      <4>1. CASE c = 0
        BY <4>1, <2>3 DEF IsDirectory, Zero
      <4>2. CASE c # 0
        <5>1. ~IsDirectory(b, c)
          BY <3>2, <1>4, <1>5, UsedGives DEF Layout, TablesGood
        <5>2. QED
          BY <5>1, <4>2, <2>3 DEF IsDirectory
      <4>3. QED
        BY <4>1, <4>2
    <3>3. QED
      BY <3>1, <3>2
  <2>6. \A c \in 0 .. ROOT_CLUSTER_NUMBER : fat[c] # 0
    BY <1>4 DEF Layout, TypesGood
  <2>7. Layout(w, fat, ch, rank) /\ \A p \in Place : EntryAt(w, p) = EntryAt(b, p)
    BY <2>3, <2>5, <2>6, <1>2, <1>4, ElsewhereKeeps
  <2>8. SelfPlace(w, fat, r) = at
    BY <2>7, <1>2, <1>5, SelfPlaceSame DEF at, SameNames
  <2>9. Doomed(Wiped(disk', job'), job')
    <3>1. Sound(w, fat)
      BY <2>7 DEF Sound
    <3>2. QED
      BY <3>1, <2>1, <2>8, <1>1, <1>7 DEF Doomed, Unlinked, w
  <2>10. Progress(job', disk', fat')
    BY <2>2, <2>9 DEF Progress
  <2>11. QED
    BY <2>2, <2>10, <1>1, <1>2, <1>5 DEF FsInv
<1>8. CASE \E p \in Used(b) : at = <<p>>
  <2>1. PICK p \in Used(b) : at = <<p>>
    BY <1>8
  <2> DEFINE n == Base(b, p)
             e == EntryAt(b, p)
  <2>2. at # << >> /\ at[1] = p /\ self = e
    BY <2>1
  <2>3. n \in Cluster /\ fat[n] \in Cluster \cup {END_OF_FILE} /\ p \in Place
    BY <1>2, <1>5, UsedGives DEF FatType
  <2>4. job' = [pc |-> IF e.directory THEN "folder" ELSE "wipe", request |-> r, fat |-> fat,
                at |-> <<p>>, self |-> n, currentCluster |-> n, marker |-> fat[n],
                below |-> << >>]
    BY <2>1, <2>2, <1>1 DEF Base
  <2> HIDE DEF n, e, self
  <2>5. job' \in DeleteJob
    BY <2>3, <2>4, <1>2 DEF DeleteJob
  <2>6. CASE e.directory
    <3>1. /\ job'.pc = "folder" /\ job'.request = r /\ job'.fat = fat /\ job'.at = <<p>>
          /\ job'.self = n /\ job'.currentCluster = n /\ job'.marker = fat[n]
      BY <2>4, <2>6
    <3>2. /\ Sound(b, fat) /\ a \in Dirs(b) /\ SelfPlace(b, fat, r) = <<p>>
      BY <1>4, <2>1 DEF Sound, at
    <3>3. <<p>> # << >> /\ <<p>>[1] = p
      OBVIOUS
    <3>4. Progress(job', disk', fat')
      BY <3>1, <3>2, <3>3, <2>6, <1>1 DEF Progress, Emptying, n, e
    <3>5. QED
      BY <3>1, <3>4, <2>5, <1>1, <1>2, <1>5 DEF FsInv
  <2>7. CASE ~e.directory
    <3>1. /\ job'.pc = "wipe" /\ job'.request = r /\ job'.fat = fat /\ job'.at = <<p>>
          /\ job'.currentCluster = n /\ job'.marker = fat[n]
      BY <2>4, <2>7
    <3>2. ASSUME fat[n] = END_OF_FILE PROVE Doomed(Wiped(b, job'), job')
      <4>1. Wiped(b, job') = [b EXCEPT ![n] = Zero]
        BY <3>1 DEF Wiped
      <4> DEFINE w == Wiped(b, job')
      <4>2. SelfPlace(b, fat, r) = <<p>>
        BY <2>1 DEF at
      <4> HIDE DEF w
      <4>3. SelfPlace(w, fat, r) = <<p>> /\ Sound(WithEntry(w, p, emptyEntry), fat)
        <5>1. n = Base(b, p) /\ ~EntryAt(b, p).directory
          BY <2>7 DEF n, e
        <5>2. w \in DiskType /\ w[n] = Zero /\ \A c \in Cluster : c # n => w[c] = b[c]
          BY <4>1, <2>3, <1>5 DEF w, DiskType, OtherType
        <5>3. QED
          BY <5>1, <5>2, <4>2, <3>2, <2>1, <1>4, WipeKeeps
      <4>4. job'.at # << >> /\ job'.at[1] = p
        BY <3>1
      <4>5. QED
        BY <4>3, <4>4, <3>1 DEF Doomed, Unlinked, w
    <3>3. Progress(job', disk', fat')
      BY <3>1, <3>2, <1>1 DEF Progress
    <3>4. QED
      BY <3>1, <3>3, <2>5, <1>1, <1>2, <1>5 DEF FsInv
  <2>8. QED
    BY <2>6, <2>7
<1>9. QED
  BY <1>6, <1>7, <1>8

\* A cluster is wiped and an entry elsewhere taken away in either order.
LEMMA WipedThenUnlinked ==
  ASSUME NEW d \in DiskType, NEW n \in Cluster, NEW p \in Place, n # p[1]
  PROVE  /\ [d EXCEPT ![n] = Zero] \in DiskType
         /\ WithEntry([d EXCEPT ![n] = Zero], p, emptyEntry) = [WithEntry(d, p, emptyEntry) EXCEPT ![n] = Zero]
<1> DEFINE w == [d EXCEPT ![n] = Zero]
           x == [d[p[1]] EXCEPT !.entry[p[2]] = emptyEntry]
<1>1. p[1] \in Cluster /\ DOMAIN d = Cluster
  BY DEF Place, DiskType
<1>2. w \in DiskType /\ w[p[1]] = d[p[1]]
  BY <1>1 DEF DiskType, OtherType
<1>3. WithEntry(w, p, emptyEntry) = [w EXCEPT ![p[1]] = x]
  BY <1>2 DEF WithEntry
<1>4. WithEntry(d, p, emptyEntry) = [d EXCEPT ![p[1]] = x]
  BY DEF WithEntry
<1> HIDE DEF x
<1>5. [w EXCEPT ![p[1]] = x] = [[d EXCEPT ![p[1]] = x] EXCEPT ![n] = Zero]
  BY <1>1
<1>6. QED
  BY <1>2, <1>3, <1>4, <1>5

LEMMA DeleteRecurseStep ==
  ASSUME FsInv, deleteRecurse
  PROVE  FsInv'
<1> DEFINE r == job.request
           a == r.parent
           f == job.fat
           top == job.at[1]
           below == NextBelow(disk, f, job.self)
           n == EntryAt(disk, below[1]).cluster_number
           b == [WithEntry(disk, below[1], emptyEntry) EXCEPT ![n] = Zero]
           g == [f EXCEPT ![n] = 0]
<1>1. /\ job \in DeleteJob /\ job.pc = "folder" /\ f \in FatType /\ disk \in DiskType
      /\ job.at \in {<< >>} \cup {<<p>> : p \in Place}
  BY JobGives DEF FsInv, deleteRecurse, DeleteJob
<1>2. /\ Sound(disk, f) /\ a \in Dirs(disk) /\ SelfPlace(disk, f, r) = job.at /\ job.at # << >>
      /\ EntryAt(disk, top).directory /\ Base(disk, top) = job.self
      /\ job.currentCluster = job.self /\ job.marker = f[job.self]
  BY <1>1 DEF FsInv, Progress, Emptying
<1>3. /\ below # << >> /\ f[n] = END_OF_FILE
      /\ b = [WithEntry(disk, below[1], emptyEntry) EXCEPT ![n] = Zero]
      /\ disk' = [disk EXCEPT ![n] = Zero] /\ fat' = fat
      /\ job' = [job EXCEPT !.pc = "below", !.fat = g, !.below = below]
  BY DEF deleteRecurse
<1>4. PICK ch, rank : Layout(disk, f, ch, rank) /\ \A h \in Cluster : rank[h] < CLUSTER_COUNT
  BY <1>2, RankIsSmall DEF Sound
<1>5. /\ a \in Heads(disk) /\ Runs(f, a, ch[a]) /\ \A q : In(ch[a], q) <=> InChain(ch, q[1], a)
      /\ rank \in [Cluster -> Nat] /\ Dirs(disk) \subseteq Cluster /\ Dirs(disk) \subseteq Heads(disk)
  BY <1>1, <1>2, <1>4, LayoutGives, UsedGives DEF Layout, TypesGood
<1>6. /\ job.at = <<top>> /\ top \in Used(disk) /\ InChain(ch, top[1], a) /\ job.self \in Dirs(disk)
      /\ rank[a] < rank[job.self]
  <2>1. PICK p \in Place : job.at = <<p>>
    BY <1>1, <1>2
  <2>2. top = p
    BY <2>1
  <2>3. EntryAt(disk, top) # emptyEntry
    <3>1. emptyEntry.directory = FALSE
      BY DEF emptyEntry
    <3>2. QED
      BY <3>1, <1>2
  <2>4. top \in Used(disk)
    BY <2>2, <2>3 DEF Used
  <2>5. Finds(ch[a], Asked(disk, r), <<p>>)
    BY <2>1, <1>1, <1>2, <1>5, SelfPlaceFinds
  <2>6. PICK q \in Place : In(ch[a], q) /\ <<p>> = <<q>>
    BY <2>5 DEF Finds
  <2>7. InChain(ch, top[1], a)
    BY <2>2, <2>6, <1>5
  <2>8. job.self \in Dirs(disk)
    BY <2>4, <1>1, <1>2, UsedGives
  <2>9. rank[a] < rank[job.self]
    BY <2>4, <2>7, <1>2, <1>4 DEF Layout, HomesGood
  <2>10. QED
    BY <2>1, <2>2, <2>4, <2>7, <2>8, <2>9
<1> HIDE DEF below
<1> DEFINE W == {h \in Dirs(disk) : rank[h] >= rank[job.self]}
<1>7. LastBelow(disk, ch, W, job.self, below)
  <2>1. job.self \in W
    BY <1>5, <1>6
  <2>2. ASSUME NEW p \in Used(disk), NEW h \in W, InChain(ch, p[1], h), EntryAt(disk, p).directory
        PROVE  Base(disk, p) \in W
    <3>1. Base(disk, p) \in Dirs(disk)
      BY <2>2, <1>1, UsedGives
    <3>2. rank[h] < rank[Base(disk, p)]
      BY <2>2, <1>4 DEF Layout, HomesGood
    <3>3. rank[h] \in Nat /\ rank[Base(disk, p)] \in Nat /\ rank[job.self] \in Nat
      BY <3>1, <1>5, <1>6
    <3>4. QED
      BY <3>1, <3>2, <3>3
  <2>3. W \in SUBSET Dirs(disk)
    OBVIOUS
  <2> HIDE DEF W
  <2>4. QED
    BY <2>1, <2>2, <2>3, <1>4, NextBelowFinds DEF below
<1>8. PICK p \in Used(disk), x \in Dirs(disk) :
        /\ below = <<p>> /\ InChain(ch, p[1], x) /\ rank[x] >= rank[job.self]
        /\ EntryAt(disk, p).directory => \A q \in Used(disk) : ~InChain(ch, q[1], Base(disk, p))
  BY <1>3, <1>7 DEF LastBelow
<1> HIDE DEF W
<1>9. below[1] = p /\ n = Base(disk, p) /\ n \in Heads(disk) /\ n \in Cluster /\ p \in Place
  BY <1>1, <1>8, UsedGives DEF Base
<1> HIDE DEF n, g, b, top
<1>10. /\ b = [WithEntry(disk, p, emptyEntry) EXCEPT ![n] = Zero]
       /\ InChain(ch, n, n) /\ IsDirectory(disk, p[1])
  BY <1>1, <1>3, <1>4, <1>8, <1>9, LayoutGives, UsedGives
<1>11. rank[a] \in Nat /\ rank[x] \in Nat /\ rank[job.self] \in Nat /\ rank[a] < rank[x]
  <2>1. rank[a] \in Nat /\ rank[x] \in Nat /\ rank[job.self] \in Nat
    BY <1>2, <1>5, <1>6, <1>8
  <2>2. QED
    BY <2>1, <1>6, <1>8
<1>12. EntryAt(disk, p).directory => \A q \in Used(disk) : q[1] # n
  BY <1>8, <1>9, <1>10
<1>13. /\ b \in DiskType /\ b[n] = Zero
       /\ \A c \in Cluster : c # n => b[c] = WithEntry(disk, p, emptyEntry)[c]
  <2> DEFINE w == WithEntry(disk, p, emptyEntry)
  <2>1. emptyEntry \in EntryType /\ Zero \in OtherType
    BY DEF EntryType, OtherType
  <2>2. w \in DiskType
    BY <2>1, <1>1, <1>9, <1>10, WithEntryGives
  <2> HIDE DEF w
  <2>3. b = [w EXCEPT ![n] = Zero]
    BY <1>10 DEF w
  <2>4. b \in DiskType /\ b[n] = Zero /\ \A c \in Cluster : c # n => b[c] = w[c]
    BY <2>1, <2>2, <2>3, <1>9 DEF DiskType
  <2>5. QED
    BY <2>4 DEF w
<1>14. g \in FatType /\ \A c \in Cluster : c # n => g[c] = f[c]
  BY <1>1, <1>9, Bounds DEF g, FatType
<1>15. f[n] = END_OF_FILE
  BY <1>3
<1>16. p # top
  <2>1. a # x
    BY <1>11
  <2>2. QED
    BY <2>1, <1>4, <1>5, <1>6, <1>8, LayoutGives
<1>17. a # n
  <2> SUFFICES ASSUME a = n PROVE FALSE
    OBVIOUS
  <2>1. EntryAt(disk, p).directory
    BY <1>2, <1>4, <1>8, <1>9, DirIsDirectory
  <2>2. rank[x] < rank[n]
    BY <2>1, <1>4, <1>8, <1>9 DEF Layout, HomesGood
  <2>3. QED
    BY <2>2, <1>11
<1>18. job.self # n
  BY <1>2, <1>4, <1>6, <1>8, <1>9, <1>16 DEF Layout, EntriesGood
<1> HIDE DEF f, r, a
<1> DEFINE ch2 == WithoutChain(ch, n)
<1>19. /\ Layout(b, g, ch2, rank) /\ Dirs(b) = Dirs(disk) \ {n} /\ Heads(b) = Heads(disk) \ {n}
  BY <1>4, <1>8, <1>9, <1>12, <1>13, <1>14, <1>15, WithoutKeeps
<1>19a. n # p[1]
  <2>1. CASE n = x
    <3>1. EntryAt(disk, p).directory
      BY <2>1, <1>4, <1>8, <1>9, DirIsDirectory
    <3>2. rank[x] < rank[n]
      BY <3>1, <1>4, <1>8, <1>9 DEF Layout, HomesGood
    <3>3. QED
      BY <3>2, <2>1, <1>11
  <2>2. CASE n # x
    BY <2>2, <1>4, <1>5, <1>8, <1>9, <1>10, LayoutGives
  <2>3. QED
    BY <2>1, <2>2
<1>20. \A q \in Place : q # p => EntryAt(b, q) = EntryAt(disk, q)
  <2>1. n # p[1]
    BY <1>19a
  <2>2. IsDirectory(disk, n) => \A q \in Used(disk) : q[1] # n
    <3> SUFFICES ASSUME IsDirectory(disk, n) PROVE EntryAt(disk, p).directory
      BY <1>12
    <3>1. PICK h \in Dirs(disk) : InChain(ch, n, h)
      BY <1>4, <1>9 DEF Layout, TablesGood
    <3>2. h = n
      BY <3>1, <1>4, <1>5, <1>9, <1>10, LayoutGives
    <3>3. QED
      BY <3>1, <3>2, <1>4, <1>8, <1>9, DirIsDirectory
  <2>3. QED
    BY <2>1, <2>2, <1>1, <1>8, <1>9, <1>13, WithoutGives
<1>21. a \in Dirs(b) /\ ch2[a] = ch[a]
  <2>1. a \in DOMAIN ch
    BY <1>4, <1>5 DEF Layout, ChainsGood
  <2>2. QED
    BY <2>1, <1>2, <1>17, <1>19 DEF WithoutChain
<1>22. SelfPlace(b, g, r) = job.at
  <2> DEFINE s == ch[a]
  <2>1. SameNames(s, disk, b)
    <3>1. ASSUME NEW q \in Place, In(s, q) PROVE q # p
      BY <3>1, <1>4, <1>5, <1>8, <1>11, LayoutGives
    <3>2. QED
      BY <3>1, <1>20 DEF SameNames
  <2>2. Runs(f, r.parent, s) /\ Runs(g, r.parent, s)
    <3>1. a \in Heads(b)
      BY <1>5, <1>17, <1>19
    <3>2. Runs(g, a, ch2[a])
      BY <3>1, <1>19, LayoutGives
    <3>3. QED
      BY <3>2, <1>5, <1>21 DEF a
  <2> HIDE DEF s
  <2>3. SelfPlace(b, g, r) = SelfPlace(disk, f, r)
    BY <2>1, <2>2, <1>1, <1>14, SelfPlaceSame
  <2>4. QED
    BY <2>3, <1>2
<1>23. top \in Place /\ EntryAt(b, top) = EntryAt(disk, top) /\ Base(b, top) = Base(disk, top)
  BY <1>6, <1>16, <1>20 DEF Used, Base
<1>24. /\ job' \in DeleteJob /\ job'.pc = "below" /\ job'.request = r /\ job'.fat = g
       /\ job'.below = <<p>> /\ job'.at = job.at /\ job'.at[1] = top /\ job'.self = job.self
       /\ job'.currentCluster = job.self /\ job'.marker = g[job.self]
  <2>1. job.self \in Cluster
    BY <1>5, <1>6
  <2>2. g[job.self] = f[job.self]
    BY <2>1, <1>14, <1>18
  <2>3. QED
    BY <2>2, <1>1, <1>2, <1>3, <1>8, <1>9, <1>14 DEF DeleteJob, r, top
<1>24a. disk' \in DiskType /\ Shrunk(disk', job') = b
  <2>1. job'.below[1] = p
    BY <1>24
  <2>2. disk' \in DiskType /\ WithEntry(disk', p, emptyEntry) = b
    <3> DEFINE w == [disk EXCEPT ![n] = Zero]
    <3>1. w \in DiskType /\ WithEntry(w, p, emptyEntry) = [WithEntry(disk, p, emptyEntry) EXCEPT ![n] = Zero]
      BY <1>1, <1>9, <1>19a, WipedThenUnlinked
    <3>2. disk' = w
      BY <1>3
    <3> HIDE DEF w
    <3>3. QED
      BY <3>1, <3>2, <1>10, Zenon
  <2>3. QED
    BY <2>1, <2>2 DEF Shrunk
<1>25. Progress(job', disk', fat')
  <2>1. Sound(b, g)
    BY <1>19 DEF Sound
  <2>2. job'.request.parent \in Dirs(b) /\ SelfPlace(b, job'.fat, job'.request) = job'.at
    BY <1>21, <1>22, <1>24 DEF a
  <2>3. /\ job'.at # << >> /\ EntryAt(b, job'.at[1]).directory /\ Base(b, job'.at[1]) = job'.self
        /\ job'.currentCluster = job'.self /\ job'.marker = job'.fat[job'.self]
    BY <1>2, <1>23, <1>24
  <2>4. Emptying(job', b)
    BY <2>1, <2>2, <2>3, <1>24 DEF Emptying
  <2>5. QED
    BY <2>4, <1>13, <1>24, <1>24a DEF Progress
<1>26. fat \in FatType /\ fat' = fat
  BY <1>3 DEF FsInv
<1>27. QED
  BY <1>24, <1>24a, <1>25, <1>26 DEF FsInv

LEMMA DeleteRecurseEntryStep ==
  ASSUME FsInv, DeleteRecurseEntry
  PROVE  FsInv'
<1>1. job \in DeleteJob /\ job.pc = "below" /\ fat \in FatType
  BY JobGives DEF FsInv, DeleteRecurseEntry
<1>2. /\ disk' = Shrunk(disk, job) /\ fat' = fat
      /\ job' = [job EXCEPT !.pc = "folder", !.below = << >>]
  BY DEF DeleteRecurseEntry, Shrunk
<1>3. Shrunk(disk, job) \in DiskType /\ Emptying(job, Shrunk(disk, job))
  BY <1>1 DEF FsInv, Progress
<1>4. /\ job' \in DeleteJob /\ job'.pc = "folder" /\ job'.request = job.request /\ job'.fat = job.fat
      /\ job'.at = job.at /\ job'.self = job.self /\ job'.currentCluster = job.currentCluster
      /\ job'.marker = job.marker
  BY <1>1, <1>2 DEF DeleteJob
<1>5. Emptying(job', disk')
  BY <1>2, <1>3, <1>4 DEF Emptying
<1>6. Progress(job', disk', fat')
  BY <1>4, <1>5 DEF Progress
<1>7. QED
  BY <1>1, <1>2, <1>3, <1>4, <1>6 DEF FsInv

LEMMA DeleteRecurseAstrayStep ==
  ASSUME FsInv, DeleteRecurseAstray
  PROVE  FsInv'
<1> DEFINE f == job.fat
           below == NextBelow(disk, f, job.self)
           c == EntryAt(disk, below[1]).cluster_number
<1>1. /\ job \in DeleteJob /\ job.pc = "folder" /\ f \in FatType /\ disk \in DiskType
  BY JobGives DEF FsInv, DeleteRecurseAstray, DeleteJob
<1>2. /\ below # << >> /\ f[c] # END_OF_FILE /\ disk' = disk /\ fat' = fat
      /\ job' = [job EXCEPT !.pc = "wipe", !.currentCluster = c, !.marker = f[c]]
  BY DEF DeleteRecurseAstray
<1>3. Sound(disk, f) /\ SelfPlace(disk, f, job.request) = job.at /\ job.at # << >>
      /\ EntryAt(disk, job.at[1]).directory /\ Base(disk, job.at[1]) = job.self
  BY <1>1 DEF FsInv, Progress, Emptying
<1>4. job.self \in Dirs(disk)
  <2>1. PICK p \in Place : job.at = <<p>>
    BY <1>1, <1>3 DEF DeleteJob
  <2>2. job.at[1] = p
    BY <2>1
  <2>3. emptyEntry.directory = FALSE
    BY DEF emptyEntry
  <2>4. p \in Used(disk)
    BY <2>2, <2>3, <1>3 DEF Used
  <2>5. QED
    BY <2>2, <2>4, <1>1, <1>3, UsedGives
<1>5. PICK ch, rank : Layout(disk, f, ch, rank) /\ \A h \in Cluster : rank[h] < CLUSTER_COUNT
  BY <1>3, RankIsSmall DEF Sound
<1>6. LastBelow(disk, ch, Dirs(disk), job.self, below)
  <2>1. \A p \in Used(disk) : EntryAt(disk, p).directory => Base(disk, p) \in Dirs(disk)
    BY <1>1, UsedGives
  <2>2. QED
    BY <2>1, <1>4, <1>5, NextBelowFinds
<1> HIDE DEF below
<1>7. PICK p \in Used(disk) : below = <<p>>
  BY <1>2, <1>6 DEF LastBelow
<1>8. c \in Cluster
  <2>1. below[1] = p
    BY <1>7
  <2>2. QED
    BY <2>1, <1>1, UsedGives DEF Base
<1> HIDE DEF c
<1>9. f[c] \in Cluster \cup {END_OF_FILE}
  BY <1>1, <1>8 DEF FatType
<1>10. job' \in DeleteJob /\ job'.pc = "wipe" /\ job'.marker # END_OF_FILE
  BY <1>1, <1>2, <1>8, <1>9 DEF DeleteJob
<1>11. Progress(job', disk', fat')
  BY <1>10 DEF Progress
<1>12. QED
  BY <1>2, <1>10, <1>11 DEF FsInv

LEMMA FolderDoneStep ==
  ASSUME FsInv, FolderDone
  PROVE  FsInv'
<1> DEFINE f == job.fat
           n == job.self
           r == job.request
           w == Wiped(disk, job')
<1>1. /\ job \in DeleteJob /\ job.pc = "folder" /\ f \in FatType /\ disk \in DiskType
  BY JobGives DEF FsInv, FolderDone, DeleteJob
<1>2. /\ NextBelow(disk, f, n) = << >> /\ disk' = disk /\ fat' = fat
      /\ job' = [job EXCEPT !.pc = "wipe"]
  BY DEF FolderDone
<1>3. /\ Sound(disk, f) /\ r.parent \in Dirs(disk)
      /\ SelfPlace(disk, f, r) = job.at /\ job.at # << >>
      /\ EntryAt(disk, job.at[1]).directory /\ Base(disk, job.at[1]) = n
      /\ job.currentCluster = n /\ job.marker = f[n]
  BY <1>1 DEF FsInv, Progress, Emptying
<1>4. PICK p \in Used(disk) : job.at = <<p>> /\ job.at[1] = p
  <2>1. PICK p \in Place : job.at = <<p>>
    BY <1>1, <1>3 DEF DeleteJob
  <2>2. job.at[1] = p
    BY <2>1
  <2>3. emptyEntry.directory = FALSE
    BY DEF emptyEntry
  <2>4. p \in Used(disk)
    BY <2>2, <2>3, <1>3 DEF Used
  <2>5. QED
    BY <2>1, <2>2, <2>4
<1>5. n \in Dirs(disk) /\ n \in Heads(disk) /\ n \in Cluster /\ n = Base(disk, p)
  BY <1>1, <1>3, <1>4, UsedGives
<1>6. PICK ch, rank : Layout(disk, f, ch, rank) /\ \A h \in Cluster : rank[h] < CLUSTER_COUNT
  BY <1>3, RankIsSmall DEF Sound
<1>7. \A q \in Used(disk) : q[1] # n
  <2>1. LastBelow(disk, ch, Dirs(disk), n, << >>)
    <3>1. \A q \in Used(disk) : EntryAt(disk, q).directory => Base(disk, q) \in Dirs(disk)
      BY <1>1, UsedGives
    <3>2. QED
      BY <3>1, <1>2, <1>5, <1>6, NextBelowFinds
  <2>2. \A q \in Used(disk) : << >> # <<q>>
    OBVIOUS
  <2>3. \A q \in Used(disk) : ~InChain(ch, q[1], n)
    BY <2>1, <2>2 DEF LastBelow
  <2>4. InChain(ch, n, n)
    BY <1>5, <1>6, LayoutGives
  <2>5. QED
    BY <2>3, <2>4
<1>8. /\ job' \in DeleteJob /\ job'.pc = "wipe" /\ job'.request = r /\ job'.fat = f
      /\ job'.at = <<p>> /\ job'.currentCluster = n /\ job'.marker = f[n]
  BY <1>1, <1>2, <1>3, <1>4 DEF DeleteJob
<1> HIDE DEF n
<1>9. w \in DiskType /\ w[n] = Zero /\ \A c \in Cluster : c # n => w[c] = disk[c]
  BY <1>1, <1>5, <1>8 DEF Wiped, DiskType, OtherType
<1> HIDE DEF w, f, r
<1>10. ASSUME f[n] = END_OF_FILE PROVE Doomed(w, job')
  <2>1. SelfPlace(disk, f, r) = <<p>>
    BY <1>3, <1>4 DEF f, r
  <2>2. r.parent \in Dirs(disk)
    BY <1>3 DEF r
  <2>3. SelfPlace(w, f, r) = <<p>> /\ Sound(WithEntry(w, p, emptyEntry), f)
    BY <2>1, <2>2, <1>5, <1>6, <1>7, <1>9, <1>10, WipeKeeps
  <2>4. <<p>> # << >> /\ <<p>>[1] = p
    OBVIOUS
  <2>5. QED
    BY <2>3, <2>4, <1>8 DEF Doomed, Unlinked
<1>11. Progress(job', disk', fat')
  BY <1>2, <1>8, <1>10 DEF Progress, w
<1>12. QED
  BY <1>1, <1>2, <1>8, <1>11 DEF FsInv

LEMMA WipeStep ==
  ASSUME FsInv, Wipe
  PROVE  FsInv'
<1>1. /\ job \in DeleteJob /\ job.pc = "wipe" /\ disk \in DiskType /\ job.currentCluster \in Cluster
      /\ job.marker \in Cluster \cup {END_OF_FILE}
  BY JobGives DEF FsInv, Wipe, DeleteJob
<1>2. /\ disk' = Wiped(disk, job) /\ fat' = fat
      /\ job' = IF job.marker = END_OF_FILE THEN [job EXCEPT !.pc = "wiped"]
                ELSE [job EXCEPT !.currentCluster = job.marker, !.marker = 0]
  BY DEF Wipe, Wiped
<1>3. disk' \in DiskType
  BY <1>1, <1>2 DEF Wiped, DiskType, OtherType
<1>4. CASE job.marker = END_OF_FILE
  <2>1. /\ job' \in DeleteJob /\ job'.pc = "wiped" /\ job'.request = job.request
        /\ job'.fat = job.fat /\ job'.at = job.at
    BY <1>1, <1>2, <1>4 DEF DeleteJob
  <2>2. Doomed(disk', job)
    BY <1>1, <1>2, <1>4 DEF FsInv, Progress
  <2>3. Doomed(disk', job')
    BY <2>1, <2>2 DEF Doomed, Unlinked
  <2>4. Progress(job', disk', fat')
    BY <2>1, <2>3 DEF Progress
  <2>5. QED
    BY <2>1, <2>4, <1>2, <1>3 DEF FsInv
<1>5. CASE job.marker # END_OF_FILE
  <2>1. job' \in DeleteJob /\ job'.pc = "wipe" /\ job'.marker # END_OF_FILE
    BY <1>1, <1>2, <1>5, Bounds DEF DeleteJob
  <2>2. Progress(job', disk', fat')
    BY <2>1 DEF Progress
  <2>3. QED
    BY <2>1, <2>2, <1>2, <1>3 DEF FsInv
<1>6. QED
  BY <1>4, <1>5

LEMMA DeleteFatStep ==
  ASSUME FsInv, DeleteFat
  PROVE  FsInv'
<1>1. job \in DeleteJob /\ job.pc = "wiped" /\ job.fat \in FatType
  BY JobGives DEF FsInv, DeleteFat, DeleteJob
<1>2. disk' = disk /\ fat' = job.fat /\ job' = [job EXCEPT !.pc = "unlink"]
  BY DEF DeleteFat
<1>3. /\ job' \in DeleteJob /\ job'.pc = "unlink" /\ job'.request = job.request
      /\ job'.fat = job.fat /\ job'.at = job.at
  BY <1>1, <1>2 DEF DeleteJob
<1>4. Doomed(disk, job)
  BY <1>1 DEF FsInv, Progress
<1>5. Doomed(disk', job')
  BY <1>2, <1>3, <1>4 DEF Doomed, Unlinked
<1>6. Progress(job', disk', fat')
  BY <1>3, <1>5 DEF Progress
<1>7. QED
  BY <1>1, <1>2, <1>3, <1>6 DEF FsInv

LEMMA DeleteEntryStep ==
  ASSUME FsInv, DeleteEntry
  PROVE  FsInv'
<1>1. job \in DeleteJob /\ job.pc = "unlink" /\ job.fat = fat
  BY JobGives DEF FsInv, DeleteEntry
<1>2. Doomed(disk, job)
  BY <1>1 DEF FsInv, Progress
<1>3. disk' = Unlinked(disk, job) /\ fat' = fat /\ job' = Idle
  BY <1>2 DEF DeleteEntry, Doomed, Unlinked
<1>4. Sound(disk', fat') /\ job'.pc = "idle"
  BY <1>1, <1>2, <1>3, JobGives DEF Doomed, FsInv
<1>5. Progress(job', disk', fat')
  BY <1>4 DEF Progress
<1>6. QED
  BY <1>3, <1>4, <1>5, SoundType DEF FsInv
-----------------------------------------------------------------------------
(* The inductive invariant *)

LEMMA FsStart ==
  ASSUME FsInit
  PROVE  FsInv
<1> DEFINE R == ROOT_CLUSTER_NUMBER
           ch == [h \in {R} |-> <<R>>]
           rank == [c \in Cluster |-> 0]
           info == Info(R, R, 0, FOLDER_SIZE)
<1>1. /\ disk = [c \in Cluster |-> IF c = 0 THEN Signature ELSE IF c = R THEN Table(info) ELSE Zero]
      /\ fat = [c \in Cluster |-> IF c \in {0, R - 1, R} THEN END_OF_FILE
                                  ELSE IF c < R THEN c + 1 ELSE 0]
      /\ job = Idle
  BY DEF FsInit
<1>2. R \in Cluster /\ R \in Nat /\ R >= 2 /\ R # 0
  BY Bounds
<1>3. info \in InfoType /\ info.parent_base_cluster = R
  BY <1>2, SizeBounds DEF Info, InfoType
<1>4. Table(info) \in TableType /\ Table(info).kind = "table" /\ Table(info).info = info
      /\ \A i \in Slot : Table(info).entry[i] = emptyEntry
  BY <1>3 DEF Table, TableType, EntryType
<1> HIDE DEF info
<1>5. disk \in DiskType
  BY <1>1, <1>4 DEF DiskType, OtherType
<1>6. \A c \in Cluster : /\ IsDirectory(disk, c) <=> c = R
                         /\ c = R => disk[c] = Table(info)
  BY <1>1, <1>2, <1>4 DEF IsDirectory, Signature, Zero
<1>7. \A p \in Place : EntryAt(disk, p) = emptyEntry
  <2> SUFFICES ASSUME NEW p \in Place PROVE EntryAt(disk, p) = emptyEntry
    OBVIOUS
  <2>1. p[1] \in Cluster /\ p[2] \in Slot
    BY DEF Place
  <2>2. QED
    BY <2>1, <1>4, <1>6 DEF EntryAt, IsDirectory
<1>8. Used(disk) = {} /\ Heads(disk) = {R} /\ Dirs(disk) = {R}
  <2>1. Used(disk) = {}
    BY <1>7 DEF Used
  <2>2. QED
    BY <2>1 DEF Heads, Dirs
<1>9. fat \in FatType /\ fat[R] = END_OF_FILE /\ \A c \in 0 .. R : fat[c] # 0
  <2>1. \A c \in Cluster : c < R => c + 1 \in Cluster /\ c + 1 # 0
    BY <1>2, Bounds DEF Cluster
  <2>2. fat \in FatType
    BY <2>1, <1>1, Bounds DEF FatType
  <2>3. \A c \in 0 .. R : c \in Cluster /\ (c < R \/ c = R)
    BY <1>2, Bounds DEF Cluster
  <2>4. \A c \in 0 .. R : fat[c] # 0
    BY <2>1, <2>3, <1>1, Bounds
  <2>5. QED
    BY <2>2, <2>4, <1>1, <1>2
<1>10. /\ DOMAIN ch = {R} /\ ch[R] = <<R>> /\ <<R>> \in Seq(Cluster) /\ Len(<<R>>) = 1 /\ <<R>> # << >>
       /\ DOMAIN <<R>> = {1} /\ <<R>>[1] = R /\ 1 .. 1 = {1}
  BY <1>2
<1> HIDE DEF ch
<1>11. Runs(fat, R, ch[R])
  BY <1>2, <1>9, <1>10 DEF Runs
<1>12. \A c : InChain(ch, c, R) <=> c = R
  BY <1>10 DEF InChain
<1>13. rank \in [Cluster -> Nat]
  OBVIOUS
<1> HIDE DEF rank
<1>14. TypesGood(disk, fat, rank)
  BY <1>5, <1>9, <1>13 DEF TypesGood
<1>15. ChainsGood(disk, fat, ch)
  BY <1>8, <1>10, <1>11 DEF ChainsGood
<1>16. TablesGood(disk, ch)
  BY <1>2, <1>3, <1>4, <1>6, <1>8, <1>10, <1>12 DEF TablesGood
<1>17. EntriesGood(disk) /\ HomesGood(disk, ch, rank) /\ NamesGood(disk, ch)
  BY <1>8 DEF EntriesGood, HomesGood, NamesGood
<1>18. Sound(disk, fat)
  BY <1>14, <1>15, <1>16, <1>17 DEF Sound, Layout
<1>19. Progress(job, disk, fat) /\ job.pc = "idle"
  BY <1>1, <1>18 DEF Progress, Idle
<1>20. QED
  BY <1>1, <1>5, <1>9, <1>19 DEF FsInv

LEMMA FsStep ==
  ASSUME FsInv, [MCNext]_<<fsVars, tree>>
  PROVE  FsInv'
<1>1. CASE UNCHANGED fsVars
  <2>1. disk' = disk /\ fat' = fat /\ job' = job
    BY <1>1 DEF fsVars
  <2>2. Progress(job, disk, fat)
    BY DEF FsInv
  <2>3. Progress(job', disk', fat')
    BY <2>1, <2>2
  <2>4. QED
    BY <2>1, <2>3 DEF FsInv
<1>2. ASSUME NEW r \in Request, WriteRefuse(r) PROVE FsInv'
  BY <1>1, <1>2 DEF WriteRefuse
<1>3. ASSUME NEW r \in Request, WriteBegin(r) PROVE FsInv'
  BY <1>3, WriteBeginStep
<1>4. ASSUME NEW r \in Request, DeleteBegin(r) PROVE FsInv'
  BY <1>4, DeleteBeginStep
<1>5. CASE WriteCluster
  BY <1>5, WriteClusterStep
<1>6. CASE CreateEntry
  BY <1>6, CreateEntryStep
<1>7. CASE ExpandFolder
  BY <1>7, ExpandFolderStep
<1>8. CASE ExpandTable
  BY <1>8, ExpandTableStep
<1>9. CASE init_directory_table
  BY <1>9, InitTableStep
<1>10. CASE WriteFat
  BY <1>10, WriteFatStep
<1>11. CASE deleteRecurse
  BY <1>11, DeleteRecurseStep
<1>12. CASE DeleteRecurseAstray
  BY <1>12, DeleteRecurseAstrayStep
<1>13. CASE FolderDone
  BY <1>13, FolderDoneStep
<1>14. CASE Wipe
  BY <1>14, WipeStep
<1>15. CASE DeleteFat
  BY <1>15, DeleteFatStep
<1>16. CASE DeleteEntry
  BY <1>16, DeleteEntryStep
<1>17. CASE DeleteRecurseEntry
  BY <1>17, DeleteRecurseEntryStep
<1>18. QED
  BY <1>1, <1>2, <1>3, <1>4, <1>5, <1>6, <1>7, <1>8, <1>9, <1>10, <1>11, <1>12, <1>13, <1>14,
     <1>15, <1>16, <1>17 DEF MCNext, FsNext

\* At every moment the disk, its table and the call in progress are in order:
\* there is a tree of chains that the disk is, or becomes when the call is done.
THEOREM FsAlwaysInOrder == MCSpec => []FsInv
<1>1. MCInit => FsInv
  BY FsStart DEF MCInit
<1>2. FsInv /\ [MCNext]_<<fsVars, tree>> => FsInv'
  BY FsStep
<1>3. QED
  BY <1>1, <1>2, PTL DEF MCSpec
-----------------------------------------------------------------------------
(* What is reached from the root *)

ShownIn(d, f, hidden, c) ==
  {at \in ToSet(Places(f, c)) : EntryAt(d, at) # emptyEntry /\ at \notin hidden}

InnerOf(d, f, hidden, c) ==
  {EntryAt(d, at).cluster_number :
     at \in {p \in ShownIn(d, f, hidden, c) : EntryAt(d, p).directory}}

\* The directories of D contain what is shown in them.
ClosedBelow(d, f, hidden, D) ==
  ROOT_CLUSTER_NUMBER \in D /\ \A c \in D : InnerOf(d, f, hidden, c) \subseteq D

\* T are the directories reached.
IsReach(d, f, hidden, T) ==
  /\ Reached(d, f, hidden) = UNION {{<<c, at>> : at \in ShownIn(d, f, hidden, c)} : c \in T}
  /\ ClosedBelow(d, f, hidden, T)
  /\ \A D \in SUBSET Cluster : ClosedBelow(d, f, hidden, D) => T \subseteq D

LEMMA ReachIs ==
  ASSUME NEW d, NEW f, NEW hidden, NEW rank \in [Cluster -> Nat],
         \A h \in Cluster : rank[h] < CLUSTER_COUNT,
         NEW D \in SUBSET Cluster, ClosedBelow(d, f, hidden, D),
         \A c \in D : \A x \in InnerOf(d, f, hidden, c) : rank[c] < rank[x]
  PROVE  \E T \in SUBSET D : IsReach(d, f, hidden, T)
<1> DEFINE N == CLUSTER_COUNT
           G == 0 .. N
           R == ROOT_CLUSTER_NUMBER
           V == SUBSET D
           Inner(c) == InnerOf(d, f, hidden, c)
           Next1(T) == UNION {{c} \cup Inner(c) : c \in T}
           step == [x \in (1 .. N) \X V |-> Next1(x[2])]
           upto[n \in G] == IF n = 0 THEN {R} ELSE Next1(upto[n - 1])
<1>1. N \in Nat /\ N >= 3 /\ {R} \in V /\ \A T \in V : Next1(T) \in V
  <2>1. \A T \in V : Next1(T) \in V
    BY DEF ClosedBelow
  <2>2. QED
    BY <2>1, Bounds DEF ClosedBelow
<1>2. Reached(d, f, hidden) = UNION {{<<c, at>> : at \in ShownIn(d, f, hidden, c)} : c \in upto[N]}
  BY DEF Reached, ShownIn, InnerOf, upto, Next1, Inner, N
<1> HIDE DEF N, Next1, V
<1>3. \A k \in 1 .. N, T \in V : step[<<k, T>>] = Next1(T)
  OBVIOUS
<1>4. Turns(N, V, {R}, step)
  BY <1>1 DEF Turns
<1> HIDE DEF step
<1>5. PICK x \in [G -> V] : Counts(x, N, {R}, step)
  BY <1>4, RecursionDown
<1>6. \A n \in G : x[n] = IF n = 0 THEN {R} ELSE Next1(x[n - 1])
  <2>1. ASSUME NEW n \in G, n # 0 PROVE x[n] = Next1(x[n - 1])
    <3>1. n \in 1 .. N /\ n - 1 \in G
      BY <2>1, <1>1
    <3>2. x[n - 1] \in V
      BY <3>1
    <3>3. x[n] = step[<<n, x[n - 1]>>]
      BY <3>1, <1>5 DEF Counts
    <3>4. QED
      BY <3>1, <3>2, <3>3, <1>3
  <2>2. x[0] = {R}
    BY <1>5 DEF Counts
  <2>3. QED
    BY <2>1, <2>2
<1>7. x = [n \in G |-> IF n = 0 THEN {R} ELSE Next1(x[n - 1])]
  BY <1>6
<1>8. upto = x
  <2>1. upto = CHOOSE y : y = [n \in G |-> IF n = 0 THEN {R} ELSE Next1(y[n - 1])]
    BY DEF upto
  <2>2. upto = [n \in G |-> IF n = 0 THEN {R} ELSE Next1(upto[n - 1])]
    BY <1>7, <2>1
  <2>3. \A n \in G : upto[n] = IF n = 0 THEN {R} ELSE Next1(upto[n - 1])
    BY <2>2
  <2> HIDE DEF upto
  <2> DEFINE S == {n \in G : upto[n] = x[n]}
  <2>4. 0 \in S
    <3>1. 0 \in G
      BY <1>1
    <3>2. upto[0] = {R} /\ x[0] = {R}
      BY <3>1, <2>3, <1>6
    <3>3. QED
      BY <3>1, <3>2
  <2>5. ASSUME NEW k \in 0 .. N, k < N, k \in S PROVE k + 1 \in S
    <3>1. k + 1 \in G /\ k + 1 # 0 /\ (k + 1) - 1 = k
      BY <2>5, <1>1
    <3>2. QED
      BY <3>1, <2>3, <2>5, <1>6
  <2> HIDE DEF S
  <2>6. 0 .. N \subseteq S
    BY <2>4, <2>5, <1>1, RangeInSet
  <2>7. QED
    BY <2>2, <2>6 DEF S
<1> HIDE DEF upto
<1>9. \A n \in G : x[n] \in V
  OBVIOUS
<1>10. x[0] = {R} /\ \A k \in 0 .. N : k < N => k + 1 \in G /\ x[k + 1] = Next1(x[k])
  <2>1. ASSUME NEW k \in 0 .. N, k < N PROVE k + 1 \in G /\ x[k + 1] = Next1(x[k])
    <3>1. k + 1 \in G /\ k + 1 # 0 /\ (k + 1) - 1 = k
      BY <2>1, <1>1
    <3>2. QED
      BY <3>1, <1>6
  <2>2. QED
    BY <2>1, <1>1, <1>6
<1>11. \A T \in V : \A c \in T : c \in Next1(T) /\ Inner(c) \subseteq Next1(T)
  BY DEF Next1
<1>12. \A T \in V : \A y \in Next1(T) : \E c \in T : y = c \/ y \in Inner(c)
  BY DEF Next1
<1> HIDE DEF Inner
<1>13. \A n \in G : R \in x[n]
  <2> DEFINE S == {n \in G : R \in x[n]}
  <2>1. 0 \in S
    BY <1>1, <1>10
  <2>2. ASSUME NEW k \in 0 .. N, k < N, k \in S PROVE k + 1 \in S
    BY <2>2, <1>9, <1>10, <1>11
  <2> HIDE DEF S
  <2>3. 0 .. N \subseteq S
    BY <2>1, <2>2, <1>1, RangeInSet
  <2>4. QED
    BY <2>3 DEF S
<1>14. \A n \in G : \A y \in x[n] : \A m \in G : m >= rank[y] => y \in x[m]
  <2> DEFINE Early(n) == \A y \in x[n] : \A m \in G : m >= rank[y] => y \in x[m]
             S == {n \in G : Early(n)}
  <2>1. 0 \in S
    BY <1>1, <1>10, <1>13
  <2>2. ASSUME NEW k \in 0 .. N, k < N, k \in S PROVE k + 1 \in S
    <3> SUFFICES ASSUME NEW y \in x[k + 1], NEW m \in G, m >= rank[y] PROVE y \in x[m]
      BY <2>2, <1>10
    <3>1. PICK c \in x[k] : y = c \/ y \in Inner(c)
      BY <2>2, <1>9, <1>10, <1>12
    <3>2. CASE y = c
      BY <3>2, <2>2
    <3>3. CASE y \in Inner(c)
      <4>1. c \in D /\ c \in Cluster /\ y \in D /\ y \in Cluster /\ rank[c] < rank[y]
        BY <3>3, <1>9 DEF V, Inner, ClosedBelow
      <4>2. m - 1 \in G /\ m - 1 >= rank[c] /\ m - 1 < N /\ (m - 1) + 1 = m
        BY <4>1, <1>1
      <4>3. c \in x[m - 1]
        BY <4>2, <2>2
      <4>4. QED
        BY <4>2, <4>3, <3>3, <1>9, <1>10, <1>11
    <3>4. QED
      BY <3>1, <3>2, <3>3
  <2> HIDE DEF S
  <2>3. 0 .. N \subseteq S
    BY <2>1, <2>2, <1>1, RangeInSet
  <2>4. QED
    BY <2>3 DEF S
<1>15. ASSUME NEW E \in SUBSET Cluster, ClosedBelow(d, f, hidden, E) PROVE \A n \in G : x[n] \subseteq E
  <2> DEFINE S == {n \in G : x[n] \subseteq E}
  <2>1. 0 \in S
    BY <1>1, <1>10, <1>15 DEF ClosedBelow
  <2>2. ASSUME NEW k \in 0 .. N, k < N, k \in S PROVE k + 1 \in S
    <3>1. \A y \in x[k + 1] : y \in E
      BY <2>2, <1>9, <1>10, <1>12, <1>15 DEF ClosedBelow, Inner
    <3>2. QED
      BY <3>1, <2>2, <1>10
  <2> HIDE DEF S
  <2>3. 0 .. N \subseteq S
    BY <2>1, <2>2, <1>1, RangeInSet
  <2>4. QED
    BY <2>3 DEF S
<1>16. N \in G /\ N - 1 \in G /\ N - 1 < N /\ (N - 1) + 1 = N
  BY <1>1
<1>17. ClosedBelow(d, f, hidden, x[N])
  <2>1. ASSUME NEW c \in x[N], NEW y \in Inner(c) PROVE y \in x[N]
    <3>1. c \in D /\ c \in Cluster /\ rank[c] < N /\ rank[c] \in Nat /\ rank[c] < rank[y] /\ y \in Cluster /\ rank[y] < N
      BY <1>9, <1>16, <2>1 DEF V, Inner, N, ClosedBelow
    <3>2. N - 1 >= rank[c]
      BY <3>1, <1>1
    <3>3. c \in x[N - 1]
      BY <3>2, <1>14, <1>16
    <3>4. QED
      BY <3>3, <2>1, <1>9, <1>10, <1>11, <1>16
  <2>2. QED
    BY <2>1, <1>13, <1>16 DEF ClosedBelow, Inner
<1>18. QED
  <2>1. x[N] \in SUBSET D
    BY <1>9, <1>16 DEF V
  <2>2. IsReach(d, f, hidden, x[N])
    BY <1>2, <1>8, <1>15, <1>16, <1>17 DEF IsReach
  <2>3. QED
    BY <2>1, <2>2

\* What is shown in a directory, and where it is.
LEMMA ShownIs ==
  ASSUME NEW d, NEW f, NEW ch, NEW rank, Layout(d, f, ch, rank), NEW hidden, NEW c \in Dirs(d)
  PROVE  /\ ShownIn(d, f, hidden, c) = {p \in Used(d) : InChain(ch, p[1], c) /\ p \notin hidden}
         /\ \A x \in InnerOf(d, f, hidden, c) : \E p \in Used(d) :
              /\ InChain(ch, p[1], c) /\ p \notin hidden /\ EntryAt(d, p).directory
              /\ x = Base(d, p) /\ x \in Dirs(d) /\ rank[c] < rank[x]
<1>1. /\ d \in DiskType /\ f \in FatType /\ c \in Heads(d)
      /\ Runs(f, c, ch[c]) /\ \A p : In(ch[c], p) <=> InChain(ch, p[1], c)
  BY LayoutGives, UsedGives
<1>2. /\ \A k \in DOMAIN Places(f, c) : Places(f, c)[k] \in Place /\ In(ch[c], Places(f, c)[k])
      /\ \A p \in Place : In(ch[c], p) => \E k \in DOMAIN Places(f, c) : Places(f, c)[k] = p
  BY <1>1, PlacesGive
<1>3. \A p : p \in ToSet(Places(f, c)) <=> p \in Place /\ InChain(ch, p[1], c)
  BY <1>1, <1>2 DEF ToSet
<1>4. ShownIn(d, f, hidden, c) = {p \in Used(d) : InChain(ch, p[1], c) /\ p \notin hidden}
  BY <1>3 DEF ShownIn, Used
<1>5. ASSUME NEW x \in InnerOf(d, f, hidden, c)
      PROVE  \E p \in Used(d) :
              /\ InChain(ch, p[1], c) /\ p \notin hidden /\ EntryAt(d, p).directory
              /\ x = Base(d, p) /\ x \in Dirs(d) /\ rank[c] < rank[x]
  <2>1. PICK p \in ShownIn(d, f, hidden, c) : EntryAt(d, p).directory /\ x = Base(d, p)
    BY DEF InnerOf, Base
  <2>2. p \in Used(d) /\ InChain(ch, p[1], c) /\ p \notin hidden
    BY <1>4
  <2>3. x \in Dirs(d)
    BY <2>1, <2>2, <1>1, UsedGives
  <2>4. rank[c] < rank[x]
    BY <2>1, <2>2 DEF Layout, HomesGood
  <2>5. QED
    BY <2>1, <2>2, <2>3, <2>4
<1>6. QED
  BY <1>4, <1>5

LEMMA ReachLayout ==
  ASSUME NEW d, NEW f, NEW ch, NEW rank, Layout(d, f, ch, rank), NEW hidden
  PROVE  \E T \in SUBSET Dirs(d) : IsReach(d, f, hidden, T)
<1>1. PICK small : Layout(d, f, ch, small) /\ \A h \in Cluster : small[h] < CLUSTER_COUNT
  BY RankIsSmall
<1>2. d \in DiskType /\ small \in [Cluster -> Nat]
  BY <1>1 DEF Layout, TypesGood
<1>3. Dirs(d) \in SUBSET Cluster /\ ROOT_CLUSTER_NUMBER \in Dirs(d)
  BY <1>2, UsedGives
<1>4. \A c \in Dirs(d) : \A x \in InnerOf(d, f, hidden, c) : x \in Dirs(d) /\ small[c] < small[x]
  BY <1>1, ShownIs
<1>5. ClosedBelow(d, f, hidden, Dirs(d))
  BY <1>3, <1>4 DEF ClosedBelow
<1>6. QED
  BY <1>1, <1>2, <1>3, <1>4, <1>5, ReachIs

LEMMA ReachedAre ==
  ASSUME NEW d, NEW f, NEW ch, NEW rank, Layout(d, f, ch, rank), NEW hidden
  PROVE  \A z \in Reached(d, f, hidden) :
           /\ z = <<z[1], z[2]>> /\ z[1] \in Dirs(d) /\ z[2] \in Used(d) /\ InChain(ch, z[2][1], z[1])
           /\ z[2] \notin hidden
<1>1. PICK T \in SUBSET Dirs(d) : IsReach(d, f, hidden, T)
  BY ReachLayout
<1>2. ASSUME NEW c \in T, NEW p \in ShownIn(d, f, hidden, c)
      PROVE  c \in Dirs(d) /\ p \in Used(d) /\ InChain(ch, p[1], c) /\ p \notin hidden
  BY ShownIs
<1>3. ASSUME NEW z \in Reached(d, f, hidden)
      PROVE  /\ z = <<z[1], z[2]>> /\ z[1] \in Dirs(d) /\ z[2] \in Used(d) /\ InChain(ch, z[2][1], z[1])
             /\ z[2] \notin hidden
  <2>1. PICK c \in T : z \in {<<c, p>> : p \in ShownIn(d, f, hidden, c)}
    BY <1>1 DEF IsReach
  <2>2. PICK p \in ShownIn(d, f, hidden, c) : z = <<c, p>>
    BY <2>1
  <2>3. QED
    BY <2>2, <1>2
<1>4. QED
  BY <1>3
-----------------------------------------------------------------------------
(* Theorems *)

LEMMA IdleGives ==
  ASSUME FsInv, job = Idle
  PROVE  \E ch, rank : Layout(disk, fat, ch, rank)
<1>1. job.pc = "idle"
  BY JobGives DEF FsInv
<1>2. QED
  BY <1>1 DEF FsInv, Progress, Sound

LEMMA TypesHold == FsInv => FsTypeOK
<1> SUFFICES ASSUME FsInv PROVE FsTypeOK
  OBVIOUS
<1>1. disk \in DiskType /\ fat \in FatType
  BY DEF FsInv
<1>2. ASSUME NEW c \in Cluster, IsDirectory(disk, c)
      PROVE  /\ disk[c].info \in [parent_base_cluster : Cluster, parent_actual_cluster : Cluster,
                                  entry_number : Slot, size : 0 .. SIZE_LIMIT - 1]
             /\ \A i \in Slot : disk[c].entry[i] \in EntryType
  BY <1>1, <1>2, DiskGives DEF TableType, InfoType, Size
<1>3. EntryType \subseteq
        {emptyEntry} \cup [name : Names, ext : Exts \cup {NoExt}, directory : BOOLEAN,
                           cluster_number : Cluster, size : 0 .. SIZE_LIMIT - 1]
  <2>1. FileSizes \subseteq 0 .. SIZE_LIMIT - 1
    BY SizeBounds DEF Size
  <2>2. QED
    BY <2>1 DEF EntryType, Size
<1>4. QED
  BY <1>1, <1>2, <1>3 DEF FsTypeOK, FatType

\* Tables and markers hold clusters, whatever call is in progress.
THEOREM FsTypes == MCSpec => []FsTypeOK
BY FsAlwaysInOrder, TypesHold, PTL

LEMMA EntriesHold == FsInv => DirectoriesKnowTheirEntry
<1> SUFFICES ASSUME FsInv, job = Idle, NEW z \in Reached(disk, fat, {}),
                    EntryAt(disk, z[2]).directory,
                    NEW c \in Clusters(fat, EntryAt(disk, z[2]).cluster_number)
             PROVE  disk[c].info = Info(z[1], z[2][1], z[2][2], EntryAt(disk, z[2]).size)
  BY DEF DirectoriesKnowTheirEntry
<1> DEFINE p == z[2]
<1>1. PICK ch, rank : Layout(disk, fat, ch, rank)
  BY IdleGives
<1>2. z[1] \in Dirs(disk) /\ p \in Used(disk) /\ InChain(ch, p[1], z[1])
  BY <1>1, ReachedAre
<1>3. Placed(disk, ch, p, z[1])
  BY <1>1, <1>2 DEF Layout, HomesGood
<1>4. Base(disk, p) \in Heads(disk)
  BY <1>1, <1>2, LayoutGives, UsedGives
<1>5. Chain(fat, Base(disk, p)) = ch[Base(disk, p)]
  BY <1>1, <1>4, LayoutGives
<1>6. PICK k \in DOMAIN ch[Base(disk, p)] : c = ch[Base(disk, p)][k]
  BY <1>5 DEF Clusters, ToSet, Base
<1>7. QED
  BY <1>3, <1>6 DEF Placed

\* Between calls every cluster of a directory knows where its entry is, and
\* its size.
THEOREM FsEntries == MCSpec => []DirectoriesKnowTheirEntry
BY FsAlwaysInOrder, EntriesHold, PTL

LEMMA ChainsHold == FsInv => ChainsDisjoint
<1> SUFFICES ASSUME FsInv, job = Idle PROVE ChainsDisjoint
  BY DEF ChainsDisjoint
<1> DEFINE Z == Reached(disk, fat, {})
           entries == {EntryAt(disk, p[2]) : p \in Z}
           starts == {e.cluster_number : e \in entries} \cup {ROOT_CLUSTER_NUMBER}
           B == {Base(disk, z[2]) : z \in Z}
           m == [z \in Z |-> Base(disk, z[2])]
<1>1. PICK ch, rank : Layout(disk, fat, ch, rank)
  BY IdleGives
<1>2. \A z \in Z : z = <<z[1], z[2]>> /\ z[1] \in Dirs(disk) /\ z[2] \in Used(disk) /\ InChain(ch, z[2][1], z[1])
  BY <1>1, ReachedAre
<1> HIDE DEF Z
<1>3. /\ disk \in DiskType /\ Dirs(disk) \subseteq Heads(disk) /\ Heads(disk) \subseteq Cluster
      /\ \A p \in Used(disk) : Base(disk, p) \in Heads(disk) /\ Base(disk, p) # ROOT_CLUSTER_NUMBER
      /\ ROOT_CLUSTER_NUMBER \in Heads(disk)
  BY <1>1, LayoutGives, UsedGives DEF Layout, EntriesGood
<1>4. starts = B \cup {ROOT_CLUSTER_NUMBER} /\ starts \subseteq Heads(disk) /\ ROOT_CLUSTER_NUMBER \notin B
  <2>1. {e.cluster_number : e \in entries} = B
    BY DEF Base
  <2>2. B \subseteq Heads(disk) /\ ROOT_CLUSTER_NUMBER \notin B
    BY <1>2, <1>3
  <2>3. QED
    BY <2>1, <2>2, <1>3
<1>5. \A y, z \in Z : m[y] = m[z] => y = z
  <2> SUFFICES ASSUME NEW y \in Z, NEW z \in Z, Base(disk, y[2]) = Base(disk, z[2]) PROVE y = z
    OBVIOUS
  <2>1. y[2] = z[2]
    BY <1>1, <1>2 DEF Layout, EntriesGood
  <2>2. y[1] = z[1]
    BY <2>1, <1>1, <1>2, <1>3, LayoutGives
  <2>3. QED
    BY <2>1, <2>2, <1>2
<1>6. Cardinality(starts) = Cardinality(Z) + 1
  <2>1. m \in [Z -> B] /\ \A t \in B : \E z \in Z : m[z] = t
    OBVIOUS
  <2> HIDE DEF m, B
  <2>2. m \in Bijection(Z, B)
    BY <2>1, <1>5, Fun_IsBij
  <2>3. m \in Injection(Z, B) /\ m \in Surjection(Z, B)
    BY <2>2, Fun_BijectionProperties
  <2>4. B \subseteq Cluster
    BY <1>3, <1>4
  <2>5. IsFiniteSet(B)
    BY <2>4, ClustersAreFew
  <2>6. IsFiniteSet(Z) /\ Cardinality(Z) = Cardinality(B)
    BY <2>3, <2>5, FS_Injection
  <2>7. Cardinality(B \cup {ROOT_CLUSTER_NUMBER}) = Cardinality(B) + 1
    BY <2>5, <1>4, FS_AddElement
  <2>8. QED
    BY <2>6, <2>7, <1>4
<1>7. \A h \in Heads(disk) : /\ Runs(fat, h, ch[h]) /\ Chain(fat, h) = ch[h]
                             /\ \A c \in Clusters(fat, h) : InChain(ch, c, h)
  <2>1. \A h \in Heads(disk) : Runs(fat, h, ch[h]) /\ Chain(fat, h) = ch[h]
    BY <1>1, LayoutGives
  <2>2. QED
    BY <2>1 DEF Clusters, ToSet, InChain
<1>8. \A c, b \in starts : c # b => Clusters(fat, c) \cap Clusters(fat, b) = {}
  <2> SUFFICES ASSUME NEW c \in Heads(disk), NEW b \in Heads(disk), c # b,
                      NEW x \in Clusters(fat, c), x \in Clusters(fat, b)
               PROVE  FALSE
    BY <1>4
  <2>1. InChain(ch, x, c) /\ InChain(ch, x, b)
    BY <1>7
  <2>2. QED
    BY <2>1, <1>1, LayoutGives
<1>9. \A c \in starts : \A b \in Clusters(fat, c) : b >= ROOT_CLUSTER_NUMBER /\ fat[b] # 0
  <2> SUFFICES ASSUME NEW c \in Heads(disk), NEW b \in Clusters(fat, c)
               PROVE  b >= ROOT_CLUSTER_NUMBER /\ fat[b] # 0
    BY <1>4
  <2>1. Runs(fat, c, ch[c])
    BY <1>7
  <2>2. PICK k \in 1 .. Len(ch[c]) : ch[c][k] = b
    BY <2>1, <1>7, RunsGives DEF InChain
  <2>3. QED
    BY <2>1, <2>2, RunsGives, RunsTaken
<1>10. \A e \in entries : ~e.directory =>
         Len(Chain(fat, e.cluster_number)) = (e.size + CLUSTER_SIZE - 1) \div CLUSTER_SIZE
  <2> SUFFICES ASSUME NEW z \in Z, ~EntryAt(disk, z[2]).directory
               PROVE  Len(Chain(fat, Base(disk, z[2]))) = (EntryAt(disk, z[2]).size + CLUSTER_SIZE - 1) \div CLUSTER_SIZE
    BY DEF Base
  <2>1. Stored(disk, ch, z[2], z[1])
    BY <1>1, <1>2 DEF Layout, HomesGood
  <2>2. Chain(fat, Base(disk, z[2])) = ch[Base(disk, z[2])]
    BY <1>2, <1>3, <1>7
  <2>3. QED
    BY <2>1, <2>2 DEF Stored
<1> HIDE DEF starts, entries
<1>11. QED
  BY <1>6, <1>8, <1>9, <1>10 DEF ChainsDisjoint, starts, entries, Z

\* Between calls the chains of all files and directories end, have the length
\* their sizes ask for, and share no cluster.
THEOREM FsChains == MCSpec => []ChainsDisjoint
BY FsAlwaysInOrder, ChainsHold, PTL
-----------------------------------------------------------------------------
(* The tree that the disk reads as *)

\* The tree read when the places of hidden are left out.
Reading(d, f, hidden) ==
  LET shown  == Reached(d, f, hidden)
      Key(p) == KeyOf(p[1], EntryAt(d, p[2]))
  IN  [k \in {Key(p) : p \in shown} |->
         NodeOf(d, f, EntryAt(d, (CHOOSE p \in shown : Key(p) = k)[2]))]

\* Of the directories T, the place p is shown in c.
Leads(d, ch, hidden, T, c, p) ==
  c \in T /\ p \in Used(d) /\ InChain(ch, p[1], c) /\ p \notin hidden

\* The tree t has what is shown in them, and nothing else.
Shows(d, f, ch, hidden, T, t) ==
  /\ \A c, p : Leads(d, ch, hidden, T, c, p) =>
       /\ KeyOf(c, EntryAt(d, p)) \in DOMAIN t
       /\ t[KeyOf(c, EntryAt(d, p))] = NodeOf(d, f, EntryAt(d, p))
       /\ EntryAt(d, p).directory => Base(d, p) \in T
  /\ \A k \in DOMAIN t :
       \E c, p : Leads(d, ch, hidden, T, c, p) /\ k = KeyOf(c, EntryAt(d, p))
  /\ t = [k \in DOMAIN t |-> t[k]]

\* What is shown in the directories T has keys of its own.
KeysApart(d, f, hidden, T) ==
  \A c, b \in T : \A p \in ShownIn(d, f, hidden, c), q \in ShownIn(d, f, hidden, b) :
    KeyOf(c, EntryAt(d, p)) = KeyOf(b, EntryAt(d, q)) => c = b /\ p = q

\* The tree t has the nodes of what is shown in the directories T.
Lists(d, f, hidden, T, t) ==
  /\ \A c \in T : \A p \in ShownIn(d, f, hidden, c) :
       /\ KeyOf(c, EntryAt(d, p)) \in DOMAIN t
       /\ t[KeyOf(c, EntryAt(d, p))] = NodeOf(d, f, EntryAt(d, p))
  /\ \A k \in DOMAIN t :
       \E c \in T : \E p \in ShownIn(d, f, hidden, c) : k = KeyOf(c, EntryAt(d, p))
  /\ t = [k \in DOMAIN t |-> t[k]]

LEMMA ReadingLists ==
  ASSUME NEW d, NEW f, NEW hidden, NEW T, IsReach(d, f, hidden, T), KeysApart(d, f, hidden, T)
  PROVE  Lists(d, f, hidden, T, Reading(d, f, hidden))
<1> DEFINE Z == Reached(d, f, hidden)
           Key(z) == KeyOf(z[1], EntryAt(d, z[2]))
           tr == Reading(d, f, hidden)
           In2(c) == ShownIn(d, f, hidden, c)
<1>1. \A z \in Z : z = <<z[1], z[2]>> /\ z[1] \in T /\ z[2] \in In2(z[1])
  <2> SUFFICES ASSUME NEW z \in Z PROVE z = <<z[1], z[2]>> /\ z[1] \in T /\ z[2] \in In2(z[1])
    OBVIOUS
  <2>1. PICK c \in T : z \in {<<c, p>> : p \in In2(c)}
    BY DEF IsReach
  <2> HIDE DEF In2, Z
  <2>2. PICK p \in In2(c) : z = <<c, p>>
    BY <2>1
  <2>3. QED
    BY <2>2
<1>2. \A c \in T : \A p \in In2(c) : <<c, p>> \in Z
  BY DEF IsReach
<1>3. tr = [k \in {Key(z) : z \in Z} |-> NodeOf(d, f, EntryAt(d, (CHOOSE z \in Z : Key(z) = k)[2]))]
  BY DEF Reading
<1>4. \A y, z \in Z : Key(y) = Key(z) => y = z
  <2> SUFFICES ASSUME NEW y \in Z, NEW z \in Z, Key(y) = Key(z) PROVE y = z
    OBVIOUS
  <2>1. y[1] = z[1] /\ y[2] = z[2]
    BY <1>1 DEF KeysApart
  <2>2. QED
    BY <2>1, <1>1
<1> HIDE DEF Z, tr, In2
<1>5. \A z \in Z : Key(z) \in DOMAIN tr /\ tr[Key(z)] = NodeOf(d, f, EntryAt(d, z[2]))
  <2> SUFFICES ASSUME NEW z \in Z
               PROVE  Key(z) \in DOMAIN tr /\ tr[Key(z)] = NodeOf(d, f, EntryAt(d, z[2]))
    OBVIOUS
  <2> DEFINE y == CHOOSE x \in Z : Key(x) = Key(z)
  <2>1. y \in Z /\ Key(y) = Key(z)
    OBVIOUS
  <2>2. y = z
    <3> HIDE DEF y, Key
    <3>1. QED
      BY <2>1, <1>4
  <2>3. Key(z) \in {Key(x) : x \in Z}
    OBVIOUS
  <2>4. Key(z) \in DOMAIN tr /\ tr[Key(z)] = NodeOf(d, f, EntryAt(d, y[2]))
    BY <2>3, <1>3
  <2> HIDE DEF y, Key
  <2>5. QED
    BY <2>2, <2>4
<1>6. DOMAIN tr = {Key(z) : z \in Z}
  BY <1>3
<1>7. ASSUME NEW c \in T, NEW p \in In2(c)
      PROVE  /\ KeyOf(c, EntryAt(d, p)) \in DOMAIN tr
             /\ tr[KeyOf(c, EntryAt(d, p))] = NodeOf(d, f, EntryAt(d, p))
  <2>1. <<c, p>> \in Z /\ Key(<<c, p>>) = KeyOf(c, EntryAt(d, p))
    BY <1>2
  <2>2. tr[Key(<<c, p>>)] = NodeOf(d, f, EntryAt(d, p)) /\ Key(<<c, p>>) \in DOMAIN tr
    BY <2>1, <1>5
  <2>3. QED
    BY <2>1, <2>2
<1>8. ASSUME NEW k \in DOMAIN tr PROVE \E c \in T : \E p \in In2(c) : k = KeyOf(c, EntryAt(d, p))
  <2>1. PICK z \in Z : k = Key(z)
    BY <1>6
  <2>2. z[1] \in T /\ z[2] \in In2(z[1])
    BY <1>1
  <2>3. QED
    BY <2>1, <2>2
<1>9. tr = [k \in DOMAIN tr |-> tr[k]]
  BY <1>3
<1>10. QED
  BY <1>7, <1>8, <1>9 DEF Lists, tr, In2

LEMMA LayoutApart ==
  ASSUME NEW d, NEW f, NEW ch, NEW rank, Layout(d, f, ch, rank), NEW hidden,
         NEW T \in SUBSET Dirs(d)
  PROVE  KeysApart(d, f, hidden, T)
<1> SUFFICES ASSUME NEW c \in T, NEW b \in T, NEW p \in ShownIn(d, f, hidden, c),
                    NEW q \in ShownIn(d, f, hidden, b),
                    KeyOf(c, EntryAt(d, p)) = KeyOf(b, EntryAt(d, q))
             PROVE  c = b /\ p = q
  BY DEF KeysApart
<1>1. p \in Used(d) /\ InChain(ch, p[1], c) /\ q \in Used(d) /\ InChain(ch, q[1], b)
  BY ShownIs
<1>2. /\ c = b /\ EntryAt(d, p).name = EntryAt(d, q).name /\ EntryAt(d, p).ext = EntryAt(d, q).ext
  BY DEF KeyOf
<1>3. QED
  BY <1>1, <1>2 DEF Layout, NamesGood

LEMMA ReadingGives ==
  ASSUME NEW d, NEW f, NEW ch, NEW rank, Layout(d, f, ch, rank), NEW hidden,
         NEW T \in SUBSET Dirs(d), IsReach(d, f, hidden, T)
  PROVE  Shows(d, f, ch, hidden, T, Reading(d, f, hidden))
<1> DEFINE t == Reading(d, f, hidden)
<1>1. Lists(d, f, hidden, T, t)
  BY LayoutApart, ReadingLists
<1> HIDE DEF t
<1>2. \A c, p : Leads(d, ch, hidden, T, c, p) <=> c \in T /\ p \in ShownIn(d, f, hidden, c)
  BY ShownIs DEF Leads
<1>3. ASSUME NEW c, NEW p, Leads(d, ch, hidden, T, c, p), EntryAt(d, p).directory PROVE Base(d, p) \in T
  <2>1. c \in T /\ Base(d, p) \in InnerOf(d, f, hidden, c)
    BY <1>2, <1>3 DEF InnerOf, Base
  <2>2. QED
    BY <2>1 DEF IsReach, ClosedBelow
<1>4. QED
  BY <1>1, <1>2, <1>3 DEF Shows, Lists, t

LEMMA TreeGives ==
  ASSUME NEW d, NEW f, NEW ch, NEW rank, Layout(d, f, ch, rank), NEW j,
         NEW T \in SUBSET Dirs(d), IsReach(d, f, Hidden(j), T)
  PROVE  Shows(d, f, ch, Hidden(j), T, TreeOn(d, f, j))
<1>1. TreeOn(d, f, j) = Reading(d, f, Hidden(j))
  BY DEF TreeOn, Reading
<1>2. QED
  BY <1>1, ReadingGives
-----------------------------------------------------------------------------
(* Reading by name *)

LEMMA NotLess == \A c \in Cluster : c >= 2 <=> ~(c < 2)
BY Bounds

\* What reading finds in a directory that is there.
LEMMA FoundIn ==
  ASSUME NEW d, NEW f, NEW ch, NEW rank, Layout(d, f, ch, rank), NEW r, r.parent \in Dirs(d)
  PROVE  /\ r.parent \in Cluster /\ r.parent >= 2 /\ IsDirectory(d, r.parent)
         /\ name_exists(d, f, r) <=> \E p \in Named(d, r) : InChain(ch, p[1], r.parent)
         /\ \/ SelfPlace(d, f, r) = << >> /\ \A p \in Asked(d, r) : ~InChain(ch, p[1], r.parent)
            \/ \E p \in Asked(d, r) : InChain(ch, p[1], r.parent) /\ SelfPlace(d, f, r) = <<p>>
<1> DEFINE c == r.parent
<1>1. /\ d \in DiskType /\ f \in FatType /\ c \in Heads(d)
      /\ Runs(f, c, ch[c]) /\ InChain(ch, c, c) /\ \A p : In(ch[c], p) <=> InChain(ch, p[1], c)
  BY LayoutGives, UsedGives
<1>2. c \in Cluster /\ c >= 2
  <2>1. /\ Len(ch[c]) >= 1 /\ Len(ch[c]) \in Nat /\ ch[c][1] = c
        /\ \A k \in 1 .. Len(ch[c]) : ch[c][k] \in Cluster /\ ch[c][k] >= ROOT_CLUSTER_NUMBER
    BY <1>1, RunsGives
  <2>2. c \in Cluster /\ c >= ROOT_CLUSTER_NUMBER
    BY <2>1
  <2> HIDE DEF c
  <2>3. QED
    BY <2>2, Bounds
<1>3. IsDirectory(d, c)
  BY <1>1, <1>2 DEF Layout, TablesGood
<1>4. /\ ~name_exists(d, f, r) => \A p \in Named(d, r) : ~In(ch[c], p)
      /\ name_exists(d, f, r) => \E p \in Named(d, r) : In(ch[c], p)
  BY <1>1, NameExistsFinds
<1>5. Finds(ch[c], Asked(d, r), SelfPlace(d, f, r))
  BY <1>1, SelfPlaceFinds
<1> HIDE DEF c
<1>6. /\ SelfPlace(d, f, r) = << >> /\ \A p \in Place : In(ch[c], p) => p \notin Asked(d, r)
      \/ \E p \in Place : In(ch[c], p) /\ p \in Asked(d, r) /\ SelfPlace(d, f, r) = <<p>>
  BY <1>5 DEF Finds
<1>7. Asked(d, r) \subseteq Place
  BY DEF Asked
<1>8. QED
  BY <1>1, <1>2, <1>3, <1>4, <1>6, <1>7 DEF c

LEMMA FilesAreFound ==
  ASSUME NEW d, NEW f, NEW ch, NEW rank, Layout(d, f, ch, rank),
         NEW T \in SUBSET Dirs(d), IsReach(d, f, Hidden(Idle), T),
         NEW t, t = TreeOn(d, f, Idle),
         NEW c \in T, NEW name \in Names, NEW ext \in Exts, NEW n \in FileSizes,
         NEW r, r = [parent |-> c, name |-> name, ext |-> ext, buffer_size |-> n],
         NEW k, k = [in |-> c, name |-> name, ext |-> ext]
  PROVE  /\ k \in DOMAIN t /\ ~t[k].folder =>
              /\ read(d, f, r) = t[k].content
              /\ load(d, f, r) = IF t[k].content[1] <= n THEN t[k].content[2] ELSE << >>
         /\ k \in DOMAIN t /\ t[k].folder => read(d, f, r) = << >>
         /\ k \notin DOMAIN t => read(d, f, r) = << >> /\ load(d, f, r) = << >>
<1> DEFINE Way(b, p) == Leads(d, ch, {}, T, b, p)
           Here(p) == p \in Named(d, r) /\ InChain(ch, p[1], c)
<1>1. /\ r.parent = c /\ r.name = name /\ r.ext = ext /\ r.buffer_size = n
      /\ r.buffer_size # 0 /\ n \in Nat
      /\ k.in = c /\ k.name = name /\ k.ext = ext
  BY SizeBounds
<1>2. /\ \A b, p : Way(b, p) => /\ KeyOf(b, EntryAt(d, p)) \in DOMAIN t
                                /\ t[KeyOf(b, EntryAt(d, p))] = NodeOf(d, f, EntryAt(d, p))
      /\ \A i \in DOMAIN t : \E b, p : Way(b, p) /\ i = KeyOf(b, EntryAt(d, p))
  <2>1. Hidden(Idle) = {}
    BY DEF Hidden
  <2>2. Shows(d, f, ch, Hidden(Idle), T, TreeOn(d, f, Idle))
    BY TreeGives
  <2>3. Shows(d, f, ch, {}, T, t)
    BY <2>1, <2>2
  <2>4. QED
    BY <2>3 DEF Shows
<1>3. /\ ~(r.parent < 2 \/ ~IsDirectory(d, r.parent))
      /\ r.parent >= 2 /\ IsDirectory(d, r.parent)
      /\ name_exists(d, f, r) <=> \E p : Here(p)
      /\ \/ SelfPlace(d, f, r) = << >> /\ \A p : ~Here(p)
         \/ \E p : Here(p) /\ SelfPlace(d, f, r) = <<p>>
  <2>1. Asked(d, r) = Named(d, r)
    BY <1>1 DEF Asked, Named
  <2>2. /\ r.parent \in Cluster /\ r.parent >= 2 /\ IsDirectory(d, r.parent)
        /\ name_exists(d, f, r) <=> \E p \in Named(d, r) : InChain(ch, p[1], r.parent)
        /\ \/ SelfPlace(d, f, r) = << >> /\ \A p \in Asked(d, r) : ~InChain(ch, p[1], r.parent)
           \/ \E p \in Asked(d, r) : InChain(ch, p[1], r.parent) /\ SelfPlace(d, f, r) = <<p>>
    BY <1>1, FoundIn
  <2>3. ~(r.parent < 2)
    BY <2>2, NotLess
  <2>4. QED
    BY <2>1, <2>2, <2>3, <1>1
<1>4. d \in DiskType
  BY LayoutGives
<1>5. ASSUME NEW p, Here(p)
      PROVE  /\ Way(c, p) /\ k = KeyOf(c, EntryAt(d, p))
             /\ EntryAt(d, p) # emptyEntry /\ EntryAt(d, p).directory \in BOOLEAN
             /\ EntryAt(d, p).size \in Nat
  <2>1. p \in Place /\ EntryAt(d, p).name = name /\ EntryAt(d, p).ext = ext
    BY <1>5, <1>1 DEF Named
  <2>2. EntryAt(d, p) \in EntryType
    BY <1>4, <2>1, EntryAtType
  <2>3. EntryAt(d, p).name # ""
    BY <2>1, NameBounds
  <2>4. /\ EntryAt(d, p) # emptyEntry /\ EntryAt(d, p).directory \in BOOLEAN
        /\ EntryAt(d, p).size \in Nat
    BY <2>2, <2>3, EntryGives, SizeBounds
  <2>5. QED
    BY <2>1, <2>4, <1>5 DEF Used, Leads, KeyOf
<1>6. ASSUME NEW b, NEW p, Way(b, p), k = KeyOf(b, EntryAt(d, p)) PROVE Here(p)
  <2>1. b = c /\ EntryAt(d, p).name = name /\ EntryAt(d, p).ext = ext
    BY <1>6, <1>1 DEF KeyOf
  <2>2. p \in Place /\ InChain(ch, p[1], c)
    BY <2>1, <1>6 DEF Leads, Used
  <2>3. QED
    BY <2>1, <2>2, <1>1 DEF Named
<1> HIDE DEF Here, Way
<1>7. CASE k \in DOMAIN t
  <2>1. \E p : Here(p)
    BY <1>7, <1>2, <1>6
  <2>2. PICK q : Here(q) /\ SelfPlace(d, f, r) = <<q>>
    BY <2>1, <1>3
  <2> DEFINE e == EntryAt(d, q)
  <2>3. /\ Way(c, q) /\ k = KeyOf(c, e) /\ e # emptyEntry /\ e.directory \in BOOLEAN /\ e.size \in Nat
    BY <2>2, <1>5
  <2>4. get_self_entry(d, f, r) = e
    BY <2>2 DEF get_self_entry
  <2>5. t[k] = NodeOf(d, f, e)
    BY <2>3, <1>2
  <2> HIDE DEF e
  <2>7. CASE e.directory = FALSE
    <3>0. t[k] = [folder |-> FALSE, content |-> Contents(d, f, e)]
      BY <2>5, <2>7 DEF NodeOf
    <3>1. /\ t[k].folder = FALSE /\ t[k].content = Contents(d, f, e)
          /\ t[k].content[1] = e.size /\ t[k].content[2] = Contents(d, f, e)[2]
      BY <3>0 DEF Contents
    <3>2. ReadCode(d, f, r, FALSE) = 0
      BY <2>1, <2>4, <2>7, <1>3 DEF ReadCode
    <3>3. read(d, f, r) = Contents(d, f, e)
      BY <2>4, <3>2 DEF read
    <3>4. load(d, f, r) = IF n < e.size THEN << >> ELSE Contents(d, f, e)[2]
      BY <2>3, <2>4, <1>1 DEF load
    <3>5. (e.size <= n) <=> ~(n < e.size)
      BY <2>3, <1>1
    <3>6. QED
      BY <3>1, <3>3, <3>4, <3>5, <1>7
  <2>8. CASE e.directory = TRUE
    <3> DEFINE code == ReadCode(d, f, r, FALSE)
    <3>0. t[k] = [folder |-> TRUE, handle |-> e.cluster_number]
      BY <2>5, <2>8 DEF NodeOf
    <3>0a. t[k].folder = TRUE
      BY <3>0
    <3>1. code = 3
      BY <2>1, <2>4, <2>8, <1>3 DEF ReadCode
    <3> HIDE DEF code
    <3>2. code # 0
      BY <3>1
    <3>3. ReadCode(d, f, r, FALSE) # 0
      BY <3>2 DEF code
    <3>4. read(d, f, r) = << >>
      BY <3>3, Zenon DEF read
    <3>5. QED
      BY <3>0a, <3>4, <1>7
  <2>9. QED
    BY <2>3, <2>7, <2>8
<1>8. CASE k \notin DOMAIN t
  <2>1. \A p : ~Here(p)
    BY <1>8, <1>2, <1>5
  <2>2. SelfPlace(d, f, r) = << >> /\ ~name_exists(d, f, r)
    BY <2>1, <1>3
  <2>3. ReadCode(d, f, r, FALSE) = 1
    BY <2>2, <1>3 DEF ReadCode
  <2>4. get_self_entry(d, f, r) = emptyEntry
    BY <2>2 DEF get_self_entry
  <2>5. read(d, f, r) = << >>
    <3> DEFINE code == ReadCode(d, f, r, FALSE)
    <3>1. code = 1
      BY <2>3
    <3> HIDE DEF code
    <3>2. code # 0
      BY <3>1
    <3>3. ReadCode(d, f, r, FALSE) # 0
      BY <3>2 DEF code
    <3>4. QED
      BY <3>3, Zenon DEF read
  <2>6. load(d, f, r) = << >>
    BY <2>4 DEF load
  <2>7. QED
    BY <2>5, <2>6, <1>8
<1>9. QED
  BY <1>7, <1>8

\* The entries of the clusters of a directory, with that directory, are the keys in it.
ListedIn(s) == (UNION {{s[n].entry[i] : i \in Slot} : n \in DOMAIN s}) \ {emptyEntry}

LEMMA ListedGives ==
  ASSUME NEW s
  PROVE  \A x : x \in ListedIn(s) <=> x # emptyEntry /\ \E n \in DOMAIN s : \E i \in Slot : x = s[n].entry[i]
<1> DEFINE E(n) == {s[n].entry[i] : i \in Slot}
           U == UNION {E(n) : n \in DOMAIN s}
<1>1. ListedIn(s) = U \ {emptyEntry}
  BY DEF ListedIn
<1>2. \A x, n : x \in E(n) <=> \E i \in Slot : x = s[n].entry[i]
  OBVIOUS
<1> HIDE DEF E
<1>3. \A x : x \in U <=> \E n \in DOMAIN s : x \in E(n)
  OBVIOUS
<1> HIDE DEF U
<1>4. QED
  BY <1>1, <1>2, <1>3

LEMMA FoldersAreFound ==
  ASSUME NEW d, NEW f, NEW ch, NEW rank, Layout(d, f, ch, rank),
         NEW T \in SUBSET Dirs(d), IsReach(d, f, Hidden(Idle), T),
         NEW t, t = TreeOn(d, f, Idle),
         NEW k \in DOMAIN t, t[k].folder,
         \A j \in DOMAIN t : j.in = k.in /\ j.name = k.name => j = k,
         NEW r, r = [parent |-> k.in, name |-> k.name, ext |-> k.ext, buffer_size |-> 0]
  PROVE  {KeyOf(t[k].handle, e) : e \in ListedIn(read_directory(d, f, r))}
           = {j \in DOMAIN t : j.in = t[k].handle}
<1> DEFINE Way(b, p) == Leads(d, ch, {}, T, b, p)
<1>1. /\ \A b, p : Way(b, p) => /\ KeyOf(b, EntryAt(d, p)) \in DOMAIN t
                                /\ t[KeyOf(b, EntryAt(d, p))] = NodeOf(d, f, EntryAt(d, p))
                                /\ EntryAt(d, p).directory => Base(d, p) \in T
      /\ \A i \in DOMAIN t : \E b, p : Way(b, p) /\ i = KeyOf(b, EntryAt(d, p))
  <2>1. Hidden(Idle) = {}
    BY DEF Hidden
  <2>2. Shows(d, f, ch, Hidden(Idle), T, TreeOn(d, f, Idle))
    BY TreeGives
  <2>3. Shows(d, f, ch, {}, T, t)
    BY <2>1, <2>2
  <2>4. QED
    BY <2>3 DEF Shows
<1>2. PICK c, p : Way(c, p) /\ k = KeyOf(c, EntryAt(d, p))
  BY <1>1
<1> DEFINE e == EntryAt(d, p)
           h == Base(d, p)
<1>3. /\ k.in = c /\ k.name = e.name /\ k.ext = e.ext
      /\ r.parent = c /\ r.name = e.name /\ r.ext = e.ext /\ r.buffer_size = 0
  BY <1>2 DEF KeyOf
<1>4. /\ d \in DiskType /\ f \in FatType /\ Dirs(d) \subseteq Heads(d)
      /\ e \in EntryType /\ p \in Place /\ p \in Used(d) /\ InChain(ch, p[1], c) /\ c \in Dirs(d) /\ c \in T
  BY <1>2, LayoutGives, UsedGives DEF Leads
<1>5. e.directory /\ t[k].handle = h /\ h \in T /\ e # emptyEntry
  <2>1. t[k] = NodeOf(d, f, e)
    BY <1>1, <1>2
  <2>2. e.directory
    BY <2>1 DEF NodeOf
  <2>3. t[k].handle = h
    BY <2>1, <2>2 DEF NodeOf, Base
  <2>4. QED
    BY <2>2, <2>3, <1>1, <1>2, <1>4 DEF Used
<1>6. /\ h \in Dirs(d) /\ h \in Heads(d) /\ Chain(f, h) = ch[h] /\ DOMAIN ch[h] = 1 .. Len(ch[h])
      /\ \A b : InChain(ch, b, h) => b \in Cluster
      /\ \A q \in Place : InChain(ch, q[1], h) => IsDirectory(d, q[1])
  BY <1>4, <1>5, LayoutGives
<1>7. ASSUME NEW q, q \in Asked(d, r), InChain(ch, q[1], c) PROVE q = p
  <2>1. q \in Place /\ EntryAt(d, q).name = e.name
    BY <1>3, <1>7 DEF Asked
  <2>2. q \in Used(d)
    <3>1. e.name # ""
      BY <1>4, <1>5, EntryGives
    <3>2. EntryAt(d, q).name # emptyEntry.name
      BY <3>1, <2>1 DEF emptyEntry
    <3>3. QED
      BY <3>2, <2>1 DEF Used
  <2>3. Way(c, q)
    BY <2>2, <1>4, <1>7 DEF Leads
  <2>4. KeyOf(c, EntryAt(d, q)) = k
    <3> DEFINE i == KeyOf(c, EntryAt(d, q))
    <3>1. i \in DOMAIN t
      BY <1>1, <2>3
    <3>2. i.in = c /\ i.name = EntryAt(d, q).name
      BY DEF KeyOf
    <3> HIDE DEF i
    <3>3. i = k
      BY <3>1, <3>2, <1>3, <2>1
    <3>4. QED
      BY <3>3 DEF i
  <2>5. EntryAt(d, q).ext = e.ext
    BY <2>4, <1>2 DEF KeyOf
  <2>6. QED
    BY <2>1, <2>2, <2>5, <1>4, <1>7 DEF Layout, NamesGood
<1>8. p \in Asked(d, r) /\ p \in Named(d, r)
  BY <1>3, <1>4 DEF Asked, Named
<1>9. SelfPlace(d, f, r) = <<p>> /\ name_exists(d, f, r) /\ ~(r.parent < 2 \/ ~IsDirectory(d, r.parent))
  <2>1. /\ r.parent \in Cluster /\ r.parent >= 2 /\ IsDirectory(d, r.parent)
        /\ name_exists(d, f, r) <=> \E q \in Named(d, r) : InChain(ch, q[1], r.parent)
        /\ \/ SelfPlace(d, f, r) = << >> /\ \A q \in Asked(d, r) : ~InChain(ch, q[1], r.parent)
           \/ \E q \in Asked(d, r) : InChain(ch, q[1], r.parent) /\ SelfPlace(d, f, r) = <<q>>
    BY <1>3, <1>4, FoundIn
  <2>2. ~(r.parent < 2)
    BY <2>1, NotLess
  <2> HIDE DEF e
  <2>3. QED
    BY <2>1, <2>2, <1>3, <1>4, <1>7, <1>8
<1>10. get_self_entry(d, f, r) = e
  BY <1>9 DEF get_self_entry
<1>11. ReadCode(d, f, r, TRUE) = 0
  <2>1. e.directory = TRUE
    BY <1>4, <1>5, EntryGives
  <2> HIDE DEF e
  <2>2. QED
    BY <2>1, <1>9, <1>10 DEF ReadCode
<1> DEFINE s == [n \in DOMAIN ch[h] |-> d[ch[h][n]]]
<1>12. read_directory(d, f, r) = s
  BY <1>6, <1>10, <1>11 DEF read_directory, self_directory_info, Base
<1> DEFINE D == DOMAIN s
<1>A. D = DOMAIN ch[h] /\ \A n \in D : s[n] = d[ch[h][n]]
  OBVIOUS
<1>B. \A x : x \in ListedIn(s) <=> x # emptyEntry /\ \E n \in D : \E i \in Slot : x = s[n].entry[i]
  <2> HIDE DEF s
  <2>1. QED
    BY ListedGives
<1> HIDE DEF s, D
<1>13. \A x : x \in ListedIn(s) <=> \E q : Way(h, q) /\ x = EntryAt(d, q)
  <2>1. ASSUME NEW x \in ListedIn(s) PROVE \E q : Way(h, q) /\ x = EntryAt(d, q)
    <3>1. x # emptyEntry /\ \E n \in D : \E i \in Slot : x = s[n].entry[i]
      BY <1>B
    <3>2. PICK n \in D, i \in Slot : x = s[n].entry[i]
      BY <3>1
    <3>3. n \in DOMAIN ch[h] /\ x # emptyEntry /\ x = d[ch[h][n]].entry[i]
      BY <3>1, <3>2, <1>A
    <3> DEFINE q == <<ch[h][n], i>>
    <3>4. InChain(ch, q[1], h)
      BY <3>3 DEF InChain
    <3>5. q \in Place /\ q[1] = ch[h][n] /\ q[2] = i
      BY <3>4, <1>6 DEF Place
    <3>6. IsDirectory(d, q[1])
      BY <3>4, <3>5, <1>6
    <3>7. EntryAt(d, q) = x
      BY <3>3, <3>5, <3>6 DEF EntryAt, IsDirectory
    <3> HIDE DEF q
    <3>8. Way(h, q)
      BY <3>3, <3>4, <3>5, <3>7, <1>5 DEF Leads, Used
    <3>9. QED
      BY <3>7, <3>8
  <2>2. ASSUME NEW q, Way(h, q) PROVE EntryAt(d, q) \in ListedIn(s)
    <3>1. q \in Used(d) /\ InChain(ch, q[1], h)
      BY <2>2 DEF Leads
    <3>2. EntryAt(d, q) = d[q[1]].entry[q[2]] /\ q[2] \in Slot /\ EntryAt(d, q) # emptyEntry
      BY <3>1, <1>4, UsedGives DEF Used
    <3>3. PICK n \in DOMAIN ch[h] : ch[h][n] = q[1]
      BY <3>1 DEF InChain
    <3>4. n \in D /\ EntryAt(d, q) = s[n].entry[q[2]]
      BY <3>2, <3>3, <1>A
    <3>5. QED
      BY <3>2, <3>4, <1>B
  <2>3. QED
    BY <2>1, <2>2
<1>14. ASSUME NEW q, Way(h, q) PROVE KeyOf(h, EntryAt(d, q)) \in {j \in DOMAIN t : j.in = h}
  BY <1>1, <1>14 DEF KeyOf
<1>15. ASSUME NEW j \in DOMAIN t, j.in = h PROVE \E q : Way(h, q) /\ j = KeyOf(h, EntryAt(d, q))
  <2>1. PICK b, q : Way(b, q) /\ j = KeyOf(b, EntryAt(d, q))
    BY <1>1
  <2>2. b = h
    BY <2>1, <1>15 DEF KeyOf
  <2>3. QED
    BY <2>1, <2>2
<1> HIDE DEF e, h, Way
<1>16. {KeyOf(h, x) : x \in ListedIn(s)} = {j \in DOMAIN t : j.in = h}
  <2>1. ASSUME NEW x \in ListedIn(s) PROVE KeyOf(h, x) \in {j \in DOMAIN t : j.in = h}
    BY <1>13, <1>14
  <2>2. ASSUME NEW j \in DOMAIN t, j.in = h PROVE \E x \in ListedIn(s) : j = KeyOf(h, x)
    BY <2>2, <1>13, <1>15
  <2>3. QED
    BY <2>1, <2>2
<1>17. QED
  BY <1>5, <1>12, <1>16

\* The tree is what the disk reads as.
TreeIs == tree = TreeOn(disk, fat, job)

LEMMA FoundByName ==
  ASSUME FsInv, TreeIs
  PROVE  FindsByName
<1> SUFFICES ASSUME job = Idle PROVE FindsByName
  BY DEF FindsByName
<1>1. PICK ch, rank : Layout(disk, fat, ch, rank)
  BY IdleGives
<1>2. PICK T \in SUBSET Dirs(disk) : IsReach(disk, fat, Hidden(Idle), T)
  BY <1>1, ReachLayout
<1>3. tree = TreeOn(disk, fat, Idle)
  BY DEF TreeIs
<1>4. ASSUME NEW c \in {k.in : k \in DOMAIN tree} PROVE c \in T
  <2>1. PICK k \in DOMAIN tree : c = k.in
    OBVIOUS
  <2>2. \A i \in DOMAIN TreeOn(disk, fat, Idle) :
          \E b, p : Leads(disk, ch, Hidden(Idle), T, b, p) /\ i = KeyOf(b, EntryAt(disk, p))
    <3>1. Shows(disk, fat, ch, Hidden(Idle), T, TreeOn(disk, fat, Idle))
      BY <1>1, <1>2, TreeGives
    <3>2. QED
      BY <3>1 DEF Shows
  <2>3. PICK b, p : Leads(disk, ch, Hidden(Idle), T, b, p) /\ k = KeyOf(b, EntryAt(disk, p))
    BY <2>1, <2>2, <1>3
  <2>4. QED
    BY <2>1, <2>3 DEF Leads, KeyOf
<1>5. ASSUME NEW c \in {k.in : k \in DOMAIN tree}, NEW name \in Names, NEW ext \in Exts, NEW n \in FileSizes
      PROVE  LET k == [in |-> c, name |-> name, ext |-> ext]
                 r == [parent |-> c, name |-> name, ext |-> ext, buffer_size |-> n]
                 file == k \in DOMAIN tree /\ ~tree[k].folder
             IN  /\ read(disk, fat, r) = IF file THEN tree[k].content ELSE << >>
                 /\ file \/ k \notin DOMAIN tree =>
                      load(disk, fat, r) = IF file /\ tree[k].content[1] <= n
                                           THEN tree[k].content[2] ELSE << >>
  <2> DEFINE k == [in |-> c, name |-> name, ext |-> ext]
             r == [parent |-> c, name |-> name, ext |-> ext, buffer_size |-> n]
  <2>1. /\ k \in DOMAIN tree /\ ~tree[k].folder =>
             /\ read(disk, fat, r) = tree[k].content
             /\ load(disk, fat, r) = IF tree[k].content[1] <= n THEN tree[k].content[2] ELSE << >>
        /\ k \in DOMAIN tree /\ tree[k].folder => read(disk, fat, r) = << >>
        /\ k \notin DOMAIN tree => read(disk, fat, r) = << >> /\ load(disk, fat, r) = << >>
    BY <1>1, <1>2, <1>3, <1>4, FilesAreFound
  <2> HIDE DEF k, r
  <2>2. CASE k \in DOMAIN tree /\ ~tree[k].folder
    BY <2>1, <2>2 DEF k, r
  <2>3. CASE k \in DOMAIN tree /\ tree[k].folder
    BY <2>1, <2>3 DEF k, r
  <2>4. CASE k \notin DOMAIN tree
    BY <2>1, <2>4 DEF k, r
  <2>5. QED
    BY <2>2, <2>3, <2>4
<1>6. ASSUME NEW k \in DOMAIN tree, tree[k].folder,
             \A j \in DOMAIN tree : j.in = k.in /\ j.name = k.name => j = k
      PROVE  LET s == read_directory(disk, fat,
                        [parent |-> k.in, name |-> k.name, ext |-> k.ext, buffer_size |-> 0])
             IN  {KeyOf(tree[k].handle, e) :
                    e \in (UNION {{s[n].entry[i] : i \in Slot} : n \in DOMAIN s}) \ {emptyEntry}}
                   = {j \in DOMAIN tree : j.in = tree[k].handle}
  <2> DEFINE r == [parent |-> k.in, name |-> k.name, ext |-> k.ext, buffer_size |-> 0]
  <2>1. {KeyOf(tree[k].handle, e) : e \in ListedIn(read_directory(disk, fat, r))}
          = {j \in DOMAIN tree : j.in = tree[k].handle}
    BY <1>1, <1>2, <1>3, <1>6, FoldersAreFound
  <2>2. QED
    BY <2>1 DEF ListedIn
<1>7. QED
  BY <1>5, <1>6 DEF FindsByName

\* Between calls reading and loading find by its name every file that is there
\* and nothing else, and a directory reads as what is in it unless another
\* entry has its name.
THEOREM FsFindsByName == MCSpec => []FindsByName
<1>1. MCInit => TreeIs
  BY DEF MCInit, TreeIs
<1>2. TreeIs /\ [MCNext]_<<fsVars, tree>> => TreeIs'
  BY DEF TreeIs, MCNext, fsVars
<1>3. MCSpec => []TreeIs
  BY <1>1, <1>2, PTL DEF MCSpec
<1>4. QED
  BY <1>3, FsAlwaysInOrder, FoundByName, PTL
-----------------------------------------------------------------------------
(* What the tree depends on *)

Seen(d, hidden, p) == EntryAt(d, p) # emptyEntry /\ p \notin hidden

\* The clusters of the files shown in the directories T; those of the
\* directories themselves are Tables(f, T).
KeptFiles(d, f, hidden, T) ==
  {x \in Cluster : \E c \in T : \E p \in ShownIn(d, f, hidden, c) :
                     ~EntryAt(d, p).directory /\ x \in Clusters(f, Base(d, p))}

Kept(d, f, hidden, T) == Tables(f, T) \cup KeptFiles(d, f, hidden, T)

\* In these clusters b with g is as d with f.
Alike(d, f, hidden, T, b, g, hb) ==
  /\ \A x \in Tables(f, T) : /\ g[x] = f[x]
                             /\ \A i \in Slot :
                                  /\ Seen(b, hb, <<x, i>>) <=> Seen(d, hidden, <<x, i>>)
                                  /\ Seen(d, hidden, <<x, i>>) => EntryAt(b, <<x, i>>) = EntryAt(d, <<x, i>>)
  /\ \A x \in KeptFiles(d, f, hidden, T) : g[x] = f[x] /\ b[x] = d[x]

\* The directories T show the same.
SameShown(d, f, hidden, T, b, g, hb) ==
  \A c \in T :
    /\ ShownIn(b, g, hb, c) = ShownIn(d, f, hidden, c)
    /\ \A p \in ShownIn(d, f, hidden, c) :
         /\ KeyOf(c, EntryAt(b, p)) = KeyOf(c, EntryAt(d, p))
         /\ EntryAt(b, p).directory = EntryAt(d, p).directory /\ Base(b, p) = Base(d, p)
         /\ NodeOf(b, g, EntryAt(b, p)) = NodeOf(d, f, EntryAt(d, p))

LEMMA ClustersAre ==
  ASSUME NEW d, NEW f, NEW ch, NEW rank, Layout(d, f, ch, rank), NEW h \in Heads(d)
  PROVE  \A x : x \in Clusters(f, h) <=> InChain(ch, x, h)
<1>1. Chain(f, h) = ch[h]
  BY LayoutGives
<1>2. QED
  BY <1>1 DEF Clusters, ToSet, InChain

LEMMA KeptAre ==
  ASSUME NEW d, NEW f, NEW ch, NEW rank, Layout(d, f, ch, rank), NEW hidden,
         NEW T \in SUBSET Dirs(d)
  PROVE  /\ \A x \in Kept(d, f, hidden, T) : x \in Cluster /\ x >= ROOT_CLUSTER_NUMBER /\ f[x] # 0
         /\ \A x \in KeptFiles(d, f, hidden, T) : ~IsDirectory(d, x)
         /\ \A x : x \in Tables(f, T) <=> \E c \in T : InChain(ch, x, c)
         /\ \A x : x \in KeptFiles(d, f, hidden, T) <=>
              \E c \in T : \E p \in ShownIn(d, f, hidden, c) :
                ~EntryAt(d, p).directory /\ InChain(ch, x, Base(d, p))
<1>1. d \in DiskType /\ T \subseteq Heads(d)
  BY LayoutGives, UsedGives
<1>2. ASSUME NEW h \in Heads(d), NEW x, InChain(ch, x, h)
      PROVE  x \in Cluster /\ x >= ROOT_CLUSTER_NUMBER /\ f[x] # 0
  <2>1. Runs(f, h, ch[h])
    BY LayoutGives
  <2>2. PICK k \in 1 .. Len(ch[h]) : ch[h][k] = x
    BY <1>2, LayoutGives DEF InChain
  <2>3. QED
    BY <2>1, <2>2, RunsGives, RunsTaken
<1>3. \A x : x \in Tables(f, T) <=> \E c \in T : InChain(ch, x, c)
  BY <1>1, ClustersAre DEF Tables
<1>4. ASSUME NEW c \in T, NEW p \in ShownIn(d, f, hidden, c)
      PROVE  p \in Used(d) /\ Base(d, p) \in Heads(d) /\ \A x : x \in Clusters(f, Base(d, p)) <=> InChain(ch, x, Base(d, p))
  <2>1. p \in Used(d)
    BY ShownIs
  <2>2. Base(d, p) \in Heads(d)
    BY <2>1, <1>1, UsedGives
  <2>3. QED
    BY <2>1, <2>2, ClustersAre
<1>5. \A x : x \in KeptFiles(d, f, hidden, T) <=>
        \E c \in T : \E p \in ShownIn(d, f, hidden, c) :
          ~EntryAt(d, p).directory /\ InChain(ch, x, Base(d, p))
  BY <1>2, <1>4 DEF KeptFiles
<1>6. ASSUME NEW x \in KeptFiles(d, f, hidden, T) PROVE ~IsDirectory(d, x)
  <2>1. PICK c \in T : \E p \in ShownIn(d, f, hidden, c) :
          ~EntryAt(d, p).directory /\ InChain(ch, x, Base(d, p))
    BY <1>5
  <2>1a. PICK p \in ShownIn(d, f, hidden, c) : ~EntryAt(d, p).directory /\ InChain(ch, x, Base(d, p))
    BY <2>1
  <2>2. p \in Used(d) /\ Base(d, p) \in Heads(d) /\ x \in Cluster
    BY <2>1a, <1>2, <1>4
  <2>3. ASSUME NEW h \in Dirs(d), InChain(ch, x, h) PROVE FALSE
    <3>1. h = Base(d, p)
      BY <2>1a, <2>2, <2>3, <1>1, LayoutGives, UsedGives
    <3>2. QED
      BY <3>1, <2>1a, <2>2, DirIsDirectory
  <2>4. QED
    BY <2>2, <2>3 DEF Layout, TablesGood
<1>7. ASSUME NEW x \in Kept(d, f, hidden, T)
      PROVE  x \in Cluster /\ x >= ROOT_CLUSTER_NUMBER /\ f[x] # 0
  BY <1>1, <1>2, <1>3, <1>4, <1>5 DEF Kept
<1>8. QED
  BY <1>3, <1>5, <1>6, <1>7

LEMMA SameReads ==
  ASSUME NEW d, NEW f, NEW ch, NEW rank, Layout(d, f, ch, rank), NEW hidden,
         NEW T \in SUBSET Dirs(d), IsReach(d, f, hidden, T),
         NEW b, NEW g, NEW hb, SameShown(d, f, hidden, T, b, g, hb)
  PROVE  IsReach(b, g, hb, T) /\ Reading(b, g, hb) = Reading(d, f, hidden)
<1>1. PICK small : Layout(d, f, ch, small) /\ \A h \in Cluster : small[h] < CLUSTER_COUNT
  BY RankIsSmall
<1>2. d \in DiskType /\ small \in [Cluster -> Nat]
  BY <1>1 DEF Layout, TypesGood
<1>3. T \in SUBSET Cluster
  BY <1>2, UsedGives
<1>4. \A c \in T : InnerOf(b, g, hb, c) = InnerOf(d, f, hidden, c)
  <2> SUFFICES ASSUME NEW c \in T PROVE InnerOf(b, g, hb, c) = InnerOf(d, f, hidden, c)
    OBVIOUS
  <2>1. ShownIn(b, g, hb, c) = ShownIn(d, f, hidden, c)
    BY DEF SameShown
  <2>2. \A p \in ShownIn(d, f, hidden, c) :
          /\ EntryAt(b, p).directory = EntryAt(d, p).directory
          /\ EntryAt(b, p).cluster_number = EntryAt(d, p).cluster_number
    BY DEF SameShown, Base
  <2>3. QED
    BY <2>1, <2>2 DEF InnerOf
<1>5. ClosedBelow(b, g, hb, T)
  BY <1>4 DEF IsReach, ClosedBelow
<1>6. \A c \in T : \A x \in InnerOf(b, g, hb, c) : small[c] < small[x]
  BY <1>1, <1>4, ShownIs
<1>7. PICK U \in SUBSET T : IsReach(b, g, hb, U)
  BY <1>1, <1>2, <1>3, <1>5, <1>6, ReachIs
<1>8. U = T
  <2>1. ClosedBelow(d, f, hidden, U)
    BY <1>4, <1>7 DEF IsReach, ClosedBelow
  <2>2. T \subseteq U
    BY <2>1, <1>3, <1>7 DEF IsReach
  <2>3. QED
    BY <2>2, <1>7
<1>9. IsReach(b, g, hb, T)
  BY <1>7, <1>8
<1>10. Lists(d, f, hidden, T, Reading(d, f, hidden)) /\ KeysApart(d, f, hidden, T)
  BY LayoutApart, ReadingLists
<1>11. KeysApart(b, g, hb, T)
  <2> SUFFICES ASSUME NEW c \in T, NEW e \in T, NEW p \in ShownIn(b, g, hb, c), NEW q \in ShownIn(b, g, hb, e),
                      KeyOf(c, EntryAt(b, p)) = KeyOf(e, EntryAt(b, q))
               PROVE  c = e /\ p = q
    BY DEF KeysApart
  <2>1. p \in ShownIn(d, f, hidden, c) /\ q \in ShownIn(d, f, hidden, e)
    BY DEF SameShown
  <2>2. KeyOf(c, EntryAt(d, p)) = KeyOf(e, EntryAt(d, q))
    BY <2>1 DEF SameShown
  <2>3. QED
    BY <2>1, <2>2, <1>10 DEF KeysApart
<1>12. Lists(b, g, hb, T, Reading(b, g, hb))
  BY <1>9, <1>11, ReadingLists
<1> DEFINE t == Reading(d, f, hidden)
           u == Reading(b, g, hb)
<1> HIDE DEF t, u
<1>13. Lists(d, f, hidden, T, t) /\ Lists(b, g, hb, T, u)
  BY <1>10, <1>12 DEF t, u
<1>14. ASSUME NEW k \in DOMAIN t PROVE k \in DOMAIN u /\ u[k] = t[k]
  <2>1. PICK c \in T : \E p \in ShownIn(d, f, hidden, c) : k = KeyOf(c, EntryAt(d, p))
    BY <1>13 DEF Lists
  <2>1a. PICK p \in ShownIn(d, f, hidden, c) : k = KeyOf(c, EntryAt(d, p))
    BY <2>1
  <2>2. p \in ShownIn(b, g, hb, c) /\ k = KeyOf(c, EntryAt(b, p)) /\ NodeOf(b, g, EntryAt(b, p)) = NodeOf(d, f, EntryAt(d, p))
    BY <2>1a DEF SameShown
  <2>3. t[k] = NodeOf(d, f, EntryAt(d, p))
    BY <2>1a, <1>13 DEF Lists
  <2>4. k \in DOMAIN u /\ u[k] = NodeOf(b, g, EntryAt(b, p))
    BY <2>2, <1>13 DEF Lists
  <2>5. QED
    BY <2>2, <2>3, <2>4
<1>15. ASSUME NEW k \in DOMAIN u PROVE k \in DOMAIN t
  <2>1. PICK c \in T : \E p \in ShownIn(b, g, hb, c) : k = KeyOf(c, EntryAt(b, p))
    BY <1>13 DEF Lists
  <2>1a. PICK p \in ShownIn(b, g, hb, c) : k = KeyOf(c, EntryAt(b, p))
    BY <2>1
  <2>2. p \in ShownIn(d, f, hidden, c) /\ k = KeyOf(c, EntryAt(d, p))
    BY <2>1a DEF SameShown
  <2>3. QED
    BY <2>2, <1>13 DEF Lists
<1>16. u = t
  <2>1. t = [k \in DOMAIN t |-> t[k]] /\ u = [k \in DOMAIN u |-> u[k]]
    BY <1>13 DEF Lists
  <2>2. DOMAIN u = DOMAIN t
    BY <1>14, <1>15
  <2>3. QED
    BY <2>1, <2>2, <1>14
<1>17. QED
  BY <1>9, <1>16 DEF t, u

LEMMA ChainSame ==
  ASSUME NEW f \in FatType, NEW g \in FatType, NEW c, NEW s, Runs(f, c, s),
         \A x \in Clusters(f, c) : g[x] = f[x]
  PROVE  Runs(g, c, s) /\ Chain(g, c) = Chain(f, c) /\ Chain(f, c) = s
<1>1. Chain(f, c) = s /\ DOMAIN s = 1 .. Len(s)
  BY ChainIs, RunsGives
<1>2. \A k \in 1 .. Len(s) : g[s[k]] = f[s[k]]
  BY <1>1 DEF Clusters, ToSet
<1>3. Runs(g, c, s)
  BY <1>2 DEF Runs
<1>4. Chain(g, c) = s
  BY <1>3, ChainIs
<1>5. QED
  BY <1>1, <1>3, <1>4

LEMMA AlikeShows ==
  ASSUME NEW d, NEW f, NEW ch, NEW rank, Layout(d, f, ch, rank), NEW hidden,
         NEW T \in SUBSET Dirs(d),
         NEW b, NEW g \in FatType, NEW hb, Alike(d, f, hidden, T, b, g, hb)
  PROVE  /\ SameShown(d, f, hidden, T, b, g, hb)
         /\ Tables(g, T) = Tables(f, T) /\ KeptFiles(b, g, hb, T) = KeptFiles(d, f, hidden, T)
<1>1. d \in DiskType /\ f \in FatType /\ T \subseteq Heads(d)
  BY LayoutGives, UsedGives
<1>2. ASSUME NEW c \in T PROVE Runs(f, c, ch[c]) /\ Runs(g, c, ch[c]) /\ Chain(g, c) = Chain(f, c)
  <2>1. Runs(f, c, ch[c])
    BY <1>1, LayoutGives
  <2>2. \A x \in Clusters(f, c) : g[x] = f[x]
    BY DEF Alike, Tables
  <2>3. QED
    BY <2>1, <2>2, <1>1, ChainSame
<1>3. ASSUME NEW c \in T PROVE ShownIn(b, g, hb, c) = ShownIn(d, f, hidden, c)
  <2>1. Places(g, c) = Places(f, c)
    BY <1>2 DEF Places
  <2>2. ASSUME NEW q \in ToSet(Places(f, c))
        PROVE  Seen(b, hb, q) <=> Seen(d, hidden, q)
    <3>1. PICK k \in DOMAIN Places(f, c) : q = Places(f, c)[k]
      BY <2>2 DEF ToSet
    <3>2. q \in Place /\ In(ch[c], q)
      BY <3>1, <1>1, <1>2, PlacesGive
    <3>3. q = <<q[1], q[2]>> /\ q[2] \in Slot
      BY <3>2 DEF Place
    <3>4. q[1] \in Tables(f, T)
      <4>1. InChain(ch, q[1], c)
        BY <3>2, <1>1, LayoutGives
      <4>2. QED
        BY <4>1, KeptAre
    <3>5. QED
      BY <3>3, <3>4 DEF Alike
  <2>3. QED
    BY <2>1, <2>2 DEF ShownIn, Seen
<1>4. ASSUME NEW c \in T, NEW p \in ShownIn(d, f, hidden, c)
      PROVE  p \in Used(d) /\ InChain(ch, p[1], c) /\ EntryAt(b, p) = EntryAt(d, p) /\ EntryAt(d, p) \in EntryType
  <2>1. p \in Used(d) /\ InChain(ch, p[1], c) /\ p \notin hidden
    BY ShownIs
  <2>2. p = <<p[1], p[2]>> /\ p[2] \in Slot /\ EntryAt(d, p) \in EntryType
    BY <2>1, <1>1, UsedGives
  <2>3. p[1] \in Tables(f, T)
    BY <2>1, KeptAre
  <2>4. Seen(d, hidden, p)
    BY <2>1 DEF Seen, Used
  <2>5. QED
    BY <2>1, <2>2, <2>3, <2>4 DEF Alike
<1>5. ASSUME NEW c \in T, NEW p \in ShownIn(d, f, hidden, c), ~EntryAt(d, p).directory
      PROVE  /\ Chain(g, Base(d, p)) = Chain(f, Base(d, p))
             /\ \A x \in Clusters(f, Base(d, p)) : b[x] = d[x]
  <2> DEFINE h == Base(d, p)
  <2>1. h \in Heads(d)
    BY <1>1, <1>4, UsedGives
  <2>2. Runs(f, h, ch[h]) /\ \A x : x \in Clusters(f, h) <=> InChain(ch, x, h)
    BY <2>1, LayoutGives, ClustersAre
  <2>3. ASSUME NEW x \in Clusters(f, h) PROVE x \in KeptFiles(d, f, hidden, T)
    BY <2>2, <2>3, <1>5, KeptAre
  <2>4. \A x \in Clusters(f, h) : g[x] = f[x] /\ b[x] = d[x]
    BY <2>3 DEF Alike
  <2> HIDE DEF h
  <2>5. Chain(g, h) = Chain(f, h)
    BY <2>2, <2>4, <1>1, ChainSame
  <2>6. QED
    BY <2>4, <2>5 DEF h
<1>6. ASSUME NEW c \in T, NEW p \in ShownIn(d, f, hidden, c)
      PROVE  NodeOf(b, g, EntryAt(b, p)) = NodeOf(d, f, EntryAt(d, p))
  <2> DEFINE e == EntryAt(d, p)
             h == e.cluster_number
  <2>1. EntryAt(b, p) = e /\ e.directory \in BOOLEAN
    BY <1>4, EntryGives
  <2>2. CASE e.directory
    BY <2>1, <2>2 DEF NodeOf
  <2>3. CASE ~e.directory
    <3>1. Chain(g, h) = Chain(f, h) /\ \A x \in Clusters(f, h) : b[x] = d[x]
      BY <2>3, <1>5 DEF Base
    <3>2. \A k \in DOMAIN Chain(f, h) : b[Chain(f, h)[k]] = d[Chain(f, h)[k]]
      BY <3>1 DEF Clusters, ToSet
    <3>3. self_directory_info(b, g, h) = self_directory_info(d, f, h)
      BY <3>1, <3>2 DEF self_directory_info
    <3>4. Contents(b, g, e) = Contents(d, f, e)
      BY <3>3 DEF Contents
    <3> HIDE DEF e
    <3>5. QED
      BY <3>4, <2>1, <2>3 DEF NodeOf, e
  <2>4. QED
    BY <2>1, <2>2, <2>3
<1>7. SameShown(d, f, hidden, T, b, g, hb)
  BY <1>3, <1>4, <1>6 DEF SameShown, Base
<1>8. Tables(g, T) = Tables(f, T)
  BY <1>2 DEF Tables, Clusters
<1>9. KeptFiles(b, g, hb, T) = KeptFiles(d, f, hidden, T)
  <2>1. ASSUME NEW c \in T, NEW p \in ShownIn(d, f, hidden, c)
        PROVE  /\ EntryAt(b, p).directory = EntryAt(d, p).directory /\ Base(b, p) = Base(d, p)
               /\ ~EntryAt(d, p).directory => Clusters(g, Base(d, p)) = Clusters(f, Base(d, p))
    BY <1>4, <1>5 DEF Base, Clusters
  <2>2. QED
    BY <2>1, <1>3 DEF KeptFiles
<1>10. QED
  BY <1>7, <1>8, <1>9
-----------------------------------------------------------------------------
(* What a call in progress keeps *)

\* The chain of h is of nothing that is shown.
Outside(d, f, hidden, T, h) ==
  /\ h \in Heads(d) /\ h \notin T
  /\ \A c \in T : \A p \in ShownIn(d, f, hidden, c) : Base(d, p) # h

LEMMA ReachedFrom ==
  ASSUME NEW d, NEW f, NEW ch, NEW rank, Layout(d, f, ch, rank), NEW hidden,
         NEW T \in SUBSET Dirs(d), IsReach(d, f, hidden, T), NEW x \in T, x # ROOT_CLUSTER_NUMBER
  PROVE  \E c \in T : \E p \in ShownIn(d, f, hidden, c) : EntryAt(d, p).directory /\ x = Base(d, p)
<1> DEFINE D == T \ {x}
<1>1. D \in SUBSET Cluster
  BY LayoutGives, UsedGives
<1>2. ~(T \subseteq D)
  OBVIOUS
<1>3. ~ClosedBelow(d, f, hidden, D)
  BY <1>1, <1>2 DEF IsReach
<1>4. PICK c \in T : x \in InnerOf(d, f, hidden, c)
  BY <1>3 DEF ClosedBelow, IsReach
<1>5. QED
  BY <1>4 DEF InnerOf, Base

LEMMA OutsideGives ==
  ASSUME NEW d, NEW f, NEW ch, NEW rank, Layout(d, f, ch, rank), NEW hidden,
         NEW T \in SUBSET Dirs(d), NEW h, Outside(d, f, hidden, T, h)
  PROVE  \A x : InChain(ch, x, h) => /\ x \notin Kept(d, f, hidden, T)
                                     /\ f[x] \notin Kept(d, f, hidden, T)
<1>1. /\ d \in DiskType /\ h \in Heads(d) /\ T \subseteq Heads(d)
      /\ \A p \in Used(d) : Base(d, p) \in Heads(d)
  BY LayoutGives, UsedGives DEF Outside
<1>2. ASSUME NEW x, InChain(ch, x, h), x \in Kept(d, f, hidden, T) PROVE FALSE
  <2>1. CASE x \in Tables(f, T)
    <3>1. PICK c \in T : InChain(ch, x, c)
      BY <2>1, KeptAre
    <3>2. c = h
      BY <3>1, <1>1, <1>2, LayoutGives
    <3>3. QED
      BY <3>2 DEF Outside
  <2>2. CASE x \in KeptFiles(d, f, hidden, T)
    <3>1. PICK c \in T : \E p \in ShownIn(d, f, hidden, c) : InChain(ch, x, Base(d, p))
      BY <2>2, KeptAre
    <3>2. PICK p \in ShownIn(d, f, hidden, c) : InChain(ch, x, Base(d, p))
      BY <3>1
    <3>3. p \in Used(d)
      BY ShownIs
    <3>4. Base(d, p) = h
      BY <3>2, <3>3, <1>1, <1>2, LayoutGives
    <3>5. QED
      BY <3>4 DEF Outside
  <2>3. QED
    BY <2>1, <2>2, <1>2 DEF Kept
<1>3. ASSUME NEW x, InChain(ch, x, h) PROVE f[x] = END_OF_FILE \/ InChain(ch, f[x], h)
  <2>1. Runs(f, h, ch[h]) /\ DOMAIN ch[h] = 1 .. Len(ch[h])
    BY <1>1, LayoutGives
  <2>2. PICK k \in 1 .. Len(ch[h]) : ch[h][k] = x
    BY <2>1, <1>3 DEF InChain
  <2>3. f[x] = (IF k = Len(ch[h]) THEN END_OF_FILE ELSE ch[h][k + 1]) /\ Len(ch[h]) \in Nat
    BY <2>1, <2>2, RunsGives
  <2>4. k = Len(ch[h]) \/ k + 1 \in 1 .. Len(ch[h])
    BY <2>3
  <2>5. QED
    BY <2>1, <2>3, <2>4 DEF InChain
<1>4. END_OF_FILE \notin Kept(d, f, hidden, T)
  BY KeptAre, Bounds
<1>5. QED
  BY <1>2, <1>3, <1>4

LEMMA HiddenIsOutside ==
  ASSUME NEW d, NEW f, NEW ch, NEW rank, Layout(d, f, ch, rank), NEW hidden,
         NEW T \in SUBSET Dirs(d), IsReach(d, f, hidden, T), NEW p \in Used(d), p \in hidden
  PROVE  Outside(d, f, hidden, T, Base(d, p))
<1>1. Base(d, p) \in Heads(d) /\ Base(d, p) # ROOT_CLUSTER_NUMBER
  BY LayoutGives, UsedGives DEF Layout, EntriesGood
<1>2. ASSUME NEW c \in T, NEW q \in ShownIn(d, f, hidden, c), Base(d, q) = Base(d, p) PROVE FALSE
  <2>1. q \in Used(d) /\ q \notin hidden
    BY ShownIs
  <2>2. QED
    BY <2>1, <1>2 DEF Layout, EntriesGood
<1>3. Base(d, p) \notin T
  BY <1>1, <1>2, ReachedFrom
<1>4. QED
  BY <1>1, <1>2, <1>3 DEF Outside

\* The directories that are not reached hold with a directory those in it; what
\* is in them is of nothing that is shown.
LEMMA UnreachedGives ==
  ASSUME NEW d, NEW f, NEW ch, NEW rank, Layout(d, f, ch, rank), NEW hidden,
         NEW T \in SUBSET Dirs(d), IsReach(d, f, hidden, T),
         NEW p \in Used(d), NEW h \in Dirs(d) \ T, InChain(ch, p[1], h)
  PROVE  Outside(d, f, hidden, T, h) /\ Outside(d, f, hidden, T, Base(d, p))
<1>1. /\ d \in DiskType /\ Dirs(d) \subseteq Heads(d) /\ Base(d, p) \in Heads(d)
      /\ Base(d, p) # ROOT_CLUSTER_NUMBER
  BY LayoutGives, UsedGives DEF Layout, EntriesGood
<1>2. ASSUME NEW c \in T, NEW q \in ShownIn(d, f, hidden, c), Base(d, q) = h PROVE FALSE
  <2>1. q \in Used(d)
    BY ShownIs
  <2>2. EntryAt(d, q).directory
    BY <2>1, <1>2, DirIsDirectory
  <2>3. h \in InnerOf(d, f, hidden, c)
    BY <2>2, <1>2 DEF InnerOf, Base
  <2>4. QED
    BY <2>3 DEF IsReach, ClosedBelow
<1>3. ASSUME NEW c \in T, NEW q \in ShownIn(d, f, hidden, c), Base(d, q) = Base(d, p) PROVE FALSE
  <2>1. q \in Used(d) /\ InChain(ch, q[1], c)
    BY ShownIs
  <2>2. q = p
    BY <2>1, <1>3 DEF Layout, EntriesGood
  <2>3. c = h
    BY <2>1, <2>2, <1>1, LayoutGives
  <2>4. QED
    BY <2>3
<1>4. Base(d, p) \notin T
  BY <1>1, <1>3, ReachedFrom
<1>5. QED
  BY <1>1, <1>2, <1>3, <1>4 DEF Outside

\* At the start of the call, or when its directory grew, the disk was d0 with
\* the table g0, and with the places h0 left out it read as it still does.
Promised(d0, g0, h0, T, j, d, f) ==
  /\ Sound(d0, g0) /\ T \in SUBSET Dirs(d0) /\ IsReach(d0, g0, h0, T)
  /\ Alike(d0, g0, h0, T, d, f, Hidden(j))
  /\ f[0] = END_OF_FILE
  /\ j # Idle =>
       /\ j.fat[0] = END_OF_FILE
       /\ \A x \in Kept(d0, g0, h0, T) : j.fat[x] = g0[x]
  /\ j.pc \in {"allocate", "entry", "expanded"} => j.at = << >>
  /\ j.pc = "allocate" /\ j.index > 0 =>
       /\ j.cachedindex # 0 /\ j.cachedindex \notin Kept(d0, g0, h0, T)
       /\ j.startCluster \notin Kept(d0, g0, h0, T)
  /\ j.pc \in {"entry", "expanded", "table"} => j.startCluster \notin Kept(d0, g0, h0, T)
  /\ j.pc = "expanded" =>
       /\ j.cachedindex \notin KeptFiles(d0, g0, h0, T)
       /\ \A i \in Slot : EntryAt(d, <<j.cachedindex, i>>) = emptyEntry
  /\ j.pc \in {"table", "fat"} => \E p \in Used(d) :
       /\ j.at = <<p>> /\ Base(d, p) = j.startCluster
       /\ EntryAt(d, p).directory => j.fat[j.startCluster] = END_OF_FILE
       /\ j.pc = "table" => p[1] # j.startCluster
       /\ j.pc = "fat" /\ EntryAt(d, p).directory => \A q \in Used(d) : q[1] # j.startCluster
  /\ j.pc = "wipe" => /\ j.currentCluster \notin Kept(d0, g0, h0, T)
                      /\ j.marker \notin Kept(d0, g0, h0, T)
  /\ j.pc = "below" => j.below[1][1] \notin Kept(d0, g0, h0, T)
  /\ j.pc \in {"folder", "below", "wipe", "wiped", "unlink"} /\ j.at # << >> =>
       j.at[1][1] \notin KeptFiles(d0, g0, h0, T)

Promise(j, d, f) == \E d0, g0, h0, T : Promised(d0, g0, h0, T, j, d, f)

LEMMA HiddenIs ==
  /\ Hidden(Idle) = {}
  /\ \A j : j.at = << >> => Hidden(j) = {}
  /\ \A j, p : j # Idle /\ j.at = <<p>> => Hidden(j) = {p}
<1>1. ToSet(<< >>) = {} /\ \A p : ToSet(<<p>>) = {p}
  BY DEF ToSet
<1>2. QED
  BY <1>1 DEF Hidden

LEMMA PromisedReads ==
  ASSUME NEW d0, NEW g0, NEW h0, NEW T, NEW j, NEW d, NEW f \in FatType,
         Promised(d0, g0, h0, T, j, d, f)
  PROVE  TreeOn(d, f, j) = Reading(d0, g0, h0)
<1>1. PICK ch, rank : Layout(d0, g0, ch, rank)
  BY DEF Promised, Sound
<1>2. T \in SUBSET Dirs(d0) /\ IsReach(d0, g0, h0, T) /\ Alike(d0, g0, h0, T, d, f, Hidden(j))
  BY DEF Promised
<1>3. SameShown(d0, g0, h0, T, d, f, Hidden(j))
  BY <1>1, <1>2, AlikeShows
<1>4. Reading(d, f, Hidden(j)) = Reading(d0, g0, h0)
  BY <1>1, <1>2, <1>3, SameReads
<1>5. QED
  BY <1>4 DEF TreeOn, Reading

\* Nothing that is shown is in the clusters that change.
LEMMA AlikeStays ==
  ASSUME NEW d, NEW f, NEW hidden, NEW T, NEW b, NEW g, NEW hb, Alike(d, f, hidden, T, b, g, hb),
         NEW b2, NEW g2,
         \A x \in Kept(d, f, hidden, T) : b2[x] = b[x] /\ g2[x] = g[x]
  PROVE  Alike(d, f, hidden, T, b2, g2, hb)
<1>1. ASSUME NEW x \in Tables(f, T), NEW i \in Slot
      PROVE  EntryAt(b2, <<x, i>>) = EntryAt(b, <<x, i>>) /\ g2[x] = g[x]
  <2>1. b2[x] = b[x] /\ g2[x] = g[x]
    BY DEF Kept
  <2>2. QED
    BY <2>1 DEF EntryAt
<1>2. \A x \in KeptFiles(d, f, hidden, T) : b2[x] = b[x] /\ g2[x] = g[x]
  BY DEF Kept
<1>3. QED
  BY <1>1, <1>2, SizeBounds DEF Alike, Seen

LEMMA PromisedKept ==
  ASSUME NEW d0, NEW g0, NEW h0, NEW T, NEW j, NEW d, NEW f,
         Promised(d0, g0, h0, T, j, d, f)
  PROVE  \A x \in Kept(d0, g0, h0, T) :
           /\ x \in Cluster /\ x # 0 /\ f[x] = g0[x] /\ g0[x] # 0
           /\ j # Idle => j.fat[x] # 0
<1>1. PICK ch, rank : Layout(d0, g0, ch, rank)
  BY DEF Promised, Sound
<1>2. \A x \in Kept(d0, g0, h0, T) : x \in Cluster /\ x >= ROOT_CLUSTER_NUMBER /\ g0[x] # 0
  BY <1>1, KeptAre DEF Promised
<1>3. \A x \in Kept(d0, g0, h0, T) : f[x] = g0[x]
  BY DEF Promised, Alike, Kept
<1>4. QED
  BY <1>2, <1>3, Bounds DEF Promised
-----------------------------------------------------------------------------
(* The steps that keep it *)

LEMMA WriteClusterPromise ==
  ASSUME FsInv, WriteCluster, NEW d0, NEW g0, NEW h0, NEW T, Promised(d0, g0, h0, T, job, disk, fat)
  PROVE  Promised(d0, g0, h0, T, job', disk', fat')
<1> DEFINE K == Kept(d0, g0, h0, T)
           c0 == job.cachedindex
           i == FreeAfter(job.fat, c0)
           large == job.index > 0
           last == job.size <= CLUSTER_SIZE
           g == [c \in Cluster |-> IF large /\ c = c0 THEN i
                                   ELSE IF last /\ c = i THEN END_OF_FILE ELSE job.fat[c]]
<1>1. /\ job \in WriteJob /\ job.pc = "allocate" /\ job.fat \in FatType /\ disk \in DiskType
      /\ c0 \in Cluster /\ c0 \in Nat /\ job.index \in Nat /\ job # Idle /\ job.size \in Nat
  BY JobGives, Bounds DEF FsInv, WriteCluster, WriteJob, Idle
<1>2. /\ fat' = fat
      /\ disk' = IF job.size = 0 THEN disk ELSE [disk EXCEPT ![i] = Data(job.request, job.index)]
      /\ job' = [job EXCEPT
              !.pc           = IF last THEN "entry" ELSE @,
              !.fat          = g,
              !.size         = IF last THEN @ ELSE @ - CLUSTER_SIZE,
              !.cachedindex  = i,
              !.startCluster = IF large THEN @ ELSE i,
              !.index        = @ + 1]
  BY DEF WriteCluster
<1>3. FreeAbove(job.fat, c0) # {}
  <2>1. PICK ch, rank, s : Layout(disk, fat, ch, rank) /\ Taking(job, disk, fat, ch, s)
    BY <1>1 DEF FsInv, Progress
  <2> DEFINE n == Len(s)
             x == job.size \div CLUSTER_SIZE
  <2>2. /\ s \in Seq(Cluster)
        /\ \A k \in 1 .. n : s[k] <= c0
        /\ \A c \in Cluster : (\A k \in 1 .. n - 1 : s[k] # c) => job.fat[c] = fat[c]
        /\ Cardinality(FreeAbove(fat, c0)) >= x + 2
    BY <2>1 DEF Taking
  <2>3. n \in Nat /\ \A k \in 1 .. n : s[k] \in Nat
    BY <2>2, LenProperties, ElementOfSeq, Bounds
  <2>4. \A k \in 1 .. n - 1 : k \in 1 .. n
    BY <2>3
  <2> HIDE DEF n
  <2>5. \A c \in Cluster : c > c0 => job.fat[c] = fat[c]
    BY <2>2, <2>3, <2>4, <1>1, Bounds
  <2>6. FreeAbove(job.fat, c0) = FreeAbove(fat, c0)
    BY <2>5 DEF FreeAbove
  <2>7. x \in Nat
    BY <1>1, SizeBounds, DivMod
  <2>8. Cardinality({}) = 0
    BY FS_EmptySet
  <2> HIDE DEF x
  <2>9. ASSUME FreeAbove(fat, c0) = {} PROVE FALSE
    <3>1. 0 >= x + 2
      BY <2>2, <2>8, <2>9
    <3>2. QED
      BY <3>1, <2>7
  <2>10. QED
    BY <2>6, <2>9
<1>4. i \in Cluster /\ job.fat[i] = 0 /\ i \in Nat
  BY <1>1, <1>3, FreeAfterGives, Bounds DEF FreeAbove
<1>5. /\ job.fat[0] = END_OF_FILE /\ \A x \in K : job.fat[x] = g0[x]
      /\ large => c0 # 0 /\ c0 \notin K /\ job.startCluster \notin K
      /\ Alike(d0, g0, h0, T, disk, fat, Hidden(job))
      /\ job.at = << >> /\ fat[0] = END_OF_FILE
  BY <1>1 DEF Promised
<1>6. i \notin K /\ i # 0
  BY <1>1, <1>4, <1>5, PromisedKept, Bounds
<1> HIDE DEF i, K
<1>7. \A x \in K : x \in Cluster /\ g[x] = job.fat[x]
  BY <1>1, <1>5, <1>6, PromisedKept DEF K
<1>8. g[0] = END_OF_FILE
  BY <1>5, <1>6, Bounds
<1> HIDE DEF g, large, last, c0
<1>9. /\ job'.pc = (IF last THEN "entry" ELSE "allocate") /\ job'.fat = g /\ job'.cachedindex = i
      /\ job'.startCluster = (IF large THEN job.startCluster ELSE i) /\ job'.at = << >>
      /\ job'.index = job.index + 1
  BY <1>1, <1>2, <1>5 DEF WriteJob
<1>10. Hidden(job') = Hidden(job)
  BY <1>5, <1>9, HiddenIs
<1>11. \A x \in K : disk'[x] = disk[x]
  BY <1>1, <1>2, <1>6 DEF DiskType
<1>12. Alike(d0, g0, h0, T, disk', fat', Hidden(job'))
  BY <1>2, <1>5, <1>10, <1>11, AlikeStays DEF K
<1>13. job'.startCluster \notin K
  BY <1>5, <1>6, <1>9
<1>14. Sound(d0, g0) /\ T \in SUBSET Dirs(d0) /\ IsReach(d0, g0, h0, T)
  BY DEF Promised
<1>15. /\ fat'[0] = END_OF_FILE /\ job'.fat[0] = END_OF_FILE /\ \A x \in K : job'.fat[x] = g0[x]
       /\ job'.cachedindex # 0 /\ job'.cachedindex \notin K
  BY <1>2, <1>5, <1>6, <1>7, <1>8, <1>9
<1>16. job'.pc \in {"entry", "allocate"}
  BY <1>9
<1>17. QED
  BY <1>9, <1>12, <1>13, <1>14, <1>15, <1>16 DEF Promised, K

LEMMA CreateEntryPromise ==
  ASSUME FsInv, CreateEntry, NEW d0, NEW g0, NEW h0, NEW T, Promised(d0, g0, h0, T, job, disk, fat)
  PROVE  Promised(d0, g0, h0, T, job', disk', fat')
<1> DEFINE K == Kept(d0, g0, h0, T)
           r == job.request
           to == FreePlace(disk, job.fat, r.parent)
           p == to[1]
<1>1. job \in WriteJob /\ job.pc = "entry" /\ r \in Request /\ job.fat \in FatType /\ job # Idle
  BY JobGives DEF FsInv, CreateEntry, WriteJob, Idle
<1>2. PICK ch, rank, s : /\ Layout(disk, job.fat, ch, rank) /\ Awaits(disk, job.fat, ch, r, s)
                         /\ job.startCluster = s[1]
  BY <1>1 DEF FsInv, Progress, Waiting
<1>3. /\ to # << >> /\ fat' = fat
      /\ disk' = WithEntry(disk, p, NewEntry(r, s[1]))
      /\ job' = [job EXCEPT !.at = to, !.pc = IF r.buffer_size = 0 THEN "table" ELSE "fat"]
  BY <1>2 DEF CreateEntry, NewEntry
<1>4. /\ p \in Place /\ p \notin Used(disk) /\ InChain(ch, p[1], r.parent) /\ to = <<p>>
  <2>1. r.parent \in Heads(disk)
    BY <1>2, LayoutGives, UsedGives DEF Awaits, Welcome
  <2>2. Runs(job.fat, r.parent, ch[r.parent]) /\ \A q : In(ch[r.parent], q) <=> InChain(ch, q[1], r.parent)
    BY <1>2, <2>1, LayoutGives
  <2>3. Finds(ch[r.parent], Place \ Used(disk), to)
    BY <1>1, <2>2, FreePlaceFinds
  <2>4. PICK q \in Place : In(ch[r.parent], q) /\ q \in Place \ Used(disk) /\ to = <<q>>
    BY <1>3, <2>3 DEF Finds
  <2>5. p = q
    BY <2>4
  <2>6. QED
    BY <2>2, <2>4, <2>5
<1> HIDE DEF to, p
<1>5. /\ disk \in DiskType /\ IsDirectory(disk, p[1]) /\ s[1] \in Cluster
  BY <1>1, <1>2, <1>4, WithNewGives, LayoutGives
<1>6. p[1] # s[1]
  <2>1. Runs(job.fat, s[1], s) /\ Spare(disk, ch, s)
    BY <1>2 DEF Awaits
  <2>2. 1 \in 1 .. Len(s)
    BY <2>1, RunsGives
  <2>3. ~IsDirectory(disk, s[1])
    BY <2>1, <2>2 DEF Spare
  <2>4. QED
    BY <2>3, <1>5
<1>7. r.buffer_size = 0 => job.fat[s[1]] = END_OF_FILE
  <2>1. Runs(job.fat, s[1], s) /\ (r.buffer_size = 0 => Len(s) = 1)
    BY <1>2 DEF Awaits
  <2>2. QED
    BY <2>1, RunsGives
<1> DEFINE e == NewEntry(r, s[1])
<1>8. e \in EntryType \ {emptyEntry} /\ e.directory = (r.buffer_size = 0) /\ e.cluster_number = s[1]
  BY <1>1, <1>5, RequestGives DEF NewEntry
<1> HIDE DEF e
<1>8a. disk' = WithEntry(disk, p, e)
  BY <1>3 DEF e
<1>9. /\ EntryAt(disk', p) = e /\ \A q \in Place : q # p => EntryAt(disk', q) = EntryAt(disk, q)
      /\ \A c \in Cluster : c # p[1] => disk'[c] = disk[c]
  BY <1>4, <1>5, <1>8, <1>8a, WithEntryGives
<1>10. /\ job'.at = <<p>> /\ job'.fat = job.fat /\ job'.startCluster = s[1]
       /\ job'.pc = (IF r.buffer_size = 0 THEN "table" ELSE "fat") /\ job' # Idle
  BY <1>1, <1>2, <1>3, <1>4 DEF WriteJob, Idle
<1>11. /\ Alike(d0, g0, h0, T, disk, fat, Hidden(job)) /\ job.at = << >> /\ fat[0] = END_OF_FILE
       /\ job.fat[0] = END_OF_FILE /\ \A x \in K : job.fat[x] = g0[x]
       /\ s[1] \notin K
       /\ Sound(d0, g0) /\ T \in SUBSET Dirs(d0) /\ IsReach(d0, g0, h0, T)
  BY <1>1, <1>2 DEF Promised
<1>12. Hidden(job) = {} /\ Hidden(job') = {p}
  BY <1>10, <1>11, HiddenIs
<1>13. \A x \in K : x \in Cluster
  BY PromisedKept
<1>14. ASSUME NEW x \in Tables(g0, T), NEW i \in Slot
       PROVE  /\ Seen(disk', {p}, <<x, i>>) <=> Seen(disk, {}, <<x, i>>)
              /\ Seen(disk, {}, <<x, i>>) => EntryAt(disk', <<x, i>>) = EntryAt(disk, <<x, i>>)
  <2>1. <<x, i>> \in Place
    BY <1>13 DEF Kept, Place
  <2>2. CASE <<x, i>> = p
    <3>1. ~Seen(disk, {}, p) /\ ~Seen(disk', {p}, p)
      BY <1>4 DEF Seen, Used
    <3>2. QED
      BY <3>1, <2>2
  <2>3. CASE <<x, i>> # p
    <3> DEFINE q == <<x, i>>
    <3>1. EntryAt(disk', q) = EntryAt(disk, q) /\ q # p
      BY <2>1, <2>3, <1>9
    <3> HIDE DEF q
    <3>2. Seen(disk', {p}, q) <=> Seen(disk, {}, q)
      BY <3>1 DEF Seen
    <3>3. QED
      BY <3>1, <3>2 DEF q
  <2>4. QED
    BY <2>2, <2>3
<1>15. ASSUME NEW x \in KeptFiles(d0, g0, h0, T) PROVE disk'[x] = disk[x]
  <2>1. PICK ch0, rank0 : Layout(d0, g0, ch0, rank0)
    BY <1>11 DEF Sound
  <2>2. ~IsDirectory(d0, x) /\ disk[x] = d0[x] /\ x \in Cluster
    BY <2>1, <1>11, <1>13, KeptAre DEF Alike, Kept
  <2>3. x # p[1]
    BY <2>2, <1>5 DEF IsDirectory
  <2>4. QED
    BY <2>2, <2>3, <1>9
<1>16. Alike(d0, g0, h0, T, disk', fat', Hidden(job'))
  BY <1>3, <1>11, <1>12, <1>14, <1>15 DEF Alike
<1>17. p \in Used(disk') /\ Base(disk', p) = s[1] /\ EntryAt(disk', p).directory = (r.buffer_size = 0)
  BY <1>4, <1>8, <1>9 DEF Used, Base
<1>18. job'.pc \in {"table", "fat"} => \E q \in Used(disk') :
         /\ job'.at = <<q>> /\ Base(disk', q) = job'.startCluster
         /\ EntryAt(disk', q).directory => job'.fat[job'.startCluster] = END_OF_FILE
         /\ job'.pc = "table" => q[1] # job'.startCluster
         /\ job'.pc = "fat" /\ EntryAt(disk', q).directory => \A z \in Used(disk') : z[1] # job'.startCluster
  BY <1>6, <1>7, <1>10, <1>17
<1> HIDE DEF K
<1>19. QED
  BY <1>3, <1>10, <1>11, <1>16, <1>18 DEF Promised, K

LEMMA ExpandTablePromise ==
  ASSUME FsInv, ExpandTable, NEW d0, NEW g0, NEW h0, NEW T, Promised(d0, g0, h0, T, job, disk, fat)
  PROVE  Promised(d0, g0, h0, T, job', disk', fat')
<1> DEFINE K == Kept(d0, g0, h0, T)
           i == job.cachedindex
           b == disk'
<1>1. job \in WriteJob /\ job.pc = "expanded" /\ job # Idle /\ i \in Cluster /\ disk \in DiskType
  BY JobGives DEF FsInv, ExpandTable, WriteJob, Idle
<1>2. /\ b = [disk EXCEPT ![i] = Table(disk[job.request.parent].info)]
      /\ fat' = fat /\ job' = [job EXCEPT !.pc = "entry"]
  BY DEF ExpandTable
<1>3. /\ job'.pc = "entry" /\ job'.fat = job.fat /\ job'.at = job.at
      /\ job'.startCluster = job.startCluster /\ job' # Idle
  BY <1>1, <1>2 DEF WriteJob, Idle
<1>4. /\ Alike(d0, g0, h0, T, disk, fat, Hidden(job)) /\ job.at = << >> /\ fat[0] = END_OF_FILE
      /\ job.fat[0] = END_OF_FILE /\ \A x \in K : job.fat[x] = g0[x]
      /\ job.startCluster \notin K /\ i \notin KeptFiles(d0, g0, h0, T)
      /\ \A k \in Slot : EntryAt(disk, <<i, k>>) = emptyEntry
      /\ Sound(d0, g0) /\ T \in SUBSET Dirs(d0) /\ IsReach(d0, g0, h0, T)
  BY <1>1 DEF Promised
<1>5. Hidden(job) = {} /\ Hidden(job') = {}
  BY <1>3, <1>4, HiddenIs
<1>6. \A x \in K : x \in Cluster
  BY PromisedKept
<1>7. /\ b[i] = Table(disk[job.request.parent].info) /\ \A c \in Cluster : c # i => b[c] = disk[c]
  BY <1>1, <1>2 DEF DiskType
<1> HIDE DEF b, i
<1>8. ASSUME NEW x \in Tables(g0, T), NEW k \in Slot PROVE EntryAt(b, <<x, k>>) = EntryAt(disk, <<x, k>>)
  <2>1. x \in Cluster
    BY <1>6 DEF Kept
  <2>2. CASE x = i
    <3>1. EntryAt(b, <<i, k>>) = emptyEntry
      BY <1>7 DEF EntryAt, Table
    <3>2. QED
      BY <3>1, <2>2, <1>4
  <2>3. CASE x # i
    BY <2>1, <2>3, <1>7 DEF EntryAt
  <2>4. QED
    BY <2>2, <2>3
<1>9. \A x \in KeptFiles(d0, g0, h0, T) : b[x] = disk[x]
  BY <1>4, <1>6, <1>7 DEF Kept
<1>10. Alike(d0, g0, h0, T, b, fat, {})
  BY <1>4, <1>5, <1>8, <1>9 DEF Alike, Seen
<1> HIDE DEF K
<1>11. QED
  BY <1>2, <1>3, <1>4, <1>5, <1>10 DEF Promised, K, b

LEMMA InitTablePromise ==
  ASSUME FsInv, init_directory_table, NEW d0, NEW g0, NEW h0, NEW T,
         Promised(d0, g0, h0, T, job, disk, fat)
  PROVE  Promised(d0, g0, h0, T, job', disk', fat')
<1> DEFINE K == Kept(d0, g0, h0, T)
           n == job.startCluster
           b == disk'
<1>1. job \in WriteJob /\ job.pc = "table" /\ job # Idle /\ n \in Cluster /\ disk \in DiskType
  BY JobGives DEF FsInv, init_directory_table, WriteJob, Idle
<1>2. /\ b = [disk EXCEPT ![n] = Table(Info(job.request.parent, job.at[1][1], job.at[1][2], FOLDER_SIZE))]
      /\ fat' = fat /\ job' = [job EXCEPT !.pc = "fat"]
  BY DEF init_directory_table
<1>3. /\ job'.pc = "fat" /\ job'.fat = job.fat /\ job'.at = job.at
      /\ job'.startCluster = n /\ job' # Idle
  BY <1>1, <1>2 DEF WriteJob, Idle
<1>4. /\ Alike(d0, g0, h0, T, disk, fat, Hidden(job)) /\ fat[0] = END_OF_FILE
      /\ job.fat[0] = END_OF_FILE /\ \A x \in K : job.fat[x] = g0[x]
      /\ n \notin K
      /\ Sound(d0, g0) /\ T \in SUBSET Dirs(d0) /\ IsReach(d0, g0, h0, T)
  BY <1>1 DEF Promised
<1>5. PICK p \in Used(disk) : /\ job.at = <<p>> /\ Base(disk, p) = n /\ p[1] # n
                              /\ EntryAt(disk, p).directory => job.fat[n] = END_OF_FILE
  BY <1>1 DEF Promised
<1>6. Hidden(job') = Hidden(job)
  <2>1. Hidden(job) = {p}
    BY <1>1, <1>5, HiddenIs
  <2>2. job'.at = <<p>> /\ job' # Idle
    BY <1>3, <1>5
  <2>3. QED
    BY <2>1, <2>2, HiddenIs
<1>7. \A x \in K : x \in Cluster
  BY PromisedKept
<1>8. /\ \A k \in Slot : EntryAt(b, <<n, k>>) = emptyEntry
      /\ \A c \in Cluster : c # n => b[c] = disk[c]
  <2>1. /\ b[n] = Table(Info(job.request.parent, job.at[1][1], job.at[1][2], FOLDER_SIZE))
        /\ \A c \in Cluster : c # n => b[c] = disk[c]
    BY <1>1, <1>2 DEF DiskType
  <2> HIDE DEF b, n
  <2>2. QED
    BY <2>1 DEF EntryAt, Table
<1> HIDE DEF b, n
<1>9. Alike(d0, g0, h0, T, b, fat, Hidden(job'))
  BY <1>4, <1>6, <1>7, <1>8, AlikeStays
<1>10. p \in Used(b) /\ EntryAt(b, p) = EntryAt(disk, p)
  <2>1. p \in Place /\ p[1] \in Cluster
    BY <1>1, UsedGives
  <2>2. EntryAt(b, p) = EntryAt(disk, p)
    BY <2>1, <1>5, <1>8 DEF EntryAt
  <2>3. QED
    BY <2>1, <2>2 DEF Used
<1>11. \A q \in Used(b) : q[1] # n
  <2> SUFFICES ASSUME NEW q \in Place, q[1] = n PROVE EntryAt(b, q) = emptyEntry
    BY DEF Used
  <2>1. q = <<n, q[2]>> /\ q[2] \in Slot
    BY DEF Place
  <2>2. QED
    BY <2>1, <1>8
<1>12. \E q \in Used(b) :
         /\ job'.at = <<q>> /\ Base(b, q) = job'.startCluster
         /\ EntryAt(b, q).directory => job'.fat[job'.startCluster] = END_OF_FILE
         /\ job'.pc = "table" => q[1] # job'.startCluster
         /\ job'.pc = "fat" /\ EntryAt(b, q).directory => \A z \in Used(b) : z[1] # job'.startCluster
  BY <1>3, <1>5, <1>10, <1>11 DEF Base
<1> HIDE DEF K
<1>13. QED
  BY <1>2, <1>3, <1>4, <1>9, <1>12 DEF Promised, K, b
-----------------------------------------------------------------------------
(* The steps of a delete that keep it *)

\* The disk with the table in memory reads the same.
LEMMA PromisedIs ==
  ASSUME NEW d0, NEW g0, NEW h0, NEW T, NEW j, NEW d, NEW f,
         Promised(d0, g0, h0, T, j, d, f), j # Idle, j.fat \in FatType
  PROVE  /\ T \in SUBSET Dirs(d) /\ IsReach(d, j.fat, Hidden(j), T)
         /\ Kept(d, j.fat, Hidden(j), T) = Kept(d0, g0, h0, T)
         /\ Reading(d, j.fat, Hidden(j)) = Reading(d0, g0, h0)
<1> DEFINE g == j.fat
           H == Hidden(j)
<1>1. PICK ch, rank : Layout(d0, g0, ch, rank)
  BY DEF Promised, Sound
<1>2. /\ T \in SUBSET Dirs(d0) /\ IsReach(d0, g0, h0, T) /\ Alike(d0, g0, h0, T, d, f, H)
      /\ \A x \in Kept(d0, g0, h0, T) : g[x] = g0[x]
  BY DEF Promised
<1> HIDE DEF g, H
<1>3. g \in FatType
  BY DEF g
<1>4. Alike(d0, g0, h0, T, d, g, H)
  BY <1>2 DEF Alike, Kept
<1>5. /\ SameShown(d0, g0, h0, T, d, g, H)
      /\ Tables(g, T) = Tables(g0, T) /\ KeptFiles(d, g, H, T) = KeptFiles(d0, g0, h0, T)
  BY <1>1, <1>2, <1>3, <1>4, AlikeShows
<1>6. IsReach(d, g, H, T) /\ Reading(d, g, H) = Reading(d0, g0, h0)
  BY <1>1, <1>2, <1>5, SameReads
<1>7. ASSUME NEW x \in T PROVE x \in Dirs(d)
  <2>1. CASE x = ROOT_CLUSTER_NUMBER
    BY <2>1 DEF Dirs
  <2>2. CASE x # ROOT_CLUSTER_NUMBER
    <3>1. PICK c \in T : \E p \in ShownIn(d0, g0, h0, c) : EntryAt(d0, p).directory /\ x = Base(d0, p)
      BY <2>2, <1>1, <1>2, ReachedFrom
    <3>2. PICK p \in ShownIn(d0, g0, h0, c) : EntryAt(d0, p).directory /\ x = Base(d0, p)
      BY <3>1
    <3>3. p \in Place
      BY <1>1, <1>2, ShownIs DEF Used
    <3>4. p \in ShownIn(d, g, H, c) /\ EntryAt(d, p).directory /\ x = Base(d, p)
      BY <3>2, <1>5 DEF SameShown
    <3>5. p \in Used(d)
      BY <3>3, <3>4 DEF ShownIn, Used
    <3>6. QED
      BY <3>4, <3>5 DEF Dirs
  <2>3. QED
    BY <2>1, <2>2
<1>8. QED
  BY <1>5, <1>6, <1>7 DEF Kept, g, H

LEMMA FolderGives ==
  ASSUME FsInv, job.pc = "folder", NEW d0, NEW g0, NEW h0, NEW T,
         Promised(d0, g0, h0, T, job, disk, fat)
  PROVE  /\ job \in DeleteJob /\ job # Idle /\ job.fat \in FatType /\ disk \in DiskType
         /\ Sound(disk, job.fat)
         /\ \E top \in Used(disk) :
              job.at = <<top>> /\ EntryAt(disk, top).directory /\ Base(disk, top) = job.self
         /\ T \in SUBSET Dirs(disk) /\ IsReach(disk, job.fat, Hidden(job), T)
         /\ Kept(disk, job.fat, Hidden(job), T) = Kept(d0, g0, h0, T)
<1>1. job \in DeleteJob /\ job # Idle /\ job.fat \in FatType /\ disk \in DiskType
  BY JobGives DEF FsInv, DeleteJob, Idle
<1>2. /\ Sound(disk, job.fat) /\ job.at # << >>
      /\ EntryAt(disk, job.at[1]).directory /\ Base(disk, job.at[1]) = job.self
  BY DEF FsInv, Progress, Emptying
<1>3. \E top \in Used(disk) :
        job.at = <<top>> /\ EntryAt(disk, top).directory /\ Base(disk, top) = job.self
  <2>1. PICK p \in Place : job.at = <<p>>
    BY <1>1, <1>2 DEF DeleteJob
  <2>2. job.at[1] = p
    BY <2>1
  <2>3. emptyEntry.directory = FALSE
    BY DEF emptyEntry
  <2>4. p \in Used(disk)
    BY <2>2, <2>3, <1>2 DEF Used
  <2>5. QED
    BY <2>1, <2>2, <2>4, <1>2
<1>4. QED
  BY <1>1, <1>2, <1>3, PromisedIs

LEMMA SelfIsOutside ==
  ASSUME FsInv, job.pc = "folder", NEW d0, NEW g0, NEW h0, NEW T,
         Promised(d0, g0, h0, T, job, disk, fat)
  PROVE  /\ job.self \notin Kept(d0, g0, h0, T)
         /\ job.fat[job.self] \notin Kept(d0, g0, h0, T)
<1>1. PICK top \in Used(disk) : job.at = <<top>> /\ Base(disk, top) = job.self
  BY FolderGives
<1>2. PICK ch, rank : Layout(disk, job.fat, ch, rank)
  BY FolderGives DEF Sound
<1>3. top \in Hidden(job)
  BY <1>1, FolderGives, HiddenIs
<1>4. Outside(disk, job.fat, Hidden(job), T, job.self)
  BY <1>1, <1>2, <1>3, FolderGives, HiddenIsOutside
<1>5. InChain(ch, job.self, job.self)
  BY <1>2, <1>4, LayoutGives DEF Outside
<1>6. QED
  BY <1>2, <1>4, <1>5, FolderGives, OutsideGives

LEMMA BelowIsOutside ==
  ASSUME FsInv, job.pc = "folder", NEW d0, NEW g0, NEW h0, NEW T,
         Promised(d0, g0, h0, T, job, disk, fat),
         NEW below, below = NextBelow(disk, job.fat, job.self), below # << >>
  PROVE  \E p \in Used(disk) :
           /\ below = <<p>> /\ p[1] \notin Kept(d0, g0, h0, T)
           /\ Base(disk, p) \notin Kept(d0, g0, h0, T)
           /\ job.fat[Base(disk, p)] \notin Kept(d0, g0, h0, T)
           /\ Base(disk, p) \in Cluster /\ Base(disk, p) # 0
<1> DEFINE f == job.fat
           H == Hidden(job)
           K == Kept(d0, g0, h0, T)
           W == Dirs(disk) \ T
<1>1. PICK top \in Used(disk) :
        job.at = <<top>> /\ EntryAt(disk, top).directory /\ Base(disk, top) = job.self
  BY FolderGives
<1>2. PICK ch, rank : Layout(disk, f, ch, rank) /\ \A h \in Cluster : rank[h] < CLUSTER_COUNT
  BY FolderGives, RankIsSmall DEF Sound
<1>3. /\ disk \in DiskType /\ T \in SUBSET Dirs(disk) /\ IsReach(disk, f, H, T)
      /\ Kept(disk, f, H, T) = K /\ top \in H
  BY <1>1, FolderGives, HiddenIs
<1> HIDE DEF f, H, K
<1>4. job.self \in W
  <2>1. Outside(disk, f, H, T, job.self)
    BY <1>1, <1>2, <1>3, HiddenIsOutside
  <2>2. job.self \in Dirs(disk)
    BY <1>1, <1>3, UsedGives
  <2>3. QED
    BY <2>1, <2>2 DEF Outside
<1>5. ASSUME NEW p \in Used(disk), NEW h \in W, InChain(ch, p[1], h), EntryAt(disk, p).directory
      PROVE  Base(disk, p) \in W
  <2>1. Outside(disk, f, H, T, Base(disk, p))
    BY <1>2, <1>3, <1>5, UnreachedGives
  <2>2. Base(disk, p) \in Dirs(disk)
    BY <1>3, <1>5, UsedGives
  <2>3. QED
    BY <2>1, <2>2 DEF Outside
<1>6. W \in SUBSET Dirs(disk)
  OBVIOUS
<1>7. \A h \in W : h \in Dirs(disk) \ T
  OBVIOUS
<1> HIDE DEF W
<1>8. LastBelow(disk, ch, W, job.self, below)
  BY <1>2, <1>4, <1>5, <1>6, NextBelowFinds DEF f
<1>9. PICK p \in Used(disk), h \in W : below = <<p>> /\ InChain(ch, p[1], h)
  BY <1>8 DEF LastBelow
<1> DEFINE n == Base(disk, p)
<1>10. Outside(disk, f, H, T, h) /\ Outside(disk, f, H, T, n)
  BY <1>2, <1>3, <1>7, <1>9, UnreachedGives
<1>11. n \in Heads(disk) /\ InChain(ch, n, n) /\ n \in Cluster
  BY <1>2, <1>3, LayoutGives, UsedGives
<1>12. n >= ROOT_CLUSTER_NUMBER
  <2>1. Runs(f, n, ch[n])
    BY <1>2, <1>11, LayoutGives
  <2>2. 1 \in 1 .. Len(ch[n]) /\ ch[n][1] = n
    BY <2>1, RunsGives
  <2>3. QED
    BY <2>1, <2>2, RunsGives
<1> HIDE DEF n
<1>13. n # 0
  BY <1>12, Bounds
<1>14. p[1] \notin K /\ n \notin K /\ f[n] \notin K
  BY <1>2, <1>3, <1>9, <1>10, <1>11, OutsideGives
<1>15. QED
  BY <1>9, <1>11, <1>13, <1>14 DEF n, f, K

LEMMA DeleteRecursePromise ==
  ASSUME FsInv, deleteRecurse, NEW d0, NEW g0, NEW h0, NEW T, Promised(d0, g0, h0, T, job, disk, fat)
  PROVE  Promised(d0, g0, h0, T, job', disk', fat')
<1> DEFINE K == Kept(d0, g0, h0, T)
           below == NextBelow(disk, job.fat, job.self)
           n == EntryAt(disk, below[1]).cluster_number
           g == [job.fat EXCEPT ![n] = 0]
<1>1. job.pc = "folder" /\ below # << >>
  BY DEF deleteRecurse
<1>2. /\ job \in DeleteJob /\ job # Idle /\ job.fat \in FatType /\ disk \in DiskType
  BY <1>1, FolderGives
<1>3. /\ disk' = [disk EXCEPT ![n] = Zero] /\ fat' = fat
      /\ job' = [job EXCEPT !.pc = "below", !.fat = g, !.below = below]
  BY DEF deleteRecurse
<1> HIDE DEF below
<1>4. PICK p \in Used(disk) : /\ below = <<p>> /\ p[1] \notin K
                              /\ Base(disk, p) \notin K /\ Base(disk, p) \in Cluster /\ Base(disk, p) # 0
  BY <1>1, BelowIsOutside DEF below
<1>5. below[1] = p /\ n = Base(disk, p) /\ p[1] \in Cluster
  BY <1>2, <1>4, UsedGives DEF Base
<1> HIDE DEF n
<1>6. /\ Alike(d0, g0, h0, T, disk, fat, Hidden(job)) /\ fat[0] = END_OF_FILE
      /\ job.fat[0] = END_OF_FILE /\ \A x \in K : job.fat[x] = g0[x]
      /\ job.at # << >> => job.at[1][1] \notin KeptFiles(d0, g0, h0, T)
      /\ Sound(d0, g0) /\ T \in SUBSET Dirs(d0) /\ IsReach(d0, g0, h0, T)
  BY <1>1, <1>2 DEF Promised
<1>7. \A x \in K : x \in Cluster
  BY PromisedKept
<1> HIDE DEF K, g
<1>8. \A x \in K : disk'[x] = disk[x]
  <2> SUFFICES ASSUME NEW x \in K PROVE disk'[x] = disk[x]
    OBVIOUS
  <2>1. x \in Cluster /\ x # n
    BY <1>4, <1>5, <1>7
  <2>2. DOMAIN disk = Cluster
    BY <1>2 DEF DiskType
  <2>3. QED
    BY <2>1, <2>2, <1>3
<1>9. /\ job'.pc = "below" /\ job'.at = job.at /\ job'.fat = g /\ job'.below = below /\ job' # Idle
  BY <1>1, <1>2, <1>3 DEF DeleteJob, Idle
<1>10. g[0] = END_OF_FILE /\ \A x \in K : g[x] = g0[x]
  <2>1. DOMAIN job.fat = Cluster
    BY <1>2 DEF FatType
  <2>2. \A x \in Cluster : x # n => g[x] = job.fat[x]
    BY <2>1 DEF g
  <2>3. QED
    BY <2>2, <1>4, <1>5, <1>6, <1>7, Bounds
<1>11. Hidden(job') = Hidden(job)
  BY <1>2, <1>9 DEF Hidden
<1>12. fat' = fat
  BY <1>3
<1>13. Alike(d0, g0, h0, T, disk', fat', Hidden(job'))
  BY <1>6, <1>8, <1>11, <1>12, AlikeStays DEF K
<1>14. job'.below[1][1] \notin K
  BY <1>4, <1>5, <1>9
<1>15. QED
  BY <1>6, <1>9, <1>10, <1>12, <1>13, <1>14 DEF Promised, K

LEMMA DeleteRecurseEntryPromise ==
  ASSUME FsInv, DeleteRecurseEntry, NEW d0, NEW g0, NEW h0, NEW T,
         Promised(d0, g0, h0, T, job, disk, fat)
  PROVE  Promised(d0, g0, h0, T, job', disk', fat')
<1> DEFINE K == Kept(d0, g0, h0, T)
<1>1. job \in DeleteJob /\ job.pc = "below" /\ job # Idle /\ disk \in DiskType
  BY JobGives DEF FsInv, DeleteRecurseEntry, Idle
<1>2. /\ disk' = WithEntry(disk, job.below[1], emptyEntry) /\ fat' = fat
      /\ job' = [job EXCEPT !.pc = "folder", !.below = << >>]
  BY DEF DeleteRecurseEntry
<1>3. /\ Alike(d0, g0, h0, T, disk, fat, Hidden(job)) /\ fat[0] = END_OF_FILE
      /\ job.fat[0] = END_OF_FILE /\ \A x \in K : job.fat[x] = g0[x]
      /\ job.at # << >> => job.at[1][1] \notin KeptFiles(d0, g0, h0, T)
      /\ job.below[1][1] \notin K
      /\ Sound(d0, g0) /\ T \in SUBSET Dirs(d0) /\ IsReach(d0, g0, h0, T)
  BY <1>1 DEF Promised
<1>4. \A x \in K : x \in Cluster
  BY PromisedKept
<1> HIDE DEF K
<1>5. \A x \in K : disk'[x] = disk[x]
  BY <1>1, <1>2, <1>3, <1>4 DEF DiskType, WithEntry
<1>6. job'.pc = "folder" /\ job'.at = job.at /\ job'.fat = job.fat /\ job' # Idle
  BY <1>1, <1>2 DEF DeleteJob, Idle
<1>7. Hidden(job') = Hidden(job)
  BY <1>1, <1>6 DEF Hidden
<1>8. Alike(d0, g0, h0, T, disk', fat', Hidden(job'))
  BY <1>2, <1>3, <1>5, <1>7, AlikeStays DEF K
<1>9. QED
  BY <1>2, <1>3, <1>6, <1>8 DEF Promised, K

LEMMA AstrayPromise ==
  ASSUME FsInv, DeleteRecurseAstray, NEW d0, NEW g0, NEW h0, NEW T,
         Promised(d0, g0, h0, T, job, disk, fat)
  PROVE  Promised(d0, g0, h0, T, job', disk', fat')
<1> DEFINE K == Kept(d0, g0, h0, T)
           below == NextBelow(disk, job.fat, job.self)
           n == EntryAt(disk, below[1]).cluster_number
<1>1. job.pc = "folder" /\ below # << >>
  BY DEF DeleteRecurseAstray
<1>2. job \in DeleteJob /\ job # Idle
  BY <1>1, FolderGives
<1>3. /\ disk' = disk /\ fat' = fat
      /\ job' = [job EXCEPT !.pc = "wipe", !.currentCluster = n, !.marker = job.fat[n]]
  BY DEF DeleteRecurseAstray
<1> HIDE DEF below
<1>4. PICK p \in Used(disk) : below = <<p>> /\ Base(disk, p) \notin K /\ job.fat[Base(disk, p)] \notin K
  BY <1>1, BelowIsOutside DEF below
<1>5. n \notin K /\ job.fat[n] \notin K
  BY <1>4 DEF Base
<1> HIDE DEF n, K
<1>6. /\ job'.pc = "wipe" /\ job'.at = job.at /\ job'.fat = job.fat /\ job' # Idle
      /\ job'.currentCluster = n /\ job'.marker = job.fat[n]
  BY <1>2, <1>3 DEF DeleteJob, Idle
<1>7. Hidden(job') = Hidden(job)
  BY <1>2, <1>6 DEF Hidden
<1>8. QED
  BY <1>1, <1>2, <1>3, <1>5, <1>6, <1>7 DEF Promised, K

LEMMA FolderDonePromise ==
  ASSUME FsInv, FolderDone, NEW d0, NEW g0, NEW h0, NEW T, Promised(d0, g0, h0, T, job, disk, fat)
  PROVE  Promised(d0, g0, h0, T, job', disk', fat')
<1>1. job.pc = "folder" /\ disk' = disk /\ fat' = fat /\ job' = [job EXCEPT !.pc = "wipe"]
  BY DEF FolderDone
<1>2. job \in DeleteJob /\ job # Idle
  BY <1>1, FolderGives
<1>3. job.currentCluster = job.self /\ job.marker = job.fat[job.self]
  BY <1>1 DEF FsInv, Progress, Emptying
<1>4. /\ job'.pc = "wipe" /\ job'.at = job.at /\ job'.fat = job.fat /\ job' # Idle
      /\ job'.currentCluster = job.currentCluster /\ job'.marker = job.marker
  BY <1>1, <1>2 DEF DeleteJob, Idle
<1>5. job.self \notin Kept(d0, g0, h0, T) /\ job.fat[job.self] \notin Kept(d0, g0, h0, T)
  BY <1>1, SelfIsOutside
<1>6. Hidden(job') = Hidden(job)
  BY <1>2, <1>4 DEF Hidden
<1>7. QED
  BY <1>1, <1>2, <1>3, <1>4, <1>5, <1>6 DEF Promised

LEMMA WipePromise ==
  ASSUME FsInv, Wipe, NEW d0, NEW g0, NEW h0, NEW T, Promised(d0, g0, h0, T, job, disk, fat)
  PROVE  Promised(d0, g0, h0, T, job', disk', fat')
<1> DEFINE K == Kept(d0, g0, h0, T)
<1>1. /\ job \in DeleteJob /\ job.pc = "wipe" /\ job # Idle /\ disk \in DiskType
  BY JobGives DEF FsInv, Wipe, Idle
<1>2. /\ disk' = [disk EXCEPT ![job.currentCluster] = Zero] /\ fat' = fat
      /\ job' = IF job.marker = END_OF_FILE THEN [job EXCEPT !.pc = "wiped"]
                ELSE [job EXCEPT !.currentCluster = job.marker, !.marker = 0]
  BY DEF Wipe
<1>3. /\ Alike(d0, g0, h0, T, disk, fat, Hidden(job)) /\ fat[0] = END_OF_FILE
      /\ job.fat[0] = END_OF_FILE /\ \A x \in K : job.fat[x] = g0[x]
      /\ job.at # << >> => job.at[1][1] \notin KeptFiles(d0, g0, h0, T)
      /\ job.currentCluster \notin K /\ job.marker \notin K
      /\ Sound(d0, g0) /\ T \in SUBSET Dirs(d0) /\ IsReach(d0, g0, h0, T)
  BY <1>1 DEF Promised
<1>4. (\A x \in K : x \in Cluster) /\ 0 \notin K
  BY PromisedKept
<1> HIDE DEF K
<1>5. \A x \in K : disk'[x] = disk[x]
  BY <1>1, <1>2, <1>3, <1>4 DEF DiskType
<1>6. /\ job'.pc = (IF job.marker = END_OF_FILE THEN "wiped" ELSE "wipe") /\ job'.at = job.at
      /\ job'.fat = job.fat /\ job' # Idle
      /\ job.marker # END_OF_FILE => job'.currentCluster = job.marker /\ job'.marker = 0
  BY <1>1, <1>2 DEF DeleteJob, Idle
<1>7. Hidden(job') = Hidden(job)
  BY <1>1, <1>6 DEF Hidden
<1>8. Alike(d0, g0, h0, T, disk', fat', Hidden(job'))
  BY <1>2, <1>3, <1>5, <1>7, AlikeStays DEF K
<1>9. job'.pc = "wipe" => job'.currentCluster \notin K /\ job'.marker \notin K
  BY <1>3, <1>4, <1>6
<1>10. job'.pc \in {"wipe", "wiped"}
  BY <1>6
<1>11. QED
  BY <1>2, <1>3, <1>6, <1>8, <1>9, <1>10 DEF Promised, K

LEMMA DeleteFatPromise ==
  ASSUME FsInv, DeleteFat, NEW d0, NEW g0, NEW h0, NEW T, Promised(d0, g0, h0, T, job, disk, fat)
  PROVE  Promised(d0, g0, h0, T, job', disk', fat')
<1>1. job \in DeleteJob /\ job.pc = "wiped" /\ job # Idle
  BY JobGives DEF FsInv, DeleteFat, Idle
<1>2. disk' = disk /\ fat' = job.fat /\ job' = [job EXCEPT !.pc = "unlink"]
  BY DEF DeleteFat
<1>3. job'.pc = "unlink" /\ job'.at = job.at /\ job'.fat = job.fat /\ job' # Idle
  BY <1>1, <1>2 DEF DeleteJob, Idle
<1>4. Hidden(job') = Hidden(job)
  BY <1>1, <1>3 DEF Hidden
<1>5. /\ Alike(d0, g0, h0, T, disk, fat, Hidden(job))
      /\ \A x \in Kept(d0, g0, h0, T) : job.fat[x] = g0[x]
  BY <1>1 DEF Promised
<1>6. Alike(d0, g0, h0, T, disk', fat', Hidden(job'))
  BY <1>2, <1>4, <1>5 DEF Alike, Kept
<1>7. QED
  BY <1>1, <1>2, <1>3, <1>6 DEF Promised
-----------------------------------------------------------------------------
(* What an entry makes of the tree *)

\* A directory is reached if all that is hidden is further away from the root.
LEMMA FirstReached ==
  ASSUME NEW d, NEW f, NEW ch, NEW rank, Layout(d, f, ch, rank), NEW hidden,
         NEW T \in SUBSET Dirs(d), IsReach(d, f, hidden, T), NEW x \in Dirs(d),
         \A q \in Used(d) : q \in hidden /\ EntryAt(d, q).directory => rank[x] < rank[Base(d, q)]
  PROVE  x \in T
<1> SUFFICES ASSUME x \notin T PROVE FALSE
  OBVIOUS
<1> DEFINE Z == {z \in Dirs(d) \ T : rank[z] <= rank[x]}
           N == {rank[z] : z \in Z}
<1>1. d \in DiskType /\ rank \in [Cluster -> Nat] /\ Dirs(d) \subseteq Cluster
  BY LayoutGives, UsedGives DEF Layout, TypesGood
<1>2. \A z \in Dirs(d) : rank[z] \in Nat
  BY <1>1
<1>3. N \in SUBSET Nat /\ N # {}
  BY <1>2
<1>4. PICK m \in N : \A y \in N : m <= y
  BY <1>3, LeastNat
<1>5. PICK y \in Z : \A z \in Z : rank[y] <= rank[z]
  BY <1>4
<1>6. y # ROOT_CLUSTER_NUMBER
  BY DEF IsReach, ClosedBelow
<1>7. PICK p \in Used(d) : y = Base(d, p) /\ EntryAt(d, p).directory
  BY <1>1, <1>6, UsedGives
<1>8. PICK b \in Dirs(d) : InChain(ch, p[1], b)
  BY LayoutGives
<1>9. rank[b] < rank[y]
  BY <1>7, <1>8 DEF Layout, HomesGood
<1>10. rank[b] \in Nat /\ rank[y] \in Nat /\ rank[x] \in Nat /\ rank[y] <= rank[x]
  BY <1>2
<1>11. b \in T
  <2>1. rank[b] <= rank[x] /\ ~(rank[y] <= rank[b])
    BY <1>9, <1>10
  <2>2. QED
    BY <2>1, <1>5
<1>12. p \notin hidden
  <2>1. ~(rank[x] < rank[y])
    BY <1>10
  <2>2. QED
    BY <2>1, <1>7
<1>13. p \in ShownIn(d, f, hidden, b)
  BY <1>8, <1>11, <1>12, ShownIs
<1>14. y \in InnerOf(d, f, hidden, b)
  BY <1>7, <1>13 DEF InnerOf, Base
<1>15. QED
  BY <1>11, <1>14 DEF IsReach, ClosedBelow

\* What is reached, and what is shown in it, without the place of an entry.
LEMMA WithoutPlace ==
  ASSUME NEW d, NEW f, NEW ch, NEW rank, Layout(d, f, ch, rank), NEW p \in Used(d),
         NEW T0 \in SUBSET Dirs(d), IsReach(d, f, {}, T0),
         NEW T1 \in SUBSET Dirs(d), IsReach(d, f, {p}, T1)
  PROVE  /\ T0 = Dirs(d)
         /\ ~EntryAt(d, p).directory => T1 = Dirs(d)
         /\ \E b \in T1 : InChain(ch, p[1], b)
         /\ Base(d, p) \notin T1
<1>1. T0 = Dirs(d)
  BY FirstReached
<1>2. ~EntryAt(d, p).directory => T1 = Dirs(d)
  BY FirstReached
<1>3. PICK b \in Dirs(d) : InChain(ch, p[1], b)
  BY LayoutGives
<1>4. EntryAt(d, p).directory => rank[b] < rank[Base(d, p)]
  BY <1>3 DEF Layout, HomesGood
<1>5. b \in T1
  <2>1. \A q \in Used(d) : q \in {p} /\ EntryAt(d, q).directory => rank[b] < rank[Base(d, q)]
    BY <1>4
  <2>2. QED
    BY <2>1, FirstReached
<1>6. Base(d, p) \notin T1
  BY HiddenIsOutside DEF Outside
<1>7. QED
  BY <1>1, <1>2, <1>3, <1>5, <1>6

LEMMA NodeGives ==
  ASSUME NEW d, NEW f, NEW ch, NEW rank, Layout(d, f, ch, rank), NEW p \in Used(d)
  PROVE  LET node == NodeOf(d, f, EntryAt(d, p))
         IN  /\ node.folder = EntryAt(d, p).directory
             /\ EntryAt(d, p).directory => node = [folder |-> TRUE, handle |-> Base(d, p)]
             /\ node.folder => node.handle = Base(d, p)
<1>1. EntryAt(d, p).directory \in BOOLEAN
  BY LayoutGives, UsedGives, EntryGives
<1>2. CASE EntryAt(d, p).directory
  BY <1>2 DEF NodeOf, Base
<1>3. CASE ~EntryAt(d, p).directory
  BY <1>1, <1>3 DEF NodeOf
<1>4. QED
  BY <1>2, <1>3

\* The folders of the tree are the directories reached.
LEMMA HandlesAre ==
  ASSUME NEW d, NEW f, NEW ch, NEW rank, Layout(d, f, ch, rank), NEW hidden,
         NEW T \in SUBSET Dirs(d), IsReach(d, f, hidden, T),
         NEW t, Shows(d, f, ch, hidden, T, t)
  PROVE  Tree!Handles(t) \cup {ROOT_CLUSTER_NUMBER} = T
<1>1. ROOT_CLUSTER_NUMBER \in T
  BY DEF IsReach, ClosedBelow
<1>2. ASSUME NEW x \in Tree!Handles(t) PROVE x \in T
  <2>1. PICK k \in DOMAIN t : t[k].folder /\ x = t[k].handle
    BY <1>2 DEF Tree!Handles
  <2>2. PICK c, p : Leads(d, ch, hidden, T, c, p) /\ k = KeyOf(c, EntryAt(d, p))
    BY <2>1 DEF Shows
  <2>3. t[k] = NodeOf(d, f, EntryAt(d, p)) /\ p \in Used(d)
        /\ (EntryAt(d, p).directory => Base(d, p) \in T)
    BY <2>2 DEF Shows, Leads
  <2>4. QED
    BY <2>1, <2>3, NodeGives
<1>3. ASSUME NEW x \in T, x # ROOT_CLUSTER_NUMBER PROVE x \in Tree!Handles(t)
  <2>1. PICK c \in T : \E p \in ShownIn(d, f, hidden, c) : EntryAt(d, p).directory /\ x = Base(d, p)
    BY <1>3, ReachedFrom
  <2>2. PICK p \in ShownIn(d, f, hidden, c) : EntryAt(d, p).directory /\ x = Base(d, p)
    BY <2>1
  <2>3. Leads(d, ch, hidden, T, c, p)
    BY ShownIs DEF Leads
  <2> DEFINE k == KeyOf(c, EntryAt(d, p))
  <2>4. k \in DOMAIN t /\ t[k] = NodeOf(d, f, EntryAt(d, p)) /\ p \in Used(d)
    BY <2>3 DEF Shows, Leads
  <2> HIDE DEF k
  <2>5. t[k].folder /\ t[k].handle = x
    BY <2>2, <2>4, NodeGives
  <2>6. QED
    BY <2>4, <2>5 DEF Tree!Handles
<1>4. QED
  BY <1>1, <1>2, <1>3

\* Of two entries with the same key both are the same place.
LEMMA OneKey ==
  ASSUME NEW d, NEW f, NEW ch, NEW rank, Layout(d, f, ch, rank),
         NEW c \in Dirs(d), NEW b \in Dirs(d), NEW p \in Used(d), NEW q \in Used(d),
         InChain(ch, p[1], c), InChain(ch, q[1], b), KeyOf(c, EntryAt(d, p)) = KeyOf(b, EntryAt(d, q))
  PROVE  p = q /\ c = b
<1>1. c = b /\ EntryAt(d, p).name = EntryAt(d, q).name /\ EntryAt(d, p).ext = EntryAt(d, q).ext
  BY DEF KeyOf
<1>2. QED
  BY <1>1 DEF Layout, NamesGood

\* t1 is t0 without the key of the entry at p and everything below it.
Hides(d, ch, p, t0, t1) ==
  \E b \in Dirs(d) : \E k \in DOMAIN t0 \ DOMAIN t1 :
    /\ InChain(ch, p[1], b) /\ k = KeyOf(b, EntryAt(d, p))
    /\ t1 = [j \in DOMAIN t0 \ Tree!Below(t0, k) |-> t0[j]]
    /\ ~EntryAt(d, p).directory => DOMAIN t0 \ DOMAIN t1 = {k}

\* Without the place of an entry its name is gone with everything below it.
LEMMA HideIs ==
  ASSUME NEW d, NEW f, NEW ch, NEW rank, Layout(d, f, ch, rank), NEW p \in Used(d),
         NEW t0, t0 = Reading(d, f, {}), NEW t1, t1 = Reading(d, f, {p})
  PROVE  Hides(d, ch, p, t0, t1)
<1>1. PICK T0 \in SUBSET Dirs(d) : IsReach(d, f, {}, T0)
  BY ReachLayout
<1>2. PICK T1 \in SUBSET Dirs(d) : IsReach(d, f, {p}, T1)
  BY ReachLayout
<1>3. /\ T0 = Dirs(d) /\ Base(d, p) \notin T1
      /\ ~EntryAt(d, p).directory => T1 = Dirs(d)
      /\ \E b \in T1 : InChain(ch, p[1], b)
  BY <1>1, <1>2, WithoutPlace
<1>4. PICK b \in T1 : InChain(ch, p[1], b)
  BY <1>3
<1> DEFINE k == KeyOf(b, EntryAt(d, p))
           G == DOMAIN t0 \ DOMAIN t1
           L0(c, q) == Leads(d, ch, {}, T0, c, q)
           L1(c, q) == Leads(d, ch, {p}, T1, c, q)
<1>5. Shows(d, f, ch, {}, T0, t0) /\ Shows(d, f, ch, {p}, T1, t1)
  BY <1>1, <1>2, ReadingGives
<1>6. /\ d \in DiskType /\ Dirs(d) \subseteq Heads(d)
      /\ \A q \in Used(d) : EntryAt(d, q).directory => Base(d, q) \in Dirs(d)
      /\ \A x, y \in Dirs(d) : \A c : InChain(ch, c, x) /\ InChain(ch, c, y) => x = y
  <2>1. /\ d \in DiskType
        /\ \A x, y \in Heads(d) : \A c : InChain(ch, c, x) /\ InChain(ch, c, y) => x = y
    BY LayoutGives
  <2>2. QED
    BY <2>1, UsedGives
<1>7. \A c, q : L1(c, q) => L0(c, q)
  BY <1>3 DEF Leads
<1>8. \A c, q : L0(c, q) => L1(c, q) \/ (c = b /\ q = p) \/ c \notin T1
  <2> SUFFICES ASSUME NEW c, NEW q, L0(c, q), c \in T1, q = p PROVE c = b
    BY DEF Leads
  <2>1. QED
    BY <1>4, <1>6 DEF Leads
<1>9. ASSUME NEW j \in DOMAIN t1 PROVE j \in DOMAIN t0 /\ t1[j] = t0[j] /\ j # k /\ j.in \in T1
  <2>1. PICK c, q : L1(c, q) /\ j = KeyOf(c, EntryAt(d, q))
    BY <1>5 DEF Shows
  <2>2. L0(c, q)
    BY <2>1, <1>7
  <2>3. t1[j] = NodeOf(d, f, EntryAt(d, q))
    BY <2>1, <1>5 DEF Shows
  <2>4. j \in DOMAIN t0 /\ t0[j] = NodeOf(d, f, EntryAt(d, q))
    BY <2>1, <2>2, <1>5 DEF Shows
  <2>5. j.in \in T1
    BY <2>1 DEF KeyOf, Leads
  <2>6. j # k
    <3>1. q \in Used(d) /\ InChain(ch, q[1], c) /\ c \in Dirs(d) /\ q # p /\ b \in Dirs(d)
      BY <2>1 DEF Leads
    <3>2. QED
      BY <3>1, <2>1, <1>4, OneKey
  <2>7. QED
    BY <2>3, <2>4, <2>5, <2>6
<1>10. L0(b, p)
  BY <1>3, <1>4 DEF Leads
<1>11. k \in G /\ t0[k] = NodeOf(d, f, EntryAt(d, p))
  BY <1>5, <1>9, <1>10 DEF Shows
<1> HIDE DEF k
<1>12. ASSUME NEW j \in DOMAIN t0
       PROVE  \E c, q : /\ L0(c, q) /\ j = KeyOf(c, EntryAt(d, q)) /\ j.in = c /\ q \in Used(d)
                        /\ t0[j] = NodeOf(d, f, EntryAt(d, q))
  <2>1. PICK c, q : L0(c, q) /\ j = KeyOf(c, EntryAt(d, q))
    BY <1>5 DEF Shows
  <2>2. t0[j] = NodeOf(d, f, EntryAt(d, q)) /\ q \in Used(d) /\ j.in = c
    BY <2>1, <1>5 DEF Shows, Leads, KeyOf
  <2>3. QED
    BY <2>1, <2>2
<1>13. Tree!Closed(t0, G)
  <2> SUFFICES ASSUME NEW j \in G, t0[j].folder, NEW i \in DOMAIN t0, i.in = t0[j].handle, i \in DOMAIN t1
               PROVE  FALSE
    BY DEF Tree!Closed
  <2>1. PICK c, q : /\ L0(c, q) /\ j = KeyOf(c, EntryAt(d, q)) /\ q \in Used(d)
                    /\ t0[j] = NodeOf(d, f, EntryAt(d, q))
    BY <1>12
  <2>2. EntryAt(d, q).directory /\ t0[j].handle = Base(d, q)
    BY <2>1, NodeGives
  <2>3. Base(d, q) \in T1
    BY <2>2, <1>9
  <2>4. Base(d, q) # ROOT_CLUSTER_NUMBER
    BY <2>1 DEF Layout, EntriesGood
  <2>5. PICK c2 \in T1 : \E q2 \in ShownIn(d, f, {p}, c2) : Base(d, q) = Base(d, q2)
    BY <2>3, <2>4, <1>2, ReachedFrom
  <2>6. PICK q2 \in ShownIn(d, f, {p}, c2) : Base(d, q) = Base(d, q2)
    BY <2>5
  <2>7. q2 \in Used(d) /\ InChain(ch, q2[1], c2) /\ q2 \notin {p}
    BY ShownIs
  <2>8. q2 = q
    BY <2>1, <2>6, <2>7 DEF Layout, EntriesGood
  <2>9. c2 = c
    BY <2>1, <2>7, <2>8, <1>3, <1>6 DEF Leads
  <2>10. L1(c, q)
    BY <2>7, <2>8, <2>9 DEF Leads
  <2>11. j \in DOMAIN t1
    BY <2>1, <2>10, <1>5 DEF Shows
  <2>12. QED
    BY <2>11
<1>14. ASSUME NEW S \in SUBSET DOMAIN t0, k \in S, Tree!Closed(t0, S), NEW j \in G PROVE j \in S
  <2> DEFINE All(c) == \A i \in DOMAIN t0 : i.in = c => i \in S
             D == T1 \cup {c \in Dirs(d) : All(c)}
  <2>1. ASSUME NEW c, NEW q, L0(c, q), KeyOf(c, EntryAt(d, q)) \in S, EntryAt(d, q).directory
        PROVE  Base(d, q) \in Dirs(d) /\ All(Base(d, q))
    <3> DEFINE i == KeyOf(c, EntryAt(d, q))
    <3>1. t0[i] = NodeOf(d, f, EntryAt(d, q)) /\ q \in Used(d)
      BY <2>1, <1>5 DEF Shows, Leads
    <3>2. t0[i].folder /\ t0[i].handle = Base(d, q)
      BY <3>1, <2>1, NodeGives
    <3>3. i \in S
      BY <2>1
    <3> HIDE DEF i
    <3>4. QED
      BY <3>1, <3>2, <3>3, <2>1, <1>6, <1>14 DEF Tree!Closed
  <2>2. ASSUME NEW c \in D, NEW x \in InnerOf(d, f, {}, c) PROVE x \in D
    <3>1. c \in Dirs(d)
      OBVIOUS
    <3>2. PICK q \in Used(d) : InChain(ch, q[1], c) /\ EntryAt(d, q).directory /\ x = Base(d, q)
      BY <3>1, <2>2, ShownIs
    <3>3. L0(c, q)
      BY <3>1, <3>2, <1>3 DEF Leads
    <3>4. CASE c \in T1 /\ q # p
      <4>1. q \in ShownIn(d, f, {p}, c)
        BY <3>1, <3>2, <3>4, ShownIs
      <4>2. x \in InnerOf(d, f, {p}, c)
        BY <4>1, <3>2 DEF InnerOf, Base
      <4>3. QED
        BY <4>2, <3>4, <1>2 DEF IsReach, ClosedBelow
    <3>5. CASE c \in T1 /\ q = p
      <4>1. c = b
        BY <3>1, <3>2, <3>5, <1>4, <1>6
      <4>2. KeyOf(c, EntryAt(d, q)) \in S
        BY <4>1, <3>5, <1>14 DEF k
      <4>3. QED
        BY <4>2, <3>2, <3>3, <2>1
    <3>6. CASE c \notin T1
      <4>1. All(c)
        BY <3>6
      <4>2. KeyOf(c, EntryAt(d, q)) \in DOMAIN t0 /\ KeyOf(c, EntryAt(d, q)).in = c
        BY <3>3, <1>5 DEF Shows, KeyOf
      <4>3. KeyOf(c, EntryAt(d, q)) \in S
        BY <4>1, <4>2
      <4>4. QED
        BY <4>3, <3>2, <3>3, <2>1
    <3>7. QED
      BY <3>4, <3>5, <3>6
  <2>3. D \in SUBSET Cluster
    BY <1>6, UsedGives
  <2>4. ClosedBelow(d, f, {}, D)
    <3>1. ROOT_CLUSTER_NUMBER \in T1
      BY <1>2 DEF IsReach, ClosedBelow
    <3> HIDE DEF D
    <3>2. \A c \in D : InnerOf(d, f, {}, c) \subseteq D
      BY <2>2
    <3>3. QED
      BY <3>1, <3>2 DEF ClosedBelow, D
  <2>5. T0 \subseteq D
    BY <2>3, <2>4, <1>1 DEF IsReach
  <2>6. PICK c, q : L0(c, q) /\ j = KeyOf(c, EntryAt(d, q)) /\ j.in = c
    BY <1>12
  <2>7. c \in D
    BY <2>5, <2>6 DEF Leads
  <2>8. CASE c \notin T1
    BY <2>6, <2>7, <2>8
  <2>9. CASE c \in T1
    <3>1. ~L1(c, q)
      BY <2>6, <1>5 DEF Shows
    <3>2. c = b /\ q = p
      BY <3>1, <2>6, <2>9, <1>8
    <3>3. QED
      BY <3>2, <2>6, <1>14 DEF k
  <2>10. QED
    BY <2>8, <2>9
<1>15. Tree!Below(t0, k) = G
  <2>1. G \in SUBSET DOMAIN t0 /\ k \in G
    BY <1>11
  <2> HIDE DEF G
  <2>2. ASSUME NEW j \in Tree!Below(t0, k) PROVE j \in G
    BY <2>1, <2>2, <1>13 DEF Tree!Below
  <2>3. ASSUME NEW j \in G PROVE j \in Tree!Below(t0, k)
    <3>1. j \in DOMAIN t0
      BY <2>1
    <3>2. QED
      BY <3>1, <1>14 DEF Tree!Below
  <2>4. QED
    BY <2>2, <2>3
<1>16. t1 = [j \in DOMAIN t0 \ Tree!Below(t0, k) |-> t0[j]]
  <2>1. DOMAIN t0 \ Tree!Below(t0, k) = DOMAIN t1
    BY <1>9, <1>15
  <2>2. t1 = [j \in DOMAIN t1 |-> t1[j]]
    BY <1>5 DEF Shows
  <2>3. QED
    BY <2>1, <2>2, <1>9
<1>17. ~EntryAt(d, p).directory => G = {k}
  <2> SUFFICES ASSUME ~EntryAt(d, p).directory, NEW j \in G PROVE j = k
    BY <1>11
  <2>1. PICK c, q : L0(c, q) /\ j = KeyOf(c, EntryAt(d, q))
    BY <1>12
  <2>2. c \in T1
    BY <2>1, <1>3 DEF Leads
  <2>3. ~L1(c, q)
    BY <2>1, <1>5 DEF Shows
  <2>4. QED
    BY <2>1, <2>2, <2>3, <1>8 DEF k
<1>18. QED
  BY <1>4, <1>11, <1>16, <1>17 DEF k, Hides

\* What a file reads as is what was written into it.
LEMMA FileIs ==
  ASSUME NEW d, NEW f, NEW ch, NEW rank, Layout(d, f, ch, rank), NEW p \in Used(d),
         NEW b \in Dirs(d), InChain(ch, p[1], b), ~EntryAt(d, p).directory,
         NEW k, k = KeyOf(b, EntryAt(d, p))
  PROVE  /\ EntryAt(d, p).size \in FileSizes
         /\ NodeOf(d, f, EntryAt(d, p)) =
              [folder |-> FALSE, content |-> WrittenFor(k, EntryAt(d, p).size)]
<1> DEFINE e == EntryAt(d, p)
           h == e.cluster_number
           s == ch[h]
           n == (e.size + CLUSTER_SIZE - 1) \div CLUSTER_SIZE
<1>1. e \in EntryType /\ e # emptyEntry /\ h \in Heads(d)
  BY LayoutGives, UsedGives DEF Base
<1>2. e.size \in FileSizes
  BY <1>1, EntryGives
<1>3. Len(s) = n /\ \A i \in DOMAIN s : d[s[i]] = Data([parent |-> b, name |-> e.name, ext |-> e.ext], i - 1)
  BY DEF Layout, HomesGood, Stored, Base
<1>4. Chain(f, h) = s /\ DOMAIN s = 1 .. Len(s)
  BY <1>1, LayoutGives
<1>5. k.in = b /\ k.name = e.name /\ k.ext = e.ext
  BY DEF KeyOf
<1> HIDE DEF s, n, e, h
<1>6. self_directory_info(d, f, h) = [i \in 1 .. n |-> Data([parent |-> k.in, name |-> k.name, ext |-> k.ext], i - 1)]
  BY <1>3, <1>4, <1>5 DEF self_directory_info
<1>7. Contents(d, f, e) = WrittenFor(k, e.size)
  BY <1>6 DEF Contents, WrittenFor, n, h
<1>8. QED
  BY <1>2, <1>7 DEF NodeOf, e

\* t1 is t0 with one key more, of a file as it was written or a new folder.
Gains(t0, t1, k) ==
  /\ k \in DOMAIN t1 /\ k \in [in : Cluster, name : Names, ext : Exts \cup {NoExt}] \ DOMAIN t0 /\ k.in \in Tree!Handles(t0) \cup {ROOT_CLUSTER_NUMBER}
  /\ \/ t1[k] \in Tree!FileNodes(k)
     \/ t1[k] \in Tree!FolderNodes /\ t1[k].handle \notin Tree!Handles(t0) \cup {ROOT_CLUSTER_NUMBER}
  /\ t1 = [j \in DOMAIN t0 \cup {k} |-> IF j = k THEN t1[k] ELSE t0[j]]

\* The place of an entry whose directory, if it is one, is empty adds its name.
LEMMA CreateIs ==
  ASSUME NEW d, NEW f, NEW ch, NEW rank, Layout(d, f, ch, rank), NEW p \in Used(d),
         EntryAt(d, p).directory =>
           f[Base(d, p)] = END_OF_FILE /\ \A q \in Used(d) : q[1] # Base(d, p),
         NEW t0, t0 = Reading(d, f, {p}), NEW t1, t1 = Reading(d, f, {})
  PROVE  \E k : Gains(t0, t1, k)
<1>1. PICK T1 \in SUBSET Dirs(d) : IsReach(d, f, {}, T1)
  BY ReachLayout
<1>2. PICK T0 \in SUBSET Dirs(d) : IsReach(d, f, {p}, T0)
  BY ReachLayout
<1>3. /\ T1 = Dirs(d) /\ Base(d, p) \notin T0
      /\ \E b \in T0 : InChain(ch, p[1], b)
  BY <1>1, <1>2, WithoutPlace
<1>4. PICK b \in T0 : InChain(ch, p[1], b)
  BY <1>3
<1> DEFINE e == EntryAt(d, p)
           n == Base(d, p)
           k == KeyOf(b, e)
           L0(c, q) == Leads(d, ch, {p}, T0, c, q)
           L1(c, q) == Leads(d, ch, {}, T1, c, q)
<1>5. Shows(d, f, ch, {p}, T0, t0) /\ Shows(d, f, ch, {}, T1, t1)
  BY <1>1, <1>2, ReadingGives
<1>6. /\ d \in DiskType /\ Dirs(d) \subseteq Heads(d) /\ Heads(d) \subseteq Cluster
      /\ n \in Heads(d) /\ e \in EntryType /\ e # emptyEntry
      /\ \A x, y \in Dirs(d) : \A c : InChain(ch, c, x) /\ InChain(ch, c, y) => x = y
  <2>1. /\ d \in DiskType
        /\ \A x, y \in Heads(d) : \A c : InChain(ch, c, x) /\ InChain(ch, c, y) => x = y
    BY LayoutGives
  <2>2. QED
    BY <2>1, UsedGives
<1>7. ASSUME e.directory, NEW q \in Used(d), InChain(ch, q[1], n) PROVE FALSE
  <2>1. Runs(f, n, ch[n]) /\ DOMAIN ch[n] = 1 .. Len(ch[n])
    BY <1>6, LayoutGives
  <2>2. /\ Len(ch[n]) \in Nat /\ Len(ch[n]) >= 1 /\ ch[n][1] = n
        /\ \A i \in 1 .. Len(ch[n]) :
             ch[n][i] \in Cluster /\ f[ch[n][i]] = IF i = Len(ch[n]) THEN END_OF_FILE ELSE ch[n][i + 1]
    BY <2>1, RunsGives
  <2>3. Len(ch[n]) = 1
    <3> SUFFICES ASSUME Len(ch[n]) # 1 PROVE FALSE
      OBVIOUS
    <3> DEFINE m == Len(ch[n])
    <3>0. m \in Nat /\ m >= 1 /\ m # 1
      BY <2>2
    <3> HIDE DEF m
    <3>1. 1 \in 1 .. m /\ 1 + 1 \in 1 .. m
      BY <3>0
    <3>2. ch[n][1 + 1] = END_OF_FILE /\ ch[n][1 + 1] \in Cluster
      BY <3>0, <3>1, <2>2, <1>7 DEF m
    <3>3. QED
      BY <3>2, Bounds
  <2>4. PICK i \in 1 .. Len(ch[n]) : ch[n][i] = q[1]
    BY <2>1, <1>7 DEF InChain
  <2>5. q[1] = n
    BY <2>2, <2>3, <2>4
  <2>6. QED
    BY <2>5, <1>7
<1>8. \A c \in T1 : c \in T0 \/ (e.directory /\ c = n)
  <2> DEFINE D == T0 \cup (IF e.directory THEN {n} ELSE {})
  <2>1. D \in SUBSET Dirs(d)
    BY UsedGives, <1>6
  <2>2. ASSUME NEW c \in D, NEW x \in InnerOf(d, f, {}, c) PROVE x \in D
    <3>1. PICK q \in Used(d) : InChain(ch, q[1], c) /\ EntryAt(d, q).directory /\ x = Base(d, q)
      BY <2>1, <2>2, ShownIs
    <3>2. CASE q = p
      BY <3>1, <3>2
    <3>3. CASE q # p
      <4>1. c \in T0
        BY <3>1, <1>7
      <4>2. q \in ShownIn(d, f, {p}, c)
        BY <4>1, <3>1, <3>3, ShownIs
      <4>3. x \in InnerOf(d, f, {p}, c)
        BY <4>2, <3>1 DEF InnerOf, Base
      <4>4. QED
        BY <4>1, <4>3, <1>2 DEF IsReach, ClosedBelow
    <3>4. QED
      BY <3>2, <3>3
  <2>3. ROOT_CLUSTER_NUMBER \in D
    BY <1>2 DEF IsReach, ClosedBelow
  <2> HIDE DEF D
  <2>4. ClosedBelow(d, f, {}, D)
    BY <2>2, <2>3 DEF ClosedBelow
  <2>5. T1 \subseteq D
    BY <2>1, <2>4, <1>1, <1>6 DEF IsReach
  <2>6. QED
    BY <2>5 DEF D
<1>9. \A c, q : L1(c, q) <=> L0(c, q) \/ (c = b /\ q = p)
  <2>1. ASSUME NEW c, NEW q, L1(c, q) PROVE L0(c, q) \/ (c = b /\ q = p)
    <3>1. c \in T0
      BY <2>1, <1>7, <1>8 DEF Leads
    <3>2. q = p => c = b
      BY <2>1, <1>3, <1>4, <1>6 DEF Leads
    <3>3. QED
      BY <2>1, <3>1, <3>2 DEF Leads
  <2>2. ASSUME NEW c, NEW q, L0(c, q) \/ (c = b /\ q = p) PROVE L1(c, q)
    BY <2>2, <1>3, <1>4 DEF Leads
  <2>3. QED
    BY <2>1, <2>2
<1> HIDE DEF e, n
<1>10. k \in DOMAIN t1 /\ t1[k] = NodeOf(d, f, e)
  <2>1. L1(b, p)
    BY <1>9
  <2>2. QED
    BY <2>1, <1>5 DEF Shows, e
<1> HIDE DEF k
<1>11. ASSUME NEW j \in DOMAIN t0 PROVE j \in DOMAIN t1 /\ t1[j] = t0[j] /\ j # k
  <2>1. PICK c, q : L0(c, q) /\ j = KeyOf(c, EntryAt(d, q))
    BY <1>5 DEF Shows
  <2>2. L1(c, q)
    BY <2>1, <1>9
  <2>3. t0[j] = NodeOf(d, f, EntryAt(d, q))
    BY <2>1, <1>5 DEF Shows
  <2>4. j \in DOMAIN t1 /\ t1[j] = NodeOf(d, f, EntryAt(d, q))
    BY <2>1, <2>2, <1>5 DEF Shows
  <2>5. j # k
    <3>1. q \in Used(d) /\ InChain(ch, q[1], c) /\ c \in Dirs(d) /\ q # p /\ b \in Dirs(d)
      BY <2>1 DEF Leads
    <3>2. QED
      BY <3>1, <2>1, <1>4, OneKey DEF k, e
  <2>6. QED
    BY <2>3, <2>4, <2>5
<1>12. ASSUME NEW j \in DOMAIN t1 PROVE j \in DOMAIN t0 \/ j = k
  <2>1. PICK c, q : L1(c, q) /\ j = KeyOf(c, EntryAt(d, q))
    BY <1>5 DEF Shows
  <2>2. L0(c, q) \/ (c = b /\ q = p)
    BY <2>1, <1>9
  <2>3. CASE L0(c, q)
    BY <2>1, <2>3, <1>5 DEF Shows
  <2>4. CASE c = b /\ q = p
    BY <2>1, <2>4 DEF k, e
  <2>5. QED
    BY <2>2, <2>3, <2>4
<1>13. t1 = [j \in DOMAIN t0 \cup {k} |-> IF j = k THEN t1[k] ELSE t0[j]]
  <2>1. DOMAIN t1 = DOMAIN t0 \cup {k}
    BY <1>10, <1>11, <1>12
  <2>2. t1 = [j \in DOMAIN t1 |-> t1[j]]
    BY <1>5 DEF Shows
  <2>3. QED
    BY <2>1, <2>2, <1>11
<1>14. Tree!Handles(t0) \cup {ROOT_CLUSTER_NUMBER} = T0
  BY <1>2, <1>5, HandlesAre
<1>15. k \in [in : Cluster, name : Names, ext : Exts \cup {NoExt}] /\ k.in = b
  <2>1. b \in Cluster /\ e.name \in Names /\ e.ext \in Exts \cup {NoExt}
    BY <1>4, <1>6, EntryGives
  <2>2. QED
    BY <2>1 DEF k, KeyOf
<1>16. \/ t1[k] \in Tree!FileNodes(k)
       \/ t1[k] \in Tree!FolderNodes /\ t1[k].handle \notin T0
  <2>1. CASE e.directory
    <3>1. t1[k] = [folder |-> TRUE, handle |-> n]
      BY <2>1, <1>10, NodeGives DEF e, n
    <3>2. n \in Cluster /\ n \notin T0
      BY <1>3, <1>6 DEF n
    <3>3. t1[k].handle = n
      BY <3>1
    <3>4. [folder |-> TRUE, handle |-> n] \in [folder : {TRUE}, handle : Cluster]
      BY <3>2
    <3>5. t1[k] \in Tree!FolderNodes
      BY <3>1, <3>4 DEF Tree!FolderNodes
    <3>6. QED
      BY <3>2, <3>3, <3>5
  <2>2. CASE ~e.directory
    <3>1. e.size \in FileSizes /\ t1[k] = [folder |-> FALSE, content |-> WrittenFor(k, e.size)]
      BY <2>2, <1>4, <1>10, FileIs DEF k, e
    <3>2. QED
      BY <3>1 DEF Tree!FileNodes
  <2>3. QED
    BY <2>1, <2>2
<1>17. Gains(t0, t1, k)
  BY <1>10, <1>11, <1>13, <1>14, <1>15, <1>16, <1>4 DEF Gains
<1>18. QED
  BY <1>17
-----------------------------------------------------------------------------
(* The steps that begin or end a call *)

LEMMA ResizedShows ==
  ASSUME NEW d, NEW f, NEW ch, NEW rank, Layout(d, f, ch, rank), NEW r \in Request,
         r.parent \in Dirs(d), NEW sign \in {1, -1},
         NEW hidden, NEW T \in SUBSET Dirs(d)
  PROVE  SameShown(d, f, hidden, T, update_size(d, f, r, sign), f, hidden)
<1> DEFINE b == update_size(d, f, r, sign)
<1>1. /\ Layout(b, f, ch, rank)
      /\ Used(b) = Used(d) /\ Heads(b) = Heads(d) /\ Dirs(b) = Dirs(d)
      /\ \A p \in Place :
           /\ EntryAt(b, p).name = EntryAt(d, p).name /\ EntryAt(b, p).ext = EntryAt(d, p).ext
           /\ EntryAt(b, p).directory = EntryAt(d, p).directory
           /\ EntryAt(b, p).cluster_number = EntryAt(d, p).cluster_number
           /\ EntryAt(d, p).directory \/ EntryAt(b, p) = EntryAt(d, p)
      /\ \A c \in Cluster : /\ IsDirectory(b, c) <=> IsDirectory(d, c)
                            /\ ~IsDirectory(d, c) => b[c] = d[c]
  BY ResizeKeeps
<1> HIDE DEF b
<1>2. d \in DiskType /\ f \in FatType
  BY LayoutGives
<1> SUFFICES ASSUME NEW c \in T
             PROVE  /\ ShownIn(b, f, hidden, c) = ShownIn(d, f, hidden, c)
                    /\ \A p \in ShownIn(d, f, hidden, c) :
                         /\ KeyOf(c, EntryAt(b, p)) = KeyOf(c, EntryAt(d, p))
                         /\ EntryAt(b, p).directory = EntryAt(d, p).directory /\ Base(b, p) = Base(d, p)
                         /\ NodeOf(b, f, EntryAt(b, p)) = NodeOf(d, f, EntryAt(d, p))
  BY DEF SameShown, b
<1>3. ShownIn(b, f, hidden, c) = ShownIn(d, f, hidden, c)
  <2>1. ShownIn(d, f, hidden, c) = {p \in Used(d) : InChain(ch, p[1], c) /\ p \notin hidden}
    BY ShownIs
  <2>2. c \in Dirs(b)
    BY <1>1
  <2>3. ShownIn(b, f, hidden, c) = {p \in Used(b) : InChain(ch, p[1], c) /\ p \notin hidden}
    BY <1>1, <2>2, ShownIs
  <2>4. QED
    BY <2>1, <2>3, <1>1
<1>4. ASSUME NEW p \in ShownIn(d, f, hidden, c)
      PROVE  /\ KeyOf(c, EntryAt(b, p)) = KeyOf(c, EntryAt(d, p))
             /\ EntryAt(b, p).directory = EntryAt(d, p).directory /\ Base(b, p) = Base(d, p)
             /\ NodeOf(b, f, EntryAt(b, p)) = NodeOf(d, f, EntryAt(d, p))
  <2>1. p \in Used(d) /\ p \in Place
    BY ShownIs DEF Used
  <2>2. /\ EntryAt(b, p).directory = EntryAt(d, p).directory /\ Base(b, p) = Base(d, p)
        /\ KeyOf(c, EntryAt(b, p)) = KeyOf(c, EntryAt(d, p))
    BY <2>1, <1>1 DEF Base, KeyOf
  <2>3. CASE EntryAt(d, p).directory
    <3>1. p \in Used(b)
      BY <2>1, <1>1
    <3>2. /\ NodeOf(b, f, EntryAt(b, p)) = [folder |-> TRUE, handle |-> Base(b, p)]
          /\ NodeOf(d, f, EntryAt(d, p)) = [folder |-> TRUE, handle |-> Base(d, p)]
      BY <2>1, <2>2, <2>3, <3>1, <1>1, NodeGives
    <3>3. QED
      BY <2>2, <3>2
  <2>4. CASE ~EntryAt(d, p).directory
    <3> DEFINE e == EntryAt(d, p)
               h == e.cluster_number
    <3>1. EntryAt(b, p) = e
      BY <2>1, <2>4, <1>1
    <3>2. h \in Heads(d)
      BY <2>1, <1>2, UsedGives DEF Base
    <3>3. ASSUME NEW x \in Clusters(f, h) PROVE b[x] = d[x]
      <4>1. InChain(ch, x, h)
        BY <3>2, ClustersAre
      <4>2. x \in Cluster
        BY <3>2, <4>1, LayoutGives
      <4>3. ~IsDirectory(d, x)
        <5>1. ASSUME NEW g \in Dirs(d), InChain(ch, x, g) PROVE FALSE
          <6>1. g = h
            BY <3>2, <4>1, <5>1, <1>2, LayoutGives, UsedGives
          <6>2. QED
            BY <6>1, <2>1, <2>4, DirIsDirectory DEF Base
        <5>2. QED
          BY <4>2, <5>1 DEF Layout, TablesGood
      <4>4. QED
        BY <4>2, <4>3, <1>1
    <3>4. \A k \in DOMAIN Chain(f, h) : b[Chain(f, h)[k]] = d[Chain(f, h)[k]]
      BY <3>3 DEF Clusters, ToSet
    <3>5. self_directory_info(b, f, h) = self_directory_info(d, f, h)
      BY <3>4 DEF self_directory_info
    <3>6. Contents(b, f, e) = Contents(d, f, e)
      BY <3>5 DEF Contents
    <3> HIDE DEF e
    <3>7. NodeOf(b, f, e) = NodeOf(d, f, e)
      BY <3>6, <2>4 DEF NodeOf, e
    <3>8. QED
      BY <3>1, <3>7, <2>2 DEF e
  <2>5. QED
    BY <2>3, <2>4
<1>5. QED
  BY <1>3, <1>4

LEMMA SelfAlike ==
  ASSUME NEW d, NEW f, NEW hidden, NEW T
  PROVE  Alike(d, f, hidden, T, d, f, hidden)
BY DEF Alike

\* A disk in order promises what it reads as.
LEMMA IdlePromise ==
  ASSUME NEW d, NEW f, Sound(d, f), f[0] = END_OF_FILE
  PROVE  Promise(Idle, d, f) /\ TreeOn(d, f, Idle) = Reading(d, f, {})
<1>1. PICK ch, rank : Layout(d, f, ch, rank)
  BY DEF Sound
<1>2. PICK T \in SUBSET Dirs(d) : IsReach(d, f, {}, T)
  BY <1>1, ReachLayout
<1>3. Hidden(Idle) = {} /\ Idle.pc = "idle"
  BY HiddenIs DEF Idle
<1>4. Alike(d, f, {}, T, d, f, Hidden(Idle))
  BY <1>3, SelfAlike
<1>5. Promised(d, f, {}, T, Idle, d, f)
  BY <1>2, <1>3, <1>4 DEF Promised
<1>6. TreeOn(d, f, Idle) = Reading(d, f, {})
  BY <1>3 DEF TreeOn, Reading
<1>7. QED
  BY <1>5, <1>6 DEF Promise

LEMMA WriteBeginPromise ==
  ASSUME FsInv, NEW r \in Request, WriteBegin(r), fat[0] = END_OF_FILE
  PROVE  Promise(job', disk', fat') /\ TreeOn(disk', fat', job') = TreeOn(disk, fat, job)
<1> DEFINE b == update_size(disk, fat, r, 1)
<1>1. /\ job = Idle /\ IsFolder(disk, r.parent) /\ disk' = b /\ fat' = fat
      /\ job' = [pc |-> "allocate", request |-> r, fat |-> fat, size |-> r.buffer_size,
                 cachedindex |-> ROOT_CLUSTER_NUMBER, startCluster |-> 0, index |-> 0, at |-> << >>]
  BY DEF WriteBegin
<1>2. disk \in DiskType /\ fat \in FatType /\ Sound(disk, fat)
  BY <1>1, JobGives DEF FsInv, Progress
<1>3. PICK ch, rank : Layout(disk, fat, ch, rank)
  BY <1>2 DEF Sound
<1>4. r.parent \in Dirs(disk) /\ 1 \in {1, -1}
  BY <1>1, <1>2, FolderIsDir
<1>5. Layout(b, fat, ch, rank) /\ Dirs(b) = Dirs(disk)
  BY <1>3, <1>4, ResizeKeeps
<1>6. PICK T \in SUBSET Dirs(disk) : IsReach(disk, fat, {}, T)
  BY <1>3, ReachLayout
<1>7. SameShown(disk, fat, {}, T, b, fat, {})
  BY <1>3, <1>4, ResizedShows
<1> HIDE DEF b
<1>8. IsReach(b, fat, {}, T) /\ Reading(b, fat, {}) = Reading(disk, fat, {})
  BY <1>3, <1>6, <1>7, SameReads
<1>9. /\ job'.pc = "allocate" /\ job'.fat = fat /\ job'.at = << >> /\ job'.index = 0
      /\ job' # Idle
  BY <1>1 DEF Idle
<1>10. Hidden(job') = {} /\ Hidden(job) = {}
  BY <1>1, <1>9, HiddenIs
<1>11. Alike(b, fat, {}, T, b, fat, Hidden(job'))
  BY <1>10, SelfAlike
<1>12. Sound(b, fat)
  BY <1>5 DEF Sound
<1>12a. job'.index > 0 => FALSE
  BY <1>9
<1>13. Promised(b, fat, {}, T, job', b, fat)
  BY <1>5, <1>6, <1>8, <1>9, <1>11, <1>12, <1>12a DEF Promised
<1>14. TreeOn(b, fat, job') = Reading(b, fat, {})
  BY <1>2, <1>13, PromisedReads
<1>15. TreeOn(disk, fat, job) = Reading(disk, fat, {})
  BY <1>10 DEF TreeOn, Reading
<1>16. QED
  BY <1>1, <1>8, <1>13, <1>14, <1>15 DEF Promise

\* Nothing is shown at the place that the end of a delete frees.
LEMMA DeleteEntryPromise ==
  ASSUME FsInv, DeleteEntry, NEW d0, NEW g0, NEW h0, NEW T, Promised(d0, g0, h0, T, job, disk, fat)
  PROVE  Promised(d0, g0, h0, T, job', disk', fat')
<1>1. job \in DeleteJob /\ job.pc = "unlink" /\ job # Idle /\ disk \in DiskType
  BY JobGives DEF FsInv, DeleteEntry, Idle
<1>2. SelfPlace(disk, job.fat, job.request) = job.at
  BY <1>1 DEF FsInv, Progress, Doomed
<1>3. disk' = Unlinked(disk, job) /\ fat' = fat /\ job' = Idle /\ job'.pc = "idle"
  BY <1>2 DEF DeleteEntry, Unlinked, Idle
<1>4. /\ Alike(d0, g0, h0, T, disk, fat, Hidden(job)) /\ fat[0] = END_OF_FILE
      /\ job.at # << >> => job.at[1][1] \notin KeptFiles(d0, g0, h0, T)
      /\ Sound(d0, g0) /\ T \in SUBSET Dirs(d0) /\ IsReach(d0, g0, h0, T)
  BY <1>1 DEF Promised
<1>5. Hidden(job') = {}
  BY <1>3, HiddenIs
<1>6. Alike(d0, g0, h0, T, disk', fat', {})
  <2>1. CASE job.at = << >>
    BY <2>1, <1>3, <1>4, HiddenIs DEF Unlinked
  <2>2. CASE job.at # << >>
    <3>1. PICK p \in Place : job.at = <<p>>
      BY <2>2, <1>1 DEF DeleteJob
    <3>2. job.at[1] = p /\ Hidden(job) = {p} /\ p[1] \notin KeptFiles(d0, g0, h0, T) /\ p[1] \in Cluster
      BY <2>2, <3>1, <1>1, <1>4, HiddenIs DEF Place
    <3>3. disk' = WithEntry(disk, p, emptyEntry)
      BY <2>2, <3>2, <1>3 DEF Unlinked
    <3>4. DOMAIN disk = Cluster
      BY <1>1 DEF DiskType
    <3>5. \A x : x # p[1] => disk'[x] = disk[x]
      BY <3>3, <3>4 DEF WithEntry
    <3>6. ASSUME NEW x \in Tables(g0, T), NEW i \in Slot
          PROVE  /\ Seen(disk', {}, <<x, i>>) <=> Seen(disk, {p}, <<x, i>>)
                 /\ Seen(disk, {p}, <<x, i>>) => EntryAt(disk', <<x, i>>) = EntryAt(disk, <<x, i>>)
      <4>1. x \in Cluster
        BY <1>4, KeptAre DEF Kept, Sound
      <4>2. CASE IsDirectory(disk, p[1])
        <5>1. <<x, i>> \in Place /\ emptyEntry \in EntryType
          BY <4>1 DEF Place, EntryType
        <5>2. /\ EntryAt(disk', p) = emptyEntry
              /\ \A q \in Place : q # p => EntryAt(disk', q) = EntryAt(disk, q)
          BY <3>1, <3>3, <4>2, <5>1, <1>1, WithEntryGives
        <5>3. QED
          BY <5>1, <5>2 DEF Seen
      <4>3. CASE ~IsDirectory(disk, p[1])
        <5>1. disk[p[1]] \in OtherType
          BY <3>2, <4>3, <1>1, DiskGives
        <5>2. disk'[p[1]].kind = disk[p[1]].kind
          BY <3>2, <3>3, <3>4, <5>1 DEF WithEntry, OtherType, Zero, Signature
        <5>3. EntryAt(disk, <<x, i>>) = EntryAt(disk', <<x, i>>)
          BY <3>5, <4>3, <5>2 DEF EntryAt, IsDirectory
        <5>4. EntryAt(disk, p) = emptyEntry
          BY <4>3 DEF EntryAt, IsDirectory
        <5>5. QED
          BY <5>3, <5>4 DEF Seen
      <4>4. QED
        BY <4>2, <4>3
    <3>7. QED
      BY <3>2, <3>5, <3>6, <1>3, <1>4 DEF Alike
  <2>3. QED
    BY <2>1, <2>2
<1>7. QED
  BY <1>3, <1>4, <1>5, <1>6 DEF Promised

\* t1 is t0 without what a delete is asked for and what is below it.
Loses(t0, t1, r) ==
  \E k \in DOMAIN t0 \ DOMAIN t1 :
    /\ k.in = r.parent /\ k.name = r.name
    /\ r.buffer_size # 0 => k.ext = r.ext /\ DOMAIN t0 \ DOMAIN t1 = {k}
    /\ t1 = [j \in DOMAIN t0 \ Tree!Below(t0, k) |-> t0[j]]

LEMMA LosesOne ==
  ASSUME NEW d, NEW f, NEW ch, NEW rank, Layout(d, f, ch, rank), NEW r \in Request,
         r.parent \in Dirs(d), NEW p \in Used(d), InChain(ch, p[1], r.parent), p \in Asked(d, r),
         r.buffer_size # 0 => ~EntryAt(d, p).directory
  PROVE  Loses(Reading(d, f, {}), Reading(d, f, {p}), r)
<1> DEFINE t0 == Reading(d, f, {})
           t1 == Reading(d, f, {p})
           e == EntryAt(d, p)
<1>0. t0 = Reading(d, f, {}) /\ t1 = Reading(d, f, {p})
  OBVIOUS
<1> HIDE DEF t0, t1
<1>1. Hides(d, ch, p, t0, t1)
  BY <1>0, HideIs
<1>1a. PICK b \in Dirs(d) : \E k \in DOMAIN t0 \ DOMAIN t1 :
           /\ InChain(ch, p[1], b) /\ k = KeyOf(b, EntryAt(d, p))
           /\ t1 = [j \in DOMAIN t0 \ Tree!Below(t0, k) |-> t0[j]]
           /\ ~EntryAt(d, p).directory => DOMAIN t0 \ DOMAIN t1 = {k}
  BY <1>1 DEF Hides
<1>2. PICK k \in DOMAIN t0 \ DOMAIN t1 :
           /\ InChain(ch, p[1], b) /\ k = KeyOf(b, EntryAt(d, p))
           /\ t1 = [j \in DOMAIN t0 \ Tree!Below(t0, k) |-> t0[j]]
           /\ ~EntryAt(d, p).directory => DOMAIN t0 \ DOMAIN t1 = {k}
  BY <1>1a
<1>3. b = r.parent
  BY <1>2, LayoutGives, UsedGives
<1>4. e.name = r.name /\ (r.buffer_size = 0 \/ e.ext = r.ext)
  BY DEF Asked
<1>5. e \in EntryType /\ e # emptyEntry
  BY LayoutGives, UsedGives
<1>6. r.buffer_size # 0 => ~e.directory
  OBVIOUS
<1>7. k.in = b /\ k.name = e.name /\ k.ext = e.ext
  BY <1>2 DEF KeyOf
<1>8. Loses(t0, t1, r)
  <2> HIDE DEF e
  <2>1. r.buffer_size # 0 => k.ext = r.ext /\ DOMAIN t0 \ DOMAIN t1 = {k}
    BY <1>2, <1>4, <1>6, <1>7 DEF e
  <2>2. k.in = r.parent /\ k.name = r.name
    BY <1>3, <1>4, <1>7
  <2>3. QED
    BY <2>1, <2>2, <1>2 DEF Loses
<1>9. QED
  BY <1>0, <1>8

LEMMA DeleteBeginPromise ==
  ASSUME FsInv, NEW r \in Request, DeleteBegin(r), fat[0] = END_OF_FILE
  PROVE  /\ Promise(job', disk', fat') /\ job'.request = r
         /\ \/ TreeOn(disk', fat', job') = TreeOn(disk, fat, job)
            \/ Loses(TreeOn(disk, fat, job), TreeOn(disk', fat', job'), r)
<1> DEFINE b == update_size(disk, fat, r, -1)
           at == SelfPlace(b, fat, r)
           self == IF at = << >> THEN emptyEntry ELSE EntryAt(b, at[1])
           a == r.parent
           H == Hidden(job')
<1>1. /\ job = Idle /\ IsFolder(disk, a) /\ disk' = b /\ fat' = fat
      /\ job' = [pc |-> IF self.directory THEN "folder" ELSE "wipe", request |-> r,
                 fat |-> fat, at |-> at, self |-> self.cluster_number,
                 currentCluster |-> self.cluster_number, marker |-> fat[self.cluster_number],
                 below |-> << >>]
      /\ at # << >> /\ r.buffer_size # 0 => ~self.directory
  BY DEF DeleteBegin
<1>2. disk \in DiskType /\ fat \in FatType /\ Sound(disk, fat)
  BY <1>1, JobGives DEF FsInv, Progress
<1>3. PICK ch, rank : Layout(disk, fat, ch, rank)
  BY <1>2 DEF Sound
<1>4. -1 \in {1, -1} /\ a \in Dirs(disk)
  BY <1>1, <1>2, FolderIsDir
<1>5. Layout(b, fat, ch, rank) /\ Dirs(b) = Dirs(disk)
  BY <1>3, <1>4, ResizeKeeps
<1>6. Reading(b, fat, {}) = Reading(disk, fat, {})
  <2>1. PICK T \in SUBSET Dirs(disk) : IsReach(disk, fat, {}, T)
    BY <1>3, ReachLayout
  <2>2. SameShown(disk, fat, {}, T, b, fat, {})
    BY <1>3, <1>4, ResizedShows
  <2> HIDE DEF b
  <2>3. QED
    BY <2>1, <2>2, <1>3, SameReads
<1> HIDE DEF b
<1>7. /\ b \in DiskType /\ a \in Heads(b) /\ Runs(fat, a, ch[a]) /\ a \in Dirs(b)
      /\ \A q : In(ch[a], q) <=> InChain(ch, q[1], a)
  BY <1>4, <1>5, LayoutGives, UsedGives
<1>8. at = << >> \/ \E p \in Used(b) : at = <<p>> /\ p \in Asked(b, r) /\ InChain(ch, p[1], a)
  <2>1. Finds(ch[a], Asked(b, r), at)
    BY <1>2, <1>7, SelfPlaceFinds
  <2>2. ASSUME NEW p \in Place, p \in Asked(b, r) PROVE p \in Used(b)
    <3>1. EntryAt(b, p).name \in Names
      BY <2>2, RequestGives DEF Asked
    <3>2. emptyEntry.name = ""
      BY DEF emptyEntry
    <3>3. QED
      BY <3>1, <3>2, NameBounds DEF Used
  <2>3. QED
    BY <2>1, <2>2, <1>7 DEF Finds
<1> HIDE DEF at
<1>9. /\ job'.pc \in {"folder", "wipe"} /\ job'.request = r /\ job'.fat = fat /\ job'.at = at
      /\ job'.currentCluster = self.cluster_number /\ job'.marker = fat[self.cluster_number]
      /\ job' # Idle
  BY <1>1 DEF Idle
<1> HIDE DEF H, self
<1>10. PICK T \in SUBSET Dirs(b) : IsReach(b, fat, H, T)
  BY <1>5, ReachLayout
<1>11. /\ at # << >> => at[1][1] \notin KeptFiles(b, fat, H, T)
       /\ self.cluster_number \notin Kept(b, fat, H, T)
       /\ fat[self.cluster_number] \notin Kept(b, fat, H, T)
  <2>1. CASE at = << >>
    <3>1. self.cluster_number = 0
      BY <2>1 DEF self, emptyEntry
    <3>2. 0 \notin Kept(b, fat, H, T) /\ END_OF_FILE \notin Kept(b, fat, H, T)
      BY <1>5, KeptAre, Bounds
    <3>3. QED
      BY <2>1, <3>1, <3>2
  <2>2. CASE at # << >>
    <3>1. PICK p \in Used(b) : at = <<p>>
      BY <2>2, <1>8
    <3>2. at[1] = p /\ self.cluster_number = Base(b, p) /\ p \in H
      BY <3>1, <1>9, HiddenIs DEF self, Base, H
    <3>3. Outside(b, fat, H, T, Base(b, p))
      BY <3>2, <1>5, <1>10, HiddenIsOutside
    <3>4. InChain(ch, Base(b, p), Base(b, p))
      BY <3>3, <1>5, LayoutGives DEF Outside
    <3>5. IsDirectory(b, p[1])
      BY <1>7, UsedGives
    <3>6. p[1] \notin KeptFiles(b, fat, H, T)
      BY <3>5, <1>5, KeptAre
    <3>7. QED
      BY <3>2, <3>3, <3>4, <3>6, <1>5, OutsideGives
  <2>3. QED
    BY <2>1, <2>2
<1>12. Sound(b, fat) /\ Alike(b, fat, H, T, b, fat, Hidden(job'))
  BY <1>5, SelfAlike DEF Sound, H
<1>13. Promised(b, fat, H, T, job', b, fat)
  BY <1>9, <1>10, <1>11, <1>12 DEF Promised
<1>14. TreeOn(b, fat, job') = Reading(b, fat, H)
  BY <1>2, <1>13, PromisedReads
<1>15. TreeOn(disk, fat, job) = Reading(b, fat, {})
  <2>1. Hidden(job) = {}
    BY <1>1, HiddenIs
  <2>2. TreeOn(disk, fat, job) = Reading(disk, fat, Hidden(job))
    BY DEF TreeOn, Reading
  <2>3. QED
    BY <2>1, <2>2, <1>6
<1>16. \/ TreeOn(b, fat, job') = TreeOn(disk, fat, job)
       \/ Loses(TreeOn(disk, fat, job), TreeOn(b, fat, job'), r)
  <2>1. CASE at = << >>
    <3>1. H = {}
      BY <2>1, <1>9, HiddenIs DEF H
    <3>2. QED
      BY <3>1, <1>14, <1>15
  <2>2. CASE at # << >>
    <3>1. PICK p \in Used(b) : at = <<p>> /\ p \in Asked(b, r) /\ InChain(ch, p[1], a)
      BY <2>2, <1>8
    <3>2. H = {p}
      BY <3>1, <1>9, HiddenIs DEF H
    <3>3. r.buffer_size # 0 => ~EntryAt(b, p).directory
      BY <2>2, <3>1, <1>1 DEF self
    <3>3a. Loses(Reading(b, fat, {}), Reading(b, fat, {p}), r)
      BY <3>1, <3>3, <1>5, <1>7, LosesOne
    <3>4. QED
      BY <3>2, <3>3a, <1>14, <1>15
  <2>3. QED
    BY <2>1, <2>2
<1>17. QED
  BY <1>1, <1>9, <1>13, <1>16 DEF Promise

\* A directory that got a cluster shows what it did, and so does the disk on
\* which the cluster is not written yet.
LEMMA GrownShows ==
  ASSUME NEW d, NEW f, NEW ch, NEW rank, Layout(d, f, ch, rank), NEW a \in Dirs(d),
         NEW i, NEW b, NEW g, NEW ch2, Grows(d, f, ch, a, i, b, g, ch2),
         NEW T \in SUBSET Dirs(d)
  PROVE  /\ SameShown(d, f, {}, T, b, g, {}) /\ Alike(b, g, {}, T, d, g, {})
         /\ Dirs(b) = Dirs(d) /\ IsDirectory(b, i) /\ \A k \in Slot : EntryAt(d, <<i, k>>) = emptyEntry
<1>1. /\ Layout(b, g, ch2, rank) /\ Used(b) = Used(d) /\ Heads(b) = Heads(d) /\ ~IsDirectory(d, i)
      /\ \A h \in Heads(d) : \A c : InChain(ch2, c, h) <=> InChain(ch, c, h) \/ (h = a /\ c = i)
  BY GrowsKeeps
<1>2. /\ d \in DiskType /\ a \in Heads(d) /\ Dirs(d) \subseteq Heads(d)
      /\ \A p \in Used(d) : p \in Place /\ IsDirectory(d, p[1]) /\ Base(d, p) \in Heads(d)
  BY LayoutGives, UsedGives
<1>3. /\ i \in Cluster /\ f[i] = 0 /\ b[i] = Table(d[a].info) /\ \A c \in Cluster : c # i => b[c] = d[c]
      /\ DOMAIN ch2 = DOMAIN ch /\ \A h \in DOMAIN ch : h # a => ch2[h] = ch[h]
  BY DEF Grows
<1>4. \A h \in Heads(d) : ~InChain(ch, i, h)
  BY <1>3, FreeIsNobodys
<1>5. IsDirectory(b, i) /\ \A k \in Slot : EntryAt(b, <<i, k>>) = emptyEntry
  BY <1>3 DEF IsDirectory, EntryAt, Table
<1>6. \A k \in Slot : EntryAt(d, <<i, k>>) = emptyEntry
  BY <1>1 DEF IsDirectory, EntryAt
<1>7. \A x \in Cluster, k \in Slot : EntryAt(b, <<x, k>>) = EntryAt(d, <<x, k>>)
  <2> SUFFICES ASSUME NEW x \in Cluster, NEW k \in Slot PROVE EntryAt(b, <<x, k>>) = EntryAt(d, <<x, k>>)
    OBVIOUS
  <2>1. CASE x = i
    BY <2>1, <1>5, <1>6
  <2>2. CASE x # i
    BY <2>2, <1>3 DEF EntryAt
  <2>3. QED
    BY <2>1, <2>2
<1>8. \A p \in Place : EntryAt(b, p) = EntryAt(d, p)
  <2> SUFFICES ASSUME NEW p \in Place PROVE EntryAt(b, p) = EntryAt(d, p)
    OBVIOUS
  <2>1. p[1] \in Cluster /\ p[2] \in Slot /\ p = <<p[1], p[2]>>
    BY DEF Place
  <2>2. QED
    BY <2>1, <1>7
<1>9. Dirs(b) = Dirs(d)
  <2>1. {q \in Used(b) : EntryAt(b, q).directory} = {q \in Used(d) : EntryAt(d, q).directory}
    BY <1>1, <1>2, <1>8
  <2>2. \A q \in Used(d) : Base(b, q) = Base(d, q)
    BY <1>2, <1>8 DEF Base
  <2>3. QED
    BY <2>1, <2>2 DEF Dirs
<1>10. ASSUME NEW c \in T PROVE ShownIn(b, g, {}, c) = ShownIn(d, f, {}, c)
  <2>1. ShownIn(d, f, {}, c) = {p \in Used(d) : InChain(ch, p[1], c) /\ p \notin {}}
    BY ShownIs
  <2>2. c \in Dirs(b)
    BY <1>9
  <2>3. ShownIn(b, g, {}, c) = {p \in Used(b) : InChain(ch2, p[1], c) /\ p \notin {}}
    BY <1>1, <2>2, ShownIs
  <2>4. \A p \in Used(d) : InChain(ch2, p[1], c) <=> InChain(ch, p[1], c)
    BY <1>1, <1>2
  <2>5. QED
    BY <2>1, <2>3, <2>4, <1>1
<1>11. ASSUME NEW c \in T, NEW p \in ShownIn(d, f, {}, c)
       PROVE  NodeOf(b, g, EntryAt(b, p)) = NodeOf(d, f, EntryAt(d, p))
  <2>1. p \in Used(d) /\ EntryAt(b, p) = EntryAt(d, p)
    BY <1>2, <1>8, ShownIs
  <2> DEFINE e == EntryAt(d, p)
             h == e.cluster_number
  <2>2. CASE e.directory
    BY <2>1, <2>2 DEF NodeOf
  <2>3. CASE ~e.directory
    <3>1. h \in Heads(d) /\ h = Base(d, p)
      BY <2>1, <1>2 DEF Base
    <3>2. h # a
      BY <2>1, <2>3, <3>1, DirIsDirectory
    <3>3. DOMAIN ch = Heads(d)
      BY DEF Layout, ChainsGood
    <3>4. Chain(f, h) = ch[h] /\ Chain(g, h) = ch2[h] /\ ch2[h] = ch[h]
      BY <3>1, <3>2, <3>3, <1>1, <1>3, LayoutGives
    <3>5. \A k \in DOMAIN ch[h] : b[ch[h][k]] = d[ch[h][k]]
      <4> SUFFICES ASSUME NEW k \in DOMAIN ch[h] PROVE b[ch[h][k]] = d[ch[h][k]]
        OBVIOUS
      <4>1. InChain(ch, ch[h][k], h)
        BY DEF InChain
      <4>2. ch[h][k] \in Cluster /\ ch[h][k] # i
        BY <4>1, <3>1, <1>4, LayoutGives
      <4>3. QED
        BY <4>2, <1>3
    <3>6. self_directory_info(b, g, h) = self_directory_info(d, f, h)
      BY <3>4, <3>5 DEF self_directory_info
    <3>7. Contents(b, g, e) = Contents(d, f, e)
      BY <3>6 DEF Contents
    <3> HIDE DEF e
    <3>8. NodeOf(b, g, e) = NodeOf(d, f, e)
      BY <3>7, <2>3 DEF NodeOf, e
    <3>9. QED
      BY <3>8, <2>1 DEF e
  <2>4. QED
    BY <2>2, <2>3
<1>12. SameShown(d, f, {}, T, b, g, {})
  <2>1. ASSUME NEW c \in T, NEW p \in ShownIn(d, f, {}, c) PROVE EntryAt(b, p) = EntryAt(d, p)
    BY <1>2, <1>8, ShownIs
  <2>2. QED
    BY <2>1, <1>10, <1>11 DEF SameShown, Base
<1>13. Alike(b, g, {}, T, d, g, {})
  <2>0. T \in SUBSET Dirs(b)
    BY <1>9
  <2>1. ASSUME NEW x \in Tables(g, T), NEW k \in Slot PROVE EntryAt(d, <<x, k>>) = EntryAt(b, <<x, k>>)
    BY <1>1, <1>7, <2>0, KeptAre DEF Kept
  <2>2. ASSUME NEW x \in KeptFiles(b, g, {}, T) PROVE d[x] = b[x]
    <3>1. x \in Cluster /\ ~IsDirectory(b, x)
      BY <1>1, <2>0, KeptAre DEF Kept
    <3>2. QED
      BY <3>1, <1>3, <1>5
  <2>3. QED
    BY <2>1, <2>2 DEF Alike, Seen
<1>14. QED
  BY <1>5, <1>6, <1>9, <1>12, <1>13

LEMMA ExpandFolderPromise ==
  ASSUME FsInv, ExpandFolder, NEW d0, NEW g0, NEW h0, NEW T0, Promised(d0, g0, h0, T0, job, disk, fat)
  PROVE  Promise(job', disk', fat') /\ TreeOn(disk', fat', job') = TreeOn(disk, fat, job)
<1> DEFINE r == job.request
           a == r.parent
           f == job.fat
           g == fat'
           b == Expanded(disk, job')
<1>1. PICK ch, rank, s, i, ch2 : Growing(ch, rank, s, i, ch2)
  BY ExpandFolderGrows
<1>2. /\ Layout(disk, f, ch, rank) /\ Awaits(disk, f, ch, r, s) /\ a \in Dirs(disk)
      /\ Grows(disk, f, ch, a, i, b, g, ch2)
      /\ disk' = disk /\ job' \in WriteJob /\ job'.pc = "expanded" /\ job'.fat = g
      /\ job'.at = job.at /\ job'.cachedindex = i /\ job'.startCluster = s[1]
  BY <1>1 DEF Growing
<1>3. job \in WriteJob /\ job.pc = "entry" /\ job # Idle /\ job' # Idle /\ f \in FatType /\ fat \in FatType
  BY <1>2, JobGives DEF FsInv, ExpandFolder, WriteJob, Idle
<1>4. job.at = << >> /\ f[0] = END_OF_FILE
  BY <1>3 DEF Promised
<1>5. Hidden(job) = {} /\ Hidden(job') = {}
  BY <1>2, <1>4, HiddenIs
<1>6. /\ T0 \in SUBSET Dirs(disk) /\ IsReach(disk, f, {}, T0)
      /\ Reading(disk, f, {}) = Reading(d0, g0, h0)
  BY <1>3, <1>5, PromisedIs
<1>7. TreeOn(disk, fat, job) = Reading(d0, g0, h0)
  BY <1>3, PromisedReads
<1> HIDE DEF r, a, f, g, b
<1>8. /\ SameShown(disk, f, {}, T0, b, g, {}) /\ Alike(b, g, {}, T0, disk, g, {})
      /\ Dirs(b) = Dirs(disk) /\ IsDirectory(b, i)
      /\ \A k \in Slot : EntryAt(disk, <<i, k>>) = emptyEntry
  BY <1>2, <1>6, GrownShows
<1>9. Layout(b, g, ch2, rank) /\ Awaits(b, g, ch2, r, s)
  BY <1>2, GrowsKeeps, ExpandAwaits
<1>10. IsReach(b, g, {}, T0) /\ Reading(b, g, {}) = Reading(disk, f, {})
  BY <1>2, <1>6, <1>8, SameReads
<1>11. i \notin KeptFiles(b, g, {}, T0)
  BY <1>6, <1>8, <1>9, KeptAre
<1>12. s[1] \notin Kept(b, g, {}, T0)
  <2>1. 1 \in 1 .. Len(s)
    <3>1. Runs(g, s[1], s)
      BY <1>9 DEF Awaits
    <3>2. Len(s) \in Nat /\ Len(s) >= 1
      BY <3>1, RunsGives
    <3>3. QED
      BY <3>2
  <2>2. \A h \in Heads(b) : ~InChain(ch2, s[1], h)
    BY <2>1, <1>9 DEF Awaits, Spare
  <2>3. T0 \in SUBSET Dirs(b) /\ Dirs(b) \subseteq Heads(b) /\ \A p \in Used(b) : Base(b, p) \in Heads(b)
    BY <1>6, <1>8, <1>9, LayoutGives, UsedGives
  <2>4. ASSUME NEW c \in T0, NEW p \in ShownIn(b, g, {}, c) PROVE p \in Used(b)
    <3>1. c \in Dirs(b)
      BY <2>3
    <3>2. QED
      BY <3>1, <1>9, ShownIs
  <2>5. QED
    BY <2>2, <2>3, <2>4, <1>9, KeptAre DEF Kept
<1>13. g[0] = END_OF_FILE
  <2> DEFINE last == ch[a][Len(ch[a])]
  <2>1. Runs(f, a, ch[a])
    BY <1>2, LayoutGives, UsedGives
  <2>2. last >= ROOT_CLUSTER_NUMBER
    <3>1. Len(ch[a]) \in 1 .. Len(ch[a])
      <4>1. Len(ch[a]) \in Nat /\ Len(ch[a]) >= 1
        BY <2>1, RunsGives
      <4>2. QED
        BY <4>1
    <3>2. QED
      BY <2>1, <3>1, RunsGives
  <2> HIDE DEF last
  <2>3. 0 # last
    BY <2>2, Bounds
  <2>4. /\ \A c \in Cluster : c # i /\ c # last => g[c] = f[c]
        /\ f[i] = 0
    BY <1>2 DEF Grows, last
  <2>5. 0 # i
    BY <2>4, <1>4, Bounds DEF f
  <2>6. QED
    BY <2>3, <2>4, <2>5, <1>4, Bounds DEF f
<1>14. Alike(b, g, {}, T0, disk, g, Hidden(job')) /\ Sound(b, g) /\ T0 \in SUBSET Dirs(b)
  BY <1>5, <1>6, <1>8, <1>9 DEF Sound
<1>15. Promised(b, g, {}, T0, job', disk, g)
  BY <1>2, <1>3, <1>4, <1>8, <1>10, <1>11, <1>12, <1>13, <1>14 DEF Promised
<1>16. TreeOn(disk, g, job') = Reading(b, g, {})
  <2>1. g \in FatType
    BY <1>9, LayoutGives
  <2>2. QED
    BY <2>1, <1>15, PromisedReads
<1>17. disk' = disk /\ g = fat'
  BY <1>2 DEF g
<1>18. QED
  BY <1>6, <1>7, <1>10, <1>15, <1>16, <1>17 DEF Promise

\* With the table on the disk the file or folder of a write is there.
LEMMA WriteFatPromise ==
  ASSUME FsInv, WriteFat, NEW d0, NEW g0, NEW h0, NEW T, Promised(d0, g0, h0, T, job, disk, fat)
  PROVE  /\ Promise(job', disk', fat')
         /\ \E k : Gains(TreeOn(disk, fat, job), TreeOn(disk', fat', job'), k)
<1> DEFINE f == job.fat
           t0 == Reading(disk, f, Hidden(job))
           t1 == Reading(disk, f, {})
<1>1. job \in WriteJob /\ job.pc = "fat" /\ job # Idle /\ f \in FatType /\ fat \in FatType
  BY JobGives DEF FsInv, WriteFat, WriteJob, Idle
<1>2. disk' = disk /\ fat' = f /\ job' = Idle
  BY DEF WriteFat
<1>3. Sound(disk, f)
  BY <1>1 DEF FsInv, Progress
<1>4. PICK ch, rank : Layout(disk, f, ch, rank)
  BY <1>3 DEF Sound
<1>5. /\ f[0] = END_OF_FILE
      /\ \E p \in Used(disk) :
           /\ job.at = <<p>> /\ Base(disk, p) = job.startCluster
           /\ EntryAt(disk, p).directory =>
                f[job.startCluster] = END_OF_FILE /\ \A q \in Used(disk) : q[1] # job.startCluster
  BY <1>1 DEF Promised
<1>6. PICK p \in Used(disk) :
        /\ job.at = <<p>>
        /\ EntryAt(disk, p).directory =>
             f[Base(disk, p)] = END_OF_FILE /\ \A q \in Used(disk) : q[1] # Base(disk, p)
  BY <1>5
<1>7. t0 = Reading(disk, f, {p})
  BY <1>1, <1>6, HiddenIs
<1>8. TreeOn(disk, fat, job) = t0
  BY <1>1, PromisedIs, PromisedReads
<1>9. Promise(Idle, disk, f) /\ TreeOn(disk, f, Idle) = t1
  BY <1>3, <1>5, IdlePromise
<1> HIDE DEF f, t0
<1>10. t1 = Reading(disk, f, {})
  OBVIOUS
<1> HIDE DEF t1
<1>11. \E k : Gains(t0, t1, k)
  BY <1>4, <1>6, <1>7, <1>10, CreateIs
<1>12. QED
  BY <1>2, <1>8, <1>9, <1>11
-----------------------------------------------------------------------------
(* The tree the file system promises *)

FsKeeps == FsInv /\ TreeIs /\ Promise(job, disk, fat)

LEMMA KeepsStart ==
  ASSUME MCInit
  PROVE  FsKeeps /\ Tree!TreeInit
<1>1. FsInv /\ TreeIs /\ job = Idle
  BY FsStart DEF MCInit, TreeIs, FsInit
<1>2. PICK ch, rank : Layout(disk, fat, ch, rank)
  BY <1>1, IdleGives
<1>3. fat[0] = END_OF_FILE
  BY Bounds DEF MCInit, FsInit
<1>4. Promise(job, disk, fat) /\ tree = Reading(disk, fat, {})
  BY <1>1, <1>2, <1>3, IdlePromise DEF Sound, TreeIs
<1>5. Used(disk) = {}
  <2> SUFFICES ASSUME NEW p \in Place PROVE EntryAt(disk, p) = emptyEntry
    BY DEF Used
  <2>1. p[1] \in Cluster /\ p[2] \in Slot
    BY DEF Place
  <2>2. disk[p[1]] = Signature \/ disk[p[1]] = Zero
        \/ disk[p[1]] = Table(Info(ROOT_CLUSTER_NUMBER, ROOT_CLUSTER_NUMBER, 0, FOLDER_SIZE))
    BY <2>1 DEF MCInit, FsInit
  <2>3. QED
    BY <2>1, <2>2 DEF EntryAt, Table, Signature, Zero
<1>6. DOMAIN tree = {} /\ tree = [k \in DOMAIN tree |-> tree[k]]
  <2>1. PICK T \in SUBSET Dirs(disk) : IsReach(disk, fat, {}, T)
    BY <1>2, ReachLayout
  <2>2. Shows(disk, fat, ch, {}, T, tree)
    BY <2>1, <1>2, <1>4, ReadingGives
  <2>3. QED
    BY <2>2, <1>5 DEF Shows, Leads
<1>7. tree = << >>
  <2>1. DOMAIN << >> = {}
    OBVIOUS
  <2>2. QED
    BY <2>1, <1>6
<1>8. QED
  BY <1>1, <1>4, <1>7 DEF FsKeeps, Tree!TreeInit

\* What a step does to the tree.
TreeMoves ==
  \/ tree' = tree
  \/ \E k : Gains(tree, tree', k)
  \/ Loses(tree, tree', job'.request)

LEMMA KeepsStep ==
  ASSUME FsKeeps, [MCNext]_<<fsVars, tree>>
  PROVE  FsKeeps' /\ TreeMoves
<1>1. FsInv /\ TreeIs /\ tree = TreeOn(disk, fat, job) /\ FsInv'
  BY FsStep DEF FsKeeps, TreeIs
<1>2. PICK d0, g0, h0, T : Promised(d0, g0, h0, T, job, disk, fat)
  BY DEF FsKeeps, Promise
<1>3. fat[0] = END_OF_FILE /\ fat \in FatType /\ fat' \in FatType
  BY <1>1, <1>2 DEF Promised, FsInv
<1>4. CASE UNCHANGED <<fsVars, tree>>
  <2>1. disk' = disk /\ fat' = fat /\ job' = job /\ tree' = tree
    BY <1>4 DEF fsVars
  <2>2. QED
    BY <2>1, <1>1 DEF FsKeeps, TreeIs, TreeMoves
<1>5. CASE MCNext
  <2>1. FsNext /\ tree' = TreeOn(disk', fat', job')
    BY <1>5 DEF MCNext
  <2>2. TreeIs'
    BY <2>1 DEF TreeIs
  <2>3. ASSUME Promised(d0, g0, h0, T, job', disk', fat')
        PROVE  Promise(job', disk', fat') /\ TreeMoves
    <3>1. TreeOn(disk', fat', job') = Reading(d0, g0, h0) /\ TreeOn(disk, fat, job) = Reading(d0, g0, h0)
      BY <2>3, <1>2, <1>3, PromisedReads
    <3>2. QED
      BY <3>1, <2>1, <2>3, <1>1 DEF Promise, TreeMoves
  <2>4. ASSUME NEW r \in Request, WriteRefuse(r) PROVE Promise(job', disk', fat') /\ TreeMoves
    <3>1. disk' = disk /\ fat' = fat /\ job' = job
      BY <2>4 DEF WriteRefuse, fsVars
    <3>2. QED
      BY <3>1, <2>3, <1>2
  <2>5. ASSUME NEW r \in Request, WriteBegin(r) PROVE Promise(job', disk', fat') /\ TreeMoves
    BY <2>5, <2>1, <1>1, <1>3, WriteBeginPromise DEF TreeMoves
  <2>6. ASSUME NEW r \in Request, DeleteBegin(r) PROVE Promise(job', disk', fat') /\ TreeMoves
    BY <2>6, <2>1, <1>1, <1>3, DeleteBeginPromise DEF TreeMoves
  <2>7. ASSUME WriteCluster PROVE Promise(job', disk', fat') /\ TreeMoves
    BY <2>3, <2>7, <1>1, <1>2, WriteClusterPromise
  <2>8. ASSUME CreateEntry PROVE Promise(job', disk', fat') /\ TreeMoves
    BY <2>3, <2>8, <1>1, <1>2, CreateEntryPromise
  <2>9. ASSUME ExpandFolder PROVE Promise(job', disk', fat') /\ TreeMoves
    BY <2>1, <2>9, <1>1, <1>2, ExpandFolderPromise DEF TreeMoves
  <2>10. ASSUME ExpandTable PROVE Promise(job', disk', fat') /\ TreeMoves
    BY <2>3, <2>10, <1>1, <1>2, ExpandTablePromise
  <2>11. ASSUME init_directory_table PROVE Promise(job', disk', fat') /\ TreeMoves
    BY <2>3, <2>11, <1>1, <1>2, InitTablePromise
  <2>12. ASSUME WriteFat PROVE Promise(job', disk', fat') /\ TreeMoves
    BY <2>1, <2>12, <1>1, <1>2, WriteFatPromise DEF TreeMoves
  <2>13. ASSUME deleteRecurse PROVE Promise(job', disk', fat') /\ TreeMoves
    BY <2>3, <2>13, <1>1, <1>2, DeleteRecursePromise
  <2>14. ASSUME DeleteRecurseAstray PROVE Promise(job', disk', fat') /\ TreeMoves
    BY <2>3, <2>14, <1>1, <1>2, AstrayPromise
  <2>15. ASSUME FolderDone PROVE Promise(job', disk', fat') /\ TreeMoves
    BY <2>3, <2>15, <1>1, <1>2, FolderDonePromise
  <2>16. ASSUME Wipe PROVE Promise(job', disk', fat') /\ TreeMoves
    BY <2>3, <2>16, <1>1, <1>2, WipePromise
  <2>17. ASSUME DeleteFat PROVE Promise(job', disk', fat') /\ TreeMoves
    BY <2>3, <2>17, <1>1, <1>2, DeleteFatPromise
  <2>18. ASSUME DeleteEntry PROVE Promise(job', disk', fat') /\ TreeMoves
    BY <2>3, <2>18, <1>1, <1>2, DeleteEntryPromise
  <2>19. ASSUME DeleteRecurseEntry PROVE Promise(job', disk', fat') /\ TreeMoves
    BY <2>3, <2>19, <1>1, <1>2, DeleteRecurseEntryPromise
  <2>20. Promise(job', disk', fat') /\ TreeMoves
    BY <2>1, <2>4, <2>5, <2>6, <2>7, <2>8, <2>9, <2>10, <2>11, <2>12, <2>13, <2>14, <2>15,
       <2>16, <2>17, <2>18, <2>19 DEF FsNext
  <2>21. QED
    BY <2>2, <2>20, <1>1 DEF FsKeeps
<1>6. QED
  BY <1>4, <1>5

LEMMA TreeFollows ==
  ASSUME TreeMoves
  PROVE  [Tree!TreeNext]_tree
<1>1. CASE tree' = tree
  BY <1>1
<1>2. ASSUME NEW k, Gains(tree, tree', k) PROVE Tree!TreeNext
  <2>1. Tree!Create(k, tree'[k]) /\ k \in DOMAIN tree'
    BY <1>2 DEF Gains, Tree!Create
  <2>2. QED
    BY <2>1 DEF Tree!TreeNext
<1>3. CASE Loses(tree, tree', job'.request)
  <2>1. PICK k \in DOMAIN tree \ DOMAIN tree' :
          tree' = [j \in DOMAIN tree \ Tree!Below(tree, k) |-> tree[j]]
    BY <1>3 DEF Loses
  <2>2. Tree!Remove(k)
    BY <2>1 DEF Tree!Remove
  <2>3. QED
    BY <2>1, <2>2 DEF Tree!TreeNext
<1>4. QED
  BY <1>1, <1>2, <1>3 DEF TreeMoves

LEMMA AlwaysKeeps == MCSpec => []FsKeeps
<1>1. MCInit => FsKeeps
  BY KeepsStart
<1>2. FsKeeps /\ [MCNext]_<<fsVars, tree>> => FsKeeps'
  BY KeepsStep
<1>3. QED
  BY <1>1, <1>2, PTL DEF MCSpec

\* Started again at any moment, between any two disk writes of any call, the
\* machine reads a tree of names in which, but for the file or folder of the call
\* in progress, every file has what was written into it; a write adds one name,
\* a delete takes one away with what is below it.
THEOREM FsKeepsFiles == MCSpec => KeepsFiles
<1>1. MCInit => Tree!TreeInit
  BY KeepsStart
<1>2. FsKeeps /\ [MCNext]_<<fsVars, tree>> => [Tree!TreeNext]_tree
  BY KeepsStep, TreeFollows
<1>3. QED
  BY <1>1, <1>2, AlwaysKeeps, PTL DEF MCSpec, KeepsFiles, Tree!TreeSpec

\* A step takes a name away only in a delete that asks for it: for a file that
\* name with that extension and nothing else.
THEOREM FsDeletesWhatIsAsked == MCSpec => DeletesWhatIsAsked
<1> DEFINE Gone == DOMAIN tree \ DOMAIN tree'
           r == job'.request
           Only == Gone # {} => \E k \in Gone :
             /\ k.in = r.parent /\ k.name = r.name
             /\ r.buffer_size # 0 => k.ext = r.ext /\ Gone = {k}
<1>1. ASSUME FsKeeps, [MCNext]_<<fsVars, tree>> PROVE [Only]_tree
  <2>1. TreeMoves
    BY <1>1, KeepsStep
  <2>2. CASE tree' = tree
    BY <2>2
  <2>3. ASSUME NEW k, Gains(tree, tree', k) PROVE Gone = {}
    <3>1. tree' = [j \in DOMAIN tree \cup {k} |-> IF j = k THEN tree'[k] ELSE tree[j]]
      BY <2>3 DEF Gains
    <3>2. DOMAIN tree' = DOMAIN tree \cup {k}
      BY <3>1
    <3>3. QED
      BY <3>2
  <2>4. CASE Loses(tree, tree', r)
    BY <2>4 DEF Loses
  <2>5. QED
    BY <2>1, <2>2, <2>3, <2>4 DEF TreeMoves
<1>2. FsKeeps /\ [MCNext]_<<fsVars, tree>> => [Only]_tree
  BY <1>1
<1>3. QED
  BY <1>2, AlwaysKeeps, PTL DEF MCSpec, DeletesWhatIsAsked
=============================================================================
