-------------------------- MODULE Commands_proofs --------------------------
(***************************************************************************)
(* The file commands keep a tree: proofs about Paths, Commands and the     *)
(* properties of MCCommands, for every set of folders, of command lines    *)
(* and of trees to begin with.                                             *)
(***************************************************************************)
EXTENDS MCCommands, Induction, FiniteSetTheorems

-----------------------------------------------------------------------------
(* Folders and those they are in *)

\* A handle but the root's is that of one entry.
LEMMA HandleHasKey ==
  ASSUME NEW t, NEW h \in Handles(t), h # Root
  PROVE  \E k \in DOMAIN t : t[k].folder /\ t[k].handle = h
BY DEF Handles

\* The folder above.
LEMMA ParentGives ==
  ASSUME NEW t, IsTree(t), NEW k \in DOMAIN t, t[k].folder
  PROVE  /\ t[k].handle \in Folder /\ t[k].handle # Root /\ t[k].handle \in Handles(t)
         /\ ParentOf(t, t[k].handle) = k.in
<1>1. t[k].handle \in Folder /\ t[k].handle # Root /\ t[k].handle \in Handles(t)
  BY PathsAssumption DEF IsTree, Handles
<1>2. \A j : IsFolder(t, j) /\ t[j].handle = t[k].handle => j = k
  BY DEF IsTree, IsFolder
<1>3. IsFolder(t, k) /\ t[k].handle = t[k].handle
  BY DEF IsFolder
<1>4. (CHOOSE j \in DOMAIN t : IsFolder(t, j) /\ t[j].handle = t[k].handle) = k
  BY <1>2, <1>3
<1>5. QED
  BY <1>1, <1>4 DEF ParentOf

LEMMA ParentInTree ==
  ASSUME NEW t, IsTree(t), NEW h \in Handles(t)
  PROVE  ParentOf(t, h) \in Handles(t)
<1>1. CASE h = Root
  BY <1>1 DEF ParentOf, Handles
<1>2. CASE h # Root
  <2>1. PICK k \in DOMAIN t : t[k].folder /\ t[k].handle = h
    BY <1>2, HandleHasKey
  <2>2. ParentOf(t, h) = k.in
    BY <2>1, ParentGives
  <2>3. QED
    BY <2>2 DEF IsTree
<1>3. QED
  BY <1>1, <1>2

\* Upwards is the least set that holds a folder and climbs.
LEMMA UpwardsGives ==
  ASSUME NEW t, IsTree(t), NEW h \in Handles(t)
  PROVE  h \in Upwards(t, h) /\ Upwards(t, h) \subseteq Handles(t) /\ Climbing(t, Upwards(t, h))
<1>1. h \in Upwards(t, h) /\ Upwards(t, h) \subseteq Handles(t)
  BY DEF Upwards
<1>2. ASSUME NEW g \in Upwards(t, h) PROVE ParentOf(t, g) \in Upwards(t, h)
  <2>1. ParentOf(t, g) \in Handles(t)
    BY <1>1, ParentInTree
  <2>2. ASSUME NEW S \in SUBSET Handles(t), h \in S, Climbing(t, S) PROVE ParentOf(t, g) \in S
    BY <2>2 DEF Upwards, Climbing
  <2>3. QED
    BY <2>1, <2>2 DEF Upwards
<1>3. QED
  BY <1>1, <1>2 DEF Climbing

LEMMA UpwardsLeast ==
  ASSUME NEW t, NEW h, NEW S \in SUBSET Handles(t), h \in S, Climbing(t, S)
  PROVE  Upwards(t, h) \subseteq S
BY DEF Upwards

LEMMA UpwardsTransitive ==
  ASSUME NEW t, IsTree(t), NEW h \in Handles(t), NEW g \in Upwards(t, h)
  PROVE  Upwards(t, g) \subseteq Upwards(t, h)
BY UpwardsGives, UpwardsLeast

LEMMA UpwardsStep ==
  ASSUME NEW t, IsTree(t), NEW h \in Handles(t)
  PROVE  Upwards(t, h) \subseteq {h} \cup Upwards(t, ParentOf(t, h))
<1> DEFINE S == {h} \cup Upwards(t, ParentOf(t, h))
<1>1. ParentOf(t, h) \in Handles(t)
  BY ParentInTree
<1>2. /\ ParentOf(t, h) \in Upwards(t, ParentOf(t, h))
      /\ Upwards(t, ParentOf(t, h)) \subseteq Handles(t)
      /\ Climbing(t, Upwards(t, ParentOf(t, h)))
  BY <1>1, UpwardsGives
<1>3. S \in SUBSET Handles(t) /\ h \in S /\ Climbing(t, S)
  BY <1>2 DEF Climbing
<1> HIDE DEF S
<1>4. Upwards(t, h) \subseteq S
  BY <1>3, UpwardsLeast
<1>5. QED
  BY <1>4 DEF S

LEMMA UpwardsOfRoot ==
  ASSUME NEW t, IsTree(t)
  PROVE  Root \in Handles(t) /\ ParentOf(t, Root) = Root /\ Upwards(t, Root) = {Root}
<1>1. Root \in Handles(t) /\ ParentOf(t, Root) = Root
  BY DEF Handles, ParentOf
<1>2. {Root} \in SUBSET Handles(t) /\ Climbing(t, {Root})
  BY <1>1 DEF Climbing
<1>3. Upwards(t, Root) \subseteq {Root}
  BY <1>2, UpwardsLeast
<1>4. QED
  BY <1>1, <1>3, UpwardsGives
-----------------------------------------------------------------------------
(* What a new entry leaves alone *)

\* A new entry: a file, or a folder with a handle of its own.
Fresh(t, k, node) ==
  /\ k = Key(k.in, k.name, k.ext) /\ CanWrite(t, k) /\ node.folder \in BOOLEAN
  /\ node.folder => k.ext = "" /\ node.handle \in FreeHandles(t)

\* What it makes of the tree.
Added(t, k, node, u) ==
  /\ DOMAIN u = DOMAIN t \cup {k} /\ k \notin DOMAIN t /\ u[k] = node
  /\ \A j \in DOMAIN t : u[j] = t[j]
  /\ u = [j \in DOMAIN u |-> u[j]]

LEMMA PutGives ==
  ASSUME NEW t, NEW k, NEW node, CanWrite(t, k)
  PROVE  Added(t, k, node, Put(t, k, node))
BY DEF Added, Put, CanWrite

LEMMA AddedHandles ==
  ASSUME NEW t, NEW k, NEW node, NEW u, Added(t, k, node, u)
  PROVE  Handles(u) = Handles(t) \cup {h \in {node.handle} : node.folder}
<1>1. {j \in DOMAIN u : u[j].folder} =
        {j \in DOMAIN t : t[j].folder} \cup {j \in {k} : node.folder}
  BY DEF Added
<1>2. {u[j].handle : j \in {i \in DOMAIN u : u[i].folder}} =
        {t[j].handle : j \in {i \in DOMAIN t : t[i].folder}} \cup {h \in {node.handle} : node.folder}
  BY <1>1 DEF Added
<1>3. QED
  BY <1>2 DEF Handles

LEMMA AddedKeepsTree ==
  ASSUME NEW t, IsTree(t), NEW k, NEW node, Fresh(t, k, node), NEW u, Added(t, k, node, u)
  PROVE  /\ IsTree(u)
         /\ \A h \in Handles(t) : ParentOf(u, h) = ParentOf(t, h) /\ Upwards(u, h) = Upwards(t, h)
<1>1. /\ DOMAIN u = DOMAIN t \cup {k} /\ k \notin DOMAIN t
      /\ u[k] = node /\ \A j \in DOMAIN t : u[j] = t[j]
      /\ Handles(t) \subseteq Handles(u)
  BY AddedHandles DEF Added
<1>2. u = [j \in DOMAIN u |-> u[j]]
  BY DEF Added
<1>3. \A j, i \in DOMAIN u : u[j].folder /\ u[i].folder /\ u[j].handle = u[i].handle => j = i
  <2>1. \A j \in DOMAIN t : t[j].folder => t[j].handle \in Handles(t)
    BY DEF Handles
  <2>2. node.folder => node.handle \notin Handles(t)
    BY DEF Fresh, FreeHandles
  <2>3. \A j \in DOMAIN t : t[j].folder /\ node.folder => t[j].handle # node.handle
    BY <2>1, <2>2
  <2>4. \A j, i \in DOMAIN t : t[j].folder /\ t[i].folder /\ t[j].handle = t[i].handle => j = i
    BY DEF IsTree
  <2>5. \A j \in DOMAIN u : j = k \/ (j \in DOMAIN t /\ u[j] = t[j])
    BY <1>1
  <2>6. QED
    BY <1>1, <2>3, <2>4, <2>5
<1>4. ASSUME NEW h \in Handles(t) PROVE ParentOf(u, h) = ParentOf(t, h)
  <2>1. CASE h = Root
    BY <2>1 DEF ParentOf
  <2>2. CASE h # Root
    <3>1. PICK j \in DOMAIN t : t[j].folder /\ t[j].handle = h
      BY <2>2, HandleHasKey
    <3>2. ParentOf(t, h) = j.in
      BY <3>1, ParentGives
    <3>3. IsFolder(u, j) /\ u[j].handle = h
      BY <1>1, <3>1 DEF IsFolder
    <3>4. \A i : IsFolder(u, i) /\ u[i].handle = h => i = j
      BY <1>1, <1>3, <3>3 DEF IsFolder
    <3>5. (CHOOSE i \in DOMAIN u : IsFolder(u, i) /\ u[i].handle = h) = j
      BY <1>1, <3>3, <3>4
    <3>6. QED
      BY <2>2, <3>2, <3>5 DEF ParentOf
  <2>3. QED
    BY <2>1, <2>2
<1>5. ASSUME NEW h \in Handles(t) PROVE Upwards(u, h) = Upwards(t, h)
  <2>1. h \in Upwards(t, h) /\ Upwards(t, h) \subseteq Handles(t) /\ Climbing(t, Upwards(t, h))
    BY UpwardsGives
  <2>2. Upwards(t, h) \in SUBSET Handles(u) /\ Climbing(u, Upwards(t, h))
    BY <1>1, <1>4, <2>1 DEF Climbing
  <2>3. Upwards(u, h) \subseteq Upwards(t, h)
    BY <2>1, <2>2, UpwardsLeast
  <2>4. ASSUME NEW g \in Upwards(t, h), NEW S \in SUBSET Handles(u), h \in S, Climbing(u, S)
        PROVE  g \in S
    <3>1. S \cap Handles(t) \in SUBSET Handles(t) /\ h \in S \cap Handles(t)
      BY <2>4
    <3>2. Climbing(t, S \cap Handles(t))
      BY <1>4, <2>4, ParentInTree DEF Climbing
    <3>3. QED
      BY <3>1, <3>2, UpwardsLeast
  <2>5. Upwards(t, h) \subseteq Upwards(u, h)
    BY <1>1, <2>1, <2>4 DEF Upwards
  <2>6. QED
    BY <2>3, <2>5
<1>6. IsFiniteSet(DOMAIN u)
  <2>1. IsFiniteSet(DOMAIN t)
    BY DEF IsTree
  <2>2. QED
    BY <1>1, <2>1, FS_AddElement
<1>7. ASSUME NEW j \in DOMAIN u
      PROVE  /\ j = Key(j.in, j.name, j.ext) /\ u[j].folder \in BOOLEAN
             /\ u[j].folder => j.ext = "" /\ u[j].handle \in Folder
             /\ j.in \in Handles(t)
  <2>1. CASE j = k
    BY <1>1, <2>1 DEF Fresh, CanWrite, FreeHandles
  <2>2. CASE j \in DOMAIN t
    BY <1>1, <2>2 DEF IsTree
  <2>3. QED
    BY <1>1, <2>1, <2>2
<1>8. \A j \in Handles(t) : Root \in Upwards(t, j)
  <2>1. ASSUME NEW j \in Handles(t) PROVE Root \in Upwards(t, j)
    <3>1. CASE j = Root
      BY <3>1, UpwardsGives
    <3>2. CASE j # Root
      <4>1. PICK i \in DOMAIN t : t[i].folder /\ t[i].handle = j
        BY <3>2, HandleHasKey
      <4>2. ParentOf(t, j) = i.in /\ i.in \in Handles(t) /\ Root \in Upwards(t, i.in)
        BY <4>1, ParentGives DEF IsTree
      <4>3. ParentOf(t, j) \in Upwards(t, j)
        BY UpwardsGives DEF Climbing
      <4>4. QED
        BY <4>2, <4>3, UpwardsTransitive
    <3>3. QED
      BY <3>1, <3>2
  <2>2. QED
    BY <2>1
<1>9. IsTree(u)
  BY <1>1, <1>2, <1>3, <1>5, <1>6, <1>7, <1>8 DEF IsTree
<1>10. QED
  BY <1>4, <1>5, <1>9
-----------------------------------------------------------------------------
(* What a deletion leaves alone *)

\* The tree after the deletion of an entry.
Without(t, k) == [j \in DOMAIN t \ Below(t, k) |-> t[j]]

\* A folder that does not go with an entry.
Spares(t, k, h) == IsFolder(t, k) => t[k].handle \notin Upwards(t, h)

\* What a deletion makes of the tree.
Removed(t, k, u) ==
  /\ u = [j \in DOMAIN u |-> u[j]] /\ \A j \in DOMAIN u : u[j] = t[j]
  /\ DOMAIN u = {j \in DOMAIN t : j # k /\ Spares(t, k, j.in)}

LEMMA WithoutGives ==
  ASSUME NEW t, NEW k
  PROVE  Removed(t, k, Without(t, k))
BY DEF Without, Below, Spares, Removed

LEMMA RemovedKeepsTree ==
  ASSUME NEW t, IsTree(t), NEW k \in DOMAIN t, NEW u, Removed(t, k, u)
  PROVE  /\ IsTree(u) /\ Handles(u) = {h \in Handles(t) : Spares(t, k, h)}
         /\ \A h \in Handles(t) : Spares(t, k, h) =>
              ParentOf(u, h) = ParentOf(t, h) /\ Upwards(u, h) = Upwards(t, h)
<1>1. /\ \A j \in DOMAIN u : u[j] = t[j]
      /\ DOMAIN u = {j \in DOMAIN t : j # k /\ Spares(t, k, j.in)}
  BY DEF Removed
<1>2. \A h \in Handles(t) : \A g \in Upwards(t, h) : Spares(t, k, h) => Spares(t, k, g)
  BY UpwardsTransitive DEF Spares
<1>3. ASSUME NEW h \in Handles(t), Spares(t, k, h) PROVE h \in Handles(u)
  <2>1. CASE h = Root
    BY <2>1 DEF Handles
  <2>2. CASE h # Root
    <3>1. PICK j \in DOMAIN t : t[j].folder /\ t[j].handle = h
      BY <2>2, HandleHasKey
    <3>2. j # k
      BY <1>3, <3>1, UpwardsGives DEF Spares, IsFolder
    <3>3. j.in \in Upwards(t, h)
      BY <3>1, ParentGives, UpwardsGives DEF Climbing
    <3>4. j \in DOMAIN u
      BY <1>1, <1>2, <1>3, <3>2, <3>3
    <3>5. QED
      BY <1>1, <3>1, <3>4 DEF Handles
  <2>3. QED
    BY <2>1, <2>2
<1>4. ASSUME NEW h \in Handles(u) PROVE h \in Handles(t) /\ Spares(t, k, h)
  <2>1. CASE h = Root
    BY <2>1, UpwardsOfRoot, ParentGives DEF Spares, IsFolder
  <2>2. CASE h # Root
    <3>1. PICK j \in DOMAIN u : u[j].folder /\ u[j].handle = h
      BY <2>2, HandleHasKey
    <3>2. /\ j \in DOMAIN t /\ j # k /\ Spares(t, k, j.in)
          /\ t[j].folder /\ t[j].handle = h /\ h \in Handles(t)
      BY <1>1, <3>1 DEF Handles
    <3>3. ParentOf(t, h) = j.in
      BY <3>2, ParentGives
    <3>4. IsFolder(t, k) => t[k].handle # h
      BY <3>2 DEF IsTree, IsFolder
    <3>5. QED
      BY <3>2, <3>3, <3>4, UpwardsStep DEF Spares
  <2>3. QED
    BY <2>1, <2>2
<1>5. \A j, i \in DOMAIN u : u[j].folder /\ u[i].folder /\ u[j].handle = u[i].handle => j = i
  <2>1. \A j, i \in DOMAIN t : t[j].folder /\ t[i].folder /\ t[j].handle = t[i].handle => j = i
    BY DEF IsTree
  <2>2. \A j \in DOMAIN u : j \in DOMAIN t /\ u[j] = t[j]
    BY <1>1
  <2>3. QED
    BY <2>1, <2>2
<1>6. ASSUME NEW h \in Handles(u) PROVE ParentOf(u, h) = ParentOf(t, h)
  <2>1. CASE h = Root
    BY <2>1 DEF ParentOf
  <2>2. CASE h # Root
    <3>1. PICK j \in DOMAIN u : u[j].folder /\ u[j].handle = h
      BY <2>2, HandleHasKey
    <3>2. j \in DOMAIN t /\ t[j].folder /\ t[j].handle = h
      BY <1>1, <3>1
    <3>3. ParentOf(t, h) = j.in
      BY <3>2, ParentGives
    <3>4. \A i : IsFolder(u, i) /\ u[i].handle = h => i = j
      BY <1>5, <3>1 DEF IsFolder
    <3>5. (CHOOSE i \in DOMAIN u : IsFolder(u, i) /\ u[i].handle = h) = j
      BY <3>1, <3>4 DEF IsFolder
    <3>6. QED
      BY <2>2, <3>3, <3>5 DEF ParentOf
  <2>3. QED
    BY <2>1, <2>2
<1>7. ASSUME NEW h \in Handles(u) PROVE Upwards(u, h) = Upwards(t, h)
  <2>1. h \in Handles(t) /\ Spares(t, k, h)
    BY <1>4
  <2>2. h \in Upwards(t, h) /\ Upwards(t, h) \subseteq Handles(t) /\ Climbing(t, Upwards(t, h))
    BY <2>1, UpwardsGives
  <2>3. Upwards(t, h) \in SUBSET Handles(u)
    BY <1>2, <1>3, <2>1, <2>2
  <2>4. Climbing(u, Upwards(t, h))
    BY <1>6, <2>2, <2>3 DEF Climbing
  <2>5. Upwards(u, h) \subseteq Upwards(t, h)
    BY <2>2, <2>3, <2>4, UpwardsLeast
  <2>6. ASSUME NEW g \in Upwards(t, h), NEW S \in SUBSET Handles(u), h \in S, Climbing(u, S)
        PROVE  g \in S
    <3>1. S \in SUBSET Handles(t)
      BY <1>4
    <3>2. Climbing(t, S)
      BY <1>6, <2>6 DEF Climbing
    <3>3. QED
      BY <2>6, <3>1, <3>2, UpwardsLeast
  <2>7. Upwards(t, h) \subseteq Upwards(u, h)
    BY <2>3, <2>6 DEF Upwards
  <2>8. QED
    BY <2>5, <2>7
<1>8. IsTree(u)
  <2>1. IsFiniteSet(DOMAIN u)
    BY <1>1, FS_Subset DEF IsTree
  <2>2. u = [j \in DOMAIN u |-> u[j]]
    BY DEF Removed
  <2>3. ASSUME NEW j \in DOMAIN u
        PROVE  /\ j = Key(j.in, j.name, j.ext) /\ u[j].folder \in BOOLEAN
               /\ u[j].folder => j.ext = "" /\ u[j].handle \in Folder
               /\ j.in \in Handles(u) /\ Root \in Upwards(u, j.in)
    <3>1. j \in DOMAIN t /\ u[j] = t[j] /\ Spares(t, k, j.in)
      BY <1>1
    <3>2. j.in \in Handles(t) /\ Root \in Upwards(t, j.in)
      BY <3>1 DEF IsTree
    <3>3. j.in \in Handles(u) /\ Root \in Upwards(u, j.in)
      BY <1>3, <1>7, <3>1, <3>2
    <3>4. QED
      BY <3>1, <3>3 DEF IsTree
  <2>4. QED
    BY <1>5, <2>1, <2>2, <2>3 DEF IsTree
<1>9. QED
  BY <1>3, <1>4, <1>6, <1>7, <1>8
-----------------------------------------------------------------------------
(* Walks *)

\* The loops of the two walks, one word further.
StrictStep(t, h, w) ==
  CASE h = Nowhere              -> Nowhere
    [] h # Nowhere /\ w = ".."  -> ParentOf(t, h)
    [] OTHER                    -> SubfolderOr(t, h, w, Nowhere)

LooseStep(t, h, w) == IF w = ".." THEN ParentOf(t, h) ELSE SubfolderOr(t, h, w, h)

\* From one folder to the next by a word.
Hop(t, g, w, h) ==
  \/ w = ".." /\ h = ParentOf(t, g)
  \/ w # ".." /\ IsFolder(t, Key(g, w, "")) /\ h = t[Key(g, w, "")].handle

\* The folders on the way along words that are all there.
Way(t, from, words, at) ==
  /\ at \in [0 .. Len(words) -> Handles(t)] /\ at[0] = from
  /\ \A n \in 1 .. Len(words) : Hop(t, at[n - 1], words[n], at[n])

LEMMA NowhereIsNoFolder ==
  ASSUME NEW t, IsTree(t)
  PROVE  Nowhere \notin Handles(t)
BY PathsAssumption DEF IsTree, Handles

LEMMA HopSteps ==
  ASSUME NEW t, IsTree(t), NEW g \in Handles(t), NEW w, NEW h, Hop(t, g, w, h)
  PROVE  StrictStep(t, g, w) = h /\ LooseStep(t, g, w) = h
BY NowhereIsNoFolder DEF Hop, StrictStep, LooseStep, SubfolderOr

\* Both walks go along a way that is there.
LEMMA WayIsFollowed ==
  ASSUME NEW t, IsTree(t), NEW p, Len(p.words) \in Nat, NEW h, NEW at, Way(t, Start(p, h), p.words, at)
  PROVE  WalkStrictly(t, p, h) = at[Len(p.words)] /\ path_to_cluster(t, p, h) = at[Len(p.words)]
<1> DEFINE N == Len(p.words)
           from == Start(p, h)
           s == CHOOSE g : g = [n \in 0 .. N |-> IF n = 0 THEN from ELSE StrictStep(t, g[n - 1], p.words[n])]
           l == CHOOSE g : g = [n \in 0 .. N |-> IF n = 0 THEN from ELSE LooseStep(t, g[n - 1], p.words[n])]
<1>1. N \in Nat
  OBVIOUS
<1>2. /\ at \in [0 .. N -> Handles(t)] /\ at[0] = from
      /\ \A n \in 1 .. N : Hop(t, at[n - 1], p.words[n], at[n])
  BY DEF Way
<1>3. WalkStrictly(t, p, h) = s[N]
  BY DEF WalkStrictly, Walk, StrictStep
<1>4. path_to_cluster(t, p, h) = l[N]
  BY DEF path_to_cluster, Walk, LooseStep
<1> HIDE DEF N, from
<1>5. \A n \in 1 .. N : at[n] = StrictStep(t, at[n - 1], p.words[n]) /\ at[n] = LooseStep(t, at[n - 1], p.words[n])
  <2>1. \A n \in 1 .. N : n - 1 \in 0 .. N
    BY <1>1
  <2>2. QED
    BY <1>2, <2>1, HopSteps
<1>6. at = [n \in 0 .. N |-> IF n = 0 THEN from ELSE StrictStep(t, at[n - 1], p.words[n])]
  <2>1. \A n \in 0 .. N : n = 0 \/ n \in 1 .. N
    BY <1>1
  <2>2. QED
    BY <1>2, <1>5, <2>1
<1>7. at = [n \in 0 .. N |-> IF n = 0 THEN from ELSE LooseStep(t, at[n - 1], p.words[n])]
  <2>1. \A n \in 0 .. N : n = 0 \/ n \in 1 .. N
    BY <1>1
  <2>2. QED
    BY <1>2, <1>5, <2>1
<1>8. s = [n \in 0 .. N |-> IF n = 0 THEN from ELSE StrictStep(t, s[n - 1], p.words[n])]
  BY <1>6
<1>9. l = [n \in 0 .. N |-> IF n = 0 THEN from ELSE LooseStep(t, l[n - 1], p.words[n])]
  BY <1>7
<1> HIDE DEF s, l
<1>10. 0 \in 0 .. N /\ \A k \in 0 .. N : k < N => k + 1 \in 0 .. N /\ k + 1 # 0 /\ (k + 1) - 1 = k
  BY <1>1
<1>11. FollowUp(at, s, N)
  BY <1>6, <1>8, <1>10 DEF FollowUp
<1>12. FollowUp(at, l, N)
  BY <1>7, <1>9, <1>10 DEF FollowUp
<1>13. N \in 0 .. N
  BY <1>1
<1>14. s[N] = at[N] /\ l[N] = at[N]
  BY <1>1, <1>11, <1>12, <1>13, RecursionDownUnique
<1>15. QED
  BY <1>3, <1>4, <1>14 DEF N

LEMMA WayIsWalked ==
  ASSUME NEW t, IsTree(t), NEW p \in Path, NEW h, NEW at, Way(t, Start(p, h), p.words, at)
  PROVE  WalkStrictly(t, p, h) = at[Len(p.words)] /\ path_to_cluster(t, p, h) = at[Len(p.words)]
<1>1. p.words \in Seq(STRING)
  BY DEF Path
<1>2. Len(p.words) \in Nat
  BY <1>1, LenProperties
<1>3. QED
  BY <1>2, WayIsFollowed

\* When the strict walk arrives, there is a way.
LEMMA StrictWalkHasWay ==
  ASSUME NEW t, IsTree(t), NEW p \in Path, NEW h, Start(p, h) \in Handles(t),
         is_directorypath_valid(t, p, h)
  PROVE  \E at : Way(t, Start(p, h), p.words, at)
<1> DEFINE N == Len(p.words)
           from == Start(p, h)
           V == Handles(t) \cup {Nowhere}
           step == [kv \in (1 .. N) \X V |-> StrictStep(t, kv[2], p.words[kv[1]])]
           s == CHOOSE g : g = [n \in 0 .. N |-> IF n = 0 THEN from ELSE StrictStep(t, g[n - 1], p.words[n])]
<1>1. N \in Nat
  BY LenProperties DEF Path
<1>2. WalkStrictly(t, p, h) = s[N]
  BY DEF WalkStrictly, Walk, StrictStep
<1>3. from \in Handles(t) /\ s[N] # Nowhere
  BY <1>2 DEF is_directorypath_valid
<1> HIDE DEF N, from
<1>4. \A w : \A v \in V : StrictStep(t, v, w) \in V
  <2>1. ASSUME NEW v \in V, NEW w, v # Nowhere PROVE StrictStep(t, v, w) \in V
    <3>1. ParentOf(t, v) \in Handles(t)
      BY <2>1, ParentInTree
    <3>2. SubfolderOr(t, v, w, Nowhere) \in V
      BY DEF SubfolderOr, Handles, IsFolder
    <3>3. QED
      BY <2>1, <3>1, <3>2 DEF StrictStep
  <2>2. QED
    BY <2>1 DEF StrictStep
<1> HIDE DEF V
<1>5. Turns(N, V, from, step)
  BY <1>1, <1>3, <1>4 DEF Turns, V
<1>6. PICK g \in [0 .. N -> V] : Counts(g, N, from, step)
  BY <1>5, RecursionDown
<1>7. \A n \in 1 .. N : g[n] = StrictStep(t, g[n - 1], p.words[n])
  <2>1. \A n \in 1 .. N : n - 1 \in 0 .. N
    BY <1>1
  <2>2. QED
    BY <1>6, <2>1 DEF Counts
<1>8. g = [n \in 0 .. N |-> IF n = 0 THEN from ELSE StrictStep(t, g[n - 1], p.words[n])]
  <2>1. \A n \in 0 .. N : n = 0 \/ n \in 1 .. N
    BY <1>1
  <2>2. QED
    BY <1>6, <1>7, <2>1 DEF Counts
<1>9. s = [n \in 0 .. N |-> IF n = 0 THEN from ELSE StrictStep(t, s[n - 1], p.words[n])]
  BY <1>8
<1> HIDE DEF s
<1>10. \A k \in 0 .. N : k < N => k + 1 \in 0 .. N /\ k + 1 # 0 /\ (k + 1) - 1 = k
  BY <1>1
<1>11. 0 \in 0 .. N /\ N \in 0 .. N
  BY <1>1
<1>12. FollowUp(g, s, N)
  BY <1>8, <1>9, <1>10, <1>11 DEF FollowUp
<1>13. g[N] # Nowhere
  BY <1>1, <1>3, <1>11, <1>12, RecursionDownUnique
<1>14. ASSUME NEW j \in 0 .. N PROVE g[j] # Nowhere
  <2> SUFFICES ASSUME g[j] = Nowhere PROVE FALSE
    OBVIOUS
  <2> DEFINE S == {k \in 0 .. N : j <= k => g[k] = Nowhere}
  <2>1. 0 \in S
    BY <1>1
  <2>2. ASSUME NEW k \in 0 .. N, k < N, k \in S PROVE k + 1 \in S
    <3>1. k + 1 \in 1 .. N /\ (k + 1) - 1 = k
      BY <1>1, <2>2
    <3>2. j <= k => g[k + 1] = Nowhere
      BY <1>7, <2>2, <3>1 DEF StrictStep
    <3>3. QED
      BY <1>1, <3>1, <3>2
  <2> HIDE DEF S
  <2>3. 0 .. N \subseteq S
    BY <1>1, <2>1, <2>2, RangeInSet
  <2>4. N \in S
    BY <1>11, <2>3
  <2>5. QED
    BY <1>1, <1>13, <2>4 DEF S
<1>15. g \in [0 .. N -> Handles(t)] /\ g[0] = from
  BY <1>6, <1>14 DEF V, Counts
<1>16. ASSUME NEW n \in 1 .. N PROVE Hop(t, g[n - 1], p.words[n], g[n])
  <2>1. n - 1 \in 0 .. N /\ n \in 0 .. N
    BY <1>1
  <2>2. g[n] = StrictStep(t, g[n - 1], p.words[n]) /\ g[n - 1] # Nowhere /\ g[n] # Nowhere
    BY <1>7, <1>14, <2>1
  <2>3. QED
    BY <2>2 DEF StrictStep, SubfolderOr, Hop
<1>17. Way(t, from, p.words, g)
  BY <1>15, <1>16 DEF Way, N
<1>18. QED
  BY <1>17 DEF from
-----------------------------------------------------------------------------
(* Lists of jobs *)

\* A sequence, whatever is in it.
Listed(s) == s \in Seq({s[i] : i \in DOMAIN s})

LEMMA ListedGives ==
  ASSUME NEW n \in Nat, NEW s, s = [i \in 1 .. n |-> s[i]]
  PROVE  Listed(s)
<1>1. DOMAIN s = 1 .. n
  OBVIOUS
<1>2. s \in [1 .. n -> {s[i] : i \in DOMAIN s}]
  BY <1>1
<1>3. QED
  BY <1>2 DEF Listed

LEMMA ListedMeans ==
  ASSUME NEW s, Listed(s)
  PROVE  Len(s) \in Nat /\ DOMAIN s = 1 .. Len(s) /\ s = [i \in 1 .. Len(s) |-> s[i]]
BY LenProperties DEF Listed

\* One after the other.
LEMMA ListedJoin ==
  ASSUME NEW s, Listed(s), NEW r, Listed(r)
  PROVE  /\ Listed(s \o r) /\ Len(s \o r) = Len(s) + Len(r)
         /\ \A i \in DOMAIN (s \o r) : \/ i \in DOMAIN s /\ (s \o r)[i] = s[i]
                                       \/ i - Len(s) \in DOMAIN r /\ (s \o r)[i] = r[i - Len(s)]
<1> DEFINE V == {s[i] : i \in DOMAIN s} \cup {r[i] : i \in DOMAIN r}
           q == s \o r
<1>1. /\ Len(s) \in Nat /\ DOMAIN s = 1 .. Len(s) /\ Len(r) \in Nat /\ DOMAIN r = 1 .. Len(r)
      /\ s = [i \in 1 .. Len(s) |-> s[i]] /\ r = [i \in 1 .. Len(r) |-> r[i]]
  BY ListedMeans
<1>2. s \in [1 .. Len(s) -> V] /\ r \in [1 .. Len(r) -> V]
  BY <1>1
<1> HIDE DEF V
<1>3. s \in Seq(V) /\ r \in Seq(V)
  BY <1>1, <1>2
<1>4. /\ q \in Seq(V) /\ Len(q) = Len(s) + Len(r)
      /\ \A i \in 1 .. Len(s) + Len(r) : q[i] = IF i <= Len(s) THEN s[i] ELSE r[i - Len(s)]
  BY <1>3, ConcatProperties
<1> HIDE DEF q
<1>5. DOMAIN q = 1 .. Len(q) /\ Len(q) \in Nat /\ q \in [1 .. Len(q) -> V]
  BY <1>4, LenProperties
<1>6. Listed(q)
  BY <1>5, ListedGives
<1>7. ASSUME NEW i \in DOMAIN q
      PROVE  \/ i \in DOMAIN s /\ q[i] = s[i]
             \/ i - Len(s) \in DOMAIN r /\ q[i] = r[i - Len(s)]
  <2>1. i \in 1 .. Len(s) + Len(r)
    BY <1>4, <1>5
  <2>2. CASE i <= Len(s)
    BY <1>1, <1>4, <2>1, <2>2
  <2>3. CASE ~(i <= Len(s))
    BY <1>1, <1>4, <2>1, <2>3
  <2>4. QED
    BY <2>2, <2>3
<1>8. QED
  BY <1>4, <1>6, <1>7 DEF q

LEMMA ListedTail ==
  ASSUME NEW s, Listed(s), s # << >>
  PROVE  /\ Listed(Tail(s)) /\ 1 \in DOMAIN s /\ Head(s) = s[1] /\ Len(Tail(s)) = Len(s) - 1
         /\ \A i \in DOMAIN Tail(s) : i + 1 \in DOMAIN s /\ Tail(s)[i] = s[i + 1]
<1> DEFINE V == {s[i] : i \in DOMAIN s}
           r == Tail(s)
<1>1. s \in Seq(V) /\ Len(s) \in Nat /\ DOMAIN s = 1 .. Len(s)
  BY ListedMeans DEF Listed
<1> HIDE DEF V
<1>2. r \in Seq(V) /\ Len(r) = Len(s) - 1 /\ \A i \in 1 .. Len(r) : r[i] = s[i + 1]
  BY <1>1, HeadTailProperties
<1>3. Len(s) # 0
  BY <1>1, EmptySeq
<1>4. Head(s) = s[1] /\ 1 \in DOMAIN s
  BY <1>1, <1>3
<1> HIDE DEF r
<1>5. DOMAIN r = 1 .. Len(r) /\ Len(r) \in Nat /\ r \in [1 .. Len(r) -> V]
  BY <1>2, LenProperties
<1>6. Listed(r)
  BY <1>5, ListedGives
<1>7. \A i \in DOMAIN r : i + 1 \in DOMAIN s /\ r[i] = s[i + 1]
  BY <1>1, <1>2, <1>5
<1>8. QED
  BY <1>2, <1>4, <1>6, <1>7 DEF r

LEMMA ListedFew ==
  /\ Listed(<< >>) /\ DOMAIN << >> = {}
  /\ \A x : Listed(<<x>>) /\ DOMAIN <<x>> = {1} /\ <<x>>[1] = x /\ Len(<<x>>) = 1
<1>1. Listed(<< >>) /\ DOMAIN << >> = {}
  BY DEF Listed
<1>2. ASSUME NEW x PROVE Listed(<<x>>) /\ DOMAIN <<x>> = {1} /\ <<x>>[1] = x /\ Len(<<x>>) = 1
  <2>1. <<x>> \in Seq({x}) /\ DOMAIN <<x>> = {1} /\ <<x>>[1] = x /\ Len(<<x>>) = 1
    OBVIOUS
  <2>2. {<<x>>[i] : i \in DOMAIN <<x>>} = {x}
    BY <2>1
  <2>3. QED
    BY <2>1, <2>2 DEF Listed
<1>3. QED
  BY <1>1, <1>2

LEMMA SetToSeqsGives ==
  ASSUME NEW S, IsFiniteSet(S), NEW s \in SetToSeqs(S)
  PROVE  Listed(s) /\ \A i \in DOMAIN s : s[i] \in S
<1> DEFINE n == Cardinality(S)
<1>1. n \in Nat
  BY FS_CardinalityType
<1>2. s \in [1 .. n -> S]
  BY DEF SetToSeqs
<1> HIDE DEF n
<1>3. QED
  BY <1>1, <1>2, ListedGives
-----------------------------------------------------------------------------
(* One step *)

\* What a step may do to the tree when the shell stands in h.
Change(t, u, h) ==
  \/ u = t
  \/ \E k, node : Fresh(t, k, node) /\ Added(t, k, node, u)
  \/ \E k \in DOMAIN t : Spares(t, k, h) /\ Removed(t, k, u)

LEMMA ChangeKeepsTree ==
  ASSUME NEW t, IsTree(t), NEW h \in Handles(t), NEW u, Change(t, u, h)
  PROVE  /\ IsTree(u) /\ h \in Handles(u) /\ Upwards(u, h) = Upwards(t, h)
         /\ \A k \in DOMAIN u : k \in DOMAIN t => u[k] = t[k]
         /\ \A k \in DOMAIN u : k \notin DOMAIN t /\ u[k].folder => u[k].handle \notin Handles(t)
         /\ \A k \in DOMAIN t : t[k].folder /\ t[k].handle \in Upwards(t, h) => k \in DOMAIN u
<1>1. CASE u = t
  BY <1>1
<1>2. ASSUME NEW k, NEW node, Fresh(t, k, node), Added(t, k, node, u)
      PROVE  /\ IsTree(u) /\ h \in Handles(u) /\ Upwards(u, h) = Upwards(t, h)
             /\ \A j \in DOMAIN u : j \in DOMAIN t => u[j] = t[j]
             /\ \A j \in DOMAIN u : j \notin DOMAIN t /\ u[j].folder => u[j].handle \notin Handles(t)
             /\ DOMAIN t \subseteq DOMAIN u
  <2>1. IsTree(u) /\ Upwards(u, h) = Upwards(t, h) /\ h \in Handles(u)
    BY <1>2, AddedKeepsTree, AddedHandles
  <2>2. node.folder => node.handle \notin Handles(t)
    BY <1>2 DEF Fresh, FreeHandles
  <2>3. QED
    BY <1>2, <2>1, <2>2 DEF Added
<1>3. ASSUME NEW k \in DOMAIN t, Spares(t, k, h), Removed(t, k, u)
      PROVE  /\ IsTree(u) /\ h \in Handles(u) /\ Upwards(u, h) = Upwards(t, h)
             /\ \A j \in DOMAIN u : j \in DOMAIN t /\ u[j] = t[j]
             /\ \A j \in DOMAIN t : t[j].folder /\ t[j].handle \in Upwards(t, h) => j \in DOMAIN u
  <2>1. IsTree(u) /\ Upwards(u, h) = Upwards(t, h) /\ h \in Handles(u)
    BY <1>3, RemovedKeepsTree
  <2>2. \A j \in DOMAIN u : j \in DOMAIN t /\ u[j] = t[j]
    BY <1>3 DEF Removed
  <2>3. ASSUME NEW j \in DOMAIN t, t[j].folder, t[j].handle \in Upwards(t, h) PROVE j \in DOMAIN u
    <3>1. j # k
      BY <1>3, <2>3 DEF Spares, IsFolder
    <3>2. j.in \in Upwards(t, h)
      BY <2>3, ParentGives, UpwardsGives DEF Climbing
    <3>3. Upwards(t, j.in) \subseteq Upwards(t, h)
      BY <3>2, UpwardsTransitive
    <3>4. Spares(t, k, j.in)
      BY <1>3, <3>3 DEF Spares
    <3>5. QED
      BY <1>3, <3>1, <3>4 DEF Removed
  <2>4. QED
    BY <2>1, <2>2, <2>3
<1>4. QED
  BY <1>1, <1>2, <1>3 DEF Change

\* The folders on the way to h are those it is in.
LEMMA WayLeadsDown ==
  ASSUME NEW t, IsTree(t), NEW words \in Seq(STRING), \A i \in 1 .. Len(words) : words[i] # "..",
         NEW from, NEW at, Way(t, from, words, at)
  PROVE  \A i \in 0 .. Len(words) : at[i] \in Upwards(t, at[Len(words)])
<1> DEFINE N == Len(words)
           top == Upwards(t, at[N])
           S == {i \in 0 .. N : at[N - i] \in top}
<1>1. N \in Nat
  BY LenProperties
<1>2. at \in [0 .. N -> Handles(t)] /\ \A n \in 1 .. N : Hop(t, at[n - 1], words[n], at[n])
  BY DEF Way
<1> HIDE DEF N
<1>3. at[N] \in Handles(t)
  BY <1>1, <1>2
<1>4. at[N] \in top /\ Climbing(t, top)
  BY <1>3, UpwardsGives
<1> HIDE DEF top
<1>5. 0 \in S
  BY <1>1, <1>4
<1>6. ASSUME NEW i \in 0 .. N, i < N, i \in S PROVE i + 1 \in S
  <2>1. N - i \in 1 .. N /\ N - (i + 1) = (N - i) - 1 /\ i + 1 \in 0 .. N
    BY <1>1, <1>6
  <2>2. Hop(t, at[(N - i) - 1], words[N - i], at[N - i]) /\ words[N - i] # ".."
    BY <1>2, <2>1 DEF N
  <2>3. PICK k \in DOMAIN t : t[k].folder /\ k.in = at[(N - i) - 1] /\ at[N - i] = t[k].handle
    BY <2>2 DEF Hop, IsFolder, Key
  <2>4. ParentOf(t, at[N - i]) = at[(N - i) - 1]
    BY <2>3, ParentGives
  <2>5. QED
    BY <1>4, <1>6, <2>1, <2>4 DEF Climbing
<1> HIDE DEF S
<1>7. 0 .. N \subseteq S
  BY <1>1, <1>5, <1>6, RangeInSet
<1>8. ASSUME NEW i \in 0 .. N PROVE at[i] \in top
  <2>1. N - i \in 0 .. N /\ N - (N - i) = i
    BY <1>1
  <2>2. N - i \in S
    BY <1>7, <2>1
  <2>3. QED
    BY <2>1, <2>2 DEF S
<1>9. QED
  BY <1>8 DEF top, N

\* A step leaves the way to where the shell stands.
LEMMA ChangeKeepsWay ==
  ASSUME NEW t, IsTree(t), NEW words \in Seq(STRING), \A i \in 1 .. Len(words) : words[i] # "..",
         NEW from, NEW at, Way(t, from, words, at), NEW u, Change(t, u, at[Len(words)])
  PROVE  Way(u, from, words, at)
<1> DEFINE N == Len(words)
           h == at[N]
<1>1. N \in Nat
  BY LenProperties
<1>2. /\ at \in [0 .. N -> Handles(t)] /\ at[0] = from
      /\ \A n \in 1 .. N : Hop(t, at[n - 1], words[n], at[n])
  BY DEF Way
<1>3. \A i \in 0 .. N : at[i] \in Upwards(t, h)
  BY WayLeadsDown
<1>4. h \in Handles(t)
  BY <1>1, <1>2
<1>5. /\ IsTree(u) /\ h \in Handles(u) /\ Upwards(u, h) = Upwards(t, h)
      /\ \A k \in DOMAIN u : k \in DOMAIN t => u[k] = t[k]
      /\ \A k \in DOMAIN t : t[k].folder /\ t[k].handle \in Upwards(t, h) => k \in DOMAIN u
  BY <1>4, ChangeKeepsTree
<1>6. at \in [0 .. N -> Handles(u)]
  BY <1>2, <1>3, <1>5, UpwardsGives
<1>7. ASSUME NEW n \in 1 .. N PROVE Hop(u, at[n - 1], words[n], at[n])
  <2>1. Hop(t, at[n - 1], words[n], at[n]) /\ words[n] # ".." /\ at[n] \in Upwards(t, h)
    BY <1>1, <1>2, <1>3
  <2>2. QED
    BY <1>5, <2>1 DEF Hop, IsFolder
<1>8. QED
  BY <1>2, <1>6, <1>7 DEF Way

\* No job of a list removes what the shell stands in.
SafeJob(t, h, job) ==
  job.do = "delete" => \A k \in Meant(t, job) : IsFolder(t, k) => t[k].handle \notin Upwards(t, h)

LEMMA ChangeKeepsSafe ==
  ASSUME NEW t, IsTree(t), NEW h \in Handles(t), NEW u, Change(t, u, h), NEW job, SafeJob(t, h, job)
  PROVE  SafeJob(u, h, job)
<1>1. /\ Upwards(u, h) = Upwards(t, h) /\ Upwards(t, h) \subseteq Handles(t)
      /\ \A k \in DOMAIN u : k \in DOMAIN t => u[k] = t[k]
      /\ \A k \in DOMAIN u : k \notin DOMAIN t /\ u[k].folder => u[k].handle \notin Handles(t)
  BY ChangeKeepsTree, UpwardsGives
<1>2. QED
  BY <1>1 DEF SafeJob, Meant, EntriesOf, IsFolder

\* A job that does not delete; if it writes a file, it names it.
NewJob(job) ==
  job.do # "delete" /\ (job.do = "file" => job.to = Key(job.to.in, job.to.name, job.to.ext))

\* What comes after a job: such jobs, and the rest.
More(s, r) ==
  /\ Listed(r)
  /\ \A i \in DOMAIN r : NewJob(r[i]) \/ \E j \in DOMAIN s : r[i] = s[j]

LEMMA ProceedsGives ==
  ASSUME NEW s, Listed(s), s # << >>, NEW jobs, Listed(jobs), \A i \in DOMAIN jobs : NewJob(jobs[i])
  PROVE  More(s, jobs \o Tail(s))
<1>1. /\ Listed(Tail(s)) /\ \A i \in DOMAIN Tail(s) : \E j \in DOMAIN s : Tail(s)[i] = s[j]
  BY ListedTail
<1>2. QED
  BY <1>1, ListedJoin DEF More

-----------------------------------------------------------------------------
(* The invariant *)

\* What the proofs keep of the state: the tree, the jobs, and the way that the
\* prompt tells.
CommandInv ==
  /\ IsTree(tree) /\ cwd \in Handles(tree)
  /\ Listed(todo)
  /\ \A i \in DOMAIN todo :
       /\ SafeJob(tree, cwd, todo[i])
       /\ todo[i].do = "file" => todo[i].to = Key(todo[i].to.in, todo[i].to.name, todo[i].to.ext)
  /\ path # Garbled =>
       /\ path \in Seq(STRING) /\ \A i \in 1 .. Len(path) : path[i] # ".."
       /\ \E at : Way(tree, Root, path, at) /\ at[Len(path)] = cwd

\* What one step of a command does.
JobDone ==
  Change(tree, tree', cwd) /\ More(todo, todo') /\ cwd' = cwd /\ path' = path

\* The job whose turn it is.
LEMMA HeadGives ==
  ASSUME CommandInv, todo # << >>
  PROVE  /\ SafeJob(tree, cwd, Job)
         /\ Job.do = "file" => Job.to = Key(Job.to.in, Job.to.name, Job.to.ext)
<1>1. Listed(todo)
  BY DEF CommandInv
<1>2. 1 \in DOMAIN todo /\ Job = todo[1]
  BY <1>1, ListedTail DEF Job
<1>3. /\ SafeJob(tree, cwd, todo[1])
      /\ todo[1].do = "file" => todo[1].to = Key(todo[1].to.in, todo[1].to.name, todo[1].to.ext)
  BY <1>2 DEF CommandInv
<1>4. QED
  BY <1>2, <1>3

LEMMA NoMore ==
  ASSUME NEW s
  PROVE  More(s, << >>)
BY ListedFew DEF More

LEMMA FreshFolder ==
  ASSUME NEW t, NEW in, NEW name, CanWrite(t, Key(in, name, "")), NEW h \in FreeHandles(t)
  PROVE  Fresh(t, Key(in, name, ""), FolderNode(h))
BY DEF Fresh, Key, FolderNode

LEMMA FreshFile ==
  ASSUME NEW t, NEW k, k = Key(k.in, k.name, k.ext), CanWrite(t, k), NEW c
  PROVE  Fresh(t, k, FileNode(c))
BY DEF Fresh, FileNode

LEMMA PutIsChange ==
  ASSUME NEW t, NEW k, NEW node, Fresh(t, k, node), NEW h
  PROVE  Change(t, Put(t, k, node), h)
BY PutGives DEF Change, Fresh

LEMMA MakeFolderStep ==
  ASSUME CommandInv, MakeFolder
  PROVE  JobDone
<1> DEFINE k == Key(Job.at, Head(Job.names), "")
           jobs(h) == IF Len(Job.names) = 1 THEN << >> ELSE <<MakeJob(h, Tail(Job.names))>>
<1>1. Listed(todo) /\ todo # << >> /\ cwd' = cwd /\ path' = path
  BY DEF CommandInv, MakeFolder, Does, Stays
<1>2. ASSUME NEW h, todo' = jobs(h) \o Tail(todo) PROVE More(todo, todo')
  <2>1. Listed(jobs(h)) /\ \A i \in DOMAIN jobs(h) : NewJob(jobs(h)[i])
    BY ListedFew DEF MakeJob, NewJob
  <2>2. QED
    BY <1>1, <1>2, <2>1, ProceedsGives
<1>3. CASE todo' = << >> /\ Refuses
  BY <1>1, <1>3, NoMore DEF JobDone, Refuses, Change
<1>4. CASE tree' = tree /\ \E h : todo' = jobs(h) \o Tail(todo)
  BY <1>1, <1>2, <1>4 DEF JobDone, Change
<1>5. CASE FindsNoRoom
  <2>1. More(todo, todo)
    BY <1>1 DEF More
  <2>2. QED
    BY <1>1, <1>5, <2>1 DEF JobDone, FindsNoRoom, Change
<1>6. ASSUME NEW g \in FreeHandles(tree), tree' = Put(tree, k, FolderNode(g)), CanWrite(tree, k),
             \E h : todo' = jobs(h) \o Tail(todo)
      PROVE  JobDone
  <2>1. Change(tree, tree', cwd)
    BY <1>6, FreshFolder, PutIsChange
  <2>2. QED
    BY <1>1, <1>2, <1>6, <2>1 DEF JobDone
<1>7. \/ todo' = << >> /\ Refuses
      \/ tree' = tree /\ \E h : todo' = jobs(h) \o Tail(todo)
      \/ FindsNoRoom
      \/ /\ CanWrite(tree, k)
         /\ \E g \in FreeHandles(tree) : /\ tree' = Put(tree, k, FolderNode(g))
                                         /\ \E h : todo' = jobs(h) \o Tail(todo)
  BY DEF MakeFolder, Proceeds
<1> HIDE DEF k, jobs
<1>8. QED
  BY <1>3, <1>4, <1>5, <1>6, <1>7

LEMMA CopyFileStep ==
  ASSUME CommandInv, copy1File
  PROVE  JobDone
<1> DEFINE to == Job.to
<1>0. to = Key(to.in, to.name, to.ext)
  BY HeadGives DEF copy1File, Does
<1>1. Listed(todo) /\ todo # << >> /\ cwd' = cwd /\ path' = path /\ todo' = << >> \o Tail(todo)
  BY DEF CommandInv, copy1File, Does, Stays, Proceeds
<1>2. More(todo, todo')
  BY <1>1, ProceedsGives, ListedFew
<1>3. \/ tree' = tree
      \/ CanWrite(tree, to) /\ \E c : tree' = Put(tree, to, FileNode(c))
  BY DEF copy1File
<1> HIDE DEF to
<1>4. Change(tree, tree', cwd)
  <2>1. CASE tree' = tree
    BY <2>1 DEF Change
  <2>2. ASSUME CanWrite(tree, to), NEW c, tree' = Put(tree, to, FileNode(c))
        PROVE  Change(tree, tree', cwd)
    BY <1>0, <2>2, FreshFile, PutIsChange
  <2>3. QED
    BY <1>3, <2>1, <2>2
<1>5. QED
  BY <1>1, <1>2, <1>4 DEF JobDone

LEMMA CopyFolderStep ==
  ASSUME CommandInv, copy1Folder
  PROVE  JobDone
<1>1. Listed(todo) /\ todo # << >> /\ cwd' = cwd /\ path' = path
  BY DEF CommandInv, copy1Folder, Does, Stays
<1>2. PICK into \in get_info(tree, Job.into) :
        LET k == Key(into, Job.from.name, "")
        IN  \/ Refuses /\ todo' = << >> \o Tail(todo)
            \/ FindsNoRoom
            \/ /\ CanWrite(tree, k)
               /\ \E h \in FreeHandles(tree) :
                    LET t == Put(tree, k, FolderNode(h))
                    IN  /\ tree' = t
                        /\ \E jobs \in Read(EntryJobs(t, Job.from, into, h), t, Job.from) :
                             \E inOrder \in SetToSeqs(jobs) : todo' = inOrder \o Tail(todo)
  BY DEF copy1Folder, Proceeds
<1> DEFINE k == Key(into, Job.from.name, "")
<1>3. CASE Refuses /\ todo' = << >> \o Tail(todo)
  <2>1. More(todo, todo')
    BY <1>1, <1>3, ProceedsGives, ListedFew
  <2>2. QED
    BY <1>1, <1>3, <2>1 DEF JobDone, Refuses, Change
<1>4. CASE FindsNoRoom
  <2>1. More(todo, todo)
    BY <1>1 DEF More
  <2>2. QED
    BY <1>1, <1>4, <2>1 DEF JobDone, FindsNoRoom, Change
<1>5. ASSUME CanWrite(tree, k), NEW h \in FreeHandles(tree), tree' = Put(tree, k, FolderNode(h)),
             NEW jobs \in Read(EntryJobs(tree', Job.from, into, h), tree', Job.from),
             NEW inOrder \in SetToSeqs(jobs), todo' = inOrder \o Tail(todo)
      PROVE  JobDone
  <2>1. Change(tree, tree', cwd) /\ IsTree(tree')
    <3>1. IsTree(tree) /\ cwd \in Handles(tree)
      BY DEF CommandInv
    <3>2. Fresh(tree, k, FolderNode(h))
      BY <1>5, FreshFolder
    <3> HIDE DEF k
    <3>3. Change(tree, tree', cwd)
      BY <1>5, <3>2, PutIsChange
    <3>4. QED
      BY <3>1, <3>3, ChangeKeepsTree
  <2>2. jobs \subseteq EntryJobs(tree', Job.from, into, h)
    BY DEF Read
  <2>3. \A job \in jobs : NewJob(job)
    <3>1. \A j, x : NewJob(FolderJob(j, x))
      BY DEF NewJob, FolderJob
    <3>2. \A j, g, n, x : NewJob(FileJob(j, Key(g, n, x)))
      BY DEF NewJob, FileJob, Key
    <3>3. \A job \in EntryJobs(tree', Job.from, into, h) :
            \/ \E j, x : job = FolderJob(j, x)
            \/ \E j, g, n, x : job = FileJob(j, Key(g, n, x))
      BY DEF EntryJobs
    <3>4. QED
      BY <2>2, <3>1, <3>2, <3>3
  <2>4. IsFiniteSet(EntryJobs(tree', Job.from, into, h))
    <3> DEFINE E == EntriesOf(tree', tree'[Job.from].handle)
               E2 == IF IsFolder(tree', Job.from) THEN E ELSE {}
               JobFor(x) == IF tree'[x].folder THEN FolderJob(x, Key(into, Job.from.name, ""))
                            ELSE FileJob(x, Key(h, x.name, x.ext))
    <3>1. IsFiniteSet(DOMAIN tree')
      BY <2>1 DEF IsTree
    <3>2. E2 \subseteq DOMAIN tree'
      BY DEF EntriesOf
    <3>3. IsFiniteSet(E2)
      BY <3>1, <3>2, FS_Subset
    <3>4. EntryJobs(tree', Job.from, into, h) = {JobFor(x) : x \in E2}
      BY DEF EntryJobs
    <3> DEFINE F == [x \in E2 |-> JobFor(x)]
               J == {F[x] : x \in E2}
    <3>5. F \in Surjection(E2, J)
      <4> HIDE DEF E2, JobFor
      <4>1. F \in [E2 -> J]
        OBVIOUS
      <4>2. \A y \in J : \E x \in E2 : F[x] = y
        OBVIOUS
      <4> HIDE DEF F, J
      <4>3. QED
        BY <4>1, <4>2 DEF Surjection
    <3>6. J = {JobFor(x) : x \in E2}
      OBVIOUS
    <3> HIDE DEF E2, F, J
    <3>7. IsFiniteSet(J)
      BY <3>3, <3>5, FS_Surjection
    <3>8. QED
      BY <3>4, <3>6, <3>7
  <2>5. IsFiniteSet(jobs)
    BY <2>2, <2>4, FS_Subset
  <2>6. Listed(inOrder) /\ \A i \in DOMAIN inOrder : NewJob(inOrder[i])
    BY <2>3, <2>5, SetToSeqsGives
  <2>7. More(todo, todo')
    BY <1>1, <1>5, <2>6, ProceedsGives
  <2>8. QED
    BY <1>1, <2>1, <2>7 DEF JobDone
<1>6. QED
  BY <1>2, <1>3, <1>4, <1>5

LEMMA CopySourceStep ==
  ASSUME CommandInv, CopySource
  PROVE  JobDone
<1>1. Listed(todo) /\ todo # << >> /\ cwd' = cwd /\ path' = path
  BY DEF CommandInv, CopySource, Does, Stays
<1>2. tree' = tree /\ \E jobs : /\ Listed(jobs) /\ \A i \in DOMAIN jobs : NewJob(jobs[i])
                                /\ todo' = jobs \o Tail(todo)
  <2>1. Listed(<< >>) /\ \A i \in DOMAIN << >> : NewJob(<< >>[i])
    BY ListedFew
  <2>2. ASSUME NEW x, NewJob(x) PROVE Listed(<<x>>) /\ \A i \in DOMAIN <<x>> : NewJob(<<x>>[i])
    BY <2>2, ListedFew
  <2>3. \A k, into : NewJob(FolderJob(k, into))
    BY DEF FolderJob, NewJob
  <2>4. \A from, h, n, x : NewJob(FileJob(from, Key(h, n, x)))
    BY DEF FileJob, NewJob, Key
  <2>5. \A p, h : \E g, n, x : path_to_file_request(tree, p, h) = Key(g, n, x)
    BY DEF path_to_file_request, FileKey
  <2>6. CASE Job.folder
    <3>1. tree' = tree
      BY <2>6 DEF CopySource, Refuses
    <3>2. \/ todo' = << >> \o Tail(todo)
          \/ \E dest : todo' = <<FolderJob(Job.key, dest)>> \o Tail(todo)
      BY <2>6 DEF CopySource, Proceeds
    <3>3. QED
      BY <2>1, <2>2, <2>3, <3>1, <3>2
  <2>7. CASE ~Job.folder
    <3>1. tree' = tree
      BY <2>7 DEF CopySource
    <3>2. \E g, n, x : todo' = <<FileJob(Job.key, Key(g, n, x))>> \o Tail(todo)
      BY <2>5, <2>7 DEF CopySource, Proceeds
    <3>3. QED
      BY <2>2, <2>4, <3>1, <3>2
  <2>8. QED
    BY <2>6, <2>7
<1>3. More(todo, todo')
  BY <1>1, <1>2, ProceedsGives
<1>4. QED
  BY <1>1, <1>2, <1>3 DEF JobDone, Change

LEMMA DeleteStep ==
  ASSUME CommandInv, Delete
  PROVE  JobDone
<1>1. Listed(todo) /\ todo # << >> /\ cwd' = cwd /\ path' = path /\ todo' = << >> \o Tail(todo)
  BY DEF CommandInv, Delete, Does, Stays, Proceeds
<1>2. More(todo, todo')
  BY <1>1, ProceedsGives, ListedFew
<1>3. SafeJob(tree, cwd, Job) /\ Job.do = "delete"
  BY HeadGives DEF Delete, Does
<1>4. Change(tree, tree', cwd)
  <2>1. CASE tree' = tree
    BY <2>1 DEF Change
  <2>2. ASSUME NEW k \in Meant(tree, Job), tree' = Without(tree, k) PROVE Change(tree, tree', cwd)
    <3>1. k \in DOMAIN tree
      BY DEF Meant, EntriesOf
    <3>2. Spares(tree, k, cwd)
      BY <1>3 DEF SafeJob, Spares
    <3>3. Removed(tree, k, tree')
      BY <2>2, WithoutGives
    <3>4. QED
      BY <3>1, <3>2, <3>3 DEF Change
  <2>3. QED
    BY <2>1, <2>2 DEF Delete, Without
<1>5. QED
  BY <1>1, <1>2, <1>4 DEF JobDone

\* A step of a command preserves the invariant.
LEMMA JobKeepsInv ==
  ASSUME CommandInv, JobDone
  PROVE  CommandInv'
<1>1. /\ IsTree(tree) /\ cwd \in Handles(tree) /\ Change(tree, tree', cwd)
      /\ More(todo, todo') /\ cwd' = cwd /\ path' = path
  BY DEF CommandInv, JobDone
<1>2. IsTree(tree') /\ cwd \in Handles(tree')
  BY <1>1, ChangeKeepsTree
<1>3. ASSUME NEW i \in DOMAIN todo'
      PROVE  /\ SafeJob(tree', cwd, todo'[i])
             /\ todo'[i].do = "file" => todo'[i].to = Key(todo'[i].to.in, todo'[i].to.name, todo'[i].to.ext)
  <2>1. CASE NewJob(todo'[i])
    BY <2>1 DEF NewJob, SafeJob
  <2>2. CASE \E j \in DOMAIN todo : todo'[i] = todo[j]
    BY <1>1, <2>2, ChangeKeepsSafe DEF CommandInv
  <2>3. QED
    BY <1>1, <2>1, <2>2 DEF More
<1>4. ASSUME path # Garbled
      PROVE  /\ path \in Seq(STRING) /\ \A i \in 1 .. Len(path) : path[i] # ".."
             /\ \E at : Way(tree', Root, path, at) /\ at[Len(path)] = cwd
  <2>1. path \in Seq(STRING) /\ \A i \in 1 .. Len(path) : path[i] # ".."
    BY <1>4 DEF CommandInv
  <2>2. PICK at : Way(tree, Root, path, at) /\ at[Len(path)] = cwd
    BY <1>4 DEF CommandInv
  <2>3. Way(tree', Root, path, at)
    BY <1>1, <2>1, <2>2, ChangeKeepsWay
  <2>4. QED
    BY <2>1, <2>2, <2>3
<1>5. QED
  BY <1>1, <1>2, <1>3, <1>4 DEF CommandInv, More
-----------------------------------------------------------------------------
(* cd and the path in the prompt *)

\* The leading ".."s of a path are its first words.
LEMMA LeadingUps ==
  ASSUME NEW words \in Seq(STRING), NEW ups, ups = {i \in DOMAIN words : words[i] = ".."}
  PROVE  \E n \in 0 .. Len(words) : /\ {i \in ups : 1 .. i \subseteq ups} = 1 .. n
                                    /\ Cardinality(1 .. n) = n /\ 1 .. n \subseteq ups
<1> DEFINE N == Len(words)
           T == {i \in 1 .. N + 1 : i \notin ups}
<1>1. N \in Nat /\ ups \subseteq 1 .. N
  BY LenProperties
<1> HIDE DEF N
<1>2. T \in SUBSET Nat /\ N + 1 \in T
  BY <1>1
<1>3. PICK m \in T : \A y \in T : m <= y
  BY <1>2, LeastNat
<1> DEFINE n == m - 1
<1>4. n \in 0 .. N /\ m = n + 1 /\ m \notin ups
  BY <1>1, <1>3
<1>5. 1 .. n \subseteq ups
  BY <1>1, <1>3
<1>6. ASSUME NEW i \in ups, 1 .. i \subseteq ups PROVE i \in 1 .. n
  BY <1>1, <1>4, <1>6
<1>7. ASSUME NEW i \in 1 .. n PROVE i \in ups /\ 1 .. i \subseteq ups
  BY <1>1, <1>4, <1>5
<1> HIDE DEF n
<1>8. Cardinality(1 .. n) = n
  <2>1. n \in Nat /\ 1 \in Int /\ n \in Int
    BY <1>1, <1>4
  <2>2. Cardinality(1 .. n) = IF 1 > n THEN 0 ELSE n - 1 + 1
    BY <2>1, FS_Interval
  <2>3. QED
    BY <2>1, <2>2
<1>9. {i \in ups : 1 .. i \subseteq ups} = 1 .. n
  BY <1>5, <1>6, <1>7
<1>10. QED
  BY <1>4, <1>5, <1>8, <1>9 DEF N

\* i folders up from the end of a way.
Back(L, i) == IF i <= L THEN L - i ELSE 0

LEMMA UpTheWay ==
  ASSUME NEW t, IsTree(t),
         NEW on \in Seq(STRING), \A i \in 1 .. Len(on) : on[i] # "..", NEW a, Way(t, Root, on, a),
         NEW words \in Seq(STRING), NEW b, Way(t, a[Len(on)], words, b),
         NEW n \in 0 .. Len(words), \A i \in 1 .. n : words[i] = ".."
  PROVE  \A i \in 0 .. n : b[i] = a[Back(Len(on), i)]
<1> DEFINE L == Len(on)
           N == Len(words)
           S == {i \in 0 .. n : b[i] = a[Back(L, i)]}
<1>1. L \in Nat /\ N \in Nat /\ n \in Nat /\ n <= N
  BY LenProperties
<1>2. /\ a \in [0 .. L -> Handles(t)] /\ a[0] = Root
      /\ \A i \in 1 .. L : Hop(t, a[i - 1], on[i], a[i]) /\ on[i] # ".."
  BY DEF Way
<1>3. b[0] = a[L] /\ \A i \in 1 .. N : Hop(t, b[i - 1], words[i], b[i])
  BY DEF Way
<1> HIDE DEF L, N
<1>4. 0 \in S
  BY <1>1, <1>3 DEF Back
<1>5. ASSUME NEW i \in 0 .. n, i < n, i \in S PROVE i + 1 \in S
  <2>1. i + 1 \in 1 .. N /\ i + 1 \in 1 .. n /\ (i + 1) - 1 = i
    BY <1>1, <1>5
  <2>2. b[i + 1] = ParentOf(t, b[i])
    <3>1. Hop(t, b[(i + 1) - 1], words[i + 1], b[i + 1]) /\ words[i + 1] = ".."
      BY <1>3, <2>1
    <3>2. QED
      BY <2>1, <3>1 DEF Hop
  <2>3. b[i] = a[Back(L, i)]
    BY <1>5
  <2>4. CASE i < L
    <3>1. Back(L, i) = L - i /\ Back(L, i + 1) = (L - i) - 1 /\ L - i \in 1 .. L
      BY <1>1, <2>4 DEF Back
    <3>2. Hop(t, a[(L - i) - 1], on[L - i], a[L - i]) /\ on[L - i] # ".."
      BY <1>2, <3>1
    <3>3. PICK k \in DOMAIN t : t[k].folder /\ k.in = a[(L - i) - 1] /\ a[L - i] = t[k].handle
      BY <3>2 DEF Hop, IsFolder, Key
    <3>4. ParentOf(t, a[L - i]) = a[(L - i) - 1]
      BY <3>3, ParentGives
    <3>5. QED
      BY <2>1, <2>2, <2>3, <3>1, <3>4
  <2>5. CASE ~(i < L)
    <3>1. Back(L, i) = 0 /\ Back(L, i + 1) = 0
      BY <1>1, <2>5 DEF Back
    <3>2. ParentOf(t, Root) = Root
      BY UpwardsOfRoot
    <3>3. QED
      BY <1>2, <2>1, <2>2, <2>3, <3>1, <3>2
  <2>6. QED
    BY <2>4, <2>5
<1> HIDE DEF S
<1>6. 0 .. n \subseteq S
  BY <1>1, <1>4, <1>5, RangeInSet
<1>7. QED
  BY <1>6 DEF S, L

\* Words without ".." that lead from the root to a folder.
LeadsTo(t, q, h) ==
  /\ q \in Seq(STRING) /\ \A i \in 1 .. Len(q) : q[i] # ".."
  /\ \E at : Way(t, Root, q, at) /\ at[Len(q)] = h

\* Such words, and a way on from where they lead: n times up, then down.
Joining(t, on, a, words, b, n) ==
  /\ IsTree(t)
  /\ on \in Seq(STRING) /\ \A i \in 1 .. Len(on) : on[i] # ".."
  /\ words \in Seq(STRING) /\ n \in 0 .. Len(words)
  /\ \A i \in 1 .. n : words[i] = ".."
  /\ \A i \in n + 1 .. Len(words) : words[i] # ".."
  /\ Way(t, Root, on, a) /\ Way(t, a[Len(on)], words, b)

\* The path without its last n names, and with the names that follow.
LEMMA WayJoined ==
  ASSUME NEW t, NEW on, NEW a, NEW words, NEW b, NEW n, Joining(t, on, a, words, b, n),
         NEW q, q = SubSeq(on, 1, Len(on) - n) \o SubSeq(words, n + 1, Len(words))
  PROVE  LeadsTo(t, q, b[Len(words)])
<1>0. /\ IsTree(t) /\ on \in Seq(STRING) /\ \A i \in 1 .. Len(on) : on[i] # ".."
      /\ words \in Seq(STRING) /\ n \in 0 .. Len(words)
      /\ \A i \in 1 .. n : words[i] = ".."
      /\ \A i \in n + 1 .. Len(words) : words[i] # ".."
      /\ Way(t, Root, on, a) /\ Way(t, a[Len(on)], words, b)
  BY DEF Joining
<1> USE <1>0
<1> DEFINE L == Len(on)
           N == Len(words)
           m == Back(L, n)
           first == SubSeq(on, 1, L - n)
           last == SubSeq(words, n + 1, N)
           Q == m + (N - n)
<1>1. L \in Nat /\ N \in Nat /\ n \in Nat /\ n <= N
  BY LenProperties
<1>2. /\ a \in [0 .. L -> Handles(t)] /\ a[0] = Root
      /\ \A i \in 1 .. L : Hop(t, a[i - 1], on[i], a[i]) /\ on[i] # ".."
  BY DEF Way
<1>3. /\ b \in [0 .. N -> Handles(t)]
      /\ \A i \in 1 .. N : Hop(t, b[i - 1], words[i], b[i])
  BY DEF Way
<1>4. b[n] = a[m]
  <2>1. n \in 0 .. n
    BY <1>1
  <2>2. QED
    BY <2>1, UpTheWay
<1>5. (\A i \in 1 .. L : on[i] \in STRING) /\ (\A i \in 1 .. N : words[i] \in STRING)
  BY ElementOfSeq
<1>6. \A i \in n + 1 .. N : words[i] # ".."
  OBVIOUS
<1>7. q = first \o last
  OBVIOUS
<1> HIDE DEF L, N
<1>8. m \in Nat /\ m <= L /\ m = (IF 1 <= L - n THEN L - n - 1 + 1 ELSE 0)
  BY <1>1 DEF Back
<1>9. first \in Seq(STRING) /\ Len(first) = m /\ \A i \in 1 .. m : first[i] = on[i]
  <2>1. 1 \in Int /\ L - n \in Int /\ \A i \in 1 .. L - n : on[i] \in STRING
    BY <1>1, <1>5
  <2>2. /\ first \in Seq(STRING) /\ Len(first) = IF 1 <= L - n THEN L - n - 1 + 1 ELSE 0
        /\ \A i \in 1 .. L - n - 1 + 1 : first[i] = on[1 + i - 1]
    BY <2>1, SubSeqProperties
  <2> HIDE DEF first
  <2>3. ASSUME NEW i \in 1 .. m PROVE first[i] = on[i]
    <3>1. i \in 1 .. L - n - 1 + 1 /\ 1 + i - 1 = i
      BY <1>1, <1>8
    <3>2. QED
      BY <2>2, <3>1
  <2>4. QED
    BY <1>8, <2>2, <2>3
<1>10. last \in Seq(STRING) /\ Len(last) = N - n /\ \A i \in 1 .. N - n : last[i] = words[n + i]
  <2>1. n + 1 \in Int /\ N \in Int /\ \A i \in n + 1 .. N : words[i] \in STRING
    BY <1>1, <1>5
  <2>2. /\ last \in Seq(STRING) /\ Len(last) = IF n + 1 <= N THEN N - (n + 1) + 1 ELSE 0
        /\ \A i \in 1 .. N - (n + 1) + 1 : last[i] = words[n + 1 + i - 1]
    BY <2>1, SubSeqProperties
  <2> HIDE DEF last
  <2>3. (IF n + 1 <= N THEN N - (n + 1) + 1 ELSE 0) = N - n /\ N - (n + 1) + 1 = N - n
    BY <1>1
  <2>4. \A i \in 1 .. N - n : n + 1 + i - 1 = n + i
    BY <1>1
  <2>5. QED
    BY <2>2, <2>3, <2>4
<1> HIDE DEF first, last, m
<1>11. /\ q \in Seq(STRING) /\ Len(q) = Q /\ Q \in Nat
       /\ \A i \in 1 .. Q : q[i] = IF i <= m THEN on[i] ELSE words[n + (i - m)]
  <2>1. /\ first \o last \in Seq(STRING) /\ Len(first \o last) = Len(first) + Len(last)
        /\ \A i \in 1 .. Len(first) + Len(last) :
             (first \o last)[i] = IF i <= Len(first) THEN first[i] ELSE last[i - Len(first)]
    <3> HIDE <1>0
    <3>1. first \in Seq(STRING) /\ last \in Seq(STRING)
      BY <1>9, <1>10
    <3>2. QED
      BY <3>1, ConcatProperties
  <2>2. Len(first) + Len(last) = Q /\ Q \in Nat
    BY <1>1, <1>8, <1>9, <1>10
  <2> HIDE DEF Q
  <2>3. \A i \in 1 .. Q : q[i] = IF i <= m THEN first[i] ELSE last[i - m]
    BY <1>7, <1>9, <2>1, <2>2
  <2>4. ASSUME NEW i \in 1 .. Q PROVE q[i] = IF i <= m THEN on[i] ELSE words[n + (i - m)]
    <3>1. CASE i <= m
      <4>1. i \in 1 .. m
        BY <1>8, <2>2, <3>1
      <4>2. QED
        BY <1>9, <2>3, <3>1, <4>1
    <3>2. CASE ~(i <= m)
      <4>1. i - m \in 1 .. N - n
        BY <1>1, <1>8, <2>2, <3>2 DEF Q
      <4>2. QED
        BY <1>10, <2>3, <3>2, <4>1
    <3>3. QED
      BY <3>1, <3>2
  <2>5. q \in Seq(STRING) /\ Len(q) = Q
    BY <1>7, <2>1, <2>2
  <2>6. QED
    BY <2>2, <2>4, <2>5
<1> DEFINE c == [i \in 0 .. Q |-> IF i <= m THEN a[i] ELSE b[n + (i - m)]]
<1>12. c \in [0 .. Q -> Handles(t)] /\ c[0] = Root /\ c[Q] = b[N]
  <2>1. ASSUME NEW i \in 0 .. Q PROVE (IF i <= m THEN a[i] ELSE b[n + (i - m)]) \in Handles(t)
    <3>1. CASE i <= m
      BY <1>1, <1>2, <1>8, <3>1
    <3>2. CASE ~(i <= m)
      <4>1. n + (i - m) \in 0 .. N
        BY <1>1, <1>8, <3>2
      <4>2. QED
        BY <1>3, <3>2, <4>1
    <3>3. QED
      BY <3>1, <3>2
  <2>2. 0 \in 0 .. Q /\ 0 <= m /\ Q \in 0 .. Q
    BY <1>1, <1>8
  <2>3. c[Q] = b[N]
    <3>1. CASE n = N
      BY <1>1, <1>4, <1>8, <2>2, <3>1
    <3>2. CASE n # N
      <4>1. ~(Q <= m) /\ n + (Q - m) = N
        BY <1>1, <1>8, <3>2
      <4>2. QED
        BY <2>2, <4>1
    <3>3. QED
      BY <3>1, <3>2
  <2>4. QED
    BY <1>2, <2>1, <2>2, <2>3
<1>13. ASSUME NEW i \in 1 .. Q PROVE Hop(t, c[i - 1], q[i], c[i]) /\ q[i] # ".."
  <2>1. i \in 0 .. Q /\ i - 1 \in 0 .. Q /\ i \in Nat
    BY <1>1, <1>8
  <2>2. CASE i <= m
    <3>1. i - 1 <= m /\ i \in 1 .. L
      BY <1>1, <1>8, <2>1, <2>2
    <3>2. c[i - 1] = a[i - 1] /\ c[i] = a[i] /\ q[i] = on[i]
      BY <1>11, <2>1, <2>2, <3>1
    <3>3. QED
      BY <1>2, <3>1, <3>2
  <2>3. CASE ~(i <= m)
    <3> DEFINE j == n + (i - m)
    <3>1. j \in n + 1 .. N /\ j \in 1 .. N
      BY <1>1, <1>8, <2>1, <2>3
    <3>2. c[i] = b[j] /\ q[i] = words[j]
      BY <1>11, <2>1, <2>3
    <3>3. c[i - 1] = b[j - 1]
      <4>1. CASE i - 1 <= m
        <5>1. i - 1 = m /\ j - 1 = n
          BY <1>1, <1>8, <2>1, <2>3, <4>1
        <5>2. QED
          BY <1>4, <2>1, <4>1, <5>1
      <4>2. CASE ~(i - 1 <= m)
        <5>1. n + ((i - 1) - m) = j - 1
          BY <1>1, <1>8, <2>1
        <5>2. QED
          BY <2>1, <4>2, <5>1
      <4>3. QED
        BY <4>1, <4>2
    <3> HIDE DEF j
    <3>4. QED
      BY <1>3, <1>6, <3>1, <3>2, <3>3
  <2>4. QED
    BY <2>2, <2>3
<1> HIDE DEF c
<1>14. Way(t, Root, q, c)
  BY <1>11, <1>12, <1>13 DEF Way
<1>15. c[Len(q)] = b[Len(words)]
  BY <1>11, <1>12 DEF N
<1>16. \A i \in 1 .. Len(q) : q[i] # ".."
  BY <1>11, <1>13
<1>17. QED
  BY <1>11, <1>14, <1>15, <1>16 DEF LeadsTo

\* cd: the new path is the way to the new folder, if it is no other string.
LEMMA CdStep ==
  ASSUME CommandInv, NEW c \in CommandLines, cd(c), tree' = tree, todo = << >>, todo' = todo
  PROVE  CommandInv'
<1> DEFINE p == c.dest
           words == p.words
           h == Start(p, cwd)
           ups == {i \in DOMAIN words : words[i] = ".."}
           leading == {i \in ups : 1 .. i \subseteq ups}
<1>1. p \in Path /\ words \in Seq(STRING) /\ Len(words) \in Nat /\ DOMAIN words = 1 .. Len(words)
  <2>1. p \in Path
    BY CommandsAssumption
  <2>2. words \in Seq(STRING)
    BY <2>1 DEF Path
  <2>3. QED
    BY <2>1, <2>2, LenProperties
<1>2. IsTree(tree) /\ h \in Handles(tree) /\ is_directorypath_valid(tree, p, cwd)
  BY DEF CommandInv, Start, cd, Handles
<1>3. PICK b : Way(tree, h, words, b)
  BY <1>1, <1>2, StrictWalkHasWay
<1>4. cwd' = b[Len(words)]
  BY <1>1, <1>2, <1>3, WayIsWalked DEF cd
<1>5. cwd' \in Handles(tree)
  BY <1>1, <1>3, <1>4 DEF Way
<1>6. path' = PathAfter(p)
  BY DEF cd
<1>7. ASSUME path' # Garbled
      PROVE  /\ path' \in Seq(STRING) /\ \A i \in 1 .. Len(path') : path'[i] # ".."
             /\ \E at : Way(tree, Root, path', at) /\ at[Len(path')] = cwd'
  <2>1. CASE p.root /\ ups = {}
    <3>1. path' = words /\ h = Root
      BY <1>6, <2>1 DEF PathAfter, Start
    <3>2. \A i \in 1 .. Len(words) : words[i] # ".."
      BY <1>1, <2>1
    <3>3. QED
      BY <1>1, <1>3, <1>4, <3>1, <3>2
  <2>2. CASE p.root /\ ups # {}
    <3>1. words = <<"..">> /\ path' = << >> /\ h = Root
      BY <1>6, <1>7, <2>2 DEF PathAfter, Start
    <3>2. b[0] = Root /\ Hop(tree, b[0], "..", b[1]) /\ Len(words) = 1
      <4>1. Len(words) = 1 /\ words[1] = ".." /\ 1 \in 1 .. Len(words) /\ 1 - 1 = 0
        BY <3>1
      <4>2. QED
        BY <1>3, <3>1, <4>1 DEF Way
    <3>3. cwd' = Root
      BY <1>2, <1>4, <3>2, UpwardsOfRoot DEF Hop
    <3>4. path' \in Seq(STRING) /\ Len(path') = 0
      BY <3>1
    <3> DEFINE at == [i \in 0 .. 0 |-> Root]
    <3>5. Way(tree, Root, path', at) /\ at[0] = Root
      BY <3>4 DEF Way, Handles
    <3>6. QED
      BY <3>3, <3>4, <3>5
  <2>3. CASE ~p.root
    <3>1. PICK n \in 0 .. Len(words) : leading = 1 .. n /\ Cardinality(1 .. n) = n /\ 1 .. n \subseteq ups
      <4> HIDE DEF words
      <4>1. QED
        BY <1>1, LeadingUps
    <3>2. path # Garbled /\ ups = leading
      BY <1>6, <1>7, <2>3 DEF PathAfter
    <3>3. path' = SubSeq(path, 1, Len(path) - n) \o SubSeq(words, n + 1, Len(words))
      <4> DEFINE cut == Cardinality(leading)
                 after == SubSeq(path, 1, Len(path) - cut) \o SubSeq(words, cut + 1, Len(words))
      <4>1. cut = n
        <5> HIDE DEF leading
        <5>1. QED
          BY <3>1
      <4>2. PathAfter(p) = after
        BY <2>3, <3>2, Zenon DEF PathAfter
      <4> HIDE DEF cut, words
      <4>3. QED
        BY <1>6, <4>1, <4>2
    <3>4. PICK a : Way(tree, Root, path, a) /\ a[Len(path)] = cwd
      BY <3>2 DEF CommandInv
    <3>5. path \in Seq(STRING) /\ \A i \in 1 .. Len(path) : path[i] # ".."
      BY <3>2 DEF CommandInv
    <3>6. Way(tree, a[Len(path)], words, b)
      BY <1>3, <2>3, <3>4 DEF Start
    <3>7. \A i \in 1 .. n : words[i] = ".."
      BY <3>1
    <3>8. \A i \in n + 1 .. Len(words) : words[i] # ".."
      <4>1. \A i \in n + 1 .. Len(words) : i \in DOMAIN words /\ i \notin 1 .. n
        BY <1>1, <3>1
      <4>2. QED
        BY <3>1, <3>2, <4>1
    <3> HIDE DEF words
    <3>9. /\ path' \in Seq(STRING) /\ \A i \in 1 .. Len(path') : path'[i] # ".."
          /\ \E at : Way(tree, Root, path', at) /\ at[Len(path')] = b[Len(words)]
      <4> HIDE DEF h, p, ups, leading
      <4>1. IsTree(tree) /\ words \in Seq(STRING) /\ Way(tree, Root, path, a)
        BY <1>1, <1>2, <3>4
      <4>2. Joining(tree, path, a, words, b, n)
        BY <4>1, <3>1, <3>5, <3>6, <3>7, <3>8 DEF Joining
      <4>3. LeadsTo(tree, SubSeq(path, 1, Len(path) - n) \o SubSeq(words, n + 1, Len(words)), b[Len(words)])
        BY <4>2, WayJoined
      <4>4. QED
        BY <4>3, <3>3 DEF LeadsTo
    <3>10. QED
      BY <1>4, <3>9
  <2>4. QED
    BY <2>1, <2>2, <2>3
<1>8. Listed(todo') /\ DOMAIN todo' = {}
  BY ListedFew
<1>9. QED
  BY <1>2, <1>5, <1>7, <1>8 DEF CommandInv
-----------------------------------------------------------------------------
(* The command line *)

\* The jobs of a command when it is entered: none is a file's yet.
Planned(jobs) == Listed(jobs) /\ \A i \in DOMAIN jobs : jobs[i].do # "file"

LEMMA PlannedJoin ==
  ASSUME NEW s, NEW r, Planned(s), Planned(r)
  PROVE  Planned(s \o r)
BY ListedJoin DEF Planned

LEMMA PlannedFew ==
  /\ Planned(<< >>)
  /\ \A h, names : Planned(<<MakeJob(h, names)>>)
  /\ \A k, b : Planned(<<DeleteJob(k, b)>>)
<1>1. Planned(<< >>)
  BY ListedFew DEF Planned
<1>2. \A x : x.do # "file" => Planned(<<x>>)
  BY ListedFew DEF Planned
<1>3. \A h, names : MakeJob(h, names).do # "file"
  BY DEF MakeJob
<1>4. \A k, b : DeleteJob(k, b).do # "file"
  BY DEF DeleteJob
<1>5. QED
  BY <1>1, <1>2, <1>3, <1>4

LEMMA PlannedSources ==
  ASSUME NEW c \in CommandLines, NEW b
  PROVE  Planned(Sources(c, b)) /\ Planned(Deletes(Sources(c, b)))
<1>1. c.srcs \in Seq(Path)
  BY CommandsAssumption
<1>2. Len(c.srcs) \in Nat /\ DOMAIN c.srcs = 1 .. Len(c.srcs)
  BY <1>1, LenProperties
<1> DEFINE n == Len(c.srcs)
           s == Sources(c, b)
           r == Deletes(s)
<1>3. s = [i \in 1 .. n |-> Source(c.srcs[i], b)]
  BY <1>2 DEF Sources
<1>4. Listed(s) /\ DOMAIN s = 1 .. n
  <2> HIDE DEF n, s
  <2>1. s = [i \in 1 .. n |-> s[i]]
    BY <1>3
  <2>2. QED
    BY <1>2, <2>1, ListedGives DEF n
<1>5. \A i \in DOMAIN s : s[i].do # "file"
  BY <1>3, <1>4 DEF Source, CopyJob
<1> HIDE DEF s
<1>6. r = [i \in 1 .. n |-> DeleteJob(s[i].key, s[i].folder)]
  BY <1>4 DEF Deletes
<1>7. Listed(r) /\ DOMAIN r = 1 .. n
  <2> HIDE DEF n, r
  <2>1. r = [i \in 1 .. n |-> r[i]]
    BY <1>6
  <2>2. QED
    BY <1>2, <2>1, ListedGives DEF n
<1>8. \A i \in DOMAIN r : r[i].do # "file"
  BY <1>6, <1>7 DEF DeleteJob
<1>9. QED
  BY <1>4, <1>5, <1>7, <1>8 DEF Planned, s

LEMMA PlannedFolders ==
  ASSUME NEW p, NEW b
  PROVE  Planned(copy_create_folders(p, b))
BY PlannedFew DEF copy_create_folders

LEMMA PlannedCopies ==
  ASSUME NEW c \in CommandLines
  PROVE  Planned(CopyJobs(c))
<1>1. Planned(<< >>)
  BY PlannedFew
<1>2. \A b : Planned(Sources(c, b))
  BY PlannedSources
<1>3. \A a, b : Planned(copy_create_folders(c.dest, a) \o Sources(c, b))
  BY <1>2, PlannedFolders, PlannedJoin
<1>4. QED
  BY <1>1, <1>2, <1>3 DEF CopyJobs

LEMMA PlannedJobs ==
  ASSUME NEW c \in CommandLines
  PROVE  Planned(CpJobs(c)) /\ Planned(MvJobs(c)) /\ Planned(RmJobs(c))
<1>1. Planned(CpJobs(c))
  BY PlannedCopies, PlannedFew DEF CpJobs
<1>2. Planned(MvJobs(c))
  <2> DEFINE long == copy_create_folders(c.dest, 0) \o Sources(c, TRUE)
             plain == Sources(c, FALSE)
             d0 == Deletes(plain)
  <2>1. Planned(long)
    BY PlannedSources, PlannedFolders, PlannedJoin
  <2>2. Planned(d0)
    BY PlannedSources
  <2>3. Planned(<< >>) /\ Planned(CopyJobs(c))
    BY PlannedFew, PlannedCopies
  <2>4. Planned(<< >> \o d0) /\ Planned(CopyJobs(c) \o d0) /\ Planned(long \o d0)
    BY <2>1, <2>2, <2>3, PlannedJoin
  <2>5. MvJobs(c) \in {<< >>, << >> \o d0, CopyJobs(c) \o d0, long \o d0}
    BY DEF MvJobs
  <2>6. QED
    BY <2>3, <2>4, <2>5
<1>3. Planned(RmJobs(c))
  BY PlannedFew DEF RmJobs
<1>4. QED
  BY <1>1, <1>2, <1>3

LEMMA BeginStep ==
  ASSUME CommandInv, NEW c, NEW jobs, Planned(jobs), Begin(c, jobs)
  PROVE  CommandInv'
<1>1. tree' = tree /\ cwd' = cwd /\ path' = path /\ todo' = jobs /\ Leaves(jobs)
  BY DEF Begin
<1>2. \A i \in DOMAIN jobs : SafeJob(tree, cwd, jobs[i]) /\ jobs[i].do # "file"
  BY <1>1 DEF Leaves, SafeJob, Planned
<1>3. QED
  BY <1>1, <1>2 DEF CommandInv, Planned

LEMMA EnterStep ==
  ASSUME CommandInv, NEW c \in CommandLines, Enter(c)
  PROVE  CommandInv'
<1>1. \/ Begin(c, CpJobs(c)) \/ Begin(c, MvJobs(c)) \/ Begin(c, RmJobs(c))
      \/ \E h, names : Begin(c, <<MakeJob(h, names)>>)
      \/ cd(c) /\ tree' = tree /\ todo = << >> /\ todo' = todo
  BY DEF Enter
<1>2. ASSUME NEW h, NEW names, Begin(c, <<MakeJob(h, names)>>) PROVE CommandInv'
  BY <1>2, BeginStep, PlannedFew
<1>3. CASE Begin(c, CpJobs(c)) \/ Begin(c, MvJobs(c)) \/ Begin(c, RmJobs(c))
  BY <1>3, BeginStep, PlannedJobs
<1>4. CASE cd(c) /\ tree' = tree /\ todo = << >> /\ todo' = todo
  BY <1>4, CdStep
<1>5. QED
  BY <1>1, <1>2, <1>3, <1>4

LEMMA CommandInvInit ==
  ASSUME CommandInit
  PROVE  CommandInv
<1>1. IsTree(tree) /\ cwd = Root /\ path = << >> /\ todo = << >>
  BY CommandsAssumption DEF CommandInit
<1>2. Root \in Handles(tree)
  BY DEF Handles
<1>3. Listed(todo) /\ DOMAIN todo = {}
  BY <1>1, ListedFew
<1> DEFINE at == [i \in 0 .. 0 |-> Root]
<1>4. path \in Seq(STRING) /\ Len(path) = 0
  BY <1>1
<1>5. Way(tree, Root, path, at) /\ at[Len(path)] = cwd
  BY <1>1, <1>2, <1>4 DEF Way
<1> HIDE DEF at
<1>6. QED
  BY <1>1, <1>2, <1>3, <1>4, <1>5 DEF CommandInv

LEMMA CommandInvStep ==
  ASSUME CommandInv, [CommandNext]_commandVars
  PROVE  CommandInv'
<1>1. CASE UNCHANGED commandVars
  BY <1>1 DEF commandVars, CommandInv
<1>2. CASE \E c \in CommandLines : Enter(c)
  BY <1>2, EnterStep
<1>3. CASE MakeFolder \/ CopySource \/ copy1File \/ copy1Folder \/ Delete
  BY <1>3, MakeFolderStep, CopySourceStep, CopyFileStep, CopyFolderStep, DeleteStep, JobKeepsInv
<1>4. QED
  BY <1>1, <1>2, <1>3 DEF CommandNext

THEOREM CommandsInvariance == MCSpec => []CommandInv
<1>1. MCInit => CommandInv
  BY CommandInvInit DEF MCInit
<1>2. CommandInv /\ [MCNext]_MCVars => CommandInv'
  BY CommandInvStep DEF MCNext, MCVars
<1>3. QED
  BY <1>1, <1>2, PTL DEF MCSpec

\* The disk is a tree of folders under the root after every step of every
\* command, and the shell stands in one of them.
THEOREM TreeAlwaysSound == MCSpec => []TreeSound
<1>1. CommandInv => TreeSound
  BY DEF CommandInv, TreeSound
<1>2. QED
  BY <1>1, CommandsInvariance, PTL

\* The path in the prompt leads to the folder the shell stands in, unless a
\* ".." after a name has spoilt it.
THEOREM PromptTellsTheTruth == MCSpec => []PathIsTrue
<1>1. ASSUME CommandInv, path # Garbled PROVE WalkStrictly(tree, R(path), Root) = cwd
  <2>1. R(path) \in Path /\ Start(R(path), Root) = Root /\ R(path).words = path
    BY <1>1 DEF CommandInv, R, Path, Start
  <2>2. PICK at : Way(tree, Root, path, at) /\ at[Len(path)] = cwd
    BY <1>1 DEF CommandInv
  <2>3. IsTree(tree)
    BY <1>1 DEF CommandInv
  <2>4. QED
    BY <2>1, <2>2, <2>3, WayIsWalked
<1>2. CommandInv => PathIsTrue
  BY <1>1 DEF PathIsTrue
<1>3. QED
  BY <1>2, CommandsInvariance, PTL
-----------------------------------------------------------------------------
(* rm and the walks to what it removes *)

\* The words before the last one.
LEMMA FrontOfWords ==
  ASSUME NEW words \in Seq(STRING)
  PROVE  /\ Front(words) \in Seq(STRING) /\ (words = << >> => Front(words) = << >>)
         /\ \A i \in 1 .. Len(Front(words)) : i \in DOMAIN words /\ Front(words)[i] = words[i]
<1> DEFINE n == Len(words)
<1>1. n \in Nat /\ DOMAIN words = 1 .. n /\ \A i \in 1 .. n : words[i] \in STRING
  BY LenProperties, ElementOfSeq
<1>2. words = << >> => n = 0
  OBVIOUS
<1> HIDE DEF n
<1>3. 1 \in Int /\ n - 1 \in Int /\ (n - 1) - 1 + 1 = n - 1 /\ \A i \in 1 .. n - 1 : words[i] \in STRING
  BY <1>1
<1>4. /\ SubSeq(words, 1, n - 1) \in Seq(STRING)
      /\ Len(SubSeq(words, 1, n - 1)) = IF 1 <= n - 1 THEN n - 1 ELSE 0
      /\ \A i \in 1 .. n - 1 : SubSeq(words, 1, n - 1)[i] = words[1 + i - 1]
  BY <1>3, SubSeqProperties
<1>5. Front(words) = SubSeq(words, 1, n - 1)
  BY DEF Front, n
<1>6. words = << >> => Front(words) = << >>
  BY <1>1, <1>2, <1>5, SubSeqEmpty
<1>7. ASSUME NEW i \in 1 .. Len(Front(words)) PROVE i \in 1 .. n - 1 /\ 1 + i - 1 = i /\ i \in 1 .. n
  BY <1>1, <1>4, <1>5
<1>8. QED
  BY <1>1, <1>4, <1>5, <1>6, <1>7

\* The loop of path_to_dir_request, one word further.
TrackStep(t, s, w) ==
  IF IsFolder(t, Key(s.at, w, ""))
  THEN [at |-> t[Key(s.at, w, "")].handle, parent |-> t[Key(s.at, w, "")].handle]
  ELSE s

\* Along a way without ".." the walks that pass over it find the same folders.
LEMMA PlainWayIsWalked ==
  ASSUME NEW t, NEW words \in Seq(STRING), \A i \in 1 .. Len(words) : words[i] # "..",
         NEW h, NEW at, Way(t, h, words, at)
  PROVE  /\ WalkBlindly(t, words, h) = at[Len(words)]
         /\ \A p : ~p.root /\ words = (IF p.words = << >> THEN << >> ELSE Front(p.words)) =>
              path_to_dir_request(t, p, h) = Key(at[Len(words)], LastWord(p), "")
<1> DEFINE N == Len(words)
           Both(g) == [at |-> g, parent |-> g]
           b == CHOOSE g : g = [n \in 0 .. N |-> IF n = 0 THEN h ELSE SubfolderOr(t, g[n - 1], words[n], g[n - 1])]
           s == CHOOSE g : g = [n \in 0 .. N |-> IF n = 0 THEN Both(h) ELSE TrackStep(t, g[n - 1], words[n])]
           pair == [n \in 0 .. N |-> Both(at[n])]
<1>1. N \in Nat
  BY LenProperties
<1>2. /\ at = [n \in 0 .. N |-> at[n]] /\ at[0] = h
      /\ \A n \in 1 .. N : Hop(t, at[n - 1], words[n], at[n])
  BY DEF Way
<1>3. WalkBlindly(t, words, h) = b[N]
  BY DEF WalkBlindly, Walk
<1>4. \A p : ~p.root /\ words = (IF p.words = << >> THEN << >> ELSE Front(p.words)) =>
        path_to_dir_request(t, p, h) = Key(s[N].parent, LastWord(p), "")
  BY SMTT(60) DEF path_to_dir_request, Walk, Start, TrackStep
<1> HIDE DEF N
<1>5. \A n \in 0 .. N : n = 0 \/ (n \in 1 .. N /\ n - 1 \in 0 .. N)
  BY <1>1
<1>6. \A n \in 1 .. N : /\ at[n] = SubfolderOr(t, at[n - 1], words[n], at[n - 1])
                        /\ Both(at[n]) = TrackStep(t, Both(at[n - 1]), words[n])
  BY <1>2 DEF Hop, SubfolderOr, TrackStep, N
<1>7. at = [n \in 0 .. N |-> IF n = 0 THEN h ELSE SubfolderOr(t, at[n - 1], words[n], at[n - 1])]
  BY <1>2, <1>5, <1>6
<1>8. pair = [n \in 0 .. N |-> IF n = 0 THEN Both(h) ELSE TrackStep(t, pair[n - 1], words[n])]
  BY <1>2, <1>5, <1>6
<1>9. b = [n \in 0 .. N |-> IF n = 0 THEN h ELSE SubfolderOr(t, b[n - 1], words[n], b[n - 1])]
  BY <1>7
<1>10. s = [n \in 0 .. N |-> IF n = 0 THEN Both(h) ELSE TrackStep(t, s[n - 1], words[n])]
  BY <1>8
<1>11. 0 \in 0 .. N /\ N \in 0 .. N /\ \A k \in 0 .. N : k < N => k + 1 \in 0 .. N /\ k + 1 # 0 /\ (k + 1) - 1 = k
  BY <1>1
<1>12. pair[N] = Both(at[N])
  BY <1>11
<1> HIDE DEF b, s, pair, Both
<1>13. FollowUp(at, b, N)
  BY <1>7, <1>9, <1>11 DEF FollowUp
<1>14. FollowUp(pair, s, N)
  BY <1>8, <1>10, <1>11 DEF FollowUp
<1>15. b[N] = at[N] /\ s[N] = pair[N]
  BY <1>1, <1>11, <1>13, <1>14, RecursionDownUnique
<1>16. s[N].parent = at[N]
  BY <1>12, <1>15 DEF Both
<1>17. QED
  BY <1>3, <1>4, <1>15, <1>16 DEF N

\* rm has one job.
LEMMA RmJobsAre ==
  ASSUME NEW c, RmJobs(c) # << >>
  PROVE  \/ /\ is_directorypath_valid(tree, c.dest, cwd)
            /\ RmJobs(c) = <<DeleteJob(path_to_dir_request(tree, c.dest, cwd), TRUE)>>
         \/ /\ ~is_directorypath_valid(tree, c.dest, cwd) /\ is_filepath_valid(tree, c.dest, cwd)
            /\ RmJobs(c) = <<DeleteJob(path_to_file_request(tree, c.dest, cwd), FALSE)>>
BY DEF RmJobs

LEMMA RmJobsOne ==
  ASSUME NEW c, RmJobs(c) # << >>
  PROVE  Head(RmJobs(c)).do = "delete" /\ Tail(RmJobs(c)) = << >>
<1>1. PICK k, b : RmJobs(c) = <<DeleteJob(k, b)>>
  BY RmJobsAre
<1>2. QED
  BY <1>1 DEF DeleteJob

\* rm deletes what its path names.
LEMMA RmJobsName ==
  ASSUME CommandInv, NEW c \in CommandLines, Plain(c.dest), RmJobs(c) # << >>,
         Named(tree, c.dest).in # Nowhere
  PROVE  \E b : RmJobs(c) = <<DeleteJob(Named(tree, c.dest), b)>>
<1> DEFINE p == c.dest
           words == p.words
           on == Front(words)
           in == WalkStrictly(tree, P(on), cwd)
<1>1. p \in Path /\ words \in Seq(STRING) /\ ~p.root /\ \A i \in DOMAIN words : words[i] # ".."
  BY CommandsAssumption DEF Path, Plain
<1>2. IsTree(tree) /\ cwd \in Handles(tree)
  BY DEF CommandInv
<1>3. /\ on \in Seq(STRING) /\ (words = << >> => on = << >>)
      /\ \A i \in 1 .. Len(on) : on[i] # ".."
  BY <1>1, FrontOfWords
<1> HIDE DEF on, words
<1>4. P(on) \in Path /\ P(on).words = on /\ Start(P(on), cwd) = cwd
  <2>1. \A q \in Seq(STRING) : [root |-> FALSE, words |-> q] \in Path
    BY DEF Path
  <2>2. P(on) \in Path
    BY <1>3, <2>1 DEF P
  <2>3. P(on).words = on /\ ~P(on).root
    BY DEF P
  <2>4. QED
    BY <2>2, <2>3 DEF Start
<1>5. Named(tree, p).in = in
  BY DEF Named, Key, on, words
<1>6. is_directorypath_valid(tree, P(on), cwd)
  BY <1>5 DEF is_directorypath_valid
<1>7. PICK at : Way(tree, cwd, on, at)
  BY <1>2, <1>4, <1>6, StrictWalkHasWay
<1>8. in = at[Len(on)]
  BY <1>2, <1>4, <1>7, WayIsWalked
<1>9. WalkBlindly(tree, on, cwd) = in /\ path_to_dir_request(tree, p, cwd) = Key(in, LastWord(p), "")
  <2>1. on = (IF p.words = << >> THEN << >> ELSE Front(p.words))
    <3>1. CASE p.words = << >>
      BY <1>3, <3>1 DEF words
    <3>2. CASE p.words # << >>
      BY <3>2 DEF on, words
    <3>3. QED
      BY <3>1, <3>2
  <2>2. QED
    <3> HIDE DEF p
    <3>1. /\ WalkBlindly(tree, on, cwd) = at[Len(on)]
          /\ \A q : ~q.root /\ on = (IF q.words = << >> THEN << >> ELSE Front(q.words)) =>
               path_to_dir_request(tree, q, cwd) = Key(at[Len(on)], LastWord(q), "")
      BY <1>3, <1>7, PlainWayIsWalked, ZenonT(30)
    <3>2. QED
      BY <1>1, <1>8, <2>1, <3>1
<1> HIDE DEF in
<1>10. CASE is_directorypath_valid(tree, p, cwd)
  <2>1. Named(tree, p) = path_to_dir_request(tree, p, cwd)
    BY <1>9, <1>10 DEF Named, in, on, words
  <2>2. RmJobs(c) = <<DeleteJob(path_to_dir_request(tree, p, cwd), TRUE)>>
    BY <1>10, RmJobsAre
  <2>3. QED
    BY <2>1, <2>2
<1>11. CASE ~is_directorypath_valid(tree, p, cwd)
  <2>1. is_filepath_valid(tree, p, cwd) /\ RmJobs(c) = <<DeleteJob(path_to_file_request(tree, p, cwd), FALSE)>>
    BY <1>11, RmJobsAre
  <2>2. HasDot(LastWord(p))
    BY <2>1 DEF is_filepath_valid
  <2>3. Start(p, cwd) = cwd
    BY <1>1 DEF Start
  <2>4. path_to_file_request(tree, p, cwd) = Key(in, Dotted[LastWord(p)].name, Dotted[LastWord(p)].ext)
    BY <1>9, <2>2, <2>3 DEF path_to_file_request, FileKey, on, words
  <2>5. Named(tree, p) = Key(in, Dotted[LastWord(p)].name, Dotted[LastWord(p)].ext)
    BY <1>11, <2>2 DEF Named, in, on, words
  <2>6. QED
    BY <2>1, <2>4, <2>5
<1>12. QED
  BY <1>10, <1>11

\* An entry that is alone with its name is the one that is deleted.
LEMMA DeletesAlone ==
  ASSUME IsTree(tree), NEW k, k = Key(k.in, k.name, k.ext), Alone(tree, k), NEW b,
         Job = DeleteJob(k, b), Delete
  PROVE  tree' = [j \in DOMAIN tree \ Below(tree, k) |-> tree[j]]
<1>1. Meant(tree, Job) = {j \in EntriesOf(tree, k.in) : j.name = k.name /\ (b \/ j.ext = k.ext)}
  BY DEF Meant, DeleteJob
<1>2. Meant(tree, Job) \subseteq {k}
  BY <1>1 DEF Alone
<1>3. k \in DOMAIN tree => k \in Meant(tree, Job)
  BY <1>1 DEF EntriesOf
<1>4. CASE Meant(tree, Job) = {}
  <2>1. tree' = tree /\ k \notin DOMAIN tree
    BY <1>3, <1>4 DEF Delete
  <2>2. DOMAIN tree \ Below(tree, k) = DOMAIN tree
    BY <2>1 DEF Below, IsFolder
  <2>3. tree = [j \in DOMAIN tree |-> tree[j]]
    BY DEF IsTree
  <2>4. QED
    BY <2>1, <2>2, <2>3
<1>5. CASE Meant(tree, Job) # {}
  <2>1. PICK j \in Meant(tree, Job) : tree' = [i \in DOMAIN tree \ Below(tree, j) |-> tree[i]]
    BY <1>5 DEF Delete
  <2>2. QED
    BY <1>2, <2>1
<1>6. QED
  BY <1>4, <1>5

\* Until rm is done the tree is as it was when rm was entered.
RmInv ==
  todo # << >> /\ command.op = "rm" =>
    before = tree /\ command \in CommandLines /\ todo = RmJobs(command)

LEMMA RmInvStep ==
  ASSUME RmInv, [MCNext]_MCVars
  PROVE  RmInv'
<1> SUFFICES ASSUME todo' # << >>, command'.op = "rm"
             PROVE  before' = tree' /\ command' \in CommandLines /\ todo' = RmJobs(command)'
  BY DEF RmInv
<1>1. CASE UNCHANGED MCVars
  BY <1>1 DEF RmInv, RmJobs, MCVars, commandVars
<1>2. ASSUME NEW c \in CommandLines, Enter(c), MCNext
      PROVE  before' = tree' /\ command' \in CommandLines /\ todo' = RmJobs(command)'
  <2>1. todo = << >> /\ before' = tree'
    BY <1>2 DEF Enter, MCNext
  <2>2. c.op = "rm" /\ Begin(c, RmJobs(c))
    BY <1>2, <2>1 DEF Enter, Begin
  <2>3. command' = c /\ todo' = RmJobs(c) /\ tree' = tree /\ cwd' = cwd
    BY <2>2 DEF Begin
  <2>4. RmJobs(command)' = RmJobs(c)
    BY <2>3 DEF RmJobs
  <2>5. QED
    BY <2>1, <2>3, <2>4
<1>3. CASE MakeFolder \/ CopySource \/ copy1File \/ copy1Folder \/ Delete
  <2>1. todo # << >> /\ command' = command
    BY <1>3 DEF MakeFolder, CopySource, copy1File, copy1Folder, Delete, Does, Stays
  <2>2. todo = RmJobs(command)
    BY <2>1 DEF RmInv
  <2>3. Job.do = "delete" /\ Tail(todo) = << >>
    BY <2>1, <2>2, RmJobsOne DEF Job
  <2>4. Delete
    BY <1>3, <2>3 DEF MakeFolder, CopySource, copy1File, copy1Folder, Does
  <2>5. todo' = << >>
    BY <2>3, <2>4 DEF Delete, Proceeds
  <2>6. QED
    BY <2>5
<1>4. QED
  BY <1>1, <1>2, <1>3 DEF MCNext, CommandNext

\* The step that ends rm.
LEMMA RmStep ==
  ASSUME CommandInv, RmInv, CommandNext, Finishes("rm"), Plain(command.dest),
         Named(before, command.dest).in # Nowhere, Alone(before, Named(before, command.dest))
  PROVE  tree' = [j \in DOMAIN before \ Below(before, Named(before, command.dest)) |-> before[j]]
<1> DEFINE k == Named(before, command.dest)
<1>1. /\ todo # << >> /\ todo' = << >> /\ before = tree
      /\ command \in CommandLines /\ todo = RmJobs(command)
  BY DEF Finishes, RmInv
<1>2. PICK b : todo = <<DeleteJob(k, b)>>
  BY <1>1, RmJobsName
<1>3. k = Key(k.in, k.name, k.ext)
  BY DEF Named, Key
<1> HIDE DEF k
<1>4. Job = DeleteJob(k, b) /\ Job.do = "delete"
  BY <1>2 DEF Job, DeleteJob
<1>5. Delete
  BY <1>1, <1>4 DEF CommandNext, Enter, MakeFolder, CopySource, copy1File, copy1Folder, Does
<1>6. IsTree(tree) /\ Alone(tree, k)
  BY <1>1 DEF CommandInv, k
<1>7. QED
  BY <1>1, <1>3, <1>4, <1>5, <1>6, DeletesAlone DEF k

\* rm removes what its path names and nothing else, for every tree and every
\* path without "..".
THEOREM RmRemovesOnlyThat == MCSpec => RmRemovesWhatItNames
<1>1. MCInit => RmInv
  BY DEF MCInit, CommandInit, RmInv
<1>2. RmInv /\ [MCNext]_MCVars => RmInv'
  BY RmInvStep
<1>3. CommandInv /\ RmInv /\ [MCNext]_MCVars =>
        [Finishes("rm") /\ Plain(command.dest) =>
           LET k == Named(before, command.dest)
           IN  k.in # Nowhere /\ Alone(before, k) =>
                 tree' = [j \in DOMAIN before \ Below(before, k) |-> before[j]]]_MCVars
  BY RmStep DEF MCNext
<1>4. QED
  BY <1>1, <1>2, <1>3, CommandsInvariance, PTL DEF MCSpec, RmRemovesWhatItNames
-----------------------------------------------------------------------------
(* How deep a folder is *)

LEMMA HandlesFinite ==
  ASSUME NEW t, IsTree(t)
  PROVE  IsFiniteSet(Handles(t))
<1> DEFINE D == {j \in DOMAIN t : t[j].folder}
           T == {t[k].handle : k \in D}
           fn == [k \in D |-> t[k].handle]
<1>1. IsFiniteSet(D)
  BY FS_Subset DEF IsTree
<1>2. fn \in Surjection(D, T)
  BY DEF Surjection
<1>3. IsFiniteSet(T)
  <2> HIDE DEF D, T, fn
  <2>1. QED
    BY <1>1, <1>2, FS_Surjection
<1>4. Handles(t) = T \cup {Root}
  BY DEF Handles
<1> HIDE DEF T
<1>5. QED
  BY <1>3, <1>4, FS_AddElement

\* A folder is in those its parent is in, and is none of them.
LEMMA UpwardsOfChild ==
  ASSUME NEW t, IsTree(t), NEW k \in DOMAIN t, t[k].folder
  PROVE  Upwards(t, t[k].handle) = Upwards(t, k.in) \cup {t[k].handle} /\ t[k].handle \notin Upwards(t, k.in)
<1> DEFINE c == t[k].handle
           h == k.in
           S == {g \in Upwards(t, c) : c \in Upwards(t, g)}
<1>1. c \in Handles(t) /\ c # Root /\ ParentOf(t, c) = h /\ h \in Handles(t)
  <2>1. t[k].handle \in Handles(t) /\ t[k].handle # Root /\ ParentOf(t, t[k].handle) = k.in
    BY ParentGives
  <2>2. k.in \in Handles(t)
    BY DEF IsTree
  <2>3. QED
    BY <2>1, <2>2
<1> HIDE DEF c, h
<1>2. c \in Upwards(t, c) /\ Upwards(t, c) \subseteq Handles(t) /\ Climbing(t, Upwards(t, c))
  BY <1>1, UpwardsGives
<1>3. h \in Upwards(t, c)
  BY <1>1, <1>2 DEF Climbing
<1>4. Upwards(t, h) \subseteq Upwards(t, c) /\ Upwards(t, c) \subseteq {c} \cup Upwards(t, h)
  BY <1>1, <1>3, UpwardsTransitive, UpwardsStep
<1>5. c \notin Upwards(t, h)
  <2> SUFFICES ASSUME c \in Upwards(t, h) PROVE FALSE
    OBVIOUS
  <2>1. ASSUME NEW g \in S PROVE ParentOf(t, g) \in S
    <3>1. g \in Handles(t) /\ ParentOf(t, g) \in Upwards(t, c) /\ c \in Upwards(t, g)
      BY <1>2 DEF Climbing
    <3>2. CASE g = c
      BY <1>1, <3>1, <3>2
    <3>3. CASE g # c
      BY <3>1, <3>3, UpwardsStep
    <3>4. QED
      BY <3>2, <3>3
  <2>2. S \in SUBSET Handles(t) /\ c \in S /\ Climbing(t, S)
    BY <1>2, <2>1 DEF Climbing
  <2> HIDE DEF S
  <2>3. Upwards(t, c) \subseteq S
    BY <2>2, UpwardsLeast
  <2>4. Root \in Upwards(t, h)
    BY DEF IsTree, h
  <2>5. Root \in S
    BY <1>4, <2>3, <2>4
  <2>6. c \in Upwards(t, Root)
    BY <2>5 DEF S
  <2>7. QED
    BY <1>1, <2>6, UpwardsOfRoot
<1>6. Upwards(t, c) = Upwards(t, h) \cup {c}
  BY <1>2, <1>4
<1>7. QED
  BY <1>5, <1>6 DEF c, h

Depth(t, h) == Cardinality(Upwards(t, h))

LEMMA DepthGives ==
  ASSUME NEW t, IsTree(t)
  PROVE  /\ Cardinality(Handles(t)) \in Nat
         /\ \A h \in Handles(t) : Depth(t, h) \in Nat /\ Depth(t, h) <= Cardinality(Handles(t))
         /\ \A k \in DOMAIN t : t[k].folder => Depth(t, t[k].handle) = Depth(t, k.in) + 1
<1>1. IsFiniteSet(Handles(t)) /\ Cardinality(Handles(t)) \in Nat
  BY HandlesFinite, FS_CardinalityType
<1>2. ASSUME NEW h \in Handles(t)
      PROVE  /\ IsFiniteSet(Upwards(t, h))
             /\ Depth(t, h) \in Nat /\ Depth(t, h) <= Cardinality(Handles(t))
  <2>1. Upwards(t, h) \in SUBSET Handles(t)
    BY UpwardsGives
  <2>2. IsFiniteSet(Upwards(t, h)) /\ Cardinality(Upwards(t, h)) <= Cardinality(Handles(t))
    BY <1>1, <2>1, FS_Subset
  <2>3. QED
    BY <2>2, FS_CardinalityType DEF Depth
<1>3. ASSUME NEW k \in DOMAIN t, t[k].folder PROVE Depth(t, t[k].handle) = Depth(t, k.in) + 1
  <2>1. IsFiniteSet(Upwards(t, k.in))
    BY <1>2 DEF IsTree
  <2>2. /\ Upwards(t, t[k].handle) = Upwards(t, k.in) \cup {t[k].handle}
        /\ t[k].handle \notin Upwards(t, k.in)
    BY <1>3, UpwardsOfChild
  <2>3. Cardinality(Upwards(t, k.in) \cup {t[k].handle}) = Cardinality(Upwards(t, k.in)) + 1
    BY <2>1, <2>2, FS_AddElement
  <2>4. QED
    BY <2>2, <2>3 DEF Depth
<1>4. QED
  BY <1>1, <1>2, <1>3
-----------------------------------------------------------------------------
(* whereis *)

\* Entries each of which lies in the folder before it, the first in h.
Trail(t, h, q) ==
  /\ q \in Seq(DOMAIN t) /\ q # << >> /\ q[1].in = h
  /\ \A i \in 1 .. Len(q) - 1 : t[q[i]].folder /\ q[i + 1].in = t[q[i]].handle

\* Those that end at an entry of a name.
Hits(t, h, name, ext) ==
  {q \in Seq(DOMAIN t) : Trail(t, h, q) /\ q[Len(q)].name = name /\ q[Len(q)].ext = ext}

LEMMA TrailOfOne ==
  ASSUME NEW t, NEW k \in DOMAIN t
  PROVE  Trail(t, k.in, <<k>>) /\ <<k>> \in Seq(DOMAIN t) /\ Len(<<k>>) = 1 /\ <<k>>[1] = k
<1>1. <<k>> \in Seq(DOMAIN t) /\ Len(<<k>>) = 1 /\ <<k>>[1] = k /\ <<k>> # << >>
  OBVIOUS
<1>2. 1 .. Len(<<k>>) - 1 = {}
  BY <1>1
<1>3. QED
  BY <1>1, <1>2 DEF Trail

LEMMA TrailLonger ==
  ASSUME NEW t, NEW k \in DOMAIN t, t[k].folder, NEW q, Trail(t, t[k].handle, q)
  PROVE  /\ Trail(t, k.in, <<k>> \o q) /\ <<k>> \o q \in Seq(DOMAIN t)
         /\ (<<k>> \o q)[Len(<<k>> \o q)] = q[Len(q)]
<1> DEFINE r == <<k>> \o q
           n == Len(q)
<1>1. q \in Seq(DOMAIN t) /\ n \in Nat /\ n >= 1
  BY LenProperties, EmptySeq DEF Trail
<1>2. <<k>> \in Seq(DOMAIN t) /\ Len(<<k>>) = 1 /\ <<k>>[1] = k
  BY TrailOfOne
<1>3. /\ r \in Seq(DOMAIN t) /\ Len(r) = 1 + n
      /\ \A i \in 1 .. 1 + n : r[i] = IF i <= 1 THEN <<k>>[i] ELSE q[i - 1]
  BY <1>1, <1>2, ConcatProperties
<1> HIDE DEF r
<1>4. q[1].in = t[k].handle /\ \A i \in 1 .. n - 1 : t[q[i]].folder /\ q[i + 1].in = t[q[i]].handle
  BY DEF Trail
<1> HIDE DEF n
<1>5. r[1] = k /\ \A i \in 2 .. 1 + n : r[i] = q[i - 1]
  BY <1>1, <1>2, <1>3
<1>6. ASSUME NEW i \in 1 .. Len(r) - 1 PROVE t[r[i]].folder /\ r[i + 1].in = t[r[i]].handle
  <2>1. CASE i = 1
    BY <1>1, <1>3, <1>4, <1>5, <2>1
  <2>2. CASE i # 1
    <3>1. i - 1 \in 1 .. n - 1 /\ i \in 2 .. 1 + n /\ i + 1 \in 2 .. 1 + n /\ (i + 1) - 1 = (i - 1) + 1
      BY <1>1, <1>3, <2>2
    <3>2. r[i] = q[i - 1] /\ r[i + 1] = q[(i - 1) + 1]
      BY <1>5, <3>1
    <3>3. QED
      BY <1>4, <3>1, <3>2
  <2>3. QED
    BY <2>1, <2>2
<1>7. r # << >> /\ r[1].in = k.in
  BY <1>1, <1>3, <1>5, EmptySeq
<1>8. r[Len(r)] = q[n]
  BY <1>1, <1>3, <1>5
<1>9. Trail(t, k.in, r)
  BY <1>3, <1>6, <1>7 DEF Trail
<1>10. QED
  BY <1>3, <1>8, <1>9 DEF r, n

LEMMA TrailShorter ==
  ASSUME NEW t, NEW h, NEW q, Trail(t, h, q)
  PROVE  /\ q[1] \in EntriesOf(t, h)
         /\ \/ q = <<q[1]>> /\ q[Len(q)] = q[1]
            \/ /\ t[q[1]].folder /\ Trail(t, t[q[1]].handle, Tail(q)) /\ Tail(q) \in Seq(DOMAIN t)
               /\ q = <<q[1]>> \o Tail(q) /\ Tail(q)[Len(Tail(q))] = q[Len(q)]
<1> DEFINE n == Len(q)
           r == Tail(q)
           k == q[1]
<1>1. /\ q \in Seq(DOMAIN t) /\ q # << >> /\ n \in Nat /\ n >= 1
      /\ r \in Seq(DOMAIN t) /\ Len(r) = n - 1 /\ \A i \in 1 .. n - 1 : r[i] = q[i + 1]
  <2>1. q \in Seq(DOMAIN t) /\ q # << >>
    BY DEF Trail
  <2>2. QED
    BY <2>1, LenProperties, EmptySeq, HeadTailProperties
<1> HIDE DEF r
<1>2. k.in = h /\ \A i \in 1 .. n - 1 : t[q[i]].folder /\ q[i + 1].in = t[q[i]].handle
  BY DEF Trail
<1>3. k \in DOMAIN t
  BY <1>1, ElementOfSeq
<1>4. k \in EntriesOf(t, h)
  BY <1>2, <1>3 DEF EntriesOf
<1>5. <<k>> \in Seq(DOMAIN t) /\ Len(<<k>>) = 1 /\ <<k>>[1] = k
  BY <1>3, TrailOfOne
<1>6. CASE n = 1
  <2>1. \A i \in 1 .. 1 : q[i] = <<k>>[i]
    BY <1>5
  <2> HIDE DEF k
  <2>2. q = <<k>>
    BY <1>1, <1>5, <1>6, <2>1, SeqEqual
  <2>3. QED
    BY <1>4, <1>6, <2>2 DEF k
<1>7. CASE n # 1
  <2>1. n - 1 >= 1 /\ 1 \in 1 .. n - 1
    BY <1>1, <1>7
  <2>2. /\ <<k>> \o r \in Seq(DOMAIN t) /\ Len(<<k>> \o r) = 1 + (n - 1)
        /\ \A i \in 1 .. 1 + (n - 1) : (<<k>> \o r)[i] = IF i <= 1 THEN <<k>>[i] ELSE r[i - 1]
    BY <1>1, <1>5, ConcatProperties
  <2>3. ASSUME NEW i \in 1 .. n PROVE q[i] = (<<k>> \o r)[i]
    <3>1. CASE i = 1
      BY <1>1, <1>5, <2>2, <3>1
    <3>2. CASE i # 1
      <4>1. i - 1 \in 1 .. n - 1 /\ (i - 1) + 1 = i /\ ~(i <= 1) /\ i \in 1 .. 1 + (n - 1)
        BY <1>1, <3>2
      <4>2. QED
        BY <1>1, <2>2, <4>1
    <3>3. QED
      BY <3>1, <3>2
  <2>4. q = <<k>> \o r
    <3> HIDE DEF k
    <3>1. Len(q) = Len(<<k>> \o r)
      BY <1>1, <2>2
    <3>2. QED
      BY <1>1, <2>2, <2>3, <3>1, SeqEqual
  <2>5. r # << >> /\ r[1].in = t[k].handle /\ t[k].folder /\ r[Len(r)] = q[n]
    BY <1>1, <1>2, <2>1, EmptySeq
  <2>6. ASSUME NEW i \in 1 .. Len(r) - 1 PROVE t[r[i]].folder /\ r[i + 1].in = t[r[i]].handle
    <3>1. i \in 1 .. n - 1 /\ i + 1 \in 1 .. n - 1
      BY <1>1
    <3>2. r[i] = q[i + 1] /\ r[i + 1] = q[(i + 1) + 1]
      BY <1>1, <3>1
    <3>3. QED
      BY <1>2, <3>1, <3>2
  <2>7. Trail(t, t[k].handle, r)
    BY <1>1, <2>5, <2>6 DEF Trail
  <2>8. QED
    BY <1>1, <1>4, <2>4, <2>5, <2>7 DEF r
<1>8. QED
  BY <1>6, <1>7

\* What whereis puts together for one folder.
LEMMA HitsOfFolder ==
  ASSUME NEW t, NEW h, NEW name, NEW ext
  PROVE  Hits(t, h, name, ext) =
           {<<k>> : k \in {j \in EntriesOf(t, h) : j.name = name /\ j.ext = ext}}
           \cup UNION {{<<k>> \o found : found \in Hits(t, t[k].handle, name, ext)}
                         : k \in {j \in EntriesOf(t, h) : t[j].folder}}
<1> DEFINE Here == {<<k>> : k \in {j \in EntriesOf(t, h) : j.name = name /\ j.ext = ext}}
           Through(k) == {<<k>> \o found : found \in Hits(t, t[k].handle, name, ext)}
           There == UNION {Through(k) : k \in {j \in EntriesOf(t, h) : t[j].folder}}
<1>0. \A q : q \in There <=>
        \E k \in EntriesOf(t, h) : t[k].folder /\ \E r \in Hits(t, t[k].handle, name, ext) : q = <<k>> \o r
  <2>1. \A k, q : q \in Through(k) <=> \E r \in Hits(t, t[k].handle, name, ext) : q = <<k>> \o r
    OBVIOUS
  <2> HIDE DEF Through
  <2>2. \A q : q \in There <=> \E k \in EntriesOf(t, h) : t[k].folder /\ q \in Through(k)
    OBVIOUS
  <2> HIDE DEF There
  <2>3. ASSUME NEW q \in There
        PROVE  \E k \in EntriesOf(t, h) : t[k].folder /\ \E r \in Hits(t, t[k].handle, name, ext) : q = <<k>> \o r
    <3>1. PICK k \in EntriesOf(t, h) : t[k].folder /\ q \in Through(k)
      BY <2>2
    <3>2. \E r \in Hits(t, t[k].handle, name, ext) : q = <<k>> \o r
      BY <2>1, <3>1
    <3>3. QED
      BY <3>1, <3>2
  <2>4. ASSUME NEW k \in EntriesOf(t, h), t[k].folder, NEW r \in Hits(t, t[k].handle, name, ext)
        PROVE  <<k>> \o r \in There
    <3>1. <<k>> \o r \in Through(k)
      BY <2>1
    <3>2. QED
      BY <2>2, <2>4, <3>1
  <2>5. QED
    BY <2>3, <2>4
<1> HIDE DEF There
<1>1. ASSUME NEW q \in Hits(t, h, name, ext) PROVE q \in Here \cup There
  <2>1. Trail(t, h, q) /\ q[Len(q)].name = name /\ q[Len(q)].ext = ext
    BY DEF Hits
  <2>2. q[1] \in EntriesOf(t, h)
    BY <2>1, TrailShorter
  <2>3. CASE q = <<q[1]>> /\ q[Len(q)] = q[1]
    BY <2>1, <2>2, <2>3
  <2>4. CASE /\ t[q[1]].folder /\ Trail(t, t[q[1]].handle, Tail(q)) /\ Tail(q) \in Seq(DOMAIN t)
             /\ q = <<q[1]>> \o Tail(q) /\ Tail(q)[Len(Tail(q))] = q[Len(q)]
    <3>1. Tail(q) \in Hits(t, t[q[1]].handle, name, ext)
      BY <2>1, <2>4 DEF Hits
    <3>2. q \in There
      BY <1>0, <2>2, <2>4, <3>1
    <3>3. QED
      BY <3>2
  <2>5. QED
    BY <2>1, <2>3, <2>4, TrailShorter
<1>2. ASSUME NEW k \in EntriesOf(t, h), k.name = name, k.ext = ext PROVE <<k>> \in Hits(t, h, name, ext)
  <2>1. k \in DOMAIN t /\ k.in = h
    BY DEF EntriesOf
  <2>2. Trail(t, h, <<k>>) /\ <<k>> \in Seq(DOMAIN t) /\ Len(<<k>>) = 1 /\ <<k>>[1] = k
    BY <2>1, TrailOfOne
  <2>3. QED
    BY <1>2, <2>2 DEF Hits
<1>3. ASSUME NEW k \in EntriesOf(t, h), t[k].folder, NEW q \in Hits(t, t[k].handle, name, ext)
      PROVE  <<k>> \o q \in Hits(t, h, name, ext)
  <2>1. k \in DOMAIN t /\ k.in = h
    BY DEF EntriesOf
  <2>2. Trail(t, t[k].handle, q) /\ q[Len(q)].name = name /\ q[Len(q)].ext = ext
    BY DEF Hits
  <2>3. QED
    BY <1>3, <2>1, <2>2, TrailLonger DEF Hits
<1>4. Here \subseteq Hits(t, h, name, ext)
  BY <1>2
<1>5. ASSUME NEW q \in There PROVE q \in Hits(t, h, name, ext)
  <2>1. PICK k \in EntriesOf(t, h) :
          t[k].folder /\ \E r \in Hits(t, t[k].handle, name, ext) : q = <<k>> \o r
    BY <1>0
  <2>2. PICK r \in Hits(t, t[k].handle, name, ext) : q = <<k>> \o r
    BY <2>1
  <2>3. QED
    BY <1>3, <2>1, <2>2
<1> HIDE DEF Here
<1>6. Hits(t, h, name, ext) = Here \cup There
  BY <1>1, <1>4, <1>5
<1>7. QED
  BY <1>6 DEF Here, There

\* whereis finds these.
LEMMA WhereisGives ==
  ASSUME NEW t, IsTree(t), NEW h \in Handles(t), NEW name, NEW ext
  PROVE  whereis(t, h, name, ext) = Hits(t, h, name, ext)
<1> DEFINE H == Handles(t)
           C == Cardinality(H)
           Here(g) == {<<k>> : k \in {j \in EntriesOf(t, g) : j.name = name /\ j.ext = ext}}
           Sub(g) == {j \in EntriesOf(t, g) : t[j].folder}
           There(g1, g) == UNION {{<<k>> \o found : found \in g1[t[k].handle]} : k \in Sub(g)}
           F == CHOOSE g1 : g1 = [g \in H |-> Here(g) \cup There(g1, g)]
           A == [g \in H |-> Hits(t, g, name, ext)]
           S == {n \in Nat : \A g \in H : C + 1 <= Depth(t, g) + n => F[g] = A[g]}
<1>1. whereis(t, h, name, ext) = F[h]
  BY DEF whereis
<1>2. ASSUME NEW g1, NEW g2, NEW g, \A k \in Sub(g) : g1[t[k].handle] = g2[t[k].handle]
      PROVE  There(g1, g) = There(g2, g)
  <2> HIDE DEF Sub
  <2> DEFINE Through(m, k) == {<<k>> \o found : found \in m[t[k].handle]}
  <2>1. \A k \in Sub(g) : Through(g1, k) = Through(g2, k)
    BY <1>2
  <2>2. There(g1, g) = UNION {Through(g1, k) : k \in Sub(g)} /\ There(g2, g) = UNION {Through(g2, k) : k \in Sub(g)}
    OBVIOUS
  <2> HIDE DEF Through, There
  <2>3. {Through(g1, k) : k \in Sub(g)} = {Through(g2, k) : k \in Sub(g)}
    BY <2>1
  <2>4. QED
    BY <2>2, <2>3
<1>3. \A g : \A k \in Sub(g) : k \in DOMAIN t /\ t[k].folder /\ k.in = g /\ t[k].handle \in H
  BY DEF EntriesOf, Handles
<1>4. \A g \in H : A[g] = Here(g) \cup There(A, g)
  <2>1. ASSUME NEW g \in H PROVE A[g] = Here(g) \cup There(A, g)
    <3> DEFINE Whole == UNION {{<<k>> \o found : found \in Hits(t, t[k].handle, name, ext)} : k \in Sub(g)}
    <3>1. \A k \in Sub(g) : A[t[k].handle] = Hits(t, t[k].handle, name, ext)
      BY <1>3
    <3>2. There(A, g) = Whole
      <4> HIDE DEF Sub, A
      <4> DEFINE Through(k) == {<<k>> \o found : found \in A[t[k].handle]}
                 Step(k) == {<<k>> \o found : found \in Hits(t, t[k].handle, name, ext)}
      <4>1. \A k \in Sub(g) : Through(k) = Step(k)
        BY <3>1
      <4>2. There(A, g) = UNION {Through(k) : k \in Sub(g)} /\ Whole = UNION {Step(k) : k \in Sub(g)}
        OBVIOUS
      <4> HIDE DEF Through, Step, There, Whole
      <4>3. {Through(k) : k \in Sub(g)} = {Step(k) : k \in Sub(g)}
        BY <4>1
      <4>4. QED
        BY <4>2, <4>3
    <3>3. Hits(t, g, name, ext) = Here(g) \cup Whole
      BY HitsOfFolder
    <3> HIDE DEF There, Whole, Here
    <3>4. QED
      BY <3>2, <3>3
  <2>2. QED
    BY <2>1
<1> HIDE DEF Here, There, Sub
<1>5. A = [g \in H |-> Here(g) \cup There(A, g)]
  BY <1>4
<1>6. F = [g \in H |-> Here(g) \cup There(F, g)]
  BY <1>5
<1> HIDE DEF F, A
<1>7. C \in Nat /\ \A g \in H : Depth(t, g) \in Nat /\ Depth(t, g) <= C
  BY DepthGives
<1>8. \A g : \A k \in Sub(g) : Depth(t, t[k].handle) = Depth(t, g) + 1
  BY <1>3, DepthGives
<1> HIDE DEF H, C
<1>9. 0 \in S
  BY <1>7
<1>10. ASSUME NEW n \in Nat, n \in S PROVE n + 1 \in S
  <2>1. ASSUME NEW g \in H, C + 1 <= Depth(t, g) + (n + 1) PROVE F[g] = A[g]
    <3>1. ASSUME NEW k \in Sub(g) PROVE F[t[k].handle] = A[t[k].handle]
      <4>1. t[k].handle \in H /\ Depth(t, t[k].handle) = Depth(t, g) + 1
        BY <1>3, <1>8
      <4>2. C + 1 <= Depth(t, t[k].handle) + n
        BY <1>7, <2>1, <4>1
      <4>3. QED
        BY <1>10, <4>1, <4>2
    <3>2. There(F, g) = There(A, g)
      BY <1>2, <3>1
    <3>3. QED
      BY <1>5, <1>6, <3>2
  <2>2. QED
    BY <1>10, <2>1
<1> HIDE DEF S
<1>11. Nat \subseteq S
  BY <1>9, <1>10, NatInSet
<1>12. C + 1 \in S /\ h \in H /\ C + 1 <= Depth(t, h) + (C + 1)
  BY <1>7, <1>11 DEF H
<1>13. F[h] = A[h]
  BY <1>12 DEF S
<1>14. QED
  BY <1>1, <1>12, <1>13 DEF A

\* A trail stays below the folder it begins in.
LEMMA TrailStaysBelow ==
  ASSUME NEW t, IsTree(t), NEW h \in Handles(t), NEW q, Trail(t, h, q)
  PROVE  q[Len(q)] \in DOMAIN t /\ h \in Upwards(t, q[Len(q)].in)
<1> DEFINE n == Len(q)
           S == {i \in 0 .. n - 1 : h \in Upwards(t, q[i + 1].in)}
<1>1. n \in Nat /\ n >= 1 /\ n - 1 \in Nat /\ \A i \in 1 .. n : q[i] \in DOMAIN t
  <2>1. q \in Seq(DOMAIN t) /\ q # << >>
    BY DEF Trail
  <2>2. QED
    BY <2>1, LenProperties, EmptySeq, ElementOfSeq
<1>2. q[1].in = h /\ \A i \in 1 .. n - 1 : t[q[i]].folder /\ q[i + 1].in = t[q[i]].handle
  BY DEF Trail
<1> HIDE DEF n
<1>3. 0 \in S
  BY <1>1, <1>2, UpwardsGives
<1>4. ASSUME NEW i \in 0 .. n - 1, i < n - 1, i \in S PROVE i + 1 \in S
  <2>1. i + 1 \in 1 .. n - 1 /\ i + 1 \in 1 .. n /\ i + 1 \in 0 .. n - 1
    BY <1>1, <1>4
  <2>2. t[q[i + 1]].folder /\ q[(i + 1) + 1].in = t[q[i + 1]].handle /\ q[i + 1] \in DOMAIN t
    BY <1>1, <1>2, <2>1
  <2>3. Upwards(t, q[(i + 1) + 1].in) = Upwards(t, q[i + 1].in) \cup {t[q[i + 1]].handle}
    BY <2>2, UpwardsOfChild
  <2>4. QED
    BY <1>4, <2>1, <2>3
<1> HIDE DEF S
<1>5. 0 .. n - 1 \subseteq S
  BY <1>1, <1>3, <1>4, RangeInSet
<1>6. n - 1 \in S /\ (n - 1) + 1 = n /\ n \in 1 .. n
  BY <1>1, <1>5
<1>7. QED
  BY <1>1, <1>6 DEF S, n

\* There is one to every entry that is below it.
LEMMA TrailToBelow ==
  ASSUME NEW t, IsTree(t), NEW h \in Handles(t), NEW k \in DOMAIN t, h \in Upwards(t, k.in)
  PROVE  \E q \in Seq(DOMAIN t) : Trail(t, h, q) /\ q[Len(q)] = k
<1> DEFINE Reached(j) == \E q \in Seq(DOMAIN t) : Trail(t, h, q) /\ q[Len(q)] = j
           S == {n \in Nat : \A j \in DOMAIN t : Depth(t, j.in) <= n /\ h \in Upwards(t, j.in) => Reached(j)}
<1>1. \A j \in DOMAIN t : j.in \in Handles(t) /\ Depth(t, j.in) \in Nat
  BY DepthGives DEF IsTree
<1>2. ASSUME NEW j \in DOMAIN t, j.in = h PROVE Reached(j)
  BY <1>2, TrailOfOne
<1>3. ASSUME NEW j \in DOMAIN t, j.in # h, h \in Upwards(t, j.in)
      PROVE  \E i \in DOMAIN t : /\ t[i].folder /\ t[i].handle = j.in /\ h \in Upwards(t, i.in)
                                 /\ Depth(t, j.in) = Depth(t, i.in) + 1
  <2>1. j.in # Root
    BY <1>3, UpwardsOfRoot
  <2>2. PICK i \in DOMAIN t : t[i].folder /\ t[i].handle = j.in
    BY <1>1, <2>1, HandleHasKey
  <2>3. h \in Upwards(t, i.in)
    BY <1>3, <2>2, UpwardsOfChild
  <2>4. QED
    BY <2>2, <2>3, DepthGives
<1>4. ASSUME NEW j \in DOMAIN t, NEW i \in DOMAIN t, t[i].folder, t[i].handle = j.in, Reached(i)
      PROVE  Reached(j)
  <2>1. PICK q \in Seq(DOMAIN t) : Trail(t, h, q) /\ q[Len(q)] = i
    BY <1>4
  <2> DEFINE n == Len(q)
             r == Append(q, j)
  <2>2. n \in Nat /\ n >= 1
    BY <2>1, LenProperties, EmptySeq DEF Trail
  <2>3. /\ r \in Seq(DOMAIN t) /\ r # << >> /\ Len(r) = n + 1 /\ r[n + 1] = j
        /\ \A m \in 1 .. n : r[m] = q[m]
    BY AppendProperties
  <2>4. q[1].in = h /\ \A m \in 1 .. n - 1 : t[q[m]].folder /\ q[m + 1].in = t[q[m]].handle
    BY <2>1 DEF Trail
  <2>5. q[n] = i
    BY <2>1
  <2> HIDE DEF n, r
  <2>6. ASSUME NEW m \in 1 .. Len(r) - 1 PROVE t[r[m]].folder /\ r[m + 1].in = t[r[m]].handle
    <3>1. CASE m = n
      BY <1>4, <2>2, <2>3, <2>5, <3>1
    <3>2. CASE m # n
      <4>1. m \in 1 .. n - 1 /\ m \in 1 .. n /\ m + 1 \in 1 .. n
        BY <2>2, <2>3, <3>2
      <4>2. QED
        BY <2>3, <2>4, <4>1
    <3>3. QED
      BY <3>1, <3>2
  <2>7. r[1].in = h
    BY <2>2, <2>3, <2>4
  <2>8. Trail(t, h, r)
    BY <2>3, <2>6, <2>7 DEF Trail
  <2>9. QED
    BY <2>3, <2>8
<1> HIDE DEF Reached
<1>5. 0 \in S
  <2>1. ASSUME NEW j \in DOMAIN t, Depth(t, j.in) <= 0, h \in Upwards(t, j.in) PROVE Reached(j)
    <3>1. CASE j.in # h
      <4>1. PICK i \in DOMAIN t : Depth(t, j.in) = Depth(t, i.in) + 1
        BY <1>3, <2>1, <3>1
      <4>2. QED
        BY <1>1, <2>1, <4>1
    <3>2. QED
      BY <1>2, <3>1
  <2>2. QED
    BY <2>1
<1>6. ASSUME NEW n \in Nat, n \in S PROVE n + 1 \in S
  <2>1. ASSUME NEW j \in DOMAIN t, Depth(t, j.in) <= n + 1, h \in Upwards(t, j.in) PROVE Reached(j)
    <3>1. CASE j.in # h
      <4>1. PICK i \in DOMAIN t : /\ t[i].folder /\ t[i].handle = j.in /\ h \in Upwards(t, i.in)
                                  /\ Depth(t, j.in) = Depth(t, i.in) + 1
        BY <1>3, <2>1, <3>1
      <4>2. Depth(t, i.in) <= n
        BY <1>1, <2>1, <4>1
      <4>3. Reached(i)
        BY <1>6, <4>1, <4>2
      <4>4. QED
        BY <1>4, <4>1, <4>3
    <3>2. QED
      BY <1>2, <3>1
  <2>2. QED
    BY <1>6, <2>1
<1> HIDE DEF S
<1>7. Nat \subseteq S
  BY <1>5, <1>6, NatInSet
<1>8. Depth(t, k.in) \in S /\ Depth(t, k.in) <= Depth(t, k.in)
  BY <1>1, <1>7
<1>9. Reached(k)
  BY <1>8 DEF S
<1>10. QED
  BY <1>9 DEF Reached

LEMMA HitsAreAll ==
  ASSUME NEW t, IsTree(t), NEW h \in Handles(t), NEW name, NEW ext
  PROVE  {Last(q) : q \in Hits(t, h, name, ext)} =
           {k \in DOMAIN t : k.name = name /\ k.ext = ext /\ h \in Upwards(t, k.in)}
<1> DEFINE E == {k \in DOMAIN t : k.name = name /\ k.ext = ext /\ h \in Upwards(t, k.in)}
<1>1. ASSUME NEW q \in Hits(t, h, name, ext) PROVE Last(q) \in E
  BY TrailStaysBelow DEF Hits, Last
<1>2. ASSUME NEW k \in E PROVE \E q \in Hits(t, h, name, ext) : Last(q) = k
  BY TrailToBelow DEF Hits, Last
<1> HIDE DEF E
<1>3. {Last(q) : q \in Hits(t, h, name, ext)} = E
  BY <1>1, <1>2
<1>4. QED
  BY <1>3 DEF E

\* A way and a way on make one way.
LEMMA WayGoesOn ==
  ASSUME NEW t, NEW from, NEW S, NEW on \in Seq(S), NEW words \in Seq(S),
         NEW a, Way(t, from, on, a), NEW b, Way(t, a[Len(on)], words, b)
  PROVE  /\ Len(on \o words) \in Nat
         /\ \E c : Way(t, from, on \o words, c) /\ c[Len(on \o words)] = b[Len(words)]
<1> DEFINE L == Len(on)
           N == Len(words)
           q == on \o words
           c == [i \in 0 .. L + N |-> IF i <= L THEN a[i] ELSE b[i - L]]
<1>1. L \in Nat /\ N \in Nat
  BY LenProperties
<1>2. /\ a \in [0 .. L -> Handles(t)] /\ a[0] = from
      /\ \A i \in 1 .. L : Hop(t, a[i - 1], on[i], a[i])
  BY DEF Way
<1>3. /\ b \in [0 .. N -> Handles(t)] /\ b[0] = a[L]
      /\ \A i \in 1 .. N : Hop(t, b[i - 1], words[i], b[i])
  BY DEF Way
<1>4. /\ Len(q) = L + N
      /\ \A i \in 1 .. L + N : q[i] = IF i <= L THEN on[i] ELSE words[i - L]
  BY ConcatProperties
<1> HIDE DEF L, N, q
<1>5. c \in [0 .. L + N -> Handles(t)] /\ c[0] = from /\ c[L + N] = b[N]
  <2>1. ASSUME NEW i \in 0 .. L + N PROVE (IF i <= L THEN a[i] ELSE b[i - L]) \in Handles(t)
    <3>1. CASE i <= L
      BY <1>1, <1>2, <3>1
    <3>2. CASE ~(i <= L)
      <4>1. i - L \in 0 .. N
        BY <1>1, <3>2
      <4>2. QED
        BY <1>3, <3>2, <4>1
    <3>3. QED
      BY <3>1, <3>2
  <2>2. 0 \in 0 .. L + N /\ 0 <= L /\ L + N \in 0 .. L + N
    BY <1>1
  <2>3. c[L + N] = b[N]
    <3>1. CASE N = 0
      BY <1>1, <1>3, <2>2, <3>1
    <3>2. CASE N # 0
      <4>1. ~(L + N <= L) /\ (L + N) - L = N
        BY <1>1, <3>2
      <4>2. QED
        BY <2>2, <4>1
    <3>3. QED
      BY <3>1, <3>2
  <2>4. QED
    BY <1>2, <2>1, <2>2, <2>3
<1>6. ASSUME NEW i \in 1 .. L + N PROVE Hop(t, c[i - 1], q[i], c[i])
  <2>1. i \in 0 .. L + N /\ i - 1 \in 0 .. L + N
    BY <1>1
  <2>2. CASE i <= L
    <3>1. i - 1 <= L /\ i \in 1 .. L
      BY <1>1, <2>2
    <3>2. c[i - 1] = a[i - 1] /\ c[i] = a[i] /\ q[i] = on[i]
      BY <1>4, <2>1, <2>2, <3>1
    <3>3. QED
      BY <1>2, <3>1, <3>2
  <2>3. CASE ~(i <= L)
    <3>1. i - L \in 1 .. N
      BY <1>1, <2>3
    <3>2. c[i] = b[i - L] /\ q[i] = words[i - L]
      BY <1>4, <2>1, <2>3
    <3>3. c[i - 1] = b[(i - L) - 1]
      <4>1. CASE i - 1 <= L
        <5>1. i - 1 = L /\ (i - L) - 1 = 0
          BY <1>1, <2>3, <4>1
        <5>2. QED
          BY <1>3, <2>1, <4>1, <5>1
      <4>2. CASE ~(i - 1 <= L)
        <5>1. (i - 1) - L = (i - L) - 1
          BY <1>1
        <5>2. QED
          BY <2>1, <4>2, <5>1
      <4>3. QED
        BY <4>1, <4>2
    <3> HIDE DEF c
    <3>4. QED
      BY <1>3, <3>1, <3>2, <3>3
  <2>4. QED
    BY <2>2, <2>3
<1> HIDE DEF c
<1>7. Way(t, from, q, c)
  BY <1>4, <1>5, <1>6 DEF Way
<1>8. c[Len(q)] = b[Len(words)] /\ Len(q) \in Nat
  BY <1>1, <1>4, <1>5 DEF N
<1>9. QED
  BY <1>7, <1>8 DEF q

\* The names on a trail are a way to where its last entry lies.
LEMMA TrailIsWay ==
  ASSUME NEW t, IsTree(t), \A k \in DOMAIN t : k.name # "..",
         NEW h \in Handles(t), NEW q, Trail(t, h, q)
  PROVE  /\ Names(Front(q)) \in Seq({k.name : k \in DOMAIN t})
         /\ \E b : Way(t, h, Names(Front(q)), b) /\ b[Len(Names(Front(q)))] = Last(q).in
<1> DEFINE n == Len(q)
           N == n - 1
           S == {k.name : k \in DOMAIN t}
           words == Names(Front(q))
           b == [i \in 0 .. N |-> q[i + 1].in]
<1>1. q \in Seq(DOMAIN t) /\ q # << >>
  BY DEF Trail
<1>2. n \in Nat /\ n >= 1 /\ N \in Nat /\ (\A i \in 1 .. n : q[i] \in DOMAIN t)
  BY <1>1, LenProperties, EmptySeq, ElementOfSeq
<1>3. Front(q) = [i \in 1 .. N |-> q[i]]
  BY <1>1, <1>2, FrontGives DEF Front
<1>4. q[1].in = h /\ \A i \in 1 .. N : t[q[i]].folder /\ q[i + 1].in = t[q[i]].handle
  BY DEF Trail
<1>5. Last(q) = q[N + 1]
  BY <1>2 DEF Last
<1> HIDE DEF n
<1>6. \A i \in 1 .. N : i \in 1 .. n
  BY <1>2
<1>7. words = [i \in 1 .. N |-> q[i].name]
  BY <1>3 DEF Names
<1>8. words \in Seq(S) /\ Len(words) = N
  <2>1. words \in [1 .. N -> S]
    BY <1>2, <1>6, <1>7
  <2> HIDE DEF words, S, N
  <2>2. QED
    BY <1>2, <2>1
<1> HIDE DEF words
<1>9. b \in [0 .. N -> Handles(t)] /\ b[0] = h /\ b[N] = q[N + 1].in
  <2>1. ASSUME NEW i \in 0 .. N PROVE q[i + 1].in \in Handles(t)
    <3>1. i + 1 \in 1 .. n
      BY <1>2
    <3>2. QED
      BY <1>2, <3>1 DEF IsTree
  <2>2. 0 \in 0 .. N /\ N \in 0 .. N /\ 0 + 1 = 1
    BY <1>2
  <2>3. QED
    BY <1>4, <2>1, <2>2
<1>10. ASSUME NEW i \in 1 .. N PROVE Hop(t, b[i - 1], words[i], b[i])
  <2>1. i \in 0 .. N /\ i - 1 \in 0 .. N /\ (i - 1) + 1 = i /\ q[i] \in DOMAIN t
    BY <1>2, <1>6
  <2>2. b[i - 1] = q[i].in /\ b[i] = q[i + 1].in /\ words[i] = q[i].name
    BY <1>7, <2>1
  <2>3. t[q[i]].folder /\ q[i + 1].in = t[q[i]].handle /\ q[i].name # ".."
    BY <1>4, <2>1
  <2>4. Key(q[i].in, q[i].name, "") = q[i]
    BY <2>1, <2>3 DEF IsTree
  <2>5. QED
    BY <2>1, <2>2, <2>3, <2>4 DEF Hop, IsFolder
<1> HIDE DEF b
<1>11. Way(t, h, words, b)
  BY <1>8, <1>9, <1>10 DEF Way
<1>12. QED
  BY <1>5, <1>8, <1>9, <1>11 DEF words

\* whereis finds what there is below the folder the shell stands in, and what
\* it prints leads there.
THEOREM WhereisTellsTheTruth == MCSpec => []WhereisTellsTheWay
<1>1. ASSUME CommandInv, path # Garbled, \A k \in DOMAIN tree : k.name # "..", NEW name, NEW ext
      PROVE  /\ {Last(q) : q \in whereis(tree, cwd, name, ext)} =
                  {k \in DOMAIN tree : k.name = name /\ k.ext = ext /\ cwd \in Upwards(tree, k.in)}
             /\ \A q \in whereis(tree, cwd, name, ext) :
                  WalkStrictly(tree, R(path \o Names(Front(q))), Root) = Last(q).in
  <2>1. IsTree(tree) /\ cwd \in Handles(tree) /\ path \in Seq(STRING)
    BY <1>1 DEF CommandInv
  <2>2. PICK at : Way(tree, Root, path, at) /\ at[Len(path)] = cwd
    BY <1>1 DEF CommandInv
  <2>3. whereis(tree, cwd, name, ext) = Hits(tree, cwd, name, ext)
    BY <2>1, WhereisGives
  <2>4. ASSUME NEW q \in Hits(tree, cwd, name, ext)
        PROVE  WalkStrictly(tree, R(path \o Names(Front(q))), Root) = Last(q).in
    <3> DEFINE words == Names(Front(q))
               S == STRING \cup {k.name : k \in DOMAIN tree}
    <3>1. /\ words \in Seq({k.name : k \in DOMAIN tree})
          /\ \E b : Way(tree, cwd, words, b) /\ b[Len(words)] = Last(q).in
      BY <1>1, <2>1, TrailIsWay DEF Hits
    <3> HIDE DEF words
    <3>2. PICK b : Way(tree, cwd, words, b) /\ b[Len(words)] = Last(q).in
      BY <3>1
    <3>3. words \in Seq(S) /\ path \in Seq(S)
      BY <2>1, <3>1, SeqMonotonic
    <3> HIDE DEF S
    <3>4. PICK c : /\ Len(path \o words) \in Nat
                   /\ Way(tree, Root, path \o words, c) /\ c[Len(path \o words)] = b[Len(words)]
      BY <2>2, <3>2, <3>3, WayGoesOn
    <3>5. R(path \o words).words = path \o words /\ Start(R(path \o words), Root) = Root
      BY DEF R, Start
    <3>6. WalkStrictly(tree, R(path \o words), Root) = c[Len(path \o words)]
      BY <2>1, <3>4, <3>5, WayIsFollowed
    <3>7. QED
      BY <3>2, <3>4, <3>6 DEF words
  <2>5. QED
    BY <2>1, <2>3, <2>4, HitsAreAll
<1>2. CommandInv => WhereisTellsTheWay
  BY <1>1 DEF WhereisTellsTheWay
<1>3. QED
  BY <1>2, CommandsInvariance, PTL
=============================================================================
