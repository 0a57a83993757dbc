------------------------------ MODULE FileTree ------------------------------
(***************************************************************************)
(* What a file system promises: a tree of names.  A file keeps what was    *)
(* written into it until it, or a folder above it, is removed.             *)
(***************************************************************************)
EXTENDS Naturals

CONSTANTS
  Folder,          \* the handles by which folders are known
  Root,
  Key,             \* [in : Folder, name, ext]
  Size,
  Written(_, _)    \* what a file of a key and a size holds

VARIABLE tree      \* [the keys in use -> nodes]

FileNodes(k) == {[folder |-> FALSE, content |-> Written(k, n)] : n \in Size}

FolderNodes == [folder : {TRUE}, handle : Folder]

Handles(t) == {t[k].handle : k \in {j \in DOMAIN t : t[j].folder}}

\* A set that holds with a folder everything in it.
Closed(t, S) == \A j \in S : t[j].folder => \A i \in DOMAIN t : i.in = t[j].handle => i \in S

\* A key with everything below it.
Below(t, k) == {j \in DOMAIN t : \A S \in SUBSET DOMAIN t : k \in S /\ Closed(t, S) => j \in S}

TreeInit == tree = <<>>

Create(k, node) ==
  /\ k \in Key \ DOMAIN tree
  /\ k.in \in Handles(tree) \cup {Root}
  /\ \/ node \in FileNodes(k)
     \/ node \in FolderNodes /\ node.handle \notin Handles(tree) \cup {Root}
  /\ tree' = [j \in DOMAIN tree \cup {k} |-> IF j = k THEN node ELSE tree[j]]

Remove(k) ==
  /\ k \in DOMAIN tree \ DOMAIN tree'
  /\ tree' = [j \in DOMAIN tree \ Below(tree, k) |-> tree[j]]

TreeNext ==
  \/ \E k \in DOMAIN tree' : Create(k, tree'[k])
  \/ \E k \in DOMAIN tree : Remove(k)

TreeSpec == TreeInit /\ [][TreeNext]_tree
=============================================================================
