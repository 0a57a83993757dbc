------------------------------- MODULE Paths -------------------------------
(***************************************************************************)
(* How the shell finds its way through the folders                         *)
(* (src/shell/lib-shell/commands.util.c): five walks along a path that do  *)
(* not agree on "..", on "root" and on what is missing.                    *)
(*                                                                         *)
(* A path is what parser_parse makes of it, [root |-> it begins with       *)
(* "root", words |-> the rest].  The tree is FileTree's: a function from   *)
(* the keys in use to folders, with their handles (first clusters), and    *)
(* files, with their contents.                                             *)
(***************************************************************************)
EXTENDS Integers, SequencesExt

CONSTANTS
  Folder,   \* the handles of folders but the root
  Root,     \* ROOT_CLUSTER_NUMBER
  Nowhere,  \* a cluster that is no folder's
  Dotted    \* the words with a dot, split at the last one: [name, ext]

ASSUME PathsAssumption ==
  /\ Root \notin Folder /\ Nowhere \notin Folder \cup {Root}
  /\ \A w \in DOMAIN Dotted : {"name", "ext"} \subseteq DOMAIN Dotted[w]

Key(in, name, ext) == [in |-> in, name |-> name, ext |-> ext]

IsFolder(t, k) == k \in DOMAIN t /\ t[k].folder
IsFile(t, k) == k \in DOMAIN t /\ ~t[k].folder

Handles(t) == {Root} \cup {t[k].handle : k \in {j \in DOMAIN t : t[j].folder}}

EntriesOf(t, h) == {k \in DOMAIN t : k.in = h}

\* parent_base_cluster, which the folder itself keeps.
ParentOf(t, h) ==
  IF h = Root THEN Root ELSE (CHOOSE k \in DOMAIN t : IsFolder(t, k) /\ t[k].handle = h).in

\* The scan of get_dir_info for a folder of a name.  A folder has no
\* extension, however its name looks.
SubfolderOr(t, h, w, otherwise) ==
  IF IsFolder(t, Key(h, w, "")) THEN t[Key(h, w, "")].handle ELSE otherwise

Start(p, cwd) == IF p.root THEN Root ELSE cwd
PathLength(p) == Len(p.words) + (IF p.root THEN 1 ELSE 0)
LastWord(p) == IF p.words = << >> THEN "root" ELSE Last(p.words)

\* A word that may name a file; ".." may.
HasDot(w) == w \in DOMAIN Dotted

\* A dot anywhere in the path will do.
is_filename(p) == \E i \in DOMAIN p.words : HasDot(p.words[i])

\* A loop over the words of a path: what one round after the other makes of it.
Walk(Round(_, _), from, words) ==
  LET at[n \in 0 .. Len(words)] == IF n = 0 THEN from ELSE Round(at[n - 1], words[n])
  IN  at[Len(words)]

\* The walk of is_directorypath_valid: Nowhere when a word is missing.
WalkStrictly(t, p, cwd) ==
  LET Step(h, w) == CASE h = Nowhere              -> Nowhere
                      [] h # Nowhere /\ w = ".."  -> ParentOf(t, h)
                      [] OTHER                    -> SubfolderOr(t, h, w, Nowhere)
  IN  Walk(Step, Start(p, cwd), p.words)

is_directorypath_valid(t, p, cwd) == WalkStrictly(t, p, cwd) # Nowhere

\* The walk of path_to_cluster, which passes over a word that is missing.
path_to_cluster(t, p, cwd) ==
  LET Step(h, w) == IF w = ".." THEN ParentOf(t, h) ELSE SubfolderOr(t, h, w, h)
  IN  Walk(Step, Start(p, cwd), p.words)

\* The walk to a file's folder, which passes over ".." as well.
WalkBlindly(t, words, from) ==
  LET Step(h, w) == SubfolderOr(t, h, w, h)
  IN  Walk(Step, from, words)

\* isFound after the walk: the last folder of the path was there.  A path of
\* two words is searched for all the same.
Searched(t, p, cwd) ==
  LET on == Front(p.words)
  IN  \/ PathLength(p) <= 2
      \/ /\ on # << >>
         /\ IsFolder(t, Key(WalkBlindly(t, Front(on), Start(p, cwd)), Last(on), ""))

FileKey(t, p, cwd) ==
  LET file == Dotted[LastWord(p)]
  IN  Key(WalkBlindly(t, Front(p.words), Start(p, cwd)), file.name, file.ext)

is_filepath_valid(t, p, cwd) ==
  /\ HasDot(LastWord(p))
  /\ Searched(t, p, cwd)
  /\ IsFile(t, FileKey(t, p, cwd))

\* A word without a dot makes an empty request, whose parent is no folder.
path_to_file_request(t, p, cwd) ==
  IF HasDot(LastWord(p)) THEN FileKey(t, p, cwd) ELSE Key(Nowhere, "", "")

\* Faulty: the parent follows the walk to the end.
DirRequestOfItself(t, p, cwd) ==
  Key(WalkBlindly(t, p.words, Start(p, cwd)), LastWord(p), "")

\* The parent is the last folder that the walk found before the last word; if
\* there is none it is the current folder, for a path from the root as well.
path_to_dir_request(t, p, cwd) ==
  LET Step(s, w) ==
        IF IsFolder(t, Key(s.at, w, ""))
        THEN [at |-> t[Key(s.at, w, "")].handle, parent |-> t[Key(s.at, w, "")].handle]
        ELSE s
      on == IF p.words = << >> THEN << >> ELSE Front(p.words)
  IN  Key(Walk(Step, [at |-> Start(p, cwd), parent |-> cwd], on).parent, LastWord(p), "")

\* get_info gives the entry's cluster, and what is on the stack when there is
\* no such entry: any cluster.
get_info(t, k) ==
  CASE IsFolder(t, k) -> {t[k].handle}
    [] IsFile(t, k)   -> {Nowhere}
    [] OTHER          -> Handles(t) \cup {Nowhere}

\* A folder and those it is in: what every set holds that holds the folder and
\* with each one the one above it.
Climbing(t, S) == \A g \in S : ParentOf(t, g) \in S

Upwards(t, h) ==
  {g \in Handles(t) : \A S \in SUBSET Handles(t) : h \in S /\ Climbing(t, S) => g \in S}

\* Is the one folder in the other, or the same?  The root is in nothing.
check_contain(t, child, parent) ==
  /\ child # Root
  /\ parent = Root \/ parent \in Upwards(t, child)
=============================================================================
