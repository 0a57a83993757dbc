----------------------------- MODULE MCCommands -----------------------------
(***************************************************************************)
(* The file commands on a small tree, and what a user takes them to do.    *)
(***************************************************************************)
EXTENDS Commands, TLC

VARIABLE before   \* the tree when the command was entered

MCVars == <<commandVars, before>>

-----------------------------------------------------------------------------
(* The inputs: paths of up to two words *)

P(words) == [root |-> FALSE, words |-> words]
R(words) == [root |-> TRUE, words |-> words]
Line(op, r, srcs, dest) == [op |-> op, r |-> r, srcs |-> srcs, dest |-> dest]

MCDotted == ("f.x" :> [name |-> "f", ext |-> "x"]) @@ (".." :> [name |-> ".", ext |-> ""])

d == P(<<"d">>)
e == P(<<"e">>)
f == P(<<"f.x">>)
de == P(<<"d", "e">>)
up == P(<<"..">>)

CdLines == {Line("cd", FALSE, << >>, p) :
              p \in {d, de, up, P(<<"..", "d">>), P(<<"d", "..">>), R(<< >>), R(<<"d">>), R(<<"d", "..">>)}}

MkdirLines == {Line("mkdir", FALSE, << >>, p) : p \in {e, de, P(<<"d", "f">>), P(<<"..", "e">>), R(<<"d">>)}}

RmLines ==
  {Line("rm", TRUE, << >>, p) : p \in {d, e, de, P(<<"f">>), R(<<"d", "e">>), R(<<"e">>)}}
  \cup {Line("rm", FALSE, << >>, p) : p \in {d, f, P(<<"d", "f.x">>), P(<<"..", "f.x">>)}}

CpLines ==
  {Line("cp", FALSE, <<f>>, p) : p \in {d, e, de, P(<<"d", "f.x">>), R(<<"d">>)}}
  \cup {Line("cp", TRUE, <<d>>, p) : p \in {d, e, de, P(<<"e", "f">>), R(<< >>)}}
  \cup {Line("cp", TRUE, <<d, f>>, e), Line("cp", TRUE, <<f, d>>, d), Line("cp", FALSE, <<de>>, e)}

MvLines ==
  {Line("mv", FALSE, <<f>>, p) : p \in {d, e, f}}
  \cup {Line("mv", FALSE, <<d>>, p) : p \in {d, e}}
  \cup {Line("mv", FALSE, <<d, f>>, e)}

MCCommandLines == CdLines \cup MkdirLines \cup RmLines \cup CpLines \cup MvLines

\* A file, and a folder with the same file in it.
MCTrees ==
  {(Key(Root, "f", "x") :> FileNode("text")) @@ (Key(Root, "d", "") :> FolderNode(h))
     @@ (Key(h, "f", "x") :> FileNode("other")) : h \in Folder}

\* More room, for copies of a folder that holds a file and a folder.
new == P(<<"c">>)

MCDottedMore == MCDotted @@ ("g.x" :> [name |-> "g", ext |-> "x"])

MCCopyLines ==
  {Line("cd", FALSE, << >>, p) : p \in {d, up}}
  \cup {Line("mkdir", FALSE, << >>, new), Line("rm", TRUE, << >>, new)}
  \cup {Line("cp", TRUE, srcs, new) : srcs \in {<<d>>, <<d, f>>, <<de>>, <<e>>}}
  \cup {Line("cp", TRUE, <<d>>, d), Line("cp", TRUE, <<de>>, P(<<"c", "e">>))}
  \cup {Line("cp", FALSE, <<f>>, p) : p \in {new, P(<<"g.x">>)}}

MCCopyTrees ==
  {(Key(Root, "f", "x") :> FileNode("text")) @@ (Key(Root, "d", "") :> FolderNode(hg[1]))
     @@ (Key(hg[1], "f", "x") :> FileNode("other")) @@ (Key(hg[1], "e", "") :> FolderNode(hg[2]))
     @@ (Key(hg[2], "f", "x") :> FileNode("third")) : hg \in {x \in Folder \X Folder : x[1] # x[2]}}

FolderSymmetry == Permutations(Folder)

MCInit == CommandInit /\ before = tree

MCNext ==
  /\ CommandNext
  /\ before' = IF todo # << >> /\ todo' # << >> THEN before ELSE tree'

MCSpec == MCInit /\ [][MCNext]_MCVars
-----------------------------------------------------------------------------
\* The type invariant: the disk is a tree of folders under the root, whatever
\* a command does with a cluster that it does not know.
TreeSound == IsTree(tree) /\ cwd \in Handles(tree)

\* The path in the prompt is the way from the root to the folder the shell
\* stands in, whatever was made, copied, moved and removed since, unless a
\* ".." after a name has spoilt it.
PathIsTrue == path # Garbled => WalkStrictly(tree, R(path), Root) = cwd

Names(keys) == [i \in DOMAIN keys |-> keys[i].name]

\* whereis finds every entry of a name below the current folder, and the paths
\* it prints lead there from the root.
WhereisTellsTheWay ==
  path # Garbled /\ (\A k \in DOMAIN tree : k.name # "..") =>
    \A file \in {MCDotted["f.x"], [name |-> "e", ext |-> ""]} :
      LET found == whereis(tree, cwd, file.name, file.ext)
      IN  /\ {Last(q) : q \in found} =
               {k \in DOMAIN tree : k.name = file.name /\ k.ext = file.ext /\ cwd \in Upwards(tree, k.in)}
          /\ \A q \in found :
               WalkStrictly(tree, R(path \o Names(Front(q))), Root) = Last(q).in

Finishes(op) == todo # << >> /\ todo' = << >> /\ command.op = op

\* Paths that all five walks take for the same.
Plain(p) == ~p.root /\ \A i \in DOMAIN p.words : p.words[i] # ".."

\* What is below a folder, as sequences of entries.
Contents(t, from) ==
  LET Label(k) == [name |-> k.name, ext |-> k.ext, node |-> IF t[k].folder THEN "folder" ELSE t[k].content]
      Of[h \in Handles(t)] ==
        {<< >>} \cup UNION {{<<Label(k)>> \o q : q \in IF t[k].folder THEN Of[t[k].handle] ELSE {<< >>}}
                              : k \in EntriesOf(t, h)}
  IN  Of[from]

\* The text may have been lost to another program that got the memory.
Reused(q) == [q EXCEPT ![Len(q)].node = Junk]

\* The entry a plain path names.
Named(t, p) ==
  LET in == WalkStrictly(t, P(Front(p.words)), cwd)
      w == LastWord(p)
  IN  IF is_directorypath_valid(t, p, cwd) \/ ~HasDot(w) THEN Key(in, w, "")
      ELSE Key(in, Dotted[w].name, Dotted[w].ext)

\* Where the copy of a source goes: under the destination, or to a name of its
\* own if that is no folder.
CopyOf(p) ==
  IF is_directorypath_valid(tree', command.dest, cwd)
  THEN [Named(before, p) EXCEPT !.in = path_to_cluster(tree', command.dest, cwd)]
  ELSE Named(tree', command.dest)

\* A destination that cp finds or makes.  One word that names no folder is
\* neither, and the copy goes to some other folder.
Reachable(p) == is_directorypath_valid(before, p, cwd) \/ is_filename(p) \/ Len(p.words) > 1

\* What cp copied, when it refused nothing: every source, and of a folder every
\* file and folder in it at any depth, is where its copy goes, with its text or
\* junk.  Not so when a file is beside a folder of its name.
CopyIsComplete ==
  [][Finishes("cp") /\ ~refused' /\ Plain(command.dest) /\ Reachable(command.dest) =>
       \A i \in DOMAIN command.srcs :
         LET source == Named(before, command.srcs[i])
             copy   == CopyOf(command.srcs[i])
         IN  /\ Plain(command.srcs[i])
             /\ \A k \in Below(tree', source) : IsFolder(tree', k) => Alone(tree', k)
             =>
               IF IsFile(before, source)
               THEN IsFile(tree', copy) /\ tree'[copy].content \in {before[source].content, Junk}
               ELSE /\ IsFolder(tree', copy)
                    /\ \A q \in Contents(before, before[source].handle) :
                         {q, IF q = << >> THEN q ELSE Reused(q)}
                           \cap Contents(tree', tree'[copy].handle) # {}]_MCVars

\* rm removes the entry that its path names with all that is below it, and
\* nothing else.  Not so when the path's folder is missing, which is passed
\* over, and when another entry has the folder's name.
RmRemovesWhatItNames ==
  [][Finishes("rm") /\ Plain(command.dest) =>
       LET k == Named(before, command.dest)
       IN  k.in # Nowhere /\ Alone(before, k) =>
             tree' = [j \in DOMAIN before \ Below(before, k) |-> before[j]]]_MCVars

\* "copy as cp above, then deletef every request that succeeded" (the comment
\* in mv, translated): a source that was not copied is still there.
MvDeletesOnlyCopied ==
  [][Finishes("mv") /\ refused' /\ Len(command.srcs) = 1 /\ Plain(command.srcs[1]) =>
       Named(before, command.srcs[1]) \in DOMAIN tree']_MCVars
=============================================================================
