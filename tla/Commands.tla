------------------------------ MODULE Commands ------------------------------
(***************************************************************************)
(* The shell's file commands (src/shell/lib-shell/commands.c): cd, mkdir,  *)
(* rm, cp, mv and whereis, one system call at a time.                      *)
(*                                                                         *)
(* writef and deletef change the tree as FileTree says, which Fat32 is     *)
(* shown to do.  A command's checks are made when it is entered, what is   *)
(* left of it is a list of jobs.  The folder the shell stands in is not    *)
(* removed, and the model ends when no handle is free.                     *)
(***************************************************************************)
EXTENDS Paths, FiniteSets

CONSTANTS
  CommandLines,   \* bound: what the user enters
  Trees,          \* what the disk image holds
  Junk,           \* contents of memory that was used again
  None,           \* no command
  Garbled         \* a path string that is no path any more

VARIABLES
  tree,      \* what is on the disk
  cwd,       \* sh.dir.cluster_number
  path,      \* sh.dir.path: the words after "/root"
  command,   \* the command line being executed, [op, r, srcs, dest]
  todo,      \* its jobs
  refused,   \* it had to tell the user that something was not done
  full       \* the disk is: the model ends

\* What parser_parse makes of a path.
Path == [root : BOOLEAN, words : Seq(STRING)]

\* Every entry lies in a folder under the root, and folders differ.
IsTree(t) ==
  /\ t = [k \in DOMAIN t |-> t[k]] /\ IsFiniteSet(DOMAIN t)
  /\ \A k \in DOMAIN t :
       /\ k = Key(k.in, k.name, k.ext) /\ t[k].folder \in BOOLEAN
       /\ t[k].folder => k.ext = "" /\ t[k].handle \in Folder
       /\ k.in \in Handles(t) /\ Root \in Upwards(t, k.in)
  /\ \A j, k \in DOMAIN t :
       t[j].folder /\ t[k].folder /\ t[j].handle = t[k].handle => j = k

ASSUME CommandsAssumption ==
  /\ CommandLines \subseteq [op : {"cd", "cp", "mkdir", "mv", "rm"}, r : BOOLEAN,
                             srcs : Seq(Path), dest : Path]
  /\ \A t \in Trees : IsTree(t)

commandVars == <<tree, cwd, path, command, todo, refused, full>>

FolderNode(h) == [folder |-> TRUE, handle |-> h]
FileNode(c) == [folder |-> FALSE, content |-> c]

Put(t, k, node) == [j \in DOMAIN t \cup {k} |-> IF j = k THEN node ELSE t[j]]

\* A key with everything below it.
Below(t, k) ==
  {k} \cup IF IsFolder(t, k) THEN {j \in DOMAIN t : t[k].handle \in Upwards(t, j.in)} ELSE {}

\* Faulty: the parent is taken to be a folder.
CanWriteAnywhere(t, k) == k \notin DOMAIN t

\* Otherwise writef returns 1 or 2.
CanWrite(t, k) == k.in \in Handles(t) /\ k \notin DOMAIN t

FreeHandles(t) == Folder \ Handles(t)

\* The entries that deletef may mean: for a folder it looks at the name only.
Meant(t, job) ==
  {k \in EntriesOf(t, job.key.in) : k.name = job.key.name /\ (job.folder \/ k.ext = job.key.ext)}
-----------------------------------------------------------------------------
(* Jobs *)

MakeJob(at, names) == [do |-> "make", at |-> at, names |-> names]
CopyJob(key, folder, named) == [do |-> "copy", key |-> key, folder |-> folder, named |-> named]
FileJob(from, to) == [do |-> "file", from |-> from, to |-> to]
FolderJob(from, into) == [do |-> "folder", from |-> from, into |-> into]
DeleteJob(key, folder) == [do |-> "delete", key |-> key, folder |-> folder]

Job == Head(todo)
Does(what) == ~full /\ todo # << >> /\ Job.do = what

Proceeds(jobs) == todo' = jobs \o Tail(todo)

Refuses == refused' = TRUE /\ UNCHANGED <<tree, full>>

FindsNoRoom == full' = TRUE /\ UNCHANGED <<tree, todo, refused>>

\* Between jobs.
Stays ==
  /\ command' = IF todo' = << >> THEN None ELSE command
  /\ UNCHANGED <<cwd, path>>

\* The rest of mkdir and of copy_create_folders: a folder, and the next one in
\* it.  It is looked up again, and is anywhere when it could not be made, which
\* nobody is told.
MakeFolder ==
  /\ Does("make")
  /\ LET k == Key(Job.at, Head(Job.names), "")
         Goes(t) == \E h \in get_info(t, k) :
                      Proceeds(IF Len(Job.names) = 1 THEN << >> ELSE <<MakeJob(h, Tail(Job.names))>>)
     IN  CASE k.name = ".." ->
                todo' = << >> /\ Refuses
           [] k.name # ".." /\ ~CanWrite(tree, k) ->
                Goes(tree) /\ UNCHANGED <<tree, refused, full>>
           [] OTHER ->
                IF FreeHandles(tree) = {}
                THEN FindsNoRoom
                ELSE \E h \in FreeHandles(tree) :
                       LET t == Put(tree, k, FolderNode(h))
                       IN  tree' = t /\ Goes(t) /\ UNCHANGED <<refused, full>>
  /\ Stays

\* copy1File: the memory is given back before it is written to the disk, and
\* may be in use again by then.
copy1File ==
  /\ Does("file")
  /\ IF CanWrite(tree, Job.to)
     THEN \E c \in {tree[Job.from].content, Junk} :
            tree' = Put(tree, Job.to, FileNode(c)) /\ UNCHANGED refused
     ELSE refused' = TRUE /\ UNCHANGED tree
  /\ Proceeds(<< >>)
  /\ Stays /\ UNCHANGED full

\* Faulty: what is in the folders of the folder is not copied.
ShallowJobs(t, from, into, h) ==
  {FileJob(k, Key(h, k.name, k.ext)) : k \in {j \in EntriesOf(t, t[from].handle) : IsFile(t, j)}}

\* What copy1Folder calls for the entries of a folder, which it has read after
\* it made the copy, in the order of their places.
EntryJobs(t, from, into, h) ==
  {IF t[k].folder THEN FolderJob(k, Key(into, from.name, "")) ELSE FileJob(k, Key(h, k.name, k.ext))
     : k \in IF IsFolder(t, from) THEN EntriesOf(t, t[from].handle) ELSE {}}

\* readf_dir looks for the name only, as deletef does, and reads nothing when
\* it comes upon a file of that name first.
Alone(t, k) == \A j \in EntriesOf(t, k.in) : j.name = k.name => j = k

Read(jobs, t, from) == {jobs} \cup IF Alone(t, from) THEN {} ELSE {{}}

copy1Folder ==
  /\ Does("folder")
  /\ \E into \in get_info(tree, Job.into) :
       LET k == Key(into, Job.from.name, "")
       IN  IF ~CanWrite(tree, k)
           THEN Refuses /\ Proceeds(<< >>)
           ELSE IF FreeHandles(tree) = {}
           THEN FindsNoRoom
           ELSE \E h \in FreeHandles(tree) :
                  LET t == Put(tree, k, FolderNode(h))
                  IN  /\ tree' = t
                      /\ \E jobs \in Read(EntryJobs(t, Job.from, into, h), t, Job.from) :
                           \E inOrder \in SetToSeqs(jobs) : Proceeds(inOrder)
                      /\ UNCHANGED <<refused, full>>
  /\ Stays

\* deletef; one entry of the name, with what is below it.
Delete ==
  /\ Does("delete")
  /\ \/ Meant(tree, Job) = {} /\ UNCHANGED tree
     \/ \E k \in Meant(tree, Job) :
          tree' = [j \in DOMAIN tree \ Below(tree, k) |-> tree[j]]
  /\ Proceeds(<< >>)
  /\ Stays /\ UNCHANGED <<refused, full>>
-----------------------------------------------------------------------------
(* cp and mv *)

\* What keeps a folder from being copied into itself; cp with several sources
\* does not compare the two.  What two unknown clusters are is not known.
IntoItself(s, d, dest) ==
  \/ check_contain(tree, dest.in, s)
  \/ s = d /\ (command.op = "mv" \/ Len(command.srcs) = 1)

\* One source, when its turn comes: where the destination is, is found out
\* again.
CopySource ==
  /\ Does("copy")
  /\ IF Job.folder
     THEN LET dest == path_to_dir_request(tree, command.dest, cwd)
          IN  \E s \in get_info(tree, Job.key), d \in get_info(tree, dest) :
                \/ /\ IntoItself(s, d, dest)
                   /\ Refuses /\ Proceeds(<< >>)
                \/ /\ ~IntoItself(s, d, dest) \/ s = Nowhere
                   /\ Proceeds(<<FolderJob(Job.key, dest)>>)
                   /\ UNCHANGED <<tree, refused, full>>
     ELSE /\ Proceeds(<<FileJob(Job.key,
                          IF Job.named
                          THEN path_to_file_request(tree, command.dest, cwd)
                          ELSE Key(path_to_cluster(tree, command.dest, cwd), Job.key.name, Job.key.ext))>>)
          /\ UNCHANGED <<tree, refused, full>>
  /\ Stays

IsSource(p) == is_filepath_valid(tree, p, cwd) \/ is_directorypath_valid(tree, p, cwd)

\* Is it a file, or else a folder?
Source(p, named) ==
  IF is_filepath_valid(tree, p, cwd)
  THEN CopyJob(path_to_file_request(tree, p, cwd), FALSE, named)
  ELSE CopyJob(path_to_dir_request(tree, p, cwd), TRUE, named)

Sources(c, named) == [i \in DOMAIN c.srcs |-> Source(c.srcs[i], named)]

Deletes(jobs) == [i \in DOMAIN jobs |-> DeleteJob(jobs[i].key, jobs[i].folder)]

\* The first loop of copy_create_folders, along the words before the last
\* one; the words from the first that is missing on are made, all but the
\* last if that is the name of the file.
copy_create_folders(p, named) ==
  LET on == Front(p.words)
      Walked(n) == [root |-> p.root, words |-> SubSeq(on, 1, n)]
      n == CHOOSE n \in 0 .. Len(on) :
             /\ is_directorypath_valid(tree, Walked(n), cwd)
             /\ n = Len(on) \/ ~is_directorypath_valid(tree, Walked(n + 1), cwd)
      names == SubSeq(p.words, n + 1, Len(p.words) - named)
  IN  IF PathLength(p) <= 1 \/ names = << >> THEN << >>
      ELSE <<MakeJob(WalkStrictly(tree, Walked(n), cwd), names)>>

\* The jobs of cp when the checks before them succeed.  One source may go to a
\* destination that is not there yet: a folder is made for it, and a file may
\* have a name of its own.
CopyJobs(c) ==
  LET isdir == is_directorypath_valid(tree, c.dest, cwd)
      isfile == is_filepath_valid(tree, c.dest, cwd)
      hasDir == \E i \in DOMAIN c.srcs : Source(c.srcs[i], FALSE).folder
      renames == is_filename(c.dest)
  IN  CASE isfile -> << >>
        [] ~isfile /\ isdir -> Sources(c, FALSE)
        [] ~isfile /\ ~isdir /\ Len(c.srcs) > 1 -> << >>
        [] OTHER ->
             CASE hasDir /\ renames -> << >>
               [] hasDir /\ ~renames -> copy_create_folders(c.dest, 0) \o Sources(c, FALSE)
               [] ~hasDir /\ renames -> copy_create_folders(c.dest, 1) \o Sources(c, TRUE)
               [] OTHER -> copy_create_folders(c.dest, 0) \o Sources(c, FALSE)

CpJobs(c) ==
  IF /\ \A i \in DOMAIN c.srcs : IsSource(c.srcs[i])
     /\ c.r => c.srcs # << >>
     /\ c.r \/ \A i \in DOMAIN c.srcs : ~Source(c.srcs[i], FALSE).folder
  THEN CopyJobs(c)
  ELSE << >>

\* As cp -r, and every source is deleted.  A file is not given another name:
\* a destination with a dot is refused, and one without, once its folders are
\* made, is a request without a name.
MvJobs(c) ==
  LET missing == ~is_directorypath_valid(tree, c.dest, cwd) /\ ~is_filepath_valid(tree, c.dest, cwd)
      copies == IF missing /\ is_filename(c.dest) THEN << >>
                ELSE IF missing /\ Len(c.srcs) = 1
                THEN copy_create_folders(c.dest, 0) \o Sources(c, TRUE)
                ELSE CopyJobs(c)
  IN  IF copies = << >> \/ \E i \in DOMAIN c.srcs : ~IsSource(c.srcs[i])
      THEN << >>
      ELSE copies \o Deletes(Sources(c, FALSE))
-----------------------------------------------------------------------------
(* rm, mkdir and cd *)

RmJobs(c) ==
  IF is_directorypath_valid(tree, c.dest, cwd)
  THEN IF c.r THEN <<DeleteJob(path_to_dir_request(tree, c.dest, cwd), TRUE)>> ELSE << >>
  ELSE IF is_filepath_valid(tree, c.dest, cwd)
  THEN <<DeleteJob(path_to_file_request(tree, c.dest, cwd), FALSE)>>
  ELSE << >>

\* How far mkdir gets along the folders that are there.  It takes the cluster
\* of the first entry for the parent, and cluster 2 for the root.
MkdirWalk(p) ==
  LET First(h) == {Nowhere} \cup {tree[k].handle : k \in {j \in EntriesOf(tree, h) : tree[j].folder}}
      Step(S, w) ==
        UNION {IF w = ".." /\ s.left = << >> THEN {[at |-> h, left |-> << >>] : h \in First(s.at)}
               ELSE IF s.left = << >> /\ IsFolder(tree, Key(s.at, w, ""))
               THEN {[at |-> tree[Key(s.at, w, "")].handle, left |-> << >>]}
               ELSE {[at |-> s.at, left |-> Append(s.left, w)]} : s \in S}
  IN  FoldLeft(Step, {[at |-> IF p.root THEN Nowhere ELSE cwd, left |-> << >>]}, p.words)

\* Faulty: what is left of the old path stays where the new one is shorter.
PathAfterLonger(p) == IF p.root THEN p.words ELSE path \o p.words

\* What cd makes of the path string.  After a name, and after "root", it looks
\* for the folder above in the old string, at the place it is at in the new.
PathAfter(p) ==
  LET ups == {i \in DOMAIN p.words : p.words[i] = ".."}
      leading == {i \in ups : 1 .. i \subseteq ups}
      n == Cardinality(leading)
      names == SubSeq(p.words, n + 1, Len(p.words))
  IN  IF p.root
      THEN IF ups = {} THEN p.words ELSE IF p.words = <<"..">> THEN << >> ELSE Garbled
      ELSE IF path = Garbled \/ ups # leading THEN Garbled
      ELSE SubSeq(path, 1, Len(path) - n) \o names

\* The string of the path grows with its names; its length is not modelled.
cd(c) ==
  /\ is_directorypath_valid(tree, c.dest, cwd)
  /\ cwd' = path_to_cluster(tree, c.dest, cwd)
  /\ path' = PathAfter(c.dest)
-----------------------------------------------------------------------------
(* The command line *)

\* Bound: the shell does not stand in what is removed.
Leaves(jobs) ==
  \A i \in DOMAIN jobs :
    jobs[i].do = "delete" =>
      \A k \in Meant(tree, jobs[i]) : IsFolder(tree, k) => tree[k].handle \notin Upwards(tree, cwd)

Begin(c, jobs) ==
  /\ Leaves(jobs)
  /\ jobs # << >>
  /\ todo' = jobs
  /\ command' = c
  /\ refused' = FALSE
  /\ UNCHANGED <<tree, cwd, path, full>>

\* shell_evaluate, for the commands that work on files.
Enter(c) ==
  /\ todo = << >> /\ ~full
  /\ \/ c.op = "cp" /\ Begin(c, CpJobs(c))
     \/ c.op = "mv" /\ Begin(c, MvJobs(c))
     \/ c.op = "rm" /\ Begin(c, RmJobs(c))
     \/ c.op = "mkdir" /\ \E s \in MkdirWalk(c.dest) :
                            s.left # << >> /\ Begin(c, <<MakeJob(s.at, s.left)>>)
     \/ c.op = "cd" /\ cd(c) /\ UNCHANGED <<tree, command, todo, refused, full>>

\* Faulty: the path of the folder is handed on without the folder's name.
WhereisFlat(t, from, name, ext) ==
  LET Found[h \in Handles(t)] ==
        {<<k>> : k \in {j \in EntriesOf(t, h) : j.name = name /\ j.ext = ext}}
        \cup UNION {Found[t[k].handle] : k \in {j \in EntriesOf(t, h) : t[j].folder}}
  IN  Found[from]

\* whereis(current_cluster, filename, path): what it prints after the path, as
\* the entries on the way.
whereis(t, from, name, ext) ==
  LET Found[h \in Handles(t)] ==
        {<<k>> : k \in {j \in EntriesOf(t, h) : j.name = name /\ j.ext = ext}}
        \cup UNION {{<<k>> \o found : found \in Found[t[k].handle]}
                      : k \in {j \in EntriesOf(t, h) : t[j].folder}}
  IN  Found[from]

\* sh.dir at the start; the disk as it was made.
CommandInit ==
  /\ tree \in Trees
  /\ cwd = Root /\ path = << >>
  /\ command = None /\ todo = << >>
  /\ refused = FALSE /\ full = FALSE

CommandNext ==
  \/ \E c \in CommandLines : Enter(c)
  \/ MakeFolder \/ CopySource \/ copy1File \/ copy1Folder \/ Delete

CommandSpec == CommandInit /\ [][CommandNext]_commandVars
=============================================================================
