# A verification of Basic-Multitasking-OS

TLA+ specifications of the kernel in `src/`, with the TLC configurations that
model-check them on small machines and theorems about them that TLAPS proves
for machines of any size.

## The system

A 32-bit teaching kernel. It boots, starts a shell and a clock program, and
from then on its own code is a loop that collects terminated processes; all
else happens in system calls (`int 0x30`) and in interrupts. One CPU; interrupt
gates run with interrupts off.

| Component | Source | State it keeps | Operations | What makes it correct |
|---|---|---|---|---|
| Process management | `process/process.c`, `context-switch.s` | process table, circular list through `next_pid`/`previous_pid`, `current_process`, `last_process_pid` | create, terminate, clean, scan, schedule, switch, list | the list is one circle of the live slots; states agree with it; nobody starves; the dead are collected, and never revived |
| Page frames | `memory/paging.c`, `memory_initialize` | map of used frames, free counter, a page directory per slot | check, allocate, free, clone an entry, update | one owner per frame, none lost, the stack in use always mapped |
| Interrupt path | `cpu/interrupt.c`, `intsetup.s`, `idt.c`, `tss.esp0` | in-service bit of the timer, handler tables | dispatch, acknowledge | the timer never stays unacknowledged for good |
| Timer | `cpu/pit.c` | `tick` | tick, `sleep` | each tick reaches the scheduler |
| Window manager | `lib/window_manager.c`, `framebuffer_set` | 64 ids, stack, records of windows, rear buffers | register, update, close, clean | the screen is the pile of windows seen from above; ids, stack and owners are one to one |
| System calls | `syscall/syscall.c` | handler table | one per call | the right handler, always acknowledged |
| Kernel heap | `memory/memory_manager.c` | headers in the heap, `last_alloc`, `dynamic_pointers` | `kmalloc`, `krealloc`, `kfree` | blocks never overlap; what is freed can be used again |
| File system | `filesystem/fat32.c` | allocation table, directory tables with sizes and access times | write, read, delete, load, directory reads | chains are disjoint, every entry has its chain, sizes add up |
| Disk | `drivers/disk.c` | device | block read and write | — |
| Keyboard | `drivers/keyboard.c` | one character, caps, shift | interrupt, read | no character is read twice, modifiers follow the keys |
| CMOS clock | `drivers/cmos.c` | device | read date and time | the fields belong to one instant |
| GDT, loader | `cpu/gdt.c`, `kernel_loader.s` | constant tables, `tss` | install | — |
| Shell terminal | `shell/shell.c`, `lib/stdio.c`, `lib/iostream.c` | the window's characters and cursor, line buffer, history, pager | edit, recall, enter, page through a listing | the line run is the line shown; the buffer holds it |
| Shell commands | `shell/lib-shell/` | current folder and its path, parsed words | `cd`, `mkdir`, `rm`, `cp`, `mv`, `whereis` | a copy is complete; a removal removes what was named; the prompt's path is true |
| Clock, bouncing box | `clock/`, `bouncy/` | one window each | draw, wait | — |
| Host tools | `other/` | disk image | insert files | — |

How they interact: programs call the kernel only through system calls; the
keyboard and timer interrupts call their drivers; `process_schedule` is called
by the timer interrupt and leaves the handler on another process's stack;
`process_create_user_proc` calls the frame manager and the file system
(`load`); `process_clean` calls the frame manager and the window manager;
window buffers come from the heap, which every address space maps; the shell
polls the keyboard driver and works on the file system, a call at a time.

What is hard: the cleaning loop reads process states with interrupts on; a
creation and a switch change page tables under the stack they run on; the
timer is acknowledged by whichever process the switch resumes, or by nobody
when it is new; frames, slots, pids and window ids are all reused; saved
backgrounds of windows are only right if every hide and show nests; the shell
keeps the line being edited twice, on its window and in its buffer, and finds
its way through folders by five walks that differ. The list
with its lines is under `hazards` in `PROJECT.json`.

## The modules

| Module | What it is |
|---|---|
| `Paging` | the frame manager: operators and actions on the frame map, the counter and the directories |
| `Process` | extends `Paging`: process management with the CPU state it drives; `Spec` |
| `ProcessProps` | the type invariant, safety, action and liveness properties, fairness, the refinement mapping to `RoundRobin` |
| `ProcessInv` | the inductive invariant: `IInv`, and for the list `OneRing` and `PassedOverDead` |
| `RoundRobin` | abstract: a queue with the kernel first, newcomers last, the dead skipped |
| `WindowManager` | the window manager with the screen it paints; `WinSpec` |
| `Desktop` | abstract: a pile of windows and the screen as the pile seen from above |
| `MCWindows` | for TLC: three windows, properties, the refinement mapping to `Desktop` |
| `Heap` | the kernel heap over the bytes of its memory, with the callers that hold blocks; `HeapSpec` |
| `Store` | abstract: the blocks in use and their bytes |
| `MCHeap` | for TLC: properties of the heap, the refinement mapping to `Store` |
| `Fat32` | the file system, disk write by disk write; `FsSpec` |
| `FileTree` | abstract: a tree of names whose files keep what was written |
| `MCFat32` | for TLC: properties of the file system, what a disk reads as, the refinement of `FileTree` |
| `Keyboard` | the keyboard's interrupt, its tables and its one character |
| `Shell` | extends `Keyboard`: the shell's terminal, key by key; `ShellSpec` |
| `CommandLine` | abstract: the line a user edits, and the lines entered before |
| `MCShell` | for TLC: a window of six cells, properties, the refinement mapping to `CommandLine` |
| `Paths` | the walks along a path, as operators on the tree `FileTree` promises |
| `Commands` | extends `Paths`: the file commands, a system call at a time; `CommandSpec` |
| `MCCommands` | for TLC: a small tree, command lines, and what a user takes the commands to do |
| `Kernel` | composes `Process` and `WindowManager` (extends both) |
| `MCKernel` | for TLC: the composition under fairness, with windows without pixels |
| `Induction` | lemmas: induction, recursive functions and sequences in a form the provers can use |
| `Process_proofs` | theorems about processes, frames, address spaces, the timer, the list and the turns of the processes |
| `Heap_proofs` | theorems about the heap, and that it is a `Store` |
| `Windows_proofs` | theorems about the window manager, and that it shows the pile of `Desktop` |
| `Kernel_proofs` | theorems about the composition |
| `Shell_proofs` | theorems about the shell, and that it implements `CommandLine` |
| `Fat32_proofs` | theorems about chains, directories, entries and reads of the file system, and that it implements `FileTree` |
| `Commands_proofs` | theorems about the tree of folders, the walks along paths, `cd`, `whereis` and `rm` |

### Process and Paging

Variables carry the names of the source: `state`, `frame_amount`,
`virt_addr_used`, `previous_pid`, `next_pid` are the fields of
`process_array`; `page_frame_map`, `free_page_frame_count` and `page_dir` those
of the frame manager; a page directory is a function from page index to the
frame in `lower_address` (flags other than the frame are left out; an entry
never written reads as frame 0, as in the zeroed table). The machine is `cr3`
(the loaded directory), `stack` (whose kernel stack the CPU is on), `esp0`,
`fresh` (contexts that start at `restore_context`) and `irq0` (the timer's
in-service bit). `kpc` with the `job_` variables is the position in a section
that runs with interrupts off. Only at `kpc = "run"` may an interrupt or a
system call come. A section is split wherever page tables, frames, the list or
the stack change, so that the invariants speak of every point between.

| Code | Actions |
|---|---|
| `process_create_user_proc` | `CreateRefuse` \| `CreateAccept`, `CreateDirectory`, `CreatePage` (once a page), `CreateLink`, `CreateLoad` |
| `process_terminate`, `process_terminate_current` | `Stop`, `Exit` |
| other system calls | `OtherSyscall` (what is left of them is the acknowledgement) |
| `process_clean_scan` | `ScanLook`, with interrupts on |
| `process_clean` | `CleanBegin`, `CleanPage` (once a page), `CleanUnlink`, in `Kernel` with the windows |
| `pit_isr`, `process_schedule`, `process_switch` | `Timer`, `PickSkip`, `PickSame`, `Switch` |
| `switch_context`, `restore_context` | `SwitchContext` |

Details that shaped the model: `paging_dir_update` does nothing when the
physical frame is marked used, so it works before the mark in allocation and
never works in freeing, where it is asked for frame 0: although the comment at
`paging.c:104` says the page is removed from the directory, its entry stays.
`FramesOwnedOnce` and `AddressSpace` show why that is harmless: a slot's
directory is overwritten before it is loaded again, and no entry is freed twice.
`process_switch` copies the mapping of the old stack and never removes it. A
process resumed by `switch_context` returns into its own interrupt handler and
acknowledges the timer there; a new one goes through `restore_context` to user
mode, and the timer stays unacknowledged until that process makes its first
system call, because `main_interrupt_handler` acknowledges after a system call
too. The two calls at boot come from kernel code and acknowledge nothing. The
`sti` at the end of `process_create_user_proc` and `process_generate_list`
comes before the acknowledgement of the call they serve; a tick in that window
is delivered on the same stack and finds the same state as one right after the
acknowledgement, so the two are one step here.

A dispatched process can be killed by its pid, whether or not the pid is still
in use, but not with pid 0: the shell refuses that, and no other program kills.
A pid of `MAX_PROCESS` or more, which neither the shell nor `process_terminate`
refuses, reaches behind `process_array`, and is left out.
Executable sizes are sizes of files, far below the point where the 32-bit sum
of `process_create_user_proc` wraps (`ProcessAssumption`). The contents of the
pages, names and register contexts are left out.

### WindowManager

`winmgr` holds the arrays of the source: `windows` (by id: whose buffer, pid,
place), `windows_exist`, the stack `ids` with `top`, plus the screen buffer and
each window's rear buffer. A pixel is the window it was painted from: whose
pixel is on top is all that the properties need. `Show` and `Hide` clip at the
edges of the screen as the loops do. `StackRemove` searches the whole array
like the code, entries above the top included, and `CleanWindows` is the loop
with its growing index over a stack that shrinks. A register with all ids in
use goes on with id 255 and is recorded in `stray`; what the stray write hits
is left out.

Programs may register, update (at their place or to the top) and close their
windows in any order, but not twice and not after closing, which the header
they use warns against. `registered` is what the programs know: it loses the
windows of a process with the process, whatever the manager has closed by then.
Raising a window also clears the `active` flags of the others, through addresses
of other programs in whatever directory is loaded; programs' memory is not
modelled, and any program may ask for either kind of update at any time.

### Heap

`heap.memory` is the memory from `heap_start` on. A header is `HEADER` bytes
long and stands at its first address; a byte is what it holds as data together
with what reading a header there would give, because the list of blocks is
nothing but the sizes found in memory. `Fill` lets the holder of a block write
bytes that would read as headers, so a search that strayed into a block would be
seen. The operators `Allocated`, `Freed`, `Reallocated` follow the functions;
a system call runs with interrupts off, so a call is one step. `Exhaust` is
`int $4`, whose handler halts the machine. The callers free a pointer once, as
C asks of them, and in any order; whether the shell keeps to that is a matter
of the shell.

### Fat32

`disk` holds the clusters, `fat` the allocation table on the disk, `job` the
locals of the call in progress: its own copy of the table, the marker, the
place of the entry. A call runs with interrupts off, so no other call comes
between its steps; they are steps because the disk keeps what each of them
wrote when the machine stops there. Writing the table (64 clusters) is one
write, and so is `update_size`, which touches only sizes.

| Code | Actions |
|---|---|
| `write`, refused and begun | `WriteRefuse`, `WriteBegin` (with `update_size`) |
| its loop over clusters | `WriteCluster` |
| `create_entry`, `expand_folder`, `init_directory_table` | `CreateEntry`, `ExpandFolder` then `ExpandTable`, `init_directory_table` |
| `write_fat` | `WriteFat`, `DeleteFat` |
| `delete` | `DeleteBegin`, `Wipe` (a round of its loop), `DeleteEntry` |
| `deleteFolder`, `deleteRecurse` | `deleteRecurse` and `DeleteRecurseEntry` (the cluster of an entry, then the entry, the deepest first), `FolderDone`, `DeleteRecurseAstray` |
| `read`, `load`, `read_directory`, `self_directory_info`, `get_self_entry` | the operators `read`, `Places`, `SelfPlace` |

A data cluster is the file and the part that was written into it. A file may
have no extension, like the shell's own, and is then told from a directory by
its attribute and its size alone. What the
code does and one might not expect is in the model: `delete` of a directory
matches by name alone, so a file of that name that comes first is deleted in
its place; it gives no cluster back, except those of entries below it; on a
chain of two clusters its loop ends in cluster 0 and stays there; a name that
is gone has cluster 0 too. Callers name directories that exist, and delete as a
file, with its size, only what they found to be one, which is what
the path functions of the shell do; times and flags are left out; a full disk
and calls on a disk that a cut-short call left behind are not modelled.

The calls that only read are operators of a disk. `FindsByName` asks them,
between calls, for every name in every directory of the tree, whether something
is there or not. A directory is found by its name alone, so a file of that name
beside it may be come upon first, and then nothing is read. `load` does not ask
whether what it found is a directory, and nothing is claimed of it then: the
shell looks for a file of type `prg` before it executes one.

`MCFat32` keeps in `tree` what the disk reads as at each step: every file and
directory found from the root through the table on the disk, without the one
the call in progress writes or deletes.

### Keyboard and Shell

`keyboard_state` is the driver's record. The five keys that type something
stand for those of a letter, a digit, the space bar, Enter and (through
`Special`) the rest; the tables are functions on scan codes, so that the
combinations of caps lock and shift are the code's. `LayoutAssumption` is
checked over all 256 codes.

`term` is the part of the shell's grid from the row of the prompt down, with
the cursor and the limit it may not pass; `reader` the line in memory and the
index into it; `history` the recalled lines; `pager` the rest of a listing that
waits for a key. Every key is one action (`Type`, `Move`, `shell_backspace`,
`Recall`, `Dismiss`, `Run`, `RunClear`, `RunListing`, `Quit`, `NextLine`); what a command prints is
`Ink`, a few cells of it. `Press` is the interrupt, `Intercept` another program that
polls the keyboard. A write outside the line's memory or outside the window
sets `lost`, after which the terminal does nothing more, since what it hits is not known.

`CommandLine` promises that the line on the window is the line that is run, and
names the cases in which the code does not keep to it:

- a recalled line sets `max_idx` and leaves `current_idx` at 0, so that editing
  it changes the beginning in memory and the end on the window;
- Enter on an earlier row than the line's end leaves the tail behind the new prompt;
- a character inserted in a line that ends in the window's last cell pushes a
  character off the window, which stays in memory;
- a recalled line may fill the buffer, and then Enter writes its 0 behind it; a
  longer one is copied past the end of the buffer.

The prompt keeps its length (`PROMPT`); in the code `cd` changes it.

Also in the model: an empty line that was entered takes a place in the history and UP
cannot pass it; one flag serves both shift keys.

### Paths and Commands

The tree is the one of `FileTree`, which `Fat32` implements: `writef` and
`deletef` change it at once. A path is what the parser makes of it, its words
and whether it begins with `root`. `Paths` has one operator for each function
of `commands.util.c`; the walks differ in what they do about `..`, about `root` and about a
word that is missing (`Walk` is the loop over the words they share), and `get_info` of what is not there returns what was on
the stack, any cluster. `Commands` makes a command's checks when it is entered (`Enter`), where
the code makes them, and leaves a list of jobs, one for each system call that changes the tree
(`MakeFolder`, `CopySource`, `copy1File`, `copy1Folder`, `Delete`). The memory of a
file that is copied is freed before it is written, so another program may have
changed it (`Junk`). `deletef` and `readf_dir` find a folder by its name alone:
a file beside it may be meant instead (`Meant`, `Alone`). The order of the
entries in a folder is not in the tree; what depends on it is a choice, that in
which `copy1Folder` takes them among it. `refused` says that `cp` or `mv` printed an error;
a folder that `mkdir` or `copy_create_folders` could not make goes unnoticed.

What follows from the code and is in the model: `mv f name` without a dot
copies to an empty request and then deletes `f`; `cp -r d e` with no `e` may copy
into any folder, since the walk passes over what is missing; `rm ../f.x`
and `rm e/f.x` with no `e` remove `f.x` of the current folder; `rm -r root/d`
away from the root asks for a `d` in the current folder; `mkdir` takes
cluster 2 for the root and the first entry for `..`; `cp -r d x d` copies a
folder into itself until the disk is full; `cd` with `..` after a name garbles the
path of the prompt. (The path is a sequence of names: what its string does when
it outgrows `INPUT_BUFFER_SIZE` is not modelled.) The properties that these would break are stated for plain
paths (`Plain`), with the conditions named beside them.

### Kernel

A window call is made by the process on the CPU; `CleanWindowsAndUnlink` is the
rest of `process_clean` after the frames are free. The pid of a cleaned process
and its window structures are reused by the next one in the slot.

## What is checked

Definitions whose comment begins with "Faulty" are variants with a typical
bug; replacing the definition they precede makes the property named for them
in `PROJECT.json` fail, which shows that the property looks at that code.

| Run | Instance | Properties | What it shows |
|---|---|---|---|
| `ring` | 4 slots, 8 frames, one program size that fits and one that is refused | `RingWellFormed`, `StatesAgree`, `CleanSafe`, `KernelPreemptible`, `TerminatedUntilCleaned`, `RoundRobinOrder` | three processes beside the kernel: removal of the first, the middle and the last of the list, holes in the table, reuse of pids |
| `windows` | 3 windows 2×1, 1×2 and 1×1, a 2×2 screen, two places, 3 ids | `WinTypeOK`, `BooksAgree`, `HidesNest`, `ShowsThePile` | every pair overlaps somewhere, windows hang over the edge, ids are reused |
| `heap` | 12 bytes, headers of 2, requests of 0 to 3 | `HeapTypeOK`, `BlocksTile`, `IdleHeapIsNew`, `KeepsWhatIsHeld` | every order of allocating, growing, shrinking, writing and freeing up to three blocks, with splits, merges and exhaustion |
| `kernel` | 3 slots, 7 frames (2 reserved), programs of two pages at boot and of three after it, and one of four, which is refused, one window a process, 2 ids | `IInv`, `FramesOwnedOnce`, `FramesAccounted`, `AddressSpace`, `WindowsHaveOwners`, `OwnersHaveWindows`, `Reaped`, `Scheduled`, `WindowsGoWithProcess` | two programs compete for frames and for the last slot, and die with windows open at every point; each creation, switch and cleaning is watched at every page; the dead are collected, their windows disappear, the ready run |
| `fat32` | 7 clusters: the signature, one for the table, the root and 4; 2 entries in a directory cluster; files of one and of two clusters, two names that are interchangeable, one extension and none | `FsTypeOK`, `ChainsDisjoint`, `DirectoriesKnowTheirEntry`, `FindsByName`, `KeepsFiles`, `DeletesWhatIsAsked` | directories three deep, a root that outgrows its cluster, deletes of trees, reuse of places and clusters, files and directories with the same name, seen between any two disk writes |
| `shell` | a window of 3×2 cells, a prompt of one, a buffer of 4, a history of 2 lines; lines of up to 5 characters; listings of 1, 2 and 4 lines | `ShellTypeOK`, `LineFits`, `PageOnScreen`, `RunsWhatIsShown`, `ActedOnOnce` | lines that wrap, scroll and outgrow the buffer are edited, recalled and entered in every order, while keys are lost to the next key and to another program |
| `commands` | a file and a folder with the same file in it, room for three folders, paths of up to two words | `TreeSound`, `PathIsTrue`, `WhereisTellsTheWay`, `RmRemovesWhatItNames` | every sequence of commands, with folders that are missing, made on the way, of the name of a file or reached by `..` |
| `copy` | a folder that holds a file and a folder with a file, another file beside it; room for five folders | `CopyIsComplete` | sequences of `cp` and `cp -r` with one and two sources, of `cd`, `mkdir` and `rm -r`; copies go to a folder, a new name or a new path, until the disk is full: those of a folder in a folder end, on trees that hold earlier copies |
| `mv` | as `commands` | `MvDeletesOnlyCopied` fails | a source that was refused is deleted |
| `windows_full` | 3 windows, 2 ids | `FullIsRefused` fails | the id of a full manager is used as an index |
| `fat32_boot` | as `fat32` | `OnlyEmptyDriveFormatted` fails | a delete wipes the signature of a drive in use |
| `kernel_clean` | 3 slots, two windows a process, 4 ids | `NoWindowOfTheDead` fails | the cleaning loop skips a window |

Bounds. Three slots are the kernel and two processes that may be created,
switched to and cleaned around each other; four slots give a list with an inner
element on both sides of a removal. The state is finite without further
bounds (of the file system: two are named at their guards, `HasRoom` and the one
of `DeleteBegin`): no counter grows (`boot` counts down, pages and slots are bounded).
No run limits the length of a behaviour. In `kernel` the processes other than the
kernel share five frames: beside a program of two pages another one of either size
fits, a second one of three pages does not. Twelve bytes hold three blocks,
among them a free one of three bytes between two used ones, which a request of
one byte splits. Four clusters hold a directory with a file of two clusters, three
nested directories, or three entries of the root with the cluster they need
beyond the first. The window of the shell has two rows of three cells: a line
wraps on the first row and scrolls on the second, a recalled line may be longer
than the buffer and a tab may fill it. `Codes` has no caps lock and no shift: they
would multiply the states by four, change only which letter is typed, and
`LayoutAssumption` covers them. `Entered` and `MAX_LINE` bound what the user
types; the lines entered are the empty one, one that is short and one that
outgrows the buffer, and one that fills it. Three folder handles are two folders beside the one the
disk is made with, or a folder made and copied. The finished copy of a folder in
a folder takes two more, and the folder it goes to may be a fifth: that is the
run `copy`, with fewer commands beside `cp`. `CopyIsComplete` speaks of copies
nothing was refused to, and lets a file hold junk, as another program may get
its memory between two calls. It says nothing of a destination of one word
that names no folder and no file: `cp` neither finds nor makes it (`Reachable`). The shell does not remove the folder it
stands in, or one that this lies in (`Leaves`): the commands after that would read
freed clusters. In `heap` deadlock is allowed, since an exhausted heap halts
the machine, and in `commands`, `copy` and `mv`, which end when the disk is full. In the runs with proofs of the same
property the bound matters little; for the file system, the commands and for
liveness it is the evidence there is.

Fairness (`Fairness` in `ProcessProps`). The timer request stays pending, so a
CPU with interrupts on infinitely often takes it: strong fairness of `Timer`.
A section with interrupts off runs on: weak fairness of its steps. The kernel,
dispatched again and again, executes its loop: two ticks are 1/`freq` s apart
and one look takes some instructions, so an action of the loop that is possible
in every time slice is done in one of them: strong fairness of `ScanLook \/
CleanBegin` and of the two creations at boot. The weak fairness of
`OtherSyscall` says that a program dispatched for the first time makes a system
call: all programs of the repository do (the shell `SYSCALL_NULL`, the others
ask for memory or the tick); without it a program that computes for ever after
its first dispatch would keep the machine, since nothing has acknowledged the
timer. Nothing is assumed of kills, exits or creations by programs.

### Disagreements found

1. `winmgr_generate_window_id` reports a full manager with -1, and its caller
   indexes the arrays with it (run `windows_full`).
2. `winmgr_clean_window` skips the window after each one it closes (run
   `kernel_clean`). All programs of the repository register one window, so the
   run `kernel` with one window each passes.
3. A file of two clusters cannot be deleted: the loop of `delete` reads its next
   marker from a zeroed buffer (`fat32.c:451`), goes on to cluster 0 and never
   ends. A name that is gone leads to cluster 0 as well, which happens when `mv`
   is given a source twice. Cluster 0 holds the signature, and a drive without it
   is formatted at the next start, though `fat32.h:286` promises to do so with an
   empty one only (run `fat32_boot`; its shortest trace is the second case).
   `ChainsDisjoint` and `KeepsFiles` hold all the same, since they speak of the
   disk as it is before that start.
4. A comment says that `mv` copies as `cp` does and then deletes every request that
   succeeded (`commands.c:623`, in Indonesian); it deletes every source, also one that `copy1Folder` was not called for
   because it contains the destination (run `mv`, where `mv d d` deletes `d`).

## What is proved

Every safety property of the runs `ring`, `kernel`, `windows`, `heap`, `shell`,
`fat32` and `commands`, and each refinement in them,
is a theorem for every value of the constants that the assumptions below allow;
the runs show the same on small instances and are where a formula was tried
first. All theorems are listed in `PROJECT.json`.

Assumptions on the constants:

- `PagingAssumption`: sizes are naturals, the kernel has a frame, kernel and
  heap fit in the machine and in the layout of the address space (process pages
  below the heap, the heap below the kernel, the kernel stacks above it). The
  number of slots, frames and pages is arbitrary. `ProcessAssumption`: sizes of
  executables.
- `WindowAssumption`: up to 64 ids, a pid in a byte, sizes and places in the
  naturals. Screen, windows and their number are arbitrary. `KernelAssumption`:
  owners of windows are not the kernel.
- `HeapAssumption`: a header and a heap are not empty, requests are naturals.
- `ShellAssumption`: a window of two rows and columns at least, a prompt that
  fits in a row, an index that does not wrap within the window and the longest
  line, a page no longer than the window. `OutputAssumption`: a command that
  prints begins a new line, as those of `commands.c` do.
- `FatAssumption`: the root comes after cluster 0 and a cluster of the table, the mark for
  the end of a chain is no cluster, sizes of files are positive and below the
  limit of the counter, the empty name is none that can be asked for.
  The number of clusters, entries in a cluster, names and sizes is arbitrary.
- `PathsAssumption`, `CommandsAssumption`: the root and "no cluster"
  are no handles of other folders; command lines are records with paths, the
  trees to begin with are finite trees. Handles, names, and the lengths of paths
  and of command lines are arbitrary.

The theorems about windows need hypotheses on programs. `OneWindowEach`: no program has two
windows (true of those in the repository); without it the loop of
`winmgr_clean_window` leaves windows behind, which run `kernel_clean` shows.
`FewWindows`: as many ids as windows; without it the manager writes outside its
arrays (run `windows_full`). The runs `windows` and `kernel` are instances that
satisfy both.

### Processes, frames and the list

The properties are not inductive: that no frame has two owners needs that a
marked frame has an owner and that each entry of `virt_addr_used` is the page
its loop wrote; that needs the positions in the sections (`ControlInv`), and
that a slot under construction is not live needs the states (`StateInv`). `IInv`
is the conjunction of nine parts:

- `TypeOK`;
- `ControlInv`, what the locals of the section in progress stand for;
- `StateInv`, states against the list and the CPU; the kernel is never
  terminated;
- `RingInv`, `next_pid` and `previous_pid` inverse to each other on the live
  slots;
- `PageInv`, entry i of a process is page i, the last one its kernel stack;
- `FrameInv`, one owner for each frame, marks exactly where there is one;
- `CountInv`, the two counters are cardinalities;
- `CpuInv`, which directory, stack and `esp0` are in use at each point, and what
  they map;
- `TimerInv`, the kernel's loop runs with the timer acknowledged.

`Process_proofs` has one lemma for each part with one step for each action.
`OwnersChange` covers every action that changes the owner of at most one frame,
and the cardinalities follow from the library's facts about adding and removing
one element. `Invariance` puts them together, and from it follow
`NoFrameShared`, `NoFrameLost`, `AddressSpacesHold`, `StatesAlwaysAgree`,
`CleaningIsSafe`, `KernelStaysPreemptible` and the action property
`TerminatedForGood`.

`IInv` has the links one by one; two circles would satisfy it. `OneRing` says
that there is an order of the live slots along `next_pid` that begins with the
kernel and ends before it. `Process_proofs` gives the order after a creation
(`Linked`) and after a cleaning (`Unlinked`), and shows that there is only one
such order, so that the list `RingWellFormed` finds by walking is it
(`RingAlwaysWellFormed`). With `PassedOverDead`, what the scheduler knows in the
middle of its search, the steps of the scheduler are turns of `RoundRobin`
(`ProcessesTakeTurns`).

### Heap

The list of blocks is where the sizes found in memory lead. `ChainOf` says
without recursion when a sequence of addresses is that list, and that there is
only one: so to know the list after a call, one names it. `Sound`, the
invariant, has the list end at the end of the used part, no two free blocks
beside each other, the used ones those that are held, and the last one known to
`last_alloc`. Splitting, merging and cutting off are one lemma each about the
list they leave; `kmalloc`, `kfree` and `krealloc` are compositions of these.
`HeapIsAStore` maps a held pointer to the bytes up to the next header and shows
for each call which bytes it leaves alone.

### Windows

`Painted(m, k)` is the screen with the lowest k windows of the stack on it, each
pixel the highest of them there. `WinInv` has the stack, the table of windows
and the records of programs one to one, every rear buffer with what is painted
below its window, and the screen with all of them. The loops are then what they
do: hiding down to a place leaves what is painted below it
(`SavedIsWhatIsBelow`), showing up from there paints the rest and saves it.
`ScreenShowsThePile` follows: what is painted is what `Desktop` calls seen from
above, and raising, moving and closing do to the stack what they do to the pile.

### The kernel with windows

`KernelImplementsProcess` shows that a step of the composed kernel is a step of
process management or leaves it alone, and `KernelImplementsWindows` the same of
the window manager, so all of the above holds of the kernel too. `OwnersLive`,
that who has a window is a live slot, needs both: a process leaves the list in
the step that closes its window. From it and `WinInv` follow
`WindowsAlwaysHaveOwners` and `OwnersAlwaysHaveWindows`.

### Shell

`Holds(t, l, a)` says that the line l stands on the window t from the limit of
the cursor on, with nothing after it, and the cursor in its place a.
`Shell_proofs` shows first what each operator of the terminal does to such a line:
printing puts a string in at the cursor while there is room (through wrapping,
and through scrolling at its end), the arrows move by one cell across rows,
backspace takes one character out, `shell_reset` takes the line away. The
operators on the buffer do the same to a sequence. The arrows need that no blank
stands between the beginning of the prompt's row and the cursor, since
`cursor_find_edge` stops at the first one: that is part of `Ready`.

`ShellInv` has `Ready`, the size of the buffer, the history down to the line
recalled, the pager, the keyboard (a character is kept only if it is unread),
and that `promise` is the mapping. `ShellAlwaysSound` proves it, and from it
come `ShellAlwaysTyped`, `LineAlwaysFits`, `PageAlwaysOnScreen` and
`KeysActOnce`. `RunsTheLineShown` then goes key by key. Where the line has not
gone astray the window holds it (`Editing`), and so it does after the key
(`EditingNext`), which is the step `CommandLine` allows; where it goes astray,
the lemma for that key shows that otherwise the window would hold it, so that
one of the exceptions `CommandLine` names applies.

### File system

What a disk with its table stands for is found by recursion: a chain from its
first cluster, the directories from the root. `Layout(d, f, ch, rank)` says it
without: `ch` gives each file and directory the sequence of its clusters
(`Runs`), no cluster is in two of them, the tables are exactly the clusters of
directories, each of which knows its entry (`Placed`), a file has the clusters
its size asks for with its bytes in them (`Stored`), no directory has a name
twice, and `rank` grows from a directory to those in it, so that they are a tree
under the root. `ChainIs` and `ReachIs` say that the recursions of the model
compute just that.

A disk satisfies `Layout` between calls (`Sound`), but not in their middle.
`FsInv` says for each point of each call which disk would, with the table the
call holds in memory: the disk as it is, beside clusters that are taken but
nobody's (`Taking`, `Waiting`); the disk with the cluster that is written next
(`Expanded`, `Created`); the disk without the entry that is being deleted
(`Unlinked`, `Doomed`), and, while that is a folder, without the entry below it
whose cluster has just been wiped (`Emptying`, `Shrunk`). Where a delete has lost its way in the table it says
nothing, as nothing is true of that disk: the call never ends. One lemma for
each action shows that `Layout` comes over: `update_size` keeps everything but
sizes, which agree in entry and tables because they grow alike (`ResizeKeeps`);
a directory that grows has its new cluster at the end of its chain
(`GrowsKeeps`); what `deleteRecurse` takes is an entry with nothing below it,
because each place on its way down has a higher rank than the one before
(`NextBelowFinds`); the search at the end of `delete` finds again what the one
at its beginning found (`SelfPlaceSame`).

From `FsAlwaysInOrder` follow `FsTypes`, `FsEntries` and `FsChains`.
`FsFindsByName` needs `TreeGives`: the keys of `tree` are the names of the
places reached, each once, since no directory has a name twice.

`FsKeepsFiles` and `FsDeletesWhatIsAsked` speak of every point of a call, where
the disk need not satisfy `Layout`. `Promise` relates it to one that does: there
are a disk `d0` with a table `g0`, as they were when the call began or when
its directory last grew, and hidden places `h0`, such that what the directories
shown consist of, and the clusters of the files in them (`Kept`), are on the
disk now as they were there (`Alike`). Then both read as the same tree
(`PromisedReads`), and each action needs one lemma: a cluster it writes or wipes
is not kept, because it was free, or belongs to an entry that is hidden; sizes
change in the tables and in no file (`ResizedShows`). The tree moves in two
places only (`TreeOn` leaves out the file or folder of the call in progress). A
write shows its entry when the allocation table follows it
(`WriteFatPromise`, `CreateIs`: the tree with one hidden place shown has one name
more, leading to nothing yet), and a delete hides one before it touches anything
else (`DeleteBeginPromise`, `HideIs`: without a directory all those below it are
out of reach, and nothing else is). Where the directory of a write grows, `d0` and
`g0` are taken anew: the grown chain shows what the old one did
(`GrownShows`). That the place a request hides is the one the request names
is `SelfPlaceFinds`, from which `FsDeletesWhatIsAsked` follows.

### Commands

`IsTree` says that every name lies in a folder that is there, that no two
names have one handle, and that the root is above everything. The folders above
one (`Upwards`) are the least set with it that goes up with each of its members
(`Climbing`), so a folder cannot be above itself through others.
`CommandsInvariance` shows that the tree stays one: a new name goes into a folder
that is there and gets a handle that nobody has (`Added`), and a removal takes
with a folder all that is below it (`Removed`), so nothing hangs in the air. The jobs
a command leaves (`Listed`, `Planned`) only name folders that still exist when
their turn comes, and no job removes a folder that the shell stands in
(`SafeJob`); that is what the invariant `CommandInv` needs beside the tree
(`TreeAlwaysSound`).

`Way` gives the folders one comes through along words that are all there. Each
walk of `commands.util.c` follows it where the words go down, whatever it does
about words that are missing: so the five agree on plain paths, which is what the
commands rest on when they check a path with one and act on it with another.

- `PromptTellsTheTruth`: `cd` works out the folder and the path of the prompt
  separately. A path of `..` and then names takes words off and puts words on;
  `UpTheWay` and `WayJoined` show that the folder moves along.
- `WhereisTellsTheTruth`: `whereis` goes up from each hit to the root. That it
  arrives follows from the number of folders above (`Depth`), which grows by one
  a step down; the words it collects lead back to the hit.
- `RmRemovesOnlyThat`: the walk that checks, the one that asks and the one that
  finds the folder to delete in agree (`RmJobsName`), so the name that goes is
  the one in the command, with what is below it and nothing else (`RmInv` carries
  that from the command to its job).

### How induction is done

The induction theorems of the library take an operator as a parameter, which the
provers cannot instantiate. `Induction` states induction as a subset of the
naturals that has 0 and with n also n + 1 (from `WFMin`, which takes a
relation), and, of functions defined by recursion, that there is one
(`RecursionUp`, `RecursionDown`) and that there is only one
(`RecursionDownUnique`). What `print`,
`HideDownTo`, `typed_in` or the walk over the headers computes is proved with
these: recursive definitions in the modules with theorems about them are
functions.

### Only model-checked

- Liveness (`Reaped`, `Scheduled`, `WindowsGoWithProcess`): needs fairness and
  ENABLED, which the prover does not reason about.
- `CopyIsComplete` (run `copy`): it compares what two folders hold, at every
  depth, across all the calls of one command.
- `LayoutAssumption` and the definitions TLC evaluates on tables.

## What is not modelled, and the plan

1. Proofs: `CopyIsComplete` of `Commands`.
2. `FramePool`, the abstract frame manager (a partial map from pages to frames)
   with the proof that `Process` implements it.
3. `Kernel` with the heap: the buffers of a killed program stay allocated, and enough
   of them halt the machine.
4. `Fat32` after a crash, and on a full disk: what calls do on a disk where an
   entry has no chain, and what the index past the end of the table hits.
5. `Commands` over `Fat32` in place of its abstract tree.

Left out, with the reason:

- disk, CMOS and cursor ports, descriptor tables, the remapping of the PIC:
  devices, or set up once;
- `sleep`, which nothing calls, and the `delay` loops of the programs, which
  compare a tick that wraps after seven weeks;
- the clock and the bouncing box: each registers one window and updates it, which
  `Kernel` lets any program do at any time;
- `dir`, `ls`, `ps`, `cat` and `help`, which format what they read: `Shell` has their
  output and its paging, `Fat32` the reads;
- `string.c` and the words of `parser_parse`: conversions and copies, which enter
  `Paths` as parsed words;
- `other/fat32nocmos.c`, a copy of `fat32.c` without the clock, and the other host
  tools;
- exceptions, which halt the machine.
