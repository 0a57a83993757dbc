---------------------------- MODULE ProcessProps ----------------------------
(***************************************************************************)
(* What process management promises.  Every invariant is stated for every  *)
(* point of the sections that run with interrupts off, not only for the    *)
(* points where they are on.                                               *)
(***************************************************************************)
EXTENDS Process

\* The type invariant: every field holds a value of its type.
TypeOK ==
  /\ page_frame_map \subseteq Frame
  /\ free_page_frame_count \in Int
  /\ page_dir \in [Pid -> [Index -> Frame]]
  /\ state \in [Pid -> ProcState]
  /\ frame_amount \in [Pid -> 0 .. MAX_PROCESS_FRAMES]
  /\ virt_addr_used \in [Pid -> [Slot -> Index]]
  /\ previous_pid \in [Pid -> Pid]
  /\ next_pid \in [Pid -> Pid]
  /\ process_active \subseteq Pid
  /\ num_process \in Int
  /\ current_process \in Pid /\ last_process_pid \in Pid
  /\ cr3 \in Pid /\ stack \in Pid /\ esp0 \in Pid
  /\ fresh \subseteq Pid
  /\ irq0 \in {"idle", "in_service"}
  /\ kpc \in KPC
  /\ job_pid \in Pid /\ job_amount \in 0 .. MAX_PROCESS_FRAMES /\ job_page \in Nat
  /\ boot \in Int /\ scan \in Pid /\ scan_at \in {"look", "clean"}
-----------------------------------------------------------------------------
(* Frames *)

\* The entries of virt_addr_used[p] that name a page p owns: those mapped so
\* far of a slot under construction, those not yet freed of a slot being
\* cleaned, all of any other process but the kernel.
PagesOf(p) == {i \in Slot :
  \/ p = job_pid /\ kpc \in {"map", "link"} /\ i < job_page
  \/ p = job_pid /\ kpc = "clean" /\ job_page <= i /\ i < frame_amount[p]
  \/ /\ p # 0 /\ p \in process_active /\ i < frame_amount[p]
     /\ ~(p = job_pid /\ kpc = "clean")}

FrameOf(p, i) == page_dir[p][virt_addr_used[p][i]]

\* No frame backs two pages, of one process or of two, and none of the
\* kernel's or the heap's frames backs a process page: what one process
\* writes through its own pages no other process and no kernel code reads.
FramesOwnedOnce ==
  \A p, q \in Pid : \A i \in PagesOf(p), j \in PagesOf(q) :
    /\ FrameOf(p, i) >= Reserved
    /\ FrameOf(p, i) = FrameOf(q, j) => p = q /\ i = j

\* A frame is marked used exactly when the kernel, the heap or some process
\* page has it, and the counter paging_allocate_check trusts is the number of
\* the others: create and clean, however they follow each other, never leak
\* a frame and never hand out one that is in use.
FramesAccounted ==
  /\ page_frame_map = (0 .. Reserved - 1) \cup
       UNION {{FrameOf(p, i) : i \in PagesOf(p)} : p \in Pid}
  /\ free_page_frame_count = Cardinality(Frame \ page_frame_map)
-----------------------------------------------------------------------------
(* Address spaces *)

\* The stack the kernel executes on is mapped in the loaded directory, to the
\* frame its owner has it in, at every instruction of a creation and of a
\* switch; every live directory maps the kernel and the whole heap alike; and
\* user code runs in its own address space with tss.esp0 on its own stack.
AddressSpace ==
  /\ page_dir[cr3][StackIndex(stack)] = page_dir[stack][StackIndex(stack)]
  /\ \A p \in process_active :
       /\ page_dir[p][KERNEL_INDEX] = 0
       /\ \A k \in 0 .. HEAP_PAGE_COUNT - 1 :
            page_dir[p][HEAP_INDEX + k] = KERNEL_PAGE_COUNT + k
  /\ kpc = "run" => /\ cr3 = current_process
                    /\ stack = current_process
                    /\ esp0 = current_process
-----------------------------------------------------------------------------
(* The ring and the process states *)

RingAt[n \in 0 .. MAX_PROCESS] == IF n = 0 THEN 0 ELSE next_pid[RingAt[n - 1]]

\* next_pid runs once around exactly the active slots and back to the kernel,
\* previous_pid runs the other way, last_process_pid is the end of it, and the
\* num_process that ps prints is its length (the new process is linked before
\* it is counted).
RingWellFormed ==
  \E n \in 1 .. MAX_PROCESS :
    /\ {RingAt[k] : k \in 0 .. n - 1} = process_active
    /\ \A k \in 1 .. n - 1 : RingAt[k] # 0
    /\ RingAt[n] = 0
    /\ \A k \in 1 .. n : previous_pid[RingAt[k]] = RingAt[k - 1]
    /\ last_process_pid = RingAt[n - 1]
    /\ num_process = IF kpc = "load" THEN n - 1 ELSE n

\* Exactly the slots in the ring have a state, save the one being created, and
\* no process is RUNNING but the current one.  The current one is RUNNING,
\* unless it was terminated and waits for its last tick.
StatesAgree ==
  /\ \A p \in Pid :
       /\ state[p] # "NULL_PROCESS" <=>
            p \in process_active \/ (p = job_pid /\ kpc \in {"map", "link"})
       /\ state[p] = "RUNNING" => p = current_process
  /\ state[current_process] \in {"RUNNING", "TERMINATED"}

\* The kernel reads a slot's state with interrupts on and frees it later: the
\* slot is then still a terminated process, and neither the kernel nor the
\* owner of the loaded directory, of the stack in use or of tss.esp0.
CleanSafe ==
  /\ scan_at = "clean" => state[scan] = "TERMINATED"
  /\ kpc = "clean" => /\ state[job_pid] = "TERMINATED"
                      /\ job_pid \notin {0, current_process, cr3, stack, esp0}

\* A terminated process stays terminated until process_clean gives back its
\* slot: no preemption, dispatch or second kill revives it.
TerminatedUntilCleaned ==
  [][\A p \in Pid : state[p] = "TERMINATED" /\ state'[p] # "TERMINATED" =>
       state'[p] = "NULL_PROCESS" /\ p \notin process_active']_vars

\* Between two ticks the kernel's own loop makes no system call, so if it ran
\* with IRQ 0 unacknowledged no process would ever run again.
KernelPreemptible == kpc = "run" /\ current_process = 0 => irq0 = "idle"
-----------------------------------------------------------------------------
(* The turn order *)

\* The ring of the process table, read along next_pid from the kernel.
RingLength == CHOOSE n \in 1 .. MAX_PROCESS :
  RingAt[n] = 0 /\ \A k \in 1 .. n - 1 : RingAt[k] # 0

Ring == [k \in 1 .. RingLength |-> RingAt[k - 1]]

Dead == {p \in process_active : state[p] = "TERMINATED"}

Turn == INSTANCE RoundRobin WITH
  Proc   <- Pid,
  Kernel <- 0,
  ring   <- Ring,
  dead   <- Dead,
  cur    <- current_process

\* process_schedule, creation, termination and cleaning, however they
\* interleave, implement the abstract round robin: nobody is skipped who is
\* not terminated, nobody has two turns in a row while another one waits, and
\* nobody on the CPU is taken out of the ring.
RoundRobinOrder == Turn!RRSpec

-----------------------------------------------------------------------------
(* Liveness *)

BootCreate == current_process = 0 /\ (CreateRefuse(BootSize) \/ CreateAccept(BootSize))

\* IRQ 0 stays requested until it is delivered, so it is taken at some later
\* point with interrupts on (SF).  The CPU runs on inside a section with
\* interrupts off (WF).  Two ticks are further apart than one look of the
\* kernel's loop, so the kernel, dispatched again and again, gets on with it
\* (SF).  Every program of the repository starts with a system call, which
\* acknowledges the tick that dispatched it (WF).
Fairness ==
  /\ SF_vars(Timer)
  /\ WF_vars(CreateDirectory \/ CreatePage \/ CreateLink \/ CreateLoad
             \/ CleanPage \/ CleanUnlink
             \/ PickSkip \/ PickSame \/ Switch \/ SwitchContext)
  /\ SF_vars(BootCreate)
  /\ SF_vars(ScanLook \/ CleanBegin)
  /\ WF_vars(OtherSyscall)

FairSpec == Spec /\ Fairness

\* Whatever the order of kills, exits, ticks and creations, the kernel's loop
\* reaches every terminated process and gives its slot back.
Reaped == \A p \in Pid :
  state[p] = "TERMINATED" ~> state[p] = "NULL_PROCESS"

\* A process that is NEW or READY gets the CPU, unless it is terminated first:
\* round robin starves nobody, even while processes come and go.
Scheduled == \A p \in Pid :
  state[p] \in {"NEW", "READY"} ~> state[p] \in {"RUNNING", "TERMINATED"}
=============================================================================
