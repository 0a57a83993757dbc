------------------------------ MODULE Process ------------------------------
(***************************************************************************)
(* Process management (src/process/process.c) together with the parts of  *)
(* the machine it drives: the loaded page directory (cr3), the kernel      *)
(* stack the CPU runs on, tss.esp0, and the in-service bit of the timer in *)
(* the interrupt controller (main_interrupt_handler, restore_context).     *)
(*                                                                         *)
(* The code runs with interrupts off between cli (or the entry of an       *)
(* interrupt gate) and sti, and kpc says where in such a section the CPU   *)
(* is: "run" is the only point at which an interrupt or a system call can  *)
(* arrive.  The sections are split at every page allocated or freed and at *)
(* every change of cr3 or stack, where what must hold between two          *)
(* instructions can be said.                                               *)
(***************************************************************************)
EXTENDS Paging

CONSTANTS
  RequestSizes,   \* executable sizes user programs ask for, in MiB
  BootSize,       \* size the kernel asks for its two programs, in MiB
  BootPrograms    \* how many programs kernel_setup starts (sh, sysclock)

\* Sizes are file sizes, below the point where the 32-bit sum that computes
\* the frame amount wraps.
ASSUME ProcessAssumption ==
  /\ RequestSizes \subseteq 0 .. 4091
  /\ BootSize \in 0 .. 4091
  /\ BootPrograms \in Nat

VARIABLES
  state, frame_amount, virt_addr_used,    \* process_array, field by field
  previous_pid, next_pid,
  process_active, num_process, current_process, last_process_pid,
  cr3,               \* the slot whose directory is loaded
  stack,             \* the process whose kernel stack the CPU is on
  esp0,              \* tss.esp0: whose stack the next entry from user mode takes
  fresh,             \* context.eip is restore_context: never dispatched
  irq0,              \* "in_service" until acknowledged: no interrupt is delivered
  kpc,               \* where in a section with interrupts off the CPU is
  job_pid, job_amount, job_page,          \* the locals of that section
  boot,              \* programs kernel_setup has yet to create
  scan, scan_at      \* process_clean_scan: i, and the call it is about to make

pcbVars  == <<state, frame_amount, virt_addr_used, previous_pid, next_pid>>
listVars == <<process_active, num_process, last_process_pid>>
cpuVars  == <<cr3, stack, esp0, fresh, irq0>>
ctlVars  == <<kpc, job_pid, job_amount, job_page>>
scanVars == <<boot, scan, scan_at>>
vars == <<pagingVars, pcbVars, listVars, current_process, cpuVars, ctlVars, scanVars>>

ProcState == {"NULL_PROCESS", "NEW", "READY", "RUNNING", "TERMINATED"}
Slot      == 0 .. MAX_PROCESS_FRAMES - 1
KPC       == {"run", "create", "map", "link", "load", "clean", "pick", "switch"}

\* Page index of the kernel stack of process p: k_stack = (p + 1) pages above
\* KERNEL_VMEMORY_OFFSET, less 4 bytes; the kernel's own is at that offset.
StackIndex(p) == KERNEL_INDEX + p

\* ceil((1 MiB of stack + size) / 4 MiB) + 1 kernel stack
FrameAmount(size) == (size + 4) \div 4 + 1

\* The state kernel_setup has reached when the timer is enabled.
Init ==
  /\ PagingInit
  /\ state = [p \in Pid |-> IF p = 0 THEN "RUNNING" ELSE "NULL_PROCESS"]
  /\ frame_amount = [p \in Pid |-> IF p = 0 THEN KERNEL_PAGE_COUNT ELSE 0]
  /\ virt_addr_used = [p \in Pid |-> [i \in Slot |-> 0]]
  /\ previous_pid = [p \in Pid |-> 0]
  /\ next_pid = [p \in Pid |-> 0]
  /\ process_active = {0}
  /\ num_process = 1
  /\ current_process = 0
  /\ last_process_pid = 0
  /\ cr3 = 0 /\ stack = 0 /\ esp0 = 0
  /\ fresh = {}
  /\ irq0 = "idle"
  /\ kpc = "run" /\ job_pid = 0 /\ job_amount = 0 /\ job_page = 0
  /\ boot = BootPrograms /\ scan = 0 /\ scan_at = "look"

\* The stack the CPU takes when it enters the kernel: tss.esp0 from user
\* mode, the one it is on from the kernel's own loop.
EntryStack == IF current_process = 0 THEN stack ELSE esp0

\* pic_ack at the end of main_interrupt_handler.  The kernel calls
\* process_create_user_proc directly, so nothing is acknowledged then.
AckSyscall == irq0' = IF current_process = 0 THEN irq0 ELSE "idle"

\* Back to the interrupted code, interrupts on.
Return == kpc' = "run" /\ job_pid' = 0 /\ job_amount' = 0 /\ job_page' = 0
-----------------------------------------------------------------------------
(* process_create_user_proc *)

\* What process_create_user_proc can be called with: kernel_setup creates
\* its programs, then only user processes ask.
Requests == CASE current_process # 0 -> RequestSizes
              [] current_process = 0 /\ boot > 0 -> {BootSize}
              [] OTHER -> {}

CanCreate(amount) ==
  /\ num_process # MAX_PROCESS
  /\ AllocateCheck(amount)
  /\ amount <= MAX_PROCESS_FRAMES

NextBoot == boot' = IF current_process = 0 THEN boot - 1 ELSE boot

CreateRefuse(size) ==
  /\ kpc = "run"
  /\ size \in Requests
  /\ ~CanCreate(FrameAmount(size))
  /\ NextBoot
  /\ AckSyscall
  /\ UNCHANGED <<pagingVars, pcbVars, listVars, current_process, cr3, stack,
                 esp0, fresh, ctlVars, scan, scan_at>>

CreateAccept(size) ==
  /\ kpc = "run"
  /\ size \in Requests
  /\ CanCreate(FrameAmount(size))
  /\ NextBoot
  /\ stack' = EntryStack
  /\ kpc' = "create"
  /\ job_amount' = FrameAmount(size)
  /\ UNCHANGED <<pagingVars, pcbVars, listVars, current_process, cr3, esp0,
                 fresh, irq0, job_pid, job_page, scan, scan_at>>

\* Faulty: the number of processes is taken for a free pid; a slot is taken
\* over before it was cleaned.
PidByCount(p) == p # 0 /\ p = num_process
PidOfTheDead(p) == p # 0 /\ state[p] \in {"NULL_PROCESS", "TERMINATED"}

\* process_generate_pid: the first slot from 1 that is not active.
IsGeneratedPid(p) == p # 0 /\ p \notin process_active /\ 1 .. p - 1 \subseteq process_active

\* The slot, its directory, and the current kernel stack mapped in it.
CreateDirectory ==
  /\ kpc = "create"
  /\ \E pid \in Pid :
       /\ IsGeneratedPid(pid)
       /\ state' = [state EXCEPT ![pid] = "NEW"]
       /\ frame_amount' = [frame_amount EXCEPT ![pid] = job_amount]
       /\ page_dir' = [page_dir EXCEPT ![pid] =
            CloneEntry(StackIndex(current_process), page_dir[current_process], KernelDirectory)]
       /\ job_pid' = pid
  /\ kpc' = "map"
  /\ UNCHANGED <<page_frame_map, free_page_frame_count, virt_addr_used,
                 previous_pid, next_pid, listVars, current_process, cpuVars,
                 job_amount, job_page, scanVars>>

\* One page: user pages from address 0, then the page of the kernel stack.
CreatePage ==
  /\ kpc = "map"
  /\ LET virt == IF job_page = job_amount - 1 THEN StackIndex(job_pid) ELSE job_page
     IN  /\ virt_addr_used' = [virt_addr_used EXCEPT ![job_pid][job_page] = virt]
         /\ AllocatePageFrame(job_pid, virt)
  /\ job_page' = job_page + 1
  /\ kpc' = IF job_page = job_amount - 1 THEN "link" ELSE "map"
  /\ UNCHANGED <<state, frame_amount, previous_pid, next_pid, listVars,
                 current_process, cpuVars, job_pid, job_amount, scanVars>>

\* Last in the ring; then the new directory is loaded.
CreateLink ==
  /\ kpc = "link"
  /\ previous_pid' = [previous_pid EXCEPT ![job_pid] = last_process_pid, ![0] = job_pid]
  /\ next_pid' = [next_pid EXCEPT ![job_pid] = 0, ![last_process_pid] = job_pid]
  /\ last_process_pid' = job_pid
  /\ process_active' = process_active \cup {job_pid}
  /\ cr3' = job_pid
  /\ kpc' = "load"
  /\ UNCHANGED <<pagingVars, state, frame_amount, virt_addr_used, num_process,
                 current_process, stack, esp0, fresh, irq0,
                 job_pid, job_amount, job_page, scanVars>>

\* The image and the first context are written through the new directory;
\* then back to the caller's, and interrupts on.
CreateLoad ==
  /\ kpc = "load"
  /\ fresh' = fresh \cup {job_pid}
  /\ cr3' = current_process
  /\ num_process' = num_process + 1
  /\ AckSyscall
  /\ Return
  /\ UNCHANGED <<pagingVars, pcbVars, process_active, last_process_pid,
                 current_process, stack, esp0, scanVars>>
-----------------------------------------------------------------------------
(* System calls that do not leave the section they arrive in *)

UserSyscall == kpc = "run" /\ current_process # 0 /\ irq0' = "idle"

\* Faulty: a slot without a process is terminated too.
StopAnySlot(pid) ==
  /\ UserSyscall
  /\ pid # 0
  /\ state' = [state EXCEPT ![pid] = "TERMINATED"]
  /\ UNCHANGED <<pagingVars, frame_amount, virt_addr_used, previous_pid,
                 next_pid, listVars, current_process, cr3, stack, esp0, fresh,
                 ctlVars, scanVars>>

\* process_terminate; the shell's kill refuses pid 0.  Neither bounds the pid:
\* what lies behind process_array is not modelled.
Stop(pid) ==
  /\ UserSyscall
  /\ pid # 0
  /\ state[pid] # "NULL_PROCESS"
  /\ state' = [state EXCEPT ![pid] = "TERMINATED"]
  /\ UNCHANGED <<pagingVars, frame_amount, virt_addr_used, previous_pid,
                 next_pid, listVars, current_process, cr3, stack, esp0, fresh,
                 ctlVars, scanVars>>

\* process_terminate_current
Exit ==
  /\ UserSyscall
  /\ state' = [state EXCEPT ![current_process] = "TERMINATED"]
  /\ UNCHANGED <<pagingVars, frame_amount, virt_addr_used, previous_pid,
                 next_pid, listVars, current_process, cr3, stack, esp0, fresh,
                 ctlVars, scanVars>>

\* Any other call: all it does to this state is the acknowledgement that
\* main_interrupt_handler sends.
OtherSyscall ==
  /\ irq0 = "in_service"
  /\ UserSyscall
  /\ UNCHANGED <<pagingVars, pcbVars, listVars, current_process, cr3, stack,
                 esp0, fresh, ctlVars, scanVars>>
-----------------------------------------------------------------------------
(* process_clean_scan, the loop the kernel ends in *)

\* Faulty: the scan leaves out the last slot.
NextScanShort == scan' = IF scan >= MAX_PROCESS - 2 THEN 0 ELSE scan + 1

NextScan == scan' = IF scan = MAX_PROCESS - 1 THEN 0 ELSE scan + 1

\* Faulty: the index moves on before the slot it found is cleaned.
ScanLookPast ==
  /\ kpc = "run" /\ current_process = 0 /\ boot = 0 /\ scan_at = "look"
  /\ scan_at' = IF state[scan] = "TERMINATED" THEN "clean" ELSE "look"
  /\ NextScan
  /\ UNCHANGED <<pagingVars, pcbVars, listVars, current_process, cpuVars,
                 ctlVars, boot>>

\* The state of slot i is read with interrupts on.
ScanLook ==
  /\ kpc = "run" /\ current_process = 0 /\ boot = 0 /\ scan_at = "look"
  /\ IF state[scan] = "TERMINATED"
     THEN scan_at' = "clean" /\ scan' = scan
     ELSE scan_at' = "look" /\ NextScan
  /\ UNCHANGED <<pagingVars, pcbVars, listVars, current_process, cpuVars,
                 ctlVars, boot>>

\* process_clean, to be composed with the window manager's part of it.
CleanBegin ==
  /\ kpc = "run" /\ current_process = 0 /\ scan_at = "clean"
  /\ kpc' = "clean"
  /\ job_pid' = scan
  /\ scan_at' = "look"
  /\ NextScan
  /\ UNCHANGED <<pagingVars, pcbVars, listVars, current_process, cpuVars,
                 job_amount, job_page, boot>>

CleanPage ==
  /\ kpc = "clean"
  /\ job_page < frame_amount[job_pid]
  /\ FreePageFrame(job_pid, virt_addr_used[job_pid][job_page])
  /\ job_page' = job_page + 1
  /\ UNCHANGED <<pcbVars, listVars, current_process, cpuVars, kpc, job_pid,
                 job_amount, scanVars>>

CleanUnlink ==
  /\ kpc = "clean"
  /\ job_page = frame_amount[job_pid]
  /\ previous_pid' = [previous_pid EXCEPT ![next_pid[job_pid]] = previous_pid[job_pid]]
  /\ next_pid' = [next_pid EXCEPT ![previous_pid[job_pid]] = next_pid[job_pid]]
  /\ state' = [state EXCEPT ![job_pid] = "NULL_PROCESS"]
  /\ process_active' = process_active \ {job_pid}
  /\ last_process_pid' = IF job_pid = last_process_pid THEN previous_pid[job_pid]
                                                       ELSE last_process_pid
  /\ num_process' = num_process - 1
  /\ Return
  /\ UNCHANGED <<pagingVars, frame_amount, virt_addr_used, current_process,
                 cpuVars, scanVars>>
-----------------------------------------------------------------------------
(* The timer interrupt: pit_isr, process_schedule, process_switch *)

\* Faulty: every search starts at the head of the list.
TimerFromHead ==
  /\ kpc = "run"
  /\ irq0 = "idle"
  /\ irq0' = "in_service"
  /\ stack' = EntryStack
  /\ kpc' = "pick"
  /\ job_pid' = next_pid[0]
  /\ UNCHANGED <<pagingVars, pcbVars, listVars, current_process, cr3, esp0,
                 fresh, job_amount, job_page, scanVars>>

Timer ==
  /\ kpc = "run"
  /\ irq0 = "idle"
  /\ irq0' = "in_service"
  /\ stack' = EntryStack
  /\ kpc' = "pick"
  /\ job_pid' = next_pid[current_process]
  /\ UNCHANGED <<pagingVars, pcbVars, listVars, current_process, cr3, esp0,
                 fresh, job_amount, job_page, scanVars>>

\* Faulty: after a terminated process the search starts over at the head.
SkipToHead ==
  /\ kpc = "pick"
  /\ state[job_pid] = "TERMINATED"
  /\ job_pid' = next_pid[0]
  /\ UNCHANGED <<pagingVars, pcbVars, listVars, current_process, cpuVars, kpc,
                 job_amount, job_page, scanVars>>

PickSkip ==
  /\ kpc = "pick"
  /\ state[job_pid] = "TERMINATED"
  /\ job_pid' = next_pid[job_pid]
  /\ UNCHANGED <<pagingVars, pcbVars, listVars, current_process, cpuVars, kpc,
                 job_amount, job_page, scanVars>>

\* Faulty: no acknowledgement when there is nobody to switch to.
PickSameUnacked ==
  /\ kpc = "pick"
  /\ state[job_pid] # "TERMINATED"
  /\ job_pid = current_process
  /\ Return
  /\ UNCHANGED <<pagingVars, pcbVars, listVars, current_process, cr3, stack,
                 esp0, fresh, irq0, scanVars>>

PickSame ==
  /\ kpc = "pick"
  /\ state[job_pid] # "TERMINATED"
  /\ job_pid = current_process
  /\ irq0' = "idle"
  /\ Return
  /\ UNCHANGED <<pagingVars, pcbVars, listVars, current_process, cr3, stack,
                 esp0, fresh, scanVars>>

\* process_switch up to the change of page tables.
Switch ==
  /\ kpc = "pick"
  /\ state[job_pid] # "TERMINATED"
  /\ job_pid # current_process
  /\ current_process' = job_pid
  /\ state' = [state EXCEPT
       ![current_process] = IF @ = "RUNNING" THEN "READY" ELSE @,
       ![job_pid] = "RUNNING"]
  /\ esp0' = job_pid
  /\ page_dir' = [page_dir EXCEPT ![job_pid] =
       CloneEntry(StackIndex(current_process), page_dir[current_process], page_dir[job_pid])]
  /\ cr3' = job_pid
  /\ kpc' = "switch"
  /\ UNCHANGED <<page_frame_map, free_page_frame_count, frame_amount,
                 virt_addr_used, previous_pid, next_pid, listVars, stack, fresh,
                 irq0, job_pid, job_amount, job_page, scanVars>>

\* switch_context.  A process that ran before resumes in its own interrupt
\* handler, which acknowledges; a new one goes through restore_context to
\* user mode and acknowledges nothing.
SwitchContext ==
  /\ kpc = "switch"
  /\ stack' = current_process
  /\ irq0' = IF current_process \in fresh THEN "in_service" ELSE "idle"
  /\ fresh' = fresh \ {current_process}
  /\ Return
  /\ UNCHANGED <<pagingVars, pcbVars, listVars, current_process, cr3, esp0,
                 scanVars>>
-----------------------------------------------------------------------------
Create == \/ \E size \in RequestSizes \cup {BootSize} : CreateRefuse(size) \/ CreateAccept(size)
          \/ CreateDirectory \/ CreatePage \/ CreateLink \/ CreateLoad

Call == (\E pid \in Pid : Stop(pid)) \/ Exit \/ OtherSyscall

Collect == ScanLook \/ CleanBegin \/ CleanPage

Tick == Timer \/ PickSkip \/ PickSame \/ Switch \/ SwitchContext

Next == Create \/ Call \/ Collect \/ CleanUnlink \/ Tick

Spec == Init /\ [][Next]_vars
=============================================================================
