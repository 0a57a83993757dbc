----------------------------- MODULE ProcessInv -----------------------------
(***************************************************************************)
(* The inductive invariant behind the safety properties of ProcessProps:   *)
(* what holds at every step and is preserved by every step on its own.     *)
(***************************************************************************)
EXTENDS ProcessProps

Building == kpc \in {"map", "link"}

\* What the locals of the section in progress stand for.
ControlInv ==
  /\ kpc = "run" => job_pid = 0 /\ job_page = 0
  /\ kpc = "create" => job_pid = 0 /\ job_page = 0
  /\ kpc \in {"create", "map", "link", "load"} =>
       job_amount \in 1 .. MAX_PROCESS_FRAMES
  /\ kpc \in {"map", "link", "load"} =>
       job_pid # 0 /\ job_pid # current_process /\ frame_amount[job_pid] = job_amount
  /\ kpc = "map" => job_page < job_amount
  /\ kpc \in {"link", "load"} => job_page = job_amount
  /\ Building => job_pid \notin process_active
  /\ kpc = "load" => job_pid \in process_active
  /\ kpc = "clean" => /\ state[job_pid] = "TERMINATED"
                      /\ current_process = 0 /\ job_pid # 0
                      /\ job_page <= frame_amount[job_pid] /\ scan_at = "look"
  /\ kpc \in {"pick", "switch"} => job_page = 0
  /\ kpc = "pick" => job_pid \in process_active
  /\ kpc = "switch" => job_pid = current_process
  /\ scan_at = "clean" => state[scan] = "TERMINATED"

\* The kernel is never terminated; only live slots have a state; only the
\* current one is RUNNING.
StateInv ==
  /\ 0 \in process_active /\ state[0] # "TERMINATED" /\ current_process \in process_active
  /\ \A p \in process_active :
       state[p] # "NULL_PROCESS" /\ (p # 0 => frame_amount[p] \in 1 .. MAX_PROCESS_FRAMES)
  /\ \A p \in Pid \ process_active : state[p] = "NULL_PROCESS" \/ (Building /\ p = job_pid)
  /\ Building => state[job_pid] = "NEW"
  /\ \A p \in Pid : state[p] = "RUNNING" => p = current_process
  /\ state[current_process] \in {"RUNNING", "TERMINATED"}

\* The ring, link by link.
RingInv ==
  /\ \A p \in process_active :
       /\ next_pid[p] \in process_active /\ previous_pid[next_pid[p]] = p
       /\ previous_pid[p] \in process_active /\ next_pid[previous_pid[p]] = p
  /\ last_process_pid \in process_active
  /\ next_pid[last_process_pid] = 0

\* Each page entry of a process is where its loop put it.
PageInv ==
  \A p \in Pid : \A i \in PagesOf(p) :
    virt_addr_used[p][i] = IF i = frame_amount[p] - 1 THEN StackIndex(p) ELSE i

\* Marked frames are the reserved ones and those some page has.
FrameInv ==
  /\ FramesOwnedOnce
  /\ 0 .. Reserved - 1 \subseteq page_frame_map
  /\ \A p \in Pid : \A i \in PagesOf(p) : FrameOf(p, i) \in page_frame_map
  /\ \A f \in page_frame_map :
       f < Reserved \/ \E p \in Pid : \E i \in PagesOf(p) : FrameOf(p, i) = f

\* The counters count.
CountInv ==
  /\ free_page_frame_count = Cardinality(Frame \ page_frame_map)
  /\ num_process = Cardinality(process_active)
                     - (IF kpc = "load" THEN 1 ELSE 0)

MapsKernel(p) ==
  /\ page_dir[p][KERNEL_INDEX] = 0
  /\ \A k \in 0 .. HEAP_PAGE_COUNT - 1 : page_dir[p][HEAP_INDEX + k] = KERNEL_PAGE_COUNT + k

\* d maps the kernel stack of s to the frame s has it in.
MapsStack(d, s) == page_dir[d][StackIndex(s)] = page_dir[s][StackIndex(s)]

CpuInv ==
  /\ \A p \in Pid : p \in process_active \/ (Building /\ p = job_pid) => MapsKernel(p)
  /\ esp0 = current_process
  /\ kpc # "switch" => stack = current_process
  /\ cr3 = IF kpc = "load" THEN job_pid ELSE current_process
  /\ stack \in process_active
  /\ kpc \in {"map", "link", "load"} => MapsStack(job_pid, current_process)
  /\ kpc = "switch" => MapsStack(current_process, stack)

\* Every tick that found the kernel at work or dispatched it is acknowledged.
TimerInv ==
  /\ 0 \notin fresh
  /\ current_process = 0 /\ kpc \notin {"pick", "switch"} => irq0 = "idle"

\* The inductive invariant of process management, all of the above.
IInv ==
  /\ TypeOK /\ ControlInv /\ StateInv /\ RingInv /\ PageInv /\ FrameInv
  /\ CountInv /\ CpuInv /\ TimerInv

\* Of the ring IInv says only that next_pid and previous_pid are inverse to each
\* other.  That there is one ring takes an order of the active slots: r goes
\* along next_pid from the kernel through all of them and back.
RingOrder(n, r) ==
  /\ n \in 1 .. MAX_PROCESS /\ r \in [0 .. n - 1 -> process_active]
  /\ r[0] = 0
  /\ \A p \in process_active : \E k \in 0 .. n - 1 : r[k] = p
  /\ \A j, k \in 0 .. n - 1 : r[j] = r[k] => j = k
  /\ \A k \in 0 .. n - 2 : next_pid[r[k]] = r[k + 1]
  /\ next_pid[r[n - 1]] = 0

OneRing == \E n \in 1 .. MAX_PROCESS : \E r \in [0 .. n - 1 -> process_active] : RingOrder(n, r)

\* Whom a scheduler at work has passed over is dead: between the one that has
\* the CPU and the one it looks at, in turn order, there is no other.
PassedOverDead ==
  kpc = "pick" =>
    \E k \in 1 .. RingLength :
      /\ Turn!Turns[k] = job_pid
      /\ \A j \in 1 .. k - 1 : Turn!Turns[j] \in Dead
=============================================================================
