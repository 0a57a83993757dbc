--------------------------- MODULE Process_proofs ---------------------------
(***************************************************************************)
(* Proofs of the safety properties of process management for every size    *)
(* of the machine: first what the slots, the frames and the directories    *)
(* keep, then that there is one ring, which goes through all active slots, *)
(* and that it gives every process its turn.                               *)
(***************************************************************************)
EXTENDS ProcessInv, Induction, FiniteSetTheorems

\* Arithmetic facts about the constants that the steps below rely on.
LEMMA Layout ==
  /\ Reserved \in Nat /\ Reserved > 0 /\ Reserved <= PAGE_FRAME_MAX_COUNT
  /\ 0 \in Frame /\ 0 \in Pid /\ 0 \in Index
  /\ Slot \subseteq Index
  /\ \A p \in Pid : StackIndex(p) \in Index
  /\ KernelDirectory \in [Index -> Frame]
<1> USE PagingAssumption DEF Reserved, Frame, Pid, Index, Slot
<1>1. KernelDirectory \in [Index -> Frame]
  BY DEF KernelDirectory
<1>2. \A p \in Pid : StackIndex(p) \in Index
  BY DEF StackIndex
<1>3. QED
  BY <1>1, <1>2

\* What the operations on directories and on the frame map return.
LEMMA CloneEntryType ==
  ASSUME NEW virt \in Index, NEW src \in [Index -> Frame], NEW dest \in [Index -> Frame]
  PROVE  CloneEntry(virt, src, dest) \in [Index -> Frame]
BY DEF CloneEntry

\* paging_dir_update leaves a page directory.
LEMMA DirUpdateType ==
  ASSUME NEW f \in Frame, NEW virt, NEW d \in [Index -> Frame]
  PROVE  DirUpdate(f, virt, d) \in [Index -> Frame]
BY DEF DirUpdate

PagingTypeOK ==
  /\ page_frame_map \subseteq Frame
  /\ free_page_frame_count \in Int
  /\ page_dir \in [Pid -> [Index -> Frame]]

\* paging_allocate_page_frame keeps the frame manager well typed.
LEMMA AllocateType ==
  ASSUME PagingTypeOK, NEW p \in Pid, NEW virt, AllocatePageFrame(p, virt)
  PROVE  PagingTypeOK'
<1>1. PICK f \in Frame :
        /\ page_dir' = [page_dir EXCEPT ![p] = DirUpdate(f, virt, page_dir[p])]
        /\ page_frame_map' = page_frame_map \cup {f}
        /\ free_page_frame_count' = free_page_frame_count - 1
  BY DEF AllocatePageFrame
<1>2. DirUpdate(f, virt, page_dir[p]) \in [Index -> Frame]
  BY DirUpdateType DEF PagingTypeOK
<1>3. QED
  BY <1>1, <1>2 DEF PagingTypeOK

\* paging_free_page_frame keeps the frame manager well typed.
LEMMA FreeType ==
  ASSUME PagingTypeOK, NEW p \in Pid, NEW virt \in Index, FreePageFrame(p, virt)
  PROVE  PagingTypeOK'
<1>1. CASE page_dir[p][virt] \notin page_frame_map
  BY <1>1 DEF FreePageFrame, PagingTypeOK, pagingVars
<1>2. CASE page_dir[p][virt] \in page_frame_map
  <2>1. DirUpdate(0, virt, page_dir[p]) \in [Index -> Frame]
    BY Layout, DirUpdateType DEF PagingTypeOK
  <2>2. /\ page_dir' = [page_dir EXCEPT ![p] = DirUpdate(0, virt, page_dir[p])]
        /\ page_frame_map' = page_frame_map \ {page_dir[p][virt]}
        /\ free_page_frame_count' = free_page_frame_count + 1
    BY <1>2 DEF FreePageFrame
  <2>3. QED
    BY <2>1, <2>2 DEF PagingTypeOK
<1>3. QED
  BY <1>1, <1>2

\* The ceiling division of a size that includes the stack gives a page or more.
LEMMA PagesForBytes == \A n \in Nat : n >= 4 => n \div 4 \in Nat /\ n \div 4 >= 1
OBVIOUS

\* The frame amount of a request is a number of at least two pages.
LEMMA FrameAmountType ==
  ASSUME NEW size \in RequestSizes \cup {BootSize}
  PROVE  FrameAmount(size) \in Nat /\ FrameAmount(size) >= 2
<1>1. size \in Nat
  <2>1. CASE size \in RequestSizes
    BY <2>1, ProcessAssumption
  <2>2. CASE size = BootSize
    BY <2>2, ProcessAssumption
  <2>3. QED
    BY <2>1, <2>2
<1> DEFINE bytes == size + 4
<1>2. bytes \in Nat /\ bytes >= 4
  BY <1>1
<1> HIDE DEF bytes
<1>3. bytes \div 4 \in Nat /\ bytes \div 4 >= 1
  BY <1>2, PagesForBytes
<1>4. bytes \div 4 + 1 \in Nat /\ bytes \div 4 + 1 >= 2
  BY <1>3
<1>5. QED
  BY <1>4 DEF FrameAmount, bytes

\* The scan stays within the process table.
LEMMA NextScanType == ASSUME scan \in Pid, NextScan PROVE scan' \in Pid
BY PagingAssumption DEF NextScan, Pid
-----------------------------------------------------------------------------
(* Types *)

\* The initial state is well typed.
LEMMA InitType == Init => TypeOK
<1> SUFFICES ASSUME Init PROVE TypeOK
  OBVIOUS
<1>1. PagingTypeOK
  BY Layout, PagingAssumption DEF Init, PagingInit, PagingTypeOK, Frame, Reserved
<1>2. virt_addr_used \in [Pid -> [Slot -> Index]]
  BY Layout DEF Init
<1>3. QED
  BY <1>1, <1>2, Layout, PagingAssumption, ProcessAssumption
  DEF Init, PagingTypeOK, TypeOK, ProcState, KPC

\* Every step keeps the state well typed.
LEMMA NextType == TypeOK /\ [Next]_vars => TypeOK'
<1> SUFFICES ASSUME TypeOK, [Next]_vars PROVE TypeOK'
  OBVIOUS
<1> USE DEF TypeOK, KPC
<1>0. 0 \in Frame /\ 0 \in Pid /\ 0 \in 0 .. MAX_PROCESS_FRAMES
  BY Layout, PagingAssumption
<1>1. ASSUME NEW size \in RequestSizes \cup {BootSize}, CreateRefuse(size)
      PROVE  TypeOK'
  BY <1>1 DEF CreateRefuse, NextBoot, AckSyscall, pagingVars, pcbVars, listVars, ctlVars
<1>2. ASSUME NEW size \in RequestSizes \cup {BootSize}, CreateAccept(size)
      PROVE  TypeOK'
  BY <1>2, FrameAmountType, PagingAssumption
     DEF CreateAccept, CanCreate, NextBoot, EntryStack, pagingVars, pcbVars, listVars
<1>3. CASE CreateDirectory
  BY <1>3, Layout DEF CreateDirectory, CloneEntry, ProcState, listVars, cpuVars, scanVars
<1>4. CASE CreatePage
  <2>1. /\ job_page + 1 \in Nat
        /\ job_page \in Slot => job_page \in Index
        /\ StackIndex(job_pid) \in Index
    BY Layout
  <2> DEFINE virt == IF job_page = job_amount - 1 THEN StackIndex(job_pid) ELSE job_page
  <2>2. virt_addr_used' = [virt_addr_used EXCEPT ![job_pid][job_page] = virt]
        /\ AllocatePageFrame(job_pid, virt)
    BY <1>4 DEF CreatePage
  <2>3. job_page \in Slot => virt \in Index
    BY <2>1
  <2>4. virt_addr_used' \in [Pid -> [Slot -> Index]]
    BY <2>2, <2>3
  <2>5. PagingTypeOK'
    BY <2>2, AllocateType DEF PagingTypeOK
  <2>6. QED
    BY <1>4, <2>1, <2>4, <2>5 DEF CreatePage, PagingTypeOK, listVars, cpuVars, scanVars
<1>5. CASE CreateLink
  BY <1>5, <1>0 DEF CreateLink, pagingVars, scanVars
<1>6. CASE CreateLoad
  BY <1>6, <1>0 DEF CreateLoad, AckSyscall, Return, pagingVars, pcbVars, scanVars
<1>7. ASSUME NEW pid \in Pid, Stop(pid)
      PROVE  TypeOK'
  BY <1>7 DEF ProcState, Stop, UserSyscall, pagingVars, listVars, ctlVars, scanVars
<1>8. CASE Exit
  BY <1>8 DEF ProcState, Exit, UserSyscall, pagingVars, listVars, ctlVars, scanVars
<1>9. CASE OtherSyscall
  BY <1>9 DEF OtherSyscall, UserSyscall, pagingVars, pcbVars, listVars, ctlVars, scanVars
<1>10. CASE ScanLook
  BY <1>10, NextScanType
     DEF ScanLook, pagingVars, pcbVars, listVars, cpuVars, ctlVars
<1>11. CASE CleanBegin
  BY <1>11, NextScanType
     DEF CleanBegin, pagingVars, pcbVars, listVars, cpuVars
<1>12. CASE CleanPage
  <2>1. virt_addr_used[job_pid][job_page] \in Index
    BY <1>12, PagingAssumption DEF CleanPage, Slot
  <2>2. PagingTypeOK'
    BY <1>12, <2>1, FreeType DEF CleanPage, PagingTypeOK
  <2>3. QED
    BY <1>12, <2>2 DEF CleanPage, PagingTypeOK, pcbVars, listVars, cpuVars, scanVars
<1>13. CASE CleanUnlink
  BY <1>13, <1>0 DEF ProcState, CleanUnlink, Return, pagingVars, cpuVars, scanVars
<1>14. CASE Timer
  BY <1>14 DEF Timer, EntryStack, pagingVars, pcbVars, listVars, scanVars
<1>15. CASE PickSkip
  BY <1>15 DEF PickSkip, pagingVars, pcbVars, listVars, cpuVars, scanVars
<1>16. CASE PickSame
  BY <1>16, <1>0 DEF PickSame, Return, pagingVars, pcbVars, listVars, scanVars
<1>17. CASE Switch
  <2>1. CloneEntry(StackIndex(current_process), page_dir[current_process], page_dir[job_pid])
          \in [Index -> Frame]
    BY Layout, CloneEntryType
  <2>2. QED
    BY <1>17, <2>1 DEF ProcState, Switch, listVars, scanVars
<1>18. CASE SwitchContext
  BY <1>18, <1>0 DEF SwitchContext, Return, pagingVars, pcbVars, listVars, scanVars
<1>19. CASE UNCHANGED vars
  BY <1>19 DEF vars, pagingVars, pcbVars, listVars, cpuVars, ctlVars, scanVars
<1>20. QED
  BY <1>1, <1>2, <1>3, <1>4, <1>5, <1>6, <1>7, <1>8, <1>9, <1>10, <1>11, <1>12,
     <1>13, <1>14, <1>15, <1>16, <1>17, <1>18, <1>19
  DEF Next, Create, Call, Collect, Tick

\* Every field of the process table, of the frame manager and of the CPU keeps
\* its type, whatever the size of the machine.
THEOREM TypeCorrect == Spec => []TypeOK
BY InitType, NextType, PTL DEF Spec
-----------------------------------------------------------------------------
(* Control, process states, the ring, the CPU and the timer *)

\* What is true of the ring alone, with the types it needs.
RingType ==
  /\ previous_pid \in [Pid -> Pid] /\ next_pid \in [Pid -> Pid]
  /\ process_active \subseteq Pid /\ last_process_pid \in Pid
  /\ job_pid \in Pid /\ 0 \in Pid

\* What the proofs about the ring need of the type invariant.
LEMMA RingTypeHolds == TypeOK => RingType
BY Layout DEF TypeOK, RingType

ringVars == <<previous_pid, next_pid, process_active, last_process_pid>>

\* Only a creation and a cleaning touch the ring.
LEMMA RingChange == [Next]_vars => CreateLink \/ CleanUnlink \/ UNCHANGED ringVars
BY DEF Next, Create, Call, Collect, Tick, CreateRefuse, CreateAccept, CreateDirectory, CreatePage, CreateLoad,
  Stop, Exit, OtherSyscall, ScanLook, CleanBegin, CleanPage, Timer, PickSkip, PickSame, Switch,
  SwitchContext, UserSyscall, vars, pcbVars, listVars, ringVars

\* A slot that is not in the ring is linked between the last one and the kernel.
LEMMA LinkKeepsRing ==
  ASSUME RingType, RingInv, 0 \in process_active, job_pid \notin process_active, CreateLink
  PROVE  RingInv'
<1> DEFINE j == job_pid
           last == last_process_pid
<1>1. /\ previous_pid' = [previous_pid EXCEPT ![j] = last, ![0] = j]
      /\ next_pid' = [next_pid EXCEPT ![j] = 0, ![last] = j]
      /\ last_process_pid' = j
      /\ process_active' = process_active \cup {j}
  BY DEF CreateLink
<1>2. /\ j # 0 /\ j # last /\ previous_pid[0] = last /\ last \in process_active
      /\ last \in Pid /\ j \in Pid
  BY DEF RingInv, RingType
<1>3. /\ next_pid'[j] = 0 /\ next_pid'[last] = j
      /\ previous_pid'[0] = j /\ previous_pid'[j] = last
      /\ \A p \in process_active : p # last => next_pid'[p] = next_pid[p]
      /\ \A p \in process_active : p # 0 => previous_pid'[p] = previous_pid[p]
  BY <1>1, <1>2 DEF RingType
<1>4. ASSUME NEW p \in process_active, p # last
      PROVE  next_pid[p] \in process_active /\ next_pid[p] # 0 /\ previous_pid[next_pid[p]] = p
  BY <1>2, <1>4 DEF RingInv
<1>5. ASSUME NEW p \in process_active, p # 0
      PROVE  previous_pid[p] \in process_active /\ previous_pid[p] # last
             /\ next_pid[previous_pid[p]] = p
  BY <1>5 DEF RingInv
<1>6. ASSUME NEW p \in process_active
      PROVE  next_pid'[p] \in process_active' /\ previous_pid'[next_pid'[p]] = p
  <2>1. CASE p = last
    BY <1>1, <1>3, <2>1
  <2>2. CASE p # last
    <3>1. next_pid'[p] = next_pid[p]
      BY <1>3, <2>2
    <3>2. previous_pid'[next_pid[p]] = previous_pid[next_pid[p]]
      BY <1>3, <1>4, <2>2
    <3>3. QED
      BY <1>1, <1>4, <2>2, <3>1, <3>2
  <2>3. QED
    BY <2>1, <2>2
<1>7. ASSUME NEW p \in process_active
      PROVE  previous_pid'[p] \in process_active' /\ next_pid'[previous_pid'[p]] = p
  <2>1. CASE p = 0
    BY <1>1, <1>3, <2>1
  <2>2. CASE p # 0
    <3>1. previous_pid'[p] = previous_pid[p]
      BY <1>3, <2>2
    <3>2. next_pid'[previous_pid[p]] = next_pid[previous_pid[p]]
      BY <1>3, <1>5, <2>2
    <3>3. QED
      BY <1>1, <1>5, <2>2, <3>1, <3>2
  <2>3. QED
    BY <2>1, <2>2
<1>8. /\ next_pid'[j] \in process_active' /\ previous_pid'[next_pid'[j]] = j
      /\ previous_pid'[j] \in process_active' /\ next_pid'[previous_pid'[j]] = j
      /\ last_process_pid' \in process_active' /\ next_pid'[last_process_pid'] = 0
  BY <1>1, <1>2, <1>3
<1>9. process_active' = process_active \cup {j}
  BY <1>1
<1> HIDE DEF j
<1>10. QED
  BY <1>6, <1>7, <1>8, <1>9 DEF RingInv

\* A slot other than the kernel's is taken out of the ring.
LEMMA UnlinkKeepsRing ==
  ASSUME RingType, RingInv, job_pid \in process_active, job_pid # 0, CleanUnlink
  PROVE  RingInv'
<1> DEFINE j == job_pid
           prev == previous_pid[j]
           next == next_pid[j]
<1>1. /\ previous_pid' = [previous_pid EXCEPT ![next] = prev]
      /\ next_pid' = [next_pid EXCEPT ![prev] = next]
      /\ process_active' = process_active \ {j}
      /\ last_process_pid' = IF j = last_process_pid THEN prev ELSE last_process_pid
  BY DEF CleanUnlink
<1>2. /\ prev \in process_active /\ next \in process_active
      /\ next_pid[prev] = j /\ previous_pid[next] = j
  BY DEF RingInv
<1>3. /\ next_pid'[prev] = next /\ previous_pid'[next] = prev
      /\ \A p \in process_active : p # prev => next_pid'[p] = next_pid[p]
      /\ \A p \in process_active : p # next => previous_pid'[p] = previous_pid[p]
  BY <1>1, <1>2 DEF RingType
<1>4. ASSUME NEW p \in process_active', p # prev
      PROVE  /\ next_pid[p] \in process_active /\ next_pid[p] \notin {j, next}
             /\ previous_pid[next_pid[p]] = p
  BY <1>1, <1>2, <1>4 DEF RingInv
<1>5. ASSUME NEW p \in process_active', p # next
      PROVE  /\ previous_pid[p] \in process_active /\ previous_pid[p] \notin {j, prev}
             /\ next_pid[previous_pid[p]] = p
  BY <1>1, <1>2, <1>5 DEF RingInv
<1>6. ASSUME NEW p \in process_active'
      PROVE  next_pid'[p] \in process_active' /\ previous_pid'[next_pid'[p]] = p
  <2>1. CASE p = prev
    BY <1>1, <1>2, <1>3, <2>1
  <2>2. CASE p # prev
    BY <1>1, <1>3, <1>4, <2>2
  <2>3. QED
    BY <2>1, <2>2
<1>7. ASSUME NEW p \in process_active'
      PROVE  previous_pid'[p] \in process_active' /\ next_pid'[previous_pid'[p]] = p
  <2>1. CASE p = next
    BY <1>1, <1>2, <1>3, <2>1
  <2>2. CASE p # next
    BY <1>1, <1>3, <1>5, <2>2
  <2>3. QED
    BY <2>1, <2>2
<1>8. last_process_pid' \in process_active' /\ next_pid'[last_process_pid'] = 0
  <2>1. CASE j = last_process_pid
    BY <1>1, <1>2, <1>3, <2>1 DEF RingInv
  <2>2. CASE j # last_process_pid
    BY <1>1, <1>2, <1>3, <2>2 DEF RingInv
  <2>3. QED
    BY <2>1, <2>2
<1>9. QED
  BY <1>6, <1>7, <1>8 DEF RingInv

\* Every step keeps next_pid and previous_pid inverse to each other on the
\* active slots.
LEMMA RingStep == IInv /\ [Next]_vars => RingInv'
<1> SUFFICES ASSUME IInv, [Next]_vars PROVE RingInv'
  OBVIOUS
<1>1. RingType /\ RingInv /\ 0 \in process_active
  BY RingTypeHolds DEF IInv, StateInv
<1>2. CASE CreateLink
  <2>1. job_pid \notin process_active
    BY <1>2 DEF IInv, ControlInv, Building, CreateLink
  <2>2. QED
    BY <1>1, <1>2, <2>1, LinkKeepsRing
<1>3. CASE CleanUnlink
  <2>1. job_pid # 0 /\ job_pid \in process_active
    BY <1>1, <1>3 DEF IInv, ControlInv, StateInv, Building, CleanUnlink, RingType
  <2>2. QED
    BY <1>1, <1>3, <2>1, UnlinkKeepsRing
<1>4. CASE UNCHANGED ringVars
  BY <1>1, <1>4 DEF RingInv, ringVars
<1>5. QED
  BY <1>2, <1>3, <1>4, RingChange
-----------------------------------------------------------------------------
(* Process states *)

StateType ==
  /\ state \in [Pid -> ProcState] /\ frame_amount \in [Pid -> 0 .. MAX_PROCESS_FRAMES]
  /\ process_active \subseteq Pid /\ job_pid \in Pid /\ current_process \in Pid /\ 0 \in Pid

\* What the proofs about process states need of the type invariant.
LEMMA StateTypeHolds == TypeOK => StateType
BY Layout DEF TypeOK, StateType

stateVars == <<state, frame_amount, process_active, current_process>>

\* The steps that change what StateInv speaks of.
LEMMA StateChange ==
  ASSUME [Next]_vars
  PROVE  \/ CreateDirectory \/ CreatePage \/ CreateLink
         \/ \E pid \in Pid : Stop(pid)
         \/ Exit \/ CleanUnlink \/ Switch
         \/ UNCHANGED stateVars /\ ~Building /\ ~Building'
         \/ UNCHANGED <<stateVars, kpc, job_pid>>
BY DEF Next, Create, Call, Collect, Tick, CreateRefuse, CreateAccept, CreateLoad, OtherSyscall, ScanLook, CleanBegin,
  CleanPage, Timer, PickSkip, PickSame, SwitchContext, UserSyscall, Return, Building,
  vars, pcbVars, listVars, ctlVars, stateVars

\* Every step keeps the states in agreement with the ring and the CPU.
LEMMA StateStep == IInv /\ [Next]_vars => StateInv'
<1> SUFFICES ASSUME IInv, [Next]_vars PROVE StateInv'
  OBVIOUS
<1>0. StateType /\ StateInv /\ ControlInv
  BY StateTypeHolds DEF IInv
<1> USE DEF StateType, ProcState
<1>1. CASE CreateDirectory
  <2>1. PICK pid \in Pid :
          /\ IsGeneratedPid(pid)
          /\ state' = [state EXCEPT ![pid] = "NEW"]
          /\ frame_amount' = [frame_amount EXCEPT ![pid] = job_amount]
          /\ job_pid' = pid
    BY <1>1 DEF CreateDirectory
  <2>2. /\ kpc = "create" /\ kpc' = "map" /\ pid \notin process_active
        /\ UNCHANGED <<process_active, current_process>>
    BY <1>1, <2>1 DEF CreateDirectory, IsGeneratedPid, listVars
  <2>3. QED
    BY <1>0, <2>1, <2>2 DEF StateInv, Building
<1>2. CASE CreatePage
  BY <1>0, <1>2 DEF StateInv, CreatePage, Building, listVars
<1>3. CASE CreateLink
  <2>1. job_amount \in 1 .. MAX_PROCESS_FRAMES /\ frame_amount[job_pid] = job_amount
    BY <1>0, <1>3 DEF ControlInv, CreateLink
  <2>2. QED
    BY <1>0, <1>3, <2>1 DEF StateInv, CreateLink, Building
<1>4. ASSUME NEW pid \in Pid, Stop(pid)
      PROVE  StateInv'
  BY <1>0, <1>4 DEF StateInv, Stop, UserSyscall, Building, listVars, ctlVars
<1>5. CASE Exit
  BY <1>0, <1>5 DEF StateInv, Exit, UserSyscall, Building, listVars, ctlVars
<1>6. CASE CleanUnlink
  <2>1. kpc = "clean" /\ job_pid # 0 /\ current_process = 0
    BY <1>0, <1>6 DEF ControlInv, CleanUnlink
  <2>2. QED
    BY <1>0, <1>6, <2>1 DEF StateInv, CleanUnlink, Building, Return
<1>7. CASE Switch
  <2>1. job_pid \in process_active /\ job_pid # current_process
    BY <1>0, <1>7 DEF ControlInv, Switch
  <2>2. QED
    BY <1>0, <1>7, <2>1 DEF StateInv, Switch, Building, listVars
<1>8. CASE UNCHANGED stateVars /\ ~Building /\ ~Building'
  BY <1>0, <1>8 DEF StateInv, stateVars
<1>9. CASE UNCHANGED <<stateVars, kpc, job_pid>>
  BY <1>0, <1>9 DEF StateInv, stateVars, Building
<1>10. QED
  BY <1>1, <1>2, <1>3, <1>4, <1>5, <1>6, <1>7, <1>8, <1>9, StateChange
-----------------------------------------------------------------------------
(* The locals of the section in progress *)

ControlType ==
  /\ StateType /\ scan \in Pid /\ next_pid \in [Pid -> Pid]
  /\ job_amount \in 0 .. MAX_PROCESS_FRAMES /\ job_page \in Nat
  /\ kpc \in KPC /\ scan_at \in {"look", "clean"}

\* What the proofs about the sections need of the type invariant.
LEMMA ControlTypeHolds == TypeOK => ControlType
BY StateTypeHolds DEF TypeOK, ControlType

\* Every step leaves the locals of the next section as that section needs them.
LEMMA ControlStep == IInv /\ [Next]_vars => ControlInv'
<1> SUFFICES ASSUME IInv, [Next]_vars PROVE ControlInv'
  OBVIOUS
<1>0. ControlType /\ StateInv /\ ControlInv
  BY ControlTypeHolds DEF IInv
<1> USE DEF ControlType, StateType, ProcState, KPC
<1>1. ASSUME NEW size \in RequestSizes \cup {BootSize}, CreateRefuse(size)
      PROVE  ControlInv'
  BY <1>0, <1>1 DEF ControlInv, Building, CreateRefuse, pcbVars, listVars, ctlVars
<1>2. ASSUME NEW size \in RequestSizes \cup {BootSize}, CreateAccept(size)
      PROVE  ControlInv'
  <2>1. job_amount' \in 1 .. MAX_PROCESS_FRAMES
    BY <1>2, FrameAmountType, PagingAssumption DEF CreateAccept, CanCreate
  <2>2. QED
    BY <1>0, <1>2, <2>1 DEF ControlInv, Building, CreateAccept, pcbVars, listVars
<1>3. CASE CreateDirectory
  <2>1. PICK pid \in Pid :
          /\ IsGeneratedPid(pid)
          /\ state' = [state EXCEPT ![pid] = "NEW"]
          /\ frame_amount' = [frame_amount EXCEPT ![pid] = job_amount]
          /\ job_pid' = pid
    BY <1>3 DEF CreateDirectory
  <2>2. pid # 0 /\ pid \notin process_active /\ pid # current_process
        /\ state[pid] # "TERMINATED"
    BY <1>0, <1>3, <2>1 DEF IsGeneratedPid, StateInv, Building, CreateDirectory
  <2>3. job_page = 0 /\ job_amount \in 1 .. MAX_PROCESS_FRAMES
    BY <1>0, <1>3 DEF ControlInv, CreateDirectory
  <2>4. QED
    BY <1>0, <1>3, <2>1, <2>2, <2>3
    DEF ControlInv, Building, CreateDirectory, listVars, scanVars
<1>4. CASE CreatePage
  BY <1>0, <1>4 DEF ControlInv, Building, CreatePage, listVars, scanVars
<1>5. CASE CreateLink
  BY <1>0, <1>5 DEF ControlInv, Building, CreateLink, scanVars
<1>6. CASE CreateLoad
  BY <1>0, <1>6 DEF ControlInv, Building, CreateLoad, Return, pcbVars, scanVars
<1>7. ASSUME NEW pid \in Pid, Stop(pid)
      PROVE  ControlInv'
  BY <1>0, <1>7 DEF ControlInv, Building, Stop, UserSyscall, listVars, ctlVars, scanVars
<1>8. CASE Exit
  BY <1>0, <1>8 DEF ControlInv, Building, Exit, UserSyscall, listVars, ctlVars, scanVars
<1>9. CASE OtherSyscall
  BY <1>0, <1>9
  DEF ControlInv, Building, OtherSyscall, UserSyscall, pcbVars, listVars, ctlVars, scanVars
<1>10. CASE ScanLook
  BY <1>0, <1>10 DEF ControlInv, Building, ScanLook, pcbVars, listVars, ctlVars
<1>11. CASE CleanBegin
  BY <1>0, <1>11 DEF ControlInv, StateInv, Building, CleanBegin, pcbVars, listVars
<1>12. CASE CleanPage
  BY <1>0, <1>12 DEF ControlInv, Building, CleanPage, pcbVars, listVars, scanVars
<1>13. CASE CleanUnlink
  BY <1>0, <1>13 DEF ControlInv, Building, CleanUnlink, Return, scanVars
<1>14. CASE Timer
  BY <1>0, <1>14 DEF ControlInv, StateInv, RingInv, IInv, Building, Timer, pcbVars, listVars, scanVars
<1>15. CASE PickSkip
  BY <1>0, <1>15 DEF ControlInv, RingInv, IInv, Building, PickSkip, pcbVars, listVars, scanVars
<1>16. CASE PickSame
  BY <1>0, <1>16 DEF ControlInv, Building, PickSame, Return, pcbVars, listVars, scanVars
<1>17. CASE Switch
  BY <1>0, <1>17 DEF ControlInv, Building, Switch, listVars, scanVars
<1>18. CASE SwitchContext
  BY <1>0, <1>18 DEF ControlInv, Building, SwitchContext, Return, pcbVars, listVars, scanVars
<1>19. CASE UNCHANGED vars
  BY <1>0, <1>19 DEF ControlInv, Building, vars, pcbVars, listVars, ctlVars, scanVars
<1>20. QED
  BY <1>1, <1>2, <1>3, <1>4, <1>5, <1>6, <1>7, <1>8, <1>9, <1>10, <1>11, <1>12,
     <1>13, <1>14, <1>15, <1>16, <1>17, <1>18, <1>19
  DEF Next, Create, Call, Collect, Tick
-----------------------------------------------------------------------------
(* What the operations do to the directories *)

\* User pages, heap pages, the kernel's page and the kernel stacks do not overlap.
LEMMA IndicesApart ==
  /\ KERNEL_INDEX \in Index /\ StackIndex(0) = KERNEL_INDEX
  /\ \A p, q \in Pid : p # q => StackIndex(p) # StackIndex(q)
  /\ \A k \in 0 .. HEAP_PAGE_COUNT - 1 : HEAP_INDEX + k \in Index
  /\ \A p \in Pid, k \in 0 .. HEAP_PAGE_COUNT - 1 : StackIndex(p) # HEAP_INDEX + k
  /\ \A i \in Slot, p \in Pid : i # StackIndex(p)
  /\ \A i \in Slot, k \in 0 .. HEAP_PAGE_COUNT - 1 : i # HEAP_INDEX + k
<1> USE PagingAssumption DEF Index, Pid, Slot, StackIndex
<1>1. KERNEL_INDEX \in Index /\ StackIndex(0) = KERNEL_INDEX
  OBVIOUS
<1>2. \A p, q \in Pid : p # q => StackIndex(p) # StackIndex(q)
  OBVIOUS
<1>3. \A k \in 0 .. HEAP_PAGE_COUNT - 1 : HEAP_INDEX + k \in Index
  OBVIOUS
<1>4. \A p \in Pid, k \in 0 .. HEAP_PAGE_COUNT - 1 : StackIndex(p) # HEAP_INDEX + k
  OBVIOUS
<1>5. \A i \in Slot, p \in Pid : i # StackIndex(p)
  OBVIOUS
<1>6. \A i \in Slot, k \in 0 .. HEAP_PAGE_COUNT - 1 : i # HEAP_INDEX + k
  OBVIOUS
<1>7. QED
  BY <1>1, <1>2, <1>3, <1>4, <1>5, <1>6

\* The kernel's directory maps the kernel and the heap.
LEMMA KernelDirectoryMaps ==
  /\ KernelDirectory[KERNEL_INDEX] = 0
  /\ \A k \in 0 .. HEAP_PAGE_COUNT - 1 : KernelDirectory[HEAP_INDEX + k] = KERNEL_PAGE_COUNT + k
<1>1. KernelDirectory[KERNEL_INDEX] = 0
  BY PagingAssumption, IndicesApart DEF KernelDirectory
<1>2. ASSUME NEW k \in 0 .. HEAP_PAGE_COUNT - 1
      PROVE  KernelDirectory[HEAP_INDEX + k] = KERNEL_PAGE_COUNT + k
  <2>1. HEAP_INDEX + k \in Index
    BY IndicesApart
  <2>2. QED
    BY <2>1, PagingAssumption DEF KernelDirectory
<1>3. QED
  BY <1>1, <1>2

\* An allocation writes one entry of one directory: the first free frame.
LEMMA AllocateWrites ==
  ASSUME PagingTypeOK, NEW p \in Pid, NEW virt \in Index, AllocatePageFrame(p, virt)
  PROVE  \E f \in Frame :
           /\ f \notin page_frame_map
           /\ page_frame_map' = page_frame_map \cup {f}
           /\ free_page_frame_count' = free_page_frame_count - 1
           /\ page_dir'[p][virt] = f
           /\ \A i \in Index : i # virt => page_dir'[p][i] = page_dir[p][i]
           /\ \A q \in Pid : q # p => page_dir'[q] = page_dir[q]
<1>1. PICK f \in Frame :
        /\ IsFirstFree(f)
        /\ page_dir' = [page_dir EXCEPT ![p] = DirUpdate(f, virt, page_dir[p])]
        /\ page_frame_map' = page_frame_map \cup {f}
        /\ free_page_frame_count' = free_page_frame_count - 1
  BY DEF AllocatePageFrame
<1>2. f \notin page_frame_map
  BY <1>1 DEF IsFirstFree
<1>3. DirUpdate(f, virt, page_dir[p]) = [page_dir[p] EXCEPT ![virt] = f]
  BY <1>2 DEF DirUpdate
<1>4. page_dir[p] \in [Index -> Frame]
  BY DEF PagingTypeOK
<1>5. page_dir'[p] = [page_dir[p] EXCEPT ![virt] = f]
  BY <1>1, <1>3 DEF PagingTypeOK
<1>6. page_dir'[p][virt] = f /\ \A i \in Index : i # virt => page_dir'[p][i] = page_dir[p][i]
  BY <1>4, <1>5
<1>7. \A q \in Pid : q # p => page_dir'[q] = page_dir[q]
  BY <1>1 DEF PagingTypeOK
<1>8. QED
  BY <1>1, <1>2, <1>6, <1>7

\* Frame 0 is the kernel's, so the update that follows a free does nothing.
LEMMA FreeKeepsDirectories ==
  ASSUME PagingTypeOK, 0 \in page_frame_map, NEW p \in Pid, NEW virt, FreePageFrame(p, virt)
  PROVE  page_dir' = page_dir
BY DEF FreePageFrame, DirUpdate, PagingTypeOK, pagingVars

\* The kernel's own frames are always marked used.
LEMMA KernelFrameUsed == IInv => 0 \in page_frame_map
BY Layout DEF IInv, FrameInv
-----------------------------------------------------------------------------
(* Directories, stacks and the timer *)

\* A step that changes no directory changes no mapping of kernel or stack.
LEMMA SameDirectories ==
  ASSUME page_dir' = page_dir
  PROVE  \A p, q \in Pid : MapsKernel(p)' = MapsKernel(p) /\ MapsStack(p, q)' = MapsStack(p, q)
BY DEF MapsKernel, MapsStack

\* The steps that leave every directory as it is keep CpuInv.
LEMMA CpuStepSame ==
  ASSUME IInv, [Next]_vars, page_dir' = page_dir
  PROVE  CpuInv' \/ CreateDirectory \/ CreatePage \/ Switch
<1>0. ControlType /\ CpuInv /\ ControlInv /\ stack \in Pid
  BY ControlTypeHolds DEF IInv, TypeOK
<1>a. \A p, q \in Pid : MapsKernel(p)' = MapsKernel(p) /\ MapsStack(p, q)' = MapsStack(p, q)
  BY SameDirectories
<1> USE DEF ControlType, StateType, KPC
<1>1. ASSUME NEW size \in RequestSizes \cup {BootSize}, CreateRefuse(size)
      PROVE  CpuInv'
  BY <1>0, <1>1, <1>a DEF CpuInv, Building, CreateRefuse, pcbVars, listVars, ctlVars
<1>2. ASSUME NEW size \in RequestSizes \cup {BootSize}, CreateAccept(size)
      PROVE  CpuInv'
  BY <1>0, <1>2, <1>a DEF CpuInv, Building, CreateAccept, EntryStack, pcbVars, listVars
<1>3. CASE CreateLink
  BY <1>0, <1>3, <1>a DEF CpuInv, ControlInv, Building, CreateLink
<1>4. CASE CreateLoad
  BY <1>0, <1>4, <1>a DEF CpuInv, ControlInv, Building, CreateLoad, Return, pcbVars
<1>5. ASSUME NEW pid \in Pid, Stop(pid)
      PROVE  CpuInv'
  BY <1>0, <1>5, <1>a DEF CpuInv, Building, Stop, UserSyscall, listVars, ctlVars
<1>6. CASE Exit
  BY <1>0, <1>6, <1>a DEF CpuInv, Building, Exit, UserSyscall, listVars, ctlVars
<1>7. CASE OtherSyscall
  BY <1>0, <1>7, <1>a DEF CpuInv, Building, OtherSyscall, UserSyscall, pcbVars, listVars, ctlVars
<1>8. CASE ScanLook
  BY <1>0, <1>8, <1>a DEF CpuInv, Building, ScanLook, pcbVars, listVars, cpuVars, ctlVars
<1>9. CASE CleanBegin
  BY <1>0, <1>9, <1>a DEF CpuInv, Building, CleanBegin, pcbVars, listVars, cpuVars
<1>10. CASE CleanPage
  BY <1>0, <1>10, <1>a DEF CpuInv, Building, CleanPage, pcbVars, listVars, cpuVars
<1>11. CASE CleanUnlink
  BY <1>0, <1>11, <1>a DEF CpuInv, ControlInv, Building, CleanUnlink, Return, cpuVars
<1>12. CASE Timer
  BY <1>0, <1>12, <1>a DEF CpuInv, Building, Timer, EntryStack, pcbVars, listVars
<1>13. CASE PickSkip
  BY <1>0, <1>13, <1>a DEF CpuInv, Building, PickSkip, pcbVars, listVars, cpuVars
<1>14. CASE PickSame
  BY <1>0, <1>14, <1>a DEF CpuInv, Building, PickSame, Return, pcbVars, listVars
<1>15. CASE SwitchContext
  BY <1>0, <1>15, <1>a, StateStep DEF CpuInv, StateInv, IInv, Building, SwitchContext, Return, pcbVars, listVars
<1>16. CASE UNCHANGED vars
  BY <1>0, <1>16, <1>a DEF CpuInv, Building, vars, pcbVars, listVars, cpuVars, ctlVars
<1>17. QED
  BY <1>1, <1>2, <1>3, <1>4, <1>5, <1>6, <1>7, <1>8, <1>9, <1>10, <1>11, <1>12,
     <1>13, <1>14, <1>15, <1>16
  DEF Next, Create, Call, Collect, Tick

\* The steps that write no directory.
LEMMA DirectoriesKept ==
  ASSUME IInv, [Next]_vars
  PROVE  page_dir' = page_dir \/ CreateDirectory \/ CreatePage \/ Switch
<1>1. CASE CleanPage
  <2>1. PagingTypeOK /\ 0 \in page_frame_map /\ job_pid \in Pid
    BY KernelFrameUsed DEF IInv, TypeOK, PagingTypeOK
  <2>2. QED
    BY <1>1, <2>1, FreeKeepsDirectories DEF CleanPage
<1>2. CASE ~CleanPage
  BY <1>2 DEF Next, Create, Call, Collect, Tick, CreateRefuse, CreateAccept, CreateLink, CreateLoad, Stop, Exit,
    OtherSyscall, ScanLook, CleanBegin, CleanUnlink, Timer, PickSkip, PickSame, SwitchContext,
    vars, pagingVars
<1>3. QED
  BY <1>1, <1>2

\* Every step keeps the stack in use mapped in the loaded directory.
LEMMA CpuStep == IInv /\ [Next]_vars => CpuInv'
<1> SUFFICES ASSUME IInv, [Next]_vars PROVE CpuInv'
  OBVIOUS
<1>0. /\ ControlType /\ PagingTypeOK /\ CpuInv /\ ControlInv /\ StateInv /\ stack \in Pid
      /\ ControlInv' /\ StateInv'
  BY ControlTypeHolds, ControlStep, StateStep DEF IInv, TypeOK, PagingTypeOK
<1> USE DEF ControlType, StateType, KPC
<1>1. CASE CreateDirectory
  <2>1. PICK pid \in Pid :
          /\ IsGeneratedPid(pid)
          /\ page_dir' = [page_dir EXCEPT ![pid] =
               CloneEntry(StackIndex(current_process), page_dir[current_process], KernelDirectory)]
          /\ job_pid' = pid
    BY <1>1 DEF CreateDirectory
  <2>2. pid # current_process /\ pid \notin process_active
    BY <1>0, <2>1 DEF IsGeneratedPid, StateInv
  <2>3. /\ page_dir'[pid] =
             [KernelDirectory EXCEPT ![StackIndex(current_process)] =
               page_dir[current_process][StackIndex(current_process)]]
        /\ \A q \in Pid : q # pid => page_dir'[q] = page_dir[q]
    BY <1>0, <2>1 DEF PagingTypeOK, CloneEntry
  <2>4. KernelDirectory \in [Index -> Frame] /\ StackIndex(current_process) \in Index
    BY <1>0, Layout
  <2>5. /\ page_dir'[pid][StackIndex(current_process)] =
             page_dir[current_process][StackIndex(current_process)]
        /\ \A i \in Index : i # StackIndex(current_process) =>
             page_dir'[pid][i] = KernelDirectory[i]
    BY <2>3, <2>4
  <2>6. MapsKernel(pid)'
    <3>1. page_dir'[pid][KERNEL_INDEX] = 0
      <4>1. CASE current_process = 0
        BY <1>0, <2>5, <4>1, IndicesApart DEF CpuInv, MapsKernel, StateInv
      <4>2. CASE current_process # 0
        <5>1. StackIndex(current_process) # KERNEL_INDEX
          BY <1>0, <4>2, IndicesApart
        <5>2. QED
          BY <2>5, <5>1, IndicesApart, KernelDirectoryMaps
      <4>3. QED
        BY <4>1, <4>2
    <3>2. ASSUME NEW k \in 0 .. HEAP_PAGE_COUNT - 1
          PROVE  page_dir'[pid][HEAP_INDEX + k] = KERNEL_PAGE_COUNT + k
      <4>1. HEAP_INDEX + k \in Index /\ HEAP_INDEX + k # StackIndex(current_process)
        BY <1>0, IndicesApart
      <4>2. QED
        BY <2>5, <4>1, KernelDirectoryMaps
    <3>3. QED
      BY <3>1, <3>2 DEF MapsKernel
  <2>7. \A q \in Pid : q # pid => MapsKernel(q)' = MapsKernel(q)
    BY <2>3 DEF MapsKernel
  <2>8. kpc' = "map" /\ UNCHANGED <<current_process, process_active, stack, esp0, cr3>>
    BY <1>1 DEF CreateDirectory, listVars, cpuVars
  <2>9. MapsStack(job_pid, current_process)'
    BY <2>1, <2>2, <2>3, <2>5, <2>8, <1>0 DEF MapsStack
  <2>10. \A q \in Pid : q \in process_active => MapsKernel(q)
    BY <1>0 DEF CpuInv
  <2>11. kpc = "create"
    BY <1>1 DEF CreateDirectory
  <2>12. QED
    BY <1>0, <2>1, <2>2, <2>6, <2>7, <2>8, <2>9, <2>10, <2>11 DEF CpuInv, Building
<1>2. CASE CreatePage
  <2> DEFINE virt == IF job_page = job_amount - 1 THEN StackIndex(job_pid) ELSE job_page
  <2>1. kpc = "map" /\ job_page \in Slot /\ job_pid # 0 /\ job_pid # current_process
    BY <1>0, <1>2, PagingAssumption DEF ControlInv, CreatePage, Slot
  <2>2. /\ virt \in Index /\ virt # KERNEL_INDEX /\ virt # StackIndex(current_process)
        /\ \A k \in 0 .. HEAP_PAGE_COUNT - 1 : virt # HEAP_INDEX + k
    <3>1. CASE job_page = job_amount - 1
      BY <1>0, <2>1, <3>1, Layout, IndicesApart
    <3>2. CASE job_page # job_amount - 1
      BY <1>0, <2>1, <3>2, Layout, IndicesApart
    <3>3. QED
      BY <3>1, <3>2
  <2>3. AllocatePageFrame(job_pid, virt)
    BY <1>2 DEF CreatePage
  <2> HIDE DEF virt
  <2>4. /\ \A i \in Index : i # virt => page_dir'[job_pid][i] = page_dir[job_pid][i]
        /\ \A q \in Pid : q # job_pid => page_dir'[q] = page_dir[q]
    BY <1>0, <2>2, <2>3, AllocateWrites
  <2>5. ASSUME NEW q \in Pid, MapsKernel(q)
        PROVE  MapsKernel(q)'
    BY <2>2, <2>4, <2>5, IndicesApart DEF MapsKernel
  <2>6. /\ kpc' \in {"map", "link"} /\ job_pid' = job_pid
        /\ UNCHANGED <<current_process, process_active, stack, esp0, cr3>>
    BY <1>2 DEF CreatePage, listVars, cpuVars
  <2>7. StackIndex(current_process) \in Index
    BY <1>0, Layout
  <2>8. MapsStack(job_pid, current_process)'
    BY <1>0, <2>1, <2>2, <2>4, <2>6, <2>7 DEF MapsStack, CpuInv
  <2>9. QED
    BY <1>0, <2>1, <2>5, <2>6, <2>8 DEF CpuInv, Building
<1>3. CASE Switch
  <2>1. /\ kpc = "pick" /\ job_pid # current_process /\ job_pid \in process_active
        /\ current_process' = job_pid /\ esp0' = job_pid /\ cr3' = job_pid
        /\ kpc' = "switch" /\ UNCHANGED <<process_active, stack, job_pid>>
        /\ page_dir' = [page_dir EXCEPT ![job_pid] =
             CloneEntry(StackIndex(current_process), page_dir[current_process], page_dir[job_pid])]
    BY <1>0, <1>3 DEF Switch, ControlInv, listVars
  <2>2. stack = current_process
    BY <1>0, <2>1 DEF CpuInv
  <2>3. /\ page_dir'[job_pid] = [page_dir[job_pid] EXCEPT ![StackIndex(current_process)] =
             page_dir[current_process][StackIndex(current_process)]]
        /\ \A q \in Pid : q # job_pid => page_dir'[q] = page_dir[q]
    BY <1>0, <2>1 DEF PagingTypeOK, CloneEntry
  <2>4. page_dir[job_pid] \in [Index -> Frame] /\ StackIndex(current_process) \in Index
    BY <1>0, Layout DEF PagingTypeOK
  <2>5. /\ page_dir'[job_pid][StackIndex(current_process)] =
             page_dir[current_process][StackIndex(current_process)]
        /\ \A i \in Index : i # StackIndex(current_process) =>
             page_dir'[job_pid][i] = page_dir[job_pid][i]
    BY <2>3, <2>4
  <2>6. MapsKernel(job_pid)'
    <3>1. MapsKernel(job_pid) /\ MapsKernel(current_process)
      BY <1>0, <2>1 DEF CpuInv, StateInv
    <3>2. page_dir'[job_pid][KERNEL_INDEX] = 0
      BY <1>0, <2>5, <3>1, IndicesApart DEF MapsKernel
    <3>3. ASSUME NEW k \in 0 .. HEAP_PAGE_COUNT - 1
          PROVE  page_dir'[job_pid][HEAP_INDEX + k] = KERNEL_PAGE_COUNT + k
      BY <1>0, <2>5, <3>1, IndicesApart DEF MapsKernel
    <3>4. QED
      BY <2>1, <3>2, <3>3 DEF MapsKernel
  <2>7. \A q \in Pid : q # job_pid => MapsKernel(q)' = MapsKernel(q)
    BY <2>3 DEF MapsKernel
  <2>8. MapsStack(current_process, stack)'
    BY <1>0, <2>1, <2>2, <2>3, <2>5 DEF MapsStack
  <2>9. QED
    BY <1>0, <2>1, <2>6, <2>7, <2>8 DEF CpuInv, Building
<1>4. CASE page_dir' = page_dir
  BY <1>1, <1>2, <1>3, <1>4, CpuStepSame
<1>5. QED
  BY <1>1, <1>2, <1>3, <1>4, DirectoriesKept

\* Every step that returns to the kernel loop has acknowledged the timer.
LEMMA TimerStep == IInv /\ [Next]_vars => TimerInv'
<1> SUFFICES ASSUME IInv, [Next]_vars PROVE TimerInv'
  OBVIOUS
<1>0. ControlInv /\ TimerInv
  BY DEF IInv
<1>1. 0 \notin fresh'
  BY <1>0 DEF TimerInv, ControlInv, Next, Create, Call, Collect, Tick, CreateRefuse, CreateAccept, CreateDirectory,
    CreatePage, CreateLink, CreateLoad, Stop, Exit, OtherSyscall, ScanLook, CleanBegin, CleanPage,
    CleanUnlink, Timer, PickSkip, PickSame, Switch, SwitchContext, UserSyscall, vars, cpuVars
<1>2. current_process' = 0 /\ kpc' \notin {"pick", "switch"} => irq0' = "idle"
  BY <1>0 DEF TimerInv, ControlInv, Next, Create, Call, Collect, Tick, CreateRefuse, CreateAccept, CreateDirectory,
    CreatePage, CreateLink, CreateLoad, Stop, Exit, OtherSyscall, ScanLook, CleanBegin, CleanPage,
    CleanUnlink, Timer, PickSkip, PickSame, Switch, SwitchContext, UserSyscall, AckSyscall, Return,
    vars, cpuVars, ctlVars
<1>3. QED
  BY <1>1, <1>2 DEF TimerInv
-----------------------------------------------------------------------------
(* Pages, frames and counters; with them the safety theorems *)

\* The typing the steps below need.
FrameType ==
  /\ ControlType /\ PagingTypeOK
  /\ virt_addr_used \in [Pid -> [Slot -> Index]]

\* What the proofs about frames need of the type invariant.
LEMMA FrameTypeHolds == TypeOK => FrameType
BY ControlTypeHolds DEF TypeOK, FrameType, PagingTypeOK

ownVars == <<pagingVars, frame_amount, virt_addr_used, process_active>>

\* The steps that can change who owns which frame.
LEMMA OwnersChange ==
  ASSUME [Next]_vars
  PROVE  \/ CreateDirectory \/ CreatePage \/ CreateLink \/ CreateLoad
         \/ CleanBegin \/ CleanPage \/ CleanUnlink \/ Switch
         \/ UNCHANGED vars
         \/ /\ UNCHANGED ownVars
            /\ kpc \notin {"map", "link", "clean"} /\ kpc' \notin {"map", "link", "clean"}
BY DEF Next, Create, Call, Collect, Tick, CreateRefuse, CreateAccept, Stop, Exit, OtherSyscall, ScanLook, Timer,
  PickSkip, PickSame, SwitchContext, UserSyscall, Return, vars, pcbVars, listVars, ctlVars,
  cpuVars, ownVars

\* A step after which every page is where it was, and its frame too.
LEMMA SameOwners ==
  ASSUME FrameType, PageInv, FrameInv,
         page_frame_map' = page_frame_map,
         virt_addr_used' = virt_addr_used,
         \A p \in Pid : PagesOf(p)' = PagesOf(p),
         \A p \in Pid : \A i \in PagesOf(p) :
           frame_amount'[p] = frame_amount[p] /\ FrameOf(p, i)' = FrameOf(p, i)
  PROVE  PageInv' /\ FrameInv'
<1>1. PageInv'
  BY DEF PageInv
<1>2. FramesOwnedOnce'
  BY DEF FrameInv, FramesOwnedOnce
<1>3. /\ 0 .. Reserved - 1 \subseteq page_frame_map'
      /\ \A p \in Pid : \A i \in PagesOf(p)' : FrameOf(p, i)' \in page_frame_map'
  BY DEF FrameInv
<1>4. ASSUME NEW f \in page_frame_map', ~(f < Reserved)
      PROVE  \E p \in Pid : \E i \in PagesOf(p)' : FrameOf(p, i)' = f
  BY <1>4 DEF FrameInv
<1>5. QED
  BY <1>1, <1>2, <1>3, <1>4 DEF FrameInv

\* A slot whose process is terminated is in the ring, and is not the kernel's.
LEMMA TerminatedIsActive ==
  ASSUME StateType, StateInv, NEW p \in Pid, state[p] = "TERMINATED"
  PROVE  p \in process_active /\ p # 0
BY DEF StateType, StateInv

\* A slot that starts to be built owns no page yet, and nobody else loses one.
LEMMA OwnersCreateDirectory ==
  ASSUME IInv, CreateDirectory
  PROVE  PageInv' /\ FrameInv'
<1>0. FrameType /\ ControlInv /\ PageInv /\ FrameInv
  BY FrameTypeHolds DEF IInv
<1> USE DEF FrameType, ControlType, StateType
<1>1. PICK pid \in Pid :
        /\ IsGeneratedPid(pid)
        /\ frame_amount' = [frame_amount EXCEPT ![pid] = job_amount]
        /\ page_dir' = [page_dir EXCEPT ![pid] =
             CloneEntry(StackIndex(current_process), page_dir[current_process], KernelDirectory)]
        /\ job_pid' = pid
  BY DEF CreateDirectory
<1>2. /\ kpc = "create" /\ kpc' = "map" /\ job_page = 0 /\ job_page' = 0
      /\ pid \notin process_active
      /\ UNCHANGED <<page_frame_map, virt_addr_used, process_active>>
  BY <1>0, <1>1 DEF ControlInv, CreateDirectory, IsGeneratedPid, listVars
<1>3. PagesOf(pid) = {} /\ PagesOf(pid)' = {}
  BY <1>1, <1>2 DEF PagesOf, Slot
<1>4. \A p \in Pid : p # pid => /\ frame_amount'[p] = frame_amount[p]
                                /\ page_dir'[p] = page_dir[p]
  BY <1>0, <1>1 DEF PagingTypeOK
<1>5. ASSUME NEW p \in Pid, p # pid
      PROVE  PagesOf(p)' = PagesOf(p)
  BY <1>1, <1>2, <1>4, <1>5 DEF PagesOf
<1>6. \A p \in Pid : PagesOf(p)' = PagesOf(p)
  BY <1>3, <1>5
<1>7. ASSUME NEW p \in Pid, NEW i \in PagesOf(p)
      PROVE  frame_amount'[p] = frame_amount[p] /\ FrameOf(p, i)' = FrameOf(p, i)
  BY <1>2, <1>3, <1>4 DEF FrameOf
<1>8. QED
  BY <1>0, <1>2, <1>6, <1>7, SameOwners

\* The page entries of the new process stop being those of a slot under
\* construction and become those of a process of the ring.
LEMMA OwnersCreateLink ==
  ASSUME IInv, CreateLink \/ CreateLoad \/ CleanBegin
  PROVE  PageInv' /\ FrameInv'
<1>0. FrameType /\ ControlInv /\ StateInv /\ PageInv /\ FrameInv
  BY FrameTypeHolds DEF IInv
<1> USE DEF FrameType, ControlType, StateType
<1>1. UNCHANGED <<pagingVars, frame_amount, virt_addr_used>>
  BY DEF CreateLink, CreateLoad, CleanBegin, pcbVars
<1>2. CASE CreateLink
  <2>1. /\ kpc = "link" /\ kpc' = "load" /\ job_pid' = job_pid /\ job_page' = job_page
        /\ process_active' = process_active \cup {job_pid}
        /\ job_pid \notin process_active /\ job_pid # 0
        /\ job_page = frame_amount[job_pid]
    BY <1>0, <1>2 DEF ControlInv, CreateLink, Building
  <2>2. \A p \in Pid : PagesOf(p)' = PagesOf(p)
    BY <1>1, <2>1 DEF PagesOf
  <2>3. QED
    BY <1>0, <1>1, <2>2, SameOwners DEF FrameOf, pagingVars
<1>3. CASE CreateLoad
  <2>1. kpc = "load" /\ kpc' = "run" /\ process_active' = process_active
    BY <1>3 DEF CreateLoad, Return
  <2>2. \A p \in Pid : PagesOf(p)' = PagesOf(p)
    BY <1>1, <2>1 DEF PagesOf
  <2>3. QED
    BY <1>0, <1>1, <2>2, SameOwners DEF FrameOf, pagingVars
<1>4. CASE CleanBegin
  <2>1. /\ kpc = "run" /\ kpc' = "clean" /\ process_active' = process_active
        /\ job_pid' = scan /\ job_page' = 0
        /\ scan \in process_active /\ scan # 0
    BY <1>0, <1>4, TerminatedIsActive DEF ControlInv, CleanBegin, listVars
  <2>2. ASSUME NEW p \in Pid
        PROVE  PagesOf(p)' = PagesOf(p)
    BY <1>1, <2>1 DEF PagesOf, Slot
  <2>3. QED
    BY <1>0, <1>1, <2>2, SameOwners DEF FrameOf, pagingVars
<1>5. QED
  BY <1>2, <1>3, <1>4

\* The slot that is given back owned no page any more.
LEMMA OwnersCleanUnlink ==
  ASSUME IInv, CleanUnlink
  PROVE  PageInv' /\ FrameInv'
<1>0. FrameType /\ PageInv /\ FrameInv
  BY FrameTypeHolds DEF IInv
<1> USE DEF FrameType, ControlType, StateType
<1>1. /\ UNCHANGED <<pagingVars, frame_amount, virt_addr_used>>
      /\ kpc = "clean" /\ kpc' = "run" /\ process_active' = process_active \ {job_pid}
      /\ job_page = frame_amount[job_pid]
  BY DEF CleanUnlink, Return
<1>2. ASSUME NEW p \in Pid
      PROVE  PagesOf(p)' = PagesOf(p)
  <2>1. CASE p = job_pid
    <3>1. \A i \in Slot : ~(job_page <= i /\ i < frame_amount[p])
      BY <1>0, <1>1, <2>1 DEF Slot
    <3>2. QED
      BY <1>1, <2>1, <3>1 DEF PagesOf
  <2>2. CASE p # job_pid
    BY <1>1, <2>2 DEF PagesOf
  <2>3. QED
    BY <2>1, <2>2
<1>3. QED
  BY <1>0, <1>1, <1>2, SameOwners DEF FrameOf, pagingVars

\* The only entry a switch writes is that of another process's kernel stack.
LEMMA OwnersSwitch ==
  ASSUME IInv, Switch
  PROVE  PageInv' /\ FrameInv'
<1>0. FrameType /\ ControlInv /\ PageInv /\ FrameInv
  BY FrameTypeHolds DEF IInv
<1> USE DEF FrameType, ControlType, StateType
<1>1. /\ UNCHANGED <<page_frame_map, frame_amount, virt_addr_used, process_active>>
      /\ kpc = "pick" /\ kpc' = "switch" /\ job_pid # current_process
      /\ page_dir' = [page_dir EXCEPT ![job_pid] =
           CloneEntry(StackIndex(current_process), page_dir[current_process], page_dir[job_pid])]
  BY DEF Switch, listVars
<1>2. \A p \in Pid : PagesOf(p)' = PagesOf(p)
  BY <1>1 DEF PagesOf
<1>3. /\ \A q \in Pid : q # job_pid => page_dir'[q] = page_dir[q]
      /\ page_dir'[job_pid] = [page_dir[job_pid] EXCEPT ![StackIndex(current_process)] =
           page_dir[current_process][StackIndex(current_process)]]
  BY <1>0, <1>1 DEF PagingTypeOK, CloneEntry
<1>4. page_dir[job_pid] \in [Index -> Frame]
  BY <1>0 DEF PagingTypeOK
<1>5. \A k \in Index : k # StackIndex(current_process) => page_dir'[job_pid][k] = page_dir[job_pid][k]
  BY <1>3, <1>4
<1>6. ASSUME NEW p \in Pid, NEW i \in PagesOf(p)
      PROVE  FrameOf(p, i)' = FrameOf(p, i)
  <2>1. CASE p # job_pid
    BY <1>1, <1>3, <2>1 DEF FrameOf
  <2>2. CASE p = job_pid
    <3>1. i \in Slot
      BY DEF PagesOf
    <3>2. virt_addr_used[p][i] \in Index /\ virt_addr_used[p][i] # StackIndex(current_process)
      BY <1>0, <1>1, <2>2, <3>1, IndicesApart DEF PageInv
    <3>3. QED
      BY <1>1, <1>5, <2>2, <3>2 DEF FrameOf
  <2>3. QED
    BY <2>1, <2>2
<1>7. QED
  BY <1>0, <1>1, <1>2, <1>6, SameOwners

\* A page more: it gets a frame nobody has, through an entry nothing else uses.
LEMMA OwnersCreatePage ==
  ASSUME IInv, CreatePage
  PROVE  PageInv' /\ FrameInv'
<1>0. FrameType /\ ControlInv /\ PageInv /\ FrameInv /\ job_page + 1 \in Nat
  BY FrameTypeHolds DEF IInv, FrameType, ControlType
<1> USE DEF FrameType, ControlType, StateType
<1>a. job_page \in Slot
  BY <1>0, PagingAssumption DEF ControlInv, Slot, CreatePage
<1>b. PICK j \in Pid, new \in Slot : j = job_pid /\ new = job_page
  BY <1>0, <1>a
<1> DEFINE virt == IF new = job_amount - 1 THEN StackIndex(j) ELSE new
<1>1. /\ kpc = "map" /\ kpc' \in {"map", "link"} /\ job_pid' = j /\ job_page' = new + 1
      /\ UNCHANGED <<frame_amount, process_active>>
      /\ virt_addr_used' = [virt_addr_used EXCEPT ![j][new] = virt]
      /\ AllocatePageFrame(j, virt)
  BY <1>b DEF CreatePage, listVars
<1>2. j \notin process_active /\ new < job_amount /\ frame_amount[j] = job_amount
  BY <1>0, <1>b, <1>1 DEF ControlInv, Building
<1>3. virt \in Index
  BY <1>2, Layout
<1>4. PICK f \in Frame :
        /\ f \notin page_frame_map
        /\ page_frame_map' = page_frame_map \cup {f}
        /\ page_dir'[j][virt] = f
        /\ \A i \in Index : i # virt => page_dir'[j][i] = page_dir[j][i]
        /\ \A q \in Pid : q # j => page_dir'[q] = page_dir[q]
  BY <1>0, <1>1, <1>3, AllocateWrites
<1>5. /\ virt_addr_used'[j][new] = virt
      /\ \A i \in Slot : i # new => virt_addr_used'[j][i] = virt_addr_used[j][i]
      /\ \A q \in Pid : q # j => virt_addr_used'[q] = virt_addr_used[q]
  BY <1>0, <1>1, <1>2
<1>6. /\ PagesOf(j) = {i \in Slot : i < new}
      /\ PagesOf(j)' = {i \in Slot : i < new + 1}
      /\ \A q \in Pid : q # j => PagesOf(q)' = PagesOf(q)
  BY <1>b, <1>1, <1>2 DEF PagesOf
<1>7. PagesOf(j)' = PagesOf(j) \cup {new} /\ new \notin PagesOf(j)
  BY <1>0, <1>2, <1>6 DEF Slot
<1>8. ASSUME NEW i \in PagesOf(j)
      PROVE  virt_addr_used[j][i] \in Index /\ virt_addr_used[j][i] # virt
  <2>1. i \in Slot /\ i < new
    BY <1>6
  <2>2. virt_addr_used[j][i] = i
    BY <1>0, <1>2, <2>1 DEF PageInv, Slot
  <2>3. i # StackIndex(j) /\ i # new
    BY <1>2, <2>1, IndicesApart DEF Slot
  <2>4. QED
    BY <2>1, <2>2, <2>3, Layout
<1> HIDE DEF virt
<1>9. FrameOf(j, new)' = f
  BY <1>1, <1>4, <1>5 DEF FrameOf
<1>10. ASSUME NEW p \in Pid, NEW i \in PagesOf(p)
       PROVE  FrameOf(p, i)' = FrameOf(p, i)
  <2>1. CASE p = j
    <3>1. i \in Slot /\ i # new
      BY <1>7, <2>1 DEF PagesOf
    <3>2. QED
      BY <1>1, <1>4, <1>5, <1>8, <2>1, <3>1 DEF FrameOf
  <2>2. CASE p # j
    BY <1>1, <1>4, <1>5, <2>2 DEF FrameOf
  <2>3. QED
    BY <2>1, <2>2
<1>11. ASSUME NEW p \in Pid, NEW i \in PagesOf(p)', ~(p = j /\ i = new)
       PROVE  i \in PagesOf(p) /\ i \in Slot
  BY <1>6, <1>7, <1>11 DEF PagesOf
<1>12. PageInv'
  <2>1. ASSUME NEW p \in Pid, NEW i \in PagesOf(p)'
        PROVE  virt_addr_used'[p][i] = IF i = frame_amount'[p] - 1 THEN StackIndex(p) ELSE i
    <3>1. CASE p = j /\ i = new
      BY <1>1, <1>2, <1>5, <3>1 DEF virt
    <3>2. CASE ~(p = j /\ i = new)
      <4>1. virt_addr_used'[p][i] = virt_addr_used[p][i]
        BY <1>5, <1>11, <3>2
      <4>2. QED
        BY <1>0, <1>1, <1>11, <3>2, <4>1 DEF PageInv
    <3>3. QED
      BY <3>1, <3>2
  <2>2. QED
    BY <2>1 DEF PageInv
<1>13. f >= Reserved
  <2>1. f \in Int /\ f >= 0 /\ Reserved \in Int
    BY Layout DEF Frame
  <2>2. ~(f \in 0 .. Reserved - 1)
    BY <1>0, <1>4 DEF FrameInv
  <2>3. QED
    BY <2>1, <2>2
<1>14. ASSUME NEW p \in Pid, NEW i \in PagesOf(p)', ~(p = j /\ i = new)
       PROVE  /\ FrameOf(p, i)' = FrameOf(p, i) /\ FrameOf(p, i) # f
              /\ FrameOf(p, i) >= Reserved /\ FrameOf(p, i) \in page_frame_map
  BY <1>0, <1>4, <1>10, <1>11, <1>14 DEF FrameInv, FramesOwnedOnce
<1>15. FramesOwnedOnce'
  <2>1. ASSUME NEW p \in Pid, NEW i \in PagesOf(p)'
        PROVE  FrameOf(p, i)' >= Reserved
    BY <1>9, <1>13, <1>14
  <2>2. ASSUME NEW p \in Pid, NEW i \in PagesOf(p)', NEW q \in Pid, NEW k \in PagesOf(q)',
               FrameOf(p, i)' = FrameOf(q, k)'
        PROVE  p = q /\ i = k
    <3>1. CASE p = j /\ i = new
      BY <1>9, <1>14, <2>2, <3>1
    <3>2. CASE q = j /\ k = new
      BY <1>9, <1>14, <2>2, <3>2
    <3>3. CASE ~(p = j /\ i = new) /\ ~(q = j /\ k = new)
      BY <1>0, <1>11, <1>14, <2>2, <3>3 DEF FrameInv, FramesOwnedOnce
    <3>4. QED
      BY <3>1, <3>2, <3>3
  <2>3. QED
    BY <2>1, <2>2 DEF FramesOwnedOnce
<1>16. \A p \in Pid : \A i \in PagesOf(p)' : FrameOf(p, i)' \in page_frame_map'
  BY <1>4, <1>9, <1>14
<1>17. ASSUME NEW g \in page_frame_map', ~(g < Reserved)
       PROVE  \E p \in Pid : \E i \in PagesOf(p)' : FrameOf(p, i)' = g
  <2>1. CASE g = f
    BY <1>2, <1>7, <1>9, <2>1
  <2>2. CASE g # f
    <3>1. PICK p \in Pid : \E i \in PagesOf(p) : FrameOf(p, i) = g
      BY <1>0, <1>4, <1>17, <2>2 DEF FrameInv
    <3>2. PICK i \in PagesOf(p) : FrameOf(p, i) = g
      BY <3>1
    <3>3. i \in PagesOf(p)' /\ FrameOf(p, i)' = g
      BY <1>6, <1>7, <1>10, <3>2
    <3>4. QED
      BY <3>3
  <2>3. QED
    BY <2>1, <2>2
<1>18. 0 .. Reserved - 1 \subseteq page_frame_map'
  BY <1>0, <1>4 DEF FrameInv
<1>19. QED
  BY <1>12, <1>15, <1>16, <1>17, <1>18 DEF FrameInv

\* A page less: its frame was its own, so no other page loses one.
LEMMA OwnersCleanPage ==
  ASSUME IInv, CleanPage
  PROVE  PageInv' /\ FrameInv'
<1>0. FrameType /\ ControlInv /\ PageInv /\ FrameInv /\ job_page + 1 \in Nat
  BY FrameTypeHolds DEF IInv, FrameType, ControlType
<1> USE DEF FrameType, ControlType, StateType
<1>a. job_page \in Slot
  BY <1>0, PagingAssumption DEF CleanPage, Slot
<1>b. PICK j \in Pid, old \in Slot : j = job_pid /\ old = job_page
  BY <1>0, <1>a
<1>c. PICK f \in Frame : f = FrameOf(j, old)
  BY <1>0 DEF FrameOf, PagingTypeOK
<1>1. /\ kpc = "clean" /\ kpc' = "clean" /\ job_pid' = j /\ job_page' = old + 1
      /\ UNCHANGED <<frame_amount, virt_addr_used, process_active>>
      /\ FreePageFrame(j, virt_addr_used[j][old])
      /\ old < frame_amount[j]
  BY <1>b DEF CleanPage, pcbVars, listVars
<1>3. old \in PagesOf(j)
  BY <1>0, <1>b, <1>1 DEF PagesOf, Slot
<1>4. f \in page_frame_map /\ f >= Reserved
  BY <1>0, <1>c, <1>3 DEF FrameInv, FramesOwnedOnce
<1>5. page_frame_map' = page_frame_map \ {f}
  BY <1>1, <1>4, <1>c DEF FreePageFrame, FrameOf
<1>6. page_dir' = page_dir
  BY <1>0, <1>1, KernelFrameUsed, FreeKeepsDirectories
<1>7. /\ \A q \in Pid : q # j => PagesOf(q)' = PagesOf(q)
      /\ PagesOf(j) = {i \in Slot : old <= i /\ i < frame_amount[j]}
      /\ PagesOf(j)' = {i \in Slot : old + 1 <= i /\ i < frame_amount[j]}
  BY <1>b, <1>1 DEF PagesOf
<1>8. PagesOf(j)' = PagesOf(j) \ {old}
  BY <1>0, <1>7 DEF Slot
<1>9. \A p \in Pid : \A i \in Slot : FrameOf(p, i)' = FrameOf(p, i)
  BY <1>1, <1>6 DEF FrameOf
<1>10. ASSUME NEW p \in Pid, NEW i \in PagesOf(p)'
       PROVE  /\ i \in PagesOf(p) /\ ~(p = j /\ i = old)
              /\ FrameOf(p, i)' = FrameOf(p, i)
  BY <1>7, <1>8, <1>9 DEF PagesOf
<1>11. PageInv'
  BY <1>0, <1>1, <1>10 DEF PageInv
<1>12. FramesOwnedOnce'
  BY <1>0, <1>10 DEF FrameInv, FramesOwnedOnce
<1>13. 0 .. Reserved - 1 \subseteq page_frame_map'
  <2>1. f \notin 0 .. Reserved - 1
    BY <1>4, Layout
  <2>2. QED
    BY <1>0, <1>5, <2>1 DEF FrameInv
<1>14. ASSUME NEW p \in Pid, NEW i \in PagesOf(p)'
       PROVE  FrameOf(p, i)' \in page_frame_map'
  <2>1. FrameOf(p, i) # f
    BY <1>0, <1>c, <1>3, <1>10 DEF FrameInv, FramesOwnedOnce
  <2>2. QED
    BY <1>0, <1>5, <1>10, <2>1 DEF FrameInv
<1>15. ASSUME NEW g \in page_frame_map', ~(g < Reserved)
       PROVE  \E p \in Pid : \E i \in PagesOf(p)' : FrameOf(p, i)' = g
  <2>1. PICK p \in Pid : \E i \in PagesOf(p) : FrameOf(p, i) = g
    BY <1>0, <1>5, <1>15 DEF FrameInv
  <2>2. PICK i \in PagesOf(p) : FrameOf(p, i) = g
    BY <2>1
  <2>3. ~(p = j /\ i = old)
    BY <1>c, <1>5, <1>15, <2>2
  <2>4. i \in PagesOf(p)' /\ i \in Slot
    BY <1>7, <1>8, <2>3 DEF PagesOf
  <2>5. QED
    BY <1>9, <2>2, <2>4
<1>16. QED
  BY <1>11, <1>12, <1>13, <1>14, <1>15 DEF FrameInv

\* Every step of process management keeps every frame with one owner.
LEMMA OwnersStep == IInv /\ [Next]_vars => PageInv' /\ FrameInv'
<1> SUFFICES ASSUME IInv, [Next]_vars PROVE PageInv' /\ FrameInv'
  OBVIOUS
<1>0. FrameType /\ PageInv /\ FrameInv
  BY FrameTypeHolds DEF IInv
<1>1. ASSUME UNCHANGED <<pagingVars, frame_amount, virt_addr_used>>,
             \A p \in Pid : PagesOf(p)' = PagesOf(p)
      PROVE  PageInv' /\ FrameInv'
  BY <1>0, <1>1, SameOwners DEF FrameOf, pagingVars
<1>2. CASE UNCHANGED vars
  <2>1. \A p \in Pid : PagesOf(p)' = PagesOf(p)
    BY <1>2 DEF vars, pcbVars, listVars, ctlVars, PagesOf
  <2>2. QED
    BY <1>1, <1>2, <2>1 DEF vars, pcbVars
<1>3. CASE /\ UNCHANGED ownVars
           /\ kpc \notin {"map", "link", "clean"} /\ kpc' \notin {"map", "link", "clean"}
  <2>1. \A p \in Pid : PagesOf(p)' = PagesOf(p)
    BY <1>3 DEF ownVars, PagesOf
  <2>2. QED
    BY <1>1, <1>3, <2>1 DEF ownVars
<1>4. QED
  BY <1>2, <1>3, OwnersChange, OwnersCreateDirectory, OwnersCreatePage, OwnersCreateLink,
     OwnersCleanPage, OwnersCleanUnlink, OwnersSwitch
-----------------------------------------------------------------------------
(* The counters *)

\* Frames and slots are finitely many, so they can be counted.
LEMMA FiniteFramesAndSlots == IsFiniteSet(Frame) /\ IsFiniteSet(Pid)
BY PagingAssumption, FS_Interval DEF Frame, Pid

\* The number of elements of an interval.
LEMMA IntervalLength ==
  ASSUME NEW a \in Int, NEW b \in Int, a <= b
  PROVE  Cardinality(a .. b - 1) = b - a
<1>1. Cardinality(a .. b - 1) = IF a > b - 1 THEN 0 ELSE (b - 1) - a + 1
  BY FS_Interval
<1>2. (IF a > b - 1 THEN 0 ELSE (b - 1) - a + 1) = b - a
  OBVIOUS
<1>3. QED
  BY <1>1, <1>2

\* The frame map and its counter move together.
LEMMA FreeCountStep ==
  ASSUME IInv, [Next]_vars
  PROVE  free_page_frame_count' = Cardinality(Frame \ page_frame_map')
<1>0. /\ FrameType /\ ControlInv /\ PageInv /\ FrameInv
      /\ free_page_frame_count = Cardinality(Frame \ page_frame_map)
  BY FrameTypeHolds DEF IInv, CountInv
<1> USE DEF FrameType, ControlType, StateType
<1>1. IsFiniteSet(Frame \ page_frame_map)
  BY FiniteFramesAndSlots, FS_Subset
<1>2. CASE CreatePage
  <2>1. PICK f \in Frame : /\ f \notin page_frame_map
                           /\ page_frame_map' = page_frame_map \cup {f}
                           /\ free_page_frame_count' = free_page_frame_count - 1
    BY <1>2 DEF CreatePage, AllocatePageFrame, IsFirstFree
  <2>2. Frame \ page_frame_map' = (Frame \ page_frame_map) \ {f}
    BY <2>1
  <2>3. f \in Frame \ page_frame_map
    BY <2>1
  <2>4. Cardinality((Frame \ page_frame_map) \ {f}) = Cardinality(Frame \ page_frame_map) - 1
    BY <1>1, <2>3, FS_RemoveElement
  <2>5. QED
    BY <1>0, <2>1, <2>2, <2>4
<1>3. CASE CleanPage
  <2>1. PICK f : /\ f \in Frame /\ f \in page_frame_map
                 /\ page_frame_map' = page_frame_map \ {f}
                 /\ free_page_frame_count' = free_page_frame_count + 1
    <3>1. job_page \in Slot
      BY <1>0, <1>3, PagingAssumption DEF CleanPage, Slot
    <3>2. kpc = "clean" /\ job_page < frame_amount[job_pid]
      BY <1>3 DEF CleanPage
    <3>3. job_page \in PagesOf(job_pid)
      BY <1>0, <3>1, <3>2 DEF PagesOf, Slot
    <3>4. FrameOf(job_pid, job_page) \in page_frame_map
      BY <1>0, <3>3 DEF FrameInv
    <3>5. QED
      BY <1>0, <1>3, <3>4 DEF CleanPage, FreePageFrame, FrameOf, PagingTypeOK
  <2>2. Frame \ page_frame_map' = (Frame \ page_frame_map) \cup {f}
    BY <2>1
  <2>3. f \notin Frame \ page_frame_map
    BY <2>1
  <2>4. QED
    BY <1>0, <1>1, <2>1, <2>2, <2>3, FS_AddElement
<1>4. CASE UNCHANGED <<page_frame_map, free_page_frame_count>>
  BY <1>0, <1>4
<1>5. CreatePage \/ CleanPage \/ UNCHANGED <<page_frame_map, free_page_frame_count>>
  BY DEF Next, Create, Call, Collect, Tick, CreateRefuse, CreateAccept, CreateDirectory, CreateLink, CreateLoad, Stop,
    Exit, OtherSyscall, ScanLook, CleanBegin, CleanUnlink, Timer, PickSkip, PickSame, Switch,
    SwitchContext, vars, pagingVars
<1>6. QED
  BY <1>2, <1>3, <1>4, <1>5

\* A process joins the ring one step before it is counted, and leaves both at once.
LEMMA ProcessCountStep ==
  ASSUME IInv, [Next]_vars
  PROVE  num_process' = Cardinality(process_active') - (IF kpc' = "load" THEN 1 ELSE 0)
<1>0. /\ ControlType /\ ControlInv /\ StateInv /\ num_process \in Int
      /\ num_process = Cardinality(process_active) - (IF kpc = "load" THEN 1 ELSE 0)
  BY ControlTypeHolds DEF IInv, TypeOK, CountInv
<1> USE DEF ControlType, StateType
<1>1. IsFiniteSet(process_active) /\ Cardinality(process_active) \in Int
  BY <1>0, FiniteFramesAndSlots, FS_Subset, FS_CardinalityType
<1>2. CASE CreateLink
  <2>1. /\ kpc = "link" /\ kpc' = "load" /\ num_process' = num_process
        /\ process_active' = process_active \cup {job_pid}
        /\ job_pid \notin process_active
    BY <1>0, <1>2 DEF CreateLink, ControlInv, Building
  <2>2. Cardinality(process_active') = Cardinality(process_active) + 1
    BY <1>1, <2>1, FS_AddElement
  <2>3. QED
    BY <1>0, <1>1, <2>1, <2>2
<1>3. CASE CreateLoad
  BY <1>0, <1>1, <1>3 DEF CreateLoad, Return
<1>4. CASE CleanUnlink
  <2>1. /\ kpc = "clean" /\ kpc' = "run" /\ num_process' = num_process - 1
        /\ process_active' = process_active \ {job_pid}
        /\ job_pid \in process_active
    BY <1>0, <1>4, TerminatedIsActive DEF CleanUnlink, Return, ControlInv
  <2>2. Cardinality(process_active') = Cardinality(process_active) - 1
    BY <1>1, <2>1, FS_RemoveElement
  <2>3. QED
    BY <1>0, <1>1, <2>1, <2>2
<1>5. CASE /\ UNCHANGED <<num_process, process_active>>
           /\ kpc # "load" /\ kpc' # "load"
  BY <1>0, <1>5
<1>6. CASE UNCHANGED <<num_process, process_active, kpc>>
  BY <1>0, <1>6
<1>7. \/ CreateLink \/ CreateLoad \/ CleanUnlink
      \/ UNCHANGED <<num_process, process_active>> /\ kpc # "load" /\ kpc' # "load"
      \/ UNCHANGED <<num_process, process_active, kpc>>
  BY DEF Next, Create, Call, Collect, Tick, CreateRefuse, CreateAccept, CreateDirectory, CreatePage, Stop, Exit,
    OtherSyscall, UserSyscall, ScanLook, CleanBegin, CleanPage, Timer, PickSkip, PickSame, Switch,
    SwitchContext, Return, vars, listVars, ctlVars
<1>8. QED
  BY <1>2, <1>3, <1>4, <1>5, <1>6, <1>7
-----------------------------------------------------------------------------
(* The invariant, and what follows from it *)

\* The state in which kernel_setup enables the timer satisfies the invariant.
LEMMA InitInv == Init => IInv
<1> SUFFICES ASSUME Init PROVE IInv
  OBVIOUS
<1>1. TypeOK
  BY InitType
<1>2. ControlInv /\ StateInv /\ RingInv /\ TimerInv
  BY Layout, PagingAssumption
  DEF Init, ControlInv, StateInv, RingInv, TimerInv, Building, scanVars
<1>3. \A p \in Pid : PagesOf(p) = {}
  BY DEF Init, PagesOf
<1>4. page_frame_map = 0 .. Reserved - 1
  BY DEF Init, PagingInit
<1>5. PageInv /\ FrameInv
  BY <1>3, <1>4, Layout DEF PageInv, FrameInv, FramesOwnedOnce
<1>6. CountInv
  <2>1. Frame \ page_frame_map = Reserved .. PAGE_FRAME_MAX_COUNT - 1
    BY <1>4, Layout, PagingAssumption DEF Frame
  <2>2. Cardinality(Frame \ page_frame_map) = PAGE_FRAME_MAX_COUNT - Reserved
    <3>1. Reserved \in Int /\ PAGE_FRAME_MAX_COUNT \in Int /\ Reserved <= PAGE_FRAME_MAX_COUNT
      BY Layout, PagingAssumption
    <3>2. QED
      BY <2>1, <3>1, IntervalLength
  <2>3. Cardinality({0}) = 1
    BY FS_Singleton
  <2>4. QED
    BY <2>2, <2>3 DEF Init, PagingInit, CountInv
<1>7. CpuInv
  <2>1. page_dir[0] = KernelDirectory
    BY Layout DEF Init, PagingInit
  <2>2. QED
    BY <2>1, KernelDirectoryMaps DEF Init, CpuInv, MapsKernel, MapsStack, Building
<1>8. QED
  BY <1>1, <1>2, <1>5, <1>6, <1>7 DEF IInv

\* Every step of process management preserves the invariant.
LEMMA NextInv == IInv /\ [Next]_vars => IInv'
<1> SUFFICES ASSUME IInv, [Next]_vars PROVE IInv'
  OBVIOUS
<1>1. TypeOK' /\ ControlInv' /\ StateInv' /\ RingInv'
  BY NextType, ControlStep, StateStep, RingStep DEF IInv
<1>2. PageInv' /\ FrameInv' /\ CpuInv' /\ TimerInv'
  BY OwnersStep, CpuStep, TimerStep
<1>3. CountInv'
  BY FreeCountStep, ProcessCountStep DEF CountInv
<1>4. QED
  BY <1>1, <1>2, <1>3 DEF IInv

\* The inductive invariant holds in every reachable state, for any number of
\* frames and slots: process.c and paging.c never leave it.
THEOREM Invariance == Spec => []IInv
BY InitInv, NextInv, PTL DEF Spec

\* No frame has two owners, however creations, kills, exits, cleanings and
\* switches interleave, on a machine of any size.
THEOREM NoFrameShared == Spec => []FramesOwnedOnce
<1>1. IInv => FramesOwnedOnce
  BY DEF IInv, FrameInv
<1>2. QED
  BY <1>1, Invariance, PTL

\* No frame leaks and none is marked free while in use.
THEOREM NoFrameLost == Spec => []FramesAccounted
<1>1. IInv => FramesAccounted
  <2> SUFFICES ASSUME IInv PROVE FramesAccounted
    OBVIOUS
  <2>1. FrameInv /\ CountInv /\ page_frame_map \subseteq Frame
    BY DEF IInv, TypeOK
  <2>2. ASSUME NEW f \in page_frame_map
        PROVE  f \in 0 .. Reserved - 1 \/ \E p \in Pid : \E i \in PagesOf(p) : FrameOf(p, i) = f
    <3>1. CASE f < Reserved
      BY <2>1, <3>1, Layout DEF Frame
    <3>2. CASE ~(f < Reserved)
      BY <2>1, <3>2 DEF FrameInv
    <3>3. QED
      BY <3>1, <3>2
  <2>3. page_frame_map = (0 .. Reserved - 1) \cup
          UNION {{FrameOf(p, i) : i \in PagesOf(p)} : p \in Pid}
    BY <2>1, <2>2 DEF FrameInv
  <2>4. QED
    BY <2>1, <2>3 DEF CountInv, FramesAccounted
<1>2. QED
  BY <1>1, Invariance, PTL

\* The stack in use is always mapped, and user code runs in its own space.
THEOREM AddressSpacesHold == Spec => []AddressSpace
<1>1. IInv => AddressSpace
  <2> SUFFICES ASSUME IInv PROVE AddressSpace
    OBVIOUS
  <2>1. CpuInv /\ ControlInv /\ TypeOK
    BY DEF IInv
  <2>2. page_dir[cr3][StackIndex(stack)] = page_dir[stack][StackIndex(stack)]
    <3>1. CASE kpc = "load"
      BY <2>1, <3>1 DEF CpuInv, MapsStack
    <3>2. CASE kpc = "switch"
      BY <2>1, <3>2 DEF CpuInv, MapsStack
    <3>3. CASE kpc \notin {"load", "switch"}
      BY <2>1, <3>3 DEF CpuInv
    <3>4. QED
      BY <3>1, <3>2, <3>3
  <2>3. \A p \in process_active : MapsKernel(p)
    BY <2>1 DEF CpuInv, TypeOK
  <2>4. kpc = "run" => cr3 = current_process /\ stack = current_process /\ esp0 = current_process
    BY <2>1 DEF CpuInv
  <2>5. QED
    BY <2>2, <2>3, <2>4 DEF AddressSpace, MapsKernel
<1>2. QED
  BY <1>1, Invariance, PTL

\* The ring, the states and the process on the CPU agree.
THEOREM StatesAlwaysAgree == Spec => []StatesAgree
<1>1. IInv => StatesAgree
  BY DEF IInv, TypeOK, ControlInv, StateInv, Building, StatesAgree
<1>2. QED
  BY <1>1, Invariance, PTL

\* What the kernel's loop is about to free is a dead process and nothing that
\* the CPU still uses.
THEOREM CleaningIsSafe == Spec => []CleanSafe
<1>1. IInv => CleanSafe
  BY DEF IInv, ControlInv, CpuInv, CleanSafe
<1>2. QED
  BY <1>1, Invariance, PTL

\* The kernel's own loop always runs with the timer acknowledged.
THEOREM KernelStaysPreemptible == Spec => []KernelPreemptible
<1>1. IInv => KernelPreemptible
  BY DEF IInv, TimerInv, KernelPreemptible
<1>2. QED
  BY <1>1, Invariance, PTL

\* No step takes a process out of TERMINATED but the one that gives back its slot.
THEOREM TerminatedForGood == Spec => TerminatedUntilCleaned
<1>1. ASSUME IInv, [Next]_vars, NEW p \in Pid, state[p] = "TERMINATED", state'[p] # "TERMINATED"
      PROVE  state'[p] = "NULL_PROCESS" /\ p \notin process_active'
  <2>0. StateType /\ StateInv /\ p \in process_active
    BY <1>1, StateTypeHolds, TerminatedIsActive DEF IInv
  <2>1. CASE CreateDirectory
    BY <1>1, <2>0, <2>1 DEF CreateDirectory, IsGeneratedPid, StateType
  <2>2. CASE CleanUnlink
    BY <1>1, <2>0, <2>2 DEF CleanUnlink, StateType
  <2>3. CASE Switch
    BY <1>1, <2>0, <2>3 DEF Switch, StateType
  <2>4. ASSUME NEW pid \in Pid, Stop(pid)
        PROVE  FALSE
    BY <1>1, <2>0, <2>4 DEF Stop, StateType
  <2>5. CASE Exit
    BY <1>1, <2>0, <2>5 DEF Exit, StateType
  <2>6. CASE state' = state
    BY <1>1, <2>6
  <2>7. QED
    BY <1>1, <2>1, <2>2, <2>3, <2>4, <2>5, <2>6, StateChange
    DEF CreatePage, CreateLink, stateVars
<1>2. IInv /\ [Next]_vars => [\A p \in Pid :
        state[p] = "TERMINATED" /\ state'[p] # "TERMINATED" =>
          state'[p] = "NULL_PROCESS" /\ p \notin process_active']_vars
  BY <1>1
<1>3. QED
  BY <1>2, Invariance, PTL DEF Spec, TerminatedUntilCleaned
-----------------------------------------------------------------------------
(* The ring *)

\* The order with a process more at its end.
Linked(n, r, j) == [k \in 0 .. n |-> IF k = n THEN j ELSE r[k]]

\* The order without the process at a place.
Unlinked(n, r, q) == [k \in 0 .. n - 2 |-> IF k < q THEN r[k] ELSE r[k + 1]]

\* What the lemmas about the order need.
LEMMA OrderFacts ==
  ASSUME IInv, NEW n, NEW r, RingOrder(n, r)
  PROVE  /\ RingType /\ RingInv /\ 0 \in process_active
         /\ n \in Nat /\ n >= 1 /\ n - 1 \in 0 .. n - 1
         /\ \A k \in 0 .. n - 1 : r[k] \in process_active /\ r[k] \in Pid
         /\ r[n - 1] = last_process_pid
<1>1. RingType /\ RingInv /\ 0 \in process_active
  BY RingTypeHolds DEF IInv, StateInv
<1>2. n \in Nat /\ n >= 1 /\ n - 1 \in 0 .. n - 1
  BY PagingAssumption DEF RingOrder
<1>3. \A k \in 0 .. n - 1 : r[k] \in process_active /\ r[k] \in Pid
  BY <1>1 DEF RingOrder, RingType
<1>4. r[n - 1] = last_process_pid
  BY <1>1, <1>2, <1>3 DEF RingOrder, RingInv
<1>5. QED
  BY <1>1, <1>2, <1>3, <1>4

LEMMA LinkOrder ==
  ASSUME IInv, NEW n, NEW r, RingOrder(n, r), CreateLink, NEW j, j = job_pid
  PROVE  RingOrder(n + 1, Linked(n, r, j))'
<1> DEFINE R == Linked(n, r, j)
           last == last_process_pid
<1>1. /\ RingType /\ RingInv /\ n \in Nat /\ n >= 1 /\ n - 1 \in 0 .. n - 1
      /\ \A k \in 0 .. n - 1 : r[k] \in process_active /\ r[k] \in Pid
      /\ r[n - 1] = last
  BY OrderFacts
<1>2. j \in Pid /\ j \notin process_active
  BY <1>1 DEF IInv, ControlInv, Building, CreateLink, RingType
<1>3. /\ next_pid' = [next_pid EXCEPT ![j] = 0, ![last] = j]
      /\ process_active' = process_active \cup {j}
  BY DEF CreateLink
<1>4. /\ next_pid'[j] = 0 /\ next_pid'[last] = j
      /\ \A p \in process_active : p # last => next_pid'[p] = next_pid[p]
  <2>1. /\ last \in process_active /\ last \in Pid /\ next_pid \in [Pid -> Pid]
        /\ process_active \subseteq Pid /\ j # last
    BY <1>1, <1>2 DEF RingType, RingInv
  <2> HIDE DEF last
  <2>2. QED
    BY <1>2, <1>3, <2>1
<1>5. n + 1 \in 1 .. MAX_PROCESS
  <2>1. IsFiniteSet(Pid) /\ Cardinality(Pid) = MAX_PROCESS /\ MAX_PROCESS \in Nat
    BY IntervalLength, FiniteFramesAndSlots, PagingAssumption DEF Pid
  <2>2. IsFiniteSet(Pid \ {j}) /\ Cardinality(Pid \ {j}) = MAX_PROCESS - 1
    BY <1>2, <2>1, FS_RemoveElement
  <2> DEFINE D == 0 .. n - 1
             E == Pid \ {j}
  <2>3. r \in Injection(D, E)
    <3>1. r \in [D -> E]
      BY <1>1, <1>2 DEF RingOrder
    <3>2. \A a, b \in D : r[a] = r[b] => a = b
      BY DEF RingOrder
    <3>3. QED
      BY <3>1, <3>2 DEF Injection, IsInjective
  <2>4. Cardinality(D) = n
    <3>1. Cardinality(0 .. n - 1) = n - 0
      BY <1>1, IntervalLength
    <3>2. QED
      BY <1>1, <3>1
  <2> HIDE DEF D, E
  <2>5. Cardinality(D) <= Cardinality(E)
    BY <2>2, <2>3, FS_Injection DEF E
  <2>6. QED
    BY <1>1, <2>1, <2>2, <2>4, <2>5 DEF E
<1>6. /\ \A k \in 0 .. n - 1 : R[k] = r[k]
      /\ R[n] = j /\ (n + 1) - 1 = n /\ (n + 1) - 2 = n - 1
      /\ R = [k \in 0 .. n |-> R[k]]
  BY <1>1 DEF Linked
<1>7. (\A k \in 0 .. n : k = n \/ k \in 0 .. n - 1) /\ 0 .. n - 1 \subseteq 0 .. n
  BY <1>1
<1> HIDE DEF R
<1>8. R \in [0 .. n -> process_active']
  <2>1. \A k \in 0 .. n : R[k] \in process_active'
    BY <1>1, <1>3, <1>6, <1>7
  <2>2. QED
    BY <1>6, <2>1
<1>9. R[0] = 0
  <2>1. 0 \in 0 .. n - 1 /\ r[0] = 0
    BY <1>1 DEF RingOrder
  <2>2. QED
    BY <1>6, <2>1
<1>10. ASSUME NEW p \in process_active' PROVE \E k \in 0 .. n : R[k] = p
  <2>1. CASE p = j
    BY <1>1, <1>6, <2>1
  <2>2. CASE p # j
    <3>1. PICK k \in 0 .. n - 1 : r[k] = p
      BY <1>3, <1>10, <2>2 DEF RingOrder
    <3>2. k \in 0 .. n /\ R[k] = p
      BY <1>6, <1>7, <3>1
    <3>3. QED
      BY <3>2
  <2>3. QED
    BY <2>1, <2>2
<1>11. ASSUME NEW a \in 0 .. n, NEW b \in 0 .. n, R[a] = R[b] PROVE a = b
  <2>1. CASE a = n \/ b = n
    <3>1. \A k \in 0 .. n - 1 : R[k] # j
      BY <1>1, <1>2, <1>6
    <3>2. QED
      BY <1>6, <1>7, <1>11, <2>1, <3>1
  <2>2. CASE a \in 0 .. n - 1 /\ b \in 0 .. n - 1
    BY <1>6, <1>11, <2>2 DEF RingOrder
  <2>3. QED
    BY <1>7, <2>1, <2>2
<1>12. ASSUME NEW k \in 0 .. n - 1 PROVE next_pid'[R[k]] = R[k + 1]
  <2>1. CASE k = n - 1
    <3>1. R[k] = last /\ k + 1 = n
      BY <1>1, <1>6, <2>1
    <3>2. QED
      BY <1>4, <1>6, <3>1
  <2>2. CASE k # n - 1
    <3>1. k \in 0 .. n - 2 /\ k + 1 \in 0 .. n - 1
      BY <1>1, <2>2
    <3>2. r[k] # last
      BY <1>1, <2>2 DEF RingOrder
    <3>3. next_pid[r[k]] = r[k + 1]
      BY <3>1 DEF RingOrder
    <3>4. QED
      BY <1>1, <1>4, <1>6, <3>1, <3>2, <3>3
  <2>3. QED
    BY <2>1, <2>2
<1>13. next_pid'[R[n]] = 0
  BY <1>4, <1>6
<1>14. /\ R \in [0 .. (n + 1) - 1 -> process_active']
       /\ \A p \in process_active' : \E k \in 0 .. (n + 1) - 1 : R[k] = p
       /\ \A a, b \in 0 .. (n + 1) - 1 : R[a] = R[b] => a = b
       /\ \A k \in 0 .. (n + 1) - 2 : next_pid'[R[k]] = R[k + 1]
       /\ next_pid'[R[(n + 1) - 1]] = 0
  <2>1. (n + 1) - 1 = n /\ (n + 1) - 2 = n - 1
    BY <1>1
  <2>2. QED
    BY <2>1, <1>8, <1>10, <1>11, <1>12, <1>13
<1>15. RingOrder(n + 1, R)'
  BY <1>5, <1>9, <1>14 DEF RingOrder
<1>16. QED
  BY <1>15 DEF R

LEMMA UnlinkOrder ==
  ASSUME IInv, NEW n, NEW r, RingOrder(n, r), CleanUnlink,
         NEW q \in 0 .. n - 1, r[q] = job_pid
  PROVE  q # 0 /\ RingOrder(n - 1, Unlinked(n, r, q))'
<1> DEFINE R == Unlinked(n, r, q)
           up(k) == IF k < q THEN k ELSE k + 1
           prev == previous_pid[job_pid]
           next == next_pid[job_pid]
<1>1. /\ RingType /\ RingInv /\ n \in Nat /\ n >= 1 /\ n - 1 \in 0 .. n - 1
      /\ \A k \in 0 .. n - 1 : r[k] \in process_active /\ r[k] \in Pid
  BY OrderFacts
<1>2. q # 0
  BY DEF IInv, ControlInv, CleanUnlink, RingOrder
<1>3. n \in Nat /\ q \in Nat /\ q >= 1 /\ q <= n - 1 /\ n >= 2
  BY <1>1, <1>2
<1>4. /\ next_pid' = [next_pid EXCEPT ![prev] = next]
      /\ process_active' = process_active \ {r[q]}
  BY DEF CleanUnlink
<1>5. next_pid[r[q - 1]] = r[q] /\ q - 1 \in 0 .. n - 1
  BY <1>1, <1>3 DEF RingOrder
<1>6. prev = r[q - 1]
  BY <1>1, <1>5 DEF RingInv
<1>7. /\ next_pid'[r[q - 1]] = next_pid[r[q]]
      /\ \A p \in Pid : p # r[q - 1] => next_pid'[p] = next_pid[p]
  BY <1>1, <1>4, <1>5, <1>6 DEF RingType
<1>8. /\ \A k \in 0 .. n - 2 : up(k) \in 0 .. n - 1 /\ up(k) # q /\ R[k] = r[up(k)]
      /\ R = [k \in 0 .. n - 2 |-> R[k]] /\ (n - 1) - 1 = n - 2 /\ (n - 1) - 2 = n - 3
  BY <1>1, <1>3 DEF Unlinked
<1> HIDE DEF R, prev, next
<1>9. R \in [0 .. n - 2 -> process_active']
  <2>1. \A k \in 0 .. n - 2 : R[k] \in process_active'
    BY <1>1, <1>4, <1>8 DEF RingOrder
  <2>2. QED
    BY <1>8, <2>1
<1>10. R[0] = 0
  <2>1. up(0) = 0 /\ 0 \in 0 .. n - 2
    BY <1>3
  <2>2. QED
    BY <1>8, <2>1 DEF RingOrder
<1>11. ASSUME NEW p \in process_active' PROVE \E k \in 0 .. n - 2 : R[k] = p
  <2>1. PICK u \in 0 .. n - 1 : r[u] = p
    BY <1>4, <1>11 DEF RingOrder
  <2>2. u # q
    BY <1>4, <1>11, <2>1
  <2> DEFINE k == IF u < q THEN u ELSE u - 1
  <2>3. k \in 0 .. n - 2 /\ up(k) = u
    <3>1. u \in Nat /\ u <= n - 1
      BY <1>3
    <3>2. QED
      BY <1>3, <2>2, <3>1
  <2> HIDE DEF k
  <2>4. QED
    BY <1>8, <2>1, <2>3
<1>12. ASSUME NEW a \in 0 .. n - 2, NEW b \in 0 .. n - 2, R[a] = R[b] PROVE a = b
  <2>1. up(a) = up(b)
    BY <1>8, <1>12 DEF RingOrder
  <2>2. QED
    BY <1>3, <2>1
<1>13. ASSUME NEW k \in 0 .. n - 3 PROVE next_pid'[R[k]] = R[k + 1]
  <2>1. k \in 0 .. n - 2 /\ k + 1 \in 0 .. n - 2 /\ k \in Nat
    BY <1>3
  <2>2. CASE k = q - 1
    <3>1. up(k) = q - 1 /\ up(k + 1) = q + 1 /\ q \in 0 .. n - 2
      BY <1>3, <2>1, <2>2
    <3>2. next_pid[r[q]] = r[q + 1]
      BY <3>1 DEF RingOrder
    <3>3. QED
      BY <1>7, <1>8, <2>1, <3>1, <3>2
  <2>3. CASE k # q - 1
    <3>1. up(k + 1) = up(k) + 1 /\ up(k) \in 0 .. n - 2 /\ up(k) # q - 1
      BY <1>3, <2>1, <2>3
    <3>2. next_pid[r[up(k)]] = r[up(k + 1)]
      BY <3>1 DEF RingOrder
    <3>3. r[up(k)] # r[q - 1] /\ r[up(k)] \in Pid
      BY <1>1, <1>5, <1>8, <2>1, <3>1 DEF RingOrder
    <3>4. QED
      BY <1>7, <1>8, <2>1, <3>2, <3>3
  <2>4. QED
    BY <2>2, <2>3
<1>14. next_pid'[R[n - 2]] = 0
  <2>1. n - 2 \in 0 .. n - 2 /\ next_pid[r[n - 1]] = 0
    BY <1>3 DEF RingOrder
  <2>2. CASE q = n - 1
    <3>1. up(n - 2) = q - 1
      BY <1>3, <2>2
    <3>2. QED
      BY <1>7, <1>8, <2>1, <2>2, <3>1
  <2>3. CASE q # n - 1
    <3>1. up(n - 2) = n - 1 /\ n - 1 # q - 1
      BY <1>3, <2>3
    <3>2. r[n - 1] # r[q - 1]
      BY <1>1, <1>5, <3>1 DEF RingOrder
    <3>3. QED
      BY <1>1, <1>7, <1>8, <2>1, <3>1, <3>2
  <2>4. QED
    BY <2>2, <2>3
<1>15. n - 1 \in 1 .. MAX_PROCESS
  <2>1. n \in 1 .. MAX_PROCESS /\ MAX_PROCESS \in Nat
    BY PagingAssumption DEF RingOrder
  <2>2. QED
    BY <1>3, <2>1
<1>16. /\ R \in [0 .. (n - 1) - 1 -> process_active']
       /\ \A p \in process_active' : \E k \in 0 .. (n - 1) - 1 : R[k] = p
       /\ \A a, b \in 0 .. (n - 1) - 1 : R[a] = R[b] => a = b
       /\ \A k \in 0 .. (n - 1) - 2 : next_pid'[R[k]] = R[k + 1]
       /\ next_pid'[R[(n - 1) - 1]] = 0
  <2>1. (n - 1) - 1 = n - 2 /\ (n - 1) - 2 = n - 3
    BY <1>3
  <2>2. QED
    BY <2>1, <1>9, <1>11, <1>12, <1>13, <1>14
<1>17. RingOrder(n - 1, R)'
  BY <1>10, <1>15, <1>16 DEF RingOrder
<1>18. QED
  BY <1>2, <1>17 DEF R

-----------------------------------------------------------------------------
(* There is always one ring *)

LEMMA InitOneRing == Init => OneRing
<1> SUFFICES ASSUME Init PROVE OneRing
  OBVIOUS
<1> DEFINE r == [k \in 0 .. 0 |-> 0]
<1>1. 1 \in 1 .. MAX_PROCESS /\ 0 .. 1 - 1 = {0} /\ 0 .. 1 - 2 = {} /\ 1 - 1 = 0
  BY PagingAssumption
<1>2. process_active = {0} /\ next_pid[0] = 0
  BY Layout DEF Init
<1>3. r \in [0 .. 1 - 1 -> process_active] /\ r[0] = 0
  BY <1>1, <1>2
<1> HIDE DEF r
<1>4. RingOrder(1, r)
  BY <1>1, <1>2, <1>3 DEF RingOrder
<1>5. QED
  BY <1>1, <1>3, <1>4 DEF OneRing

\* A creation and a cleaning leave one ring; nothing else touches it.
LEMMA OneRingStep ==
  ASSUME IInv, OneRing, [Next]_vars
  PROVE  OneRing'
<1>1. PICK n, r : RingOrder(n, r)
  BY DEF OneRing
<1>2. CASE CreateLink
  <2>1. PICK m, s : RingOrder(m, s)'
    BY <1>1, <1>2, LinkOrder
  <2>2. QED
    BY <2>1 DEF OneRing, RingOrder
<1>3. CASE CleanUnlink
  <2>1. job_pid \in process_active
    BY <1>3, StateTypeHolds, TerminatedIsActive DEF IInv, StateType, ControlInv, CleanUnlink
  <2>2. PICK q \in 0 .. n - 1 : r[q] = job_pid
    BY <1>1, <2>1 DEF RingOrder
  <2>3. PICK m, s : RingOrder(m, s)'
    BY <1>1, <1>3, <2>2, UnlinkOrder
  <2>4. QED
    BY <2>3 DEF OneRing, RingOrder
<1>4. CASE UNCHANGED ringVars
  BY <1>4 DEF OneRing, RingOrder, ringVars
<1>5. QED
  BY <1>2, <1>3, <1>4, RingChange

-----------------------------------------------------------------------------
(* Going along next_pid *)

\* What the recursive definition defines: from the kernel, link by link.
LEMMA AlongTheRing ==
  ASSUME RingType
  PROVE  RingAt[0] = 0 /\ \A k \in 1 .. MAX_PROCESS : RingAt[k] = next_pid[RingAt[k - 1]]
<1> DEFINE N == MAX_PROCESS
           step == [x \in (1 .. N) \X Pid |-> next_pid[x[2]]]
<1>1. N \in Nat /\ 0 \in Pid /\ next_pid \in [Pid -> Pid]
  BY PagingAssumption DEF RingType
<1>2. Turns(N, Pid, 0, step)
  <2> HIDE DEF N
  <2>1. step \in [(1 .. N) \X Pid -> Pid]
    BY <1>1
  <2>2. QED
    BY <1>1, <2>1 DEF Turns
<1> HIDE DEF N
<1>3. PICK f \in [0 .. N -> Pid] : Counts(f, N, 0, step)
  <2> HIDE DEF step
  <2>1. QED
    BY <1>2, RecursionDown
<1>4. \A k \in 1 .. N : f[k] = next_pid[f[k - 1]]
  <2>1. ASSUME NEW k \in 1 .. N PROVE step[<<k, f[k - 1]>>] = next_pid[f[k - 1]]
    <3>1. k - 1 \in 0 .. N
      BY <1>1
    <3>2. <<k, f[k - 1]>> \in (1 .. N) \X Pid
      BY <1>3, <3>1
    <3>3. QED
      BY <3>2
  <2> HIDE DEF step
  <2>2. QED
    BY <1>3, <2>1 DEF Counts
<1> DEFINE Body(g) == [k \in 0 .. N |-> IF k = 0 THEN 0 ELSE next_pid[g[k - 1]]]
<1>5. f = Body(f)
  <2>1. f[0] = 0
    BY <1>3 DEF Counts
  <2>2. ASSUME NEW k \in 0 .. N PROVE f[k] = Body(f)[k]
    <3>1. CASE k = 0
      BY <2>1, <3>1
    <3>2. CASE k # 0
      <4>1. k \in 1 .. N
        BY <1>1, <3>2
      <4>2. QED
        BY <1>4, <3>2, <4>1
    <3>3. QED
      BY <3>1, <3>2
  <2>3. QED
    BY <1>3, <2>2
<1>6. RingAt = Body(RingAt)
  <2>1. RingAt = CHOOSE g : g = Body(g)
    BY DEF RingAt, N
  <2> HIDE DEF Body
  <2>2. QED
    BY <1>5, <2>1
<1>7. RingAt[0] = 0
  BY <1>1, <1>6
<1>8. ASSUME NEW k \in 1 .. N PROVE RingAt[k] = next_pid[RingAt[k - 1]]
  <2>1. k \in 0 .. N /\ k # 0
    BY <1>1
  <2>2. QED
    BY <1>6, <2>1
<1>9. QED
  BY <1>7, <1>8 DEF N

\* The order of the slots is the one in which next_pid goes through them.
LEMMA RingAtIsTheOrder ==
  ASSUME IInv, NEW n, NEW r, RingOrder(n, r)
  PROVE  RingAt[n] = 0 /\ \A k \in 0 .. n - 1 : RingAt[k] = r[k]
<1>1. RingType /\ n \in Nat /\ n >= 1
  BY OrderFacts
<1>2. RingAt[0] = 0 /\ \A k \in 1 .. MAX_PROCESS : RingAt[k] = next_pid[RingAt[k - 1]]
  BY <1>1, AlongTheRing
<1>3. n - 1 \in Nat /\ MAX_PROCESS \in Nat /\ n <= MAX_PROCESS
  BY <1>1, PagingAssumption DEF RingOrder
<1>4. FollowUp(r, RingAt, n - 1)
  <2>1. RingAt[0] = r[0]
    BY <1>2 DEF RingOrder
  <2>2. ASSUME NEW k \in 0 .. n - 1, k < n - 1, RingAt[k] = r[k] PROVE RingAt[k + 1] = r[k + 1]
    <3>1. k + 1 \in 1 .. MAX_PROCESS /\ (k + 1) - 1 = k /\ k \in 0 .. n - 2
      BY <1>1, <1>3, <2>2
    <3>2. RingAt[k + 1] = next_pid[RingAt[k]]
      BY <1>2, <3>1
    <3>3. QED
      BY <2>2, <3>1, <3>2 DEF RingOrder
  <2>3. QED
    BY <2>1, <2>2 DEF FollowUp
<1>5. \A k \in 0 .. n - 1 : RingAt[k] = r[k]
  BY <1>3, <1>4, RecursionDownUnique
<1>6. RingAt[n] = 0
  <2>1. n \in 1 .. MAX_PROCESS /\ n - 1 \in 0 .. n - 1
    BY <1>1, <1>3
  <2>2. QED
    BY <1>2, <1>5, <2>1 DEF RingOrder
<1>7. QED
  BY <1>5, <1>6

\* The order has as many places as there are active slots.
LEMMA OrderCounts ==
  ASSUME IInv, NEW n, NEW r, RingOrder(n, r)
  PROVE  Cardinality(process_active) = n
<1>1. n \in Nat /\ n >= 1
  BY OrderFacts
<1> DEFINE D == 0 .. n - 1
<1>2. IsFiniteSet(D) /\ Cardinality(D) = n
  <2>1. Cardinality(D) = n - 0
    BY <1>1, IntervalLength
  <2>2. IsFiniteSet(D)
    BY <1>1, FS_Interval
  <2>3. QED
    BY <1>1, <2>1, <2>2
<1>3. r \in Bijection(D, process_active)
  BY DEF RingOrder, Bijection, Injection, Surjection, IsInjective
<1> HIDE DEF D
<1>4. ExistsBijection(D, process_active)
  BY <1>3 DEF ExistsBijection
<1>5. QED
  BY <1>2, <1>4, FS_Bijection

\* In every reachable state the active slots form one ring.
LEMMA OneRingAlways == Spec => [](IInv /\ OneRing)
<1>1. Init => IInv /\ OneRing
  BY InitInv, InitOneRing
<1>2. IInv /\ OneRing /\ [Next]_vars => IInv' /\ OneRing'
  BY NextInv, OneRingStep
<1>3. QED
  BY <1>1, <1>2, PTL DEF Spec

\* next_pid goes once around exactly the active slots and back to the kernel,
\* previous_pid the other way, and last_process_pid and num_process agree with
\* it: so however creations and cleanings alternate, a scheduler that follows
\* the links reaches every process.
THEOREM RingAlwaysWellFormed == Spec => []RingWellFormed
<1>1. IInv /\ OneRing => RingWellFormed
  <2> SUFFICES ASSUME IInv, OneRing PROVE RingWellFormed
    OBVIOUS
  <2>1. PICK n, r : RingOrder(n, r)
    BY DEF OneRing
  <2>2. n \in 1 .. MAX_PROCESS
    BY <2>1 DEF RingOrder
  <2>3. /\ RingType /\ RingInv /\ 0 \in process_active
        /\ n \in Nat /\ n >= 1 /\ n - 1 \in 0 .. n - 1 /\ r[n - 1] = last_process_pid
    BY <2>1, OrderFacts
  <2>4. RingAt[n] = 0 /\ \A k \in 0 .. n - 1 : RingAt[k] = r[k]
    BY <2>1, RingAtIsTheOrder
  <2>5. {RingAt[k] : k \in 0 .. n - 1} = process_active
    BY <2>1, <2>4 DEF RingOrder
  <2>6. ASSUME NEW k \in 1 .. n - 1 PROVE RingAt[k] # 0
    <3>1. k \in 0 .. n - 1 /\ 0 \in 0 .. n - 1 /\ k # 0
      BY <2>3
    <3>2. QED
      BY <2>1, <2>4, <3>1 DEF RingOrder
  <2>7. ASSUME NEW k \in 1 .. n PROVE previous_pid[RingAt[k]] = RingAt[k - 1]
    <3>1. k - 1 \in 0 .. n - 1 /\ k \in 1 .. MAX_PROCESS
      BY <2>2, <2>3, PagingAssumption
    <3>2. RingAt[k] = next_pid[RingAt[k - 1]] /\ RingAt[k - 1] \in process_active
      BY <2>3, <2>5, <3>1, AlongTheRing
    <3>3. QED
      BY <2>3, <3>2 DEF RingInv
  <2>8. last_process_pid = RingAt[n - 1]
    BY <2>3, <2>4
  <2>9. num_process = IF kpc = "load" THEN n - 1 ELSE n
    <3>1. Cardinality(process_active) = n
      BY <2>1, OrderCounts
    <3>2. QED
      BY <2>3, <3>1 DEF IInv, CountInv
  <2>10. QED
    BY <2>2, <2>4, <2>5, <2>6, <2>7, <2>8, <2>9 DEF RingWellFormed
<1>2. QED
  BY <1>1, OneRingAlways, PTL

-----------------------------------------------------------------------------
(* The ring as a sequence *)

\* The sequence for an order of n slots.
InOrder(n, r) == [k \in 1 .. n |-> r[k - 1]]

LEMMA RingIsInOrder ==
  ASSUME IInv, NEW n, NEW r, RingOrder(n, r)
  PROVE  RingLength = n /\ Ring = InOrder(n, r)
<1>1. n \in Nat /\ n >= 1 /\ n \in 1 .. MAX_PROCESS /\ MAX_PROCESS \in Nat
  BY OrderFacts, PagingAssumption DEF RingOrder
<1>2. RingAt[n] = 0 /\ \A k \in 0 .. n - 1 : RingAt[k] = r[k]
  BY RingAtIsTheOrder
<1>3. ASSUME NEW k \in 1 .. n - 1 PROVE RingAt[k] # 0
  <2>1. k \in 0 .. n - 1 /\ 0 \in 0 .. n - 1 /\ k # 0
    BY <1>1
  <2>2. QED
    BY <1>2, <2>1 DEF RingOrder
<1> DEFINE Once(m) == RingAt[m] = 0 /\ \A k \in 1 .. m - 1 : RingAt[k] # 0
<1>4. \A m \in 1 .. MAX_PROCESS : Once(m) => m = n
  <2> SUFFICES ASSUME NEW m \in 1 .. MAX_PROCESS, Once(m) PROVE m = n
    OBVIOUS
  <2>1. ~(m < n)
    <3> SUFFICES ASSUME m < n PROVE FALSE
      OBVIOUS
    <3>1. m \in 1 .. n - 1
      BY <1>1
    <3>2. QED
      BY <1>3, <3>1
  <2>2. ~(n < m)
    <3> SUFFICES ASSUME n < m PROVE FALSE
      OBVIOUS
    <3>1. n \in 1 .. m - 1
      BY <1>1
    <3>2. QED
      BY <1>2, <3>1
  <2>3. QED
    BY <1>1, <2>1, <2>2
<1>5. RingLength = n
  <2>1. Once(n)
    BY <1>2, <1>3
  <2>2. RingLength = CHOOSE m \in 1 .. MAX_PROCESS : Once(m)
    BY DEF RingLength
  <2> HIDE DEF Once
  <2>3. QED
    BY <1>1, <1>4, <2>1, <2>2
<1>6. ASSUME NEW k \in 1 .. n PROVE RingAt[k - 1] = r[k - 1]
  <2>1. k - 1 \in 0 .. n - 1
    BY <1>1
  <2>2. QED
    BY <1>2, <2>1
<1>7. QED
  BY <1>5, <1>6 DEF Ring, InOrder

\* What is needed of the ring as a sequence.
RingSeq(s, n) ==
  /\ n \in Nat /\ n >= 1 /\ s \in Seq(Pid) /\ Len(s) = n
  /\ s[1] = 0
  /\ \A k \in 1 .. n : s[k] \in process_active
  /\ \A p \in process_active : \E k \in 1 .. n : s[k] = p
  /\ \A j, k \in 1 .. n : s[j] = s[k] => j = k
  /\ \A k \in 1 .. n : k < n => next_pid[s[k]] = s[k + 1]
  /\ next_pid[s[n]] = 0

LEMMA RingSequence ==
  ASSUME IInv, OneRing
  PROVE  RingSeq(Ring, RingLength)
<1>1. PICK n, r : RingOrder(n, r)
  BY DEF OneRing
<1>2. RingLength = n /\ Ring = InOrder(n, r)
  BY <1>1, RingIsInOrder
<1>3. /\ n \in Nat /\ n >= 1 /\ n - 1 \in 0 .. n - 1
      /\ \A k \in 0 .. n - 1 : r[k] \in process_active /\ r[k] \in Pid
  BY <1>1, OrderFacts
<1> DEFINE s == InOrder(n, r)
<1>4. \A k \in 1 .. n : s[k] = r[k - 1] /\ k - 1 \in 0 .. n - 1
  BY <1>3 DEF InOrder
<1>5. s \in Seq(Pid) /\ Len(s) = n
  <2>1. s \in [1 .. n -> Pid]
    BY <1>3, <1>4 DEF InOrder
  <2>2. QED
    BY <1>3, <2>1
<1> HIDE DEF s
<1>6. s[1] = 0
  BY <1>1, <1>3, <1>4 DEF RingOrder
<1>7. ASSUME NEW p \in process_active PROVE \E k \in 1 .. n : s[k] = p
  <2>1. PICK k \in 0 .. n - 1 : r[k] = p
    BY <1>1 DEF RingOrder
  <2>2. k + 1 \in 1 .. n /\ (k + 1) - 1 = k
    BY <1>3
  <2>3. QED
    BY <1>4, <2>1, <2>2
<1>8. ASSUME NEW j \in 1 .. n, NEW k \in 1 .. n, s[j] = s[k] PROVE j = k
  <2>1. j - 1 = k - 1
    BY <1>1, <1>4, <1>8 DEF RingOrder
  <2>2. QED
    BY <1>3, <2>1
<1>9. ASSUME NEW k \in 1 .. n, k < n PROVE next_pid[s[k]] = s[k + 1]
  <2>1. k - 1 \in 0 .. n - 2 /\ k + 1 \in 1 .. n /\ (k + 1) - 1 = k /\ (k - 1) + 1 = k
    BY <1>3, <1>9
  <2>2. next_pid[r[k - 1]] = r[k]
    BY <1>1, <2>1 DEF RingOrder
  <2>3. QED
    BY <1>4, <2>1, <2>2
<1>10. next_pid[s[n]] = 0
  <2>1. n \in 1 .. n
    BY <1>3
  <2>2. QED
    BY <1>1, <1>4, <2>1 DEF RingOrder
<1>11. RingSeq(s, n)
  BY <1>3, <1>4, <1>5, <1>6, <1>7, <1>8, <1>9, <1>10 DEF RingSeq
<1>12. QED
  BY <1>2, <1>11 DEF s

\* The turns after the current process follow next_pid, and the last of them is
\* its own.
LEMMA TurnsFollowTheRing ==
  ASSUME IInv, OneRing
  PROVE  /\ RingLength \in Nat /\ RingLength >= 1
         /\ Turn!Turns[1] = next_pid[current_process]
         /\ \A k \in 1 .. RingLength : k < RingLength =>
              Turn!Turns[k + 1] = next_pid[Turn!Turns[k]]
         /\ Turn!Turns[RingLength] = current_process
         /\ \E k \in 1 .. RingLength : Turn!Turns[k] = 0
<1> DEFINE n == RingLength
           s == Ring
           at == CHOOSE k \in 1 .. Len(s) : s[k] = current_process
           Late == SubSeq(s, at + 1, Len(s))
           Early == SubSeq(s, 1, at)
<1>1. /\ n \in Nat /\ n >= 1 /\ s \in Seq(Pid) /\ Len(s) = n /\ s[1] = 0
      /\ \A k \in 1 .. n : s[k] \in process_active
      /\ \A k \in 1 .. n : k < n => next_pid[s[k]] = s[k + 1]
      /\ next_pid[s[n]] = 0
  BY RingSequence DEF RingSeq
<1>2. \E k \in 1 .. n : s[k] = current_process
  BY RingSequence DEF RingSeq, IInv, StateInv
<1>3. at \in 1 .. n /\ s[at] = current_process
  BY <1>1, <1>2
<1>4. Turn!Turns = Late \o Early
  BY DEF Turn!Turns
<1>5. at \in Nat /\ n - at \in Nat /\ \A k \in 1 .. n : s[k] \in Pid
  <2>1. \A k \in 1 .. n : s[k] \in Pid
    BY <1>1
  <2>2. QED
    BY <1>1, <1>3, <2>1
<1> HIDE DEF at, s, n
<1>6. /\ Late \in Seq(Pid) /\ Len(Late) = n - at
      /\ \A i \in 1 .. n - at : Late[i] = s[at + i]
  <2>1. at + 1 \in Int /\ n \in Int /\ \A i \in at + 1 .. n : s[i] \in Pid
    BY <1>1, <1>3, <1>5
  <2>2. /\ SubSeq(s, at + 1, n) \in Seq(Pid)
        /\ Len(SubSeq(s, at + 1, n)) = IF at + 1 <= n THEN n - (at + 1) + 1 ELSE 0
        /\ \A i \in 1 .. n - (at + 1) + 1 : SubSeq(s, at + 1, n)[i] = s[at + 1 + i - 1]
    BY <2>1, SubSeqProperties
  <2>3. n - (at + 1) + 1 = n - at /\ (IF at + 1 <= n THEN n - (at + 1) + 1 ELSE 0) = n - at
    BY <1>1, <1>3, <1>5
  <2>4. \A i \in 1 .. n - at : at + 1 + i - 1 = at + i
    BY <1>1, <1>5
  <2>5. QED
    BY <1>1, <2>2, <2>3, <2>4
<1>7. /\ Early \in Seq(Pid) /\ Len(Early) = at
      /\ \A i \in 1 .. at : Early[i] = s[i]
  <2>1. at \in Int /\ 1 \in Int /\ \A i \in 1 .. at : s[i] \in Pid
    BY <1>1, <1>3, <1>5
  <2>2. /\ SubSeq(s, 1, at) \in Seq(Pid)
        /\ Len(SubSeq(s, 1, at)) = IF 1 <= at THEN at - 1 + 1 ELSE 0
        /\ \A i \in 1 .. at - 1 + 1 : SubSeq(s, 1, at)[i] = s[1 + i - 1]
    BY <2>1, SubSeqProperties
  <2>3. at - 1 + 1 = at /\ (IF 1 <= at THEN at - 1 + 1 ELSE 0) = at
    BY <1>3, <1>5
  <2>4. \A i \in 1 .. at : 1 + i - 1 = i
    BY <1>5
  <2>5. QED
    BY <2>2, <2>3, <2>4
<1> HIDE DEF Late, Early
<1>8. \A i \in 1 .. n : Turn!Turns[i] = IF i <= n - at THEN s[at + i] ELSE s[i - (n - at)]
  <2>1. \A i \in 1 .. Len(Late) + Len(Early) : (Late \o Early)[i] =
           IF i <= Len(Late) THEN Late[i] ELSE Early[i - Len(Late)]
    BY <1>6, <1>7, ConcatProperties
  <2>2. Len(Late) + Len(Early) = n
    BY <1>1, <1>5, <1>6, <1>7
  <2>3. ASSUME NEW i \in 1 .. n
        PROVE  (IF i <= n - at THEN Late[i] ELSE Early[i - (n - at)]) =
               IF i <= n - at THEN s[at + i] ELSE s[i - (n - at)]
    <3>1. i <= n - at => i \in 1 .. n - at
      BY <1>1, <1>5
    <3>2. ~(i <= n - at) => i - (n - at) \in 1 .. at
      BY <1>1, <1>5
    <3>3. QED
      BY <1>6, <1>7, <3>1, <3>2
  <2>4. QED
    BY <1>4, <1>6, <2>1, <2>2, <2>3
<1>9. 1 \in 1 .. n /\ n \in 1 .. n
  BY <1>1
<1>10. Turn!Turns[n] = current_process
  <2>1. ~(n <= n - at) /\ n - (n - at) = at
    BY <1>1, <1>3, <1>5
  <2>2. QED
    BY <1>3, <1>8, <1>9, <2>1
<1>11. Turn!Turns[1] = next_pid[current_process]
  <2>1. CASE at < n
    <3>1. 1 <= n - at
      BY <1>1, <1>5, <2>1
    <3>2. QED
      BY <1>1, <1>3, <1>8, <1>9, <2>1, <3>1
  <2>2. CASE ~(at < n)
    <3>1. at = n /\ ~(1 <= n - at) /\ 1 - (n - at) = 1
      BY <1>1, <1>3, <1>5, <2>2
    <3>2. QED
      BY <1>1, <1>3, <1>8, <1>9, <3>1
  <2>3. QED
    BY <2>1, <2>2
<1>12. ASSUME NEW k \in 1 .. n, k < n PROVE Turn!Turns[k + 1] = next_pid[Turn!Turns[k]]
  <2>1. k + 1 \in 1 .. n /\ k \in Nat
    BY <1>1, <1>12
  <2>2. CASE k + 1 <= n - at
    <3>1. k <= n - at /\ at + (k + 1) = (at + k) + 1 /\ at + k \in 1 .. n /\ at + k < n
      BY <1>1, <1>5, <2>1, <2>2
    <3>2. QED
      BY <1>1, <1>8, <2>1, <2>2, <3>1
  <2>3. CASE k = n - at
    <3>1. k <= n - at /\ ~(k + 1 <= n - at) /\ at + k = n /\ (k + 1) - (n - at) = 1
      BY <1>1, <1>5, <2>1, <2>3
    <3>2. QED
      BY <1>1, <1>8, <2>1, <3>1
  <2>4. CASE ~(k <= n - at)
    <3>1. /\ ~(k + 1 <= n - at) /\ (k + 1) - (n - at) = (k - (n - at)) + 1
          /\ k - (n - at) \in 1 .. n /\ k - (n - at) < n
      BY <1>1, <1>3, <1>5, <1>12, <2>1, <2>4
    <3>2. QED
      BY <1>1, <1>8, <2>1, <2>4, <3>1
  <2>5. QED
    BY <1>1, <1>5, <2>1, <2>2, <2>3, <2>4
<1>13. \E k \in 1 .. n : Turn!Turns[k] = 0
  <2>1. n - at + 1 \in 1 .. n /\ ~(n - at + 1 <= n - at) /\ (n - at + 1) - (n - at) = 1
    BY <1>1, <1>3, <1>5
  <2>2. Turn!Turns[n - at + 1] = 0
    BY <1>1, <1>8, <2>1
  <2>3. QED
    BY <2>1, <2>2
<1>14. QED
  BY <1>1, <1>10, <1>11, <1>12, <1>13 DEF n

-----------------------------------------------------------------------------
(* Process management is the round robin *)

\* A scheduler looks at the process after the current one first, and passes
\* over dead ones only; before it has come around it meets the kernel, which is
\* never dead.
LEMMA PassedOverStep ==
  ASSUME IInv, OneRing, PassedOverDead, [Next]_vars
  PROVE  PassedOverDead'
<1>1. /\ RingLength \in Nat /\ RingLength >= 1
      /\ Turn!Turns[1] = next_pid[current_process]
      /\ \A k \in 1 .. RingLength : k < RingLength =>
           Turn!Turns[k + 1] = next_pid[Turn!Turns[k]]
      /\ \E k \in 1 .. RingLength : Turn!Turns[k] = 0
  BY TurnsFollowTheRing
<1>2. UNCHANGED <<next_pid, current_process, state, process_active>> =>
        /\ RingLength' = RingLength /\ Ring' = Ring /\ Dead' = Dead
        /\ Turn!Turns' = Turn!Turns
  BY DEF RingLength, RingAt, Ring, Dead, Turn!Turns
<1>3. CASE Timer
  <2>1. /\ job_pid' = next_pid[current_process]
        /\ UNCHANGED <<next_pid, current_process, state, process_active>>
    BY <1>3 DEF Timer, pcbVars, listVars
  <2>2. 1 \in 1 .. RingLength' /\ Turn!Turns'[1] = job_pid' /\ 1 .. 1 - 1 = {}
    BY <1>1, <1>2, <2>1
  <2>3. QED
    BY <2>2 DEF PassedOverDead
<1>4. CASE PickSkip
  <2>1. /\ job_pid' = next_pid[job_pid] /\ kpc = "pick" /\ state[job_pid] = "TERMINATED"
        /\ UNCHANGED <<next_pid, current_process, state, process_active>>
    BY <1>4 DEF PickSkip, pcbVars, listVars
  <2>2. PICK k \in 1 .. RingLength :
          Turn!Turns[k] = job_pid /\ \A j \in 1 .. k - 1 : Turn!Turns[j] \in Dead
    BY <2>1 DEF PassedOverDead
  <2>3. job_pid \in Dead /\ 0 \notin Dead
    BY <2>1, StateTypeHolds, TerminatedIsActive DEF IInv, StateInv, Dead, StateType
  <2>4. k < RingLength
    <3> SUFFICES ASSUME ~(k < RingLength) PROVE FALSE
      OBVIOUS
    <3>1. k = RingLength
      BY <1>1
    <3>2. \A j \in 1 .. RingLength : j = k \/ j \in 1 .. k - 1
      BY <1>1, <3>1
    <3>3. \A j \in 1 .. RingLength : Turn!Turns[j] \in Dead
      BY <2>2, <2>3, <3>2
    <3>4. QED
      BY <1>1, <2>3, <3>3
  <2>5. k + 1 \in 1 .. RingLength /\ Turn!Turns[k + 1] = job_pid'
    BY <1>1, <2>1, <2>2, <2>4
  <2>6. \A j \in 1 .. (k + 1) - 1 : Turn!Turns[j] \in Dead
    <3>1. \A j \in 1 .. (k + 1) - 1 : j = k \/ j \in 1 .. k - 1
      BY <1>1
    <3>2. QED
      BY <2>2, <2>3, <3>1
  <2>7. QED
    BY <1>2, <2>1, <2>5, <2>6 DEF PassedOverDead
<1>5. CASE UNCHANGED vars
  <2>1. UNCHANGED <<next_pid, current_process, state, process_active, kpc, job_pid>>
    BY <1>5 DEF vars, pcbVars, listVars, ctlVars
  <2>2. QED
    BY <1>2, <2>1 DEF PassedOverDead
<1>6. Timer \/ PickSkip \/ UNCHANGED vars \/ kpc' # "pick"
  BY DEF Next, Create, Call, Collect, Tick, CreateRefuse, CreateAccept, CreateDirectory, CreatePage, CreateLink,
    CreateLoad, CleanUnlink, Stop, Exit, OtherSyscall, ScanLook, CleanBegin, CleanPage, PickSame, Switch,
    SwitchContext, UserSyscall, Return, vars, ctlVars
<1>7. QED
  BY <1>3, <1>4, <1>5, <1>6 DEF PassedOverDead

\* What a step can be seen to do: the steps that the round robin has names for.
LEMMA TurnChange ==
  ASSUME [Next]_vars
  PROVE  \/ CreateLink \/ CleanUnlink \/ CreateDirectory \/ Switch \/ Exit
         \/ \E pid \in Pid : Stop(pid)
         \/ UNCHANGED <<next_pid, process_active, state, current_process>>
BY DEF Next, Create, Call, Collect, Tick, CreateRefuse, CreateAccept, CreatePage, CreateLoad,
  OtherSyscall, ScanLook, CleanBegin, CleanPage, Timer, PickSkip, PickSame,
  SwitchContext, UserSyscall, vars, pcbVars, listVars

\* A step that leaves the links alone leaves the ring.
LEMMA SameRing ==
  ASSUME UNCHANGED next_pid
  PROVE  Ring' = Ring /\ RingLength' = RingLength
BY DEF Ring, RingLength, RingAt

\* The same before and after a step.
RingRead == \A n, r : RingOrder(n, r) => RingLength = n /\ Ring = InOrder(n, r)

LEMMA RingReadBothTimes == (IInv => RingRead) /\ (IInv' => RingRead')
<1>1. IInv => RingRead
  BY RingIsInOrder DEF RingRead
<1>2. IInv' => RingRead'
  BY <1>1, PTL
<1>3. QED
  BY <1>1, <1>2

\* A new process queues at the end.
LEMMA LinkIsSpawn ==
  ASSUME IInv, IInv', OneRing, CreateLink
  PROVE  Turn!RRNext
<1>1. PICK n, r : RingOrder(n, r)
  BY DEF OneRing
<1>2. /\ job_pid \in Pid /\ job_pid \notin process_active /\ state[job_pid] = "NEW"
      /\ process_active' = process_active \cup {job_pid}
      /\ UNCHANGED <<state, current_process>>
  BY DEF CreateLink, IInv, ControlInv, StateInv, Building, TypeOK
<1>3. Ring = InOrder(n, r) /\ n \in Nat /\ n >= 1
  BY <1>1, RingIsInOrder, OrderFacts
<1>4. PICK j : j = job_pid
  OBVIOUS
<1>5. PICK m, s : m = n + 1 /\ s = Linked(n, r, j) /\ RingOrder(m, s)'
  BY <1>1, <1>4, LinkOrder
<1>6. Ring' = InOrder(m, s)
  <2>1. Ring' = InOrder(m, s)'
    BY <1>5, RingReadBothTimes DEF RingRead
  <2>2. QED
    BY <2>1 DEF InOrder
<1>7. Ring' = Append(Ring, j)
  <2>1. Ring \in Seq(Pid) /\ Len(Ring) = n /\ j \in Pid
    BY <1>1, <1>2, <1>4, RingSequence, RingIsInOrder DEF RingSeq
  <2>2. \A k \in 1 .. n : k \in 1 .. n + 1 /\ k - 1 \in 0 .. n /\ k - 1 # n
    BY <1>3
  <2>3. ASSUME NEW k \in 1 .. n + 1
        PROVE  s[k - 1] = IF k = n + 1 THEN j ELSE Ring[k]
    <3>1. CASE k = n + 1
      BY <1>3, <1>5, <3>1 DEF Linked
    <3>2. CASE k # n + 1
      <4>1. k \in 1 .. n
        BY <1>3, <3>2
      <4>2. QED
        BY <1>3, <1>5, <2>2, <3>2, <4>1 DEF Linked, InOrder
    <3>3. QED
      BY <3>1, <3>2
  <2>4. InOrder(m, s) = [k \in 1 .. n + 1 |-> IF k = n + 1 THEN j ELSE Ring[k]]
    BY <1>5, <2>3 DEF InOrder
  <2>5. Append(Ring, j) = [k \in 1 .. n + 1 |-> IF k = n + 1 THEN j ELSE Ring[k]]
    BY <2>1, AppendGives
  <2>6. QED
    BY <1>6, <2>4, <2>5
<1>8. Dead' = Dead
  BY <1>2 DEF Dead
<1>9. ~Turn!Contains(Ring, j)
  <2>1. \A k \in 1 .. RingLength : Ring[k] \in process_active
    BY RingSequence DEF RingSeq
  <2>2. Len(Ring) = RingLength
    BY RingSequence DEF RingSeq
  <2>3. QED
    BY <1>2, <1>4, <2>1, <2>2 DEF Turn!Contains
<1>10. Turn!Spawn(j)
  BY <1>2, <1>7, <1>8, <1>9 DEF Turn!Spawn
<1>11. QED
  BY <1>2, <1>4, <1>10 DEF Turn!RRNext

\* A cleaned process leaves the ring, and it was dead and not on the CPU.
LEMMA UnlinkIsReap ==
  ASSUME IInv, IInv', OneRing, CleanUnlink
  PROVE  Turn!RRNext
<1>1. PICK n, r : RingOrder(n, r)
  BY DEF OneRing
<1>2. PICK j : j = job_pid
  OBVIOUS
<1>3. /\ j \in Pid /\ j \in Dead /\ j # current_process
      /\ state' = [state EXCEPT ![j] = "NULL_PROCESS"] /\ state \in [Pid -> ProcState]
      /\ process_active' = process_active \ {j} /\ process_active \subseteq Pid
      /\ UNCHANGED current_process
  <2>1. StateType /\ ControlInv /\ StateInv
    BY StateTypeHolds DEF IInv
  <2>2. kpc = "clean" /\ state[job_pid] = "TERMINATED" /\ job_pid # 0 /\ current_process = 0
    BY <2>1 DEF CleanUnlink, ControlInv
  <2>3. job_pid \in process_active
    BY <2>1, <2>2, TerminatedIsActive DEF StateType
  <2>4. QED
    BY <1>2, <2>1, <2>2, <2>3 DEF CleanUnlink, StateType, Dead
<1>4. PICK q \in 0 .. n - 1 : r[q] = j
  BY <1>1, <1>3 DEF RingOrder, Dead
<1>5. PICK m, s : m = n - 1 /\ s = Unlinked(n, r, q) /\ RingOrder(m, s)' /\ q # 0
  BY <1>1, <1>2, <1>4, UnlinkOrder
<1>6. Ring' = InOrder(m, s) /\ Ring = InOrder(n, r)
  <2>1. Ring' = InOrder(m, s)'
    BY <1>5, RingReadBothTimes DEF RingRead
  <2>2. QED
    BY <1>1, <2>1, RingIsInOrder DEF InOrder
<1>7. /\ n \in Nat /\ n >= 1 /\ Ring \in Seq(Pid) /\ Len(Ring) = n
      /\ q + 1 \in 1 .. n /\ Ring[q + 1] = j
  <2>1. n \in Nat /\ n >= 1 /\ Ring \in Seq(Pid) /\ Len(Ring) = n
    BY <1>1, RingSequence, RingIsInOrder, OrderFacts DEF RingSeq
  <2>2. q + 1 \in 1 .. n /\ (q + 1) - 1 = q
    BY <2>1
  <2>3. QED
    BY <1>4, <1>6, <2>1, <2>2 DEF InOrder
<1>8. Ring' = Turn!RemoveAt(Ring, q + 1)
  <2>1. ASSUME NEW k \in 1 .. n - 1
        PROVE  s[k - 1] = IF k < q + 1 THEN Ring[k] ELSE Ring[k + 1]
    <3>1. /\ k - 1 \in 0 .. n - 2 /\ k \in 1 .. n /\ k + 1 \in 1 .. n
          /\ (k - 1 < q <=> k < q + 1) /\ (k + 1) - 1 = k /\ (k - 1) + 1 = k
      BY <1>7
    <3>2. Ring[k] = r[k - 1] /\ Ring[k + 1] = r[k]
      BY <1>6, <3>1 DEF InOrder
    <3>3. s[k - 1] = IF k - 1 < q THEN r[k - 1] ELSE r[k]
      BY <1>5, <3>1 DEF Unlinked
    <3>4. QED
      BY <3>1, <3>2, <3>3
  <2>2. InOrder(m, s) = [k \in 1 .. n - 1 |-> IF k < q + 1 THEN Ring[k] ELSE Ring[k + 1]]
    BY <1>5, <2>1 DEF InOrder
  <2>3. PICK i \in 1 .. Len(Ring) : i = q + 1
    BY <1>7
  <2>4. Turn!RemoveAt(Ring, i) = [k \in 1 .. Len(Ring) - 1 |-> IF k < i THEN Ring[k] ELSE Ring[k + 1]]
    BY <1>7, RemoveAtGives DEF Turn!RemoveAt
  <2>5. QED
    BY <1>6, <1>7, <2>2, <2>3, <2>4
<1>9. Dead' = Dead \ {j}
  BY <1>3 DEF Dead
<1>10. Turn!Reap(j)
  BY <1>3, <1>7, <1>8, <1>9 DEF Turn!Reap
<1>11. QED
  BY <1>3, <1>10 DEF Turn!RRNext

\* The scheduler switches to the first process in turn that is not dead.
LEMMA SwitchIsDispatch ==
  ASSUME IInv, OneRing, PassedOverDead, Switch
  PROVE  Turn!RRNext
<1>1. /\ kpc = "pick" /\ state[job_pid] # "TERMINATED" /\ current_process' = job_pid
      /\ state' = [state EXCEPT ![current_process] = IF @ = "RUNNING" THEN "READY" ELSE @,
                                ![job_pid] = "RUNNING"]
      /\ UNCHANGED <<next_pid, process_active>>
  BY DEF Switch, listVars
<1>2. /\ state \in [Pid -> ProcState] /\ job_pid \in Pid /\ current_process \in Pid
      /\ process_active \subseteq Pid
  BY DEF IInv, TypeOK
<1>3. \A p \in Pid : state'[p] = "TERMINATED" <=> state[p] = "TERMINATED"
  BY <1>1, <1>2
<1>4. Dead' = Dead
  BY <1>1, <1>2, <1>3 DEF Dead
<1>5. Ring' = Ring /\ RingLength' = RingLength /\ Len(Ring) = RingLength
  BY <1>1, SameRing, RingSequence DEF RingSeq
<1>6. PICK k \in 1 .. RingLength :
        Turn!Turns[k] = job_pid /\ \A j \in 1 .. k - 1 : Turn!Turns[j] \in Dead
  BY <1>1 DEF PassedOverDead
<1>7. Turn!Turns[k] \notin Dead
  BY <1>1, <1>6 DEF Dead
<1>8. Turn!Dispatch
  BY <1>1, <1>4, <1>5, <1>6, <1>7 DEF Turn!Dispatch
<1>9. QED
  BY <1>8 DEF Turn!RRNext

\* kill and exit make a process dead, and leave it in the ring.
LEMMA StopIsKill ==
  ASSUME IInv, OneRing, NEW p \in Pid, p # 0, p \in process_active,
         state' = [state EXCEPT ![p] = "TERMINATED"],
         UNCHANGED <<next_pid, process_active, current_process>>
  PROVE  Turn!RRNext
<1>1. state \in [Pid -> ProcState] /\ process_active \subseteq Pid
  BY DEF IInv, TypeOK
<1>2. Dead' = Dead \cup {p}
  BY <1>1 DEF Dead
<1>3. Turn!Contains(Ring, p)
  BY RingSequence DEF RingSeq, Turn!Contains
<1>4. Turn!Kill(p)
  BY <1>2, <1>3, SameRing DEF Turn!Kill
<1>5. QED
  BY <1>4 DEF Turn!RRNext

\* Every step is one of the round robin or none.
LEMMA StepIsRoundRobin ==
  ASSUME IInv, IInv', OneRing, PassedOverDead, [Next]_vars
  PROVE  Turn!RRNext \/ UNCHANGED <<Ring, Dead, current_process>>
<1>0. StateType /\ StateInv
  BY StateTypeHolds DEF IInv
<1>1. CASE CreateLink
  BY <1>1, LinkIsSpawn
<1>2. CASE CleanUnlink
  BY <1>2, UnlinkIsReap
<1>3. CASE Switch
  BY <1>3, SwitchIsDispatch
<1>4. CASE CreateDirectory
  <2>1. PICK pid \in Pid : IsGeneratedPid(pid) /\ state' = [state EXCEPT ![pid] = "NEW"]
    BY <1>4 DEF CreateDirectory
  <2>2. UNCHANGED <<next_pid, process_active, current_process>> /\ pid \notin process_active
    BY <1>4, <2>1 DEF CreateDirectory, listVars, IsGeneratedPid
  <2>3. Dead' = Dead
    BY <1>0, <2>1, <2>2 DEF Dead, StateType
  <2>4. QED
    BY <2>2, <2>3, SameRing
<1>5. ASSUME NEW pid \in Pid, Stop(pid) PROVE Turn!RRNext
  <2>1. /\ pid # 0 /\ state[pid] # "NULL_PROCESS" /\ kpc = "run"
        /\ state' = [state EXCEPT ![pid] = "TERMINATED"]
        /\ UNCHANGED <<next_pid, process_active, current_process>>
    BY <1>5 DEF Stop, UserSyscall, listVars
  <2>2. pid \in process_active
    BY <1>0, <2>1 DEF StateInv, Building
  <2>3. QED
    BY <2>1, <2>2, StopIsKill
<1>6. CASE Exit
  <2>1. /\ current_process # 0
        /\ state' = [state EXCEPT ![current_process] = "TERMINATED"]
        /\ UNCHANGED <<next_pid, process_active, current_process>>
    BY <1>6 DEF Exit, UserSyscall, listVars
  <2>2. PICK p \in Pid : p = current_process
    BY <1>0 DEF StateType
  <2>3. p \in process_active
    BY <1>0, <2>2 DEF StateInv
  <2>4. QED
    BY <2>1, <2>2, <2>3, StopIsKill
<1>7. CASE UNCHANGED <<next_pid, process_active, state, current_process>>
  BY <1>7, SameRing DEF Dead
<1>8. QED
  BY <1>1, <1>2, <1>3, <1>4, <1>5, <1>6, <1>7, TurnChange

\* Process management implements the abstract round robin for any number of
\* slots and frames: newcomers queue at the end, the CPU goes to the first
\* process in turn that is not terminated, and nobody on the CPU is taken out.
THEOREM ProcessesTakeTurns == Spec => RoundRobinOrder
<1> DEFINE Inv == IInv /\ OneRing /\ PassedOverDead
<1>1. Init => Inv
  BY InitInv, InitOneRing DEF Init, PassedOverDead
<1>2. Inv /\ [Next]_vars => Inv'
  BY NextInv, OneRingStep, PassedOverStep
<1>3. Init => Turn!RRInit
  <2> SUFFICES ASSUME Init PROVE Turn!RRInit
    OBVIOUS
  <2>1. IInv /\ OneRing
    BY InitInv, InitOneRing
  <2>2. RingSeq(Ring, RingLength)
    BY <2>1, RingSequence
  <2>3. /\ process_active = {0} /\ current_process = 0 /\ state[0] = "RUNNING"
    BY Layout DEF Init
  <2>4. RingLength = 1
    <3>1. Ring[1] = Ring[RingLength] /\ 1 \in 1 .. RingLength /\ RingLength \in 1 .. RingLength
      BY <2>2, <2>3 DEF RingSeq
    <3>2. QED
      BY <2>2, <3>1 DEF RingSeq
  <2>5. Ring = <<0>>
    <3>1. Ring \in Seq(Pid) /\ Len(Ring) = 1 /\ Ring[1] = 0
      BY <2>2, <2>4 DEF RingSeq
    <3>2. QED
      BY <3>1
  <2>6. Dead = {}
    BY <2>3 DEF Dead
  <2>7. QED
    BY <2>3, <2>5, <2>6 DEF Turn!RRInit
<1>4. Inv /\ Inv' /\ [Next]_vars => [Turn!RRNext]_<<Ring, Dead, current_process>>
  BY StepIsRoundRobin
<1>5. Turn!RRSpec <=> Turn!RRInit /\ [][Turn!RRNext]_<<Ring, Dead, current_process>>
  BY DEF Turn!RRSpec, Turn!rrVars
<1> HIDE DEF Inv
<1>6. QED
  BY <1>1, <1>2, <1>3, <1>4, <1>5, PTL DEF Spec, RoundRobinOrder
=============================================================================
