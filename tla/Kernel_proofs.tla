--------------------------- MODULE Kernel_proofs ---------------------------
(***************************************************************************)
(* The kernel with its window system calls is process management with some *)
(* of its other system calls made concrete, so what is proved of process   *)
(* management holds of the kernel.  What the window manager keeps holds of *)
(* it as well; together they say that windows do not outlive their owner.  *)
(***************************************************************************)
EXTENDS Kernel, Process_proofs, Windows_proofs

\* A window call is to process management just another system call.
LEMMA KernelStep == TypeOK /\ [KernelNext]_kernelVars => [Next]_vars
<1> SUFFICES ASSUME TypeOK, [KernelNext]_kernelVars PROVE [Next]_vars
  OBVIOUS
<1>1. CASE WindowCall
  <2>1. CASE irq0 = "in_service"
    BY <1>1, <2>1 DEF WindowCall, OtherSyscall, Next, Call
  <2>2. CASE irq0 = "idle"
    BY <1>1, <2>2 DEF WindowCall, UserSyscall, vars, cpuVars
  <2>3. QED
    BY <2>1, <2>2 DEF TypeOK
<1>2. CASE CleanWindowsAndUnlink
  BY <1>2 DEF CleanWindowsAndUnlink, Next
<1>3. CASE Create \/ Call \/ Collect \/ Tick
  BY <1>3 DEF Next
<1>4. CASE UNCHANGED kernelVars
  BY <1>4 DEF kernelVars
<1>5. QED
  BY <1>1, <1>2, <1>3, <1>4 DEF KernelNext

\* The inductive invariant of process management is one of the kernel.
THEOREM KernelInvariance == KernelSpec => []IInv
<1>1. KernelInit => IInv
  BY InitInv DEF KernelInit
<1>2. IInv /\ [KernelNext]_kernelVars => IInv'
  BY KernelStep, NextInv DEF IInv
<1>3. QED
  BY <1>1, <1>2, PTL DEF KernelSpec

\* Every behaviour of the kernel is one of process management: the theorems
\* about frames, address spaces, states, cleaning and the timer carry over.
THEOREM KernelImplementsProcess == KernelSpec => Spec
<1>1. KernelInit => Init
  BY DEF KernelInit
<1>2. IInv /\ [KernelNext]_kernelVars => [Next]_vars
  BY KernelStep DEF IInv
<1>3. QED
  BY <1>1, <1>2, KernelInvariance, PTL DEF KernelSpec, Spec
-----------------------------------------------------------------------------
(* Windows and their owners.  The hypothesis is the one under which          *)
(* process_clean closes all windows of a process: that it has at most one.   *)

\* To the window manager a step of the kernel is a call or nothing.
LEMMA KernelWindowStep == WinInv /\ [KernelNext]_kernelVars => [WinNext]_winVars
<1> SUFFICES ASSUME WinInv, [KernelNext]_kernelVars PROVE [WinNext]_winVars
  OBVIOUS
<1>1. CASE WindowCall
  BY <1>1 DEF WindowCall, WinNext
<1>2. CASE CleanWindowsAndUnlink
  <2>1. Clean(job_pid)
    BY <1>2 DEF CleanWindowsAndUnlink
  <2>2. CASE \E h \in Handle : Owner[h] = job_pid
    BY <2>1, <2>2 DEF WinNext
  <2>3. CASE \A h \in Handle : Owner[h] # job_pid
    <3>1. /\ WellKept(winmgr) /\ registered \subseteq Handle
          /\ winfo_id \in [Handle -> Id \cup {NoId}]
          /\ \A id \in winmgr.windows_exist : winmgr.windows[id].pid # job_pid
      BY <2>3 DEF WinInv, Kept, Books
    <3>2. CleanWindows(winmgr, job_pid) = winmgr
      <4>1. WindowsOf(winmgr, job_pid) = {}
        BY <3>1 DEF WindowsOf
      <4>2. QED
        BY <3>1, <4>1, CleanNone
    <3>3. winmgr' = winmgr /\ registered' = registered
          /\ winfo_id' = [h \in Handle |-> winfo_id[h]]
      BY <2>1, <2>3, <3>1, <3>2 DEF Clean
    <3>4. QED
      BY <3>1, <3>3 DEF winVars
  <2>4. QED
    BY <2>2, <2>3
<1>3. CASE UNCHANGED winVars
  BY <1>3
<1>4. QED
  BY <1>1, <1>2, <1>3 DEF KernelNext, kernelVars

\* Windows are registered for processes that have a slot.
OwnersLive == \A h \in registered : Owner[h] \in process_active

LEMMA OwnersStayLive ==
  ASSUME IInv, WinInv, OwnersLive, [KernelNext]_kernelVars
  PROVE  OwnersLive'
<1> USE DEF OwnersLive
<1>1. CASE WindowCall
  <2>1. current_process \in process_active /\ process_active' = process_active
    BY <1>1 DEF WindowCall, IInv, StateInv, listVars
  <2>2. PICK h \in Handle : Owner[h] = current_process /\ UserCall(h)
    BY <1>1 DEF WindowCall
  <2>3. registered' \subseteq registered \cup {h}
    BY <2>2 DEF UserCall, Register, Update, Raise, Close
  <2>4. QED
    BY <2>1, <2>2, <2>3
<1>2. CASE CleanWindowsAndUnlink
  <2>1. process_active' = process_active \ {job_pid} /\ Clean(job_pid)
    BY <1>2 DEF CleanWindowsAndUnlink, CleanUnlink
  <2>2. \A h \in registered' : h \in registered /\ Owner[h] # job_pid
    BY <2>1 DEF Clean, WinInv, Kept, Books
  <2>3. QED
    BY <2>1, <2>2
<1>3. CASE (Create \/ Call \/ Collect \/ Tick) /\ UNCHANGED winVars
  <2>1. registered' = registered
    BY <1>3 DEF winVars
  <2>2. CASE Create
    <3>1. process_active \subseteq process_active'
      BY <2>2 DEF Create, CreateRefuse, CreateAccept, CreateDirectory, CreatePage, CreateLink,
                  CreateLoad, listVars
    <3>2. QED
      BY <2>1, <3>1
  <2>3. CASE Call
    BY <2>1, <2>3 DEF Call, Stop, Exit, OtherSyscall, listVars
  <2>4. CASE Collect
    BY <2>1, <2>4 DEF Collect, ScanLook, CleanBegin, CleanPage, listVars
  <2>5. CASE Tick
    BY <2>1, <2>5 DEF Tick, Timer, PickSkip, PickSame, Switch, SwitchContext, listVars
  <2>6. QED
    BY <1>3, <2>2, <2>3, <2>4, <2>5
<1>4. CASE UNCHANGED kernelVars
  BY <1>4 DEF kernelVars, winVars, vars, listVars
<1>5. QED
  BY <1>1, <1>2, <1>3, <1>4 DEF KernelNext

LEMMA KernelWindowsInv == ASSUME OneWindowEach PROVE KernelSpec => [](WinInv /\ OwnersLive)
<1>1. KernelInit => WinInv /\ OwnersLive
  BY WinInvInit DEF KernelInit, WinInit, OwnersLive
<1>2. IInv /\ WinInv /\ OwnersLive /\ [KernelNext]_kernelVars => WinInv' /\ OwnersLive'
  <2>1. WinInv /\ [KernelNext]_kernelVars => WinInv'
    BY KernelWindowStep, WinInvInductive
  <2>2. QED
    BY <2>1, OwnersStayLive
<1>3. QED
  BY <1>1, <1>2, KernelInvariance, PTL DEF KernelSpec

\* Every behaviour of the kernel is one of the window manager: its screen, too,
\* always shows the pile, whoever is created, killed and cleaned in between.
THEOREM KernelImplementsWindows == ASSUME OneWindowEach PROVE KernelSpec => WinSpec
<1>1. KernelInit => WinInit
  BY DEF KernelInit
<1>2. WinInv /\ [KernelNext]_kernelVars => [WinNext]_winVars
  BY KernelWindowStep
<1>3. QED
  BY <1>1, <1>2, KernelWindowsInv, PTL DEF KernelSpec, WinSpec

\* What the two invariants say of the stack.
LEMMA StackIsRegistered ==
  ASSUME WinInv
  PROVE  /\ OnStack = winmgr.windows_exist
         /\ \A h \in registered : winfo_id[h] \in OnStack /\ winmgr.windows[winfo_id[h]].buffer = h
         /\ \A id \in OnStack : winmgr.windows[id].buffer \in registered
                                /\ winfo_id[winmgr.windows[id].buffer] = id
<1>1. /\ Listed(winmgr) /\ Books(winmgr, winfo_id, registered)
  BY DEF WinInv, Kept, WellKept
<1>2. OnStack = winmgr.windows_exist
  BY <1>1 DEF Listed, OnStack
<1>3. QED
  BY <1>1, <1>2 DEF Books

\* No window on the stack has outlived its process, or belongs to the next
\* process with the same pid.
THEOREM WindowsAlwaysHaveOwners ==
  ASSUME OneWindowEach PROVE KernelSpec => []WindowsHaveOwners
<1>1. WinInv /\ OwnersLive => WindowsHaveOwners
  BY StackIsRegistered DEF OwnersLive, WindowsHaveOwners
<1>2. QED
  BY <1>1, KernelWindowsInv, PTL

\* Nor has a process lost a window when another died.
THEOREM OwnersAlwaysHaveWindows ==
  ASSUME OneWindowEach PROVE KernelSpec => []OwnersHaveWindows
<1>1. WinInv /\ OwnersLive => OwnersHaveWindows
  BY StackIsRegistered DEF OwnersLive, OwnersHaveWindows
<1>2. QED
  BY <1>1, KernelWindowsInv, PTL

=============================================================================
