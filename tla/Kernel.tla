------------------------------- MODULE Kernel -------------------------------
(***************************************************************************)
(* Processes and their windows together: the window system calls of user   *)
(* programs, and process_clean whole, which after giving back the pages of *)
(* a terminated process has the window manager close its windows.          *)
(* A handle belongs to whichever program runs under its pid: that program  *)
(* is gone when the slot is cleaned, and the next one starts with no       *)
(* window open.                                                            *)
(***************************************************************************)
EXTENDS Process, WindowManager

\* The handles are in the memory of processes; pid 0 is the kernel.
ASSUME KernelAssumption == \A h \in Handle : Owner[h] \in Pid \ {0}

kernelVars == <<vars, winVars>>

KernelInit == Init /\ WinInit

\* A window system call of the current process; the timer is acknowledged on
\* the way out of main_interrupt_handler.
WindowCall ==
  /\ UserSyscall
  /\ \E h \in Handle : Owner[h] = current_process /\ UserCall(h)
  /\ UNCHANGED <<pagingVars, pcbVars, listVars, current_process, cr3, stack, esp0, fresh,
                 ctlVars, scanVars>>

\* Faulty: the windows are forgotten.
UnlinkOnly == CleanUnlink /\ UNCHANGED winVars

\* The end of process_clean: the windows, then the ring.
CleanWindowsAndUnlink == CleanUnlink /\ Clean(job_pid)

KernelNext ==
  \/ WindowCall
  \/ CleanWindowsAndUnlink
  \/ (Create \/ Call \/ Collect \/ Tick) /\ UNCHANGED winVars

KernelSpec == KernelInit /\ [][KernelNext]_kernelVars
-----------------------------------------------------------------------------
(* What the two promise together *)

OnStack == {winmgr.ids[k] : k \in 0 .. winmgr.top - 1}

\* Every window on the stack belongs to a process that has a slot and holds
\* the window registered: a killed process leaves none behind, whenever it is
\* killed and whoever gets its pid next.
WindowsHaveOwners ==
  \A id \in OnStack : LET h == winmgr.windows[id].buffer IN
    /\ Owner[h] \in process_active
    /\ h \in registered /\ winfo_id[h] = id

\* The other way round: nobody loses a window to the death of another process.
OwnersHaveWindows ==
  \A h \in registered :
    /\ Owner[h] \in process_active
    /\ winfo_id[h] \in OnStack /\ winmgr.windows[winfo_id[h]].buffer = h

\* The documentation of winmgr_clean_window, "Cleans the window of a killed
\* process": a pid without a process has no window.
NoWindowOfTheDead ==
  \A id \in OnStack : winmgr.windows[id].pid \in process_active
=============================================================================
