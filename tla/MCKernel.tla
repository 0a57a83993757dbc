------------------------------- MODULE MCKernel -------------------------------
(***************************************************************************)
(* The kernel with processes, page frames and windows on a small machine,  *)
(* under the fairness of a timer that goes on ticking.                     *)
(***************************************************************************)
EXTENDS Kernel, ProcessInv

CONSTANT WindowsPerProcess   \* the window_info structures of a program

MCHandle == (1 .. MAX_PROCESS - 1) \X (1 .. WindowsPerProcess)
MCOwner  == [h \in MCHandle |-> h[1]]

\* What is painted does not matter here: the windows and the screen are empty.
MCSize   == [h \in MCHandle |-> 0]
MCPlace  == {[xloc |-> 0, yloc |-> 0]}

\* Nothing is assumed of window calls: programs make them or not.
KernelFairSpec == KernelSpec /\ Fairness

\* The windows that the manager keeps an id or a place on the stack for.
Held == {winmgr.windows[id].buffer : id \in OnStack \cup winmgr.windows_exist}

\* The window of a process that is killed or exits disappears, whenever that
\* happens, and its id can be given to another: process_clean gets to the
\* process, and the loop of winmgr_clean_window to the window.  Not so when a
\* process has two windows, one above the other (KernelClean.cfg).
WindowsGoWithProcess ==
  \A h \in Handle : state[Owner[h]] = "TERMINATED" ~> h \notin Held
=============================================================================
