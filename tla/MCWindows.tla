------------------------------ MODULE MCWindows ------------------------------
(***************************************************************************)
(* The window manager with three windows of different shapes that overlap  *)
(* each other and the edge of a small screen.                              *)
(***************************************************************************)
EXTENDS WindowManager, FiniteSets

MCHandle == {"a", "b", "c"}
MCOwner  == [h \in MCHandle |-> CASE h = "a" -> 1 [] h = "b" -> 2 [] OTHER -> 3]
MCXlen   == [h \in MCHandle |-> IF h = "a" THEN 2 ELSE 1]
MCYlen   == [h \in MCHandle |-> IF h = "b" THEN 2 ELSE 1]
MCPlace  == {[xloc |-> 0, yloc |-> 0], [xloc |-> 1, yloc |-> 1]}

Stack == {winmgr.ids[k] : k \in 0 .. winmgr.top - 1}

\* The type invariant of the manager.
WinTypeOK ==
  /\ winmgr.windows \in [Id -> [buffer : Handle \cup {Background}, pid : 0 .. 255,
                                xloc : Nat, yloc : Nat]]
  /\ winmgr.windows_exist \subseteq Id
  /\ winmgr.ids \in [Id -> Id \cup {NoId}]
  /\ winmgr.top \in 0 .. MAX_WINDOW_NUM
  /\ winmgr.screen \in [Cell -> Handle \cup {Background}]
  /\ winfo_id \in [Handle -> Id]
  /\ registered \subseteq Handle

\* The manager's books agree with each other and with the programs': the ids
\* on the stack are those in use, each once, and belong one to one to the
\* windows their programs hold registered.
BooksAgree ==
  /\ Cardinality(Stack) = winmgr.top
  /\ Stack = winmgr.windows_exist
  /\ Stack = {winfo_id[h] : h \in registered}
  /\ \A h \in registered :
       LET w == winmgr.windows[winfo_id[h]]
       IN  w.buffer = h /\ w.pid = Owner[h]

\* What a window's rear buffer saved is what lies below it, however the
\* windows below were moved or closed since it was shown: hiding the stack
\* from the top down gives back the empty screen.
HidesNest == \A c \in Cell : HideDownTo(winmgr, 0).screen[c] = Background

Pile == INSTANCE Desktop WITH
  Window <- Handle, Empty <- Background, Width <- SCREEN_WIDTH, Height <- SCREEN_HEIGHT,
  pile   <- [k \in 1 .. winmgr.top |-> winmgr.windows[winmgr.ids[k - 1]].buffer],
  place  <- [h \in Handle |-> IF h \in registered THEN winmgr.windows[winfo_id[h]] ELSE Unused],
  screen <- winmgr.screen

\* Saving and restoring what is behind each window implements the pile seen
\* from above, for every order of registrations, moves, raises, closes and
\* deaths of programs that hold one window each.
ShowsThePile == Pile!DesktopSpec

\* A full manager refuses a window ("Window manager is full") and writes
\* nothing outside its arrays.
FullIsRefused == winmgr.stray = "no"
=============================================================================
