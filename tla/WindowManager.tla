--------------------------- MODULE WindowManager ---------------------------
(***************************************************************************)
(* The window manager (src/lib/window_manager.c) with the screen buffer it *)
(* paints (src/drivers/framebuffer.c).  There is no compositor: a window   *)
(* is shown by saving what is behind it in its rear buffer and hidden by   *)
(* writing that back, so every operation is a sequence of hides and shows  *)
(* that must nest.                                                         *)
(*                                                                         *)
(* A pixel is the window it was painted from.  A handle is a window_info   *)
(* in the memory of a program, with the two buffers window_init gave it.   *)
(***************************************************************************)
EXTENDS Integers

CONSTANTS
  Handle,          \* the window_info structures of the programs
  Owner,           \* [Handle -> pid of the program]
  Xlen, Ylen,      \* [Handle -> Nat]: the size window_init allocates for
  Place,           \* where programs put their windows: records of xloc and yloc
  MAX_WINDOW_NUM, SCREEN_WIDTH, SCREEN_HEIGHT,
  Background       \* the pixel of an empty screen

Id   == 0 .. MAX_WINDOW_NUM - 1
NoId == 255        \* what winmgr_initalilze fills the stack with

ASSUME WindowAssumption ==
  /\ MAX_WINDOW_NUM \in 1 .. 64
  /\ SCREEN_WIDTH \in Nat /\ SCREEN_HEIGHT \in Nat
  /\ Background \notin Handle
  /\ Owner \in [Handle -> 0 .. 255]
  /\ Xlen \in [Handle -> Nat] /\ Ylen \in [Handle -> Nat]
  /\ Place \subseteq [xloc : Nat, yloc : Nat]

\* window_manager.h warns that a window registered or closed twice may break
\* the system, so programs here do neither, and update only what they registered.
VARIABLES
  winmgr,      \* the manager's structure and the buffers it paints in
  winfo_id,    \* [Handle -> the id its program was given]
  registered   \* the handles between a register and a close, or the end of the
               \* program's memory, whatever the manager holds

winVars == <<winmgr, winfo_id, registered>>

Cell   == (0 .. SCREEN_HEIGHT - 1) \X (0 .. SCREEN_WIDTH - 1)
Buffer(h) == (0 .. Ylen[h] - 1) \X (0 .. Xlen[h] - 1)

Unused == [buffer |-> Background, xloc |-> 0, yloc |-> 0, pid |-> 0]

WinInit ==
  /\ winmgr = [windows |-> [i \in Id |-> Unused],
               windows_exist |-> {},
               ids |-> [i \in Id |-> NoId],
               top |-> 0,
               stray |-> "no",      \* "yes" once an entry beyond the arrays was written
               screen |-> [c \in Cell |-> Background],
               rear |-> [h \in Handle |-> [b \in Buffer(h) |-> Background]]]
  /\ winfo_id = [h \in Handle |-> 0]
  /\ registered = {}
-----------------------------------------------------------------------------
(* Painting.  m is the manager before, the result the manager after. *)

\* The pixels of a buffer that fall on the screen, and where.
Visible(w) == {b \in Buffer(w.buffer) : <<w.yloc + b[1], w.xloc + b[2]>> \in Cell}
CellOf(w, b) == <<w.yloc + b[1], w.xloc + b[2]>>
Covered(w) == {CellOf(w, b) : b \in Visible(w)}
PixelAt(w, c) == <<c[1] - w.yloc, c[2] - w.xloc>>

\* winmgr_show_window
Show(m, id) ==
  LET w == m.windows[id]
  IN  [m EXCEPT
        !.rear[w.buffer] = [b \in DOMAIN @ |-> IF b \in Visible(w) THEN m.screen[CellOf(w, b)] ELSE @[b]],
        !.screen = [c \in Cell |-> IF c \in Covered(w) THEN w.buffer ELSE @[c]]]

\* winmgr_hide_window
Hide(m, id) ==
  LET w == m.windows[id]
  IN  [m EXCEPT !.screen =
        [c \in Cell |-> IF c \in Covered(w) THEN m.rear[w.buffer][PixelAt(w, c)] ELSE @[c]]]

\* Faulty: hidden from the bottom up; shown again from one place too high.
HideBottomUp(m, i) ==
  LET hidden[k \in 0 .. m.top] == IF k > i THEN Hide(hidden[k - 1], m.ids[k - 1]) ELSE m
  IN  hidden[m.top]

ShowUpAbove(m, i) ==
  LET shown[k \in 0 .. m.top] == IF k > i + 1 THEN Show(shown[k - 1], m.ids[k - 1]) ELSE m
  IN  shown[m.top]

\* The loops over the stack: hidden[k] has the windows from position k up
\* hidden, shown[k] has those from i up to below k shown.
HideDownTo(m, i) ==
  LET hidden[k \in 0 .. m.top] == IF k < m.top THEN Hide(hidden[k + 1], m.ids[k]) ELSE m
  IN  hidden[i]

ShowUpFrom(m, i) ==
  LET shown[k \in 0 .. m.top] == IF k > i THEN Show(shown[k - 1], m.ids[k - 1]) ELSE m
  IN  shown[m.top]

\* The first place of id in the array, above the top of the stack too.
Found(m, id) == {i \in Id : m.ids[i] = id}
PlaceOf(m, id) == CHOOSE i \in Found(m, id) : \A j \in Found(m, id) : i <= j

\* winmgr_stack_remove
StackRemove(m, id) ==
  IF Found(m, id) = {} THEN m
  ELSE LET i == PlaceOf(m, id)
           hidden == HideDownTo(m, i)
           lower == [hidden EXCEPT
                      !.ids = [k \in Id |-> IF i <= k /\ k < m.top - 1 THEN @[k + 1] ELSE @[k]],
                      !.top = (@ - 1) % 256]
       IN  ShowUpFrom(lower, i)

\* winmgr_stack_add
StackAdd(m, id) ==
  IF m.top = MAX_WINDOW_NUM THEN m
  ELSE Show([m EXCEPT !.ids[m.top] = id, !.top = @ + 1], id)

\* winmgr_update_winfo
UpdateWinfo(m, id, info) ==
  [m EXCEPT !.windows[id].xloc = info.xloc, !.windows[id].yloc = info.yloc]

\* Faulty: the id is not given back.
CloseKeepingId(m, id) ==
  IF m.windows[id].buffer = Background THEN m ELSE StackRemove(m, id)

\* winmgr_close_window; an id whose main_buffer was never set is refused.
CloseWindow(m, id) ==
  IF m.windows[id].buffer = Background THEN m
  ELSE LET r == StackRemove(m, id) IN [r EXCEPT !.windows_exist = @ \ {id}]
-----------------------------------------------------------------------------
(* The system calls, and the call process_clean makes *)

\* Faulty: the height of the stack is taken for a free id.
IdByHeight(m) == IF m.top = MAX_WINDOW_NUM THEN NoId ELSE m.top

\* winmgr_generate_window_id: the first free id, or else -1, which is 255.
GeneratedId(m) ==
  LET free == Id \ m.windows_exist
  IN  IF free = {} THEN NoId ELSE CHOOSE i \in free : \A j \in free : i <= j

\* winmgr_register_winfo: the window gets the id and goes on top.  An id of 255
\* is an index like any other, beyond the arrays; the stack, which is then
\* full, takes nothing.
Register(h, place) ==
  /\ h \notin registered
  /\ LET id == GeneratedId(winmgr)
         known == [winmgr EXCEPT
           !.windows_exist = @ \cup {id},
           !.windows[id] = [@ EXCEPT !.buffer = h, !.pid = Owner[h]]]
     IN  /\ winfo_id' = [winfo_id EXCEPT ![h] = id]
         /\ winmgr' = IF id = NoId THEN [winmgr EXCEPT !.stray = "yes"]
                                   ELSE StackAdd(UpdateWinfo(known, id, place), id)
         /\ registered' = IF id = NoId THEN registered ELSE registered \cup {h}

\* winmgr_update_window of a window that is not active: it stays where it is
\* in the stack, so everything above it is hidden and shown again.
Update(h, place) ==
  /\ h \in registered
  /\ LET id == winfo_id[h]
         i  == PlaceOf(winmgr, id)
     IN  winmgr' = IF Found(winmgr, id) = {} THEN winmgr
                   ELSE ShowUpFrom(UpdateWinfo(HideDownTo(winmgr, i), id, place), i)
  /\ UNCHANGED <<winfo_id, registered>>

\* winmgr_update_window of an active window: it goes to the top.  (It then
\* clears the active flag of every other window at the address its program gave,
\* which is memory of the program that runs now; which of Update and Raise a
\* program asks for is open here, and its memory is not modelled.)
Raise(h, place) ==
  /\ h \in registered
  /\ LET id == winfo_id[h]
     IN  winmgr' = StackAdd(UpdateWinfo(StackRemove(winmgr, id), id, place), id)
  /\ UNCHANGED <<winfo_id, registered>>

Close(h) ==
  /\ h \in registered
  /\ winmgr' = CloseWindow(winmgr, winfo_id[h])
  /\ registered' = registered \ {h}
  /\ UNCHANGED winfo_id

\* Faulty: the id of the window is compared with the pid.
CleanWindowsById(m, pid) ==
  LET step(n, i) == IF i < n.top /\ n.ids[i] = pid THEN CloseWindow(n, n.ids[i]) ELSE n
      cleaned[k \in 0 .. MAX_WINDOW_NUM] == IF k = 0 THEN m ELSE step(cleaned[k - 1], k - 1)
  IN  cleaned[MAX_WINDOW_NUM]

\* One turn of the loop of winmgr_clean_window.
CleanAt(n, i, pid) ==
  IF i < n.top /\ n.windows[n.ids[i]].pid = pid THEN CloseWindow(n, n.ids[i]) ELSE n

\* winmgr_clean_window: the loop over the stack, which goes on to i + 1 even
\* when a removal has moved the next id down to i.
CleanWindows(m, pid) ==
  LET cleaned[k \in 0 .. MAX_WINDOW_NUM] == IF k = 0 THEN m ELSE CleanAt(cleaned[k - 1], k - 1, pid)
  IN  cleaned[MAX_WINDOW_NUM]

\* The program is gone, and with it what it knew of its windows.
Clean(pid) ==
  LET gone == {h \in Handle : Owner[h] = pid}
  IN  /\ winmgr' = CleanWindows(winmgr, pid)
      /\ registered' = registered \ gone
      /\ winfo_id' = [h \in Handle |-> IF h \in gone THEN 0 ELSE winfo_id[h]]

UserCall(h) ==
  \/ \E place \in Place : Register(h, place) \/ Update(h, place) \/ Raise(h, place)
  \/ Close(h)

WinNext ==
  \/ \E h \in Handle : UserCall(h)
  \/ \E h \in Handle : Clean(Owner[h])

WinSpec == WinInit /\ [][WinNext]_winVars
=============================================================================
