------------------------------ MODULE MCShell ------------------------------
(***************************************************************************)
(* The shell's terminal on a window of a few cells, against the command    *)
(* line it promises.                                                       *)
(***************************************************************************)
EXTENDS Shell

\* The inputs of the run.
MCEntered ==
  {<< >>, <<"a">>, <<" ", " ", " ", " ">>, <<" ", " ", " ", " ", "a">>}
MCOutputs == {<< >>, <<"\n", Ink, Ink, Ink, Ink>>}

\* Caps lock turns letters, shift turns every key, both leave letters alone;
\* releasing a key types nothing.
ASSUME LayoutAssumption ==
  \A caps, shift \in {0, 1}, code \in 0 .. 255 :
    LET k == [buffer |-> NULL_CHAR, caps |-> caps, shift |-> shift, on |-> TRUE]
        typed == keyboard_process_input(k, code).buffer
    IN  CASE code = 30 -> typed = IF caps + shift = 1 THEN "A" ELSE "a"
          [] code = 2 -> typed = IF shift = 1 THEN "!" ELSE "1"
          [] code \in DOMAIN Special -> typed = Special[code]
          [] code > 127 -> typed = NULL_CHAR
          [] OTHER -> typed \in {NULL_CHAR, " ", "\n"}

VARIABLES
  promise,   \* what the user sees of it all, as CommandLine has it
  unread     \* a key was pressed and no program has acted on it

\* The cells from the limit of the cursor to the first blank one.
Shown(t) ==
  LET end == Min({XLEN * YLEN} \cup {c \in Cell : c >= Limit(t) /\ t.map[c] = Blank})
  IN  [i \in 1 .. end - Limit(t) |-> t.map[Limit(t) + i - 1]]

\* No cell from the given one on holds anything.
BlankFrom(t, from) == \A c \in Cell : c >= from => t.map[c] = Blank

\* How the line on the screen and the line in the buffer go together.
Agreement(shown, cursor) ==
  IF reader.buf # shown \/ ~BlankFrom(term, Limit(term) + Len(shown)) THEN "astray"
  ELSE IF reader.cur = cursor THEN "edit"
  ELSE IF reader.cur = 0 /\ cursor = Len(shown) THEN "recalled"
  ELSE "astray"

Promise ==
  LET shown == IF pager = NoPage THEN Shown(term) ELSE << >>
      at    == IF pager = NoPage THEN At(term) - Limit(term) ELSE 0
  IN  [mode |-> IF lost THEN "astray"
                ELSE IF pager = NoPage THEN Agreement(shown, at)
                ELSE IF BlankFrom(term, At(term)) THEN "edit" ELSE "astray",
       line |-> shown,
       at   |-> at,
       left |-> XLEN * YLEN - Limit(term) - Len(shown)]

MCInit == ShellInit /\ promise = Promise /\ unread = FALSE

MCPress ==
  /\ Press
  /\ unread' = (unread \/ keyboard_state'.buffer # keyboard_state.buffer)
  /\ UNCHANGED promise

MCHandle == Handle /\ unread' = FALSE /\ promise' = Promise'

MCIntercept == Intercept /\ unread' = FALSE /\ UNCHANGED promise

MCNext == MCPress \/ MCHandle \/ MCIntercept

MCSpec == MCInit /\ [][MCNext]_<<shellVars, promise, unread>>

TypedBy(key) ==
  CASE key \in Printable -> <<key>>
    [] key = TAB_CHAR     -> <<" ", " ", " ", " ">>
    [] OTHER              -> << >>

Promised == INSTANCE CommandLine WITH
  Depth   <- HISTORY,
  Width   <- XLEN - PROMPT,
  Room    <- XLEN * YLEN - 1 - PROMPT,
  Buffer  <- INPUT_BUFFER_SIZE,
  mode    <- promise.mode,
  line    <- promise.line,
  at      <- promise.at,
  past    <- history.recents,
  back    <- history.idx + 1,
  typed   <- TypedBy(keyboard_state.buffer),
  left    <- promise.left

\* What is run, and what the history keeps, is the line that stands on the
\* screen, and every editing key does to the one what it does to the other,
\* over every sequence of keys, wrapped lines and scrolling included, with the
\* exceptions CommandLine names.
RunsWhatIsShown == Promised!LineSpec

\* The type invariant of the terminal.
ShellTypeOK ==
  /\ term.x \in 0 .. XLEN - 1 /\ term.y \in 0 .. YLEN - 1
  /\ term.xl \in 0 .. XLEN - 1 /\ term.yl \in 0 .. YLEN - 1
  /\ term.map \in [Cell -> Printable \cup {Blank, Ink}]
  /\ reader.buf \in Seq(Printable) /\ reader.cur \in 0 .. WORD - 1
  /\ history.idx \in -1 .. HISTORY - 1
  /\ keyboard_state.caps \in {0, 1} /\ keyboard_state.shift \in {0, 1}

\* The line always leaves a place for the 0 that Enter puts after it, however
\* the buffer grew, shrank and was cleared, except a line that was recalled
\* and nothing typed into: it may fill the buffer.
LineFits ==
  \/ lost
  \/ Len(reader.buf) < reader.size
  \/ /\ Len(reader.buf) = reader.size
     /\ history.idx >= 0 /\ reader.buf = history.recents[history.idx + 1]

\* When a listing waits for the first key, all of its text so far is still on
\* the screen, wherever on the screen it was asked for.
PageOnScreen == pager.row >= 0

\* A key press is acted on at most once, though the interrupt, the shell and
\* other programs all work on the one character that is kept of it.
ActedOnOnce ==
  [][UNCHANGED <<term, reader, history, pager, lost>> \/ unread]_<<shellVars, unread>>
=============================================================================
