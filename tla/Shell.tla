------------------------------- MODULE Shell -------------------------------
(***************************************************************************)
(* The shell's terminal (src/shell/shell.c, lib/stdio.c, lib/iostream.c):   *)
(* what stands on its window, the line being edited, the history and the   *)
(* pager, driven by the keys the shell polls from the keyboard driver,     *)
(* whose interrupt comes at any time.                                      *)
(*                                                                         *)
(* What a command prints is Ink, a mark that no key types; what the        *)
(* commands do to the files is in Commands.  Cells above the prompt's row  *)
(* are read by nothing and left out, as are colours.                       *)
(***************************************************************************)
EXTENDS Keyboard, SequencesExt

CONSTANTS
  XLEN, YLEN,          \* sh.grid.xlen and ylen
  PROMPT,              \* the characters of the path and "> ", which cd would change
  INPUT_BUFFER_SIZE,
  HISTORY,             \* the length of recents, 10 in the source
  WORD,                \* 2^32: reader.current_idx is unsigned
  PAGE_ROW,            \* 23 in sout_printall_ws, the last row of the window
  Outputs,             \* what a command may print at once
  Listings,            \* how many lines a paged listing may have
  Codes,               \* scan codes the keyboard sends
  Entered,             \* bound: the lines the user enters
  MAX_LINE             \* bound: the length of a line being edited

ASSUME ShellAssumption ==
  /\ {XLEN, YLEN, INPUT_BUFFER_SIZE, HISTORY} \subseteq Nat \ {0, 1}
  /\ PROMPT \in 1 .. XLEN - 1
  /\ MAX_LINE \in Nat
  /\ WORD \in Nat /\ WORD > 2 * MAX_LINE + XLEN * YLEN
  /\ PAGE_ROW \in 0 .. YLEN - 1
  /\ Listings \subseteq Nat \ {0}
  /\ Codes \subseteq 0 .. 255

VARIABLES
  term,     \* [map, x, y, xl, yl]: char_map, the cursor and its limit
  reader,   \* [buf, cur, size]: the first max_idx characters, current_idx, buffer_size
  history,  \* [recents, idx]
  pager,    \* what sout_printall_ws has yet to print, while it waits for a key
  lost      \* memory outside the line was written: the model ends there

shellVars == <<keyboard_state, term, reader, history, pager, lost>>

Cell == 0 .. XLEN * YLEN - 1
LastCell == XLEN * YLEN - 1
Blank == "0"
Ink == "#"

\* Whatever a command prints, it begins a new line first.
ASSUME OutputAssumption ==
  \A output \in Outputs :
    output \in Seq({Ink, "\n"}) /\ (output # << >> => Head(output) = "\n")

At(t) == t.y * XLEN + t.x
Limit(t) == t.yl * XLEN + t.xl

EmptyReader == [buf |-> << >>, cur |-> 0, size |-> INPUT_BUFFER_SIZE]
NoPage == [left |-> 0, row |-> 0]
-----------------------------------------------------------------------------
(* Printing: lib/stdio.c *)

cursor_set(t, x, y) == [t EXCEPT !.x = x, !.y = y]

scroll(t) ==
  [t EXCEPT !.map = [c \in Cell |-> IF c + XLEN \in Cell THEN t.map[c + XLEN] ELSE Blank],
            !.yl  = IF t.yl > 0 THEN @ - 1 ELSE @,
            !.xl  = IF t.yl > 0 THEN @ ELSE 0]

\* Faulty: the last row is taken to be YLEN.
NewRowLate(t) ==
  IF t.y = YLEN THEN cursor_set(scroll(t), 0, YLEN) ELSE cursor_set(t, 0, t.y + 1)

\* What print does with a new line: no cell changes unless the window scrolls.
NewRow(t) ==
  IF t.y = YLEN - 1 THEN cursor_set(scroll(t), 0, YLEN - 1) ELSE cursor_set(t, 0, t.y + 1)

\* Faulty: the character overwrites the one at the cursor.
Overwritten(t, ch) == [t.map EXCEPT ![At(t)] = ch]

\* The character goes in at the cursor and everything after it moves on by
\* one cell; the last one falls off.
Inserted(t, ch) ==
  [c \in Cell |-> IF c < At(t) THEN t.map[c] ELSE IF c = At(t) THEN ch ELSE t.map[c - 1]]

PutChar(t, ch) ==
  LET put == [t EXCEPT !.map = Inserted(t, ch)]
  IN  IF ch = "\n" THEN NewRow(t)
      ELSE IF At(t) = LastCell THEN cursor_set(scroll(put), 0, YLEN - 1)
      ELSE IF t.x = XLEN - 1 THEN cursor_set(put, 0, t.y + 1)
      ELSE cursor_set(put, t.x + 1, t.y)

print(t, string) ==
  LET printed[n \in 0 .. Len(string)] ==
        IF n = 0 THEN t ELSE PutChar(printed[n - 1], string[n])
  IN  printed[Len(string)]

\* The prompt.  What stands above its row is left out from here on.
shell_newline(t) ==
  LET p == print(t, <<"\n">> \o [i \in 1 .. PROMPT |-> Ink])
  IN  [p EXCEPT !.xl = p.x, !.yl = p.y,
                !.map = [c \in Cell |-> IF c < p.y * XLEN THEN Blank ELSE p.map[c]]]

BlankScreen == [map |-> [c \in Cell |-> Blank], x |-> 0, y |-> 0, xl |-> 0, yl |-> 0]

\* Cells 0 to limit, where the commands' output was; the limit is not moved.
shell_clear(t) == [cursor_set(t, 0, 0) EXCEPT !.map = [c \in Cell |-> Blank]]
-----------------------------------------------------------------------------
(* The cursor: shell.c *)

\* The column of the first blank of a row, or its last column.
cursor_find_edge(t, y) == Min({XLEN - 1} \cup {x \in 0 .. XLEN - 1 : t.map[y * XLEN + x] = Blank})

\* The terminal after a move to the right, the same when it cannot be made.
MovedRight(t) ==
  CASE t.map[At(t)] = Blank                -> t
    [] t.map[At(t)] # Blank /\ t.x < XLEN - 1 -> cursor_set(t, t.x + 1, t.y)
    [] OTHER -> IF t.y = YLEN - 1 THEN t ELSE cursor_set(t, 0, t.y + 1)

MovedLeft(t) ==
  CASE At(t) = Limit(t) -> t
    [] At(t) # Limit(t) /\ t.x > 0 -> cursor_set(t, t.x - 1, t.y)
    [] OTHER -> IF t.y = 0 THEN t ELSE cursor_set(t, cursor_find_edge(t, t.y - 1), t.y - 1)
-----------------------------------------------------------------------------
(* The line: shell.c *)

\* Faulty: the line may fill the buffer, with no place for its end.
GrownLate(r) == IF Len(r.buf) < r.size THEN r.size ELSE r.size + INPUT_BUFFER_SIZE

Grown(r) == IF Len(r.buf) < r.size - 1 THEN r.size ELSE r.size + INPUT_BUFFER_SIZE

\* The character goes in at current_idx, which is within the line.
reader_insert(r, ch) ==
  [buf  |-> InsertAt(r.buf, r.cur + 1, ch),
   cur  |-> r.cur + 1,
   size |-> Grown(r)]

typed_in(r, string) ==
  LET typed[n \in 0 .. Len(string)] ==
        IF n = 0 THEN r ELSE reader_insert(typed[n - 1], string[n])
  IN  typed[Len(string)]

InLine(r) == r.cur <= Len(r.buf)

reader_move(r, direction) == [r EXCEPT !.cur = (@ + direction) % WORD]

\* What shell_backspace does to the line.  Past its end, and at 0, the loop
\* moves nothing and the last character goes.
Erased(r) ==
  [r EXCEPT !.buf = IF r.cur \in 1 .. Len(@) THEN RemoveAt(@, r.cur)
                    ELSE IF @ = << >> THEN @ ELSE Front(@),
            !.cur = IF @ > 0 THEN @ - 1 ELSE 0]

\* current_idx - 1 .. max_idx - 1, where max_idx - 1 is 2^32 - 1: the loop
\* runs through the whole memory.
RunsAway(r) == r.buf = << >> /\ r.cur > 0

\* The cells after the one that is deleted move back.
Deleted(t) ==
  [t EXCEPT !.map = [c \in Cell |-> IF c < At(t) - 1 THEN @[c]
                                    ELSE IF c = LastCell THEN Blank ELSE @[c + 1]]]
-----------------------------------------------------------------------------
(* Keys, each taken from the keyboard by the shell's loop *)

Takes(key) ==
  /\ ~lost
  /\ keyboard_state.buffer = key
  /\ keyboard_state' = keyboard_flush_buffer(keyboard_state)

Edits(key) == Takes(key) /\ pager = NoPage

\* A printable character, or the four spaces of a tab.
Type(key, string) ==
  /\ Edits(key)
  /\ IF InLine(reader)
     THEN /\ reader' = typed_in(reader, string)
          /\ term' = print(term, string)
          /\ UNCHANGED lost
     ELSE lost' = TRUE /\ UNCHANGED <<reader, term>>
  /\ UNCHANGED <<history, pager>>

Move(key, moved, direction) ==
  /\ Edits(key)
  /\ term' = moved
  /\ reader' = IF moved = term THEN reader ELSE reader_move(reader, direction)
  /\ UNCHANGED <<history, pager, lost>>

shell_backspace ==
  /\ Edits(BACKSPACE_CHAR)
  /\ IF At(term) = Limit(term)
     THEN UNCHANGED <<term, reader, lost>>
     ELSE /\ term' = MovedLeft(Deleted(term))
          /\ reader' = Erased(reader)
          /\ lost' = RunsAway(reader)
  /\ UNCHANGED <<history, pager>>

\* shell_reset: the cells of the line are cleared, and the line with them; a
\* line as long as the window gets a new prompt.  It writes past the window
\* when the line does not end on it.
ResetTerm ==
  LET past == Limit(term) + Len(reader.buf)
      t == [cursor_set(term, term.xl, term.yl) EXCEPT
              !.map = [c \in Cell |-> IF c \in Limit(term) .. past - 1 THEN Blank ELSE @[c]]]
  IN  CASE reader.buf = << >>               -> term
        [] Len(reader.buf) >= XLEN * YLEN   -> shell_newline(t)
        [] OTHER                            -> t

ResetReader == IF reader.buf = << >> THEN reader ELSE EmptyReader

ResetOverflows == reader.buf # << >> /\ Limit(term) + Len(reader.buf) > XLEN * YLEN

\* shell_recent: an older or a newer line of the history replaces the line.
\* max_idx becomes its length, current_idx stays what shell_reset left.
Recall(key, direction) ==
  LET i == history.idx + direction
      string == history.recents[i + 1]
  IN  /\ Edits(key)
      /\ \/ direction = 1 /\ history.idx < HISTORY - 1 /\ string # << >>
         \/ direction = -1 /\ history.idx > 0
      /\ history' = [history EXCEPT !.idx = i]
      /\ term' = print(ResetTerm, string)
      /\ reader' = [ResetReader EXCEPT !.buf = string]
      /\ lost' = (ResetOverflows \/ Len(string) > ResetReader.size)
      /\ UNCHANGED pager

\* Down from the newest line.
Dismiss ==
  /\ Edits(DARROW_CHAR)
  /\ history.idx = 0
  /\ history' = [history EXCEPT !.idx = -1]
  /\ term' = ResetTerm
  /\ reader' = ResetReader
  /\ lost' = ResetOverflows
  /\ UNCHANGED pager

\* Keys that do nothing: no line to recall, and ESC outside a listing.
Ignored(key) ==
  /\ Edits(key)
  /\ \/ key = ESC_CHAR
     \/ /\ key = UARROW_CHAR
        /\ history.idx < HISTORY - 1 => history.recents[history.idx + 2] = << >>
     \/ key = DARROW_CHAR /\ history.idx = -1
  /\ UNCHANGED <<term, reader, history, pager, lost>>
-----------------------------------------------------------------------------
(* Enter: shell_recent_save, shell_evaluate, reader_clear, shell_newline *)

recent_saved ==
  [recents |-> <<reader.buf>> \o Front(history.recents), idx |-> -1]

\* The 0 that ends the line goes behind the buffer when a recalled line fills
\* it.
Saves ==
  /\ Edits("\n")
  /\ history' = recent_saved
  /\ lost' = (Len(reader.buf) >= reader.size)

\* parser_parse finds a word.
HasWord(string) == \E i \in DOMAIN string : string[i] # " "

Prompts(t) ==
  /\ term' = shell_newline(t)
  /\ reader' = EmptyReader
  /\ pager' = NoPage

\* A line without a word, and a command that prints nothing or at once.
Run ==
  /\ Saves
  /\ \E output \in (IF HasWord(reader.buf) THEN Outputs ELSE {<< >>}) : Prompts(print(term, output))

RunClear == Saves /\ HasWord(reader.buf) /\ Prompts(shell_clear(term))

\* sout_getln of line i of n; the last one ends the string.
sout_getln(i, n) ==
  CASE i = 1 -> <<"\n">>
    [] i = n /\ n > 1 -> <<Ink>>
    [] OTHER -> <<Ink, "\n">>

\* The first lines of n.
print_lines(t, last, n) ==
  LET after[i \in 0 .. last] == IF i = 0 THEN t ELSE print(after[i - 1], sout_getln(i, n))
  IN  after[last]

\* Faulty: the page is as high as the screen, not as the window.
PageOfScreen(y) == IF y < PAGE_ROW + 2 THEN PAGE_ROW + 2 - y ELSE 1

\* Lines printed after the first one before sout_printall_ws waits.
Page(y) == IF y < PAGE_ROW THEN PAGE_ROW - y ELSE 1

\* The row on which the listing's second line, the first with text, stands
\* after its first n lines.
RowOfText(y, n) == IF y + n > YLEN - 1 THEN YLEN - n ELSE y + 1

\* sout_printall_ws: all of it, or a page and then a line for every key.
RunListing(n) ==
  /\ Saves
  /\ HasWord(reader.buf)
  /\ IF n <= 1 + Page(term.y)
     THEN Prompts(print_lines(term, n, n))
     ELSE /\ term' = print_lines(term, 1 + Page(term.y), n)
          /\ pager' = [left |-> n - 1 - Page(term.y), row |-> RowOfText(term.y, 1 + Page(term.y))]
          /\ UNCHANGED reader

Quit ==
  /\ Takes(ESC_CHAR)
  /\ pager # NoPage
  /\ Prompts(term)
  /\ UNCHANGED <<history, lost>>

\* sout_println
NextLine(key) ==
  /\ Takes(key)
  /\ pager # NoPage
  /\ key # ESC_CHAR
  /\ IF pager.left = 1
     THEN Prompts(print(term, <<Ink>>))
     ELSE /\ term' = print(term, <<Ink, "\n">>)
          /\ pager' = [left |-> pager.left - 1, row |-> 0]
          /\ UNCHANGED reader
  /\ UNCHANGED <<history, lost>>
-----------------------------------------------------------------------------
Printable == {"a", "A", "1", "!", " "}

Keys == Printable \cup {scantable[28]} \cup {Special[code] : code \in DOMAIN Special}

\* The bounds, on what the user does: the line waits for the key that is
\* pressed, so it is the line that the key will find.
Bounded(key) ==
  pager = NoPage =>
    /\ key \in Printable => Len(reader.buf) < MAX_LINE
    /\ key = TAB_CHAR    => Len(reader.buf) + 4 <= MAX_LINE
    /\ key = "\n"        => reader.buf \in Entered

\* A key is pressed or released, whatever the shell is doing.
Press ==
  /\ \E code \in Codes : keyboard_isr(code)
  /\ Bounded(keyboard_state'.buffer)
  /\ UNCHANGED <<term, reader, history, pager, lost>>

\* Another program, a second shell say, takes the key.
Intercept ==
  /\ keyboard_state' = keyboard_flush_buffer(keyboard_state)
  /\ UNCHANGED <<term, reader, history, pager, lost>>

\* The window is blank; app_initialize prints the first prompt.
ShellInit ==
  /\ KeyboardInit
  /\ term = shell_newline(BlankScreen)
  /\ reader = EmptyReader
  /\ history = [recents |-> [i \in 1 .. HISTORY |-> << >>], idx |-> -1]
  /\ pager = NoPage
  /\ lost = FALSE

\* The loop of main, one key at a time.
Handle ==
  \/ \E key \in Printable : Type(key, <<key>>)
  \/ Type(TAB_CHAR, <<" ", " ", " ", " ">>)
  \/ Move(LARROW_CHAR, MovedLeft(term), -1)
  \/ Move(RARROW_CHAR, MovedRight(term), 1)
  \/ shell_backspace
  \/ Recall(UARROW_CHAR, 1)
  \/ Recall(DARROW_CHAR, -1)
  \/ Dismiss
  \/ \E key \in Keys : Ignored(key)
  \/ Run
  \/ RunClear
  \/ \E n \in Listings : RunListing(n)
  \/ Quit
  \/ \E key \in Keys : NextLine(key)

ShellNext == Handle \/ Press \/ Intercept

ShellSpec == ShellInit /\ [][ShellNext]_shellVars
=============================================================================
