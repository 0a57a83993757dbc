------------------------------ MODULE Keyboard ------------------------------
(***************************************************************************)
(* The keyboard driver (src/drivers/keyboard.c): scan codes go in with the  *)
(* interrupt, and one character is kept until some program takes it.       *)
(*                                                                         *)
(* Characters are strings.  Of the printable keys one of each kind is in   *)
(* the tables: a letter, a key with another character above, the space bar *)
(* and the end of a line; the others differ from these in nothing.         *)
(***************************************************************************)
EXTENDS Integers

VARIABLE keyboard_state   \* [buffer, caps, shift, on]

NULL_CHAR == ""
TAB_CHAR == "tab"
LARROW_CHAR == "left"
RARROW_CHAR == "right"
UARROW_CHAR == "up"
DARROW_CHAR == "down"
ESC_CHAR == "esc"
BACKSPACE_CHAR == "backspace"

scantable ==
  [code \in 0 .. 63 |-> CASE code = 2  -> "1"
                          [] code = 28 -> "\n"
                          [] code = 30 -> "a"
                          [] code = 57 -> " "
                          [] OTHER     -> NULL_CHAR]

scantableCaps ==
  [code \in 0 .. 63 |-> CASE code = 2  -> "!"
                          [] code = 28 -> "\n"
                          [] code = 30 -> "A"
                          [] code = 57 -> " "
                          [] OTHER     -> NULL_CHAR]

Capitals == {"A"}

\* The keys that stand for no character of the tables.
Special ==
  [code \in {1, 14, 15, 72, 75, 77, 80} |->
     CASE code = 1  -> ESC_CHAR
       [] code = 14 -> BACKSPACE_CHAR
       [] code = 15 -> TAB_CHAR
       [] code = 72 -> UARROW_CHAR
       [] code = 75 -> LARROW_CHAR
       [] code = 77 -> RARROW_CHAR
       [] code = 80 -> DARROW_CHAR]

\* kernel.c zeroes the state, registers the interrupt and switches it on.
KeyboardInit ==
  keyboard_state = [buffer |-> NULL_CHAR, caps |-> 0, shift |-> 0, on |-> TRUE]

\* Caps lock turns letters only, and shift turns them back.
Printed(k, code) ==
  IF (k.caps = 1 /\ scantableCaps[code] \in Capitals) # (k.shift = 1)
  THEN scantableCaps[code]
  ELSE scantable[code]

keyboard_process_input(k, code) ==
  CASE code = 58                -> [k EXCEPT !.caps = 1 - @]
    [] code \in {42, 54}        -> [k EXCEPT !.shift = 1]
    [] code \in {170, 182}      -> [k EXCEPT !.shift = 0]
    [] code \in DOMAIN Special  -> [k EXCEPT !.buffer = Special[code]]
    [] OTHER ->
         IF code < 64 /\ scantable[code] # NULL_CHAR /\ scantableCaps[code] # NULL_CHAR
         THEN [k EXCEPT !.buffer = Printed(k, code)]
         ELSE k

\* The interrupt: a character that nobody has taken yet is overwritten.
keyboard_isr(code) ==
  keyboard_state' = IF keyboard_state.on
                    THEN keyboard_process_input(keyboard_state, code)
                    ELSE keyboard_state

\* Faulty: what is taken stays to be taken again.
FlushKeeps(k) == k

\* What a program that takes the character leaves; it receives k.buffer.
keyboard_flush_buffer(k) == [k EXCEPT !.buffer = NULL_CHAR]
=============================================================================
