---------------------------- MODULE CommandLine ----------------------------
(***************************************************************************)
(* What the shell promises the user: the line on the screen is the line    *)
(* that is run.  Abstract specification of Shell.                          *)
(*                                                                         *)
(* It promises this of a line that is typed, and of one recalled from the  *)
(* history as long as it is not edited.  The line goes astray when it is,  *)
(* when it outgrows the screen or the buffer, and when it is entered with  *)
(* the cursor on an earlier row than its end, or when it was recalled and  *)
(* leaves no place in the buffer for its end.                              *)
(***************************************************************************)
EXTENDS Integers, SequencesExt

CONSTANTS
  Depth,      \* lines the history keeps
  Width,      \* characters of a line on the row of the prompt
  Room,       \* characters of a line the screen always has a place for
  Buffer      \* characters a recalled line may have, its end included

VARIABLES
  mode,       \* "edit", "recalled" or "astray"
  line, at,   \* the line shown and the cursor's place in it
  past, back, \* the lines entered, the last one first; which is shown, 0 for none
  typed,      \* what the key that is pressed types, << >> for the other keys
  left        \* the cells of the screen after the line

lineVars == <<mode, line, at, past, back, typed, left>>

Fits(l) == Len(l) < Room /\ Len(l) <= Buffer

InsertString(l, i, s) == SubSeq(l, 1, i) \o s \o SubSeq(l, i + 1, Len(l))

Shows(m, l, i) == mode' = m /\ line' = l /\ at' = i

\* From then on nothing is promised until the lines agree again.
Strays == mode' = "astray"

\* What is typed goes in at the cursor.  A line that reaches the end of the
\* screen loses its end when something goes in before it.
Type ==
  /\ mode = "edit" /\ typed # << >>
  /\ \/ Shows("edit", InsertString(line, at, typed), at + Len(typed))
     \/ Strays /\ \/ at < Len(line) /\ Len(typed) > left
                  \/ Len(line) + Len(typed) > Room
  /\ UNCHANGED <<past, back>>

Left ==
  /\ mode = "edit" /\ at > 0
  /\ Shows("edit", line, at - 1)
  /\ UNCHANGED <<past, back>>

Right ==
  /\ mode = "edit" /\ at < Len(line)
  /\ Shows("edit", line, at + 1)
  /\ UNCHANGED <<past, back>>

Erase ==
  /\ mode = "edit" /\ at > 0
  /\ Shows("edit", RemoveAt(line, at), at - 1)
  /\ UNCHANGED <<past, back>>

ShowsRecalled(l) == Shows(IF l = << >> THEN "edit" ELSE "recalled", l, Len(l))

EraseRecalled ==
  /\ mode = "recalled"
  /\ ShowsRecalled(Front(line))
  /\ UNCHANGED <<past, back>>

EditRecalled == mode = "recalled" /\ Strays /\ UNCHANGED <<past, back>>

\* An older or a newer line.
Recall(i) ==
  /\ mode # "astray"
  /\ i \in 1 .. Depth /\ i \in {back - 1, back + 1}
  /\ past[i] # << >>
  /\ ShowsRecalled(past[i]) \/ (Strays /\ ~Fits(past[i]))
  /\ back' = i
  /\ UNCHANGED past

Dismiss ==
  /\ mode # "astray"
  /\ back = 1
  /\ Shows("edit", << >>, 0)
  /\ back' = 0
  /\ UNCHANGED past

\* The line shown is the one that is run, and kept.
Run ==
  /\ mode # "astray"
  /\ past' = <<line>> \o Front(past)
  /\ back' = 0
  /\ \/ Shows("edit", << >>, 0)
     \/ Strays /\ \/ at < Len(line) /\ Len(line) > Width
                  \/ back > 0 /\ Len(line) >= Buffer

Output == UNCHANGED <<mode, line, at, past, back>>

LineInit ==
  /\ mode = "edit" /\ line = << >> /\ at = 0
  /\ past = [i \in 1 .. Depth |-> << >>] /\ back = 0
  /\ typed = << >> /\ left \in Nat

LineNext ==
  \/ Type \/ Left \/ Right \/ Erase
  \/ EraseRecalled \/ EditRecalled
  \/ \E i \in 1 .. Depth : Recall(i)
  \/ Dismiss \/ Run \/ Output
  \/ mode = "astray"

LineSpec == LineInit /\ [][LineNext]_lineVars
=============================================================================
