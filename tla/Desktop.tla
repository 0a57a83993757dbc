------------------------------ MODULE Desktop ------------------------------
(***************************************************************************)
(* What the window manager promises: windows lie in a pile, and the screen *)
(* is the pile seen from above, after every operation and with nothing     *)
(* remembered but the pile and where the windows are.                      *)
(***************************************************************************)
EXTENDS Integers, Sequences, SequencesExt, FiniteSets

CONSTANTS Window, Owner, Xlen, Ylen, Width, Height, Empty

VARIABLES
  pile,    \* the open windows, the lowest first
  place,   \* where they are; of no meaning for the others
  screen

desktopVars == <<pile, place, screen>>

Inside(w, p, c) ==
  /\ c[1] \in p.yloc .. p.yloc + Ylen[w] - 1
  /\ c[2] \in p.xloc .. p.xloc + Xlen[w] - 1

\* The levels of the pile with a window over a cell.
Levels(ws, at, c) == {k \in 1 .. Len(ws) : Inside(ws[k], at[ws[k]], c)}

\* The pile seen from above.
Seen(ws, at) ==
  [c \in (0 .. Height - 1) \X (0 .. Width - 1) |->
    IF Levels(ws, at, c) = {} THEN Empty ELSE ws[Max(Levels(ws, at, c))]]

Draw(moved) ==
  /\ \A w \in Window \ moved : Contains(pile', w) => place'[w] = place[w]
  /\ screen' = Seen(pile', place')

DesktopInit == pile = <<>> /\ screen = Seen(pile, place)

Open(w) == ~Contains(pile, w) /\ pile' = Append(pile, w) /\ Draw({w})
Move(w) == Contains(pile, w) /\ pile' = pile /\ Draw({w})
ToTop(w) ==
  \E k \in 1 .. Len(pile) :
    pile[k] = w /\ pile' = Append(RemoveAt(pile, k), w) /\ Draw({w})
Shut(w) == \E k \in 1 .. Len(pile) : pile[k] = w /\ pile' = RemoveAt(pile, k) /\ Draw({})
Quit(p) == pile' = SelectSeq(pile, LAMBDA w : Owner[w] # p) /\ Draw({})

DesktopNext == \E w \in Window :
  Open(w) \/ Move(w) \/ ToTop(w) \/ Shut(w) \/ Quit(Owner[w])

DesktopSpec == DesktopInit /\ [][DesktopNext]_desktopVars
=============================================================================
