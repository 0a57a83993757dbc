---------------------------- MODULE Shell_proofs ----------------------------
(***************************************************************************)
(* The shell keeps its line, its history, its pager and its window         *)
(* together, and the line it runs is the line on its window, for windows,  *)
(* prompts, buffers and histories of any size.                             *)
(*                                                                         *)
(* First what the operators do to a line: Holds says of a terminal that a  *)
(* line stands on it from the limit of the cursor on, with nothing after   *)
(* it.  What a key does to the window is then what it does to that line,   *)
(* and the buffer follows.                                                 *)
(***************************************************************************)
EXTENDS MCShell, Induction
-----------------------------------------------------------------------------
(* The cells of the window *)

Area == XLEN * YLEN
Row(y) == y * XLEN

\* A character to put on the window, what a cell may hold, and what can be
\* printed.
Mark == Printable \cup {Ink}
Char == Printable \cup {Blank, Ink}
Output == Mark \cup {"\n"}

Terminal ==
  [map : [Cell -> Char], x : 0 .. XLEN - 1, y : 0 .. YLEN - 1,
   xl : 0 .. XLEN - 1, yl : 0 .. YLEN - 1]

LEMMA Sizes ==
  /\ XLEN \in Nat /\ XLEN >= 2 /\ YLEN \in Nat /\ YLEN >= 2
  /\ PROMPT \in Nat /\ PROMPT >= 1 /\ PROMPT < XLEN
  /\ INPUT_BUFFER_SIZE \in Nat /\ INPUT_BUFFER_SIZE >= 2
  /\ HISTORY \in Nat /\ HISTORY >= 2
<1>1. \A n \in Nat \ {0, 1} : n \in Nat /\ n >= 2
  OBVIOUS
<1>2. QED
  BY <1>1, ShellAssumption

\* Rows follow each other.
LEMMA Rows ==
  /\ Row(0) = 0
  /\ \A y \in Nat : Row(y) \in Nat /\ Row(y + 1) = Row(y) + XLEN
  /\ \A y, z \in Nat : y < z => Row(y) + XLEN <= Row(z)
  /\ Area = Row(YLEN) /\ Area \in Nat
  /\ Row(YLEN - 1) + XLEN = Area
<1>1. XLEN \in Nat /\ XLEN >= 2 /\ YLEN \in Nat /\ YLEN >= 2
  BY Sizes
<1>2. Row(0) = 0
  BY <1>1 DEF Row
<1>3. ASSUME NEW y \in Nat PROVE Row(y) \in Nat /\ Row(y + 1) = Row(y) + XLEN
  BY <1>1 DEF Row
<1>4. ASSUME NEW y \in Nat, NEW z \in Nat, y < z PROVE Row(y) + XLEN <= Row(z)
  <2>1. PICK d \in Nat : z = (y + 1) + d
    <3>1. z - (y + 1) \in Nat /\ z = (y + 1) + (z - (y + 1))
      BY <1>4
    <3>2. QED
      BY <3>1
  <2>2. Row(z) = (y + 1) * XLEN + d * XLEN
    BY <1>1, <2>1 DEF Row
  <2>3. d * XLEN \in Nat /\ (y + 1) * XLEN = Row(y) + XLEN /\ Row(y) \in Nat
    BY <1>1 DEF Row
  <2>4. QED
    BY <1>1, <2>2, <2>3
<1>5. Area = Row(YLEN)
  BY <1>1 DEF Area, Row
<1>6. YLEN - 1 \in Nat /\ (YLEN - 1) + 1 = YLEN
  BY <1>1
<1>7. QED
  BY <1>1, <1>2, <1>3, <1>4, <1>5, <1>6

LEMMA RowFacts ==
  ASSUME NEW y \in 0 .. YLEN - 1
  PROVE  /\ y \in Nat /\ Row(y) \in Nat /\ Row(y + 1) = Row(y) + XLEN
         /\ Row(y) + XLEN <= Area
         /\ y < YLEN - 1 => y + 1 \in 0 .. YLEN - 1 /\ Row(y + 1) + XLEN <= Area
         /\ y # YLEN - 1 => y < YLEN - 1
<1>1. y \in Nat /\ y + 1 \in Nat /\ y < YLEN /\ YLEN \in Nat /\ (y < YLEN - 1 => y + 1 < YLEN)
  BY Sizes
<1>2. Row(y) + XLEN <= Row(YLEN) /\ (y + 1 < YLEN => Row(y + 1) + XLEN <= Row(YLEN))
  BY <1>1, Rows
<1>3. Row(y) \in Nat /\ Row(y + 1) = Row(y) + XLEN /\ Area = Row(YLEN)
  BY <1>1, Rows
<1>4. QED
  BY <1>1, <1>2, <1>3

LEMMA Cells ==
  /\ Cell = 0 .. Area - 1 /\ LastCell = Area - 1 /\ Area >= XLEN /\ Area \in Nat
  /\ Row(YLEN - 1) \in Nat /\ Row(YLEN - 1) + XLEN = Area
<1>1. Cell = 0 .. Area - 1 /\ LastCell = Area - 1
  BY DEF Cell, LastCell, Area
<1>2. YLEN - 1 \in Nat /\ XLEN \in Nat
  BY Sizes
<1>3. Row(YLEN - 1) \in Nat /\ Row(YLEN - 1) + XLEN = Area /\ Area \in Nat
  BY <1>2, Rows
<1>4. QED
  BY <1>1, <1>2, <1>3

\* A place and its cell.
LEMMA CellFacts ==
  ASSUME NEW x \in 0 .. XLEN - 1, NEW y \in 0 .. YLEN - 1
  PROVE  /\ Row(y) + x \in 0 .. Area - 1
         /\ y < YLEN - 1 => Row(y) + x + XLEN <= Area - 1
         /\ Row(y) + x = LastCell <=> x = XLEN - 1 /\ y = YLEN - 1
<1>1. XLEN \in Nat /\ x \in Nat /\ x <= XLEN - 1 /\ Area \in Nat /\ LastCell = Area - 1
  BY Sizes, Cells
<1>2. /\ Row(y) \in Nat /\ Row(y + 1) = Row(y) + XLEN /\ Row(y) + XLEN <= Area
      /\ y < YLEN - 1 => Row(y + 1) + XLEN <= Area
      /\ y # YLEN - 1 => y < YLEN - 1
  BY RowFacts
<1>3. y = YLEN - 1 => Row(y) + XLEN = Area
  BY Cells
<1>4. QED
  BY <1>1, <1>2, <1>3

\* Where the cursor is and where its limit.
LEMMA Places ==
  ASSUME NEW t \in Terminal
  PROVE  /\ At(t) = Row(t.y) + t.x /\ At(t) \in 0 .. Area - 1
         /\ Limit(t) = Row(t.yl) + t.xl /\ Limit(t) \in 0 .. Area - 1
         /\ Row(t.y) \in Nat /\ Row(t.yl) \in Nat
         /\ Limit(t) <= At(t) => t.yl <= t.y
         /\ t.yl = t.y => (Limit(t) <= At(t) <=> t.xl <= t.x)
         /\ At(t) = LastCell <=> t.x = XLEN - 1 /\ t.y = YLEN - 1
         /\ t.yl < t.y => Limit(t) < Row(t.y)
<1>1. /\ t.x \in 0 .. XLEN - 1 /\ t.y \in 0 .. YLEN - 1
      /\ t.xl \in 0 .. XLEN - 1 /\ t.yl \in 0 .. YLEN - 1
  BY DEF Terminal
<1>2. At(t) = Row(t.y) + t.x /\ Limit(t) = Row(t.yl) + t.xl
  BY DEF At, Limit, Row
<1>3. /\ Row(t.y) + t.x \in 0 .. Area - 1
      /\ Row(t.y) + t.x = LastCell <=> t.x = XLEN - 1 /\ t.y = YLEN - 1
      /\ Row(t.yl) + t.xl \in 0 .. Area - 1
  BY <1>1, CellFacts
<1>4. /\ t.y \in Nat /\ t.yl \in Nat /\ Row(t.y) \in Nat /\ Row(t.yl) \in Nat
      /\ XLEN \in Nat /\ t.x \in Nat /\ t.xl \in Nat /\ t.x < XLEN /\ t.xl < XLEN
  BY <1>1, RowFacts, Sizes
<1>5. t.y < t.yl => Row(t.y) + XLEN <= Row(t.yl)
  BY <1>4, Rows
<1>6. t.yl < t.y => Row(t.yl) + XLEN <= Row(t.y)
  BY <1>4, Rows
<1>7. Area \in Nat
  BY Cells
<1>8. QED
  BY <1>2, <1>3, <1>4, <1>5, <1>6, <1>7
-----------------------------------------------------------------------------
(* Putting a character on the window *)

LEMMA Marks ==
  /\ \A ch \in Mark : ch # Blank /\ ch # "\n" /\ ch \in Char /\ ch \in Output
  /\ Printable \subseteq Mark /\ Mark \subseteq Output /\ Ink \in Mark
  /\ "\n" \notin Char /\ Blank \in Char /\ Blank \notin Output
  /\ Output = Mark \cup {"\n"} /\ Char = Mark \cup {Blank}
BY DEF Mark, Char, Output, Printable, Blank, Ink

\* What two terminals have in common when the window has scrolled between.
Scrolled(t, s) ==
  /\ s.x = 0 /\ s.y = YLEN - 1 /\ At(s) = Area - XLEN
  /\ \A c \in Cell : s.map[c] = IF c < Area - XLEN THEN t.map[c + XLEN] ELSE Blank
  /\ s.xl = IF t.yl > 0 THEN t.xl ELSE 0
  /\ s.yl = IF t.yl > 0 THEN t.yl - 1 ELSE 0
  /\ Limit(s) = IF t.yl > 0 THEN Limit(t) - XLEN ELSE 0

LEMMA CursorSetGives ==
  ASSUME NEW t \in Terminal, NEW x \in 0 .. XLEN - 1, NEW y \in 0 .. YLEN - 1
  PROVE  LET s == cursor_set(t, x, y)
         IN  /\ s \in Terminal /\ s.map = t.map /\ s.x = x /\ s.y = y
             /\ s.xl = t.xl /\ s.yl = t.yl
BY DEF cursor_set, Terminal

LEMMA ScrollGives ==
  ASSUME NEW t \in Terminal
  PROVE  LET s == cursor_set(scroll(t), 0, YLEN - 1)
         IN  s \in Terminal /\ Scrolled(t, s)
<1> DEFINE m == [c \in Cell |-> IF c + XLEN \in Cell THEN t.map[c + XLEN] ELSE Blank]
           s == cursor_set(scroll(t), 0, YLEN - 1)
<1>1. /\ t.x \in 0 .. XLEN - 1 /\ t.y \in 0 .. YLEN - 1
      /\ t.xl \in 0 .. XLEN - 1 /\ t.yl \in 0 .. YLEN - 1
      /\ t.map \in [Cell -> Char]
  BY DEF Terminal
<1>2. m \in [Cell -> Char]
  BY <1>1, Marks
<1>3. (t.yl > 0 /\ t.yl - 1 \in 0 .. YLEN - 1) \/ t.yl = 0
  BY <1>1, Sizes
<1>4. /\ scroll(t) \in Terminal /\ scroll(t).map = m
      /\ scroll(t).xl = (IF t.yl > 0 THEN t.xl ELSE 0)
      /\ scroll(t).yl = (IF t.yl > 0 THEN t.yl - 1 ELSE 0)
  <2>1. 0 \in 0 .. XLEN - 1
    BY Sizes
  <2> DEFINE xl == IF t.yl > 0 THEN t.xl ELSE 0
             yl == IF t.yl > 0 THEN t.yl - 1 ELSE 0
  <2>2. xl \in 0 .. XLEN - 1 /\ yl \in 0 .. YLEN - 1
    BY <1>1, <1>3, <2>1
  <2>3. scroll(t) = [t EXCEPT !.map = m, !.yl = yl, !.xl = xl]
    BY <1>3 DEF scroll, Terminal
  <2> HIDE DEF m, xl, yl
  <2>4. /\ scroll(t) \in Terminal /\ scroll(t).map = m
        /\ scroll(t).xl = xl /\ scroll(t).yl = yl
    BY <1>2, <2>2, <2>3 DEF Terminal
  <2>5. QED
    BY <2>4 DEF xl, yl
<1>5. /\ s \in Terminal /\ s.map = m /\ s.x = 0 /\ s.y = YLEN - 1
      /\ s.xl = (IF t.yl > 0 THEN t.xl ELSE 0)
      /\ s.yl = (IF t.yl > 0 THEN t.yl - 1 ELSE 0)
  <2>1. 0 \in 0 .. XLEN - 1 /\ YLEN - 1 \in 0 .. YLEN - 1
    BY Sizes
  <2> HIDE DEF m
  <2>2. QED
    BY <1>4, <2>1, CursorSetGives
<1> HIDE DEF s, m
<1>6. At(s) = Area - XLEN
  <2>1. At(s) = Row(YLEN - 1) + 0
    BY <1>5, Places
  <2>2. QED
    BY <2>1, Cells, Sizes
<1>7. Limit(s) = IF t.yl > 0 THEN Limit(t) - XLEN ELSE 0
  <2>1. Limit(s) = Row(s.yl) + s.xl /\ Limit(t) = Row(t.yl) + t.xl
    BY <1>5, Places
  <2>2. CASE t.yl > 0
    <3>1. t.yl - 1 \in Nat /\ (t.yl - 1) + 1 = t.yl
      BY <1>1, <2>2, Sizes
    <3>2. Row(t.yl) = Row(t.yl - 1) + XLEN /\ Row(t.yl - 1) \in Nat
      BY <3>1, Rows
    <3>3. QED
      BY <1>1, <1>5, <2>1, <2>2, <3>2, Sizes
  <2>3. CASE t.yl = 0
    BY <1>5, <2>1, <2>3, Rows
  <2>4. QED
    BY <1>3, <2>2, <2>3
<1>8. ASSUME NEW c \in Cell
      PROVE  s.map[c] = IF c < Area - XLEN THEN t.map[c + XLEN] ELSE Blank
  <2>1. c + XLEN \in Cell <=> c < Area - XLEN
    BY Cells, Sizes
  <2>2. s.map[c] = IF c + XLEN \in Cell THEN t.map[c + XLEN] ELSE Blank
    BY <1>5 DEF m
  <2>3. QED
    BY <2>1, <2>2
<1>9. QED
  BY <1>5, <1>6, <1>7, <1>8 DEF Scrolled, s

\* Below stays all as it is.
LEMMA NewRowGives ==
  ASSUME NEW t \in Terminal
  PROVE  LET s == NewRow(t)
         IN  /\ s \in Terminal /\ s.x = 0
             /\ t.y = YLEN - 1 => Scrolled(t, s)
             /\ t.y # YLEN - 1 => /\ s.map = t.map /\ s.xl = t.xl /\ s.yl = t.yl
                                  /\ s.y = t.y + 1 /\ At(s) = Row(t.y) + XLEN
                                  /\ Limit(s) = Limit(t)
<1> DEFINE s == NewRow(t)
<1>1. t.x \in 0 .. XLEN - 1 /\ t.y \in 0 .. YLEN - 1
  BY DEF Terminal
<1>2. CASE t.y = YLEN - 1
  <2>1. s = cursor_set(scroll(t), 0, YLEN - 1)
    BY <1>2 DEF NewRow
  <2>2. s \in Terminal /\ Scrolled(t, s)
    BY <2>1, ScrollGives
  <2>3. QED
    BY <1>2, <2>2 DEF Scrolled
<1>3. CASE t.y # YLEN - 1
  <2>1. s = [t EXCEPT !.x = 0, !.y = t.y + 1]
    BY <1>3 DEF NewRow, cursor_set
  <2>2. t.y + 1 \in 0 .. YLEN - 1 /\ 0 \in 0 .. XLEN - 1 /\ Row(t.y + 1) = Row(t.y) + XLEN
    BY <1>1, <1>3, RowFacts, Sizes
  <2>3. s \in Terminal /\ s.x = 0 /\ s.y = t.y + 1 /\ s.map = t.map /\ s.xl = t.xl /\ s.yl = t.yl
    BY <2>1, <2>2 DEF Terminal
  <2> HIDE DEF s
  <2>4. At(s) = Row(t.y + 1) + 0 /\ Limit(s) = Limit(t)
    BY <2>3, Places
  <2>5. Row(t.y) \in Nat
    BY <1>1, RowFacts
  <2>6. QED
    BY <1>3, <2>2, <2>3, <2>4, <2>5, Sizes DEF s
<1>4. QED
  BY <1>2, <1>3

\* A terminal with a character put in at the cursor, which stays.
Written(t, ch) == [t EXCEPT !.map = Inserted(t, ch)]

LEMMA WrittenGives ==
  ASSUME NEW t \in Terminal, NEW ch \in Char
  PROVE  /\ Written(t, ch) \in Terminal /\ Written(t, ch).map = Inserted(t, ch)
         /\ Written(t, ch).x = t.x /\ Written(t, ch).y = t.y
         /\ Written(t, ch).xl = t.xl /\ Written(t, ch).yl = t.yl
<1>1. t.map \in [Cell -> Char] /\ At(t) \in 0 .. Area - 1
  BY Places DEF Terminal
<1>2. ASSUME NEW c \in Cell
      PROVE  (IF c < At(t) THEN t.map[c] ELSE IF c = At(t) THEN ch ELSE t.map[c - 1]) \in Char
  <2>1. c \in 0 .. Area - 1 /\ Area \in Nat
    BY Cells
  <2>2. CASE c > At(t)
    <3>1. c - 1 \in 0 .. Area - 1
      BY <1>1, <2>1, <2>2
    <3>2. QED
      BY <1>1, <3>1, Cells
  <2>3. CASE c <= At(t)
    BY <1>1, <2>1, <2>3
  <2>4. QED
    BY <1>1, <2>1, <2>2, <2>3
<1>3. Inserted(t, ch) \in [Cell -> Char]
  BY <1>2 DEF Inserted
<1>4. QED
  BY <1>3 DEF Terminal, Written

\* The cursor goes on by one cell, or the window scrolls.
Stepped(t, ch, s) ==
  /\ s.map = Inserted(t, ch) /\ s.xl = t.xl /\ s.yl = t.yl
  /\ At(s) = At(t) + 1 /\ Limit(s) = Limit(t)

Puts(t, ch, s) ==
  /\ s \in Terminal
  /\ At(t) = LastCell => Scrolled(Written(t, ch), s)
  /\ At(t) # LastCell => Stepped(t, ch, s)
  /\ t.x < XLEN - 1 => s.x = t.x + 1 /\ s.y = t.y

LEMMA PutCharGives ==
  ASSUME NEW t \in Terminal, NEW ch \in Mark
  PROVE  Puts(t, ch, PutChar(t, ch))
<1> DEFINE s == PutChar(t, ch)
           put == Written(t, ch)
<1>1. ch # "\n" /\ ch \in Char
  BY Marks
<1>2. s = IF At(t) = LastCell THEN cursor_set(scroll(put), 0, YLEN - 1)
          ELSE IF t.x = XLEN - 1 THEN cursor_set(put, 0, t.y + 1)
          ELSE cursor_set(put, t.x + 1, t.y)
  BY <1>1 DEF PutChar, Written
<1> HIDE DEF s
<1>3. /\ t.x \in 0 .. XLEN - 1 /\ t.y \in 0 .. YLEN - 1 /\ XLEN \in Nat
      /\ t.xl \in 0 .. XLEN - 1 /\ t.yl \in 0 .. YLEN - 1
      /\ At(t) = LastCell <=> t.x = XLEN - 1 /\ t.y = YLEN - 1
      /\ At(t) = Row(t.y) + t.x /\ Row(t.y) \in Nat
  BY Places, Sizes DEF Terminal
<1>4. /\ put \in Terminal /\ put.x = t.x /\ put.y = t.y /\ put.xl = t.xl /\ put.yl = t.yl
      /\ put.map = Inserted(t, ch)
  BY <1>1, WrittenGives
<1>5. CASE At(t) = LastCell
  <2>1. s \in Terminal /\ Scrolled(put, s)
    BY <1>2, <1>4, <1>5, ScrollGives
  <2>2. ~(t.x < XLEN - 1)
    BY <1>3, <1>5
  <2>3. QED
    BY <1>5, <2>1, <2>2 DEF Puts, s
<1>6. CASE At(t) # LastCell /\ t.x = XLEN - 1
  <2>1. /\ t.y + 1 \in 0 .. YLEN - 1 /\ 0 \in 0 .. XLEN - 1
        /\ Row(t.y + 1) = Row(t.y) + XLEN
    <3>1. t.y # YLEN - 1
      BY <1>3, <1>6
    <3>2. QED
      BY <1>3, <3>1, RowFacts, Sizes
  <2>2. s = cursor_set(put, 0, t.y + 1)
    BY <1>2, <1>6
  <2>3. /\ s \in Terminal /\ s.x = 0 /\ s.y = t.y + 1
        /\ s.map = Inserted(t, ch) /\ s.xl = t.xl /\ s.yl = t.yl
    BY <1>4, <2>1, <2>2, CursorSetGives
  <2>4. At(s) = Row(t.y + 1) + 0 /\ Limit(s) = Row(t.yl) + t.xl /\ Limit(t) = Row(t.yl) + t.xl
    BY <2>3, Places
  <2>5. At(s) = At(t) + 1
    BY <1>3, <1>6, <2>1, <2>4
  <2>6. ~(t.x < XLEN - 1)
    BY <1>3, <1>6
  <2>7. QED
    BY <1>6, <2>3, <2>4, <2>5, <2>6 DEF Puts, Stepped, s
<1>7. CASE At(t) # LastCell /\ t.x # XLEN - 1
  <2>1. t.x + 1 \in 0 .. XLEN - 1
    BY <1>3, <1>7
  <2>2. s = cursor_set(put, t.x + 1, t.y)
    BY <1>2, <1>7
  <2>3. /\ s \in Terminal /\ s.x = t.x + 1 /\ s.y = t.y
        /\ s.map = Inserted(t, ch) /\ s.xl = t.xl /\ s.yl = t.yl
    BY ZenonT(30), <1>3, <1>4, <2>1, <2>2, CursorSetGives
  <2>4. /\ At(s) = Row(t.y) + (t.x + 1)
        /\ Limit(s) = Row(t.yl) + t.xl /\ Limit(t) = Row(t.yl) + t.xl
    BY <2>3, Places
  <2>5. At(s) = At(t) + 1
    BY <1>3, <2>4
  <2>6. QED
    BY <1>7, <2>3, <2>4, <2>5 DEF Puts, Stepped, s
<1>8. QED
  BY <1>5, <1>6, <1>7

\* Whatever is printed.
LEMMA PutCharTerminal ==
  ASSUME NEW t \in Terminal, NEW ch \in Output
  PROVE  PutChar(t, ch) \in Terminal
<1>1. CASE ch = "\n"
  <2>1. PutChar(t, ch) = NewRow(t)
    BY <1>1 DEF PutChar
  <2>2. QED
    BY <2>1, NewRowGives
<1>2. CASE ch \in Mark
  BY <1>2, PutCharGives DEF Puts
<1>3. QED
  BY <1>1, <1>2, Marks
-----------------------------------------------------------------------------
(* The end of what stands on the window *)

\* Nothing stands below the row of the cursor.
ClearBelow(t) == BlankFrom(t, Row(t.y) + XLEN)

LEMMA EndIsClear ==
  ASSUME NEW t \in Terminal, BlankFrom(t, At(t))
  PROVE  ClearBelow(t)
<1>1. At(t) = Row(t.y) + t.x /\ t.x \in 0 .. XLEN - 1 /\ Row(t.y) \in Nat /\ XLEN \in Nat
  BY Places, Sizes DEF Terminal
<1>2. \A c \in Cell : c >= Row(t.y) + XLEN => c >= At(t)
  BY <1>1, Cells
<1>3. QED
  BY <1>2 DEF BlankFrom, ClearBelow

\* On a new row nothing stands from the cursor on.
LEMMA NewRowClears ==
  ASSUME NEW t \in Terminal, ClearBelow(t)
  PROVE  BlankFrom(NewRow(t), At(NewRow(t)))
<1> DEFINE s == NewRow(t)
<1>1. /\ t.y = YLEN - 1 => Scrolled(t, s)
      /\ t.y # YLEN - 1 => s.map = t.map /\ At(s) = Row(t.y) + XLEN
  BY NewRowGives
<1> HIDE DEF s
<1>2. CASE t.y = YLEN - 1
  <2>1. At(s) = Area - XLEN /\ \A c \in Cell : ~(c < Area - XLEN) => s.map[c] = Blank
    BY <1>1, <1>2 DEF Scrolled
  <2>2. \A c \in Cell : c >= Area - XLEN => ~(c < Area - XLEN)
    BY Cells, Sizes
  <2>3. QED
    BY <2>1, <2>2 DEF BlankFrom, s
<1>3. CASE t.y # YLEN - 1
  BY <1>1, <1>3 DEF BlankFrom, ClearBelow, s
<1>4. QED
  BY <1>2, <1>3

\* What is printed there leaves nothing after it.
LEMMA EndMoves ==
  ASSUME NEW t \in Terminal, NEW ch \in Output, BlankFrom(t, At(t))
  PROVE  BlankFrom(PutChar(t, ch), At(PutChar(t, ch)))
<1> DEFINE s == PutChar(t, ch)
<1>1. CASE ch = "\n"
  <2>1. s = NewRow(t)
    BY <1>1 DEF PutChar
  <2>2. QED
    BY <2>1, EndIsClear, NewRowClears
<1>2. CASE ch \in Mark
  <2>1. /\ Puts(t, ch, s) /\ At(t) \in 0 .. Area - 1 /\ LastCell = Area - 1
        /\ Cell = 0 .. Area - 1 /\ Area \in Nat /\ XLEN \in Nat
    BY <1>2, PutCharGives, Places, Cells, Sizes
  <2> HIDE DEF s
  <2>2. CASE At(t) = LastCell
    <3>1. At(s) = Area - XLEN /\ \A c \in Cell : ~(c < Area - XLEN) => s.map[c] = Blank
      BY <2>1, <2>2 DEF Puts, Scrolled
    <3>2. \A c \in Cell : c >= Area - XLEN => ~(c < Area - XLEN)
      BY <2>1
    <3>3. QED
      BY <3>1, <3>2 DEF BlankFrom, s
  <2>3. CASE At(t) # LastCell
    <3>1. At(s) = At(t) + 1 /\ s.map = Inserted(t, ch)
      BY <2>1, <2>3 DEF Puts, Stepped
    <3>2. ASSUME NEW c \in Cell, c >= At(s) PROVE s.map[c] = Blank
      <4>1. ~(c < At(t)) /\ c # At(t) /\ c - 1 \in Cell /\ c - 1 >= At(t)
        BY <2>1, <3>1, <3>2
      <4>2. s.map[c] = t.map[c - 1]
        BY <3>1, <4>1 DEF Inserted
      <4>3. QED
        BY <4>1, <4>2 DEF BlankFrom
    <3>3. QED
      BY <3>2 DEF BlankFrom, s
  <2>4. QED
    BY <2>2, <2>3
<1>3. QED
  BY <1>1, <1>2, Marks
-----------------------------------------------------------------------------
(* The prompt *)

\* The cursor is not before its limit, and no blank stands before it, in the
\* prompt or in the line.
Ready(t) ==
  /\ t.xl <= PROMPT /\ Limit(t) <= At(t)
  /\ \A c \in Cell : Row(t.yl) <= c /\ c < At(t) => t.map[c] # Blank

LEMMA ReadyStays ==
  ASSUME NEW t \in Terminal, NEW ch \in Mark, Ready(t)
  PROVE  Ready(PutChar(t, ch))
<1> DEFINE s == PutChar(t, ch)
           put == Written(t, ch)
<1>1. /\ Puts(t, ch, s) /\ LastCell = Area - 1 /\ Cell = 0 .. Area - 1 /\ Area \in Nat
      /\ At(t) \in 0 .. Area - 1 /\ Limit(t) \in 0 .. Area - 1 /\ Row(t.yl) \in Nat
      /\ XLEN \in Nat /\ PROMPT \in Nat /\ t.yl \in Nat /\ XLEN >= 1 /\ ch # Blank
  <2>1. Puts(t, ch, s)
    BY PutCharGives
  <2>2. t.yl \in 0 .. YLEN - 1
    BY DEF Terminal
  <2>3. XLEN \in Nat /\ PROMPT \in Nat /\ XLEN >= 1 /\ YLEN \in Nat
    BY Sizes
  <2> HIDE DEF s
  <2>4. At(t) \in 0 .. Area - 1 /\ Limit(t) \in 0 .. Area - 1 /\ Row(t.yl) \in Nat
    BY Places
  <2>5. QED
    BY <2>1, <2>2, <2>3, <2>4, Cells, Marks
<1>2. ASSUME NEW c \in Cell, Row(t.yl) <= c, c < At(t) + 1
      PROVE  Inserted(t, ch)[c] # Blank
  <2>1. c < At(t) \/ c = At(t)
    BY <1>1, <1>2
  <2>2. QED
    BY <1>1, <1>2, <2>1 DEF Inserted, Ready
<1>3. CASE At(t) # LastCell
  <2>1. Stepped(t, ch, s)
    BY <1>1, <1>3 DEF Puts
  <2> HIDE DEF s
  <2>2. /\ s.map = Inserted(t, ch) /\ s.xl = t.xl /\ s.yl = t.yl
        /\ Limit(s) = Limit(t) /\ At(s) = At(t) + 1
    BY <2>1 DEF Stepped
  <2>3. Limit(s) <= At(s) /\ s.xl <= PROMPT
    BY <1>1, <2>2 DEF Ready
  <2>4. QED
    BY <1>1, <1>2, <2>2, <2>3 DEF Ready, s
<1>4. CASE At(t) = LastCell
  <2>1. put.map = Inserted(t, ch) /\ put.xl = t.xl /\ put.yl = t.yl /\ put \in Terminal
    BY Marks, WrittenGives
  <2>2. Scrolled(put, s)
    BY <1>1, <1>4 DEF Puts
  <2>3. Limit(put) = Limit(t)
    BY <2>1 DEF Limit
  <2> HIDE DEF s, put
  <2>4. /\ At(s) = Area - XLEN
        /\ \A c \in Cell : c < Area - XLEN => s.map[c] = put.map[c + XLEN]
        /\ s.xl = IF t.yl > 0 THEN t.xl ELSE 0
        /\ s.yl = IF t.yl > 0 THEN t.yl - 1 ELSE 0
        /\ Limit(s) = IF t.yl > 0 THEN Limit(t) - XLEN ELSE 0
    BY <2>1, <2>2, <2>3 DEF Scrolled
  <2>5. Row(t.yl) <= Row(s.yl) + XLEN /\ Row(s.yl) \in Nat
    <3>1. CASE t.yl > 0
      <4>1. t.yl - 1 \in Nat /\ (t.yl - 1) + 1 = t.yl
        BY <1>1, <3>1
      <4>2. Row(t.yl) = Row(t.yl - 1) + XLEN /\ Row(t.yl - 1) \in Nat
        BY <4>1, Rows
      <4>3. QED
        BY <1>1, <2>4, <3>1, <4>2
    <3>2. CASE t.yl = 0
      BY <1>1, <2>4, <3>2, Rows
    <3>3. QED
      BY <1>1, <3>1, <3>2
  <2>6. ASSUME NEW c \in Cell, Row(s.yl) <= c, c < At(s) PROVE s.map[c] # Blank
    <3>1. c + XLEN \in Cell /\ Row(t.yl) <= c + XLEN /\ c + XLEN < At(t) + 1 /\ c < Area - XLEN
      BY <1>1, <1>4, <2>4, <2>5, <2>6
    <3>2. QED
      BY <1>2, <2>1, <2>4, <3>1
  <2>7. Limit(s) <= At(s) /\ s.xl <= PROMPT
    <3>1. Area >= XLEN
      BY Cells
    <3>2. CASE t.yl > 0
      BY <1>1, <2>4, <3>2 DEF Ready
    <3>3. CASE t.yl = 0
      BY <1>1, <2>4, <3>1, <3>3
    <3>4. QED
      BY <1>1, <3>2, <3>3
  <2>8. QED
    BY <2>6, <2>7 DEF Ready, s
<1>5. QED
  BY <1>3, <1>4
-----------------------------------------------------------------------------
(* Printing *)

\* The terminals on the way when a string is printed.
Prints(t, string, p) ==
  /\ p \in [0 .. Len(string) -> Terminal] /\ p[0] = t
  /\ \A k \in 1 .. Len(string) : p[k] = PutChar(p[k - 1], string[k])
  /\ p[Len(string)] = print(t, string)

LEMMA Printing ==
  ASSUME NEW t \in Terminal, NEW string \in Seq(Output)
  PROVE  \E p : Prints(t, string, p)
<1> DEFINE N == Len(string)
           step == [x \in (1 .. N) \X Terminal |-> PutChar(x[2], string[x[1]])]
           p == CHOOSE h : h = [n \in 0 .. N |->
                  IF n = 0 THEN t ELSE PutChar(h[n - 1], string[n])]
<1>1. N \in Nat /\ \A k \in 1 .. N : string[k] \in Output
  BY LenProperties, ElementOfSeq
<1>2. Turns(N, Terminal, t, step)
  <2>1. ASSUME NEW x \in (1 .. N) \X Terminal PROVE PutChar(x[2], string[x[1]]) \in Terminal
    <3>1. x[1] \in 1 .. N /\ x[2] \in Terminal
      BY <2>1
    <3>2. QED
      BY <1>1, <3>1, PutCharTerminal
  <2>2. step \in [(1 .. N) \X Terminal -> Terminal]
    BY <2>1
  <2>3. QED
    BY <1>1, <2>2 DEF Turns
<1>3. PICK f \in [0 .. N -> Terminal] : Counts(f, N, t, step)
  <2> HIDE DEF step
  <2>1. QED
    BY <1>2, RecursionDown
<1>4. \A n \in 0 .. N : f[n] = IF n = 0 THEN t ELSE PutChar(f[n - 1], string[n])
  <2>1. f[0] = t /\ \A k \in 1 .. N : f[k] = step[<<k, f[k - 1]>>]
    BY <1>3 DEF Counts
  <2>2. ASSUME NEW k \in 1 .. N PROVE step[<<k, f[k - 1]>>] = PutChar(f[k - 1], string[k])
    <3>1. k - 1 \in 0 .. N
      BY <1>1
    <3>2. <<k, f[k - 1]>> \in (1 .. N) \X Terminal
      BY <1>3, <3>1
    <3>3. QED
      BY <3>2
  <2>3. \A n \in 0 .. N : n = 0 \/ n \in 1 .. N
    BY <1>1
  <2> HIDE DEF step
  <2>4. QED
    BY <2>1, <2>2, <2>3
<1>5. f = [n \in 0 .. N |-> IF n = 0 THEN t ELSE PutChar(f[n - 1], string[n])]
  BY <1>3, <1>4
<1>6. p = [n \in 0 .. N |-> IF n = 0 THEN t ELSE PutChar(p[n - 1], string[n])]
  BY <1>5
<1>7. print(t, string) = p[N]
  BY DEF print
<1> HIDE DEF p
<1>8. p[0] = t /\ \A k \in 1 .. N : p[k] = PutChar(p[k - 1], string[k])
  <2>1. 0 \in 0 .. N /\ \A k \in 1 .. N : k \in 0 .. N /\ k # 0
    BY <1>1
  <2>2. QED
    BY <1>6, <2>1
<1>9. \A k \in 0 .. N : p[k] \in Terminal
  <2> DEFINE S == {k \in 0 .. N : p[k] \in Terminal}
  <2>1. 0 \in S
    BY <1>1, <1>8
  <2>2. ASSUME NEW k \in 0 .. N, k < N, k \in S PROVE k + 1 \in S
    <3>1. k + 1 \in 1 .. N /\ (k + 1) - 1 = k
      BY <1>1, <2>2
    <3>2. p[k + 1] = PutChar(p[k], string[k + 1])
      BY <1>8, <3>1
    <3>3. p[k + 1] \in Terminal
      BY <1>1, <2>2, <3>1, <3>2, PutCharTerminal
    <3>4. QED
      BY <3>1, <3>3
  <2> HIDE DEF S
  <2>3. 0 .. N \subseteq S
    BY <1>1, <2>1, <2>2, RangeInSet
  <2>4. QED
    BY <2>3 DEF S
<1>10. p \in [0 .. N -> Terminal]
  BY <1>6, <1>9
<1>11. QED
  BY <1>7, <1>8, <1>10 DEF Prints

\* One step of it.
LEMMA PrintStep ==
  ASSUME NEW t \in Terminal, NEW string \in Seq(Output), NEW p, Prints(t, string, p),
         NEW k \in 0 .. Len(string), k < Len(string)
  PROVE  /\ p[k] \in Terminal /\ p[k + 1] \in Terminal /\ k + 1 \in 1 .. Len(string)
         /\ string[k + 1] \in Output
         /\ p[k + 1] = PutChar(p[k], string[k + 1])
<1>1. Len(string) \in Nat
  BY LenProperties
<1>2. k + 1 \in 1 .. Len(string) /\ (k + 1) - 1 = k /\ k + 1 \in 0 .. Len(string)
  BY <1>1
<1>3. string[k + 1] \in Output
  BY <1>2, ElementOfSeq
<1>4. QED
  BY <1>2, <1>3 DEF Prints

LEMMA PrintTerminal ==
  ASSUME NEW t \in Terminal, NEW string \in Seq(Output)
  PROVE  print(t, string) \in Terminal
<1>1. PICK p : Prints(t, string, p)
  BY Printing
<1>2. Len(string) \in 0 .. Len(string)
  BY LenProperties
<1>3. QED
  BY <1>1, <1>2 DEF Prints

\* Printed at the end, it leaves nothing after it.
LEMMA PrintAtEnd ==
  ASSUME NEW t \in Terminal, NEW string \in Seq(Output), BlankFrom(t, At(t))
  PROVE  BlankFrom(print(t, string), At(print(t, string)))
<1> DEFINE N == Len(string)
<1>1. PICK p : Prints(t, string, p)
  BY Printing
<1>2. N \in Nat
  BY LenProperties
<1> DEFINE S == {k \in 0 .. N : BlankFrom(p[k], At(p[k]))}
<1>3. 0 \in S
  BY <1>1, <1>2 DEF Prints
<1>4. ASSUME NEW k \in 0 .. N, k < N, k \in S PROVE k + 1 \in S
  <2>1. p[k] \in Terminal /\ string[k + 1] \in Output /\ p[k + 1] = PutChar(p[k], string[k + 1])
    BY <1>1, <1>4, PrintStep
  <2>2. BlankFrom(p[k + 1], At(p[k + 1]))
    BY <1>4, <2>1, EndMoves
  <2>3. QED
    BY <1>2, <1>4, <2>2
<1> HIDE DEF S
<1>5. 0 .. N \subseteq S
  BY <1>2, <1>3, <1>4, RangeInSet
<1>6. N \in S
  BY <1>2, <1>5
<1>7. QED
  BY <1>1, <1>6 DEF Prints, S

\* Output that begins a new line leaves nothing after it either, if nothing
\* stands below the cursor's row.
LEMMA PrintBelow ==
  ASSUME NEW t \in Terminal, NEW string \in Seq(Output), ClearBelow(t),
         string # << >>, string[1] = "\n"
  PROVE  BlankFrom(print(t, string), At(print(t, string)))
<1> DEFINE N == Len(string)
<1>1. PICK p : Prints(t, string, p)
  BY Printing
<1>2. N \in Nat /\ N >= 1
  BY LenProperties, EmptySeq
<1> DEFINE S == {k \in 0 .. N : k = 0 \/ BlankFrom(p[k], At(p[k]))}
<1>3. 0 \in S
  BY <1>2
<1>4. ASSUME NEW k \in 0 .. N, k < N, k \in S PROVE k + 1 \in S
  <2>1. p[k] \in Terminal /\ string[k + 1] \in Output /\ p[k + 1] = PutChar(p[k], string[k + 1])
    BY <1>1, <1>4, PrintStep
  <2>2. CASE k = 0
    <3>1. p[0] = t /\ p[1] = NewRow(t)
      BY <1>1, <2>1, <2>2 DEF Prints, PutChar
    <3>2. BlankFrom(p[1], At(p[1]))
      BY <3>1, NewRowClears
    <3>3. QED
      BY <1>2, <2>2, <3>2
  <2>3. CASE k # 0
    <3>1. BlankFrom(p[k + 1], At(p[k + 1]))
      BY <1>4, <2>1, <2>3, EndMoves
    <3>2. QED
      BY <1>2, <1>4, <3>1
  <2>4. QED
    BY <2>2, <2>3
<1> HIDE DEF S
<1>5. 0 .. N \subseteq S
  BY <1>2, <1>3, <1>4, RangeInSet
<1>6. N \in S /\ N # 0
  BY <1>2, <1>5
<1>7. QED
  BY <1>1, <1>6 DEF Prints, S
-----------------------------------------------------------------------------
(* The line on the window *)

\* The line stands on the window from the limit on with nothing after it, and
\* the cursor is at its place a.
Holds(t, l, a) ==
  /\ l \in Seq(Mark) /\ a \in 0 .. Len(l)
  /\ Limit(t) + Len(l) <= Area
  /\ At(t) = Limit(t) + a
  /\ \A k \in 1 .. Len(l) : t.map[Limit(t) + k - 1] = l[k]
  /\ BlankFrom(t, Limit(t) + Len(l))

\* The line with a character put in.
PutIn(l, a, ch) ==
  [k \in 1 .. Len(l) + 1 |-> IF k <= a THEN l[k] ELSE IF k = a + 1 THEN ch ELSE l[k - 1]]

LEMMA PutInGives ==
  ASSUME NEW S, NEW l \in Seq(S), NEW a \in 0 .. Len(l), NEW ch \in S
  PROVE  PutIn(l, a, ch) \in Seq(S) /\ Len(PutIn(l, a, ch)) = Len(l) + 1
<1>1. Len(l) \in Nat /\ \A k \in 1 .. Len(l) : l[k] \in S
  BY LenProperties, ElementOfSeq
<1>2. ASSUME NEW k \in 1 .. Len(l) + 1
      PROVE  (IF k <= a THEN l[k] ELSE IF k = a + 1 THEN ch ELSE l[k - 1]) \in S
  <2>1. CASE k <= a
    BY <1>1, <2>1
  <2>2. CASE k > a + 1
    <3>1. k - 1 \in 1 .. Len(l) /\ ~(k <= a) /\ k # a + 1
      BY <1>1, <2>2
    <3>2. QED
      BY <1>1, <3>1
  <2>3. CASE k = a + 1
    BY <1>1, <2>3
  <2>4. QED
    BY <1>1, <2>1, <2>2, <2>3
<1>3. Len(l) + 1 \in Nat
  BY <1>1
<1>4. PutIn(l, a, ch) \in [1 .. Len(l) + 1 -> S]
  BY <1>2 DEF PutIn
<1>5. QED
  BY <1>3, <1>4

\* The characters on the window as a line to which one is added.
LEMMA InsertedHolds ==
  ASSUME NEW t \in Terminal, NEW l, NEW a, Holds(t, l, a), NEW ch \in Mark,
         Limit(t) + Len(l) < Area
  PROVE  /\ \A k \in 1 .. Len(l) + 1 :
              Limit(t) + k - 1 \in Cell /\ Inserted(t, ch)[Limit(t) + k - 1] = PutIn(l, a, ch)[k]
         /\ \A c \in Cell : c >= Limit(t) + Len(l) + 1 => Inserted(t, ch)[c] = Blank
<1>1. /\ Cell = 0 .. Area - 1 /\ Area \in Nat /\ Len(l) \in Nat /\ a \in 0 .. Len(l)
      /\ Limit(t) \in 0 .. Area - 1 /\ At(t) = Limit(t) + a
  BY Cells, Places, LenProperties DEF Holds
<1>2. ASSUME NEW k \in 1 .. Len(l) + 1
      PROVE  /\ Limit(t) + k - 1 \in Cell
             /\ Inserted(t, ch)[Limit(t) + k - 1] = PutIn(l, a, ch)[k]
  <2>1. Limit(t) + k - 1 \in Cell
    BY <1>1
  <2> DEFINE c == Limit(t) + k - 1
  <2>2. CASE k <= a
    <3>1. c < At(t) /\ k \in 1 .. Len(l)
      BY <1>1, <2>2
    <3>2. Inserted(t, ch)[c] = t.map[c] /\ t.map[c] = l[k]
      BY <2>1, <3>1 DEF Inserted, Holds
    <3>3. QED
      BY <2>1, <2>2, <3>2 DEF PutIn
  <2>3. CASE k = a + 1
    <3>1. c = At(t) /\ ~(c < At(t)) /\ ~(k <= a)
      BY <1>1, <2>3
    <3>2. Inserted(t, ch)[c] = ch
      BY <2>1, <3>1 DEF Inserted
    <3>3. QED
      BY <2>1, <2>3, <3>1, <3>2 DEF PutIn
  <2>4. CASE k > a + 1
    <3>1. ~(c < At(t)) /\ c # At(t) /\ k - 1 \in 1 .. Len(l) /\ ~(k <= a) /\ k # a + 1
          /\ c - 1 = Limit(t) + (k - 1) - 1
      BY <1>1, <2>4
    <3>2. Inserted(t, ch)[c] = t.map[c - 1]
      BY <2>1, <3>1 DEF Inserted
    <3>3. t.map[Limit(t) + (k - 1) - 1] = l[k - 1]
      BY <3>1 DEF Holds
    <3>4. QED
      BY <2>1, <3>1, <3>2, <3>3 DEF PutIn
  <2>5. QED
    BY <1>1, <2>2, <2>3, <2>4
<1>3. ASSUME NEW c \in Cell, c >= Limit(t) + Len(l) + 1
      PROVE  Inserted(t, ch)[c] = Blank
  <2>1. ~(c < At(t)) /\ c # At(t) /\ c - 1 \in Cell /\ c - 1 >= Limit(t) + Len(l)
    BY <1>1, <1>3
  <2>2. QED
    BY <2>1 DEF Inserted, Holds, BlankFrom
<1>4. QED
  BY <1>2, <1>3

\* A character typed within the line while the window has a cell for it, or
\* at the end of a line that leaves a place for a prompt.
LEMMA PutHolds ==
  ASSUME NEW t \in Terminal, NEW l, NEW a, Ready(t), Holds(t, l, a), NEW ch \in Mark,
         \/ a < Len(l) /\ Limit(t) + Len(l) < Area
         \/ a = Len(l) /\ Len(l) + 1 <= Area - 1 - PROMPT
  PROVE  /\ Holds(PutChar(t, ch), PutIn(l, a, ch), a + 1)
         /\ a < Len(l) => Limit(PutChar(t, ch)) = Limit(t)
<1> DEFINE s == PutChar(t, ch)
           m == PutIn(l, a, ch)
           put == Written(t, ch)
<1>1. /\ Cell = 0 .. Area - 1 /\ Area \in Nat /\ Len(l) \in Nat /\ a \in 0 .. Len(l)
      /\ Limit(t) \in 0 .. Area - 1 /\ At(t) = Limit(t) + a /\ At(t) \in 0 .. Area - 1
      /\ LastCell = Area - 1 /\ l \in Seq(Mark) /\ XLEN \in Nat /\ XLEN >= 1 /\ Area >= XLEN
      /\ PROMPT \in Nat
  BY Cells, Places, LenProperties, Sizes DEF Holds
<1>2. m \in Seq(Mark) /\ Len(m) = Len(l) + 1
  BY <1>1, PutInGives
<1>3. Puts(t, ch, s)
  BY PutCharGives
<1>4. Limit(t) + Len(l) < Area
  BY <1>1
<1>5. /\ \A k \in 1 .. Len(l) + 1 :
           Limit(t) + k - 1 \in Cell /\ Inserted(t, ch)[Limit(t) + k - 1] = m[k]
      /\ \A c \in Cell : c >= Limit(t) + Len(l) + 1 => Inserted(t, ch)[c] = Blank
  BY <1>4, InsertedHolds
<1> HIDE DEF s, m
<1>6. CASE At(t) # LastCell
  <2>1. s.map = Inserted(t, ch) /\ Limit(s) = Limit(t) /\ At(s) = At(t) + 1
    BY <1>3, <1>6 DEF Puts, Stepped
  <2>2. Limit(s) + Len(m) <= Area /\ At(s) = Limit(s) + (a + 1) /\ a + 1 \in 0 .. Len(m)
    BY <1>1, <1>2, <1>4, <2>1
  <2>3. \A k \in 1 .. Len(m) : s.map[Limit(s) + k - 1] = m[k]
    BY <1>2, <1>5, <2>1
  <2>4. BlankFrom(s, Limit(s) + Len(m))
    <3>1. Limit(s) + Len(m) = Limit(t) + Len(l) + 1
      BY <1>1, <1>2, <2>1
    <3>2. QED
      BY <1>5, <2>1, <3>1 DEF BlankFrom
  <2>5. QED
    BY <1>2, <2>1, <2>2, <2>3, <2>4 DEF Holds, s, m
<1>7. CASE At(t) = LastCell
  <2>1. a = Len(l) /\ Limit(t) + Len(l) = Area - 1
    BY <1>1, <1>7
  <2>2. put.map = Inserted(t, ch) /\ put.xl = t.xl /\ put.yl = t.yl /\ put \in Terminal
    BY Marks, WrittenGives
  <2>3. Scrolled(put, s)
    BY <1>3, <1>7 DEF Puts
  <2>4. Limit(put) = Limit(t)
    BY <2>2 DEF Limit
  <2>5. t.yl > 0
    <3>1. t.yl \in Nat /\ t.xl <= PROMPT /\ t.xl \in Nat
      BY Sizes DEF Ready, Terminal
    <3>2. t.yl = 0 => Limit(t) = t.xl
      BY <3>1, <1>1 DEF Limit
    <3>3. QED
      BY <1>1, <2>1, <3>1, <3>2
  <2> HIDE DEF put
  <2>6. /\ At(s) = Area - XLEN /\ Limit(s) = Limit(t) - XLEN
        /\ \A c \in Cell : s.map[c] = IF c < Area - XLEN THEN put.map[c + XLEN] ELSE Blank
    BY <2>2, <2>3, <2>4, <2>5 DEF Scrolled
  <2>7. Limit(s) \in Nat
    <3>1. Limit(s) \in 0 .. Area - 1
      BY <1>3, Places DEF Puts
    <3>2. QED
      BY <3>1, <1>1
  <2>8. Limit(s) + Len(m) <= Area /\ At(s) = Limit(s) + (a + 1) /\ a + 1 \in 0 .. Len(m)
    BY SMTT(30), <1>1, <1>2, <2>1, <2>6
  <2>9. ASSUME NEW k \in 1 .. Len(m) PROVE s.map[Limit(s) + k - 1] = m[k]
    <3>1. /\ Limit(s) + k - 1 \in Cell /\ Limit(s) + k - 1 < Area - XLEN
          /\ (Limit(s) + k - 1) + XLEN = Limit(t) + k - 1 /\ k \in 1 .. Len(l) + 1
      <4>1. k \in Nat /\ k >= 1 /\ k <= Len(l) + 1 /\ k \in 1 .. Len(l) + 1
        BY <1>1, <1>2
      <4>2. Limit(t) + k - 1 <= Area - 1 /\ Limit(s) + XLEN = Limit(t)
        BY SMTT(30), <1>1, <2>1, <2>6, <4>1
      <4>3. Limit(s) + k - 1 \in Nat /\ Limit(s) + k - 1 < Area - XLEN
        <5>1. Limit(s) + k - 1 \in Nat
          BY <2>7, <4>1
        <5>2. XLEN \in Nat /\ Area \in Nat /\ Limit(t) \in Nat
          BY <1>1
        <5>3. QED
          BY <2>7, <4>1, <4>2, <5>1, <5>2
      <4>4. (Limit(s) + k - 1) + XLEN = Limit(t) + k - 1
        BY <1>1, <2>7, <4>1, <4>2
      <4>5. QED
        BY <1>1, <4>1, <4>3, <4>4
    <3>2. QED
      BY <1>5, <2>2, <2>6, <3>1
  <2>10. ASSUME NEW c \in Cell, c >= Limit(s) + Len(m) PROVE s.map[c] = Blank
    <3>1. ~(c < Area - XLEN)
      BY <1>1, <1>2, <2>1, <2>6, <2>10
    <3>2. QED
      BY <2>6, <3>1
  <2>11. QED
    BY <1>1, <1>2, <2>1, <2>8, <2>9, <2>10 DEF Holds, BlankFrom, s, m
<1>8. QED
  BY <1>6, <1>7
-----------------------------------------------------------------------------
(* What stands on the window *)

LEMMA MinGives ==
  ASSUME NEW T \in SUBSET Nat, T # {}
  PROVE  Min(T) \in T /\ \A y \in T : Min(T) <= y
<1>1. \E x \in T : \A y \in T : x <= y
  BY LeastNat
<1>2. QED
  BY <1>1 DEF Min

\* Where the line on the window ends.
EndOf(t) == Min({XLEN * YLEN} \cup {c \in Cell : c >= Limit(t) /\ t.map[c] = Blank})

LEMMA EndGives ==
  ASSUME NEW t \in Terminal
  PROVE  /\ EndOf(t) \in Limit(t) .. Area
         /\ \A c \in Cell : c >= Limit(t) /\ c < EndOf(t) => t.map[c] \in Mark
         /\ EndOf(t) # Area => EndOf(t) \in Cell /\ t.map[EndOf(t)] = Blank
         /\ \A c \in Cell : c >= Limit(t) /\ t.map[c] = Blank => EndOf(t) <= c
<1> DEFINE T == {XLEN * YLEN} \cup {c \in Cell : c >= Limit(t) /\ t.map[c] = Blank}
<1>1. /\ Cell = 0 .. Area - 1 /\ Area \in Nat /\ Limit(t) \in 0 .. Area - 1
      /\ t.map \in [Cell -> Char]
  BY Cells, Places DEF Terminal
<1>2. T \in SUBSET Nat /\ Area \in T
  BY <1>1 DEF Area
<1>3. EndOf(t) \in T /\ \A y \in T : EndOf(t) <= y
  <2> HIDE DEF T
  <2>1. Min(T) \in T /\ \A y \in T : Min(T) <= y
    BY <1>2, MinGives
  <2>2. QED
    BY <2>1 DEF EndOf, T
<1>4. /\ EndOf(t) = Area \/ (EndOf(t) \in Cell /\ EndOf(t) >= Limit(t) /\ t.map[EndOf(t)] = Blank)
      /\ \A c \in Cell : c >= Limit(t) /\ t.map[c] = Blank => EndOf(t) <= c
  BY <1>3 DEF Area
<1>5. EndOf(t) \in Limit(t) .. Area
  BY <1>1, <1>4
<1>6. ASSUME NEW c \in Cell, c >= Limit(t), c < EndOf(t) PROVE t.map[c] \in Mark
  <2>1. t.map[c] # Blank
    BY <1>1, <1>4, <1>5, <1>6
  <2>2. QED
    BY <1>1, <2>1, Marks
<1>7. QED
  BY <1>4, <1>5, <1>6

LEMMA ShownGives ==
  ASSUME NEW t \in Terminal
  PROVE  /\ Shown(t) \in Seq(Mark) /\ Limit(t) + Len(Shown(t)) = EndOf(t)
         /\ \A k \in 1 .. Len(Shown(t)) :
              Limit(t) + k - 1 \in Cell /\ t.map[Limit(t) + k - 1] = Shown(t)[k]
<1> DEFINE n == EndOf(t) - Limit(t)
<1>1. /\ EndOf(t) \in Limit(t) .. Area
      /\ \A c \in Cell : c >= Limit(t) /\ c < EndOf(t) => t.map[c] \in Mark
  BY EndGives
<1>2. Cell = 0 .. Area - 1 /\ Area \in Nat /\ Limit(t) \in 0 .. Area - 1
  BY Cells, Places
<1>3. n \in Nat /\ Limit(t) + n = EndOf(t)
  BY <1>1, <1>2
<1>4. Shown(t) = [i \in 1 .. n |-> t.map[Limit(t) + i - 1]]
  BY DEF Shown, EndOf
<1>5. ASSUME NEW k \in 1 .. n PROVE Limit(t) + k - 1 \in Cell /\ t.map[Limit(t) + k - 1] \in Mark
  <2>1. /\ Limit(t) + k - 1 \in Cell /\ Limit(t) + k - 1 >= Limit(t)
        /\ Limit(t) + k - 1 < EndOf(t)
    BY <1>1, <1>2, <1>3
  <2>2. QED
    BY <1>1, <2>1
<1> HIDE DEF n
<1>6. Shown(t) \in [1 .. n -> Mark]
  BY <1>4, <1>5
<1>7. Shown(t) \in Seq(Mark) /\ Len(Shown(t)) = n
  BY <1>3, <1>6
<1>8. QED
  BY <1>3, <1>4, <1>5, <1>7

\* It is the line the window holds.
LEMMA HoldsShown ==
  ASSUME NEW t \in Terminal, NEW l, NEW a, Holds(t, l, a)
  PROVE  Shown(t) = l
<1>1. /\ Cell = 0 .. Area - 1 /\ Area \in Nat /\ Len(l) \in Nat /\ l \in Seq(Mark)
      /\ Limit(t) \in 0 .. Area - 1 /\ Limit(t) + Len(l) <= Area
      /\ \A k \in 1 .. Len(l) : t.map[Limit(t) + k - 1] = l[k]
  BY Cells, Places, LenProperties DEF Holds
<1>2. /\ EndOf(t) \in Limit(t) .. Area
      /\ EndOf(t) # Area => EndOf(t) \in Cell /\ t.map[EndOf(t)] = Blank
      /\ \A c \in Cell : c >= Limit(t) /\ t.map[c] = Blank => EndOf(t) <= c
  BY EndGives
<1>3. EndOf(t) <= Limit(t) + Len(l)
  <2>1. CASE Limit(t) + Len(l) = Area
    BY <1>1, <1>2, <2>1
  <2>2. CASE Limit(t) + Len(l) < Area
    <3>1. Limit(t) + Len(l) \in Cell /\ Limit(t) + Len(l) >= Limit(t)
      BY <1>1, <2>2
    <3>2. t.map[Limit(t) + Len(l)] = Blank
      BY <1>1, <3>1 DEF Holds, BlankFrom
    <3>3. QED
      BY <1>2, <3>1, <3>2
  <2>3. Limit(t) + Len(l) = Area \/ Limit(t) + Len(l) < Area
    <3>1. Limit(t) \in Nat /\ Len(l) \in Nat /\ Area \in Nat
      BY <1>1
    <3>2. Limit(t) + Len(l) <= Area
      BY <1>1
    <3>3. QED
      BY <3>1, <3>2
  <2>4. QED
    BY <2>1, <2>2, <2>3
<1>4. EndOf(t) >= Limit(t) + Len(l)
  <2> SUFFICES ASSUME EndOf(t) < Limit(t) + Len(l) PROVE FALSE
    BY <1>1, <1>2
  <2>1. t.map[EndOf(t)] = Blank
    BY <1>1, <1>2
  <2>2. PICK k \in 1 .. Len(l) : EndOf(t) = Limit(t) + k - 1
    <3>1. EndOf(t) - Limit(t) + 1 \in 1 .. Len(l) /\ EndOf(t) = Limit(t) + (EndOf(t) - Limit(t) + 1) - 1
      BY <1>1, <1>2
    <3>2. QED
      BY <3>1
  <2>3. l[k] = Blank /\ l[k] \in Mark
    BY <1>1, <2>1, <2>2, ElementOfSeq
  <2>4. QED
    BY <2>3, Marks
<1>5. /\ Shown(t) \in Seq(Mark) /\ Limit(t) + Len(Shown(t)) = EndOf(t)
      /\ \A k \in 1 .. Len(Shown(t)) : t.map[Limit(t) + k - 1] = Shown(t)[k]
      /\ Len(Shown(t)) \in Nat
  BY ShownGives, LenProperties
<1>6. Len(Shown(t)) = Len(l)
  BY <1>1, <1>2, <1>3, <1>4, <1>5
<1>7. \A k \in 1 .. Len(Shown(t)) : Shown(t)[k] = l[k]
  BY <1>1, <1>5, <1>6
<1>8. QED
  BY <1>1, <1>5, <1>6, <1>7, SeqEqual

\* The other way: with nothing after it, what is shown is a line the window
\* holds, and the cursor is in it or at its end.
LEMMA ShownHolds ==
  ASSUME NEW t \in Terminal, Ready(t), BlankFrom(t, Limit(t) + Len(Shown(t)))
  PROVE  Holds(t, Shown(t), At(t) - Limit(t))
<1>1. /\ Cell = 0 .. Area - 1 /\ Area \in Nat /\ Row(t.yl) \in Nat
      /\ Limit(t) \in 0 .. Area - 1 /\ At(t) \in 0 .. Area - 1
      /\ Limit(t) = Row(t.yl) + t.xl /\ t.xl \in 0 .. XLEN - 1
  BY Cells, Places DEF Terminal
<1>2. /\ EndOf(t) \in Limit(t) .. Area
      /\ EndOf(t) # Area => EndOf(t) \in Cell /\ t.map[EndOf(t)] = Blank
  BY EndGives
<1>3. /\ Shown(t) \in Seq(Mark) /\ Limit(t) + Len(Shown(t)) = EndOf(t)
      /\ \A k \in 1 .. Len(Shown(t)) : t.map[Limit(t) + k - 1] = Shown(t)[k]
      /\ Len(Shown(t)) \in Nat
  BY ShownGives, LenProperties
<1>4. At(t) <= EndOf(t)
  <2> SUFFICES ASSUME EndOf(t) < At(t) PROVE FALSE
    BY <1>1, <1>2
  <2>1. EndOf(t) \in Cell /\ t.map[EndOf(t)] = Blank
    BY <1>1, <1>2
  <2>2. Row(t.yl) <= EndOf(t)
    BY <1>1, <1>2, Sizes
  <2>3. QED
    BY <2>1, <2>2 DEF Ready
<1>5. Limit(t) <= At(t)
  BY DEF Ready
<1>6. At(t) - Limit(t) \in 0 .. Len(Shown(t)) /\ At(t) = Limit(t) + (At(t) - Limit(t))
  <2>1. At(t) \in Nat /\ Limit(t) \in Nat
    BY <1>1
  <2>2. At(t) <= Limit(t) + Len(Shown(t)) /\ Len(Shown(t)) \in Nat
    BY <1>3, <1>4
  <2>3. QED
    BY <1>5, <2>1, <2>2
<1>7. Limit(t) + Len(Shown(t)) <= Area
  BY <1>1, <1>2, <1>3
<1>8. QED
  BY <1>3, <1>6, <1>7 DEF Holds

\* With nothing from the cursor on, no more is shown than stands before it.
LEMMA ShownBefore ==
  ASSUME NEW t \in Terminal, Limit(t) <= At(t), BlankFrom(t, At(t))
  PROVE  Len(Shown(t)) <= At(t) - Limit(t)
<1>1. /\ Cell = 0 .. Area - 1 /\ Area \in Nat
      /\ Limit(t) \in 0 .. Area - 1 /\ At(t) \in 0 .. Area - 1
  BY Cells, Places
<1>2. EndOf(t) <= At(t) /\ EndOf(t) \in Limit(t) .. Area
  <2>1. At(t) \in Cell /\ t.map[At(t)] = Blank
    BY <1>1 DEF BlankFrom
  <2>2. QED
    BY <2>1, EndGives
<1>3. Limit(t) + Len(Shown(t)) = EndOf(t) /\ Len(Shown(t)) \in Nat
  BY ShownGives, LenProperties
<1>4. QED
  BY <1>1, <1>2, <1>3
-----------------------------------------------------------------------------
(* Typing a string *)

\* The line when the first k characters of the string are in.
Part(l, a, r, k) ==
  [i \in 1 .. Len(l) + k |-> IF i <= a THEN l[i] ELSE IF i <= a + k THEN r[i - a] ELSE l[i - k]]

LEMMA PartGives ==
  ASSUME NEW S, NEW l \in Seq(S), NEW a \in 0 .. Len(l), NEW r \in Seq(S)
  PROVE  /\ Part(l, a, r, 0) = l
         /\ Part(l, a, r, Len(r)) = Spliced(l, a, r)
         /\ \A k \in 0 .. Len(r) :
              /\ Part(l, a, r, k) \in Seq(S) /\ Len(Part(l, a, r, k)) = Len(l) + k
              /\ k < Len(r) => PutIn(Part(l, a, r, k), a + k, r[k + 1]) = Part(l, a, r, k + 1)
<1>1. /\ Len(l) \in Nat /\ Len(r) \in Nat /\ l \in [1 .. Len(l) -> S] /\ a \in Nat /\ a <= Len(l)
      /\ \A k \in 1 .. Len(l) : l[k] \in S
      /\ \A k \in 1 .. Len(r) : r[k] \in S
  BY LenProperties, ElementOfSeq
<1>2. Part(l, a, r, 0) = l
  <2>1. \A i \in 1 .. Len(l) :
          l[i] = IF i <= a THEN l[i] ELSE IF i <= a + 0 THEN r[i - a] ELSE l[i - 0]
    BY <1>1
  <2>2. Len(l) + 0 = Len(l)
    BY <1>1
  <2>3. l = [i \in 1 .. Len(l) |-> l[i]]
    BY <1>1
  <2>4. QED
    BY <2>1, <2>2, <2>3 DEF Part
<1>3. Part(l, a, r, Len(r)) = Spliced(l, a, r)
  BY DEF Part, Spliced
<1>4. ASSUME NEW k \in 0 .. Len(r)
      PROVE  Part(l, a, r, k) \in Seq(S) /\ Len(Part(l, a, r, k)) = Len(l) + k
  <2>1. ASSUME NEW i \in 1 .. Len(l) + k
        PROVE  (IF i <= a THEN l[i] ELSE IF i <= a + k THEN r[i - a] ELSE l[i - k]) \in S
    <3>1. i <= a => i \in 1 .. Len(l)
      BY <1>1
    <3>2. ~(i <= a) /\ i <= a + k => i - a \in 1 .. Len(r)
      BY <1>1
    <3>3. ~(i <= a + k) => i - k \in 1 .. Len(l)
      BY <1>1
    <3>4. QED
      BY <1>1, <3>1, <3>2, <3>3
  <2>2. Part(l, a, r, k) \in [1 .. Len(l) + k -> S]
    BY <2>1 DEF Part
  <2>3. Len(l) + k \in Nat
    BY <1>1
  <2>4. QED
    BY <2>2, <2>3
<1>5. ASSUME NEW k \in 0 .. Len(r), k < Len(r)
      PROVE  PutIn(Part(l, a, r, k), a + k, r[k + 1]) = Part(l, a, r, k + 1)
  <2> DEFINE p == Part(l, a, r, k)
  <2>1. Len(p) = Len(l) + k
    BY <1>4
  <2>2. ASSUME NEW i \in 1 .. Len(l) + (k + 1)
        PROVE  (IF i <= a + k THEN p[i] ELSE IF i = a + k + 1 THEN r[k + 1] ELSE p[i - 1])
                 = IF i <= a THEN l[i] ELSE IF i <= a + (k + 1) THEN r[i - a] ELSE l[i - (k + 1)]
    <3>1. CASE i <= a
      <4>1. i <= a + k /\ i \in 1 .. Len(l) + k
        BY <1>1, <3>1
      <4>2. QED
        BY <3>1, <4>1 DEF Part
    <3>2. CASE ~(i <= a) /\ i <= a + k
      <4>1. i <= a + (k + 1) /\ i \in 1 .. Len(l) + k
        BY <1>1, <3>2
      <4>2. QED
        BY <3>2, <4>1 DEF Part
    <3>3. CASE i = a + k + 1
      <4>1. ~(i <= a) /\ ~(i <= a + k) /\ i <= a + (k + 1) /\ i - a = k + 1
        BY <1>1, <3>3
      <4>2. QED
        BY <3>3, <4>1
    <3>4. CASE i > a + k + 1
      <4>1. /\ ~(i <= a) /\ ~(i <= a + k) /\ ~(i <= a + (k + 1)) /\ i # a + k + 1
            /\ i - 1 \in 1 .. Len(l) + k /\ ~(i - 1 <= a) /\ ~(i - 1 <= a + k)
            /\ (i - 1) - k = i - (k + 1)
        BY <1>1, <3>4
      <4>2. p[i - 1] = l[(i - 1) - k]
        BY <4>1 DEF Part
      <4> HIDE DEF p
      <4>3. QED
        BY <4>1, <4>2
    <3>5. QED
      BY <1>1, <3>1, <3>2, <3>3, <3>4
  <2> HIDE DEF p
  <2>3. PutIn(p, a + k, r[k + 1]) =
          [i \in 1 .. Len(l) + (k + 1) |->
             IF i <= a + k THEN p[i] ELSE IF i = a + k + 1 THEN r[k + 1] ELSE p[i - 1]]
    <3>1. Len(p) + 1 = Len(l) + (k + 1)
      BY <1>1, <2>1
    <3>2. QED
      BY <3>1 DEF PutIn
  <2>4. QED
    BY <2>2, <2>3 DEF Part, p
<1>6. QED
  BY <1>2, <1>3, <1>4, <1>5

LEMMA MarksArePrinted ==
  ASSUME NEW r \in Seq(Mark)
  PROVE  r \in Seq(Output) /\ Len(r) \in Nat /\ \A k \in 1 .. Len(r) : r[k] \in Mark
BY Marks, SeqMonotonic, LenProperties, ElementOfSeq

\* The prompt and the line stay free of blanks.
LEMMA ReadyPrint ==
  ASSUME NEW t \in Terminal, Ready(t), NEW r \in Seq(Mark)
  PROVE  Ready(print(t, r))
<1> DEFINE N == Len(r)
<1>1. r \in Seq(Output) /\ N \in Nat /\ \A k \in 1 .. N : r[k] \in Mark
  BY MarksArePrinted
<1>2. PICK p : Prints(t, r, p)
  BY <1>1, Printing
<1> DEFINE S == {k \in 0 .. N : Ready(p[k])}
<1>3. 0 \in S
  BY <1>1, <1>2 DEF Prints
<1>4. ASSUME NEW k \in 0 .. N, k < N, k \in S PROVE k + 1 \in S
  <2>1. p[k] \in Terminal /\ k + 1 \in 1 .. N /\ p[k + 1] = PutChar(p[k], r[k + 1])
    BY <1>1, <1>2, <1>4, PrintStep
  <2>2. r[k + 1] \in Mark
    BY <1>1, <2>1
  <2>3. Ready(p[k + 1])
    BY <1>4, <2>1, <2>2, ReadyStays
  <2>4. QED
    BY <1>1, <1>4, <2>3
<1> HIDE DEF S
<1>5. 0 .. N \subseteq S
  BY <1>1, <1>3, <1>4, RangeInSet
<1>6. N \in S
  BY <1>1, <1>5
<1>7. QED
  BY <1>2, <1>6 DEF Prints, S

\* A string typed within the line while the window has the cells for it, or
\* at the end of a line that leaves a place for a prompt.
LEMMA PrintHolds ==
  ASSUME NEW t \in Terminal, NEW l, NEW a, Ready(t), Holds(t, l, a), NEW r \in Seq(Mark),
         \/ a < Len(l) /\ Limit(t) + Len(l) + Len(r) <= Area
         \/ a = Len(l) /\ Len(l) + Len(r) <= Area - 1 - PROMPT
  PROVE  Holds(print(t, r), Spliced(l, a, r), a + Len(r))
<1> DEFINE N == Len(r)
<1>1. r \in Seq(Output) /\ N \in Nat /\ \A k \in 1 .. N : r[k] \in Mark
  BY MarksArePrinted
<1>2. PICK p : Prints(t, r, p)
  BY <1>1, Printing
<1>3. l \in Seq(Mark) /\ a \in 0 .. Len(l) /\ Len(l) \in Nat
  BY LenProperties DEF Holds
<1>4. /\ Part(l, a, r, 0) = l /\ Part(l, a, r, N) = Spliced(l, a, r)
      /\ \A k \in 0 .. N :
           /\ Part(l, a, r, k) \in Seq(Mark) /\ Len(Part(l, a, r, k)) = Len(l) + k
           /\ k < N => PutIn(Part(l, a, r, k), a + k, r[k + 1]) = Part(l, a, r, k + 1)
  BY <1>3, PartGives
<1> DEFINE Good(k) == /\ Holds(p[k], Part(l, a, r, k), a + k) /\ Ready(p[k])
                      /\ a < Len(l) => Limit(p[k]) = Limit(t)
           S == {k \in 0 .. N : Good(k)}
<1>5. 0 \in S
  <2>1. p[0] = t /\ a + 0 = a /\ 0 \in 0 .. N
    BY <1>1, <1>2, <1>3 DEF Prints
  <2>2. QED
    BY <1>4, <2>1
<1>6. ASSUME NEW k \in 0 .. N, k < N, k \in S PROVE k + 1 \in S
  <2>1. /\ p[k] \in Terminal /\ k + 1 \in 1 .. N /\ p[k + 1] = PutChar(p[k], r[k + 1])
        /\ r[k + 1] \in Mark
    BY <1>1, <1>2, <1>6, PrintStep
  <2> DEFINE q == Part(l, a, r, k)
  <2>2. Len(q) = Len(l) + k /\ PutIn(q, a + k, r[k + 1]) = Part(l, a, r, k + 1)
    BY <1>4, <1>6
  <2>3. Holds(p[k], q, a + k) /\ Ready(p[k]) /\ (a < Len(l) => Limit(p[k]) = Limit(t))
    BY <1>6
  <2> HIDE DEF q
  <2>4. \/ a + k < Len(q) /\ Limit(p[k]) + Len(q) < Area
        \/ a + k = Len(q) /\ Len(q) + 1 <= Area - 1 - PROMPT
    <3>1. Area \in Nat /\ PROMPT \in Nat /\ Limit(t) \in Nat
      <4>1. Area \in Nat /\ PROMPT \in Nat /\ Limit(t) \in 0 .. Area - 1
        BY Cells, Sizes, Places
      <4>2. QED
        BY <4>1
    <3>2. CASE a < Len(l) /\ Limit(t) + Len(l) + Len(r) <= Area
      <4>1. a + k < Len(q) /\ Limit(p[k]) = Limit(t)
        BY <1>3, <2>2, <2>3, <3>2
      <4>2. Limit(t) + (Len(l) + k) < Area
        BY <1>1, <1>3, <1>6, <3>1, <3>2
      <4>3. QED
        BY <2>2, <4>1, <4>2
    <3>3. CASE a = Len(l) /\ Len(l) + Len(r) <= Area - 1 - PROMPT
      BY <1>1, <1>3, <1>6, <2>2, <3>1, <3>3
    <3>4. QED
      BY <3>2, <3>3
  <2>5. /\ Holds(p[k + 1], Part(l, a, r, k + 1), (a + k) + 1)
        /\ a + k < Len(q) => Limit(p[k + 1]) = Limit(p[k])
    BY <2>1, <2>2, <2>3, <2>4, PutHolds
  <2>6. Ready(p[k + 1])
    BY <2>1, <2>3, ReadyStays
  <2>7. (a + k) + 1 = a + (k + 1) /\ (a < Len(l) => a + k < Len(q)) /\ k + 1 \in 0 .. N
    BY <1>1, <1>3, <1>6, <2>2
  <2>8. Good(k + 1)
    BY <2>3, <2>5, <2>6, <2>7
  <2>9. QED
    BY <2>7, <2>8
<1> HIDE DEF S
<1>7. 0 .. N \subseteq S
  BY <1>1, <1>5, <1>6, RangeInSet
<1>8. N \in S
  BY <1>1, <1>7
<1>9. Holds(p[N], Part(l, a, r, N), a + N)
  BY <1>8 DEF S
<1>10. QED
  BY <1>2, <1>4, <1>9 DEF Prints
-----------------------------------------------------------------------------
(* The line in the buffer *)

\* With the cursor within it.
Reader ==
  {r \in [buf : Seq(Printable), cur : Nat, size : Nat] :
     r.cur <= Len(r.buf) /\ Len(r.buf) <= r.size /\ r.size >= INPUT_BUFFER_SIZE}

\* With a place for its end.
Ends(r) == Len(r.buf) < r.size

LEMMA InsertGives ==
  ASSUME NEW r \in Reader, NEW ch \in Printable
  PROVE  /\ reader_insert(r, ch) \in Reader /\ Ends(reader_insert(r, ch))
         /\ reader_insert(r, ch).buf = PutIn(r.buf, r.cur, ch)
         /\ reader_insert(r, ch).cur = r.cur + 1
<1> DEFINE b == r.buf
           c == r.cur
<1>1. b \in Seq(Printable) /\ Len(b) \in Nat /\ c \in 0 .. Len(b) /\ r.size \in Nat /\ Len(b) <= r.size
      /\ r.size >= INPUT_BUFFER_SIZE
  BY LenProperties DEF Reader
<1>2. InsertAt(b, c + 1, ch) = PutIn(b, c, ch)
  <2> DEFINE e == <<ch>>
  <2>1. e \in Seq(Printable) /\ Len(e) = 1 /\ e[1] = ch
    OBVIOUS
  <2>2. InsertAt(b, c + 1, ch) = SubSeq(b, 1, c) \o e \o SubSeq(b, c + 1, Len(b))
    <3>1. (c + 1) - 1 = c
      BY <1>1
    <3>2. QED
      BY <3>1 DEF InsertAt
  <2> HIDE DEF e, b, c
  <2>3. InsertAt(b, c + 1, ch) = Spliced(b, c, e)
    BY <1>1, <2>1, <2>2, SpliceGives
  <2>4. ASSUME NEW k \in 1 .. Len(b) + 1
        PROVE  (IF k <= c THEN b[k] ELSE IF k <= c + 1 THEN e[k - c] ELSE b[k - 1])
                 = IF k <= c THEN b[k] ELSE IF k = c + 1 THEN ch ELSE b[k - 1]
    <3>1. CASE k = c + 1
      <4>1. ~(k <= c) /\ k <= c + 1 /\ k - c = 1
        BY <1>1, <3>1
      <4>2. QED
        BY <2>1, <3>1, <4>1
    <3>2. CASE k # c + 1
      <4>1. k <= c \/ ~(k <= c + 1)
        BY <1>1, <3>2
      <4>2. QED
        BY <3>2, <4>1
    <3>3. QED
      BY <3>1, <3>2
  <2>5. Spliced(b, c, e) = PutIn(b, c, ch)
    BY <2>1, <2>4 DEF Spliced, PutIn
  <2>6. QED
    BY <2>3, <2>5
<1>3. PutIn(b, c, ch) \in Seq(Printable) /\ Len(PutIn(b, c, ch)) = Len(b) + 1
  <2> HIDE DEF b, c
  <2>1. QED
    BY <1>1, PutInGives
<1>4. Grown(r) \in Nat /\ Len(b) + 1 < Grown(r) /\ Grown(r) >= INPUT_BUFFER_SIZE
  <2>1. INPUT_BUFFER_SIZE \in Nat /\ INPUT_BUFFER_SIZE >= 2
    BY Sizes
  <2>2. Grown(r) = IF Len(b) < r.size - 1 THEN r.size ELSE r.size + INPUT_BUFFER_SIZE
    BY DEF Grown
  <2>3. QED
    BY <1>1, <2>1, <2>2
<1>5. reader_insert(r, ch) = [buf |-> PutIn(b, c, ch), cur |-> c + 1, size |-> Grown(r)]
  BY <1>2 DEF reader_insert
<1>6. c + 1 \in Nat /\ c + 1 <= Len(b) + 1
  BY <1>1
<1> HIDE DEF b, c
<1>7. /\ [buf |-> PutIn(b, c, ch), cur |-> c + 1, size |-> Grown(r)] \in Reader
      /\ Ends([buf |-> PutIn(b, c, ch), cur |-> c + 1, size |-> Grown(r)])
  BY <1>3, <1>4, <1>6 DEF Reader, Ends
<1>8. QED
  BY <1>5, <1>7 DEF b, c

\* The number after one below the end of a range is in the range.
LEMMA NextOfRange ==
  ASSUME NEW n \in Nat, NEW k \in 0 .. n, k < n, NEW c \in Nat
  PROVE  /\ k + 1 \in 0 .. n /\ k + 1 # 0 /\ (k + 1) - 1 = k /\ k + 1 \in 1 .. n
         /\ (c + k) + 1 = c + (k + 1)
OBVIOUS

LEMMA TypedGives ==
  ASSUME NEW r \in Reader, NEW string \in Seq(Printable)
  PROVE  /\ typed_in(r, string) \in Reader
         /\ Len(string) > 0 => Ends(typed_in(r, string))
         /\ typed_in(r, string).buf = Spliced(r.buf, r.cur, string)
         /\ typed_in(r, string).cur = r.cur + Len(string)
         /\ Len(typed_in(r, string).buf) = Len(r.buf) + Len(string)
<1> DEFINE N == Len(string)
           step == [x \in (1 .. N) \X Reader |-> reader_insert(x[2], string[x[1]])]
           p == CHOOSE h : h = [n \in 0 .. N |->
                  IF n = 0 THEN r ELSE reader_insert(h[n - 1], string[n])]
<1>1. N \in Nat /\ \A k \in 1 .. N : string[k] \in Printable
  BY LenProperties, ElementOfSeq
<1>2. Turns(N, Reader, r, step)
  <2>1. ASSUME NEW x \in (1 .. N) \X Reader PROVE reader_insert(x[2], string[x[1]]) \in Reader
    <3>1. x[1] \in 1 .. N /\ x[2] \in Reader
      BY <2>1
    <3>2. QED
      BY <1>1, <3>1, InsertGives
  <2>2. step \in [(1 .. N) \X Reader -> Reader]
    BY <2>1
  <2>3. QED
    BY <1>1, <2>2 DEF Turns
<1>3. PICK f \in [0 .. N -> Reader] : Counts(f, N, r, step)
  <2> HIDE DEF step
  <2>1. QED
    BY <1>2, RecursionDown
<1>4. \A n \in 0 .. N : f[n] = IF n = 0 THEN r ELSE reader_insert(f[n - 1], string[n])
  <2>1. f[0] = r /\ \A k \in 1 .. N : f[k] = step[<<k, f[k - 1]>>]
    BY <1>3 DEF Counts
  <2>2. ASSUME NEW k \in 1 .. N PROVE step[<<k, f[k - 1]>>] = reader_insert(f[k - 1], string[k])
    <3>1. k - 1 \in 0 .. N
      BY <1>1
    <3>2. <<k, f[k - 1]>> \in (1 .. N) \X Reader
      BY <1>3, <3>1
    <3>3. QED
      BY <3>2
  <2>3. \A n \in 0 .. N : n = 0 \/ n \in 1 .. N
    BY <1>1
  <2> HIDE DEF step
  <2>4. QED
    BY <2>1, <2>2, <2>3
<1>5. f = [n \in 0 .. N |-> IF n = 0 THEN r ELSE reader_insert(f[n - 1], string[n])]
  BY <1>3, <1>4
<1>6. p = [n \in 0 .. N |-> IF n = 0 THEN r ELSE reader_insert(p[n - 1], string[n])]
  BY <1>5
<1>7. typed_in(r, string) = p[N]
  BY DEF typed_in
<1> HIDE DEF p
<1>8. r.buf \in Seq(Printable) /\ r.cur \in 0 .. Len(r.buf) /\ Len(r.buf) \in Nat
  BY LenProperties DEF Reader
<1>9. /\ Part(r.buf, r.cur, string, 0) = r.buf
      /\ Part(r.buf, r.cur, string, N) = Spliced(r.buf, r.cur, string)
      /\ \A k \in 0 .. N :
           /\ Len(Part(r.buf, r.cur, string, k)) = Len(r.buf) + k
           /\ k < N => PutIn(Part(r.buf, r.cur, string, k), r.cur + k, string[k + 1])
                         = Part(r.buf, r.cur, string, k + 1)
  BY SMTT(30), <1>8, PartGives
<1> DEFINE Good(k) == /\ p[k] \in Reader /\ p[k].cur = r.cur + k /\ (k > 0 => Ends(p[k]))
                      /\ p[k].buf = Part(r.buf, r.cur, string, k)
           S == {k \in 0 .. N : Good(k)}
<1>10. 0 \in S
  <2>1. p[0] = r /\ r.cur + 0 = r.cur /\ 0 \in 0 .. N
    BY <1>1, <1>6, <1>8
  <2>2. QED
    BY <1>9, <2>1
<1>11. ASSUME NEW k \in 0 .. N, k < N, k \in S PROVE k + 1 \in S
  <2>1. k + 1 \in 0 .. N /\ k + 1 # 0 /\ (k + 1) - 1 = k /\ k + 1 \in 1 .. N
        /\ (r.cur + k) + 1 = r.cur + (k + 1)
    <3>1. k < N
      BY <1>11
    <3>2. r.cur \in Nat
      BY <1>8
    <3>3. QED
      BY <1>1, <3>1, <3>2, NextOfRange, Zenon
  <2>2. p[k + 1] = reader_insert(p[k], string[k + 1])
    BY <1>6, <2>1
  <2>3. /\ p[k + 1] \in Reader /\ Ends(p[k + 1])
        /\ p[k + 1].buf = PutIn(p[k].buf, p[k].cur, string[k + 1])
        /\ p[k + 1].cur = p[k].cur + 1
    BY <1>1, <1>11, <2>1, <2>2, InsertGives
  <2>4. Good(k + 1)
    BY <1>9, <1>11, <2>1, <2>3
  <2>5. QED
    BY <2>1, <2>4
<1> HIDE DEF S
<1>12. 0 .. N \subseteq S
  BY <1>1, <1>10, <1>11, RangeInSet
<1>13. N \in S
  BY <1>1, <1>12
<1>14. Good(N)
  BY <1>13 DEF S
<1>15. QED
  BY <1>1, <1>7, <1>9, <1>14
-----------------------------------------------------------------------------
(* Moving the cursor *)

LEMMA EdgeGives ==
  ASSUME NEW t \in Terminal, NEW y \in 0 .. YLEN - 1,
         \A x \in 0 .. XLEN - 1 : x < XLEN - 1 => t.map[Row(y) + x] # Blank
  PROVE  cursor_find_edge(t, y) = XLEN - 1
<1> DEFINE T == {XLEN - 1} \cup {x \in 0 .. XLEN - 1 : t.map[y * XLEN + x] = Blank}
<1>1. XLEN \in Nat /\ XLEN >= 2
  BY Sizes
<1>2. T \in SUBSET Nat /\ XLEN - 1 \in T
  BY <1>1
<1>3. T \subseteq {XLEN - 1}
  BY <1>1 DEF Row
<1>4. cursor_find_edge(t, y) = Min(T)
  BY DEF cursor_find_edge
<1> HIDE DEF T
<1>5. Min(T) \in T
  BY <1>2, MinGives
<1>6. QED
  BY <1>3, <1>4, <1>5

\* To the left, over the end of a row, it is always one cell, because no row
\* of the line ends before its last column.
LEMMA MovedLeftGives ==
  ASSUME NEW t \in Terminal, t.xl <= PROMPT, Limit(t) < At(t),
         \A c \in Cell : Row(t.yl) <= c /\ c < At(t) - 1 => t.map[c] # Blank
  PROVE  LET s == MovedLeft(t)
         IN  /\ s \in Terminal /\ s.map = t.map /\ Limit(s) = Limit(t) /\ At(s) = At(t) - 1
             /\ s.yl = t.yl /\ Ready(s)
<1> DEFINE s == MovedLeft(t)
<1>1. /\ t.x \in 0 .. XLEN - 1 /\ t.y \in 0 .. YLEN - 1
      /\ t.xl \in 0 .. XLEN - 1 /\ t.yl \in 0 .. YLEN - 1
      /\ XLEN \in Nat /\ XLEN >= 2 /\ YLEN \in Nat
  BY Sizes DEF Terminal
<1>2. /\ At(t) = Row(t.y) + t.x /\ Row(t.y) \in Nat /\ Row(t.yl) \in Nat
      /\ Limit(t) = Row(t.yl) + t.xl /\ Limit(t) \in 0 .. Area - 1 /\ At(t) \in 0 .. Area - 1
      /\ t.yl = t.y => (Limit(t) <= At(t) <=> t.xl <= t.x)
      /\ Limit(t) <= At(t) => t.yl <= t.y
  BY Places
<1>3. Cell = 0 .. Area - 1 /\ Area \in Nat
  BY Cells
<1>4. CASE t.x > 0
  <2>1. s = cursor_set(t, t.x - 1, t.y) /\ t.x - 1 \in 0 .. XLEN - 1
    BY <1>1, <1>2, <1>4 DEF MovedLeft
  <2>2. /\ s \in Terminal /\ s.map = t.map /\ s.x = t.x - 1 /\ s.y = t.y
        /\ s.xl = t.xl /\ s.yl = t.yl
    <3>1. t.y \in 0 .. YLEN - 1 /\ t.x - 1 \in 0 .. XLEN - 1
      BY <1>1, <2>1
    <3> DEFINE x == t.x - 1
    <3> HIDE DEF s, x
    <3>2. LET u == cursor_set(t, x, t.y)
          IN  /\ u \in Terminal /\ u.map = t.map /\ u.x = x /\ u.y = t.y
              /\ u.xl = t.xl /\ u.yl = t.yl
      BY <3>1, CursorSetGives DEF x
    <3>3. s = cursor_set(t, x, t.y)
      BY <2>1 DEF s, x
    <3>4. QED
      BY <3>2, <3>3 DEF x
  <2> HIDE DEF s
  <2>3. At(s) = Row(t.y) + (t.x - 1) /\ Limit(s) = Limit(t)
    BY <1>2, <2>2, Places
  <2>4. At(s) = At(t) - 1
    BY <1>1, <1>2, <2>3
  <2>5. Ready(s)
    BY <1>2, <1>3, <2>2, <2>3, <2>4 DEF Ready
  <2>6. QED
    BY <2>2, <2>3, <2>4, <2>5 DEF s
<1>5. CASE t.x = 0
  <2>1. t.yl < t.y
    <3>1. t.yl <= t.y
      BY <1>2, <1>3
    <3>2. t.yl # t.y
      BY <1>1, <1>2, <1>5
    <3>3. QED
      BY <1>1, <3>1, <3>2
  <2>2. t.y - 1 \in 0 .. YLEN - 1 /\ t.y # 0 /\ (t.y - 1) + 1 = t.y /\ t.y - 1 \in Nat
        /\ t.yl <= t.y - 1
    BY <1>1, <2>1
  <2>3. Row(t.y) = Row(t.y - 1) + XLEN /\ Row(t.y - 1) \in Nat
    BY <2>2, Rows
  <2>4. Row(t.yl) <= Row(t.y - 1)
    <3>1. t.yl \in Nat /\ (t.yl = t.y - 1 \/ t.yl < t.y - 1)
      BY <1>1, <2>2
    <3>2. t.yl < t.y - 1 => Row(t.yl) + XLEN <= Row(t.y - 1)
      BY <2>2, <3>1, Rows
    <3>3. QED
      BY <1>1, <1>2, <2>3, <3>1, <3>2
  <2>5. ASSUME NEW x \in 0 .. XLEN - 1, x < XLEN - 1 PROVE t.map[Row(t.y - 1) + x] # Blank
    <3>1. Row(t.y - 1) + x \in Nat /\ Row(t.y - 1) + x < At(t) - 1 /\ Row(t.yl) <= Row(t.y - 1) + x
      BY <1>1, <1>2, <1>5, <2>3, <2>4, <2>5
    <3>2. Row(t.y - 1) + x \in Cell
      BY <1>2, <1>3, <3>1
    <3>3. QED
      BY <3>1, <3>2
  <2>6. cursor_find_edge(t, t.y - 1) = XLEN - 1
    BY <2>2, <2>5, EdgeGives
  <2>7. s = cursor_set(t, XLEN - 1, t.y - 1)
    BY <1>2, <1>5, <2>2, <2>6 DEF MovedLeft
  <2>8. XLEN - 1 \in 0 .. XLEN - 1
    BY <1>1
  <2>9. /\ s \in Terminal /\ s.map = t.map /\ s.x = XLEN - 1 /\ s.y = t.y - 1
        /\ s.xl = t.xl /\ s.yl = t.yl
    BY <2>2, <2>7, <2>8, CursorSetGives
  <2> HIDE DEF s
  <2>10. At(s) = Row(t.y - 1) + (XLEN - 1) /\ Limit(s) = Limit(t)
    BY <1>2, <2>9, Places
  <2>11. At(s) = At(t) - 1
    BY <1>1, <1>2, <1>5, <2>3, <2>10
  <2>12. Ready(s)
    BY <1>2, <1>3, <2>9, <2>10, <2>11 DEF Ready
  <2>13. QED
    BY <2>9, <2>10, <2>11, <2>12 DEF s
<1>6. QED
  BY <1>1, <1>4, <1>5

LEMMA MovedRightGives ==
  ASSUME NEW t \in Terminal, Ready(t)
  PROVE  LET s == MovedRight(t)
         IN  /\ s \in Terminal /\ Ready(s)
             /\ s # t => /\ t.map[At(t)] # Blank /\ s.map = t.map
                         /\ Limit(s) = Limit(t) /\ At(s) = At(t) + 1
<1> DEFINE s == MovedRight(t)
           Moves == t.map[At(t)] # Blank /\ s \in Terminal /\ s.map = t.map /\ s.xl = t.xl
                    /\ s.yl = t.yl /\ At(s) = At(t) + 1
<1>1. /\ t.x \in 0 .. XLEN - 1 /\ t.y \in 0 .. YLEN - 1
      /\ t.xl \in 0 .. XLEN - 1 /\ t.yl \in 0 .. YLEN - 1
      /\ XLEN \in Nat /\ XLEN >= 2 /\ YLEN \in Nat
  BY Sizes DEF Terminal
<1>2. /\ At(t) = Row(t.y) + t.x /\ Row(t.y) \in Nat /\ Row(t.yl) \in Nat
      /\ Limit(t) = Row(t.yl) + t.xl /\ Limit(t) \in 0 .. Area - 1 /\ At(t) \in 0 .. Area - 1
  BY Places
<1>3. Cell = 0 .. Area - 1 /\ Area \in Nat
  BY Cells
<1>4. s = t \/ Moves
  <2>1. CASE t.map[At(t)] = Blank
    BY <2>1 DEF MovedRight
  <2>2. CASE t.map[At(t)] # Blank /\ t.x < XLEN - 1
    <3>1. s = cursor_set(t, t.x + 1, t.y) /\ t.x + 1 \in 0 .. XLEN - 1
      BY <1>1, <2>2 DEF MovedRight
    <3>2. /\ s \in Terminal /\ s.map = t.map /\ s.x = t.x + 1 /\ s.y = t.y
          /\ s.xl = t.xl /\ s.yl = t.yl
      <4>1. t.y \in 0 .. YLEN - 1 /\ t.x + 1 \in 0 .. XLEN - 1
        BY <1>1, <3>1
      <4> DEFINE x == t.x + 1
      <4> HIDE DEF s, x
      <4>2. LET u == cursor_set(t, x, t.y)
            IN  /\ u \in Terminal /\ u.map = t.map /\ u.x = x /\ u.y = t.y
                /\ u.xl = t.xl /\ u.yl = t.yl
        BY <4>1, CursorSetGives DEF x
      <4>3. s = cursor_set(t, x, t.y)
        BY <3>1 DEF s, x
      <4>4. QED
        BY <4>2, <4>3 DEF x
    <3> HIDE DEF s
    <3>3. At(s) = Row(t.y) + (t.x + 1)
      BY <3>2, Places
    <3>4. At(s) = At(t) + 1
      BY <1>1, <1>2, <3>3
    <3>5. QED
      BY <2>2, <3>2, <3>4
  <2>3. CASE t.map[At(t)] # Blank /\ ~(t.x < XLEN - 1) /\ t.y # YLEN - 1
    <3>1. s = cursor_set(t, 0, t.y + 1)
      BY <2>3 DEF MovedRight
    <3>2. t.y + 1 \in 0 .. YLEN - 1 /\ 0 \in 0 .. XLEN - 1 /\ Row(t.y + 1) = Row(t.y) + XLEN
      BY <1>1, <2>3, RowFacts
    <3>3. /\ s \in Terminal /\ s.map = t.map /\ s.x = 0 /\ s.y = t.y + 1
          /\ s.xl = t.xl /\ s.yl = t.yl
      BY <3>1, <3>2, CursorSetGives
    <3> HIDE DEF s
    <3>4. At(s) = Row(t.y + 1) + 0
      BY <3>3, Places
    <3>5. At(s) = At(t) + 1
      BY <1>1, <1>2, <2>3, <3>2, <3>4
    <3>6. QED
      BY <2>3, <3>3, <3>5
  <2>4. CASE t.map[At(t)] # Blank /\ ~(t.x < XLEN - 1) /\ t.y = YLEN - 1
    BY <2>4 DEF MovedRight
  <2>5. QED
    BY <2>1, <2>2, <2>3, <2>4
<1> HIDE DEF s
<1>5. CASE s = t
  BY <1>5 DEF s
<1>6. CASE Moves
  <2>1. Limit(s) = Limit(t)
    BY <1>6 DEF Limit
  <2>2. ASSUME NEW c \in Cell, Row(s.yl) <= c, c < At(s) PROVE s.map[c] # Blank
    <3>1. c < At(t) \/ c = At(t)
      BY <1>2, <1>3, <1>6, <2>2
    <3>2. QED
      BY <1>6, <2>2, <3>1 DEF Ready
  <2>3. Limit(s) <= At(s) /\ s.xl <= PROMPT
    BY <1>2, <1>3, <1>6, <2>1 DEF Ready
  <2>4. QED
    BY <1>6, <2>1, <2>2, <2>3 DEF Ready, s
<1>7. QED
  BY <1>4, <1>5, <1>6
-----------------------------------------------------------------------------
(* Erasing *)

LEMMA DeletedGives ==
  ASSUME NEW t \in Terminal
  PROVE  LET s == Deleted(t)
         IN  /\ s \in Terminal /\ At(s) = At(t) /\ Limit(s) = Limit(t)
             /\ s.xl = t.xl /\ s.yl = t.yl
             /\ \A c \in Cell : s.map[c] = IF c < At(t) - 1 THEN t.map[c]
                                           ELSE IF c = LastCell THEN Blank ELSE t.map[c + 1]
<1> DEFINE s == Deleted(t)
           m == [c \in Cell |-> IF c < At(t) - 1 THEN t.map[c]
                                ELSE IF c = LastCell THEN Blank ELSE t.map[c + 1]]
<1>1. /\ t.map \in [Cell -> Char] /\ Cell = 0 .. Area - 1 /\ LastCell = Area - 1 /\ Area \in Nat
  BY Cells DEF Terminal
<1>2. \A c \in Cell : c = LastCell \/ c + 1 \in Cell
  BY <1>1
<1>3. m \in [Cell -> Char]
  BY <1>1, <1>2, Marks
<1>4. s = [t EXCEPT !.map = m]
  BY DEF Deleted
<1> HIDE DEF m
<1>5. s \in Terminal /\ s.map = m /\ s.x = t.x /\ s.y = t.y /\ s.xl = t.xl /\ s.yl = t.yl
  BY <1>3, <1>4 DEF Terminal
<1> HIDE DEF s
<1>6. At(s) = At(t) /\ Limit(s) = Limit(t)
  BY <1>5 DEF At, Limit
<1>7. QED
  BY <1>5, <1>6 DEF m, s

\* Backspace on the window.
LEMMA BackGives ==
  ASSUME NEW t \in Terminal, Ready(t), At(t) # Limit(t)
  PROVE  LET s == MovedLeft(Deleted(t))
         IN  /\ s \in Terminal /\ Ready(s) /\ Limit(s) = Limit(t) /\ At(s) = At(t) - 1
             /\ s.map = Deleted(t).map
<1> DEFINE d == Deleted(t)
<1>1. /\ d \in Terminal /\ At(d) = At(t) /\ Limit(d) = Limit(t) /\ d.xl = t.xl /\ d.yl = t.yl
      /\ \A c \in Cell : c < At(t) - 1 => d.map[c] = t.map[c]
  BY DeletedGives
<1>2. At(t) \in 0 .. Area - 1 /\ Limit(t) \in 0 .. Area - 1 /\ Area \in Nat /\ Cell = 0 .. Area - 1
  BY Places, Cells
<1> HIDE DEF d
<1>3. Limit(d) < At(d) /\ d.xl <= PROMPT
  BY <1>1, <1>2 DEF Ready
<1>4. ASSUME NEW c \in Cell, Row(d.yl) <= c, c < At(d) - 1 PROVE d.map[c] # Blank
  <2>1. c < At(t) /\ c < At(t) - 1
    BY <1>1, <1>2, <1>4
  <2>2. QED
    BY <1>1, <1>4, <2>1 DEF Ready
<1>5. LET s == MovedLeft(d)
      IN  /\ s \in Terminal /\ s.map = d.map /\ Limit(s) = Limit(d) /\ At(s) = At(d) - 1
          /\ Ready(s)
  BY <1>1, <1>3, <1>4, MovedLeftGives
<1>6. QED
  BY <1>1, <1>5 DEF d

\* A line without one of its characters.
Without(l, a) == [k \in 1 .. Len(l) - 1 |-> IF k < a THEN l[k] ELSE l[k + 1]]

LEMMA WithoutGives ==
  ASSUME NEW S, NEW l \in Seq(S), NEW a \in 1 .. Len(l)
  PROVE  /\ RemoveAt(l, a) = Without(l, a)
         /\ Without(l, a) \in Seq(S) /\ Len(Without(l, a)) = Len(l) - 1
         /\ a = Len(l) => Front(l) = Without(l, a)
<1>1. Len(l) \in Nat /\ Len(l) >= 1 /\ Len(l) - 1 \in Nat /\ a \in Nat
      /\ \A k \in 1 .. Len(l) : l[k] \in S
  BY LenProperties, ElementOfSeq
<1>2. RemoveAt(l, a) = Without(l, a)
  BY RemoveAtGives DEF RemoveAt, Without
<1>3. \A k \in 1 .. Len(l) - 1 : k \in 1 .. Len(l) /\ k + 1 \in 1 .. Len(l)
  BY <1>1
<1>4. Without(l, a) \in [1 .. Len(l) - 1 -> S]
  BY <1>1, <1>3 DEF Without
<1>5. Without(l, a) \in Seq(S) /\ Len(Without(l, a)) = Len(l) - 1
  BY <1>1, <1>4
<1>6. ASSUME a = Len(l) PROVE Front(l) = Without(l, a)
  <2>1. Front(l) = [k \in 1 .. Len(l) - 1 |-> l[k]]
    BY <1>1, FrontGives DEF Front
  <2>2. \A k \in 1 .. Len(l) - 1 : k < a
    BY <1>1, <1>6
  <2>3. QED
    BY <2>1, <2>2 DEF Without
<1>7. QED
  BY <1>2, <1>5, <1>6

LEMMA BackHolds ==
  ASSUME NEW t \in Terminal, Ready(t), NEW l, NEW a, Holds(t, l, a), a > 0
  PROVE  Holds(MovedLeft(Deleted(t)), Without(l, a), a - 1)
<1> DEFINE s == MovedLeft(Deleted(t))
           m == Without(l, a)
<1>1. /\ Cell = 0 .. Area - 1 /\ Area \in Nat /\ Len(l) \in Nat /\ a \in 0 .. Len(l) /\ LastCell = Area - 1
      /\ Limit(t) \in 0 .. Area - 1 /\ At(t) = Limit(t) + a /\ l \in Seq(Mark)
  BY Cells, Places, LenProperties DEF Holds
<1>2. a \in 1 .. Len(l)
  BY <1>1
<1>3. m \in Seq(Mark) /\ Len(m) = Len(l) - 1
  BY <1>1, <1>2, WithoutGives
<1>4. s.map = Deleted(t).map /\ Limit(s) = Limit(t) /\ At(s) = At(t) - 1
  <2>1. At(t) # Limit(t)
    BY <1>1, <1>2
  <2>2. QED
    BY <2>1, BackGives
<1>5. \A c \in Cell : s.map[c] = IF c < At(t) - 1 THEN t.map[c]
                                 ELSE IF c = LastCell THEN Blank ELSE t.map[c + 1]
  BY <1>4, DeletedGives
<1> HIDE DEF s
<1>6. Limit(t) + Len(l) <= Area
  BY DEF Holds
<1>7. ASSUME NEW k \in 1 .. Len(m) PROVE s.map[Limit(s) + k - 1] = m[k]
  <2> DEFINE c == Limit(t) + k - 1
  <2>1. /\ k \in Nat /\ k >= 1 /\ k <= Len(l) - 1 /\ k \in 1 .. Len(l) - 1
        /\ k \in 1 .. Len(l) /\ k + 1 \in 1 .. Len(l)
    BY <1>1, <1>3
  <2>2. c \in Cell /\ c # LastCell /\ c + 1 = Limit(t) + (k + 1) - 1
    <3>1. Limit(t) \in Nat /\ Area \in Nat /\ Len(l) \in Nat
      BY <1>1
    <3>2. c \in Nat /\ c < Area - 1
      BY <1>6, <2>1, <3>1
    <3>3. QED
      BY <1>1, <2>1, <3>1, <3>2
  <2>3. c < At(t) - 1 <=> k < a
    <3>1. Limit(t) \in Nat /\ a \in Nat
      BY <1>1
    <3>2. QED
      BY <1>1, <2>1, <3>1
  <2>4. t.map[c] = l[k] /\ t.map[c + 1] = l[k + 1]
    BY <2>1, <2>2 DEF Holds
  <2>5. m[k] = IF k < a THEN l[k] ELSE l[k + 1]
    BY <2>1 DEF Without
  <2>6. s.map[c] = IF c < At(t) - 1 THEN t.map[c] ELSE t.map[c + 1]
    BY <1>5, <2>2
  <2>7. s.map[c] = m[k]
    BY <2>3, <2>4, <2>5, <2>6
  <2>8. QED
    BY <1>4, <2>7
<1>8. ASSUME NEW c \in Cell, c >= Limit(s) + Len(m) PROVE s.map[c] = Blank
  <2>1. Limit(t) \in Nat /\ Len(l) \in Nat /\ a \in Nat /\ a <= Len(l) /\ Len(l) >= 1 /\ c \in Nat
    BY <1>1, <1>2
  <2>2. ~(c < At(t) - 1) /\ c + 1 >= Limit(t) + Len(l)
    <3>1. Limit(s) = Limit(t) /\ Len(m) = Len(l) - 1 /\ At(t) = Limit(t) + a
      BY <1>1, <1>3, <1>4
    <3>2. c >= Limit(t) + (Len(l) - 1)
      BY <1>8, <3>1
    <3>3. QED
      BY <2>1, <3>1, <3>2
  <2>3. c = LastCell \/ c + 1 \in Cell
    BY <1>1
  <2>4. c + 1 \in Cell => t.map[c + 1] = Blank
    BY <2>2 DEF Holds, BlankFrom
  <2>5. QED
    BY <1>5, <2>2, <2>3, <2>4
<1>9. a - 1 \in 0 .. Len(m) /\ Limit(s) + Len(m) <= Area /\ At(s) = Limit(s) + (a - 1)
  <2>1. Limit(t) \in Nat /\ Len(l) \in Nat /\ a \in Nat /\ a <= Len(l) /\ a >= 1
    BY <1>1, <1>2
  <2>2. At(s) = (Limit(t) + a) - 1
    BY <1>1, <1>4
  <2>3. QED
    BY <1>1, <1>3, <1>4, <1>6, <2>1, <2>2
<1> HIDE DEF m
<1>10. QED
  BY <1>3, <1>7, <1>8, <1>9 DEF Holds, BlankFrom, s, m
-----------------------------------------------------------------------------
(* A new prompt *)

PromptString == <<"\n">> \o [i \in 1 .. PROMPT |-> Ink]

LEMMA PromptStringGives ==
  /\ PromptString \in Seq(Output) /\ Len(PromptString) = PROMPT + 1
  /\ PromptString # << >> /\ PromptString[1] = "\n"
  /\ \A k \in 1 .. PROMPT : PromptString[k + 1] = Ink
<1> DEFINE r == [i \in 1 .. PROMPT |-> Ink]
           n == <<"\n">>
<1>1. PROMPT \in Nat /\ Ink \in Output /\ "\n" \in Output
  BY Sizes, Marks
<1>2. r \in Seq(Output) /\ Len(r) = PROMPT
  BY <1>1
<1>3. n \in Seq(Output) /\ Len(n) = 1 /\ n[1] = "\n"
  BY <1>1
<1>4. PromptString = n \o r
  BY DEF PromptString
<1>5. \A k \in 1 .. PROMPT : r[k] = Ink
  OBVIOUS
<1> HIDE DEF r, n
<1>6. /\ n \o r \in Seq(Output) /\ Len(n \o r) = Len(n) + Len(r)
      /\ \A i \in 1 .. Len(n) + Len(r) : (n \o r)[i] = IF i <= Len(n) THEN n[i] ELSE r[i - Len(n)]
  BY <1>2, <1>3, ConcatProperties
<1>7. Len(PromptString) = PROMPT + 1
  BY <1>1, <1>2, <1>3, <1>4, <1>6
<1>8. PromptString[1] = "\n"
  <2>1. 1 \in 1 .. Len(n) + Len(r) /\ 1 <= Len(n)
    BY <1>1, <1>2, <1>3
  <2>2. QED
    BY <1>3, <1>4, <1>6, <2>1
<1>9. ASSUME NEW k \in 1 .. PROMPT PROVE PromptString[k + 1] = Ink
  <2>1. k + 1 \in 1 .. Len(n) + Len(r) /\ ~(k + 1 <= Len(n)) /\ (k + 1) - Len(n) = k
    BY <1>1, <1>2, <1>3
  <2>2. QED
    BY <1>4, <1>5, <1>6, <2>1
<1>10. PromptString # << >>
  BY <1>1, <1>7
<1>11. QED
  BY <1>4, <1>6, <1>7, <1>8, <1>9, <1>10

\* The prompt stands on a row of its own.
LEMMA PromptGives ==
  ASSUME NEW t \in Terminal
  PROVE  LET s == print(t, PromptString)
         IN  /\ s \in Terminal /\ s.x = PROMPT
             /\ \A c \in Cell : Row(s.y) <= c /\ c < At(s) => s.map[c] # Blank
<1> DEFINE r == PromptString
<1>1. /\ r \in Seq(Output) /\ Len(r) = PROMPT + 1 /\ r[1] = "\n"
      /\ \A k \in 1 .. PROMPT : r[k + 1] = Ink
      /\ PROMPT \in Nat /\ PROMPT < XLEN /\ XLEN \in Nat
  BY PromptStringGives, Sizes
<1> HIDE DEF r
<1>2. PICK p : Prints(t, r, p)
  BY <1>1, Printing
<1>3. p[1] = NewRow(t)
  <2>1. 1 \in 1 .. Len(r) /\ 1 - 1 = 0
    BY <1>1
  <2>2. p[1] = PutChar(p[0], r[1]) /\ p[0] = t
    BY <1>2, <2>1 DEF Prints
  <2>3. QED
    BY <1>1, <2>2 DEF PutChar
<1> DEFINE Good(k) == /\ p[k + 1].x = k
                      /\ \A c \in Cell : Row(p[k + 1].y) <= c /\ c < At(p[k + 1]) => p[k + 1].map[c] # Blank
           S == {k \in 0 .. PROMPT : Good(k)}
<1>4. 0 \in S
  <2>1. p[1] \in Terminal /\ p[1].x = 0
    BY <1>3, NewRowGives
  <2>2. At(p[1]) = Row(p[1].y) + 0 /\ Row(p[1].y) \in Nat
    BY <2>1, Places
  <2>3. \A c \in Cell : ~(Row(p[1].y) <= c /\ c < At(p[1]))
    BY <2>2, Cells
  <2>4. 0 + 1 = 1
    OBVIOUS
  <2>5. Good(0)
    BY <2>1, <2>3, <2>4
  <2>6. QED
    BY <1>1, <2>5
<1>5. ASSUME NEW k \in 0 .. PROMPT, k < PROMPT, k \in S PROVE k + 1 \in S
  <2> DEFINE u == p[k + 1]
             v == p[(k + 1) + 1]
  <2>1. k + 1 \in 0 .. Len(r) /\ k + 1 < Len(r) /\ k + 1 \in 1 .. PROMPT
    BY <1>1, <1>5
  <2>2. u \in Terminal /\ v \in Terminal /\ v = PutChar(u, r[(k + 1) + 1])
    BY <1>1, <1>2, <2>1, PrintStep
  <2>3. v = PutChar(u, Ink)
    BY <1>1, <2>1, <2>2
  <2>4. u.x = k /\ \A c \in Cell : Row(u.y) <= c /\ c < At(u) => u.map[c] # Blank
    BY <1>5
  <2> HIDE DEF u, v
  <2>5. u.x < XLEN - 1
    BY <1>1, <1>5, <2>4
  <2>6. /\ Puts(u, Ink, v) /\ Ink # Blank /\ At(u) \in 0 .. Area - 1
        /\ (At(u) = LastCell <=> u.x = XLEN - 1 /\ u.y = YLEN - 1)
    BY <2>2, <2>3, PutCharGives, Marks, Places
  <2>7. At(u) # LastCell
    BY <1>1, <2>4, <2>5, <2>6
  <2>8. v.x = k + 1 /\ v.y = u.y /\ v.map = Inserted(u, Ink) /\ At(v) = At(u) + 1
    BY <2>4, <2>5, <2>6, <2>7 DEF Puts, Stepped
  <2>9. ASSUME NEW c \in Cell, Row(v.y) <= c, c < At(v) PROVE v.map[c] # Blank
    <3>1. c < At(u) \/ c = At(u)
      <4>1. c \in Nat /\ At(u) \in Nat
        BY <2>6, Cells
      <4>2. QED
        BY <2>8, <2>9, <4>1
    <3>2. CASE c < At(u)
      <4>1. v.map[c] = u.map[c]
        BY <2>8, <3>2 DEF Inserted
      <4>2. QED
        BY <2>4, <2>8, <2>9, <3>2, <4>1
    <3>3. CASE c = At(u)
      <4>1. ~(c < At(u))
        BY <2>6, <3>3, Cells
      <4>2. v.map[c] = Ink
        BY <2>8, <3>3, <4>1 DEF Inserted
      <4>3. QED
        BY <2>6, <4>2
    <3>4. QED
      BY <3>1, <3>2, <3>3
  <2>10. Good(k + 1)
    BY <2>8, <2>9 DEF v
  <2>11. k + 1 \in 0 .. PROMPT
    BY <1>1, <1>5
  <2>12. QED
    BY <2>10, <2>11
<1> HIDE DEF S
<1>6. 0 .. PROMPT \subseteq S
  BY <1>1, <1>4, <1>5, RangeInSet
<1>7. PROMPT \in S
  BY <1>1, <1>6
<1>8. Good(PROMPT)
  BY <1>7 DEF S
<1>9. print(t, PromptString) = p[PROMPT + 1]
  BY <1>1, <1>2 DEF Prints, r
<1>10. print(t, PromptString) \in Terminal
  BY <1>1, PrintTerminal DEF r
<1>11. QED
  BY <1>8, <1>9, <1>10

LEMMA NewlineGives ==
  ASSUME NEW t \in Terminal
  PROVE  LET s == shell_newline(t)
         IN  /\ s \in Terminal /\ Ready(s) /\ At(s) = Limit(s)
             /\ ClearBelow(t) => Holds(s, << >>, 0)
<1> DEFINE p == print(t, PromptString)
           m == [c \in Cell |-> IF c < p.y * XLEN THEN Blank ELSE p.map[c]]
           s == shell_newline(t)
<1>1. /\ p \in Terminal /\ p.x = PROMPT
      /\ \A c \in Cell : Row(p.y) <= c /\ c < At(p) => p.map[c] # Blank
  BY PromptGives
<1>2. s = [p EXCEPT !.xl = p.x, !.yl = p.y, !.map = m]
  BY DEF shell_newline, PromptString
<1>3. ClearBelow(t) => BlankFrom(p, At(p))
  BY PromptStringGives, PrintBelow
<1> HIDE DEF p
<1>4. m \in [Cell -> Char]
  BY <1>1, Marks DEF Terminal
<1>5. \A c \in Cell : m[c] = IF c < Row(p.y) THEN Blank ELSE p.map[c]
  BY DEF Row
<1> HIDE DEF m, s
<1>6. s \in Terminal /\ s.map = m /\ s.x = p.x /\ s.y = p.y /\ s.xl = p.x /\ s.yl = p.y
  BY <1>1, <1>2, <1>4 DEF Terminal
<1>7. At(s) = Limit(s) /\ At(s) = At(p)
  BY <1>6 DEF At, Limit
<1>8. /\ At(s) \in 0 .. Area - 1 /\ Area \in Nat /\ PROMPT \in Nat /\ At(p) = Row(p.y) + p.x
      /\ Row(p.y) \in Nat /\ Cell = 0 .. Area - 1 /\ p.x \in 0 .. XLEN - 1
  BY <1>1, <1>6, Places, Cells, Sizes DEF Terminal
<1>9. Ready(s)
  <2>1. ASSUME NEW c \in Cell, Row(s.yl) <= c, c < At(s) PROVE s.map[c] # Blank
    <3>1. Row(p.y) <= c /\ c < At(p) /\ ~(c < Row(p.y))
      BY <1>6, <1>7, <1>8, <2>1
    <3>2. QED
      BY <1>1, <1>5, <1>6, <3>1
  <2>2. Limit(s) <= At(s) /\ s.xl <= PROMPT
    BY <1>1, <1>6, <1>7, <1>8
  <2>3. QED
    BY <2>1, <2>2 DEF Ready
<1>10. ASSUME ClearBelow(t) PROVE Holds(s, << >>, 0)
  <2>1. BlankFrom(p, At(p))
    BY <1>3, <1>10
  <2>2. ASSUME NEW c \in Cell, c >= Limit(s) + 0 PROVE s.map[c] = Blank
    <3>1. c >= At(p) /\ ~(c < Row(p.y))
      <4>1. XLEN \in Nat
        BY Sizes
      <4>2. QED
        BY <1>7, <1>8, <2>2, <4>1
    <3>2. QED
      BY <1>5, <1>6, <2>1, <3>1 DEF BlankFrom
  <2>3. << >> \in Seq(Mark) /\ Len(<< >>) = 0
    OBVIOUS
  <2>4. At(s) = Limit(s) + 0 /\ Limit(s) + 0 <= Area
    BY <1>7, <1>8
  <2>5. QED
    BY <2>2, <2>3, <2>4 DEF Holds, BlankFrom
<1>11. QED
  BY <1>6, <1>7, <1>9, <1>10 DEF s
-----------------------------------------------------------------------------
(* A listing *)

LEMMA GetlnGives ==
  ASSUME NEW i \in Nat, NEW n \in Nat
  PROVE  /\ sout_getln(i, n) \in Seq(Output)
         /\ i = 1 => sout_getln(i, n) # << >> /\ sout_getln(i, n)[1] = "\n"
<1>1. Ink \in Output /\ "\n" \in Output
  BY Marks
<1>2. \/ sout_getln(i, n) = <<"\n">>
      \/ i # 1 /\ sout_getln(i, n) = <<Ink>>
      \/ i # 1 /\ sout_getln(i, n) = <<Ink, "\n">>
  <2>1. i = 1 => ~(i = n /\ n > 1)
    OBVIOUS
  <2>2. QED
    BY <2>1 DEF sout_getln
<1>3. <<"\n">> \in Seq(Output) /\ <<Ink>> \in Seq(Output) /\ <<Ink, "\n">> \in Seq(Output)
  BY <1>1
<1>4. <<"\n">> # << >> /\ <<"\n">>[1] = "\n"
  OBVIOUS
<1>5. QED
  BY <1>2, <1>3, <1>4

LEMMA ListingGives ==
  ASSUME NEW t \in Terminal, NEW last \in Nat, NEW n \in Nat, last >= 1
  PROVE  LET s == print_lines(t, last, n)
         IN  s \in Terminal /\ (ClearBelow(t) => BlankFrom(s, At(s)))
<1> DEFINE step == [x \in (1 .. last) \X Terminal |-> print(x[2], sout_getln(x[1], n))]
           p == CHOOSE h : h = [i \in 0 .. last |->
                  IF i = 0 THEN t ELSE print(h[i - 1], sout_getln(i, n))]
<1>1. \A k \in 1 .. last : k \in Nat /\ sout_getln(k, n) \in Seq(Output)
  BY GetlnGives
<1>2. Turns(last, Terminal, t, step)
  <2>1. ASSUME NEW x \in (1 .. last) \X Terminal PROVE print(x[2], sout_getln(x[1], n)) \in Terminal
    <3>1. x[1] \in 1 .. last /\ x[2] \in Terminal
      BY <2>1
    <3>2. QED
      BY <1>1, <3>1, PrintTerminal
  <2>2. step \in [(1 .. last) \X Terminal -> Terminal]
    BY <2>1
  <2>3. QED
    BY <2>2 DEF Turns
<1>3. PICK f \in [0 .. last -> Terminal] : Counts(f, last, t, step)
  <2> HIDE DEF step
  <2>1. QED
    BY <1>2, RecursionDown
<1>4. \A i \in 0 .. last : f[i] = IF i = 0 THEN t ELSE print(f[i - 1], sout_getln(i, n))
  <2>1. f[0] = t /\ \A k \in 1 .. last : f[k] = step[<<k, f[k - 1]>>]
    BY <1>3 DEF Counts
  <2>2. ASSUME NEW k \in 1 .. last PROVE step[<<k, f[k - 1]>>] = print(f[k - 1], sout_getln(k, n))
    <3>1. k - 1 \in 0 .. last
      OBVIOUS
    <3>2. <<k, f[k - 1]>> \in (1 .. last) \X Terminal
      BY <1>3, <3>1
    <3>3. QED
      BY <3>2
  <2>3. \A i \in 0 .. last : i = 0 \/ i \in 1 .. last
    OBVIOUS
  <2> HIDE DEF step
  <2>4. QED
    BY <2>1, <2>2, <2>3
<1>5. f = [i \in 0 .. last |-> IF i = 0 THEN t ELSE print(f[i - 1], sout_getln(i, n))]
  BY <1>3, <1>4
<1>6. p = [i \in 0 .. last |-> IF i = 0 THEN t ELSE print(p[i - 1], sout_getln(i, n))]
  BY <1>5
<1>7. print_lines(t, last, n) = p[last]
  BY DEF print_lines
<1> HIDE DEF p
<1> DEFINE Good(k) == p[k] \in Terminal /\ (k > 0 /\ ClearBelow(t) => BlankFrom(p[k], At(p[k])))
           S == {k \in 0 .. last : Good(k)}
<1>8. 0 \in S
  <2>1. p[0] = t /\ 0 \in 0 .. last
    BY <1>6
  <2>2. QED
    BY <2>1
<1>9. ASSUME NEW k \in 0 .. last, k < last, k \in S PROVE k + 1 \in S
  <2> DEFINE r == sout_getln(k + 1, n)
  <2>1. k + 1 \in 0 .. last /\ k + 1 # 0 /\ (k + 1) - 1 = k /\ k + 1 \in 1 .. last
    BY <1>9
  <2>2. p[k + 1] = print(p[k], r)
    BY <1>6, <2>1
  <2>3. r \in Seq(Output) /\ (k = 0 => r # << >> /\ r[1] = "\n")
    <3> DEFINE i == k + 1
    <3>1. i \in Nat /\ (k = 0 => i = 1)
      OBVIOUS
    <3> HIDE DEF i
    <3>2. sout_getln(i, n) \in Seq(Output) /\ (i = 1 => sout_getln(i, n) # << >> /\ sout_getln(i, n)[1] = "\n")
      BY <3>1, GetlnGives
    <3>3. QED
      BY <3>1, <3>2 DEF i
  <2> HIDE DEF r
  <2>4. p[k + 1] \in Terminal
    BY <1>9, <2>2, <2>3, PrintTerminal
  <2>5. ASSUME ClearBelow(t) PROVE BlankFrom(p[k + 1], At(p[k + 1]))
    <3>1. CASE k = 0
      <4>1. p[0] = t
        BY <1>6
      <4>2. QED
        BY <2>2, <2>3, <2>5, <3>1, <4>1, PrintBelow
    <3>2. CASE k > 0
      BY <1>9, <2>2, <2>3, <2>5, <3>2, PrintAtEnd
    <3>3. QED
      BY <3>1, <3>2
  <2>6. QED
    BY <2>1, <2>4, <2>5
<1> HIDE DEF S
<1>10. 0 .. last \subseteq S
  BY <1>8, <1>9, RangeInSet
<1>11. last \in S
  BY <1>10
<1>12. Good(last)
  BY <1>11 DEF S
<1>13. QED
  BY <1>7, <1>12
-----------------------------------------------------------------------------
(* Taking the line away: shell_reset *)

LEMMA ResetGives ==
  ASSUME term \in Terminal, Ready(term), reader.buf \in Seq(Printable)
  PROVE  /\ ResetTerm \in Terminal /\ Ready(ResetTerm)
         /\ \A a : Holds(term, reader.buf, a) =>
              Holds(ResetTerm, << >>, 0) /\ ~ResetOverflows
<1> DEFINE past == Limit(term) + Len(reader.buf)
           m == [c \in Cell |-> IF c \in Limit(term) .. past - 1 THEN Blank ELSE term.map[c]]
           t == [cursor_set(term, term.xl, term.yl) EXCEPT !.map = m]
<1>1. /\ term.xl \in 0 .. XLEN - 1 /\ term.yl \in 0 .. YLEN - 1 /\ term.map \in [Cell -> Char]
      /\ Len(reader.buf) \in Nat
  BY LenProperties DEF Terminal
<1>2. /\ Limit(term) \in 0 .. Area - 1 /\ At(term) \in 0 .. Area - 1 /\ Area \in Nat
      /\ Cell = 0 .. Area - 1 /\ Row(term.yl) \in Nat
  BY Places, Cells
<1>3. m \in [Cell -> Char]
  BY <1>1, Marks
<1>4. ResetTerm = IF reader.buf = << >> THEN term
                  ELSE IF Len(reader.buf) >= XLEN * YLEN THEN shell_newline(t) ELSE t
  <2>1. t = [cursor_set(term, term.xl, term.yl) EXCEPT
               !.map = [c \in Cell |-> IF c \in Limit(term) .. past - 1 THEN Blank ELSE @[c]]]
    BY DEF cursor_set
  <2>2. reader.buf = << >> => ~(Len(reader.buf) >= XLEN * YLEN)
    <3>1. Len(<< >>) = 0 /\ XLEN * YLEN = Area /\ Area >= XLEN /\ XLEN >= 2
      BY Cells, Sizes DEF Area
    <3>2. QED
      BY <1>2, <3>1, Sizes
  <2> HIDE DEF t
  <2>3. QED
    BY <2>1, <2>2 DEF ResetTerm
<1>5. /\ t \in Terminal /\ t.map = m /\ t.x = term.xl /\ t.y = term.yl
      /\ t.xl = term.xl /\ t.yl = term.yl
  BY <1>1, <1>3 DEF cursor_set, Terminal
<1>6. At(t) = Limit(t) /\ Limit(t) = Limit(term)
  BY <1>5 DEF At, Limit
<1>7. \A c \in Cell : m[c] = IF c \in Limit(term) .. past - 1 THEN Blank ELSE term.map[c]
  OBVIOUS
<1> HIDE DEF m, t, past
<1>8. Ready(t)
  <2>1. ASSUME NEW c \in Cell, Row(t.yl) <= c, c < At(t) PROVE t.map[c] # Blank
    <3>1. c \notin Limit(term) .. past - 1 /\ c < At(term) /\ Row(term.yl) <= c
      <4>1. c < Limit(term) /\ Limit(term) <= At(term)
        BY <1>6, <2>1 DEF Ready
      <4>2. QED
        BY <1>2, <1>5, <2>1, <4>1
    <3>2. QED
      BY <1>5, <1>7, <3>1 DEF Ready
  <2>2. Limit(t) <= At(t) /\ t.xl <= PROMPT
    BY <1>2, <1>5, <1>6 DEF Ready
  <2>3. QED
    BY <2>1, <2>2 DEF Ready
<1>9. shell_newline(t) \in Terminal /\ Ready(shell_newline(t))
  BY <1>5, NewlineGives
<1>10. ASSUME NEW a, Holds(term, reader.buf, a)
       PROVE  Holds(ResetTerm, << >>, 0) /\ ~ResetOverflows
  <2>1. past <= Area /\ BlankFrom(term, past) /\ a \in 0 .. Len(reader.buf)
    BY <1>10 DEF Holds, past
  <2>2. ~ResetOverflows
    <3>1. past \in Nat
      BY <1>1, <1>2 DEF past
    <3>2. ~(past > Area)
      BY <1>2, <2>1, <3>1
    <3>3. QED
      BY <3>2 DEF ResetOverflows, past, Area
  <2>3. CASE reader.buf = << >>
    <3>1. a = 0
      BY <2>1, <2>3
    <3>2. QED
      BY <1>4, <1>10, <2>2, <2>3, <3>1
  <2>4. CASE reader.buf # << >>
    <3>1. ASSUME NEW c \in Cell, c >= Limit(t) PROVE t.map[c] = Blank
      <4>1. past \in Nat /\ Limit(term) \in Nat /\ c \in Nat
        BY <1>1, <1>2 DEF past
      <4>2. c \in Limit(term) .. past - 1 \/ c >= past
        BY <1>6, <3>1, <4>1
      <4>3. c >= past => term.map[c] = Blank
        BY <2>1 DEF BlankFrom
      <4>4. QED
        BY <1>5, <1>7, <4>2, <4>3
    <3>2. BlankFrom(t, At(t))
      BY <1>6, <3>1 DEF BlankFrom
    <3>3. Holds(t, << >>, 0)
      <4>1. /\ << >> \in Seq(Mark) /\ Len(<< >>) = 0 /\ Limit(t) + 0 = Limit(t)
            /\ At(t) = Limit(t) + 0 /\ Limit(t) + 0 <= Area
        BY <1>2, <1>6
      <4>2. BlankFrom(t, Limit(t) + 0)
        BY <1>6, <3>2, <4>1
      <4>3. QED
        BY <4>1, <4>2 DEF Holds
    <3>4. Holds(shell_newline(t), << >>, 0)
      BY <1>5, <3>2, EndIsClear, NewlineGives
    <3>5. QED
      BY <1>4, <2>2, <2>4, <3>3, <3>4
  <2>5. QED
    BY <2>3, <2>4
<1>11. QED
  BY <1>4, <1>5, <1>8, <1>9, <1>10

-----------------------------------------------------------------------------
(* What stays true of the shell's own state *)

Lines == {l \in Seq(Printable) : Len(l) <= MAX_LINE}

\* The cursor may be anywhere, even before the line or after its end.
LineReader == [buf : Lines, cur : 0 .. WORD - 1, size : Nat]

\* The lines down to the one recalled are lines.
Recallable(h) == \A j \in 0 .. HISTORY - 1 : j <= h.idx => h.recents[j + 1] # << >>

Core ==
  /\ term \in Terminal /\ (pager = NoPage => Ready(term))
  /\ reader \in LineReader /\ reader.size >= INPUT_BUFFER_SIZE
  /\ LineFits
  /\ history \in [recents : [1 .. HISTORY -> Lines], idx : -1 .. HISTORY - 1]
  /\ Recallable(history)
  /\ pager \in [left : Nat, row : Nat] /\ (pager # NoPage => pager.left # 0)
  /\ lost \in BOOLEAN

LEMMA Bounds ==
  /\ WORD \in Nat /\ MAX_LINE \in Nat /\ WORD > MAX_LINE /\ WORD > Area /\ WORD > 2
  /\ << >> \in Lines /\ EmptyReader \in LineReader /\ EmptyReader.size = INPUT_BUFFER_SIZE
  /\ EmptyReader.buf = << >> /\ EmptyReader.cur = 0 /\ INPUT_BUFFER_SIZE > 0
  /\ NoPage \in [left : Nat, row : Nat]
<1>1. /\ WORD \in Nat /\ MAX_LINE \in Nat /\ WORD > 2 * MAX_LINE + Area
      /\ PAGE_ROW \in 0 .. YLEN - 1
  BY ShellAssumption DEF Area
<1>2. Area \in Nat /\ Area >= XLEN /\ XLEN \in Nat /\ XLEN >= 2
      /\ INPUT_BUFFER_SIZE \in Nat /\ INPUT_BUFFER_SIZE >= 2
  BY Cells, Sizes
<1>3. WORD > MAX_LINE /\ WORD > Area /\ WORD > 2
  BY <1>1, <1>2
<1>4. << >> \in Lines
  BY <1>1 DEF Lines
<1>5. EmptyReader \in LineReader
  BY <1>2, <1>3, <1>4, <1>1 DEF EmptyReader, LineReader
<1>6. NoPage \in [left : Nat, row : Nat]
  BY DEF NoPage
<1>7. QED
  BY <1>1, <1>2, <1>3, <1>4, <1>5, <1>6 DEF EmptyReader

LEMMA LinesPrint ==
  ASSUME NEW l \in Seq(Printable)
  PROVE  l \in Seq(Mark) /\ l \in Seq(Output) /\ Len(l) \in Nat
BY Marks, SeqMonotonic, LenProperties

\* What is typed at a cursor within the line.
LEMMA TypedLine ==
  ASSUME Core, ~lost, InLine(reader), NEW string \in Seq(Printable)
  PROVE  /\ typed_in(reader, string) \in Reader
         /\ Len(string) > 0 => Ends(typed_in(reader, string))
         /\ typed_in(reader, string).buf = Spliced(reader.buf, reader.cur, string)
         /\ typed_in(reader, string).cur = reader.cur + Len(string)
         /\ Len(typed_in(reader, string).buf) = Len(reader.buf) + Len(string)
<1>1. /\ reader.buf \in Seq(Printable) /\ reader.cur \in 0 .. WORD - 1 /\ reader.size \in Nat
      /\ reader \in [buf : Seq(Printable), cur : Nat, size : Nat]
  BY DEF Core, LineReader, Lines
<1>2. reader \in Reader
  <2>1. Len(reader.buf) <= reader.size
    BY <1>1, LenProperties DEF Core, LineFits
  <2>2. QED
    BY <1>1, <2>1 DEF Core, InLine, Reader
<1>3. QED
  BY <1>2, TypedGives

\* A key puts one character in the line, or the four of a tab.
LEMMA TabOrOne ==
  ASSUME NEW n, n = 1 \/ n = 4
  PROVE  n > 0
OBVIOUS

LEMMA TypeCore ==
  ASSUME Core, Bounded(keyboard_state.buffer), NEW key, NEW string \in Seq(Printable),
         \/ key \in Printable /\ Len(string) = 1
         \/ key = TAB_CHAR /\ Len(string) = 4,
         Type(key, string)
  PROVE  Core'
<1>0. Len(string) > 0
  <2>1. Len(string) = 1 \/ Len(string) = 4
    OBVIOUS
  <2>2. QED
    BY <2>1, TabOrOne, Zenon
<1>1. /\ ~lost /\ pager = NoPage /\ keyboard_state.buffer = key
      /\ history' = history /\ pager' = pager
  BY DEF Type, Edits, Takes
<1>2. Len(reader.buf) + Len(string) <= MAX_LINE
  <2>1. /\ key \in Printable => Len(reader.buf) < MAX_LINE
        /\ key = TAB_CHAR => Len(reader.buf) + 4 <= MAX_LINE
    BY <1>1 DEF Bounded
  <2>2. Len(reader.buf) \in Nat /\ MAX_LINE \in Nat
    BY Bounds, LenProperties DEF Core, LineReader, Lines
  <2>3. CASE key \in Printable /\ Len(string) = 1
    BY <2>1, <2>2, <2>3
  <2>4. CASE key = TAB_CHAR /\ Len(string) = 4
    BY <2>1, <2>2, <2>4
  <2>5. QED
    BY <2>3, <2>4
<1>3. CASE InLine(reader)
  <2> DEFINE r == typed_in(reader, string)
  <2>1. reader' = r /\ term' = print(term, string) /\ lost' = lost
    BY <1>3 DEF Type
  <2>2. r \in Reader /\ Ends(r) /\ Len(r.buf) = Len(reader.buf) + Len(string)
    <3>1. Len(string) > 0
      BY <1>0
    <3>2. QED
      BY <1>1, <1>3, <3>1, TypedLine
  <2> HIDE DEF r
  <2>3. /\ r.buf \in Seq(Printable) /\ Len(r.buf) <= MAX_LINE /\ r.cur \in Nat /\ r.size \in Nat
        /\ r.cur <= Len(r.buf) /\ Len(r.buf) < r.size /\ r.size >= INPUT_BUFFER_SIZE
        /\ Len(r.buf) \in Nat
        /\ r \in [buf : Seq(Printable), cur : Nat, size : Nat]
    BY <1>2, <2>2, LenProperties DEF Reader, Ends
  <2>4. r.cur \in 0 .. WORD - 1
    BY <2>3, Bounds
  <2>5. r \in LineReader
    BY <2>3, <2>4 DEF LineReader, Lines
  <2>6. term' \in Terminal /\ Ready(term')
    BY <1>1, <2>1, LinesPrint, PrintTerminal, ReadyPrint DEF Core
  <2>7. QED
    BY <1>1, <2>1, <2>3, <2>5, <2>6 DEF Core, LineFits, Recallable, NoPage
<1>4. CASE ~InLine(reader)
  <2>1. lost' = TRUE /\ reader' = reader /\ term' = term
    BY <1>4 DEF Type
  <2>2. QED
    BY <1>1, <2>1 DEF Core, LineFits, Recallable, NoPage, Ready, At, Limit, Row
<1>5. QED
  BY <1>3, <1>4

LEMMA MoveCore ==
  ASSUME Core, NEW key, NEW moved \in Terminal, NEW direction \in Int, Ready(moved),
         Move(key, moved, direction)
  PROVE  Core'
<1>1. /\ pager = NoPage /\ history' = history /\ pager' = pager /\ lost' = lost
      /\ term' = moved /\ reader' = IF moved = term THEN reader ELSE reader_move(reader, direction)
  BY DEF Move, Edits
<1>2. reader' \in LineReader /\ reader'.buf = reader.buf /\ reader'.size = reader.size
  <2>1. (reader.cur + direction) % WORD \in 0 .. WORD - 1
    <3>1. reader.cur + direction \in Int /\ WORD \in Nat /\ WORD > 0
      BY Bounds DEF Core, LineReader
    <3>2. QED
      BY <3>1
  <2>2. QED
    BY <1>1, <2>1 DEF reader_move, Core, LineReader
<1>3. QED
  BY <1>1, <1>2 DEF Core, LineFits, Recallable, NoPage

LEMMA LeftCore ==
  ASSUME Core, Move(LARROW_CHAR, MovedLeft(term), -1)
  PROVE  Core'
<1>1. term \in Terminal /\ Ready(term)
  BY DEF Core, Move, Edits
<1>2. MovedLeft(term) \in Terminal /\ Ready(MovedLeft(term))
  <2>1. CASE At(term) = Limit(term)
    <3>1. MovedLeft(term) = term
      BY <2>1 DEF MovedLeft
    <3>2. QED
      BY <1>1, <3>1
  <2>2. CASE At(term) # Limit(term)
    <3>1. /\ At(term) \in 0 .. Area - 1 /\ Limit(term) \in 0 .. Area - 1 /\ Cell = 0 .. Area - 1
          /\ Area \in Nat
      BY <1>1, Places, Cells
    <3>2. Limit(term) < At(term) /\ term.xl <= PROMPT
      BY <1>1, <2>2, <3>1 DEF Ready
    <3>3. \A c \in Cell : Row(term.yl) <= c /\ c < At(term) - 1 => term.map[c] # Blank
      <4>1. \A c \in Cell : c < At(term) - 1 => c < At(term)
        BY <3>1
      <4>2. QED
        BY <1>1, <4>1 DEF Ready
    <3>4. QED
      BY <1>1, <3>2, <3>3, MovedLeftGives
  <2>3. QED
    BY <2>1, <2>2
<1>3. -1 \in Int
  OBVIOUS
<1>4. QED
  BY <1>2, <1>3, MoveCore

LEMMA RightCore ==
  ASSUME Core, Move(RARROW_CHAR, MovedRight(term), 1)
  PROVE  Core'
<1>1. term \in Terminal /\ Ready(term)
  BY DEF Core, Move, Edits
<1>2. MovedRight(term) \in Terminal /\ Ready(MovedRight(term))
  BY <1>1, MovedRightGives
<1>3. QED
  BY <1>2, MoveCore

LEMMA BackspaceCore ==
  ASSUME Core, shell_backspace
  PROVE  Core'
<1>1. pager = NoPage /\ history' = history /\ pager' = pager /\ term \in Terminal /\ Ready(term)
      /\ ~lost
  BY DEF Core, shell_backspace, Edits, Takes
<1>2. CASE At(term) = Limit(term)
  <2>1. term' = term /\ reader' = reader /\ lost' = lost
    BY <1>2 DEF shell_backspace
  <2>2. QED
    BY <1>1, <2>1 DEF Core, LineFits, Recallable, NoPage
<1>3. CASE At(term) # Limit(term)
  <2>1. term' = MovedLeft(Deleted(term)) /\ reader' = Erased(reader) /\ lost' = RunsAway(reader)
    BY <1>3 DEF shell_backspace
  <2>2. term' \in Terminal /\ Ready(term')
    BY <1>1, <1>3, <2>1, BackGives
  <2> DEFINE b == IF reader.cur \in 1 .. Len(reader.buf) THEN RemoveAt(reader.buf, reader.cur)
                  ELSE IF reader.buf = << >> THEN reader.buf ELSE Front(reader.buf)
             c == IF reader.cur > 0 THEN reader.cur - 1 ELSE 0
  <2>3. /\ reader.buf \in Seq(Printable) /\ Len(reader.buf) \in Nat /\ Len(reader.buf) <= MAX_LINE
        /\ MAX_LINE \in Nat /\ reader.cur \in 0 .. WORD - 1 /\ reader.size \in Nat /\ WORD \in Nat
        /\ WORD > 0 /\ Len(reader.buf) <= reader.size /\ reader.size > 0
    <3>1. reader.size >= INPUT_BUFFER_SIZE /\ INPUT_BUFFER_SIZE \in Nat /\ INPUT_BUFFER_SIZE > 0
      BY Sizes, Bounds DEF Core
    <3>2. QED
      BY <1>1, <3>1, Bounds, LenProperties DEF Core, LineFits, LineReader, Lines
  <2>4. /\ b \in Seq(Printable) /\ Len(b) <= Len(reader.buf)
        /\ reader.buf # << >> => Len(b) < Len(reader.buf)
    <3>1. CASE reader.cur \in 1 .. Len(reader.buf)
      <4>1. b = Without(reader.buf, reader.cur)
        BY <2>3, <3>1, WithoutGives
      <4>2. QED
        BY <2>3, <3>1, <4>1, WithoutGives
    <3>2. CASE reader.cur \notin 1 .. Len(reader.buf) /\ reader.buf = << >>
      BY <2>3, <3>2
    <3>3. CASE reader.cur \notin 1 .. Len(reader.buf) /\ reader.buf # << >>
      <4>1. Len(reader.buf) \in 1 .. Len(reader.buf)
        BY <2>3, <3>3, EmptySeq
      <4>2. b = Without(reader.buf, Len(reader.buf))
        BY <2>3, <3>3, <4>1, WithoutGives
      <4>3. QED
        BY <2>3, <4>1, <4>2, WithoutGives
    <3>4. QED
      BY <3>1, <3>2, <3>3
  <2>5. c \in 0 .. WORD - 1
    BY <2>3
  <2>6. Erased(reader) = [reader EXCEPT !.buf = b, !.cur = c]
    BY DEF Erased
  <2> HIDE DEF b, c
  <2>7. /\ reader' \in LineReader /\ reader'.buf = b /\ reader'.size = reader.size
    <3>1. b \in Lines
      BY <2>3, <2>4, LenProperties DEF Lines
    <3>2. QED
      BY <2>1, <2>5, <2>6, <3>1 DEF Core, LineReader
  <2>8. Len(b) < reader.size
    <3>1. reader.buf = << >> => Len(reader.buf) = 0
      OBVIOUS
    <3>2. QED
      BY <2>3, <2>4, <3>1, LenProperties
  <2>9. lost' \in BOOLEAN
    BY <2>1 DEF RunsAway
  <2>10. QED
    BY <1>1, <2>2, <2>7, <2>8, <2>9 DEF Core, LineFits, Recallable, NoPage
<1>4. QED
  BY <1>2, <1>3

LEMMA CoreFacts ==
  ASSUME Core
  PROVE  /\ term \in Terminal
         /\ reader.buf \in Seq(Printable) /\ Len(reader.buf) \in Nat /\ Len(reader.buf) <= MAX_LINE
         /\ reader.cur \in 0 .. WORD - 1 /\ reader.size \in Nat
         /\ reader = [buf |-> reader.buf, cur |-> reader.cur, size |-> reader.size]
         /\ history.recents \in [1 .. HISTORY -> Lines] /\ history.idx \in -1 .. HISTORY - 1
         /\ history = [recents |-> history.recents, idx |-> history.idx]
BY LenProperties DEF Core, LineReader, Lines

LEMMA ResetReaderGives ==
  ASSUME Core
  PROVE  ResetReader \in LineReader /\ ResetReader.size >= INPUT_BUFFER_SIZE
         /\ Len(ResetReader.buf) < ResetReader.size
<1>1. CASE reader.buf = << >>
  <2>1. ResetReader = reader /\ Len(<< >>) = 0 /\ INPUT_BUFFER_SIZE \in Nat
    BY <1>1, Sizes DEF ResetReader
  <2>2. QED
    BY <1>1, <2>1, Bounds DEF Core, LineReader
<1>2. CASE reader.buf # << >>
  <2>1. ResetReader = EmptyReader /\ INPUT_BUFFER_SIZE \in Nat /\ Len(<< >>) = 0
    BY <1>2, Sizes DEF ResetReader
  <2>2. QED
    BY <2>1, Bounds
<1>3. QED
  BY <1>1, <1>2

LEMMA RecallCore ==
  ASSUME Core, NEW key, NEW direction \in {-1, 1}, Recall(key, direction)
  PROVE  /\ Core' /\ pager = NoPage
         /\ history.idx + direction \in 0 .. HISTORY - 1
         /\ history'.idx = history.idx + direction /\ history'.recents = history.recents
         /\ history.recents[history.idx + direction + 1] \in Lines \ {<< >>}
<1> DEFINE i == history.idx + direction
           string == history.recents[i + 1]
<1>1. /\ ~lost /\ pager = NoPage /\ pager' = pager /\ term \in Terminal /\ Ready(term)
      /\ history' = [history EXCEPT !.idx = i]
      /\ term' = print(ResetTerm, string)
      /\ reader' = [ResetReader EXCEPT !.buf = string]
      /\ lost' = (ResetOverflows \/ Len(string) > ResetReader.size)
      /\ \/ direction = 1 /\ history.idx < HISTORY - 1 /\ string # << >>
         \/ direction = -1 /\ history.idx > 0
  BY DEF Core, Recall, Edits, Takes
<1>2. /\ history.recents \in [1 .. HISTORY -> Lines] /\ history.idx \in -1 .. HISTORY - 1
      /\ history = [recents |-> history.recents, idx |-> history.idx]
      /\ HISTORY \in Nat /\ HISTORY >= 2 /\ Recallable(history)
  BY CoreFacts, Sizes DEF Core
<1>3. i \in 0 .. HISTORY - 1 /\ i + 1 \in 1 .. HISTORY
  BY <1>1, <1>2
<1>4. history'.idx = i /\ history'.recents = history.recents
      /\ history' \in [recents : [1 .. HISTORY -> Lines], idx : -1 .. HISTORY - 1]
  BY <1>1, <1>2, <1>3
<1>5. string \in Lines /\ string # << >>
  <2>1. CASE direction = 1
    BY <1>1, <1>2, <1>3, <2>1
  <2>2. CASE direction = -1
    <3>1. i <= history.idx
      BY <1>2, <2>2
    <3>2. QED
      BY <1>2, <1>3, <3>1 DEF Recallable
  <2>3. QED
    BY <2>1, <2>2
<1>6. ASSUME NEW j \in 0 .. HISTORY - 1, j <= i PROVE history.recents[j + 1] # << >>
  <2>1. j = i \/ j <= history.idx
    BY <1>1, <1>2, <1>6
  <2>2. QED
    BY <1>2, <1>5, <2>1 DEF Recallable
<1>7. Recallable(history')
  BY <1>4, <1>6 DEF Recallable
<1> HIDE DEF i
<1>8. string \in Seq(Printable) /\ string \in Seq(Mark) /\ string \in Seq(Output) /\ Len(string) \in Nat
  BY <1>5, LinesPrint DEF Lines
<1> HIDE DEF string
<1>9. term' \in Terminal /\ Ready(term')
  <2>1. reader.buf \in Seq(Printable)
    BY CoreFacts
  <2>2. ResetTerm \in Terminal /\ Ready(ResetTerm)
    BY <1>1, <2>1, ResetGives
  <2>3. QED
    BY <1>1, <1>8, <2>2, PrintTerminal, ReadyPrint
<1>10. ResetReader \in LineReader /\ ResetReader.size >= INPUT_BUFFER_SIZE
  BY ResetReaderGives
<1>11. reader' \in LineReader /\ reader'.buf = string /\ reader'.size = ResetReader.size
  BY <1>1, <1>5, <1>10 DEF LineReader
<1>12. LineFits'
  <2>1. ResetReader.size \in Nat
    BY <1>10 DEF LineReader
  <2>2. lost' \/ ~(Len(string) > ResetReader.size)
    BY <1>1
  <2>3. lost' \/ Len(string) < ResetReader.size \/ Len(string) = ResetReader.size
    BY <1>8, <2>1, <2>2
  <2>4. i \in 0 .. HISTORY - 1 => i >= 0
    BY <1>2
  <2>5. history'.idx >= 0 /\ reader'.buf = history'.recents[history'.idx + 1]
    BY <1>3, <1>4, <1>11, <2>4 DEF string
  <2>6. QED
    BY <1>11, <2>3, <2>5 DEF LineFits
<1>13. lost' \in BOOLEAN
  BY <1>1 DEF ResetOverflows
<1>14. Core'
  BY <1>1, <1>4, <1>7, <1>9, <1>10, <1>11, <1>12, <1>13 DEF Core, NoPage
<1>15. QED
  BY <1>1, <1>3, <1>4, <1>5, <1>14 DEF i, string

LEMMA DismissCore ==
  ASSUME Core, Dismiss
  PROVE  Core'
<1>1. /\ ~lost /\ pager = NoPage /\ pager' = pager /\ term \in Terminal /\ Ready(term)
      /\ history' = [history EXCEPT !.idx = -1] /\ term' = ResetTerm
      /\ reader' = ResetReader /\ lost' = ResetOverflows
  BY DEF Core, Dismiss, Edits, Takes
<1>2. HISTORY \in Nat /\ HISTORY >= 2
  BY Sizes
<1>3. /\ history' \in [recents : [1 .. HISTORY -> Lines], idx : -1 .. HISTORY - 1]
      /\ history'.idx = -1
  BY SMTT(30), <1>1, <1>2, CoreFacts
<1>4. Recallable(history')
  BY <1>3 DEF Recallable
<1>5. term' \in Terminal /\ Ready(term')
  BY <1>1, CoreFacts, ResetGives
<1>6. reader' \in LineReader /\ reader'.size >= INPUT_BUFFER_SIZE
      /\ Len(reader'.buf) < reader'.size
  BY <1>1, ResetReaderGives
<1>7. lost' \in BOOLEAN
  BY <1>1 DEF ResetOverflows
<1>8. QED
  BY <1>1, <1>3, <1>4, <1>5, <1>6, <1>7 DEF Core, LineFits, NoPage

LEMMA UnchangedCore ==
  ASSUME Core, UNCHANGED <<term, reader, history, pager, lost>>
  PROVE  Core'
BY DEF Core, LineFits, Recallable, NoPage

\* The line is kept, and none is recalled.
LEMMA SavedGives ==
  ASSUME Core, history' = recent_saved
  PROVE  /\ history' \in [recents : [1 .. HISTORY -> Lines], idx : -1 .. HISTORY - 1]
         /\ Recallable(history') /\ history'.idx = -1
         /\ history'.recents = <<reader.buf>> \o Front(history.recents)
<1> DEFINE h == history.recents
           f == Front(h)
           e == <<reader.buf>>
<1>1. /\ h \in [1 .. HISTORY -> Lines] /\ HISTORY \in Nat /\ HISTORY >= 2
      /\ reader.buf \in Lines
  BY CoreFacts, Sizes DEF Core, LineReader
<1>2. h \in Seq(Lines) /\ Len(h) = HISTORY
  BY <1>1
<1>3. e \in Seq(Lines) /\ Len(e) = 1
  BY <1>1
<1>4. recent_saved = [recents |-> e \o f, idx |-> -1]
  BY DEF recent_saved
<1> HIDE DEF h, e
<1>5. f \in Seq(Lines) /\ Len(f) = HISTORY - 1
  <2>1. f = [k \in 1 .. HISTORY - 1 |-> h[k]]
    BY <1>1, <1>2, FrontGives DEF Front
  <2>2. HISTORY - 1 \in Nat /\ \A k \in 1 .. HISTORY - 1 : h[k] \in Lines
    BY <1>1
  <2> HIDE DEF f
  <2>3. QED
    BY <2>1, <2>2
<1> HIDE DEF f
<1>6. e \o f \in Seq(Lines) /\ Len(e \o f) = HISTORY
  BY SMTT(30), <1>1, <1>3, <1>5, ConcatProperties
<1>7. e \o f \in [1 .. HISTORY -> Lines]
  BY <1>6, LenProperties
<1>8. -1 \in -1 .. HISTORY - 1
  BY <1>1
<1>9. Recallable(history')
  BY <1>4 DEF Recallable
<1>10. QED
  BY <1>4, <1>7, <1>8, <1>9 DEF e, f, h

\* The prompt after a command.
LEMMA PromptsCore ==
  ASSUME Core, NEW t \in Terminal, Prompts(t), lost' \in BOOLEAN,
         history' = recent_saved \/ history' = history
  PROVE  Core'
<1>1. /\ term' = shell_newline(t) /\ reader' = EmptyReader /\ pager' = NoPage
  BY DEF Prompts
<1>2. term' \in Terminal /\ Ready(term')
  BY <1>1, NewlineGives
<1>3. /\ history' \in [recents : [1 .. HISTORY -> Lines], idx : -1 .. HISTORY - 1]
      /\ Recallable(history')
  <2>1. CASE history' = recent_saved
    BY <2>1, SavedGives
  <2>2. CASE history' = history
    BY <2>2 DEF Core, Recallable
  <2>3. QED
    BY <2>1, <2>2
<1>4. /\ reader' \in LineReader /\ reader'.size = INPUT_BUFFER_SIZE /\ reader'.buf = << >>
      /\ INPUT_BUFFER_SIZE \in Nat /\ INPUT_BUFFER_SIZE > 0 /\ Len(<< >>) = 0
  BY <1>1, Bounds, Sizes
<1>5. pager' \in [left : Nat, row : Nat]
  BY <1>1, Bounds
<1>6. QED
  BY <1>1, <1>2, <1>3, <1>4, <1>5 DEF Core, LineFits, NoPage

\* What a command prints.
LEMMA OutputGives ==
  ASSUME NEW t \in Terminal, NEW output \in Outputs \cup {<< >>}
  PROVE  /\ print(t, output) \in Terminal
         /\ ClearBelow(t) => ClearBelow(print(t, output))
<1>1. CASE output = << >>
  <2>1. print(t, output) = t
    <3>1. << >> \in Seq(Output) /\ Len(<< >>) = 0
      OBVIOUS
    <3>2. PICK p : Prints(t, << >>, p)
      BY <3>1, Printing
    <3>3. QED
      BY <1>1, <3>1, <3>2 DEF Prints
  <2>2. QED
    BY <2>1
<1>2. CASE output \in Outputs /\ output # << >>
  <2>1. output \in Seq({Ink, "\n"}) /\ Head(output) = "\n"
    BY <1>2, OutputAssumption
  <2>2. output \in Seq(Output)
    BY <2>1, Marks, SeqMonotonic
  <2>3. output[1] = "\n"
    BY <2>1
  <2>4. print(t, output) \in Terminal
    BY <2>2, PrintTerminal
  <2>5. ClearBelow(t) => BlankFrom(print(t, output), At(print(t, output)))
    BY <1>2, <2>2, <2>3, PrintBelow
  <2>6. QED
    BY <2>4, <2>5, EndIsClear
<1>3. QED
  BY <1>1, <1>2

LEMMA RunCore ==
  ASSUME Core, Run
  PROVE  Core'
<1>1. lost' \in BOOLEAN /\ history' = recent_saved
  BY DEF Run, Saves
<1>2. PICK output \in Outputs \cup {<< >>} : Prompts(print(term, output))
  BY DEF Run
<1>3. print(term, output) \in Terminal
  BY CoreFacts, OutputGives
<1>4. QED
  BY <1>1, <1>2, <1>3, PromptsCore

LEMMA ClearGives ==
  ASSUME NEW t \in Terminal
  PROVE  shell_clear(t) \in Terminal /\ ClearBelow(shell_clear(t))
<1> DEFINE m == [c \in Cell |-> Blank]
<1>1. m \in [Cell -> Char] /\ 0 \in 0 .. XLEN - 1 /\ 0 \in 0 .. YLEN - 1
  BY Marks, Sizes
<1>2. shell_clear(t) = [t EXCEPT !.x = 0, !.y = 0, !.map = m]
  BY DEF shell_clear, cursor_set
<1>3. \A c \in Cell : m[c] = Blank
  OBVIOUS
<1> HIDE DEF m
<1>4. shell_clear(t) \in Terminal /\ shell_clear(t).map = m
  BY <1>1, <1>2 DEF Terminal
<1>5. QED
  BY <1>3, <1>4 DEF ClearBelow, BlankFrom

LEMMA RunClearCore ==
  ASSUME Core, RunClear
  PROVE  Core'
<1>1. lost' \in BOOLEAN /\ history' = recent_saved /\ Prompts(shell_clear(term))
  BY DEF RunClear, Saves
<1>2. QED
  BY <1>1, CoreFacts, ClearGives, PromptsCore

LEMMA PageGives ==
  ASSUME NEW y \in 0 .. YLEN - 1
  PROVE  Page(y) \in Nat /\ Page(y) >= 1 /\ RowOfText(y, 1 + Page(y)) \in Nat
<1>1. PAGE_ROW \in 0 .. YLEN - 1 /\ YLEN \in Nat /\ YLEN >= 2
  BY ShellAssumption, Sizes
<1>2. QED
  BY <1>1 DEF Page, RowOfText

LEMMA RunListingCore ==
  ASSUME Core, NEW n \in Listings, RunListing(n)
  PROVE  Core'
<1>1. /\ lost' = (Len(reader.buf) >= reader.size) /\ history' = recent_saved
      /\ term \in Terminal
  BY DEF RunListing, Saves, Core
<1>2. n \in Nat /\ n >= 1
  <2>1. \A k \in Nat \ {0} : k \in Nat /\ k >= 1
    OBVIOUS
  <2>2. QED
    BY <2>1, ShellAssumption
<1>3. /\ Page(term.y) \in Nat /\ Page(term.y) >= 1
      /\ RowOfText(term.y, 1 + Page(term.y)) \in Nat
  BY <1>1, PageGives DEF Terminal
<1>4. CASE n <= 1 + Page(term.y)
  <2>1. Prompts(print_lines(term, n, n))
    BY <1>4 DEF RunListing
  <2>2. print_lines(term, n, n) \in Terminal
    BY <1>1, <1>2, ListingGives
  <2>3. QED
    BY <1>1, <2>1, <2>2, PromptsCore
<1>5. CASE ~(n <= 1 + Page(term.y))
  <2>1. /\ term' = print_lines(term, 1 + Page(term.y), n)
        /\ pager' = [left |-> n - 1 - Page(term.y), row |-> RowOfText(term.y, 1 + Page(term.y))]
        /\ reader' = reader
    BY <1>5 DEF RunListing
  <2>2. n - 1 - Page(term.y) \in Nat /\ n - 1 - Page(term.y) # 0
    BY <1>2, <1>3, <1>5
  <2>3. pager' \in [left : Nat, row : Nat] /\ pager'.left # 0 /\ pager' # NoPage
    BY <1>3, <2>1, <2>2 DEF NoPage
  <2>4. term' \in Terminal
    <3>1. 1 + Page(term.y) \in Nat /\ 1 + Page(term.y) >= 1
      BY <1>3
    <3>2. QED
      BY <1>1, <1>2, <2>1, <3>1, ListingGives
  <2>5. /\ history' \in [recents : [1 .. HISTORY -> Lines], idx : -1 .. HISTORY - 1]
        /\ Recallable(history')
    BY <1>1, SavedGives
  <2>6. LineFits' /\ lost' \in BOOLEAN
    <3>1. Len(reader.buf) \in Nat /\ reader.size \in Nat
      BY CoreFacts
    <3>2. Len(reader.buf) >= reader.size \/ Len(reader.buf) < reader.size
      BY <3>1
    <3>3. lost' = (Len(reader.buf) >= reader.size) /\ lost' \in BOOLEAN
      BY <1>1
    <3>4. CASE Len(reader.buf) >= reader.size
      BY <3>3, <3>4 DEF LineFits
    <3>5. CASE Len(reader.buf) < reader.size
      <4>1. Len(reader'.buf) < reader'.size
        BY <2>1, <3>5
      <4>2. QED
        BY <3>3, <4>1, Zenon DEF LineFits
    <3>6. QED
      BY <3>2, <3>4, <3>5
  <2>7. QED
    BY <2>1, <2>3, <2>4, <2>5, <2>6 DEF Core, NoPage
<1>6. QED
  BY <1>4, <1>5

LEMMA QuitCore ==
  ASSUME Core, Quit
  PROVE  Core'
<1>1. lost' \in BOOLEAN /\ history' = history /\ Prompts(term)
  BY DEF Quit, Core
<1>2. QED
  BY <1>1, CoreFacts, PromptsCore

\* A line of a listing, and its last one.
LEMMA PrintlnGives ==
  ASSUME NEW t \in Terminal, NEW r \in {<<Ink>>, <<Ink, "\n">>}
  PROVE  /\ print(t, r) \in Terminal
         /\ BlankFrom(t, At(t)) => BlankFrom(print(t, r), At(print(t, r)))
<1>1. Ink \in Output /\ "\n" \in Output
  BY Marks
<1>2. <<Ink>> \in Seq(Output) /\ <<Ink, "\n">> \in Seq(Output)
  BY <1>1
<1>3. r \in Seq(Output)
  BY <1>2
<1>4. QED
  BY <1>3, PrintTerminal, PrintAtEnd

LEMMA NextLineCore ==
  ASSUME Core, NEW key, NextLine(key)
  PROVE  Core'
<1>1. history' = history /\ pager # NoPage /\ lost' = lost /\ lost' \in BOOLEAN
  BY DEF NextLine, Core
<1>2. CASE pager.left = 1
  <2>1. Prompts(print(term, <<Ink>>))
    BY <1>2 DEF NextLine
  <2>2. print(term, <<Ink>>) \in Terminal
    BY CoreFacts, PrintlnGives
  <2>3. QED
    BY <1>1, <2>1, <2>2, PromptsCore
<1>3. CASE pager.left # 1
  <2>1. /\ term' = print(term, <<Ink, "\n">>) /\ pager' = [left |-> pager.left - 1, row |-> 0]
        /\ reader' = reader
    BY <1>3 DEF NextLine
  <2>2. pager.left - 1 \in Nat /\ pager.left - 1 # 0
    BY <1>1, <1>3 DEF Core
  <2>3. pager' \in [left : Nat, row : Nat] /\ pager'.left # 0 /\ pager' # NoPage
    BY <2>1, <2>2 DEF NoPage
  <2>4. term' \in Terminal
    BY <2>1, CoreFacts, PrintlnGives
  <2>5. QED
    BY <1>1, <2>1, <2>3, <2>4 DEF Core, LineFits, Recallable, NoPage
<1>4. QED
  BY <1>2, <1>3
-----------------------------------------------------------------------------
(* The inductive invariant *)

Kept ==
  {NULL_CHAR, "1", "!", "a", "A", " ", "\n", ESC_CHAR, BACKSPACE_CHAR, TAB_CHAR,
   UARROW_CHAR, LARROW_CHAR, RARROW_CHAR, DARROW_CHAR}

Keeps(k) == k \in [buffer : Kept, caps : {0, 1}, shift : {0, 1}, on : BOOLEAN]

ShellInv ==
  /\ Core
  /\ Keeps(keyboard_state) /\ Bounded(keyboard_state.buffer)
  /\ promise = Promise
  /\ unread \in BOOLEAN /\ (keyboard_state.buffer # NULL_CHAR => unread)

LEMMA IsrKeeps ==
  ASSUME NEW k, Keeps(k), NEW code \in 0 .. 255
  PROVE  Keeps(keyboard_process_input(k, code))
<1> USE DEF Keeps
<1>1. \A c \in DOMAIN Special : Special[c] \in Kept
  BY DEF Kept, Special, ESC_CHAR, BACKSPACE_CHAR, TAB_CHAR, UARROW_CHAR, LARROW_CHAR, RARROW_CHAR, DARROW_CHAR
<1>2. code < 64 => code \in 0 .. 63
  OBVIOUS
<1>3. code < 64 => scantable[code] \in Kept
  BY <1>2 DEF scantable, Kept
<1>4. code < 64 => scantableCaps[code] \in Kept
  BY <1>2 DEF scantableCaps, Kept
<1>5. code < 64 => Printed(k, code) \in Kept
  BY <1>3, <1>4 DEF Printed
<1> DEFINE C1 == code = 58
           C2 == code \in {42, 54}
           C3 == code \in {170, 182}
           C4 == code \in DOMAIN Special
           r == keyboard_process_input(k, code)
<1>6. /\ C1 => ~C2 /\ ~C3 /\ ~C4
      /\ C2 => ~C3 /\ ~C4
      /\ C3 => ~C4
  BY DEF Special
<1>7. \/ C1 /\ r = [k EXCEPT !.caps = 1 - @]
      \/ C2 /\ r = [k EXCEPT !.shift = 1]
      \/ C3 /\ r = [k EXCEPT !.shift = 0]
      \/ C4 /\ r = [k EXCEPT !.buffer = Special[code]]
      \/ code < 64 /\ r = [k EXCEPT !.buffer = Printed(k, code)]
      \/ r = k
  <2> HIDE DEF C4
  <2>1. CASE C1
    BY <1>6, <2>1 DEF keyboard_process_input, C4
  <2>2. CASE C2
    BY <1>6, <2>2 DEF keyboard_process_input, C4
  <2>3. CASE C3
    BY <1>6, <2>3 DEF keyboard_process_input, C4
  <2>4. CASE C4
    BY <1>6, <2>4 DEF keyboard_process_input, C4
  <2>5. CASE ~C1 /\ ~C2 /\ ~C3 /\ ~C4
    BY <2>5 DEF keyboard_process_input, C4
  <2>6. QED
    BY <2>1, <2>2, <2>3, <2>4, <2>5
<1>8. k.caps \in {0, 1} => 1 - k.caps \in {0, 1}
  OBVIOUS
<1> HIDE DEF r
<1>9. QED
  BY <1>1, <1>5, <1>7, <1>8 DEF r

LEMMA HandleCore ==
  ASSUME Core, Bounded(keyboard_state.buffer), Handle
  PROVE  Core' /\ keyboard_state' = keyboard_flush_buffer(keyboard_state)
<1>1. CASE \E key \in Printable : Type(key, <<key>>)
  <2>1. PICK key \in Printable : Type(key, <<key>>)
    BY <1>1
  <2>2. <<key>> \in Seq(Printable) /\ Len(<<key>>) = 1
    OBVIOUS
  <2>3. Core'
    BY <2>1, <2>2, TypeCore
  <2>4. QED
    BY <2>1, <2>3 DEF Type, Edits, Takes
<1>2. CASE Type(TAB_CHAR, <<" ", " ", " ", " ">>)
  <2>1. <<" ", " ", " ", " ">> \in Seq(Printable) /\ Len(<<" ", " ", " ", " ">>) = 4
    BY DEF Printable
  <2>2. Core'
    BY <1>2, <2>1, TypeCore
  <2>3. QED
    BY <1>2, <2>2 DEF Type, Edits, Takes
<1>3. CASE Move(LARROW_CHAR, MovedLeft(term), -1)
  BY <1>3, LeftCore DEF Move, Edits, Takes
<1>4. CASE Move(RARROW_CHAR, MovedRight(term), 1)
  BY <1>4, RightCore DEF Move, Edits, Takes
<1>5. CASE shell_backspace
  BY <1>5, BackspaceCore DEF shell_backspace, Edits, Takes
<1>6. CASE Recall(UARROW_CHAR, 1)
  <2>1. Core'
    BY <1>6, RecallCore
  <2>2. QED
    BY <1>6, <2>1 DEF Recall, Edits, Takes
<1>7. CASE Recall(DARROW_CHAR, -1)
  <2>1. Core'
    BY <1>7, RecallCore
  <2>2. QED
    BY <1>7, <2>1 DEF Recall, Edits, Takes
<1>8. CASE Dismiss
  BY <1>8, DismissCore DEF Dismiss, Edits, Takes
<1>9. CASE \E key \in Keys : Ignored(key)
  BY <1>9, UnchangedCore DEF Ignored, Edits, Takes
<1>10. CASE Run
  BY <1>10, RunCore DEF Run, Saves, Edits, Takes
<1>11. CASE RunClear
  BY <1>11, RunClearCore DEF RunClear, Saves, Edits, Takes
<1>12. CASE \E n \in Listings : RunListing(n)
  BY <1>12, RunListingCore DEF RunListing, Saves, Edits, Takes
<1>13. CASE Quit
  BY <1>13, QuitCore DEF Quit, Takes
<1>14. CASE \E key \in Keys : NextLine(key)
  BY <1>14, NextLineCore DEF NextLine, Takes
<1>15. QED
  BY <1>1, <1>2, <1>3, <1>4, <1>5, <1>6, <1>7, <1>8, <1>9, <1>10, <1>11, <1>12, <1>13, <1>14
     DEF Handle

LEMMA FlushKept ==
  ASSUME Keeps(keyboard_state), keyboard_state' = keyboard_flush_buffer(keyboard_state)
  PROVE  Keeps(keyboard_state)' /\ keyboard_state'.buffer = NULL_CHAR
BY DEF Keeps, Kept, keyboard_flush_buffer

\* No bound is on the absence of a key.
LEMMA NullBounded ==
  ASSUME keyboard_state'.buffer = NULL_CHAR
  PROVE  Bounded(keyboard_state.buffer)'
<1>1. NULL_CHAR \notin Printable /\ NULL_CHAR # TAB_CHAR /\ NULL_CHAR # "\n"
  BY DEF NULL_CHAR, TAB_CHAR, Printable
<1>2. QED
  BY <1>1 DEF Bounded

LEMMA ShellInvInit ==
  ASSUME MCInit
  PROVE  ShellInv
<1>1. /\ ShellInit /\ promise = Promise /\ unread = FALSE
  BY DEF MCInit
<1>2. /\ keyboard_state = [buffer |-> NULL_CHAR, caps |-> 0, shift |-> 0, on |-> TRUE]
      /\ term = shell_newline(BlankScreen) /\ reader = EmptyReader
      /\ history = [recents |-> [i \in 1 .. HISTORY |-> << >>], idx |-> -1]
      /\ pager = NoPage /\ lost = FALSE
  BY <1>1 DEF ShellInit, KeyboardInit
<1>3. BlankScreen \in Terminal
  <2>1. 0 \in 0 .. XLEN - 1 /\ 0 \in 0 .. YLEN - 1 /\ Blank \in Char
    BY Sizes, Marks
  <2>2. QED
    BY <2>1 DEF BlankScreen, Terminal
<1>4. term \in Terminal /\ Ready(term)
  BY <1>2, <1>3, NewlineGives
<1>5. /\ history \in [recents : [1 .. HISTORY -> Lines], idx : -1 .. HISTORY - 1]
      /\ Recallable(history)
  <2>1. -1 \in -1 .. HISTORY - 1
    BY Sizes
  <2>2. QED
    BY <1>2, <2>1, Bounds DEF Recallable
<1>6. /\ reader \in LineReader /\ reader.size >= INPUT_BUFFER_SIZE
      /\ Len(reader.buf) < reader.size
  <2>1. INPUT_BUFFER_SIZE \in Nat /\ Len(<< >>) = 0
    BY Sizes
  <2>2. QED
    BY <1>2, <2>1, Bounds
<1>7. Core
  BY <1>2, <1>4, <1>5, <1>6, Bounds DEF Core, LineFits
<1>8. Keeps(keyboard_state)
  BY <1>2 DEF Keeps, Kept
<1>9. Bounded(keyboard_state.buffer)
  <2>1. NULL_CHAR \notin Printable /\ NULL_CHAR # TAB_CHAR /\ NULL_CHAR # "\n"
    BY DEF NULL_CHAR, TAB_CHAR, Printable
  <2>2. QED
    BY <1>2, <2>1 DEF Bounded
<1>10. QED
  BY <1>1, <1>2, <1>7, <1>8, <1>9 DEF ShellInv

LEMMA PromiseStays ==
  ASSUME UNCHANGED <<term, reader, history, pager, lost>>
  PROVE  Promise' = Promise
BY DEF Promise, Agreement, Shown, BlankFrom, Limit, At

LEMMA PressInv ==
  ASSUME ShellInv, MCPress
  PROVE  ShellInv'
<1>1. /\ UNCHANGED <<term, reader, history, pager, lost>> /\ promise' = promise
      /\ unread' = (unread \/ keyboard_state'.buffer # keyboard_state.buffer)
      /\ Bounded(keyboard_state'.buffer)
  BY DEF MCPress, Press
<1>2. Keeps(keyboard_state)'
  <2>1. PICK code \in Codes : keyboard_isr(code)
    BY DEF MCPress, Press
  <2>2. code \in 0 .. 255
    BY ShellAssumption
  <2>3. Keeps(keyboard_state) /\ Keeps(keyboard_process_input(keyboard_state, code))
    BY <2>2, IsrKeeps DEF ShellInv
  <2>4. keyboard_state' = keyboard_state \/ keyboard_state' = keyboard_process_input(keyboard_state, code)
    BY <2>1 DEF keyboard_isr
  <2>5. QED
    BY <2>3, <2>4 DEF Keeps
<1>3. Core' /\ Promise' = Promise
  BY <1>1, UnchangedCore, PromiseStays DEF ShellInv
<1>4. Bounded(keyboard_state.buffer)'
  BY <1>1 DEF Bounded
<1>5. unread' \in BOOLEAN /\ (keyboard_state'.buffer # NULL_CHAR => unread')
  BY <1>1 DEF ShellInv
<1>6. QED
  BY <1>1, <1>2, <1>3, <1>4, <1>5 DEF ShellInv

LEMMA HandleInv ==
  ASSUME ShellInv, MCHandle
  PROVE  ShellInv'
<1>1. Handle /\ unread' = FALSE /\ promise' = Promise'
  BY DEF MCHandle
<1>2. Core' /\ keyboard_state' = keyboard_flush_buffer(keyboard_state)
  BY <1>1, HandleCore DEF ShellInv
<1>3. Keeps(keyboard_state)' /\ keyboard_state'.buffer = NULL_CHAR
  BY <1>2, FlushKept DEF ShellInv
<1>4. QED
  BY <1>1, <1>2, <1>3, NullBounded DEF ShellInv

LEMMA InterceptInv ==
  ASSUME ShellInv, MCIntercept
  PROVE  ShellInv'
<1>1. /\ UNCHANGED <<term, reader, history, pager, lost>> /\ promise' = promise
      /\ unread' = FALSE /\ keyboard_state' = keyboard_flush_buffer(keyboard_state)
  BY DEF MCIntercept, Intercept
<1>2. Keeps(keyboard_state)' /\ keyboard_state'.buffer = NULL_CHAR
  BY <1>1, FlushKept DEF ShellInv
<1>3. Core' /\ Promise' = Promise
  BY <1>1, UnchangedCore, PromiseStays DEF ShellInv
<1>4. QED
  BY <1>1, <1>2, <1>3, NullBounded DEF ShellInv

LEMMA StutterInv ==
  ASSUME ShellInv, UNCHANGED <<shellVars, promise, unread>>
  PROVE  ShellInv'
<1>1. /\ UNCHANGED <<term, reader, history, pager, lost>> /\ promise' = promise
      /\ unread' = unread /\ keyboard_state' = keyboard_state
  BY DEF shellVars
<1>2. Core' /\ Promise' = Promise
  BY <1>1, UnchangedCore, PromiseStays DEF ShellInv
<1>3. Bounded(keyboard_state.buffer)' /\ Keeps(keyboard_state)'
  BY <1>1 DEF ShellInv, Bounded, Keeps
<1>4. QED
  BY <1>1, <1>2, <1>3 DEF ShellInv

LEMMA ShellInvStep ==
  ASSUME ShellInv, [MCNext]_<<shellVars, promise, unread>>
  PROVE  ShellInv'
BY PressInv, HandleInv, InterceptInv, StutterInv DEF MCNext

\* What stands on the window, what is being edited, kept and still to be
\* printed fit together as ShellInv says, whatever keys come when.
THEOREM ShellAlwaysSound == MCSpec => []ShellInv
<1>1. MCInit => ShellInv
  BY ShellInvInit
<1>2. ShellInv /\ [MCNext]_<<shellVars, promise, unread>> => ShellInv'
  BY ShellInvStep
<1>3. QED
  BY <1>1, <1>2, PTL DEF MCSpec

\* The window, the line, the history and the keyboard stay within their types:
\* no cell and no entry outside of them is ever read or written.
THEOREM ShellAlwaysTyped == MCSpec => []ShellTypeOK
<1>1. ASSUME ShellInv PROVE ShellTypeOK
  <2>1. /\ term \in Terminal /\ reader.buf \in Seq(Printable) /\ reader.cur \in 0 .. WORD - 1
        /\ history.idx \in -1 .. HISTORY - 1
    BY <1>1, CoreFacts DEF ShellInv
  <2>2. keyboard_state.caps \in {0, 1} /\ keyboard_state.shift \in {0, 1}
    BY <1>1 DEF ShellInv, Keeps
  <2>3. Char = Printable \cup {Blank, Ink}
    BY DEF Char
  <2>4. QED
    BY <2>1, <2>2, <2>3 DEF ShellTypeOK, Terminal
<1>2. QED
  BY <1>1, ShellAlwaysSound, PTL

\* The buffer always has a place for the 0 that Enter puts after the line
\* (reader_insert grows it in time, reader_clear shrinks it back), unless the
\* line is a recalled one that fills it.
THEOREM LineAlwaysFits == MCSpec => []LineFits
<1>1. ShellInv => LineFits
  BY DEF ShellInv, Core
<1>2. QED
  BY <1>1, ShellAlwaysSound, PTL

\* sout_printall_ws never scrolls the first text of a listing off the window
\* before it waits for a key.
THEOREM PageAlwaysOnScreen == MCSpec => []PageOnScreen
<1>1. ShellInv => PageOnScreen
  BY DEF ShellInv, Core, PageOnScreen
<1>2. QED
  BY <1>1, ShellAlwaysSound, PTL

\* The shell acts only on a key that was pressed since a program last took one:
\* reading the buffer flushes it.
THEOREM KeysActOnce == MCSpec => ActedOnOnce
<1>1. ASSUME ShellInv, [MCNext]_<<shellVars, promise, unread>>
      PROVE  UNCHANGED <<term, reader, history, pager, lost>> \/ unread
  <2>1. CASE MCPress \/ MCIntercept \/ UNCHANGED <<shellVars, promise, unread>>
    BY <2>1 DEF MCPress, Press, MCIntercept, Intercept, shellVars
  <2>2. CASE MCHandle
    <3>1. Handle
      BY <2>2 DEF MCHandle
    <3>2. \E key \in Printable \cup Keys \cup {TAB_CHAR, LARROW_CHAR, RARROW_CHAR, BACKSPACE_CHAR,
              UARROW_CHAR, DARROW_CHAR, ESC_CHAR, "\n"} : keyboard_state.buffer = key
      BY <3>1 DEF Handle, Type, Move, shell_backspace, Recall, Dismiss, Ignored, Run, RunClear,
                  RunListing, Quit, NextLine, Saves, Edits, Takes
    <3>3. \A key \in Printable \cup Keys \cup {TAB_CHAR, LARROW_CHAR, RARROW_CHAR, BACKSPACE_CHAR,
              UARROW_CHAR, DARROW_CHAR, ESC_CHAR, "\n"} : key # NULL_CHAR
      <4>1. scantable[28] # NULL_CHAR
        BY DEF scantable, NULL_CHAR
      <4>2. \A code \in DOMAIN Special : Special[code] # NULL_CHAR
        BY DEF Special, ESC_CHAR, BACKSPACE_CHAR, TAB_CHAR, UARROW_CHAR, LARROW_CHAR,
               RARROW_CHAR, DARROW_CHAR, NULL_CHAR
      <4>3. \A key \in Keys : key # NULL_CHAR
        BY <4>1, <4>2 DEF Keys, Printable, NULL_CHAR
      <4>4. QED
        BY <4>3 DEF Printable, NULL_CHAR, ESC_CHAR, BACKSPACE_CHAR, TAB_CHAR, UARROW_CHAR,
                    LARROW_CHAR, RARROW_CHAR, DARROW_CHAR
    <3>4. QED
      BY <1>1, <3>2, <3>3 DEF ShellInv
  <2>3. QED
    BY <1>1, <2>1, <2>2 DEF MCNext
<1>2. ShellInv /\ [MCNext]_<<shellVars, promise, unread>> =>
        [UNCHANGED <<term, reader, history, pager, lost>> \/ unread]_<<shellVars, unread>>
  BY <1>1
<1>3. QED
  BY <1>2, ShellAlwaysSound, PTL DEF MCSpec, ActedOnOnce
-----------------------------------------------------------------------------
(* What the user sees: the refinement mapping *)

\* Promise, of any terminal, line, pager and outcome.
View(t, r, p, l) ==
  LET shown == IF p = NoPage THEN Shown(t) ELSE << >>
      at    == IF p = NoPage THEN At(t) - Limit(t) ELSE 0
  IN  [mode |-> IF l THEN "astray"
                ELSE IF p = NoPage
                     THEN IF r.buf # shown \/ ~BlankFrom(t, Limit(t) + Len(shown)) THEN "astray"
                          ELSE IF r.cur = at THEN "edit"
                          ELSE IF r.cur = 0 /\ at = Len(shown) THEN "recalled"
                          ELSE "astray"
                     ELSE IF BlankFrom(t, At(t)) THEN "edit" ELSE "astray",
       line |-> shown,
       at   |-> at,
       left |-> XLEN * YLEN - Limit(t) - Len(shown)]

LEMMA PromiseIsView ==
  /\ Promise = View(term, reader, pager, lost)
  /\ Promise' = View(term', reader', pager', lost')
<1>1. Promise = View(term, reader, pager, lost)
  BY DEF Promise, Agreement, View
<1>2. Promise' = View(term', reader', pager', lost')
  BY DEF Promise, Agreement, View, Shown, BlankFrom, Limit, At
<1>3. QED
  BY <1>1, <1>2

\* A line that has not gone astray stands on the window.
LEMMA ViewEditing ==
  ASSUME NEW t \in Terminal, Ready(t), NEW r, NEW l \in BOOLEAN,
         View(t, r, NoPage, l).mode # "astray"
  PROVE  LET v == View(t, r, NoPage, l)
         IN  /\ ~l /\ Holds(t, r.buf, At(t) - Limit(t))
             /\ v.line = r.buf /\ v.at = At(t) - Limit(t)
             /\ v.left = Area - Limit(t) - Len(r.buf)
             /\ \/ v.mode = "edit" /\ r.cur = v.at
                \/ v.mode = "recalled" /\ r.cur = 0 /\ v.at = Len(r.buf) /\ v.at # 0
<1> DEFINE v == View(t, r, NoPage, l)
<1>1. /\ v.line = Shown(t) /\ v.at = At(t) - Limit(t)
      /\ v.left = Area - Limit(t) - Len(Shown(t))
      /\ v.mode = IF l THEN "astray"
                  ELSE IF r.buf # Shown(t) \/ ~BlankFrom(t, Limit(t) + Len(Shown(t))) THEN "astray"
                  ELSE IF r.cur = At(t) - Limit(t) THEN "edit"
                  ELSE IF r.cur = 0 /\ At(t) - Limit(t) = Len(Shown(t)) THEN "recalled"
                  ELSE "astray"
  BY DEF View, Area
<1> HIDE DEF v
<1>2. ~l /\ r.buf = Shown(t) /\ BlankFrom(t, Limit(t) + Len(Shown(t)))
  BY <1>1 DEF v
<1>3. Holds(t, Shown(t), At(t) - Limit(t))
  BY <1>2, ShownHolds
<1>4. QED
  BY <1>1, <1>2, <1>3 DEF v

\* A line on the window is seen.
LEMMA ViewHolds ==
  ASSUME NEW t \in Terminal, NEW r, NEW a, Holds(t, r.buf, a)
  PROVE  LET v == View(t, r, NoPage, FALSE)
         IN  /\ v.line = r.buf /\ v.at = a
             /\ v.mode = IF r.cur = a THEN "edit"
                         ELSE IF r.cur = 0 /\ a = Len(r.buf) THEN "recalled"
                         ELSE "astray"
<1>1. Shown(t) = r.buf
  BY HoldsShown
<1>2. At(t) - Limit(t) = a /\ BlankFrom(t, Limit(t) + Len(r.buf))
  <2>1. At(t) = Limit(t) + a /\ a \in 0 .. Len(r.buf) /\ r.buf \in Seq(Mark)
    BY DEF Holds
  <2>2. Limit(t) \in 0 .. Area - 1 /\ Len(r.buf) \in Nat
    BY <2>1, Places, LenProperties
  <2>3. Limit(t) \in Int /\ a \in Int
    BY <2>1, <2>2
  <2>4. At(t) - Limit(t) = a
    BY <2>1, <2>3
  <2>5. QED
    BY <2>4 DEF Holds
<1>3. QED
  BY <1>1, <1>2 DEF View

LEMMA ViewPaging ==
  ASSUME NEW t, NEW r, NEW p, NEW l \in BOOLEAN, p # NoPage
  PROVE  LET v == View(t, r, p, l)
         IN  /\ v.line = << >> /\ v.at = 0
             /\ v.mode = IF l \/ ~BlankFrom(t, At(t)) THEN "astray" ELSE "edit"
BY DEF View

\* A step that changes nothing the user sees.
LEMMA OutputStep ==
  ASSUME promise'.mode = promise.mode, promise'.line = promise.line, promise'.at = promise.at,
         history' = history
  PROVE  Promised!LineNext
BY DEF Promised!LineNext, Promised!Output

LEMMA SameView ==
  ASSUME ShellInv, promise' = Promise', UNCHANGED <<term, reader, history, pager, lost>>
  PROVE  Promised!LineNext
<1>1. promise' = promise
  BY PromiseStays DEF ShellInv
<1>2. QED
  BY <1>1, OutputStep

\* Where things stand when a key is taken for the line.
LEMMA Editing ==
  ASSUME ShellInv, pager = NoPage, promise.mode # "astray"
  PROVE  /\ term \in Terminal /\ Ready(term) /\ ~lost
         /\ Holds(term, reader.buf, promise.at)
         /\ promise.line = reader.buf /\ promise.at = At(term) - Limit(term)
         /\ promise.at \in 0 .. Len(reader.buf) /\ Len(reader.buf) \in Nat
         /\ At(term) = Limit(term) + promise.at
         /\ promise.left = Area - Limit(term) - Len(reader.buf)
         /\ \/ promise.mode = "edit" /\ reader.cur = promise.at
            \/ promise.mode = "recalled" /\ reader.cur = 0
               /\ promise.at = Len(reader.buf) /\ promise.at # 0
<1>1. term \in Terminal /\ Ready(term) /\ lost \in BOOLEAN /\ promise = Promise
  BY DEF ShellInv, Core
<1>2. promise = View(term, reader, NoPage, lost)
  BY <1>1, PromiseIsView
<1>3. Len(reader.buf) \in Nat
  BY CoreFacts DEF ShellInv
<1>4. QED
  BY <1>1, <1>2, <1>3, ViewEditing DEF Holds

LEMMA EditingNext ==
  ASSUME ShellInv, Core', promise' = Promise', pager' = NoPage, promise'.mode # "astray"
  PROVE  /\ term' \in Terminal /\ Ready(term') /\ ~lost'
         /\ promise'.line = reader'.buf /\ promise'.at = At(term') - Limit(term')
         /\ Holds(term', reader'.buf, promise'.at)
         /\ \/ promise'.mode = "edit" /\ reader'.cur = promise'.at
            \/ promise'.mode = "recalled" /\ reader'.cur = 0
               /\ promise'.at = Len(reader'.buf) /\ promise'.at # 0
<1>1. term' \in Terminal /\ lost' \in BOOLEAN
  BY DEF Core, Terminal, Cell, Char
<1>2. Ready(term')
  BY DEF Core, Ready, NoPage, At, Limit, Row, Cell
<1>3. promise' = View(term', reader', NoPage, lost')
  BY PromiseIsView
<1>4. QED
  BY <1>1, <1>2, <1>3, ViewEditing
-----------------------------------------------------------------------------
(* Every key does to the promise what CommandLine says *)

\* A line that stands on the window after the key is the one promised.
LEMMA HoldsNext ==
  ASSUME promise' = Promise', pager' = NoPage, lost' = FALSE, term' \in Terminal,
         NEW a, Holds(term', reader'.buf, a)
  PROVE  /\ promise'.line = reader'.buf /\ promise'.at = a
         /\ promise'.mode = IF reader'.cur = a THEN "edit"
                            ELSE IF reader'.cur = 0 /\ a = Len(reader'.buf) THEN "recalled"
                            ELSE "astray"
<1> DEFINE v == View(term', reader', NoPage, FALSE)
<1>1. promise' = v
  BY PromiseIsView
<1>2. /\ v.line = reader'.buf /\ v.at = a
      /\ v.mode = IF reader'.cur = a THEN "edit"
                  ELSE IF reader'.cur = 0 /\ a = Len(reader'.buf) THEN "recalled"
                  ELSE "astray"
  BY ViewHolds
<1> HIDE DEF v
<1>3. QED
  BY <1>1, <1>2

\* With nothing from the cursor on, the line promised ends at the cursor.
LEMMA EndNext ==
  ASSUME ShellInv, Core', promise' = Promise', pager' = NoPage, promise'.mode # "astray",
         BlankFrom(term', At(term'))
  PROVE  Len(reader'.buf) <= promise'.at
<1>1. /\ term' \in Terminal /\ Ready(term') /\ promise'.at = At(term') - Limit(term')
      /\ Holds(term', reader'.buf, promise'.at)
  BY EditingNext
<1>2. Shown(term') = reader'.buf /\ Limit(term') <= At(term')
  BY <1>1, HoldsShown DEF Ready
<1>3. QED
  BY <1>1, <1>2, ShownBefore

LEMMA TypeStep ==
  ASSUME ShellInv, Core', promise' = Promise', promise.mode # "astray",
         NEW key, NEW string \in Seq(Printable), Len(string) \in Nat, Len(string) > 0,
         TypedBy(key) = string, Type(key, string)
  PROVE  Promised!LineNext
<1> DEFINE b == reader.buf
           a == promise.at
           n == Len(string)
<1>1. /\ ~lost /\ pager = NoPage /\ pager' = NoPage /\ history' = history
      /\ keyboard_state.buffer = key
  BY DEF Type, Edits, Takes
<1>2. /\ term \in Terminal /\ Ready(term) /\ Holds(term, b, a) /\ promise.line = b
      /\ a \in 0 .. Len(b) /\ Len(b) \in Nat /\ At(term) = Limit(term) + a
      /\ promise.left = Area - Limit(term) - Len(b)
      /\ \/ promise.mode = "edit" /\ reader.cur = a
         \/ promise.mode = "recalled" /\ reader.cur = 0 /\ a = Len(b) /\ a # 0
  BY <1>1, Editing
<1>3. InLine(reader)
  <2>1. reader.cur \in 0 .. Len(b)
    BY <1>2
  <2>2. QED
    BY <2>1 DEF InLine
<1>4. reader' = typed_in(reader, string) /\ term' = print(term, string) /\ lost' = FALSE
  BY <1>1, <1>3 DEF Type, ShellInv, Core
<1>5. /\ reader'.buf = Spliced(b, reader.cur, string) /\ reader'.cur = reader.cur + n
      /\ Len(reader'.buf) = Len(b) + n
  BY <1>1, <1>3, <1>4, TypedLine DEF ShellInv
<1>6. string \in Seq(Mark) /\ string \in Seq(Output) /\ b \in Seq(Printable)
  BY LinesPrint, CoreFacts DEF ShellInv
<1>7. term' \in Terminal
  BY <1>2, <1>4, <1>6, PrintTerminal
<1>8. Limit(term) \in Nat /\ Area \in Nat /\ PROMPT \in Nat
  <2>1. Limit(term) \in 0 .. Area - 1
    BY <1>2, Places
  <2>2. QED
    BY <2>1, Cells, Sizes
<1> HIDE DEF a, b, n
<1>9. CASE promise.mode = "edit"
  <2>1. reader.cur = a
    BY <1>2, <1>9
  <2>2. CASE promise'.mode # "astray"
    <3>1. /\ promise'.line = reader'.buf
          /\ \/ promise'.mode = "edit" /\ reader'.cur = promise'.at
             \/ promise'.mode = "recalled" /\ reader'.cur = 0
      BY <1>1, <2>2, EditingNext
    <3>2. reader'.cur = a + n /\ a + n # 0
      <4>1. a \in Nat
        BY <1>2
      <4>2. QED
        BY <1>5, <2>1, <4>1 DEF n
    <3>3. promise'.mode = "edit" /\ promise'.at = a + n
      BY <3>1, <3>2
    <3>4. Spliced(b, a, string) = SubSeq(b, 1, a) \o string \o SubSeq(b, a + 1, Len(b))
      BY <1>2, <1>6, SpliceGives
    <3>5. promise'.line = Promised!InsertString(b, a, string)
      BY <1>5, <2>1, <3>1, <3>4 DEF Promised!InsertString
    <3>6. Promised!Shows("edit", Promised!InsertString(b, a, string), a + n)
      BY <3>3, <3>5 DEF Promised!Shows
    <3>7. string # << >>
      BY EmptySeq
    <3>8. Promised!Type
      BY <1>1, <1>2, <1>9, <3>6, <3>7 DEF Promised!Type, a, n
    <3>9. QED
      BY <3>8 DEF Promised!LineNext
  <2>3. CASE promise'.mode = "astray"
    <3>1. ASSUME \/ a < Len(b) /\ Limit(term) + Len(b) + n <= Area
                 \/ a = Len(b) /\ Len(b) + n <= Area - 1 - PROMPT
          PROVE  FALSE
      <4>1. Holds(print(term, string), Spliced(b, a, string), a + n)
        BY <1>2, <1>6, <3>1, PrintHolds DEF n
      <4>2. Holds(term', reader'.buf, a + n)
        BY <1>4, <1>5, <2>1, <4>1
      <4>3. promise'.mode = "edit"
        BY <1>1, <1>4, <1>5, <1>7, <2>1, <4>2, HoldsNext
      <4>4. QED
        BY <2>3, <4>3
    <3>2. \/ a < Len(b) /\ n > Area - Limit(term) - Len(b)
          \/ Len(b) + n > Area - 1 - PROMPT
      <4>1. n \in Nat /\ a \in Int
        BY <1>2 DEF n
      <4>2. QED
        BY <1>2, <1>8, <3>1, <4>1
    <3>3. string # << >>
      BY EmptySeq
    <3>4. \/ a < Len(b) /\ n > promise.left
          \/ Len(b) + n > XLEN * YLEN - 1 - PROMPT
      BY <1>2, <3>2 DEF Area
    <3>5. Promised!Type
      BY <1>1, <1>2, <1>9, <2>3, <3>3, <3>4 DEF Promised!Type, Promised!Strays, a, n
    <3>6. QED
      BY <3>5 DEF Promised!LineNext
  <2>4. QED
    BY <2>2, <2>3
<1>10. CASE promise.mode = "recalled"
  <2>1. reader.cur = 0 /\ a = Len(b) /\ a # 0
    BY <1>2, <1>10
  <2>2. ASSUME promise'.mode # "astray" PROVE FALSE
    <3>1. BlankFrom(term, At(term))
      BY <1>2, <2>1 DEF Holds
    <3>2. BlankFrom(term', At(term'))
      BY <1>2, <1>4, <1>6, <3>1, PrintAtEnd
    <3>3. Len(reader'.buf) <= promise'.at
      BY <1>1, <2>2, <3>2, EndNext
    <3>4. \/ reader'.cur = promise'.at
          \/ reader'.cur = 0
      BY <1>1, <2>2, EditingNext
    <3>5. reader'.cur = n /\ Len(reader'.buf) = Len(b) + n /\ n \in Nat /\ n > 0
      BY <1>5, <2>1 DEF n
    <3>6. Len(b) + n <= n
      BY <3>3, <3>4, <3>5
    <3>7. QED
      BY <1>2, <2>1, <3>5, <3>6
  <2>3. Promised!EditRecalled
    BY <1>1, <1>10, <2>2 DEF Promised!EditRecalled, Promised!Strays
  <2>4. QED
    BY <2>3 DEF Promised!LineNext
<1>11. QED
  BY <1>2, <1>9, <1>10

\* The unsigned index of the cursor.
LEMMA Word ==
  /\ \A x \in Nat : x < WORD => x % WORD = x
  /\ (0 + -1) % WORD = WORD - 1
<1>1. WORD \in Nat /\ WORD > 2
  BY Bounds
<1>2. ASSUME NEW x \in Nat, x < WORD PROVE x % WORD = x
  BY <1>1, <1>2
<1>3. (0 + -1) % WORD = WORD - 1
  BY <1>1
<1>4. QED
  BY <1>2, <1>3

LEMMA LeftStep ==
  ASSUME ShellInv, Core', promise' = Promise', promise.mode # "astray",
         Move(LARROW_CHAR, MovedLeft(term), -1)
  PROVE  Promised!LineNext
<1> DEFINE b == reader.buf
           a == promise.at
           s == MovedLeft(term)
<1>1. /\ ~lost /\ pager = NoPage /\ pager' = NoPage /\ history' = history /\ lost' = lost
      /\ pager' = pager
      /\ term' = s /\ reader' = IF s = term THEN reader ELSE reader_move(reader, -1)
  BY DEF Move, Edits, Takes
<1>2. /\ term \in Terminal /\ Ready(term) /\ Holds(term, b, a) /\ promise.line = b
      /\ a \in 0 .. Len(b) /\ Len(b) \in Nat /\ At(term) = Limit(term) + a
      /\ \/ promise.mode = "edit" /\ reader.cur = a
         \/ promise.mode = "recalled" /\ reader.cur = 0 /\ a = Len(b) /\ a # 0
  BY <1>1, Editing
<1>3. Limit(term) \in Nat /\ Cell = 0 .. Area - 1
  <2>1. Limit(term) \in 0 .. Area - 1
    BY <1>2, Places
  <2>2. QED
    BY <2>1, Cells
<1>4. CASE a = 0
  <2>1. At(term) = Limit(term)
    BY <1>2, <1>3, <1>4
  <2>2. s = term
    BY <2>1 DEF MovedLeft
  <2>3. QED
    BY <1>1, <2>2, SameView
<1>5. CASE a # 0
  <2>1. Limit(term) < At(term)
    BY <1>2, <1>3, <1>5
  <2>2. \A c \in Cell : Row(term.yl) <= c /\ c < At(term) - 1 => term.map[c] # Blank
    <3>1. \A c \in Cell : c < At(term) - 1 => c < At(term)
      BY <1>2, <1>3
    <3>2. QED
      BY <1>2, <3>1 DEF Ready
  <2>3. /\ s \in Terminal /\ s.map = term.map /\ Limit(s) = Limit(term) /\ At(s) = At(term) - 1
    BY <1>2, <2>1, <2>2, MovedLeftGives DEF Ready
  <2>4. s # term
    BY <1>2, <1>3, <2>3
  <2>5. reader'.buf = b /\ reader'.cur = (reader.cur + -1) % WORD
    BY <1>1, <2>4, CoreFacts DEF reader_move, ShellInv
  <2> HIDE DEF a, b, s
  <2>6. a - 1 \in 0 .. Len(b) /\ At(s) = Limit(s) + (a - 1)
    BY <1>2, <1>3, <1>5, <2>3
  <2>7. Holds(s, b, a - 1)
    BY <1>2, <2>3, <2>6 DEF Holds, BlankFrom
  <2>8. /\ promise'.line = b /\ promise'.at = a - 1
        /\ promise'.mode = IF reader'.cur = a - 1 THEN "edit"
                           ELSE IF reader'.cur = 0 /\ a - 1 = Len(b) THEN "recalled"
                           ELSE "astray"
    <3>1. lost' = FALSE /\ term' \in Terminal /\ Holds(term', reader'.buf, a - 1)
      BY <1>1, <2>3, <2>5, <2>7
    <3>2. QED
      BY <1>1, <2>5, <3>1, HoldsNext
  <2>9. Len(b) <= MAX_LINE /\ MAX_LINE < WORD /\ MAX_LINE \in Nat /\ WORD \in Nat
    BY CoreFacts, Bounds DEF ShellInv, b
  <2>10. CASE promise.mode = "edit"
    <3>1. reader.cur = a
      BY <1>2, <2>10 DEF a
    <3>2. a - 1 \in Nat /\ a - 1 < WORD /\ a + -1 = a - 1
      BY <1>2, <1>5, <2>9
    <3>3. reader'.cur = a - 1
      BY <2>5, <3>1, <3>2, Word
    <3>4. Promised!Shows("edit", b, a - 1)
      BY <2>8, <3>3 DEF Promised!Shows
    <3>5. a > 0
      BY <1>2, <1>5
    <3>6. Promised!Left
      BY <1>1, <1>2, <2>10, <3>4, <3>5 DEF Promised!Left, a
    <3>7. QED
      BY <3>6 DEF Promised!LineNext
  <2>11. CASE promise.mode = "recalled"
    <3>1. reader'.cur = WORD - 1
      BY <1>2, <2>5, <2>11, Word
    <3>2. reader'.cur # a - 1 /\ a - 1 # Len(b)
      BY <1>2, <2>9, <3>1
    <3>3. promise'.mode = "astray"
      BY <2>8, <3>2
    <3>4. Promised!EditRecalled
      BY <1>1, <2>11, <3>3 DEF Promised!EditRecalled, Promised!Strays
    <3>5. QED
      BY <3>4 DEF Promised!LineNext
  <2>12. QED
    BY <1>2, <2>10, <2>11
<1>6. QED
  BY <1>4, <1>5

LEMMA RightStep ==
  ASSUME ShellInv, Core', promise' = Promise', promise.mode # "astray",
         Move(RARROW_CHAR, MovedRight(term), 1)
  PROVE  Promised!LineNext
<1> DEFINE b == reader.buf
           a == promise.at
           s == MovedRight(term)
<1>1. /\ ~lost /\ pager = NoPage /\ pager' = NoPage /\ history' = history /\ lost' = lost
      /\ pager' = pager
      /\ term' = s /\ reader' = IF s = term THEN reader ELSE reader_move(reader, 1)
  BY DEF Move, Edits, Takes
<1>2. /\ term \in Terminal /\ Ready(term) /\ Holds(term, b, a) /\ promise.line = b
      /\ a \in 0 .. Len(b) /\ Len(b) \in Nat /\ At(term) = Limit(term) + a
      /\ \/ promise.mode = "edit" /\ reader.cur = a
         \/ promise.mode = "recalled" /\ reader.cur = 0 /\ a = Len(b) /\ a # 0
  BY <1>1, Editing
<1>3. Limit(term) \in Nat /\ Cell = 0 .. Area - 1 /\ At(term) \in Cell
  <2>1. Limit(term) \in 0 .. Area - 1 /\ At(term) \in 0 .. Area - 1
    BY <1>2, Places
  <2>2. QED
    BY <2>1, Cells
<1>4. CASE s = term
  BY <1>1, <1>4, SameView
<1>5. CASE s # term
  <2>1. /\ term.map[At(term)] # Blank /\ s \in Terminal /\ s.map = term.map
        /\ Limit(s) = Limit(term) /\ At(s) = At(term) + 1
    BY <1>2, <1>5, MovedRightGives
  <2>2. a # Len(b)
    <3>1. ASSUME a = Len(b) PROVE FALSE
      <4>1. BlankFrom(term, At(term))
        BY <1>2, <3>1 DEF Holds
      <4>2. QED
        BY <1>3, <2>1, <4>1 DEF BlankFrom
    <3>2. QED
      BY <3>1
  <2>3. promise.mode = "edit" /\ reader.cur = a
    BY <1>2, <2>2
  <2>4. reader'.buf = b /\ reader'.cur = (a + 1) % WORD
    BY <1>1, <1>5, <2>3, CoreFacts DEF reader_move, ShellInv
  <2> HIDE DEF a, b, s
  <2>5. a + 1 \in 0 .. Len(b) /\ At(s) = Limit(s) + (a + 1) /\ a < Len(b) /\ a + 1 \in Nat
    BY <1>2, <1>3, <2>1, <2>2
  <2>6. Holds(s, b, a + 1)
    BY <1>2, <2>1, <2>5 DEF Holds, BlankFrom
  <2>7. Len(b) <= MAX_LINE /\ MAX_LINE < WORD /\ MAX_LINE \in Nat /\ WORD \in Nat
    BY CoreFacts, Bounds DEF ShellInv, b
  <2>8. reader'.cur = a + 1
    <3>1. a + 1 < WORD
      BY <1>2, <2>5, <2>7
    <3>2. QED
      BY <2>4, <2>5, <3>1, Word
  <2>9. promise'.line = b /\ promise'.at = a + 1 /\ promise'.mode = "edit"
    <3>1. lost' = FALSE /\ term' \in Terminal /\ Holds(term', reader'.buf, a + 1)
      BY <1>1, <2>1, <2>4, <2>6
    <3>2. QED
      BY <1>1, <2>4, <2>8, <3>1, HoldsNext
  <2>10. Promised!Right
    BY <1>1, <1>2, <2>3, <2>5, <2>9 DEF Promised!Right, Promised!Shows, a
  <2>11. QED
    BY <2>10 DEF Promised!LineNext
<1>6. QED
  BY <1>4, <1>5

LEMMA BackspaceStep ==
  ASSUME ShellInv, Core', promise' = Promise', promise.mode # "astray", shell_backspace
  PROVE  Promised!LineNext
<1> DEFINE b == reader.buf
           a == promise.at
<1>1. /\ ~lost /\ pager = NoPage /\ pager' = NoPage /\ history' = history /\ pager' = pager
  BY DEF shell_backspace, Edits, Takes
<1>2. /\ term \in Terminal /\ Ready(term) /\ Holds(term, b, a) /\ promise.line = b
      /\ a \in 0 .. Len(b) /\ Len(b) \in Nat /\ At(term) = Limit(term) + a
      /\ \/ promise.mode = "edit" /\ reader.cur = a
         \/ promise.mode = "recalled" /\ reader.cur = 0 /\ a = Len(b) /\ a # 0
  BY <1>1, Editing
<1>3. Limit(term) \in Nat
  <2>1. Limit(term) \in 0 .. Area - 1
    BY <1>2, Places
  <2>2. QED
    BY <2>1
<1>4. CASE At(term) = Limit(term)
  BY <1>1, <1>4, SameView DEF shell_backspace
<1>5. CASE At(term) # Limit(term)
  <2>1. /\ term' = MovedLeft(Deleted(term)) /\ reader' = Erased(reader)
        /\ lost' = RunsAway(reader)
    BY <1>5 DEF shell_backspace
  <2>2. a > 0 /\ Len(b) > 0 /\ a \in 1 .. Len(b) /\ b # << >> /\ Len(b) \in 1 .. Len(b)
    BY <1>2, <1>3, <1>5
  <2>3. lost' = FALSE
    BY <2>1, <2>2 DEF RunsAway
  <2>4. Holds(term', Without(b, a), a - 1) /\ term' \in Terminal
    BY <1>2, <1>5, <2>1, <2>2, BackHolds, BackGives
  <2>5. b \in Seq(Printable)
    BY CoreFacts DEF ShellInv
  <2>6. CASE promise.mode = "edit"
    <3>1. reader.cur = a
      BY <1>2, <2>6
    <3>2. reader'.buf = RemoveAt(b, a) /\ reader'.cur = a - 1
      BY <2>1, <2>2, <3>1, CoreFacts DEF Erased, ShellInv
    <3>3. RemoveAt(b, a) = Without(b, a)
      BY <2>2, <2>5, WithoutGives
    <3> HIDE DEF a, b
    <3>4. promise'.line = RemoveAt(b, a) /\ promise'.at = a - 1 /\ promise'.mode = "edit"
      BY <1>1, <2>3, <2>4, <3>2, <3>3, HoldsNext
    <3>5. Promised!Erase
      BY <1>1, <1>2, <2>2, <2>6, <3>4 DEF Promised!Erase, Promised!Shows, Promised!RemoveAt, RemoveAt, a
    <3>6. QED
      BY <3>5 DEF Promised!LineNext
  <2>7. CASE promise.mode = "recalled"
    <3>1. reader.cur = 0 /\ a = Len(b)
      BY <1>2, <2>7
    <3>2. reader'.buf = Front(b) /\ reader'.cur = 0
      BY <2>1, <2>2, <3>1, CoreFacts DEF Erased, ShellInv
    <3>3. Front(b) = Without(b, a) /\ Len(Front(b)) = a - 1 /\ Front(b) \in Seq(Printable)
      BY <2>2, <2>5, <3>1, WithoutGives
    <3> HIDE DEF a, b
    <3>4. /\ promise'.line = Front(b) /\ promise'.at = a - 1
          /\ promise'.mode = IF 0 = a - 1 THEN "edit" ELSE "recalled"
      BY <1>1, <2>3, <2>4, <3>2, <3>3, HoldsNext
    <3>5. Front(b) = << >> <=> a - 1 = 0
      BY <3>3, EmptySeq
    <3>6. Promised!ShowsRecalled(Front(b))
      BY <3>3, <3>4, <3>5 DEF Promised!ShowsRecalled, Promised!Shows
    <3>7. Promised!EraseRecalled
      BY <1>1, <1>2, <2>7, <3>6 DEF Promised!EraseRecalled, Promised!Front, Front
    <3>8. QED
      BY <3>7 DEF Promised!LineNext
  <2>8. QED
    BY <1>2, <2>6, <2>7
<1>6. QED
  BY <1>4, <1>5

\* What is left when the line is taken away.
LEMMA ResetStep ==
  ASSUME ShellInv, pager = NoPage, promise.mode # "astray"
  PROVE  /\ ResetTerm \in Terminal /\ Ready(ResetTerm) /\ Holds(ResetTerm, << >>, 0)
         /\ ~ResetOverflows /\ ResetReader.cur = 0 /\ ResetReader.buf = << >>
         /\ ResetReader.size \in Nat /\ ResetReader.size >= INPUT_BUFFER_SIZE
         /\ ResetReader = [buf |-> ResetReader.buf, cur |-> ResetReader.cur,
                           size |-> ResetReader.size]
<1> DEFINE b == reader.buf
           a == promise.at
<1>1. /\ term \in Terminal /\ Ready(term) /\ Holds(term, b, a) /\ a \in 0 .. Len(b)
      /\ \/ promise.mode = "edit" /\ reader.cur = a
         \/ promise.mode = "recalled" /\ reader.cur = 0
  BY Editing
<1>2. reader.buf \in Seq(Printable)
  BY CoreFacts DEF ShellInv
<1>3. /\ ResetTerm \in Terminal /\ Ready(ResetTerm) /\ Holds(ResetTerm, << >>, 0)
      /\ ~ResetOverflows
  BY <1>1, <1>2, ResetGives
<1>4. ResetReader \in LineReader /\ ResetReader.size >= INPUT_BUFFER_SIZE
  BY ResetReaderGives DEF ShellInv
<1>5. ResetReader.cur = 0 /\ ResetReader.buf = << >>
  <2>1. CASE b = << >>
    <3>1. a = 0
      BY <1>1, <2>1
    <3>2. QED
      BY <1>1, <2>1, <3>1 DEF ResetReader
  <2>2. CASE b # << >>
    BY <2>2, Bounds DEF ResetReader
  <2>3. QED
    BY <2>1, <2>2
<1>6. QED
  BY <1>3, <1>4, <1>5 DEF LineReader

LEMMA RecallStep ==
  ASSUME ShellInv, Core', promise' = Promise', promise.mode # "astray",
         NEW key, NEW direction \in {-1, 1}, Recall(key, direction)
  PROVE  Promised!LineNext
<1> DEFINE string == history.recents[history.idx + direction + 1]
           i == history.idx + direction + 1
           n == Len(string)
<1>1. /\ ~lost /\ pager = NoPage /\ pager' = NoPage
      /\ term' = print(ResetTerm, string)
      /\ reader' = [ResetReader EXCEPT !.buf = string]
      /\ lost' = (ResetOverflows \/ Len(string) > ResetReader.size)
  BY DEF Recall, Edits, Takes
<1>2. /\ history.idx + direction \in 0 .. HISTORY - 1
      /\ history'.idx = history.idx + direction /\ history'.recents = history.recents
      /\ string \in Lines /\ string # << >>
  BY RecallCore DEF ShellInv
<1>3. /\ ResetTerm \in Terminal /\ Ready(ResetTerm) /\ Holds(ResetTerm, << >>, 0)
      /\ ~ResetOverflows /\ ResetReader.cur = 0
      /\ ResetReader.size \in Nat /\ ResetReader.size >= INPUT_BUFFER_SIZE
      /\ ResetReader = [buf |-> ResetReader.buf, cur |-> ResetReader.cur,
                        size |-> ResetReader.size]
  BY <1>1, ResetStep
<1>4. reader'.buf = string /\ reader'.cur = 0 /\ lost' = (n > ResetReader.size)
  BY <1>1, <1>3
<1>5. /\ i \in 1 .. HISTORY /\ i \in {(history.idx + 1) - 1, (history.idx + 1) + 1}
      /\ history'.idx + 1 = i
  <2>1. /\ history.idx \in -1 .. HISTORY - 1 /\ HISTORY \in Nat
    BY CoreFacts, Sizes DEF ShellInv
  <2>2. QED
    BY <1>2, <2>1
<1> HIDE DEF string, i
<1>6. string \in Seq(Mark) /\ string \in Seq(Output) /\ n \in Nat /\ n # 0
  <2>1. string \in Seq(Printable)
    BY <1>2 DEF Lines
  <2>2. QED
    BY <1>2, <2>1, LinesPrint, EmptySeq
<1>7. term' \in Terminal
  BY <1>1, <1>3, <1>6, PrintTerminal
<1> HIDE DEF n
<1>8. Promised!ShowsRecalled(string) \/ (Promised!Strays /\ ~Promised!Fits(string))
  <2>1. CASE promise'.mode # "astray"
    <3>1. /\ promise'.line = string
          /\ \/ promise'.mode = "edit" /\ promise'.at = 0
             \/ promise'.mode = "recalled" /\ promise'.at = n
      BY <1>1, <1>4, <2>1, EditingNext DEF n
    <3>2. ASSUME promise'.at = 0 PROVE FALSE
      <4>1. BlankFrom(ResetTerm, At(ResetTerm))
        <5>1. Limit(ResetTerm) \in Nat
          <6>1. Limit(ResetTerm) \in 0 .. Area - 1
            BY <1>3, Places
          <6>2. QED
            BY <6>1
        <5>2. Len(<< >>) = 0
          OBVIOUS
        <5>3. QED
          BY <1>3, <5>1, <5>2 DEF Holds
      <4>2. BlankFrom(term', At(term'))
        BY <1>1, <1>3, <1>6, <4>1, PrintAtEnd
      <4>3. Len(reader'.buf) <= promise'.at
        BY <1>1, <2>1, <4>2, EndNext
      <4>4. QED
        BY <1>4, <1>6, <3>2, <4>3 DEF n
    <3>3. promise'.mode = "recalled" /\ promise'.at = Len(string)
      BY <3>1, <3>2 DEF n
    <3>4. QED
      BY <1>2, <3>1, <3>3 DEF Promised!ShowsRecalled, Promised!Shows
  <2>2. CASE promise'.mode = "astray"
    <3>1. ASSUME n < Area - 1 - PROMPT, n <= INPUT_BUFFER_SIZE PROVE FALSE
      <4>1. lost' = FALSE
        <5>1. ~(n > ResetReader.size)
          BY <1>3, <1>6, <3>1, Sizes
        <5>2. lost' \in BOOLEAN /\ (lost' => n > ResetReader.size)
          BY <1>4 DEF Core
        <5>3. QED
          BY <5>1, <5>2
      <4>2. n <= Area - 1 - PROMPT /\ 0 + n <= Area - 1 - PROMPT /\ Len(<< >>) = 0 /\ 0 + n = n
        BY <1>6, <3>1, Cells, Sizes
      <4>3. Holds(print(ResetTerm, string), Spliced(<< >>, 0, string), 0 + Len(string))
        BY <1>3, <1>6, <4>2, PrintHolds DEF n
      <4>4. Spliced(<< >>, 0, string) = string
        <5>1. /\ string = [k \in 1 .. n |-> string[k]]
              /\ Spliced(<< >>, 0, string) = [k \in 1 .. n |-> string[k]]
          BY <1>6 DEF Spliced, n
        <5>2. QED
          BY <5>1
      <4>5. Holds(term', reader'.buf, n)
        BY <1>1, <1>4, <4>2, <4>3, <4>4 DEF n
      <4>6. promise'.mode = "recalled"
        BY <1>1, <1>4, <1>6, <1>7, <4>1, <4>5, HoldsNext DEF n
      <4>7. QED
        BY <2>2, <4>6
    <3>2. ~Promised!Fits(string)
      BY <3>1 DEF Promised!Fits, Area, n
    <3>3. QED
      BY <2>2, <3>2 DEF Promised!Strays
  <2>3. QED
    BY <2>1, <2>2
<1>9. Promised!Recall(i)
  BY <1>2, <1>5, <1>8 DEF Promised!Recall, string, i
<1>10. QED
  BY <1>5, <1>9 DEF Promised!LineNext

LEMMA DismissStep ==
  ASSUME ShellInv, Core', promise' = Promise', promise.mode # "astray", Dismiss
  PROVE  Promised!LineNext
<1>1. /\ ~lost /\ pager = NoPage /\ pager' = NoPage /\ history.idx = 0
      /\ history' = [history EXCEPT !.idx = -1] /\ term' = ResetTerm
      /\ reader' = ResetReader /\ lost' = ResetOverflows
  BY DEF Dismiss, Edits, Takes
<1>2. /\ term' \in Terminal /\ Holds(term', << >>, 0) /\ lost' = FALSE
      /\ reader'.cur = 0 /\ reader'.buf = << >>
  BY <1>1, ResetStep DEF ResetOverflows
<1>3. promise'.mode = "edit" /\ promise'.line = << >> /\ promise'.at = 0
  BY <1>1, <1>2, HoldsNext
<1>4. history'.recents = history.recents /\ history'.idx = -1
  BY <1>1, CoreFacts DEF ShellInv
<1>5. Promised!Dismiss
  BY <1>1, <1>3, <1>4 DEF Promised!Dismiss, Promised!Shows
<1>6. QED
  BY <1>5 DEF Promised!LineNext
-----------------------------------------------------------------------------
(* Enter *)

\* A row below the cursor that is not clear is a row of the line.
LEMMA LineBelow ==
  ASSUME ShellInv, pager = NoPage, promise.mode # "astray", ~ClearBelow(term)
  PROVE  promise.at < Len(promise.line) /\ Len(promise.line) > XLEN - PROMPT
<1> DEFINE b == reader.buf
           a == promise.at
<1>1. /\ term \in Terminal /\ Ready(term) /\ Holds(term, b, a) /\ promise.line = b
      /\ a \in 0 .. Len(b) /\ Len(b) \in Nat /\ At(term) = Limit(term) + a
  BY Editing
<1>2. /\ At(term) = Row(term.y) + term.x /\ Limit(term) = Row(term.yl) + term.xl
      /\ Row(term.y) \in Nat /\ Row(term.yl) \in Nat /\ Limit(term) \in 0 .. Area - 1
      /\ term.yl <= term.y
  BY <1>1, Places DEF Ready
<1>3. /\ term.x \in 0 .. XLEN - 1 /\ term.xl \in 0 .. XLEN - 1 /\ term.y \in 0 .. YLEN - 1
      /\ term.yl \in 0 .. YLEN - 1 /\ term.xl <= PROMPT /\ XLEN \in Nat /\ PROMPT \in Nat
  BY <1>1, Sizes DEF Terminal, Ready
<1>4. Row(term.yl) <= Row(term.y)
  <2>1. term.y \in Nat /\ term.yl \in Nat
    BY <1>3
  <2>2. CASE term.yl < term.y
    <3>1. Row(term.yl) + XLEN <= Row(term.y)
      BY <2>1, <2>2, Rows
    <3>2. QED
      BY <1>2, <1>3, <3>1
  <2>3. CASE term.yl = term.y
    BY <1>2, <2>3
  <2>4. QED
    BY <1>2, <2>1, <2>2, <2>3
<1>5. PICK c \in Cell : c >= Row(term.y) + XLEN /\ term.map[c] # Blank
  BY DEF ClearBelow, BlankFrom
<1>6. c < Limit(term) + Len(b) /\ c \in Nat
  <2>1. c \in Nat
    BY <1>5, Cells
  <2>2. ~(c >= Limit(term) + Len(b))
    BY <1>1, <1>5 DEF Holds, BlankFrom
  <2>3. Limit(term) \in Nat
    BY <1>2
  <2>4. QED
    BY <1>1, <2>1, <2>2, <2>3
<1> HIDE DEF a, b
<1>7. a < Len(b)
  <2>1. Limit(term) + a < Row(term.y) + XLEN
    BY SMTT(30), <1>1, <1>2, <1>3
  <2>2. Limit(term) \in Nat /\ a \in Nat
    BY <1>1, <1>2
  <2>3. QED
    BY <1>1, <1>2, <1>3, <1>5, <1>6, <2>1, <2>2
<1>8. Len(b) > XLEN - PROMPT
  <2>1. term.xl \in Nat
    BY <1>3
  <2>2. QED
    BY SMTT(30), <1>1, <1>2, <1>3, <1>4, <1>5, <1>6, <2>1
<1>9. QED
  BY <1>1, <1>7, <1>8 DEF a, b

\* A prompt at the end of what stands on the window.
LEMMA PromptNext ==
  ASSUME ShellInv, Core', promise' = Promise', NEW t \in Terminal, Prompts(t)
  PROVE  \/ promise'.mode = "edit" /\ promise'.line = << >> /\ promise'.at = 0
         \/ promise'.mode = "astray" /\ (lost' \/ ~ClearBelow(t))
<1>1. /\ term' = shell_newline(t) /\ reader' = EmptyReader /\ pager' = NoPage
      /\ reader'.buf = << >> /\ reader'.cur = 0 /\ Len(<< >>) = 0 /\ lost' \in BOOLEAN
  BY Bounds DEF Prompts, Core
<1>2. CASE promise'.mode # "astray"
  <2>1. /\ promise'.line = << >> /\ Holds(term', << >>, promise'.at)
        /\ \/ promise'.mode = "edit" /\ promise'.at = 0
           \/ promise'.mode = "recalled" /\ promise'.at = 0 /\ promise'.at # 0
    BY <1>1, <1>2, EditingNext
  <2>2. QED
    BY <2>1
<1>3. CASE promise'.mode = "astray"
  <2>1. ASSUME ClearBelow(t), ~lost' PROVE FALSE
    <3>1. Holds(term', reader'.buf, 0) /\ term' \in Terminal
      BY <1>1, <2>1, NewlineGives
    <3>2. promise'.mode = "edit"
      BY <1>1, <2>1, <3>1, HoldsNext
    <3>3. QED
      BY <1>3, <3>2
  <2>2. QED
    BY <1>3, <2>1
<1>4. QED
  BY <1>2, <1>3

\* A command that leaves what is below the cursor clear if it was.
LEMMA EnterStep ==
  ASSUME ShellInv, promise.mode # "astray", Saves,
         \/ promise'.mode = "edit" /\ promise'.line = << >> /\ promise'.at = 0
         \/ promise'.mode = "astray" /\ (lost' \/ ~ClearBelow(term))
  PROVE  Promised!LineNext
<1>1. pager = NoPage /\ history' = recent_saved /\ ~lost
  BY DEF Saves, Edits, Takes
<1>2. promise.line = reader.buf
  BY <1>1, Editing
<1>3. history'.recents = <<promise.line>> \o Front(history.recents) /\ history'.idx + 1 = 0
  BY <1>1, <1>2, SavedGives DEF ShellInv
<1>4. ASSUME lost' PROVE history.idx + 1 > 0 /\ Len(promise.line) >= INPUT_BUFFER_SIZE
  <2>1. Len(reader.buf) >= reader.size
    BY <1>4 DEF Saves
  <2>2. /\ Len(reader.buf) \in Nat /\ reader.size \in Nat /\ history.idx \in Int
        /\ reader.size >= INPUT_BUFFER_SIZE /\ INPUT_BUFFER_SIZE \in Nat /\ LineFits
    BY CoreFacts, Sizes DEF ShellInv, Core
  <2>3. history.idx >= 0
    BY <1>1, <2>1, <2>2 DEF LineFits
  <2>4. QED
    BY <1>2, <2>1, <2>2, <2>3
<1>5. \/ Promised!Shows("edit", << >>, 0)
      \/ /\ Promised!Strays
         /\ \/ promise.at < Len(promise.line) /\ Len(promise.line) > XLEN - PROMPT
            \/ history.idx + 1 > 0 /\ Len(promise.line) >= INPUT_BUFFER_SIZE
  BY <1>1, <1>4, LineBelow DEF Promised!Shows, Promised!Strays
<1>6. Promised!Run
  BY <1>3, <1>5 DEF Promised!Run, Promised!Front, Front
<1>7. QED
  BY <1>6 DEF Promised!LineNext

LEMMA RunStep ==
  ASSUME ShellInv, Core', promise' = Promise', promise.mode # "astray", Run
  PROVE  Promised!LineNext
<1>1. Saves /\ term \in Terminal
  BY CoreFacts DEF Run, ShellInv
<1>2. PICK output \in Outputs \cup {<< >>} : Prompts(print(term, output))
  BY DEF Run
<1>3. /\ print(term, output) \in Terminal
      /\ ClearBelow(term) => ClearBelow(print(term, output))
  BY <1>1, OutputGives
<1>4. \/ promise'.mode = "edit" /\ promise'.line = << >> /\ promise'.at = 0
      \/ promise'.mode = "astray" /\ (lost' \/ ~ClearBelow(print(term, output)))
  BY <1>1, <1>2, <1>3, PromptNext
<1>5. QED
  BY <1>1, <1>3, <1>4, EnterStep

LEMMA RunClearStep ==
  ASSUME ShellInv, Core', promise' = Promise', promise.mode # "astray", RunClear
  PROVE  Promised!LineNext
<1>1. Saves /\ term \in Terminal /\ Prompts(shell_clear(term))
  BY CoreFacts DEF RunClear, ShellInv
<1>2. shell_clear(term) \in Terminal /\ ClearBelow(shell_clear(term))
  BY <1>1, ClearGives
<1>3. \/ promise'.mode = "edit" /\ promise'.line = << >> /\ promise'.at = 0
      \/ promise'.mode = "astray" /\ lost'
  BY <1>1, <1>2, PromptNext
<1>4. QED
  BY <1>1, <1>3, EnterStep

\* A listing that waits for a key.
LEMMA PagingNext ==
  ASSUME promise' = Promise', pager' # NoPage, lost' \in BOOLEAN
  PROVE  /\ promise'.line = << >> /\ promise'.at = 0
         /\ promise'.mode = IF lost' \/ ~BlankFrom(term', At(term')) THEN "astray" ELSE "edit"
<1> DEFINE v == View(term', reader', pager', lost')
<1>1. promise' = v
  BY PromiseIsView
<1>2. /\ v.line = << >> /\ v.at = 0
      /\ v.mode = IF lost' \/ ~BlankFrom(term', At(term')) THEN "astray" ELSE "edit"
  BY ViewPaging
<1> HIDE DEF v
<1>3. QED
  BY <1>1, <1>2

LEMMA RunListingStep ==
  ASSUME ShellInv, Core', promise' = Promise', promise.mode # "astray",
         NEW n \in Listings, RunListing(n)
  PROVE  Promised!LineNext
<1>1. Saves /\ term \in Terminal
  BY CoreFacts DEF RunListing, ShellInv
<1>2. n \in Nat /\ n >= 1
  <2>1. \A k \in Nat \ {0} : k \in Nat /\ k >= 1
    OBVIOUS
  <2>2. QED
    BY <2>1, ShellAssumption
<1>3. Page(term.y) \in Nat /\ Page(term.y) >= 1
  BY <1>1, PageGives DEF Terminal
<1>4. CASE n <= 1 + Page(term.y)
  <2>1. Prompts(print_lines(term, n, n))
    BY <1>4 DEF RunListing
  <2>2. /\ print_lines(term, n, n) \in Terminal
        /\ ClearBelow(term) => /\ BlankFrom(print_lines(term, n, n), At(print_lines(term, n, n)))
                               /\ ClearBelow(print_lines(term, n, n))
    BY <1>1, <1>2, ListingGives, EndIsClear
  <2>3. \/ promise'.mode = "edit" /\ promise'.line = << >> /\ promise'.at = 0
        \/ promise'.mode = "astray" /\ (lost' \/ ~ClearBelow(print_lines(term, n, n)))
    BY <1>1, <2>1, <2>2, PromptNext
  <2>4. QED
    BY <1>1, <2>2, <2>3, EnterStep
<1>5. CASE ~(n <= 1 + Page(term.y))
  <2>1. /\ term' = print_lines(term, 1 + Page(term.y), n)
        /\ pager' = [left |-> n - 1 - Page(term.y), row |-> RowOfText(term.y, 1 + Page(term.y))]
    BY <1>5 DEF RunListing
  <2>2. n - 1 - Page(term.y) # 0
    BY <1>2, <1>3, <1>5
  <2>3. pager' # NoPage /\ lost' \in BOOLEAN
    BY <2>1, <2>2 DEF NoPage, Core
  <2>4. ClearBelow(term) => BlankFrom(term', At(term'))
    <3>1. 1 + Page(term.y) \in Nat /\ 1 + Page(term.y) >= 1
      BY <1>3
    <3>2. QED
      BY <1>1, <1>2, <2>1, <3>1, ListingGives
  <2>5. \/ promise'.mode = "edit" /\ promise'.line = << >> /\ promise'.at = 0
        \/ promise'.mode = "astray" /\ (lost' \/ ~ClearBelow(term))
    BY <2>3, <2>4, PagingNext
  <2>6. QED
    BY <1>1, <2>5, EnterStep
<1>6. QED
  BY <1>4, <1>5
-----------------------------------------------------------------------------
(* A listing *)

LEMMA Paging ==
  ASSUME ShellInv, pager # NoPage, promise.mode # "astray"
  PROVE  /\ promise.mode = "edit" /\ promise.line = << >> /\ promise.at = 0
         /\ term \in Terminal /\ BlankFrom(term, At(term)) /\ ClearBelow(term)
<1> DEFINE v == View(term, reader, pager, lost)
<1>1. promise = v
  BY PromiseIsView DEF ShellInv
<1>2. lost \in BOOLEAN /\ term \in Terminal
  BY DEF ShellInv, Core
<1>3. /\ v.line = << >> /\ v.at = 0
      /\ v.mode = IF lost \/ ~BlankFrom(term, At(term)) THEN "astray" ELSE "edit"
  BY <1>2, ViewPaging
<1> HIDE DEF v
<1>4. QED
  BY <1>1, <1>2, <1>3, EndIsClear

LEMMA QuitStep ==
  ASSUME ShellInv, Core', promise' = Promise', promise.mode # "astray", Quit
  PROVE  Promised!LineNext
<1>1. ~lost' /\ history' = history /\ Prompts(term) /\ pager # NoPage
  BY DEF Quit, Takes
<1>2. /\ promise.mode = "edit" /\ promise.line = << >> /\ promise.at = 0
      /\ term \in Terminal /\ ClearBelow(term)
  BY <1>1, Paging
<1>3. promise'.mode = "edit" /\ promise'.line = << >> /\ promise'.at = 0
  BY <1>1, <1>2, PromptNext
<1>4. QED
  BY <1>1, <1>2, <1>3, OutputStep

LEMMA NextLineStep ==
  ASSUME ShellInv, Core', promise' = Promise', promise.mode # "astray", NEW key, NextLine(key)
  PROVE  Promised!LineNext
<1>1. ~lost /\ lost' = lost /\ history' = history /\ pager # NoPage
  BY DEF NextLine, Takes
<1>2. /\ promise.mode = "edit" /\ promise.line = << >> /\ promise.at = 0
      /\ term \in Terminal /\ BlankFrom(term, At(term))
  BY <1>1, Paging
<1>3. promise'.mode = "edit" /\ promise'.line = << >> /\ promise'.at = 0
  <2>1. CASE pager.left = 1
    <3>1. Prompts(print(term, <<Ink>>))
      BY <2>1 DEF NextLine
    <3>2. print(term, <<Ink>>) \in Terminal /\ ClearBelow(print(term, <<Ink>>))
      BY <1>2, PrintlnGives, EndIsClear
    <3>3. QED
      BY <1>1, <3>1, <3>2, PromptNext
  <2>2. CASE pager.left # 1
    <3>1. /\ term' = print(term, <<Ink, "\n">>)
          /\ pager' = [left |-> pager.left - 1, row |-> 0]
      BY <2>2 DEF NextLine
    <3>2. pager' # NoPage /\ lost' = FALSE
      <4>1. pager.left \in Nat /\ lost \in BOOLEAN
        BY DEF ShellInv, Core
      <4>2. pager.left - 1 # 0
        BY <2>2, <4>1
      <4>3. QED
        BY <1>1, <3>1, <4>1, <4>2 DEF NoPage
    <3>3. BlankFrom(term', At(term'))
      BY <1>2, <3>1, PrintlnGives
    <3>4. QED
      BY <3>2, <3>3, PagingNext
  <2>3. QED
    BY <2>1, <2>2
<1>4. QED
  BY <1>1, <1>2, <1>3, OutputStep

LEMMA LineInits ==
  ASSUME MCInit
  PROVE  Promised!LineInit
<1> DEFINE v == View(term, reader, NoPage, FALSE)
<1>1. /\ ShellInv /\ promise = Promise /\ pager = NoPage /\ lost = FALSE
      /\ term = shell_newline(BlankScreen) /\ reader = EmptyReader
      /\ history = [recents |-> [i \in 1 .. HISTORY |-> << >>], idx |-> -1]
      /\ keyboard_state = [buffer |-> NULL_CHAR, caps |-> 0, shift |-> 0, on |-> TRUE]
  BY ShellInvInit DEF MCInit, ShellInit, KeyboardInit
<1>2. BlankScreen \in Terminal /\ ClearBelow(BlankScreen)
  <2>1. 0 \in 0 .. XLEN - 1 /\ 0 \in 0 .. YLEN - 1 /\ Blank \in Char
    BY Sizes, Marks
  <2>2. QED
    BY <2>1 DEF BlankScreen, Terminal, ClearBelow, BlankFrom
<1>3. term \in Terminal /\ Holds(term, reader.buf, 0) /\ reader.cur = 0 /\ reader.buf = << >>
  BY <1>1, <1>2, NewlineGives, Bounds
<1>4. v.line = << >> /\ v.at = 0 /\ v.mode = "edit"
  BY <1>3, ViewHolds
<1>5. v.left \in Nat
  <2>1. Shown(term) = << >>
    BY <1>3, HoldsShown
  <2>2. v.left = Area - Limit(term) - Len(Shown(term))
    BY DEF View, Area
  <2>3. Limit(term) \in 0 .. Area - 1 /\ Area \in Nat
    BY <1>3, Places, Cells
  <2>4. v.left = Area - Limit(term) - 0
    BY <2>1, <2>2
  <2>5. Area - Limit(term) - 0 \in Nat
    BY <2>3
  <2> HIDE DEF v
  <2>6. QED
    BY <2>4, <2>5
<1>6. promise = v
  BY <1>1, PromiseIsView
<1>7. TypedBy(keyboard_state.buffer) = << >>
  BY <1>1 DEF TypedBy, NULL_CHAR, TAB_CHAR, Printable
<1> HIDE DEF v
<1>8. QED
  BY <1>1, <1>4, <1>5, <1>6, <1>7 DEF Promised!LineInit

\* Each key, when the line has not gone astray.
LEMMA HandleStep ==
  ASSUME ShellInv, Core', promise' = Promise', promise.mode # "astray", Handle
  PROVE  Promised!LineNext
<1>1. CASE \E key \in Printable : Type(key, <<key>>)
  <2>1. PICK key \in Printable : Type(key, <<key>>)
    BY <1>1
  <2>2. <<key>> \in Seq(Printable) /\ Len(<<key>>) = 1 /\ 1 \in Nat /\ 1 > 0
    OBVIOUS
  <2>3. TypedBy(key) = <<key>>
    BY <2>1 DEF TypedBy, Printable, TAB_CHAR
  <2>4. QED
    BY <2>1, <2>2, <2>3, TypeStep
<1>2. CASE Type(TAB_CHAR, <<" ", " ", " ", " ">>)
  <2> DEFINE tab == <<" ", " ", " ", " ">>
  <2>1. tab \in Seq(Printable) /\ Len(tab) = 4 /\ 4 \in Nat /\ 4 > 0
    BY DEF Printable
  <2>2. TypedBy(TAB_CHAR) = tab
    BY DEF TypedBy, Printable, TAB_CHAR
  <2> HIDE DEF tab
  <2>3. Type(TAB_CHAR, tab)
    BY <1>2 DEF tab
  <2>4. QED
    BY <2>1, <2>2, <2>3, TypeStep
<1>3. CASE Move(LARROW_CHAR, MovedLeft(term), -1)
  BY <1>3, LeftStep
<1>4. CASE Move(RARROW_CHAR, MovedRight(term), 1)
  BY <1>4, RightStep
<1>5. CASE shell_backspace
  BY <1>5, BackspaceStep
<1>6. CASE Recall(UARROW_CHAR, 1)
  BY <1>6, RecallStep
<1>7. CASE Recall(DARROW_CHAR, -1)
  BY <1>7, RecallStep
<1>8. CASE Dismiss
  BY <1>8, DismissStep
<1>9. CASE \E key \in Keys : Ignored(key)
  BY <1>9, SameView DEF Ignored
<1>10. CASE Run
  BY <1>10, RunStep
<1>11. CASE RunClear
  BY <1>11, RunClearStep
<1>12. CASE \E n \in Listings : RunListing(n)
  BY <1>12, RunListingStep
<1>13. CASE Quit
  BY <1>13, QuitStep
<1>14. CASE \E key \in Keys : NextLine(key)
  BY <1>14, NextLineStep
<1>15. QED
  BY <1>1, <1>2, <1>3, <1>4, <1>5, <1>6, <1>7, <1>8, <1>9, <1>10, <1>11, <1>12, <1>13, <1>14
     DEF Handle

LEMMA LineSteps ==
  ASSUME ShellInv, [MCNext]_<<shellVars, promise, unread>>
  PROVE  Promised!LineNext
<1>1. CASE MCPress \/ MCIntercept \/ UNCHANGED <<shellVars, promise, unread>>
  <2>1. promise' = promise /\ history' = history
    BY <1>1 DEF MCPress, Press, MCIntercept, Intercept, shellVars
  <2>2. QED
    BY <2>1, OutputStep
<1>2. CASE MCHandle
  <2>1. Handle /\ promise' = Promise'
    BY <1>2 DEF MCHandle
  <2>2. Core'
    BY <2>1, HandleCore DEF ShellInv
  <2>3. CASE promise.mode = "astray"
    BY <2>3 DEF Promised!LineNext
  <2>4. CASE promise.mode # "astray"
    BY <2>1, <2>2, <2>4, HandleStep
  <2>5. QED
    BY <2>3, <2>4
<1>3. QED
  BY <1>1, <1>2 DEF MCNext

\* The shell implements CommandLine: what is run and kept is the line on the
\* window, for windows, prompts, buffers and histories of any size.
THEOREM RunsTheLineShown == MCSpec => RunsWhatIsShown
<1>1. MCInit => Promised!LineInit
  BY LineInits
<1>2. ShellInv /\ [MCNext]_<<shellVars, promise, unread>> =>
        [Promised!LineNext]_Promised!lineVars
  BY LineSteps
<1>3. QED
  BY <1>1, <1>2, ShellAlwaysSound, PTL DEF MCSpec, RunsWhatIsShown, Promised!LineSpec
=============================================================================
