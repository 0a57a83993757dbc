--------------------------- MODULE Windows_proofs ---------------------------
(***************************************************************************)
(* That the books of the window manager agree, and that what it saves      *)
(* behind its windows is always what lies below them.                      *)
(*                                                                         *)
(* Painted says without a loop what the screen looks like with the lowest  *)
(* windows of the stack on it.  The loops of the source are then what they *)
(* do: hiding down to a place leaves what is painted below it, and showing *)
(* up from there paints the rest.                                          *)
(***************************************************************************)
EXTENDS MCWindows, Induction, FiniteSetTheorems

\* The types of the manager.
Pixel == Handle \cup {Background}

WindowType == [buffer : Pixel, pid : 0 .. 255, xloc : Nat, yloc : Nat]

RearType == {r \in [Handle -> UNION {[Buffer(h) -> Pixel] : h \in Handle}] :
               \A h \in Handle : r[h] \in [Buffer(h) -> Pixel]}

Manager == [windows : [Id -> WindowType], windows_exist : SUBSET Id,
            ids : [Id -> Id \cup {NoId}], top : 0 .. MAX_WINDOW_NUM,
            stray : {"no", "yes"}, screen : [Cell -> Pixel], rear : RearType]

\* Painting changes nothing else.
SameBooks(m, n) ==
  /\ n.windows = m.windows /\ n.windows_exist = m.windows_exist
  /\ n.ids = m.ids /\ n.top = m.top /\ n.stray = m.stray

\* Rear buffers are functions of the right kind.
LEMMA RearIn ==
  ASSUME NEW r, r = [h \in Handle |-> r[h]], \A h \in Handle : r[h] \in [Buffer(h) -> Pixel]
  PROVE  r \in RearType
<1>1. \A h \in Handle : r[h] \in UNION {[Buffer(g) -> Pixel] : g \in Handle}
  OBVIOUS
<1>2. r \in [Handle -> UNION {[Buffer(h) -> Pixel] : h \in Handle}]
  BY <1>1
<1>3. QED
  BY <1>2 DEF RearType

\* A pixel of a buffer and its cell of the screen determine each other.
LEMMA CellsOfBuffer ==
  ASSUME NEW w \in WindowType, w.buffer \in Handle
  PROVE  /\ \A c \in Covered(w) : /\ c \in Cell /\ PixelAt(w, c) \in Visible(w)
                                  /\ PixelAt(w, c) \in Buffer(w.buffer)
                                  /\ CellOf(w, PixelAt(w, c)) = c
         /\ \A b \in Visible(w) : CellOf(w, b) \in Cell
<1>1. ASSUME NEW c \in Covered(w)
      PROVE  /\ c \in Cell /\ PixelAt(w, c) \in Visible(w) /\ PixelAt(w, c) \in Buffer(w.buffer)
             /\ CellOf(w, PixelAt(w, c)) = c
  <2>1. PICK b \in Visible(w) : c = CellOf(w, b)
    BY DEF Covered
  <2>2. c = <<w.yloc + b[1], w.xloc + b[2]>> /\ c \in Cell /\ b \in Buffer(w.buffer)
    BY <2>1 DEF CellOf, Visible
  <2>3. PICK y \in 0 .. Ylen[w.buffer] - 1, x \in 0 .. Xlen[w.buffer] - 1 : b = <<y, x>>
    BY <2>2 DEF Buffer
  <2>4. w.yloc \in Nat /\ w.xloc \in Nat /\ y \in Int /\ x \in Int
    BY DEF WindowType
  <2>5. c[1] = w.yloc + y /\ c[2] = w.xloc + x
    BY <2>2, <2>3
  <2>6. PixelAt(w, c) = <<y, x>>
    BY <2>4, <2>5 DEF PixelAt
  <2>7. QED
    BY <2>1, <2>2, <2>3, <2>6
<1>2. \A b \in Visible(w) : CellOf(w, b) \in Cell
  BY DEF Visible, CellOf
<1>3. QED
  BY <1>1, <1>2

\* winmgr_show_window paints the window, and saves what was there.
Shows(m, id, n) ==
  /\ n \in Manager /\ SameBooks(m, n)
  /\ \A c \in Cell : n.screen[c] =
       IF c \in Covered(m.windows[id]) THEN m.windows[id].buffer ELSE m.screen[c]
  /\ \A h \in Handle : h # m.windows[id].buffer => n.rear[h] = m.rear[h]
  /\ \A c \in Covered(m.windows[id]) :
       n.rear[m.windows[id].buffer][PixelAt(m.windows[id], c)] = m.screen[c]

LEMMA ShowShows ==
  ASSUME NEW m \in Manager, NEW id \in Id, m.windows[id].buffer \in Handle
  PROVE  Shows(m, id, Show(m, id))
<1> DEFINE w == m.windows[id]
           n == Show(m, id)
           saved == [b \in DOMAIN m.rear[w.buffer] |->
                      IF b \in Visible(w) THEN m.screen[CellOf(w, b)] ELSE m.rear[w.buffer][b]]
           painted == [c \in Cell |-> IF c \in Covered(w) THEN w.buffer ELSE m.screen[c]]
<1>1. w \in WindowType /\ w.buffer \in Handle
  BY DEF Manager
<1>2. /\ m.rear \in RearType /\ m.screen \in [Cell -> Pixel]
      /\ m.rear[w.buffer] \in [Buffer(w.buffer) -> Pixel]
  BY <1>1 DEF Manager, RearType
<1>3. n = [m EXCEPT !.rear = [m.rear EXCEPT ![w.buffer] = saved], !.screen = painted]
  BY DEF Show, Manager
<1> HIDE DEF n
<1>4. /\ n.rear = [m.rear EXCEPT ![w.buffer] = saved] /\ n.screen = painted
      /\ SameBooks(m, n)
  BY <1>3 DEF SameBooks, Manager
<1>5. saved \in [Buffer(w.buffer) -> Pixel]
  <2>1. DOMAIN m.rear[w.buffer] = Buffer(w.buffer)
    BY <1>2
  <2>2. \A b \in Visible(w) : m.screen[CellOf(w, b)] \in Pixel
    BY <1>1, <1>2, CellsOfBuffer
  <2>3. QED
    BY <1>2, <2>1, <2>2
<1>6. painted \in [Cell -> Pixel]
  BY <1>1, <1>2 DEF Pixel
<1>7. \A c \in Cell : n.screen[c] = IF c \in Covered(w) THEN w.buffer ELSE m.screen[c]
  BY <1>4
<1>8. ASSUME NEW c \in Covered(w) PROVE saved[PixelAt(w, c)] = m.screen[c]
  <2>1. /\ PixelAt(w, c) \in Visible(w) /\ PixelAt(w, c) \in Buffer(w.buffer)
        /\ CellOf(w, PixelAt(w, c)) = c
    BY <1>1, CellsOfBuffer
  <2>2. QED
    BY <1>2, <2>1
<1> HIDE DEF saved, painted
<1>9. /\ n.rear[w.buffer] = saved /\ DOMAIN m.rear = Handle
      /\ \A h \in Handle : h # w.buffer => n.rear[h] = m.rear[h]
  BY <1>1, <1>2, <1>4 DEF RearType
<1>10. n.rear \in RearType
  <2>1. n.rear = [h \in Handle |-> n.rear[h]]
    BY <1>4, <1>9
  <2>2. \A h \in Handle : n.rear[h] \in [Buffer(h) -> Pixel]
    BY <1>2, <1>5, <1>9 DEF RearType
  <2>3. QED
    BY <2>1, <2>2, RearIn
<1>11. n \in Manager
  <2>1. n = [windows |-> m.windows, windows_exist |-> m.windows_exist, ids |-> m.ids,
             top |-> m.top, stray |-> m.stray, screen |-> n.screen, rear |-> n.rear]
    BY <1>3, <1>4 DEF Manager
  <2>2. n.screen \in [Cell -> Pixel]
    BY <1>4, <1>6
  <2>3. QED
    BY <1>10, <2>1, <2>2 DEF Manager
<1>12. QED
  BY <1>4, <1>7, <1>8, <1>9, <1>11 DEF Shows, n

-----------------------------------------------------------------------------
(* The screen with the lowest k windows of the stack *)

\* The window at a place of the stack.
At(m, k) == m.windows[m.ids[k]]

\* The places below k that cover a cell.
Over(m, k, c) == {j \in 0 .. k - 1 : c \in Covered(At(m, j))}

\* The window at the highest of some places.
Highest(m, O) ==
  IF O = {} THEN Background ELSE At(m, CHOOSE j \in O : \A i \in O : i <= j).buffer

Painted(m, k) == [c \in Cell |-> Highest(m, Over(m, k, c))]

\* The windows of the stack are windows, each with its own buffer.
Piled(m) ==
  /\ m \in Manager
  /\ \A k \in 0 .. m.top - 1 : m.ids[k] \in Id /\ At(m, k).buffer \in Handle
  /\ \A j, k \in 0 .. m.top - 1 : At(m, j).buffer = At(m, k).buffer => j = k

\* Below k, every window has saved what lies below it.
SavedBelow(m, k) ==
  \A j \in 0 .. k - 1 : \A c \in Covered(At(m, j)) :
    m.rear[At(m, j).buffer][PixelAt(At(m, j), c)] = Painted(m, j)[c]

\* The screen shows the whole stack.
WellShown(m) == Piled(m) /\ SavedBelow(m, m.top) /\ m.screen = Painted(m, m.top)

\* Window k covers what is below it.
LEMMA PaintedUp ==
  ASSUME NEW m, NEW k \in Nat, NEW c \in Cell
  PROVE  Painted(m, k + 1)[c] =
           IF c \in Covered(At(m, k)) THEN At(m, k).buffer ELSE Painted(m, k)[c]
<1> DEFINE O(n) == Over(m, n, c)
<1>1. CASE c \in Covered(At(m, k))
  <2>1. k \in O(k + 1) /\ \A i \in O(k + 1) : i \in Int /\ i <= k
    BY <1>1 DEF Over
  <2> HIDE DEF O
  <2>2. \A j \in O(k + 1) : (\A i \in O(k + 1) : i <= j) => j = k
    BY <2>1
  <2>3. k = CHOOSE j \in O(k + 1) : \A i \in O(k + 1) : i <= j
    BY <2>1, <2>2
  <2>4. O(k + 1) # {}
    BY <2>1
  <2>5. Painted(m, k + 1)[c] = At(m, k).buffer
    BY <2>3, <2>4 DEF Painted, Highest, O
  <2>6. QED
    BY <1>1, <2>5
<1>2. CASE c \notin Covered(At(m, k))
  <2>1. Over(m, k + 1, c) = Over(m, k, c)
    BY <1>2 DEF Over
  <2>2. QED
    BY <1>2, <2>1 DEF Painted
<1>3. QED
  BY <1>1, <1>2

\* With no window, nothing.
LEMMA PaintedNone ==
  ASSUME NEW m, NEW c \in Cell
  PROVE  Painted(m, 0)[c] = Background
<1>1. Over(m, 0, c) = {}
  BY DEF Over
<1>2. QED
  BY <1>1 DEF Painted, Highest

\* Of the places below one there is a highest.
LEMMA HasHighest ==
  ASSUME NEW k \in Nat, NEW O \in SUBSET (0 .. k - 1), O # {}
  PROVE  \E j \in O : \A i \in O : i <= j
<1> DEFINE T == {k - j : j \in O}
<1>1. T \in SUBSET Nat /\ T # {}
  OBVIOUS
<1>2. PICK x \in T : \A y \in T : x <= y
  BY <1>1, LeastNat
<1>3. PICK j \in O : x = k - j
  BY <1>2
<1>4. ASSUME NEW i \in O PROVE i <= j
  <2>1. x <= k - i
    BY <1>2
  <2>2. QED
    BY <1>3, <2>1
<1>5. QED
  BY <1>4

\* It is made of the windows below, and of them alone.
LEMMA PaintedSame ==
  ASSUME NEW m, NEW n, NEW k \in Nat, \A j \in 0 .. k - 1 : At(n, j) = At(m, j)
  PROVE  Painted(n, k) = Painted(m, k)
<1>1. \A c \in Cell : Over(n, k, c) = Over(m, k, c)
  BY DEF Over
<1>2. ASSUME NEW c \in Cell PROVE Painted(n, k)[c] = Painted(m, k)[c]
  <2> DEFINE O == Over(m, k, c)
             top == CHOOSE j \in O : \A i \in O : i <= j
  <2>1. CASE O = {}
    BY <1>1, <2>1 DEF Painted, Highest
  <2>2. CASE O # {}
    <3>1. O \in SUBSET (0 .. k - 1)
      BY DEF Over
    <3>2. \E j \in O : \A i \in O : i <= j
      BY <2>2, <3>1, HasHighest
    <3>3. top \in 0 .. k - 1
      BY <3>1, <3>2
    <3> HIDE DEF top
    <3>4. At(n, top) = At(m, top)
      BY <3>3
    <3>5. Painted(m, k)[c] = At(m, top).buffer
      BY <2>2 DEF Painted, Highest, top
    <3>6. Painted(n, k)[c] = At(n, top).buffer
      BY <1>1, <2>2 DEF Painted, Highest, top
    <3>7. QED
      BY <3>4, <3>5, <3>6
  <2>3. QED
    BY <2>1, <2>2
<1>3. Painted(n, k) = [c \in Cell |-> Painted(n, k)[c]]
      /\ Painted(m, k) = [c \in Cell |-> Painted(m, k)[c]]
  BY DEF Painted
<1>4. QED
  BY <1>2, <1>3

LEMMA PaintedType ==
  ASSUME NEW m, Piled(m), NEW k \in 0 .. m.top
  PROVE  Painted(m, k) \in [Cell -> Pixel]
<1> DEFINE S == {i \in 0 .. m.top : Painted(m, i) \in [Cell -> Pixel]}
<1>1. \A i \in Nat : Painted(m, i) = [c \in Cell |-> Painted(m, i)[c]]
  BY DEF Painted
<1>2. m.top \in Nat
  BY WindowAssumption DEF Piled, Manager
<1>3. 0 \in S
  <2>1. \A c \in Cell : Painted(m, 0)[c] \in Pixel
    BY PaintedNone DEF Pixel
  <2>2. QED
    BY <1>1, <1>2, <2>1
<1>4. ASSUME NEW i \in 0 .. m.top, i < m.top, i \in S PROVE i + 1 \in S
  <2>1. i \in Nat /\ i \in 0 .. m.top - 1 /\ i + 1 \in 0 .. m.top
    BY <1>2, <1>4
  <2>2. \A c \in Cell : Painted(m, i + 1)[c] \in Pixel
    <3>1. At(m, i).buffer \in Pixel
      BY <2>1 DEF Piled, Pixel
    <3>2. QED
      BY <1>4, <2>1, <3>1, PaintedUp
  <2>3. QED
    BY <1>1, <2>1, <2>2
<1>5. 0 .. m.top \subseteq S
  <2> HIDE DEF S
  <2>1. QED
    BY <1>2, <1>3, <1>4, RangeInSet
<1>6. QED
  BY <1>5

-----------------------------------------------------------------------------
(* The loops over the stack *)

\* Hiding a window uncovers what is below it.
LEMMA HideUncovers ==
  ASSUME NEW m, Piled(m), SavedBelow(m, m.top), NEW k \in Nat, k < m.top
  PROVE  Hide([m EXCEPT !.screen = Painted(m, k + 1)], m.ids[k])
           = [m EXCEPT !.screen = Painted(m, k)]
<1> DEFINE n == [m EXCEPT !.screen = Painted(m, k + 1)]
           w == At(m, k)
           s == [c \in Cell |-> IF c \in Covered(w) THEN n.rear[w.buffer][PixelAt(w, c)]
                                ELSE n.screen[c]]
<1>1. m \in Manager /\ m.top \in Nat /\ k \in 0 .. m.top - 1
  BY WindowAssumption DEF Piled, Manager
<1>2. n.windows = m.windows /\ n.rear = m.rear /\ n.screen = Painted(m, k + 1)
  BY <1>1 DEF Manager
<1> HIDE DEF n
<1>3. Hide(n, m.ids[k]) = [n EXCEPT !.screen = s]
  BY <1>1, <1>2 DEF Hide, At, n, Manager
<1>4. ASSUME NEW c \in Cell PROVE s[c] = Painted(m, k)[c]
  <2>1. c \in Covered(w) => m.rear[w.buffer][PixelAt(w, c)] = Painted(m, k)[c]
    BY <1>1 DEF SavedBelow
  <2>2. QED
    BY <1>2, <2>1, PaintedUp
<1>5. s = Painted(m, k)
  BY <1>4 DEF Painted
<1> HIDE DEF s
<1>6. QED
  BY <1>1, <1>3, <1>5 DEF n, Manager

\* Hiding from the top down to a place leaves what is painted below it.
LEMMA HideDownToIs ==
  ASSUME NEW m, WellShown(m), NEW i \in 0 .. m.top
  PROVE  HideDownTo(m, i) = [m EXCEPT !.screen = Painted(m, i)]
<1> DEFINE f == [k \in 0 .. m.top |-> [m EXCEPT !.screen = Painted(m, k)]]
           hidden == CHOOSE h : h = [k \in 0 .. m.top |->
                       IF k < m.top THEN Hide(h[k + 1], m.ids[k]) ELSE m]
<1>1. m \in Manager /\ m.top \in Nat /\ m.screen = Painted(m, m.top)
      /\ Piled(m) /\ SavedBelow(m, m.top)
  BY WindowAssumption DEF WellShown, Piled, Manager
<1>2. f[m.top] = m
  <2>1. [m EXCEPT !.screen = m.screen] = m
    BY <1>1 DEF Manager
  <2>2. QED
    BY <1>1, <2>1
<1>3. ASSUME NEW k \in 0 .. m.top, k < m.top PROVE f[k] = Hide(f[k + 1], m.ids[k])
  <2>1. k + 1 \in 0 .. m.top /\ k \in Nat
    BY <1>1, <1>3
  <2>2. f[k + 1] = [m EXCEPT !.screen = Painted(m, k + 1)]
        /\ f[k] = [m EXCEPT !.screen = Painted(m, k)]
    BY <2>1
  <2> HIDE DEF f
  <2>3. QED
    BY <1>1, <1>3, <2>1, <2>2, HideUncovers
<1>4. f = [k \in 0 .. m.top |-> f[k]]
  OBVIOUS
<1> HIDE DEF f
<1>5. f = [k \in 0 .. m.top |-> IF k < m.top THEN Hide(f[k + 1], m.ids[k]) ELSE m]
  <2>1. \A k \in 0 .. m.top : f[k] = IF k < m.top THEN Hide(f[k + 1], m.ids[k]) ELSE m
    BY <1>1, <1>2, <1>3
  <2>2. QED
    BY <1>4, <2>1
<1>6. hidden = [k \in 0 .. m.top |-> IF k < m.top THEN Hide(hidden[k + 1], m.ids[k]) ELSE m]
  BY <1>5
<1>7. HideDownTo(m, i) = hidden[i]
  BY DEF HideDownTo
<1> HIDE DEF hidden
<1>8. FollowDown(f, hidden, m.top)
  <2>1. hidden[m.top] = m
    BY <1>1, <1>6
  <2>2. \A k \in 0 .. m.top : k < m.top => hidden[k] = Hide(hidden[k + 1], m.ids[k])
    BY <1>6
  <2>3. QED
    BY <1>2, <1>3, <2>1, <2>2 DEF FollowDown
<1>9. hidden[i] = f[i]
  BY <1>1, <1>8, RecursionBelowUnique
<1>10. QED
  BY <1>7, <1>9 DEF f

\* From place i on, windows have saved what lies below them in n as well.
LEMMA ShowSaves ==
  ASSUME NEW m, Piled(m), NEW k \in Nat, k < m.top, m.screen = Painted(m, k),
         SavedBelow(m, k)
  PROVE  LET n == Show(m, m.ids[k])
         IN  /\ Piled(n) /\ SameBooks(m, n)
             /\ n.screen = Painted(n, k + 1) /\ SavedBelow(n, k + 1)
<1> DEFINE id == m.ids[k]
           w == At(m, k)
           n == Show(m, id)
<1>1. /\ m \in Manager /\ m.top \in Nat /\ k \in 0 .. m.top - 1 /\ id \in Id
      /\ w.buffer \in Handle /\ w = m.windows[id]
  BY WindowAssumption DEF Piled, Manager, At
<1>2. Shows(m, id, n)
  BY <1>1, ShowShows
<1> HIDE DEF n
<1>3. /\ n \in Manager /\ SameBooks(m, n)
      /\ \A c \in Cell : n.screen[c] = IF c \in Covered(w) THEN w.buffer ELSE m.screen[c]
      /\ \A h \in Handle : h # w.buffer => n.rear[h] = m.rear[h]
      /\ \A c \in Covered(w) : n.rear[w.buffer][PixelAt(w, c)] = m.screen[c]
  BY <1>1, <1>2 DEF Shows
<1>4. n.top = m.top /\ n.ids = m.ids /\ \A j : At(n, j) = At(m, j)
  BY <1>3 DEF SameBooks, At
<1>5. Piled(n)
  BY <1>3, <1>4 DEF Piled
<1>6. \A j \in Nat : Painted(n, j) = Painted(m, j)
  BY <1>4, PaintedSame
<1>7. n.screen = Painted(n, k + 1)
  <2>1. \A c \in Cell : n.screen[c] = Painted(m, k + 1)[c]
    BY <1>3, PaintedUp
  <2>2. n.screen = [c \in Cell |-> n.screen[c]]
    BY <1>3 DEF Manager
  <2>3. Painted(n, k + 1) = [c \in Cell |-> Painted(n, k + 1)[c]]
    BY DEF Painted
  <2>4. QED
    BY <1>6, <2>1, <2>2, <2>3
<1>8. SavedBelow(n, k + 1)
  <2>1. ASSUME NEW j \in 0 .. k, NEW c \in Covered(At(n, j))
        PROVE  n.rear[At(n, j).buffer][PixelAt(At(n, j), c)] = Painted(n, j)[c]
    <3>1. CASE j = k
      BY <1>3, <1>4, <1>6, <2>1, <3>1
    <3>2. CASE j # k
      <4>1. j \in 0 .. k - 1 /\ j \in 0 .. m.top - 1 /\ j \in Nat
        BY <1>1, <3>2
      <4>2. At(m, j).buffer # w.buffer /\ At(m, j).buffer \in Handle
        BY <1>1, <3>2, <4>1 DEF Piled
      <4>3. m.rear[At(m, j).buffer][PixelAt(At(m, j), c)] = Painted(m, j)[c]
        BY <1>4, <4>1 DEF SavedBelow
      <4>4. QED
        BY <1>3, <1>4, <1>6, <4>1, <4>2, <4>3
    <3>3. QED
      BY <3>1, <3>2
  <2>2. 0 .. (k + 1) - 1 = 0 .. k
    OBVIOUS
  <2>3. QED
    BY <2>1, <2>2 DEF SavedBelow
<1>9. QED
  BY <1>3, <1>5, <1>7, <1>8 DEF n

\* The recursion of ShowUpFrom, unfolded once.
LEMMA ShownFunction ==
  ASSUME NEW m, Piled(m), NEW i \in 0 .. m.top
  PROVE  \E f : /\ \A k \in 0 .. m.top : f[k] = IF k > i THEN Show(f[k - 1], m.ids[k - 1]) ELSE m
                /\ ShowUpFrom(m, i) = f[m.top]
<1> DEFINE V == {v \in Manager : SameBooks(m, v)}
           step == [x \in (1 .. m.top) \X V |->
                     IF x[1] > i THEN Show(x[2], m.ids[x[1] - 1]) ELSE m]
           shown == CHOOSE h : h = [k \in 0 .. m.top |->
                      IF k > i THEN Show(h[k - 1], m.ids[k - 1]) ELSE m]
<1>1. m \in Manager /\ m.top \in Nat /\ m \in V
  BY WindowAssumption DEF Piled, Manager, SameBooks
<1>2. ASSUME NEW k \in 1 .. m.top, NEW v \in V PROVE Show(v, m.ids[k - 1]) \in V
  <2>1. k - 1 \in 0 .. m.top - 1
    BY <1>1
  <2>2. m.ids[k - 1] \in Id /\ v.windows[m.ids[k - 1]].buffer \in Handle
    BY <2>1 DEF Piled, At, SameBooks
  <2>3. Shows(v, m.ids[k - 1], Show(v, m.ids[k - 1]))
    BY <2>2, ShowShows
  <2>4. QED
    BY <2>3 DEF Shows, SameBooks
<1>3. Turns(m.top, V, m, step)
  <2>1. ASSUME NEW x \in (1 .. m.top) \X V
        PROVE  (IF x[1] > i THEN Show(x[2], m.ids[x[1] - 1]) ELSE m) \in V
    <3>1. x[1] \in 1 .. m.top /\ x[2] \in V
      BY <2>1
    <3> HIDE DEF V
    <3>2. QED
      BY <1>1, <1>2, <3>1
  <2> HIDE DEF V
  <2>2. step \in [(1 .. m.top) \X V -> V]
    BY <2>1
  <2>3. QED
    BY <1>1, <2>2 DEF Turns
<1> HIDE DEF V
<1>4. PICK f \in [0 .. m.top -> V] : Counts(f, m.top, m, step)
  <2> HIDE DEF step
  <2>1. QED
    BY <1>3, RecursionDown
<1>5. \A k \in 0 .. m.top : f[k] = IF k > i THEN Show(f[k - 1], m.ids[k - 1]) ELSE m
  <2>1. f[0] = m /\ \A k \in 1 .. m.top : f[k] = step[<<k, f[k - 1]>>]
    BY <1>4 DEF Counts
  <2>2. ASSUME NEW k \in 1 .. m.top
        PROVE  step[<<k, f[k - 1]>>] = IF k > i THEN Show(f[k - 1], m.ids[k - 1]) ELSE m
    <3>1. k - 1 \in 0 .. m.top /\ f[k - 1] \in V
      BY <1>1, <2>2
    <3>2. <<k, f[k - 1]>> \in (1 .. m.top) \X V
      BY <3>1
    <3>3. QED
      BY <3>2
  <2> HIDE DEF step
  <2>3. ASSUME NEW k \in 0 .. m.top
        PROVE  f[k] = IF k > i THEN Show(f[k - 1], m.ids[k - 1]) ELSE m
    <3>1. CASE k = 0
      BY <1>1, <2>1, <3>1
    <3>2. CASE k # 0
      <4>1. k \in 1 .. m.top
        BY <1>1, <3>2
      <4>2. QED
        BY <2>1, <2>2, <4>1
    <3>3. QED
      BY <3>1, <3>2
  <2>4. QED
    BY <2>3
<1>6. f = [k \in 0 .. m.top |-> IF k > i THEN Show(f[k - 1], m.ids[k - 1]) ELSE m]
  BY <1>5
<1>7. shown = [k \in 0 .. m.top |-> IF k > i THEN Show(shown[k - 1], m.ids[k - 1]) ELSE m]
  BY <1>6
<1>8. ShowUpFrom(m, i) = shown[m.top]
  BY DEF ShowUpFrom
<1> HIDE DEF shown
<1>9. \A k \in 0 .. m.top : shown[k] = IF k > i THEN Show(shown[k - 1], m.ids[k - 1]) ELSE m
  BY <1>7
<1>10. QED
  BY <1>8, <1>9

\* Showing from a place up paints the rest, and each window saves what is
\* below it.
LEMMA ShowUpFromIs ==
  ASSUME NEW m, Piled(m), NEW i \in 0 .. m.top, m.screen = Painted(m, i), SavedBelow(m, i)
  PROVE  WellShown(ShowUpFrom(m, i)) /\ SameBooks(m, ShowUpFrom(m, i))
<1>1. PICK f : /\ \A k \in 0 .. m.top : f[k] = IF k > i THEN Show(f[k - 1], m.ids[k - 1]) ELSE m
               /\ ShowUpFrom(m, i) = f[m.top]
  BY ShownFunction
<1>2. m.top \in Nat
  BY WindowAssumption DEF Piled, Manager
<1> DEFINE Sofar(k) == /\ Piled(f[k]) /\ SameBooks(m, f[k])
                       /\ f[k].screen = Painted(f[k], k) /\ SavedBelow(f[k], k)
           S == {k \in 0 .. m.top : k >= i => Sofar(k)}
<1>3. Sofar(i)
  <2>1. f[i] = m
    BY <1>1, <1>2
  <2>2. QED
    BY <2>1 DEF SameBooks
<1>4. 0 \in S
  BY <1>2, <1>3
<1>5. ASSUME NEW k \in 0 .. m.top, k < m.top, k \in S PROVE k + 1 \in S
  <2>1. CASE k + 1 > i
    <3>1. k >= i /\ k + 1 \in 0 .. m.top /\ (k + 1) - 1 = k /\ k \in Nat
      BY <1>2, <1>5, <2>1
    <3>2. f[k + 1] = Show(f[k], m.ids[k])
      BY <1>1, <2>1, <3>1
    <3>3. Sofar(k)
      BY <1>5, <3>1
    <3> DEFINE n == f[k]
    <3>4. m.ids = n.ids /\ n.top = m.top
      BY <3>3 DEF SameBooks
    <3> HIDE DEF n
    <3>5. /\ Piled(Show(n, n.ids[k])) /\ SameBooks(n, Show(n, n.ids[k]))
          /\ Show(n, n.ids[k]).screen = Painted(Show(n, n.ids[k]), k + 1)
          /\ SavedBelow(Show(n, n.ids[k]), k + 1)
      BY <1>5, <3>1, <3>3, <3>4, ShowSaves DEF n
    <3>6. Sofar(k + 1)
      BY <3>2, <3>3, <3>4, <3>5 DEF SameBooks, n
    <3> HIDE DEF Sofar
    <3>7. QED
      BY <3>1, <3>6
  <2>2. CASE ~(k + 1 > i)
    <3>1. k + 1 = i \/ k + 1 < i
      BY <2>2
    <3> HIDE DEF Sofar
    <3>2. QED
      BY <1>2, <1>3, <1>5, <3>1
  <2>3. QED
    BY <2>1, <2>2
<1>6. 0 .. m.top \subseteq S
  <2> HIDE DEF S
  <2>1. QED
    BY <1>2, <1>4, <1>5, RangeInSet
<1>7. Sofar(m.top)
  <2> HIDE DEF Sofar
  <2>1. QED
    BY <1>2, <1>6
<1>8. QED
  BY <1>1, <1>7 DEF WellShown, SameBooks

-----------------------------------------------------------------------------
(* Taking a window out of the stack, and putting one on top *)

\* What holds of the stack holds of another manager with the same one.
LEMMA WellShownSame ==
  ASSUME NEW m, WellShown(m), NEW n \in Manager, n.top = m.top,
         n.screen = m.screen, n.rear = m.rear,
         \A j \in 0 .. m.top - 1 : n.ids[j] = m.ids[j] /\ At(n, j) = At(m, j)
  PROVE  WellShown(n)
<1>1. m.top \in Nat /\ Piled(m) /\ SavedBelow(m, m.top) /\ m.screen = Painted(m, m.top)
  BY WindowAssumption DEF WellShown, Piled, Manager
<1>2. \A k \in 0 .. m.top : Painted(n, k) = Painted(m, k)
  <2>1. ASSUME NEW k \in 0 .. m.top PROVE Painted(n, k) = Painted(m, k)
    <3>1. k \in Nat /\ \A j \in 0 .. k - 1 : At(n, j) = At(m, j)
      BY <1>1
    <3>2. QED
      BY <3>1, PaintedSame
  <2>2. QED
    BY <2>1
<1>3. Piled(n)
  BY <1>1 DEF Piled
<1>4. SavedBelow(n, n.top)
  BY <1>1, <1>2 DEF SavedBelow
<1>5. QED
  BY <1>1, <1>2, <1>3, <1>4 DEF WellShown

\* r is m without the window at place p of the stack.
Removes(m, p, r) ==
  /\ WellShown(r)
  /\ r.windows = m.windows /\ r.windows_exist = m.windows_exist /\ r.stray = m.stray
  /\ r.top = m.top - 1
  /\ \A k \in 0 .. r.top - 1 : r.ids[k] = IF k < p THEN m.ids[k] ELSE m.ids[k + 1]

\* The array has a window of the stack at its place in the stack, whatever
\* is left above the top.
LEMMA PlaceOnStack ==
  ASSUME NEW m, Piled(m), NEW p \in 0 .. m.top - 1
  PROVE  Found(m, m.ids[p]) # {} /\ PlaceOf(m, m.ids[p]) = p
<1> DEFINE F == Found(m, m.ids[p])
<1>1. m \in Manager /\ m.top \in Nat /\ m.top <= MAX_WINDOW_NUM
  BY WindowAssumption DEF Piled, Manager
<1>2. p \in F /\ \A i \in F : i \in Nat
  BY <1>1, WindowAssumption DEF Found, Id
<1>3. ASSUME NEW i \in F PROVE p <= i
  <2>1. CASE i < p
    <3>0. i \in Nat
      BY <1>2
    <3>1. i \in 0 .. m.top - 1 /\ m.ids[i] = m.ids[p]
      BY <1>1, <2>1, <3>0 DEF Found
    <3>2. At(m, i).buffer = At(m, p).buffer
      BY <3>1 DEF At
    <3>3. QED
      BY <2>1, <3>1, <3>2 DEF Piled
  <2>2. QED
    BY <1>2, <2>1
<1> HIDE DEF F
<1>4. p = CHOOSE i \in F : \A j \in F : i <= j
  <2>1. \A i \in F : (\A j \in F : i <= j) => i = p
    BY <1>2, <1>3
  <2>2. QED
    BY <1>2, <1>3, <2>1
<1>5. QED
  BY <1>2, <1>4 DEF PlaceOf, F

\* n is m with another stack.
Restacked(m, n, ids, top) ==
  /\ n \in Manager /\ n.ids = ids /\ n.top = top
  /\ n.windows = m.windows /\ n.windows_exist = m.windows_exist /\ n.stray = m.stray
  /\ n.screen = m.screen /\ n.rear = m.rear

LEMMA Restack ==
  ASSUME NEW m \in Manager, NEW ids \in [Id -> Id \cup {NoId}], NEW top \in 0 .. MAX_WINDOW_NUM
  PROVE  Restacked(m, [m EXCEPT !.ids = ids, !.top = top], ids, top)
<1> DEFINE n == [m EXCEPT !.ids = ids, !.top = top]
<1>1. n = [[m EXCEPT !.ids = ids] EXCEPT !.top = top]
  BY DEF Manager
<1> DEFINE l == [m EXCEPT !.ids = ids]
<1>2. Restacked(m, l, ids, m.top)
  BY DEF Manager, Restacked
<1>3. n = [l EXCEPT !.top = top]
  BY <1>1
<1> HIDE DEF l, n
<1>4. Restacked(l, n, l.ids, top)
  BY <1>2, <1>3 DEF Manager, Restacked
<1>5. QED
  BY <1>2, <1>4 DEF Restacked, n

LEMMA StackRemoveIs ==
  ASSUME NEW m, WellShown(m), NEW p \in 0 .. m.top - 1
  PROVE  Removes(m, p, StackRemove(m, m.ids[p]))
<1> DEFINE hidden == [m EXCEPT !.screen = Painted(m, p)]
           moved == [k \in Id |-> IF p <= k /\ k < m.top - 1 THEN m.ids[k + 1] ELSE m.ids[k]]
           lower == [hidden EXCEPT !.ids = moved, !.top = m.top - 1]
<1>1. /\ m \in Manager /\ m.top \in Nat /\ m.top <= MAX_WINDOW_NUM /\ MAX_WINDOW_NUM <= 64
      /\ Piled(m) /\ SavedBelow(m, m.top) /\ m.screen = Painted(m, m.top)
      /\ p \in Nat /\ p < m.top /\ p \in 0 .. m.top
  BY WindowAssumption DEF WellShown, Piled, Manager
<1>2. HideDownTo(m, p) = hidden
  BY <1>1, HideDownToIs
<1>3. StackRemove(m, m.ids[p]) = ShowUpFrom(lower, p)
  <2>1. (m.top - 1) % 256 = m.top - 1
    <3>1. m.top - 1 \in 0 .. 255 /\ \A x \in 0 .. 255 : x % 256 = x
      BY <1>1, WindowAssumption
    <3>2. QED
      BY <3>1
  <2>2. hidden.top = m.top /\ hidden.ids = m.ids
    BY <1>1 DEF Manager
  <2>3. Found(m, m.ids[p]) # {} /\ PlaceOf(m, m.ids[p]) = p
    BY <1>1, PlaceOnStack
  <2> HIDE DEF hidden
  <2>4. QED
    BY <1>2, <2>1, <2>2, <2>3 DEF StackRemove
<1>4. Painted(m, p) \in [Cell -> Pixel]
  BY <1>1, PaintedType
<1>5. moved \in [Id -> Id \cup {NoId}]
  <2>1. ASSUME NEW k \in Id PROVE moved[k] \in Id \cup {NoId}
    <3>1. k < m.top - 1 => k + 1 \in Id
      BY <1>1, WindowAssumption DEF Id
    <3>2. m.ids \in [Id -> Id \cup {NoId}]
      BY <1>1 DEF Manager
    <3>3. QED
      BY <3>1, <3>2
  <2>2. QED
    BY <2>1
<1>6. /\ lower \in Manager /\ lower.top = m.top - 1 /\ lower.ids = moved
      /\ lower.windows = m.windows /\ lower.windows_exist = m.windows_exist
      /\ lower.stray = m.stray /\ lower.screen = Painted(m, p) /\ lower.rear = m.rear
  <2>1. m.top - 1 \in 0 .. MAX_WINDOW_NUM
    BY <1>1, WindowAssumption
  <2> HIDE DEF moved
  <2>2. hidden = [windows |-> m.windows, windows_exist |-> m.windows_exist, ids |-> m.ids,
                  top |-> m.top, stray |-> m.stray, screen |-> Painted(m, p),
                  rear |-> m.rear]
    BY <1>1 DEF Manager
  <2> HIDE DEF hidden
  <2>3. /\ hidden \in Manager /\ hidden.windows = m.windows
        /\ hidden.windows_exist = m.windows_exist /\ hidden.stray = m.stray
        /\ hidden.screen = Painted(m, p) /\ hidden.rear = m.rear
    BY <1>1, <1>4, <2>2 DEF Manager
  <2>4. Restacked(hidden, lower, moved, m.top - 1)
    BY <1>5, <2>1, <2>3, Restack
  <2> HIDE DEF lower
  <2>5. QED
    BY <2>3, <2>4 DEF Restacked
<1>7. \A k \in 0 .. lower.top - 1 :
        lower.ids[k] = IF k < p THEN m.ids[k] ELSE m.ids[k + 1]
  <2>1. ASSUME NEW k \in 0 .. m.top - 2
        PROVE  moved[k] = IF k < p THEN m.ids[k] ELSE m.ids[k + 1]
    <3>1. k \in Id /\ k < m.top - 1
      BY <1>1, WindowAssumption DEF Id
    <3>2. QED
      BY <1>1, <3>1
  <2> HIDE DEF moved, lower
  <2>2. QED
    BY <1>1, <1>6, <2>1
<1> HIDE DEF moved, lower, hidden
<1> DEFINE up(k) == IF k < p THEN k ELSE k + 1
<1>8. \A k \in 0 .. lower.top - 1 : At(lower, k) = At(m, up(k)) /\ up(k) \in 0 .. m.top - 1
  BY <1>1, <1>6, <1>7 DEF At
<1>9. Piled(lower)
  <2>1. \A k \in 0 .. lower.top - 1 : lower.ids[k] \in Id /\ At(lower, k).buffer \in Handle
    BY <1>1, <1>6, <1>7, <1>8 DEF Piled
  <2>2. ASSUME NEW j \in 0 .. lower.top - 1, NEW k \in 0 .. lower.top - 1,
               At(lower, j).buffer = At(lower, k).buffer
        PROVE  j = k
    <3>1. up(j) = up(k)
      BY <1>1, <1>8, <2>2 DEF Piled
    <3>2. QED
      BY <1>1, <1>6, <3>1
  <2>3. QED
    BY <1>6, <2>1, <2>2 DEF Piled
<1>10. p \in 0 .. lower.top
  BY <1>1, <1>6
<1>11. \A k \in 0 .. p : Painted(lower, k) = Painted(m, k)
  <2>1. ASSUME NEW k \in 0 .. p PROVE Painted(lower, k) = Painted(m, k)
    <3>1. k \in Nat
      BY <1>1
    <3>2. \A j \in 0 .. k - 1 : At(lower, j) = At(m, j)
      BY <1>1, <1>6, <1>8
    <3>3. QED
      BY <3>1, <3>2, PaintedSame
  <2>2. QED
    BY <2>1
<1>12. SavedBelow(lower, p)
  <2>1. ASSUME NEW j \in 0 .. p - 1, NEW c \in Covered(At(lower, j))
        PROVE  lower.rear[At(lower, j).buffer][PixelAt(At(lower, j), c)] = Painted(lower, j)[c]
    <3>1. At(lower, j) = At(m, j) /\ j \in 0 .. m.top - 1 /\ j \in 0 .. p
      BY <1>1, <1>6, <1>8
    <3>2. m.rear[At(m, j).buffer][PixelAt(At(m, j), c)] = Painted(m, j)[c]
      BY <1>1, <2>1, <3>1 DEF SavedBelow
    <3>3. QED
      BY <1>6, <1>11, <3>1, <3>2
  <2>2. QED
    BY <2>1 DEF SavedBelow
<1>13. lower.screen = Painted(lower, p)
  BY <1>1, <1>6, <1>11
<1>14. WellShown(ShowUpFrom(lower, p)) /\ SameBooks(lower, ShowUpFrom(lower, p))
  BY <1>9, <1>10, <1>12, <1>13, ShowUpFromIs
<1>15. QED
  BY <1>3, <1>6, <1>7, <1>14 DEF Removes, SameBooks

\* n is m with the entry of a window rewritten.
Rewrites(m, n, id) ==
  /\ n \in Manager /\ n.ids = m.ids /\ n.top = m.top /\ n.stray = m.stray
  /\ n.screen = m.screen /\ n.rear = m.rear
  /\ \A j \in Id : j # id => n.windows[j] = m.windows[j]

\* winmgr_update_winfo moves a window and changes no other.
Moves(m, n, id) ==
  /\ Rewrites(m, n, id) /\ n.windows_exist = m.windows_exist
  /\ n.windows[id].buffer = m.windows[id].buffer /\ n.windows[id].pid = m.windows[id].pid

LEMMA UpdateWinfoMoves ==
  ASSUME NEW m \in Manager, NEW id \in Id, NEW place \in Place
  PROVE  Moves(m, UpdateWinfo(m, id, place), id)
<1> DEFINE w == [m.windows[id] EXCEPT !.xloc = place.xloc, !.yloc = place.yloc]
           v == [m.windows EXCEPT ![id] = w]
           n == [m EXCEPT !.windows = v]
<1>1. place.xloc \in Nat /\ place.yloc \in Nat
  BY WindowAssumption
<1>2. m.windows \in [Id -> WindowType]
  BY DEF Manager
<1>3. UpdateWinfo(m, id, place) = n
  BY <1>2 DEF UpdateWinfo, Manager
<1>4. /\ v \in [Id -> WindowType] /\ \A j \in Id : j # id => v[j] = m.windows[j]
      /\ v[id].buffer = m.windows[id].buffer /\ v[id].pid = m.windows[id].pid
  <2>1. m.windows[id] \in WindowType
    BY <1>2
  <2>2. w \in WindowType /\ w.buffer = m.windows[id].buffer /\ w.pid = m.windows[id].pid
    BY <1>1, <2>1 DEF WindowType
  <2> HIDE DEF w
  <2>3. QED
    BY <1>2, <2>2
<1> HIDE DEF v
<1>5. /\ n \in Manager /\ n.windows = v /\ n.windows_exist = m.windows_exist
      /\ n.ids = m.ids /\ n.top = m.top
      /\ n.stray = m.stray /\ n.screen = m.screen /\ n.rear = m.rear
  BY <1>4 DEF Manager
<1> HIDE DEF n
<1>6. QED
  BY <1>3, <1>4, <1>5 DEF Moves, Rewrites

\* Rewriting a window that is not on the stack shows nothing.
LEMMA RewriteAside ==
  ASSUME NEW m, WellShown(m), NEW id \in Id, NEW n, Rewrites(m, n, id),
         \A k \in 0 .. m.top - 1 : m.ids[k] # id
  PROVE  WellShown(n)
<1>1. \A k \in 0 .. m.top - 1 : n.ids[k] = m.ids[k] /\ At(n, k) = At(m, k)
  BY DEF WellShown, Piled, Rewrites, At
<1>2. QED
  BY <1>1, WellShownSame DEF Rewrites

\* r is m with window id on top.
Adds(m, id, r) ==
  /\ WellShown(r)
  /\ r.windows = m.windows /\ r.windows_exist = m.windows_exist /\ r.stray = m.stray
  /\ r.top = m.top + 1
  /\ \A k \in 0 .. m.top : r.ids[k] = IF k = m.top THEN id ELSE m.ids[k]

LEMMA StackAddAdds ==
  ASSUME NEW m, WellShown(m), m.top < MAX_WINDOW_NUM, NEW id \in Id,
         m.windows[id].buffer \in Handle,
         \A k \in 0 .. m.top - 1 : At(m, k).buffer # m.windows[id].buffer
  PROVE  Adds(m, id, StackAdd(m, id))
<1> DEFINE ids == [m.ids EXCEPT ![m.top] = id]
           n == [m EXCEPT !.ids = ids, !.top = m.top + 1]
<1>0. /\ m \in Manager /\ m.top \in 0 .. MAX_WINDOW_NUM
      /\ Piled(m) /\ SavedBelow(m, m.top) /\ m.screen = Painted(m, m.top)
  BY DEF WellShown, Piled, Manager
<1>1. /\ m \in Manager /\ m.top \in Nat /\ m.top + 1 \in 0 .. MAX_WINDOW_NUM /\ m.top \in Id
      /\ Piled(m) /\ SavedBelow(m, m.top) /\ m.screen = Painted(m, m.top)
  BY <1>0, WindowAssumption DEF Id
<1>2. StackAdd(m, id) = Show(n, id)
  BY <1>1 DEF StackAdd, Manager
<1>3. ids \in [Id -> Id \cup {NoId}] /\ \A k \in 0 .. m.top : ids[k] = IF k = m.top THEN id ELSE m.ids[k]
  BY <1>1, WindowAssumption DEF Manager, Id
<1> HIDE DEF ids
<1>4. Restacked(m, n, ids, m.top + 1)
  BY <1>1, <1>3, Restack
<1> HIDE DEF n
<1>5. /\ n \in Manager /\ n.ids = ids /\ n.top = m.top + 1 /\ n.screen = m.screen
      /\ n.rear = m.rear /\ n.windows = m.windows /\ n.windows_exist = m.windows_exist
      /\ n.stray = m.stray
  BY <1>4 DEF Restacked
<1>6. /\ \A k \in 0 .. m.top - 1 : n.ids[k] = m.ids[k] /\ At(n, k) = At(m, k)
      /\ n.ids[m.top] = id /\ At(n, m.top) = m.windows[id]
  BY <1>1, <1>3, <1>5 DEF At
<1>7. Piled(n)
  <2>1. \A k \in 0 .. m.top : k \in 0 .. m.top - 1 \/ k = m.top
    BY <1>1
  <2>2. \A k \in 0 .. m.top : n.ids[k] \in Id /\ At(n, k).buffer \in Handle
    BY <1>1, <1>6, <2>1 DEF Piled
  <2>3. \A j, k \in 0 .. m.top : At(n, j).buffer = At(n, k).buffer => j = k
    BY <1>1, <1>6, <2>1 DEF Piled
  <2>4. n.top - 1 = m.top
    BY <1>1, <1>5
  <2>5. QED
    BY <1>5, <2>2, <2>3, <2>4 DEF Piled
<1>8. \A k \in 0 .. m.top : Painted(n, k) = Painted(m, k)
  <2>1. ASSUME NEW k \in 0 .. m.top PROVE Painted(n, k) = Painted(m, k)
    <3>1. k \in Nat /\ \A j \in 0 .. k - 1 : At(n, j) = At(m, j)
      BY <1>1, <1>6
    <3>2. QED
      BY <3>1, PaintedSame
  <2>2. QED
    BY <2>1
<1>9. n.screen = Painted(n, m.top) /\ SavedBelow(n, m.top)
  <2>1. ASSUME NEW j \in 0 .. m.top - 1, NEW c \in Covered(At(n, j))
        PROVE  n.rear[At(n, j).buffer][PixelAt(At(n, j), c)] = Painted(n, j)[c]
    BY <1>1, <1>5, <1>6, <1>8, <2>1 DEF SavedBelow
  <2>2. QED
    BY <1>1, <1>5, <1>8, <2>1 DEF SavedBelow
<1> DEFINE r == Show(n, n.ids[m.top])
<1>10. m.top < n.top
  BY <1>1, <1>5
<1> HIDE DEF r
<1>11. /\ Piled(r) /\ SameBooks(n, r)
       /\ r.screen = Painted(r, m.top + 1) /\ SavedBelow(r, m.top + 1)
  BY <1>1, <1>7, <1>9, <1>10, ShowSaves DEF r
<1>12. StackAdd(m, id) = r
  BY <1>2, <1>6 DEF r
<1>13. QED
  BY <1>3, <1>5, <1>11, <1>12 DEF Adds, WellShown, SameBooks

\* r is m with a window of the stack moved.
Updates(m, id, r) ==
  /\ WellShown(r) /\ r.windows_exist = m.windows_exist /\ r.stray = m.stray
  /\ r.ids = m.ids /\ r.top = m.top
  /\ \A j \in Id : j # id => r.windows[j] = m.windows[j]
  /\ r.windows[id].buffer = m.windows[id].buffer /\ r.windows[id].pid = m.windows[id].pid

LEMMA UpdateUpdates ==
  ASSUME NEW m, WellShown(m), NEW p \in 0 .. m.top - 1, NEW place \in Place
  PROVE  Updates(m, m.ids[p],
                 ShowUpFrom(UpdateWinfo(HideDownTo(m, p), m.ids[p], place), p))
<1> DEFINE id == m.ids[p]
           hidden == [m EXCEPT !.screen = Painted(m, p)]
           n == UpdateWinfo(hidden, id, place)
<1>1. /\ m \in Manager /\ m.top \in Nat /\ p \in Nat /\ p \in 0 .. m.top /\ id \in Id
      /\ Piled(m) /\ SavedBelow(m, m.top)
  BY WindowAssumption DEF WellShown, Piled, Manager
<1>2. HideDownTo(m, p) = hidden
  BY <1>1, HideDownToIs
<1>3. Painted(m, p) \in [Cell -> Pixel]
  BY <1>1, PaintedType
<1>4. /\ hidden \in Manager /\ hidden.windows = m.windows /\ hidden.ids = m.ids
      /\ hidden.windows_exist = m.windows_exist /\ hidden.stray = m.stray
      /\ hidden.top = m.top /\ hidden.screen = Painted(m, p) /\ hidden.rear = m.rear
  BY <1>1, <1>3 DEF Manager
<1> HIDE DEF hidden
<1>5. Moves(hidden, n, id)
  BY <1>1, <1>4, UpdateWinfoMoves
<1> HIDE DEF n
<1>6. /\ n \in Manager /\ n.ids = m.ids /\ n.top = m.top /\ n.stray = m.stray
      /\ n.screen = Painted(m, p) /\ n.rear = m.rear /\ n.windows_exist = m.windows_exist
      /\ n.windows[id].buffer = m.windows[id].buffer /\ n.windows[id].pid = m.windows[id].pid
      /\ \A j \in Id : j # id => n.windows[j] = m.windows[j]
  BY <1>4, <1>5 DEF Moves, Rewrites
<1>7. \A k \in 0 .. m.top - 1 : k # p => m.ids[k] # id
  BY <1>1 DEF Piled, At
<1>8. /\ \A k \in 0 .. m.top - 1 : k # p => At(n, k) = At(m, k)
      /\ \A k \in 0 .. m.top - 1 : At(n, k).buffer = At(m, k).buffer
  <2>1. \A k \in 0 .. m.top - 1 : k # p => At(n, k) = At(m, k)
    BY <1>1, <1>6, <1>7 DEF At, Piled
  <2>2. At(n, p).buffer = At(m, p).buffer
    BY <1>6 DEF At
  <2>3. QED
    BY <2>1, <2>2
<1>9. Piled(n)
  <2>1. /\ \A k \in 0 .. n.top - 1 : n.ids[k] \in Id /\ At(n, k).buffer \in Handle
        /\ \A j, k \in 0 .. n.top - 1 : At(n, j).buffer = At(n, k).buffer => j = k
    BY <1>1, <1>6, <1>8 DEF Piled
  <2>2. QED
    BY <1>6, <2>1 DEF Piled
<1>10. \A k \in 0 .. p : Painted(n, k) = Painted(m, k)
  <2>1. ASSUME NEW k \in 0 .. p PROVE Painted(n, k) = Painted(m, k)
    <3>1. k \in Nat /\ \A j \in 0 .. k - 1 : At(n, j) = At(m, j)
      BY <1>1, <1>8
    <3>2. QED
      BY <3>1, PaintedSame
  <2>2. QED
    BY <2>1
<1>11. n.screen = Painted(n, p) /\ SavedBelow(n, p)
  <2>1. ASSUME NEW j \in 0 .. p - 1, NEW c \in Covered(At(n, j))
        PROVE  n.rear[At(n, j).buffer][PixelAt(At(n, j), c)] = Painted(n, j)[c]
    <3>1. At(n, j) = At(m, j) /\ j \in 0 .. m.top - 1 /\ j \in 0 .. p
      BY <1>1, <1>8
    <3>2. m.rear[At(m, j).buffer][PixelAt(At(m, j), c)] = Painted(m, j)[c]
      BY <1>1, <2>1, <3>1 DEF SavedBelow
    <3>3. QED
      BY <1>6, <1>10, <3>1, <3>2
  <2>2. QED
    BY <1>1, <1>6, <1>10, <2>1 DEF SavedBelow
<1> DEFINE r == ShowUpFrom(n, p)
<1>12. WellShown(r) /\ SameBooks(n, r)
  BY <1>1, <1>6, <1>9, <1>11, ShowUpFromIs
<1> HIDE DEF r
<1>13. Updates(m, id, r)
  BY <1>6, <1>12 DEF Updates, SameBooks
<1>14. QED
  BY <1>2, <1>13 DEF r, n

-----------------------------------------------------------------------------
(* The pile *)

\* The windows of r are those of m, without the one at place p of the stack.
TakenOut(m, p, r) ==
  /\ r.top = m.top - 1
  /\ \A k \in 0 .. r.top - 1 :
       At(r, k).buffer = IF k < p THEN At(m, k).buffer ELSE At(m, k + 1).buffer

\* They are those of m, with h on top of them.
PutOn(m, h, r) ==
  /\ r.top = m.top + 1
  /\ \A k \in 0 .. m.top : At(r, k).buffer = IF k = m.top THEN h ELSE At(m, k).buffer

\* They are those of m, with the one at place p taken to the top.
Raised(m, p, r) ==
  /\ r.top = m.top
  /\ \A k \in 0 .. m.top - 1 :
       At(r, k).buffer = IF k = m.top - 1 THEN At(m, p).buffer
                         ELSE IF k < p THEN At(m, k).buffer ELSE At(m, k + 1).buffer

SamePile(m, r) ==
  r.top = m.top /\ \A k \in 0 .. m.top - 1 : At(r, k).buffer = At(m, k).buffer

\* Only window id may be another.
OthersStay(m, id, r) == \A j \in Id : j # id => r.windows[j] = m.windows[j]

-----------------------------------------------------------------------------
(* The books *)

\* The stack has the ids in use, and no other.
Listed(m) ==
  /\ \A k \in 0 .. m.top - 1 : m.ids[k] \in m.windows_exist
  /\ \A id \in m.windows_exist : \E k \in 0 .. m.top - 1 : m.ids[k] = id

WellKept(m) == WellShown(m) /\ Listed(m)

\* r is m without window id.
Closes(m, id, r) ==
  /\ WellKept(r) /\ r.windows = m.windows /\ r.stray = m.stray
  /\ r.windows_exist = m.windows_exist \ {id}
  /\ \E p \in 0 .. m.top - 1 : m.ids[p] = id /\ TakenOut(m, p, r)

LEMMA CloseCloses ==
  ASSUME NEW m, WellKept(m), NEW id \in m.windows_exist
  PROVE  Closes(m, id, CloseWindow(m, id))
<1>1. PICK p \in 0 .. m.top - 1 : m.ids[p] = id
  BY DEF WellKept, Listed
<1>2. /\ WellShown(m) /\ Piled(m) /\ m \in Manager /\ m.top \in Nat
      /\ m.windows[id].buffer \in Handle
  BY <1>1, WindowAssumption DEF WellKept, WellShown, Piled, Manager, At
<1> DEFINE s == StackRemove(m, id)
           r == [s EXCEPT !.windows_exist = s.windows_exist \ {id}]
<1>3. Removes(m, p, s)
  BY <1>1, <1>2, StackRemoveIs
<1> HIDE DEF s
<1>4. CloseWindow(m, id) = r
  BY <1>2, WindowAssumption DEF CloseWindow, s
<1>5. s \in Manager /\ WellShown(s)
  BY <1>3 DEF Removes, WellShown, Piled
<1>6. /\ r \in Manager /\ r.windows = s.windows /\ r.ids = s.ids /\ r.top = s.top
      /\ r.stray = s.stray /\ r.screen = s.screen /\ r.rear = s.rear
      /\ r.windows_exist = s.windows_exist \ {id}
  BY <1>5 DEF Manager
<1> HIDE DEF r
<1>7. WellShown(r)
  <2>1. \A j \in 0 .. s.top - 1 : r.ids[j] = s.ids[j] /\ At(r, j) = At(s, j)
    BY <1>6 DEF At
  <2>2. QED
    BY <1>5, <1>6, <2>1, WellShownSame
<1>8. /\ r.top = m.top - 1 /\ r.windows_exist = m.windows_exist \ {id}
      /\ \A k \in 0 .. r.top - 1 : r.ids[k] = IF k < p THEN m.ids[k] ELSE m.ids[k + 1]
  BY <1>3, <1>6 DEF Removes
<1>9. \A k \in 0 .. m.top - 1 : m.ids[k] = id => k = p
  BY <1>1, <1>2 DEF Piled, At
<1>10. Listed(r)
  <2>1. ASSUME NEW k \in 0 .. r.top - 1 PROVE r.ids[k] \in r.windows_exist
    <3> DEFINE u == IF k < p THEN k ELSE k + 1
    <3>1. u \in 0 .. m.top - 1 /\ u # p /\ r.ids[k] = m.ids[u]
      BY <1>1, <1>2, <1>8
    <3> HIDE DEF u
    <3>2. QED
      BY <1>8, <1>9, <3>1 DEF WellKept, Listed
  <2>2. ASSUME NEW j \in r.windows_exist PROVE \E k \in 0 .. r.top - 1 : r.ids[k] = j
    <3>1. PICK u \in 0 .. m.top - 1 : m.ids[u] = j
      BY <1>8, <2>2 DEF WellKept, Listed
    <3>2. u # p
      BY <1>1, <1>8, <2>2, <3>1
    <3> DEFINE k == IF u < p THEN u ELSE u - 1
    <3>3. k \in 0 .. r.top - 1 /\ (IF k < p THEN k ELSE k + 1) = u
      BY <1>1, <1>2, <1>8, <3>2
    <3> HIDE DEF k
    <3>4. r.ids[k] = m.ids[u]
      BY <1>8, <3>3
    <3>5. QED
      BY <3>1, <3>3, <3>4
  <2>3. QED
    BY <2>1, <2>2 DEF Listed
<1>11. TakenOut(m, p, r)
  BY <1>3, <1>6, <1>8 DEF TakenOut, Removes, At
<1>12. QED
  BY <1>1, <1>3, <1>4, <1>6, <1>7, <1>8, <1>10, <1>11 DEF Closes, WellKept, Removes

\* Of the loop of winmgr_clean_window one turn closes a window, and the turns
\* after it find no other.
LEMMA CleanTurns ==
  ASSUME NEW m, NEW r, NEW pid, NEW q \in 0 .. MAX_WINDOW_NUM,
         \A k \in 0 .. MAX_WINDOW_NUM - 1 : CleanAt(m, k, pid) = IF k = q THEN r ELSE m,
         \A k \in 0 .. MAX_WINDOW_NUM - 1 : k > q => CleanAt(r, k, pid) = r
  PROVE  CleanWindows(m, pid) = IF q < MAX_WINDOW_NUM THEN r ELSE m
<1> DEFINE N == MAX_WINDOW_NUM
           f == [k \in 0 .. N |-> IF k <= q THEN m ELSE r]
           cleaned == CHOOSE h : h = [k \in 0 .. N |->
                        IF k = 0 THEN m ELSE CleanAt(h[k - 1], k - 1, pid)]
<1>1. N \in Nat /\ N > 0
  BY WindowAssumption
<1>2. ASSUME NEW k \in 0 .. N, k # 0 PROVE f[k] = CleanAt(f[k - 1], k - 1, pid)
  <2>1. k - 1 \in 0 .. N - 1 /\ k - 1 \in 0 .. N
    BY <1>1, <1>2
  <2>2. f[k] = (IF k <= q THEN m ELSE r) /\ f[k - 1] = (IF k - 1 <= q THEN m ELSE r)
    BY <2>1
  <2> HIDE DEF f
  <2>3. CASE k <= q
    BY <1>1, <2>1, <2>2, <2>3
  <2>4. CASE k = q + 1
    BY <1>1, <2>1, <2>2, <2>4
  <2>5. CASE k > q + 1
    BY <1>1, <2>1, <2>2, <2>5
  <2>6. QED
    BY <1>1, <2>3, <2>4, <2>5
<1>3. f[0] = m
  BY <1>1
<1>4. f = [k \in 0 .. N |-> f[k]]
  OBVIOUS
<1>5. f[N] = IF q < N THEN r ELSE m
  BY <1>1
<1> HIDE DEF f
<1>6. f = [k \in 0 .. N |-> IF k = 0 THEN m ELSE CleanAt(f[k - 1], k - 1, pid)]
  <2>1. \A k \in 0 .. N : f[k] = IF k = 0 THEN m ELSE CleanAt(f[k - 1], k - 1, pid)
    BY <1>2, <1>3
  <2>2. QED
    BY <1>4, <2>1
<1>7. cleaned = [k \in 0 .. N |-> IF k = 0 THEN m ELSE CleanAt(cleaned[k - 1], k - 1, pid)]
  BY <1>6
<1>8. CleanWindows(m, pid) = cleaned[N]
  BY DEF CleanWindows
<1> HIDE DEF cleaned
<1>9. FollowUp(f, cleaned, N)
  <2>1. cleaned[0] = m
    BY <1>1, <1>7
  <2>2. ASSUME NEW k \in 0 .. N, k < N, cleaned[k] = f[k] PROVE cleaned[k + 1] = f[k + 1]
    <3>1. k + 1 \in 0 .. N /\ k + 1 # 0 /\ (k + 1) - 1 = k
      BY <1>1, <2>2
    <3>2. cleaned[k + 1] = CleanAt(cleaned[k], k, pid)
      BY <1>7, <3>1
    <3>3. f[k + 1] = CleanAt(f[k], k, pid)
      BY <1>2, <3>1
    <3>4. QED
      BY <2>2, <3>2, <3>3
  <2>3. QED
    BY <1>3, <2>1, <2>2 DEF FollowUp
<1>10. cleaned[N] = f[N]
  BY <1>1, <1>9, RecursionDownUnique
<1>11. QED
  BY <1>5, <1>8, <1>10

\* The windows of a program.
WindowsOf(m, pid) == {id \in m.windows_exist : m.windows[id].pid = pid}

\* A program without a window has none closed.
LEMMA CleanNone ==
  ASSUME NEW m, WellKept(m), NEW pid, WindowsOf(m, pid) = {}
  PROVE  CleanWindows(m, pid) = m
<1>1. \A k \in 0 .. MAX_WINDOW_NUM - 1 : CleanAt(m, k, pid) = m
  <2>1. ASSUME NEW k \in 0 .. MAX_WINDOW_NUM - 1, k < m.top, m.windows[m.ids[k]].pid = pid
        PROVE  FALSE
    <3>1. m.top \in Nat
      BY WindowAssumption DEF WellKept, WellShown, Piled, Manager
    <3>2. k \in 0 .. m.top - 1
      BY <2>1, <3>1, WindowAssumption
    <3>3. m.ids[k] \in WindowsOf(m, pid)
      BY <2>1, <3>2 DEF WellKept, Listed, WindowsOf
    <3>4. QED
      BY <3>3
  <2>2. QED
    BY <2>1 DEF CleanAt
<1>2. MAX_WINDOW_NUM \in 0 .. MAX_WINDOW_NUM /\ MAX_WINDOW_NUM \in Nat
  BY WindowAssumption
<1> DEFINE N == MAX_WINDOW_NUM
<1>3. \A k \in 0 .. N - 1 : k # N /\ ~(k > N) /\ ~(N < N)
  BY <1>2
<1>4. QED
  BY <1>1, <1>2, <1>3, CleanTurns

\* A program with one window has that one closed.
LEMMA CleanOne ==
  ASSUME NEW m, WellKept(m), NEW pid, NEW id, WindowsOf(m, pid) = {id}
  PROVE  Closes(m, id, CleanWindows(m, pid))
<1> DEFINE r == CloseWindow(m, id)
<1>1. id \in m.windows_exist /\ m.windows[id].pid = pid
  BY DEF WindowsOf
<1>2. PICK q \in 0 .. m.top - 1 : m.ids[q] = id
  BY <1>1 DEF WellKept, Listed
<1>3. Piled(m) /\ m.top \in Nat /\ m.top <= MAX_WINDOW_NUM /\ q \in 0 .. MAX_WINDOW_NUM - 1
  <2>1. Piled(m) /\ m.top \in 0 .. MAX_WINDOW_NUM
    BY DEF WellKept, WellShown, Piled, Manager
  <2>2. QED
    BY <1>2, <2>1, WindowAssumption
<1>4. Closes(m, id, r)
  BY <1>1, CloseCloses
<1> HIDE DEF r
<1>5. ASSUME NEW k \in 0 .. MAX_WINDOW_NUM - 1
      PROVE  CleanAt(m, k, pid) = IF k = q THEN r ELSE m
  <2>1. CASE k = q
    BY <1>1, <1>2, <1>3, <2>1 DEF CleanAt, r
  <2>2. CASE k # q /\ k < m.top
    <3>1. k \in 0 .. m.top - 1
      BY <1>3, <2>2, WindowAssumption
    <3>2. m.ids[k] # id
      BY <1>2, <1>3, <2>2, <3>1 DEF Piled, At
    <3>3. m.ids[k] \in m.windows_exist
      BY <3>1 DEF WellKept, Listed
    <3>4. m.windows[m.ids[k]].pid # pid
      BY <3>2, <3>3 DEF WindowsOf
    <3>5. QED
      BY <2>2, <3>4 DEF CleanAt
  <2>3. CASE k # q /\ ~(k < m.top)
    BY <2>3 DEF CleanAt
  <2>4. QED
    BY <2>1, <2>2, <2>3
<1>6. ASSUME NEW k \in 0 .. MAX_WINDOW_NUM - 1 PROVE CleanAt(r, k, pid) = r
  <2>1. ASSUME k < r.top, r.windows[r.ids[k]].pid = pid PROVE FALSE
    <3>1. k \in 0 .. r.top - 1
      BY <1>3, <1>4, <2>1, WindowAssumption DEF Closes, TakenOut
    <3>2. r.ids[k] \in m.windows_exist \ {id}
      BY <1>4, <3>1 DEF Closes, WellKept, Listed
    <3>3. QED
      BY <1>4, <2>1, <3>2 DEF Closes, WindowsOf
  <2>2. QED
    BY <2>1 DEF CleanAt
<1>7. CleanWindows(m, pid) = r
  <2>1. q \in 0 .. MAX_WINDOW_NUM /\ q < MAX_WINDOW_NUM
    BY <1>3, WindowAssumption
  <2>2. QED
    BY <1>5, <1>6, <2>1, CleanTurns
<1>8. QED
  BY <1>4, <1>7

\* winmgr_generate_window_id gives an id that is not in use, and none only
\* when all are.
LEMMA GeneratedIsFree ==
  ASSUME NEW m \in Manager
  PROVE  \/ GeneratedId(m) \in Id \ m.windows_exist
         \/ GeneratedId(m) = NoId /\ m.windows_exist = Id
<1> DEFINE free == Id \ m.windows_exist
<1>1. m.windows_exist \subseteq Id
  BY DEF Manager
<1>2. CASE free = {}
  BY <1>1, <1>2 DEF GeneratedId
<1>3. CASE free # {}
  <2>1. free \in SUBSET Nat
    BY WindowAssumption DEF Id
  <2>2. \E i \in free : \A j \in free : i <= j
    BY <1>3, <2>1, LeastNat
  <2>3. QED
    BY <1>3, <2>2 DEF GeneratedId
<1>4. QED
  BY <1>2, <1>3

\* The first n natural numbers are n.
LEMMA IntervalCardinality ==
  ASSUME NEW n \in Nat
  PROVE  IsFiniteSet(0 .. n - 1) /\ Cardinality(0 .. n - 1) = n
<1> DEFINE b == n - 1
<1>1. b \in Int /\ b >= -1
  OBVIOUS
<1> HIDE DEF b
<1>2. IsFiniteSet(0 .. b) /\ Cardinality(0 .. b) = IF 0 > b THEN 0 ELSE b - 0 + 1
  BY <1>1, FS_Interval
<1>3. (IF 0 > b THEN 0 ELSE b - 0 + 1) = b + 1
  BY <1>1
<1>4. b + 1 = n
  BY DEF b
<1>5. QED
  BY <1>2, <1>3, <1>4 DEF b

\* An id that is not in use finds room on the stack.
LEMMA RoomForFree ==
  ASSUME NEW m, WellKept(m), NEW id \in Id \ m.windows_exist
  PROVE  m.top < MAX_WINDOW_NUM
<1> DEFINE f == [k \in 0 .. m.top - 1 |-> m.ids[k]]
           D == 0 .. m.top - 1
           E == m.windows_exist
<1>1. m.top \in Nat /\ E \in SUBSET (Id \ {id}) /\ Piled(m)
  BY WindowAssumption DEF WellKept, WellShown, Piled, Manager
<1>2. IsFiniteSet(Id) /\ Cardinality(Id) = MAX_WINDOW_NUM
  BY WindowAssumption, IntervalCardinality DEF Id
<1>3. IsFiniteSet(Id \ {id}) /\ Cardinality(Id \ {id}) = MAX_WINDOW_NUM - 1
  BY <1>2, FS_RemoveElement
<1>4. IsFiniteSet(E) /\ Cardinality(E) <= MAX_WINDOW_NUM - 1
  BY <1>1, <1>3, FS_Subset
<1>5. f \in Injection(D, E)
  <2>1. f \in [D -> E]
    BY DEF WellKept, Listed
  <2>2. \A j, k \in D : f[j] = f[k] => j = k
    BY <1>1 DEF Piled, At
  <2>3. QED
    BY <2>1, <2>2 DEF Injection, IsInjective
<1>6. Cardinality(D) <= Cardinality(E)
  BY <1>4, <1>5, FS_Injection
<1>7. Cardinality(D) = m.top
  BY <1>1, IntervalCardinality
<1>8. Cardinality(E) \in Nat
  BY <1>4, FS_CardinalityType
<1>9. QED
  BY <1>1, <1>4, <1>6, <1>7, <1>8, WindowAssumption

\* The books of the programs: w is the id each handle was given, R the handles
\* that are registered.
Books(m, w, R) ==
  /\ R \subseteq Handle /\ w \in [Handle -> Id \cup {NoId}]
  /\ \A h \in R : /\ w[h] \in m.windows_exist /\ m.windows[w[h]].buffer = h
                  /\ m.windows[w[h]].pid = Owner[h]
  /\ \A id \in m.windows_exist : \E h \in R : w[h] = id

Kept(m, w, R) == WellKept(m) /\ Books(m, w, R)

-----------------------------------------------------------------------------
(* What each operation keeps *)

\* The manager after winmgr_register_winfo with a free id.
Opened(m, h, id, place) ==
  StackAdd(UpdateWinfo([m EXCEPT !.windows_exist = @ \cup {id},
                                 !.windows[id] = [@ EXCEPT !.buffer = h, !.pid = Owner[h]]],
                       id, place), id)

LEMMA RegisterKeeps ==
  ASSUME NEW m, NEW w, NEW R, Kept(m, w, R), NEW h \in Handle \ R, NEW place \in Place,
         NEW id \in Id \ m.windows_exist
  PROVE  /\ Kept(Opened(m, h, id, place), [w EXCEPT ![h] = id], R \cup {h})
         /\ Opened(m, h, id, place).stray = m.stray
         /\ PutOn(m, h, Opened(m, h, id, place)) /\ OthersStay(m, id, Opened(m, h, id, place))
<1> DEFINE entry == [m.windows[id] EXCEPT !.buffer = h, !.pid = Owner[h]]
           windows == [m.windows EXCEPT ![id] = entry]
           known == [m EXCEPT !.windows_exist = m.windows_exist \cup {id}, !.windows = windows]
           n == UpdateWinfo(known, id, place)
           r == StackAdd(n, id)
           v == [w EXCEPT ![h] = id]
<1>1. m \in Manager /\ WellKept(m) /\ WellShown(m) /\ Piled(m) /\ Books(m, w, R)
  BY DEF Kept, WellKept, WellShown, Piled
<1>2. m.windows \in [Id -> WindowType] /\ m.windows_exist \subseteq Id /\ m.top \in Nat
  BY <1>1, WindowAssumption DEF Manager
<1>3. Opened(m, h, id, place) = r
  BY <1>1, <1>2 DEF Opened, Manager
<1>4. /\ windows \in [Id -> WindowType] /\ windows[id].buffer = h /\ windows[id].pid = Owner[h]
      /\ \A j \in Id : j # id => windows[j] = m.windows[j]
  <2>0. m.windows[id] \in WindowType /\ h \in Pixel /\ Owner[h] \in 0 .. 255
    BY <1>2, WindowAssumption DEF Pixel
  <2>1. entry \in WindowType /\ entry.buffer = h /\ entry.pid = Owner[h]
    BY <2>0 DEF WindowType
  <2> HIDE DEF entry
  <2>2. QED
    BY <1>2, <2>1
<1> HIDE DEF windows
<1>5. /\ known \in Manager /\ known.windows = windows /\ known.ids = m.ids /\ known.top = m.top
      /\ known.windows_exist = m.windows_exist \cup {id} /\ known.stray = m.stray
      /\ known.screen = m.screen /\ known.rear = m.rear
  <2> DEFINE l == [m EXCEPT !.windows_exist = m.windows_exist \cup {id}]
  <2>1. /\ l \in Manager /\ l.windows = m.windows /\ l.ids = m.ids /\ l.top = m.top
        /\ l.windows_exist = m.windows_exist \cup {id} /\ l.stray = m.stray
        /\ l.screen = m.screen /\ l.rear = m.rear
    BY <1>1, <1>2 DEF Manager
  <2>2. known = [l EXCEPT !.windows = windows]
    BY <1>1 DEF Manager
  <2> HIDE DEF l, known
  <2>3. QED
    BY <1>4, <2>1, <2>2 DEF Manager
<1> HIDE DEF known
<1>6. Moves(known, n, id)
  BY <1>5, UpdateWinfoMoves
<1> HIDE DEF n
<1>7. /\ Rewrites(m, n, id) /\ n.windows_exist = m.windows_exist \cup {id}
      /\ n.windows[id].buffer = h /\ n.windows[id].pid = Owner[h]
      /\ n.top = m.top /\ n.ids = m.ids /\ n.stray = m.stray
  BY <1>4, <1>5, <1>6 DEF Moves, Rewrites
<1>8. \A k \in 0 .. m.top - 1 : m.ids[k] # id
  BY <1>1 DEF WellKept, Listed
<1>9. WellShown(n)
  BY <1>1, <1>7, <1>8, RewriteAside
<1>10. ASSUME NEW k \in 0 .. m.top - 1 PROVE At(n, k).buffer # h
  <2>1. m.ids[k] \in m.windows_exist /\ At(n, k) = At(m, k)
    BY <1>1, <1>2, <1>7, <1>8 DEF WellKept, Listed, Rewrites, At
  <2>2. PICK g \in R : w[g] = m.ids[k]
    BY <1>1, <2>1 DEF Books
  <2>3. QED
    BY <1>1, <2>1, <2>2 DEF Books, At
<1>11. n.top < MAX_WINDOW_NUM
  BY <1>1, <1>7, RoomForFree
<1>12. Adds(n, id, r)
  BY <1>7, <1>9, <1>10, <1>11, StackAddAdds
<1> HIDE DEF r
<1>13. /\ WellShown(r) /\ r.windows = n.windows /\ r.windows_exist = m.windows_exist \cup {id}
       /\ r.top = m.top + 1 /\ r.stray = m.stray
       /\ \A k \in 0 .. m.top : r.ids[k] = IF k = m.top THEN id ELSE m.ids[k]
  BY <1>7, <1>12 DEF Adds
<1>14. Listed(r)
  <2>1. ASSUME NEW k \in 0 .. r.top - 1 PROVE r.ids[k] \in r.windows_exist
    <3>1. k \in 0 .. m.top /\ (k # m.top => k \in 0 .. m.top - 1)
      BY <1>2, <1>13
    <3>2. QED
      BY <1>1, <1>13, <3>1 DEF WellKept, Listed
  <2>2. ASSUME NEW j \in r.windows_exist PROVE \E k \in 0 .. r.top - 1 : r.ids[k] = j
    <3>1. CASE j = id
      BY <1>2, <1>13, <3>1
    <3>2. CASE j # id
      <4>1. PICK k \in 0 .. m.top - 1 : m.ids[k] = j
        BY <1>1, <1>13, <2>2, <3>2 DEF WellKept, Listed
      <4>2. k \in 0 .. r.top - 1 /\ k \in 0 .. m.top /\ k # m.top
        BY <1>2, <1>13
      <4>3. QED
        BY <1>13, <4>1, <4>2
    <3>3. QED
      BY <3>1, <3>2
  <2>3. QED
    BY <2>1, <2>2 DEF Listed
<1>15. Books(r, v, R \cup {h})
  <2>1. w \in [Handle -> Id \cup {NoId}] /\ R \subseteq Handle
    BY <1>1 DEF Books
  <2>2. v \in [Handle -> Id \cup {NoId}] /\ v[h] = id /\ \A g \in R : v[g] = w[g]
    BY <2>1
  <2> HIDE DEF v
  <2>3. \A g \in R : /\ w[g] \in m.windows_exist /\ m.windows[w[g]].buffer = g
                     /\ m.windows[w[g]].pid = Owner[g]
    BY <1>1 DEF Books
  <2>4. \A j \in m.windows_exist : r.windows[j] = m.windows[j]
    BY <1>2, <1>7, <1>13 DEF Rewrites
  <2>5. ASSUME NEW g \in R \cup {h}
        PROVE  /\ v[g] \in r.windows_exist /\ r.windows[v[g]].buffer = g
               /\ r.windows[v[g]].pid = Owner[g]
    <3>1. CASE g = h
      BY <1>7, <1>13, <2>2, <3>1
    <3>2. CASE g # h
      BY <1>13, <2>2, <2>3, <2>4, <2>5, <3>2
    <3>3. QED
      BY <3>1, <3>2
  <2>6. ASSUME NEW j \in r.windows_exist PROVE \E g \in R \cup {h} : v[g] = j
    <3>1. CASE j = id
      BY <2>2, <3>1
    <3>2. CASE j # id
      <4>1. PICK g \in R : w[g] = j
        BY <1>1, <1>13, <2>6, <3>2 DEF Books
      <4>2. QED
        BY <2>2, <4>1
    <3>3. QED
      BY <3>1, <3>2
  <2>7. QED
    BY <2>1, <2>2, <2>5, <2>6 DEF Books
<1>16. PutOn(m, h, r)
  <2>1. ASSUME NEW k \in 0 .. m.top
        PROVE  At(r, k).buffer = IF k = m.top THEN h ELSE At(m, k).buffer
    <3>1. CASE k = m.top
      BY <1>2, <1>7, <1>13, <3>1 DEF At
    <3>2. CASE k # m.top
      <4>1. k \in 0 .. m.top - 1 /\ m.ids[k] \in Id /\ m.ids[k] # id
        BY <1>1, <1>2, <1>8, <3>2 DEF Piled
      <4>2. QED
        BY <1>7, <1>13, <3>2, <4>1 DEF At, Rewrites
    <3>3. QED
      BY <3>1, <3>2
  <2>2. QED
    BY <1>13, <2>1 DEF PutOn
<1>17. OthersStay(m, id, r)
  BY <1>7, <1>13 DEF OthersStay, Rewrites
<1>18. QED
  BY <1>3, <1>13, <1>14, <1>15, <1>16, <1>17 DEF Kept, WellKept

\* A manager with the same ids in use, and the same programs to them.
LEMMA BooksSame ==
  ASSUME NEW m, NEW w, NEW R, Books(m, w, R), NEW r,
         r.windows_exist = m.windows_exist,
         \A j \in m.windows_exist : /\ r.windows[j].buffer = m.windows[j].buffer
                                    /\ r.windows[j].pid = m.windows[j].pid
  PROVE  Books(r, w, R)
BY DEF Books

LEMMA UpdateKeeps ==
  ASSUME NEW m, NEW w, NEW R, Kept(m, w, R), NEW h \in R, NEW place \in Place
  PROVE  /\ Found(m, w[h]) # {}
         /\ Kept(ShowUpFrom(UpdateWinfo(HideDownTo(m, PlaceOf(m, w[h])), w[h], place),
                            PlaceOf(m, w[h])), w, R)
         /\ ShowUpFrom(UpdateWinfo(HideDownTo(m, PlaceOf(m, w[h])), w[h], place),
                       PlaceOf(m, w[h])).stray = m.stray
         /\ SamePile(m, ShowUpFrom(UpdateWinfo(HideDownTo(m, PlaceOf(m, w[h])), w[h], place),
                                   PlaceOf(m, w[h])))
         /\ OthersStay(m, w[h], ShowUpFrom(UpdateWinfo(HideDownTo(m, PlaceOf(m, w[h])), w[h], place),
                                           PlaceOf(m, w[h])))
<1>1. w[h] \in m.windows_exist /\ Listed(m) /\ WellShown(m) /\ Piled(m) /\ m \in Manager
  BY DEF Kept, Books, WellKept, WellShown, Piled
<1>2. PICK p \in 0 .. m.top - 1 : m.ids[p] = w[h]
  BY <1>1 DEF Listed
<1>3. Found(m, w[h]) # {} /\ PlaceOf(m, w[h]) = p
  BY <1>1, <1>2, PlaceOnStack
<1> DEFINE r == ShowUpFrom(UpdateWinfo(HideDownTo(m, p), w[h], place), p)
<1>4. Updates(m, w[h], r)
  BY <1>1, <1>2, UpdateUpdates
<1> HIDE DEF r
<1>5. WellShown(r) /\ Listed(r)
  BY <1>1, <1>4 DEF Updates, Listed
<1>6. Books(r, w, R)
  <2>1. m.windows_exist \subseteq Id
    BY <1>1 DEF Manager
  <2>2. QED
    BY <1>4, <2>1, BooksSame DEF Updates, Kept
<1>7. Kept(r, w, R) /\ r.stray = m.stray
  BY <1>4, <1>5, <1>6 DEF Kept, WellKept, Updates
<1>8. OthersStay(m, w[h], r)
  BY <1>4 DEF Updates, OthersStay
<1>9. SamePile(m, r)
  <2>1. \A k \in 0 .. m.top - 1 : m.ids[k] \in Id
    BY <1>1 DEF Piled
  <2>2. QED
    BY <1>4, <2>1 DEF Updates, SamePile, At
<1>10. QED
  BY <1>3, <1>7, <1>8, <1>9 DEF r

LEMMA RaiseKeeps ==
  ASSUME NEW m, NEW w, NEW R, Kept(m, w, R), NEW h \in R, NEW place \in Place
  PROVE  /\ Kept(StackAdd(UpdateWinfo(StackRemove(m, w[h]), w[h], place), w[h]), w, R)
         /\ StackAdd(UpdateWinfo(StackRemove(m, w[h]), w[h], place), w[h]).stray = m.stray
         /\ \E p \in 0 .. m.top - 1 :
              /\ At(m, p).buffer = h
              /\ Raised(m, p, StackAdd(UpdateWinfo(StackRemove(m, w[h]), w[h], place), w[h]))
         /\ OthersStay(m, w[h], StackAdd(UpdateWinfo(StackRemove(m, w[h]), w[h], place), w[h]))
<1> DEFINE id == w[h]
           s == StackRemove(m, id)
           n == UpdateWinfo(s, id, place)
           r == StackAdd(n, id)
<1>1. id \in m.windows_exist /\ Listed(m) /\ WellShown(m) /\ Piled(m) /\ m \in Manager
      /\ m.top \in 0 .. MAX_WINDOW_NUM /\ id \in Id
  BY DEF Kept, Books, WellKept, WellShown, Piled, Manager
<1>2. PICK p \in 0 .. m.top - 1 : m.ids[p] = id
  BY <1>1 DEF Listed
<1> HIDE DEF id
<1>3. Removes(m, p, s)
  BY <1>1, <1>2, StackRemoveIs
<1> HIDE DEF s
<1>4. /\ WellShown(s) /\ s \in Manager /\ s.windows = m.windows
      /\ s.windows_exist = m.windows_exist /\ s.top = m.top - 1 /\ s.stray = m.stray
      /\ \A k \in 0 .. s.top - 1 : s.ids[k] = IF k < p THEN m.ids[k] ELSE m.ids[k + 1]
  BY <1>3 DEF Removes, WellShown, Piled
<1>5. Moves(s, n, id)
  BY <1>1, <1>4, UpdateWinfoMoves
<1> HIDE DEF n
<1>6. ASSUME NEW k \in 0 .. s.top - 1
      PROVE  s.ids[k] \in m.windows_exist /\ s.ids[k] # id
             /\ m.windows[s.ids[k]].buffer # m.windows[id].buffer
  <2> DEFINE u == IF k < p THEN k ELSE k + 1
  <2>1. u \in 0 .. m.top - 1 /\ u # p /\ s.ids[k] = m.ids[u]
    BY <1>1, <1>2, <1>4
  <2> HIDE DEF u
  <2>2. At(m, u).buffer # At(m, p).buffer
    BY <1>1, <2>1 DEF Piled
  <2>3. QED
    BY <1>1, <1>2, <2>1, <2>2 DEF At, Listed
<1>7. WellShown(n)
  BY <1>1, <1>4, <1>5, <1>6, RewriteAside DEF Moves
<1>8. /\ n.top = s.top /\ n.ids = s.ids /\ n.windows_exist = m.windows_exist
      /\ n.stray = m.stray
      /\ n.windows[id].buffer = m.windows[id].buffer /\ n.windows[id].pid = m.windows[id].pid
      /\ \A j \in Id : j # id => n.windows[j] = m.windows[j]
  BY <1>4, <1>5 DEF Moves, Rewrites
<1>9. \A k \in 0 .. n.top - 1 : At(n, k).buffer # n.windows[id].buffer
  <2>1. m.windows_exist \subseteq Id
    BY <1>1 DEF Manager
  <2>2. QED
    BY <1>6, <1>8, <2>1 DEF At
<1>10. n.windows[id].buffer \in Handle
  BY <1>1, <1>2, <1>8 DEF Piled, At
<1>11. n.top < MAX_WINDOW_NUM
  BY <1>1, <1>4, <1>8, WindowAssumption
<1>12. Adds(n, id, r)
  BY <1>1, <1>7, <1>9, <1>10, <1>11, StackAddAdds
<1> HIDE DEF r
<1>13. /\ WellShown(r) /\ r.windows = n.windows /\ r.windows_exist = m.windows_exist
       /\ r.top = m.top /\ r.stray = m.stray
       /\ \A k \in 0 .. m.top - 1 : r.ids[k] = IF k = m.top - 1 THEN id ELSE s.ids[k]
  BY <1>1, <1>4, <1>8, <1>12 DEF Adds
<1>14. Listed(r)
  <2>1. ASSUME NEW k \in 0 .. m.top - 1 PROVE r.ids[k] \in m.windows_exist
    <3>1. k # m.top - 1 => k \in 0 .. s.top - 1
      BY <1>1, <1>4
    <3>2. QED
      BY <1>1, <1>6, <1>13, <3>1
  <2>2. ASSUME NEW j \in m.windows_exist PROVE \E k \in 0 .. m.top - 1 : r.ids[k] = j
    <3>1. CASE j = id
      <4>1. m.top - 1 \in 0 .. m.top - 1
        BY <1>1, <1>2
      <4>2. QED
        BY <1>13, <3>1, <4>1
    <3>2. CASE j # id
      <4>1. PICK u \in 0 .. m.top - 1 : m.ids[u] = j
        BY <1>1, <2>2 DEF Listed
      <4>2. u # p
        BY <1>2, <3>2, <4>1
      <4> DEFINE k == IF u < p THEN u ELSE u - 1
      <4>3. k \in 0 .. s.top - 1 /\ (IF k < p THEN k ELSE k + 1) = u
        BY <1>1, <1>2, <1>4, <4>2
      <4> HIDE DEF k
      <4>4. s.ids[k] = m.ids[u] /\ k \in 0 .. m.top - 1 /\ k # m.top - 1
        BY <1>1, <1>4, <4>3
      <4>5. QED
        BY <1>13, <4>1, <4>4
    <3>3. QED
      BY <3>1, <3>2
  <2>3. QED
    BY <1>13, <2>1, <2>2 DEF Listed
<1>15. Books(r, w, R)
  <2>1. m.windows_exist \subseteq Id
    BY <1>1 DEF Manager
  <2>2. \A j \in m.windows_exist : /\ r.windows[j].buffer = m.windows[j].buffer
                                   /\ r.windows[j].pid = m.windows[j].pid
    BY <1>8, <1>13, <2>1
  <2>3. Books(m, w, R) /\ r.windows_exist = m.windows_exist
    BY <1>13 DEF Kept
  <2>4. QED
    BY <2>2, <2>3, BooksSame
<1>16. OthersStay(m, id, r)
  BY <1>8, <1>13 DEF OthersStay
<1>17. At(m, p).buffer = h
  BY <1>2 DEF At, Kept, Books, id
<1>18. Raised(m, p, r)
  <2>1. \A j \in m.windows_exist : r.windows[j].buffer = m.windows[j].buffer
    <3>1. m.windows_exist \subseteq Id
      BY <1>1 DEF Manager
    <3>2. QED
      BY <1>8, <1>13, <3>1
  <2>2. ASSUME NEW k \in 0 .. m.top - 1
        PROVE  At(r, k).buffer = IF k = m.top - 1 THEN At(m, p).buffer
                                 ELSE IF k < p THEN At(m, k).buffer ELSE At(m, k + 1).buffer
    <3>1. CASE k = m.top - 1
      BY <1>1, <1>2, <1>13, <2>1, <3>1 DEF At
    <3>2. CASE k # m.top - 1
      <4>1. k \in 0 .. s.top - 1
        BY <1>1, <1>4, <3>2
      <4>2. r.ids[k] = s.ids[k] /\ s.ids[k] \in m.windows_exist
            /\ s.ids[k] = IF k < p THEN m.ids[k] ELSE m.ids[k + 1]
        BY <1>4, <1>6, <1>13, <3>2, <4>1
      <4>3. QED
        BY <2>1, <3>2, <4>2 DEF At
    <3>3. QED
      BY <3>1, <3>2
  <2>3. QED
    BY <1>13, <2>2 DEF Raised
<1>19. QED
  BY <1>13, <1>14, <1>15, <1>16, <1>17, <1>18 DEF Kept, WellKept, r, n, s, id

\* A window that is closed, with the handle it belonged to.
LEMMA CloseKeeps ==
  ASSUME NEW m, NEW w, NEW R, Kept(m, w, R), NEW h \in R, NEW r, Closes(m, w[h], r)
  PROVE  Kept(r, w, R \ {h})
<1>1. /\ R \subseteq Handle /\ w \in [Handle -> Id \cup {NoId}]
      /\ \A g \in R : /\ w[g] \in m.windows_exist /\ m.windows[w[g]].buffer = g
                      /\ m.windows[w[g]].pid = Owner[g]
      /\ \A id \in m.windows_exist : \E g \in R : w[g] = id
  BY DEF Kept, Books
<1>2. WellKept(r) /\ r.windows = m.windows /\ r.windows_exist = m.windows_exist \ {w[h]}
  BY DEF Closes
<1>3. \A g \in R \ {h} : w[g] # w[h]
  BY <1>1
<1>4. Books(r, w, R \ {h})
  BY <1>1, <1>2, <1>3 DEF Books
<1>5. QED
  BY <1>2, <1>4 DEF Kept

\* A program with one handle.  The theorems about programs that die are about
\* such programs: of two windows winmgr_clean_window may miss one.
OneWindowEach == \A g, h \in Handle : Owner[g] = Owner[h] => g = h

\* The program of handle h dies.
LEMMA CleanIs ==
  ASSUME OneWindowEach, NEW m, NEW w, NEW R, Kept(m, w, R), NEW h \in Handle
  PROVE  IF h \in R THEN Closes(m, w[h], CleanWindows(m, Owner[h]))
         ELSE CleanWindows(m, Owner[h]) = m
<1>1. /\ R \subseteq Handle /\ WellKept(m)
      /\ \A g \in R : /\ w[g] \in m.windows_exist /\ m.windows[w[g]].buffer = g
                      /\ m.windows[w[g]].pid = Owner[g]
      /\ \A id \in m.windows_exist : \E g \in R : w[g] = id
  BY DEF Kept, Books
<1>2. CASE h \in R
  <2>1. WindowsOf(m, Owner[h]) = {w[h]}
    BY <1>1, <1>2 DEF WindowsOf, OneWindowEach
  <2>2. Closes(m, w[h], CleanWindows(m, Owner[h]))
    BY <1>1, <2>1, CleanOne
  <2>3. QED
    BY <1>2, <2>2
<1>3. CASE h \notin R
  <2>1. WindowsOf(m, Owner[h]) = {}
    BY <1>1, <1>3 DEF WindowsOf, OneWindowEach
  <2>2. CleanWindows(m, Owner[h]) = m
    BY <1>1, <2>1, CleanNone
  <2>3. QED
    BY <1>3, <2>2
<1>4. QED
  BY <1>2, <1>3

LEMMA CleanKeeps ==
  ASSUME OneWindowEach, NEW m, NEW w, NEW R, Kept(m, w, R), NEW h \in Handle
  PROVE  Kept(CleanWindows(m, Owner[h]), w, R \ {h}) /\ CleanWindows(m, Owner[h]).stray = m.stray
<1> DEFINE r == CleanWindows(m, Owner[h])
<1>1. IF h \in R THEN Closes(m, w[h], r) ELSE r = m
  BY CleanIs
<1> HIDE DEF r
<1>2. h \in R => Kept(r, w, R \ {h}) /\ r.stray = m.stray
  BY <1>1, CloseKeeps DEF Closes
<1>3. h \notin R => R \ {h} = R /\ r = m
  BY <1>1
<1>4. Kept(r, w, R \ {h}) /\ r.stray = m.stray
  BY <1>2, <1>3
<1>5. QED
  BY <1>4 DEF r

\* What the programs remember of windows they do not have registered does not
\* matter.
LEMMA ForgetKeeps ==
  ASSUME NEW m, NEW w, NEW R, Kept(m, w, R), NEW v \in [Handle -> Id \cup {NoId}],
         \A h \in R : v[h] = w[h]
  PROVE  Kept(m, v, R)
BY DEF Kept, Books

-----------------------------------------------------------------------------
(* The inductive invariant *)

WinInv == Kept(winmgr, winfo_id, registered)

LEMMA WinInvInit == WinInit => WinInv
<1> SUFFICES ASSUME WinInit PROVE WinInv
  OBVIOUS
<1> DEFINE blank == [c \in Cell |-> Background]
           empty(h) == [b \in Buffer(h) |-> Background]
           rear == [h \in Handle |-> empty(h)]
<1>1. /\ winmgr = [windows |-> [i \in Id |-> Unused], windows_exist |-> {},
                   ids |-> [i \in Id |-> NoId], top |-> 0, stray |-> "no",
                   screen |-> blank, rear |-> rear]
      /\ winfo_id = [h \in Handle |-> 0] /\ registered = {}
  BY DEF WinInit
<1>2. rear \in RearType
  <2>1. \A h \in Handle : rear[h] \in [Buffer(h) -> Pixel]
    BY DEF Pixel
  <2>2. rear = [h \in Handle |-> rear[h]]
    OBVIOUS
  <2> HIDE DEF rear
  <2>3. QED
    BY <2>1, <2>2, RearIn
<1>3. blank \in [Cell -> Pixel] /\ [i \in Id |-> Unused] \in [Id -> WindowType]
      /\ [i \in Id |-> NoId] \in [Id -> Id \cup {NoId}]
  BY DEF Pixel, WindowType, Unused
<1>4. blank = Painted(winmgr, 0)
  <2>1. \A c \in Cell : Painted(winmgr, 0)[c] = Background
    BY PaintedNone
  <2>2. Painted(winmgr, 0) = [c \in Cell |-> Painted(winmgr, 0)[c]]
    BY DEF Painted
  <2>3. QED
    BY <2>1, <2>2
<1> HIDE DEF blank, rear
<1>5. winmgr \in Manager
  BY <1>1, <1>2, <1>3, WindowAssumption DEF Manager
<1>6. /\ winmgr.top = 0 /\ winmgr.windows_exist = {} /\ winmgr.screen = blank
  BY <1>1
<1>7. Piled(winmgr) /\ SavedBelow(winmgr, winmgr.top) /\ Listed(winmgr)
  BY <1>5, <1>6 DEF Piled, SavedBelow, Listed
<1>8. 0 \in Id
  BY WindowAssumption DEF Id
<1>9. Books(winmgr, winfo_id, registered)
  BY <1>1, <1>6, <1>8 DEF Books
<1>10. QED
  BY <1>4, <1>6, <1>7, <1>9 DEF WinInv, Kept, WellKept, WellShown

LEMMA RegisterPreserves ==
  ASSUME WinInv, NEW h \in Handle, NEW place \in Place, Register(h, place)
  PROVE  WinInv'
<1> DEFINE id == GeneratedId(winmgr)
<1>1. /\ WellKept(winmgr) /\ winmgr \in Manager /\ h \notin registered
      /\ registered \subseteq Handle /\ winfo_id \in [Handle -> Id \cup {NoId}]
  BY DEF WinInv, Kept, Books, WellKept, WellShown, Piled, Register
<1>2. NoId \notin Id
  BY WindowAssumption DEF NoId, Id
<1>3. CASE id \in Id \ winmgr.windows_exist
  <2>1. id # NoId
    BY <1>2, <1>3
  <2>2. /\ winmgr' = Opened(winmgr, h, id, place) /\ winfo_id' = [winfo_id EXCEPT ![h] = id]
        /\ registered' = registered \cup {h}
    BY <2>1 DEF Register, Opened
  <2> HIDE DEF id
  <2>3. Kept(Opened(winmgr, h, id, place), [winfo_id EXCEPT ![h] = id], registered \cup {h})
    BY <1>1, <1>3, RegisterKeeps DEF WinInv
  <2>4. QED
    BY <2>2, <2>3 DEF WinInv
<1>4. CASE id = NoId
  <2> DEFINE n == [winmgr EXCEPT !.stray = "yes"]
             v == [winfo_id EXCEPT ![h] = NoId]
  <2>1. winmgr' = n /\ winfo_id' = v /\ registered' = registered
    BY <1>4 DEF Register
  <2>2. /\ n \in Manager /\ n.windows = winmgr.windows /\ n.ids = winmgr.ids
        /\ n.windows_exist = winmgr.windows_exist /\ n.top = winmgr.top
        /\ n.screen = winmgr.screen /\ n.rear = winmgr.rear
    BY <1>1 DEF Manager
  <2>3. v \in [Handle -> Id \cup {NoId}] /\ \A g \in registered : v[g] = winfo_id[g]
    BY <1>1
  <2> HIDE DEF n, v
  <2>4. WellShown(n)
    <3>1. \A j \in 0 .. winmgr.top - 1 : n.ids[j] = winmgr.ids[j] /\ At(n, j) = At(winmgr, j)
      BY <2>2 DEF At
    <3>2. QED
      BY <1>1, <2>2, <3>1, WellShownSame DEF WellKept
  <2>5. Listed(n)
    BY <1>1, <2>2 DEF WellKept, Listed
  <2>6. Books(n, winfo_id, registered)
    BY <2>2, BooksSame DEF WinInv, Kept
  <2>7. Kept(n, v, registered)
    BY <2>3, <2>4, <2>5, <2>6, ForgetKeeps DEF Kept, WellKept
  <2>8. QED
    BY <2>1, <2>7 DEF WinInv
<1>5. QED
  BY <1>1, <1>3, <1>4, GeneratedIsFree

LEMMA WinInvInductive == ASSUME OneWindowEach PROVE WinInv /\ [WinNext]_winVars => WinInv'
<1> SUFFICES ASSUME WinInv, [WinNext]_winVars PROVE WinInv'
  OBVIOUS
<1>1. ASSUME NEW h \in Handle, NEW place \in Place, Register(h, place) PROVE WinInv'
  BY <1>1, RegisterPreserves
<1>2. ASSUME NEW h \in Handle, NEW place \in Place, Update(h, place) PROVE WinInv'
  <2>1. h \in registered /\ UNCHANGED <<winfo_id, registered>>
    BY <1>2 DEF Update
  <2> DEFINE i == PlaceOf(winmgr, winfo_id[h])
             r == ShowUpFrom(UpdateWinfo(HideDownTo(winmgr, i), winfo_id[h], place), i)
  <2>2. Found(winmgr, winfo_id[h]) # {} /\ Kept(r, winfo_id, registered)
    BY <2>1, UpdateKeeps DEF WinInv
  <2>3. winmgr' = r
    BY <1>2, <2>2 DEF Update
  <2>4. QED
    BY <2>1, <2>2, <2>3 DEF WinInv
<1>3. ASSUME NEW h \in Handle, NEW place \in Place, Raise(h, place) PROVE WinInv'
  <2>1. h \in registered /\ UNCHANGED <<winfo_id, registered>>
    BY <1>3 DEF Raise
  <2>2. Kept(StackAdd(UpdateWinfo(StackRemove(winmgr, winfo_id[h]), winfo_id[h], place),
                      winfo_id[h]), winfo_id, registered)
    BY <2>1, RaiseKeeps DEF WinInv
  <2>3. QED
    BY <1>3, <2>1, <2>2 DEF Raise, WinInv
<1>4. ASSUME NEW h \in Handle, Close(h) PROVE WinInv'
  <2>1. h \in registered /\ winmgr' = CloseWindow(winmgr, winfo_id[h])
        /\ registered' = registered \ {h} /\ winfo_id' = winfo_id
    BY <1>4 DEF Close
  <2> DEFINE r == CloseWindow(winmgr, winfo_id[h])
  <2>2. WellKept(winmgr) /\ winfo_id[h] \in winmgr.windows_exist
    BY <2>1 DEF WinInv, Kept, Books
  <2>3. Closes(winmgr, winfo_id[h], r)
    BY <2>2, CloseCloses
  <2> HIDE DEF r
  <2>4. Kept(r, winfo_id, registered \ {h})
    BY <2>1, <2>3, CloseKeeps DEF WinInv
  <2>5. QED
    BY <2>1, <2>4 DEF WinInv, r
<1>5. ASSUME NEW h \in Handle, Clean(Owner[h]) PROVE WinInv'
  <2> DEFINE gone == {g \in Handle : Owner[g] = Owner[h]}
             v == [g \in Handle |-> IF g \in gone THEN 0 ELSE winfo_id[g]]
             r == CleanWindows(winmgr, Owner[h])
  <2>1. gone = {h}
    BY DEF OneWindowEach
  <2>2. winmgr' = r /\ registered' = registered \ {h} /\ winfo_id' = v
    BY <1>5, <2>1 DEF Clean
  <2>3. Kept(r, winfo_id, registered \ {h})
    BY CleanKeeps DEF WinInv
  <2>4. 0 \in Id /\ winfo_id \in [Handle -> Id \cup {NoId}] /\ registered \subseteq Handle
    BY WindowAssumption DEF Id, WinInv, Kept, Books
  <2>5. v \in [Handle -> Id \cup {NoId}] /\ \A g \in registered \ {h} : v[g] = winfo_id[g]
    BY <2>1, <2>4
  <2> HIDE DEF v, r
  <2>6. Kept(r, v, registered \ {h})
    BY <2>3, <2>5, ForgetKeeps
  <2>7. QED
    BY <2>2, <2>6 DEF WinInv
<1>6. CASE UNCHANGED winVars
  BY <1>6 DEF winVars, WinInv
<1>7. QED
  BY <1>1, <1>2, <1>3, <1>4, <1>5, <1>6 DEF WinNext, UserCall

\* The books and the screen are kept by every operation, for any number of
\* windows of any size at any place, as long as no program has two windows.
THEOREM WindowsSound == ASSUME OneWindowEach PROVE WinSpec => []WinInv
BY WinInvInit, WinInvInductive, PTL DEF WinSpec

-----------------------------------------------------------------------------
(* What follows *)

\* Each operation leaves the stack, the table of windows and the programs'
\* own records in agreement.
THEOREM BooksAlwaysAgree == ASSUME OneWindowEach PROVE WinSpec => []BooksAgree
<1>1. WinInv => BooksAgree
  <2> SUFFICES ASSUME WinInv PROVE BooksAgree
    OBVIOUS
  <2> DEFINE D == 0 .. winmgr.top - 1
             f == [k \in D |-> winmgr.ids[k]]
  <2>1. Piled(winmgr) /\ Listed(winmgr) /\ winmgr.top \in Nat
        /\ Books(winmgr, winfo_id, registered)
    BY WindowAssumption DEF WinInv, Kept, WellKept, WellShown, Piled, Manager
  <2>2. f \in Surjection(D, Stack)
    BY DEF Surjection, Stack
  <2>3. f \in Injection(D, Stack)
    <3>1. \A j, k \in D : f[j] = f[k] => j = k
      BY <2>1 DEF Piled, At
    <3>2. f \in [D -> Stack]
      BY DEF Stack
    <3>3. QED
      BY <3>1, <3>2 DEF Injection, IsInjective
  <2> HIDE DEF f
  <2>4. IsFiniteSet(D) /\ Cardinality(D) = winmgr.top
    BY <2>1, IntervalCardinality
  <2> HIDE DEF D
  <2>5. Cardinality(Stack) = winmgr.top
    BY <2>2, <2>3, <2>4, FS_Surjection
  <2>6. Stack = winmgr.windows_exist
    BY <2>1 DEF Listed, Stack
  <2>7. winmgr.windows_exist = {winfo_id[h] : h \in registered}
    BY <2>1 DEF Books
  <2>8. QED
    BY <2>1, <2>5, <2>6, <2>7 DEF BooksAgree, Books
<1>2. QED
  BY <1>1, WindowsSound, PTL

\* What is saved behind the windows is what is below them: hiding them from
\* the top down gives back the empty screen.
THEOREM SavedIsWhatIsBelow == ASSUME OneWindowEach PROVE WinSpec => []HidesNest
<1>1. WinInv => HidesNest
  <2> SUFFICES ASSUME WinInv PROVE HidesNest
    OBVIOUS
  <2>1. WellShown(winmgr) /\ winmgr \in Manager /\ 0 \in 0 .. winmgr.top
    BY WindowAssumption DEF WinInv, Kept, WellKept, WellShown, Piled, Manager
  <2>2. HideDownTo(winmgr, 0) = [winmgr EXCEPT !.screen = Painted(winmgr, 0)]
    BY <2>1, HideDownToIs
  <2>3. HideDownTo(winmgr, 0).screen = Painted(winmgr, 0)
    BY <2>1, <2>2 DEF Manager
  <2>4. QED
    BY <2>3, PaintedNone DEF HidesNest
<1>2. QED
  BY <1>1, WindowsSound, PTL

\* The programs have no more windows than the manager has ids.
FewWindows == IsFiniteSet(Handle) /\ Cardinality(Handle) <= MAX_WINDOW_NUM

\* Then one that is not registered finds an id.
LEMMA FreeForFew ==
  ASSUME FewWindows, NEW m, NEW w, NEW R, Kept(m, w, R), NEW h \in Handle \ R
  PROVE  m.windows_exist # Id
<1> SUFFICES ASSUME m.windows_exist = Id PROVE FALSE
  OBVIOUS
<1> DEFINE f == [g \in R |-> w[g]]
<1>1. Books(m, w, R) /\ R \in SUBSET (Handle \ {h})
  BY DEF Kept, Books
<1>2. f \in Surjection(R, Id)
  BY <1>1 DEF Books, Surjection
<1>3. /\ IsFiniteSet(Handle \ {h}) /\ Cardinality(Handle) \in Nat
      /\ Cardinality(Handle \ {h}) = Cardinality(Handle) - 1
  BY FS_RemoveElement, FS_CardinalityType DEF FewWindows
<1>4. IsFiniteSet(R) /\ Cardinality(R) <= Cardinality(Handle) - 1
  BY <1>1, <1>3, FS_Subset
<1>5. Cardinality(Id) <= Cardinality(R)
  BY <1>2, <1>4, FS_Surjection
<1>6. Cardinality(Id) = MAX_WINDOW_NUM /\ MAX_WINDOW_NUM \in Nat
  BY IntervalCardinality, WindowAssumption DEF Id
<1>7. Cardinality(R) \in Nat
  BY <1>4, FS_CardinalityType
<1>8. QED
  BY <1>3, <1>4, <1>5, <1>6, <1>7 DEF FewWindows

\* What they know of their windows are ids, and nothing is written outside
\* the manager's arrays.
FewInv == winfo_id \in [Handle -> Id] /\ winmgr.stray = "no"

LEMMA FewInvInductive ==
  ASSUME OneWindowEach, FewWindows PROVE WinInv /\ FewInv /\ [WinNext]_winVars => FewInv'
<1> SUFFICES ASSUME WinInv, FewInv, [WinNext]_winVars PROVE FewInv'
  OBVIOUS
<1>1. /\ winmgr \in Manager /\ WellKept(winmgr) /\ WellShown(winmgr)
      /\ Books(winmgr, winfo_id, registered)
  BY DEF WinInv, Kept, WellKept, WellShown, Piled
<1>2. 0 \in Id
  BY WindowAssumption DEF Id
<1>3. ASSUME NEW h \in Handle, NEW place \in Place, Register(h, place) PROVE FewInv'
  <2>1. GeneratedId(winmgr) \in Id \ winmgr.windows_exist
    <3>1. h \in Handle \ registered
      BY <1>3 DEF Register
    <3>2. winmgr.windows_exist # Id
      BY <3>1, FreeForFew DEF WinInv
    <3>3. QED
      BY <1>1, <3>2, GeneratedIsFree
  <2>2. GeneratedId(winmgr) # NoId
    BY <2>1, WindowAssumption DEF Id, NoId
  <2>3. winmgr' = Opened(winmgr, h, GeneratedId(winmgr), place)
        /\ winfo_id' = [winfo_id EXCEPT ![h] = GeneratedId(winmgr)]
    BY <1>3, <2>2 DEF Register, Opened
  <2>4. Opened(winmgr, h, GeneratedId(winmgr), place).stray = winmgr.stray
    <3> DEFINE id == GeneratedId(winmgr)
    <3> HIDE DEF id
    <3>1. id \in Id \ winmgr.windows_exist /\ h \in Handle \ registered
      BY <1>3, <2>1 DEF Register, id
    <3>2. /\ Kept(Opened(winmgr, h, id, place), [winfo_id EXCEPT ![h] = id], registered \cup {h})
          /\ Opened(winmgr, h, id, place).stray = winmgr.stray
      BY <3>1, RegisterKeeps DEF WinInv
    <3>3. QED
      BY <3>2 DEF id
  <2>5. QED
    BY <2>1, <2>3, <2>4 DEF FewInv
<1>4. ASSUME NEW h \in Handle, NEW place \in Place, Update(h, place) PROVE FewInv'
  <2>1. h \in registered /\ winfo_id' = winfo_id
    BY <1>4 DEF Update
  <2> DEFINE i == PlaceOf(winmgr, winfo_id[h])
             r == ShowUpFrom(UpdateWinfo(HideDownTo(winmgr, i), winfo_id[h], place), i)
  <2>2. Found(winmgr, winfo_id[h]) # {} /\ r.stray = winmgr.stray
    BY <2>1, UpdateKeeps DEF WinInv
  <2>3. winmgr' = r
    BY <1>4, <2>2 DEF Update
  <2>4. QED
    BY <2>1, <2>2, <2>3 DEF FewInv
<1>5. ASSUME NEW h \in Handle, NEW place \in Place, Raise(h, place) PROVE FewInv'
  <2>1. h \in registered /\ winfo_id' = winfo_id
    BY <1>5 DEF Raise
  <2>2. StackAdd(UpdateWinfo(StackRemove(winmgr, winfo_id[h]), winfo_id[h], place),
                 winfo_id[h]).stray = winmgr.stray
    BY <2>1, RaiseKeeps DEF WinInv
  <2>3. QED
    BY <1>5, <2>1, <2>2 DEF Raise, FewInv
<1>6. ASSUME NEW h \in Handle, Close(h) PROVE FewInv'
  <2>1. h \in registered /\ winmgr' = CloseWindow(winmgr, winfo_id[h]) /\ winfo_id' = winfo_id
    BY <1>6 DEF Close
  <2>2. Closes(winmgr, winfo_id[h], CloseWindow(winmgr, winfo_id[h]))
    BY <1>1, <2>1, CloseCloses DEF Books
  <2>3. QED
    BY <2>1, <2>2 DEF FewInv, Closes
<1>7. ASSUME NEW h \in Handle, Clean(Owner[h]) PROVE FewInv'
  <2>1. CleanWindows(winmgr, Owner[h]).stray = winmgr.stray
    BY CleanKeeps DEF WinInv
  <2>2. winfo_id' \in [Handle -> Id] /\ winmgr' = CleanWindows(winmgr, Owner[h])
    BY <1>2, <1>7 DEF Clean, FewInv
  <2>3. QED
    BY <2>1, <2>2 DEF FewInv
<1>8. CASE UNCHANGED winVars
  BY <1>8 DEF winVars, FewInv
<1>9. QED
  BY <1>3, <1>4, <1>5, <1>6, <1>7, <1>8 DEF WinNext, UserCall

LEMMA FewInvAlways == ASSUME OneWindowEach, FewWindows PROVE WinSpec => []FewInv
<1>1. WinInit => FewInv
  BY WindowAssumption DEF WinInit, FewInv, Id
<1>2. WinInv /\ FewInv /\ [WinNext]_winVars => FewInv'
  BY FewInvInductive
<1>3. QED
  BY <1>1, <1>2, WindowsSound, PTL DEF WinSpec

\* The manager's structure is well formed after every operation, and each
\* program has an id for its window, if there are ids enough.
THEOREM ManagerTyped == ASSUME OneWindowEach, FewWindows PROVE WinSpec => []WinTypeOK
<1>1. WinInv /\ FewInv => WinTypeOK
  BY DEF WinInv, FewInv, Kept, Books, WellKept, WellShown, Piled, Manager, WindowType, Pixel,
         WinTypeOK
<1>2. QED
  BY <1>1, WindowsSound, FewInvAlways, PTL

\* What goes wrong when the manager is full does not with ids enough: the
\* manager never writes outside its arrays.
THEOREM EnoughIdsAreSafe == ASSUME OneWindowEach, FewWindows PROVE WinSpec => []FullIsRefused
<1>1. FewInv => FullIsRefused
  BY DEF FewInv, FullIsRefused
<1>2. QED
  BY <1>1, FewInvAlways, PTL
-----------------------------------------------------------------------------
(* The pile seen from above *)

\* The pile and the places of the refinement, for a manager m and books w, R.
PileOf(m) == [k \in 1 .. m.top |-> m.windows[m.ids[k - 1]].buffer]

PlacesOf(m, w, R) == [h \in Handle |-> IF h \in R THEN m.windows[w[h]] ELSE Unused]

\* A level of the pile is a registered window, at its place.
LEMMA LevelIsWindow ==
  ASSUME NEW m, NEW w, NEW R, Kept(m, w, R)
  PROVE  /\ m.top \in Nat /\ PileOf(m) \in Seq(Handle) /\ Len(PileOf(m)) = m.top
         /\ \A j \in 0 .. m.top - 1 :
              /\ PileOf(m)[j + 1] = At(m, j).buffer /\ At(m, j).buffer \in R
              /\ At(m, j) \in WindowType
              /\ PlacesOf(m, w, R)[At(m, j).buffer] = At(m, j)
<1>1. /\ m.top \in Nat /\ Piled(m) /\ Listed(m) /\ Books(m, w, R) /\ m \in Manager
      /\ R \subseteq Handle
  BY WindowAssumption DEF Kept, WellKept, WellShown, Piled, Manager, Books
<1>2. ASSUME NEW j \in 0 .. m.top - 1
      PROVE  /\ PileOf(m)[j + 1] = At(m, j).buffer /\ At(m, j).buffer \in R
             /\ At(m, j) \in WindowType
             /\ PlacesOf(m, w, R)[At(m, j).buffer] = At(m, j)
  <2>1. j + 1 \in 1 .. m.top /\ (j + 1) - 1 = j
    BY <1>1
  <2>2. PileOf(m)[j + 1] = At(m, j).buffer
    BY <2>1 DEF PileOf, At
  <2>3. m.ids[j] \in m.windows_exist /\ m.ids[j] \in Id
    BY <1>1 DEF Listed, Piled
  <2>4. PICK g \in R : w[g] = m.ids[j]
    BY <1>1, <2>3 DEF Books
  <2>5. At(m, j).buffer = g /\ m.windows[w[g]] = At(m, j)
    BY <1>1, <2>4 DEF Books, At
  <2>6. At(m, j) \in WindowType
    BY <1>1, <2>3 DEF Manager, At
  <2>7. QED
    BY <1>1, <2>2, <2>5, <2>6 DEF PlacesOf
<1>3. PileOf(m) \in Seq(Handle) /\ Len(PileOf(m)) = m.top
  <2>1. \A k \in 1 .. m.top : k - 1 \in 0 .. m.top - 1 /\ (k - 1) + 1 = k
    BY <1>1
  <2>2. \A k \in 1 .. m.top : PileOf(m)[k] \in Handle
    BY <1>1, <1>2, <2>1
  <2>3. PileOf(m) = [k \in 1 .. m.top |-> PileOf(m)[k]]
    BY DEF PileOf
  <2>4. PileOf(m) \in [1 .. m.top -> Handle]
    BY <2>2, <2>3
  <2>5. QED
    BY <1>1, <2>4
<1>4. QED
  BY <1>1, <1>2, <1>3

\* The windows of the pile are the registered ones.
LEMMA OnPile ==
  ASSUME NEW m, NEW w, NEW R, Kept(m, w, R), NEW h
  PROVE  Pile!Contains(PileOf(m), h) <=> h \in R
<1>1. /\ m.top \in Nat /\ Len(PileOf(m)) = m.top
      /\ \A j \in 0 .. m.top - 1 : /\ PileOf(m)[j + 1] = At(m, j).buffer
                                   /\ At(m, j).buffer \in R
  BY LevelIsWindow
<1>2. ASSUME NEW i \in 1 .. m.top PROVE PileOf(m)[i] \in R
  <2>1. i - 1 \in 0 .. m.top - 1 /\ (i - 1) + 1 = i
    BY <1>1
  <2>2. QED
    BY <1>1, <2>1
<1>3. ASSUME h \in R PROVE \E i \in 1 .. m.top : PileOf(m)[i] = h
  <2>1. w[h] \in m.windows_exist /\ m.windows[w[h]].buffer = h
    BY <1>3 DEF Kept, Books
  <2>2. PICK j \in 0 .. m.top - 1 : m.ids[j] = w[h]
    BY <2>1 DEF Kept, WellKept, Listed
  <2>3. j + 1 \in 1 .. m.top /\ PileOf(m)[j + 1] = h
    BY <1>1, <2>1, <2>2 DEF At
  <2>4. QED
    BY <2>3
<1>4. QED
  BY <1>1, <1>2, <1>3 DEF Pile!Contains

\* A window is over the cells it covers.
LEMMA InsideIsCovered ==
  ASSUME NEW v \in WindowType, v.buffer \in Handle, NEW c \in Cell
  PROVE  Pile!Inside(v.buffer, v, c) <=> c \in Covered(v)
<1>1. PICK y \in 0 .. SCREEN_HEIGHT - 1, x \in 0 .. SCREEN_WIDTH - 1 : c = <<y, x>>
  BY DEF Cell
<1>2. /\ y \in Int /\ x \in Int /\ v.yloc \in Nat /\ v.xloc \in Nat
      /\ Ylen[v.buffer] \in Nat /\ Xlen[v.buffer] \in Nat /\ c[1] = y /\ c[2] = x
  BY <1>1, WindowAssumption DEF WindowType
<1>3. ASSUME c \in Covered(v) PROVE Pile!Inside(v.buffer, v, c)
  <2>1. PixelAt(v, c) \in Buffer(v.buffer)
    BY <1>3, CellsOfBuffer
  <2>2. y - v.yloc \in 0 .. Ylen[v.buffer] - 1 /\ x - v.xloc \in 0 .. Xlen[v.buffer] - 1
    BY <1>2, <2>1 DEF PixelAt, Buffer
  <2>3. y \in v.yloc .. v.yloc + Ylen[v.buffer] - 1 /\ x \in v.xloc .. v.xloc + Xlen[v.buffer] - 1
    BY <1>2, <2>2
  <2>4. QED
    BY <1>2, <2>3 DEF Pile!Inside
<1>4. ASSUME Pile!Inside(v.buffer, v, c) PROVE c \in Covered(v)
  <2> DEFINE b == <<y - v.yloc, x - v.xloc>>
  <2>1. y \in v.yloc .. v.yloc + Ylen[v.buffer] - 1 /\ x \in v.xloc .. v.xloc + Xlen[v.buffer] - 1
    BY <1>2, <1>4 DEF Pile!Inside
  <2>2. y - v.yloc \in 0 .. Ylen[v.buffer] - 1 /\ x - v.xloc \in 0 .. Xlen[v.buffer] - 1
        /\ v.yloc + (y - v.yloc) = y /\ v.xloc + (x - v.xloc) = x
    BY <1>2, <2>1
  <2>3. b \in Buffer(v.buffer) /\ <<v.yloc + b[1], v.xloc + b[2]>> = c
    BY <1>1, <2>2 DEF Buffer
  <2> HIDE DEF b
  <2>4. b \in Visible(v) /\ CellOf(v, b) = c
    BY <2>3 DEF Visible, CellOf
  <2>5. QED
    BY <2>4 DEF Covered
<1>5. QED
  BY <1>3, <1>4

\* What the manager painted is the pile seen from above.
LEMMA SeenIsPainted ==
  ASSUME NEW m, NEW w, NEW R, Kept(m, w, R)
  PROVE  m.screen = Pile!Seen(PileOf(m), PlacesOf(m, w, R))
<1> DEFINE p == PileOf(m)
           at == PlacesOf(m, w, R)
<1>1. /\ m.top \in Nat /\ p \in Seq(Handle) /\ Len(p) = m.top
      /\ \A j \in 0 .. m.top - 1 :
           /\ p[j + 1] = At(m, j).buffer /\ At(m, j).buffer \in Handle
           /\ At(m, j) \in WindowType /\ at[At(m, j).buffer] = At(m, j)
  <2>1. R \subseteq Handle
    BY DEF Kept, Books
  <2>2. QED
    BY <2>1, LevelIsWindow
<1>2. m.screen = Painted(m, m.top)
  BY DEF Kept, WellKept, WellShown
<1> HIDE DEF p, at
<1>3. ASSUME NEW c \in Cell
      PROVE  Painted(m, m.top)[c] =
               IF Pile!Levels(p, at, c) = {} THEN Background ELSE p[Pile!Max(Pile!Levels(p, at, c))]
  <2> DEFINE O == Over(m, m.top, c)
             L == Pile!Levels(p, at, c)
             top == CHOOSE j \in O : \A i \in O : i <= j
  <2>1. ASSUME NEW j \in 0 .. m.top - 1 PROVE j \in O <=> j + 1 \in L
    <3>1. Pile!Inside(p[j + 1], at[p[j + 1]], c) <=> c \in Covered(At(m, j))
      BY <1>1, InsideIsCovered
    <3>2. j + 1 \in 1 .. m.top
      BY <1>1
    <3>3. QED
      BY <1>1, <3>1, <3>2 DEF Over, Pile!Levels
  <2>2. O \in SUBSET (0 .. m.top - 1) /\ L \in SUBSET (1 .. m.top)
    BY <1>1 DEF Over, Pile!Levels
  <2>3. Painted(m, m.top)[c] = IF O = {} THEN Background ELSE At(m, top).buffer
    BY DEF Painted, Highest
  <2> HIDE DEF O, L
  <2>4. ASSUME NEW k \in L PROVE k - 1 \in O
    <3>1. k - 1 \in 0 .. m.top - 1 /\ (k - 1) + 1 = k
      BY <1>1, <2>2
    <3>2. QED
      BY <2>1, <3>1
  <2>5. CASE O = {}
    BY <2>3, <2>4, <2>5 DEF L
  <2>6. CASE O # {}
    <3>1. top \in O /\ \A i \in O : i <= top
      BY <1>1, <2>2, <2>6, HasHighest
    <3> HIDE DEF top
    <3>2. top + 1 \in L /\ top \in 0 .. m.top - 1
      BY <2>1, <2>2, <3>1
    <3>3. \A k \in L : top + 1 >= k
      BY <1>1, <2>2, <2>4, <3>1
    <3>4. \A k \in L : (\A i \in L : k >= i) => k = top + 1
      BY <1>1, <2>2, <3>2, <3>3
    <3>5. Pile!Max(L) = top + 1
      BY <3>2, <3>3, <3>4 DEF Pile!Max
    <3>6. QED
      BY <1>1, <2>3, <2>6, <3>2, <3>5 DEF L, top
  <2>7. QED
    BY <2>5, <2>6
<1>4. Painted(m, m.top) = [c \in Cell |-> Painted(m, m.top)[c]]
  BY DEF Painted
<1>5. QED
  BY <1>2, <1>3, <1>4 DEF Pile!Seen, Cell, p, at

\* What the changes of the stack are to the pile.
LEMMA PileTakenOut ==
  ASSUME NEW m, NEW w, NEW R, Kept(m, w, R), NEW p \in 0 .. m.top - 1, NEW r, TakenOut(m, p, r)
  PROVE  PileOf(r) = Pile!RemoveAt(PileOf(m), p + 1)
<1> DEFINE s == PileOf(m)
<1>1. /\ m.top \in Nat /\ s \in Seq(Handle) /\ Len(s) = m.top
      /\ \A j \in 0 .. m.top - 1 : s[j + 1] = At(m, j).buffer
  BY LevelIsWindow
<1>2. p + 1 \in 1 .. Len(s)
  BY <1>1
<1> HIDE DEF s
<1>3. Pile!RemoveAt(s, p + 1) =
        [k \in 1 .. Len(s) - 1 |-> IF k < p + 1 THEN s[k] ELSE s[k + 1]]
  BY <1>1, <1>2, RemoveAtGives DEF Pile!RemoveAt
<1>4. ASSUME NEW k \in 1 .. m.top - 1
      PROVE  r.windows[r.ids[k - 1]].buffer = IF k < p + 1 THEN s[k] ELSE s[k + 1]
  <2>1. k - 1 \in 0 .. r.top - 1 /\ (k - 1) + 1 = k /\ k - 1 \in 0 .. m.top - 1
        /\ k \in 0 .. m.top - 1
    BY <1>1 DEF TakenOut
  <2>2. At(r, k - 1).buffer = IF k - 1 < p THEN At(m, k - 1).buffer ELSE At(m, k).buffer
    BY <2>1 DEF TakenOut
  <2>3. s[k] = At(m, k - 1).buffer /\ s[k + 1] = At(m, k).buffer
    BY <1>1, <2>1
  <2>4. k - 1 < p <=> k < p + 1
    BY <1>1
  <2>5. QED
    BY <2>2, <2>3, <2>4 DEF At
<1>5. PileOf(r) = [k \in 1 .. m.top - 1 |-> IF k < p + 1 THEN s[k] ELSE s[k + 1]]
  <2>1. r.top = m.top - 1
    BY DEF TakenOut
  <2>2. QED
    BY <1>4, <2>1 DEF PileOf
<1>6. QED
  BY <1>1, <1>3, <1>5 DEF s

LEMMA PilePutOn ==
  ASSUME NEW m, NEW w, NEW R, Kept(m, w, R), NEW h \in Handle, NEW r, PutOn(m, h, r)
  PROVE  PileOf(r) = Append(PileOf(m), h)
<1> DEFINE s == PileOf(m)
<1>1. /\ m.top \in Nat /\ s \in Seq(Handle) /\ Len(s) = m.top
      /\ \A j \in 0 .. m.top - 1 : s[j + 1] = At(m, j).buffer
  BY LevelIsWindow
<1> HIDE DEF s
<1>2. Append(s, h) = [k \in 1 .. Len(s) + 1 |-> IF k = Len(s) + 1 THEN h ELSE s[k]]
  BY <1>1, AppendGives
<1>3. ASSUME NEW k \in 1 .. m.top + 1
      PROVE  r.windows[r.ids[k - 1]].buffer = IF k = m.top + 1 THEN h ELSE s[k]
  <2>1. k - 1 \in 0 .. m.top /\ (k - 1) + 1 = k
        /\ (k # m.top + 1 => k - 1 \in 0 .. m.top - 1)
    BY <1>1
  <2>2. At(r, k - 1).buffer = IF k - 1 = m.top THEN h ELSE At(m, k - 1).buffer
    BY <2>1 DEF PutOn
  <2>3. k # m.top + 1 => s[k] = At(m, k - 1).buffer
    BY <1>1, <2>1
  <2>4. k - 1 = m.top <=> k = m.top + 1
    BY <1>1
  <2>5. QED
    BY <2>2, <2>3, <2>4 DEF At
<1>4. PileOf(r) = [k \in 1 .. m.top + 1 |-> IF k = m.top + 1 THEN h ELSE s[k]]
  <2>1. r.top = m.top + 1
    BY DEF PutOn
  <2>2. QED
    BY <1>3, <2>1 DEF PileOf
<1>5. QED
  BY <1>1, <1>2, <1>4 DEF s

LEMMA PileRaised ==
  ASSUME NEW m, NEW w, NEW R, Kept(m, w, R), NEW p \in 0 .. m.top - 1, NEW r, Raised(m, p, r)
  PROVE  PileOf(r) = Append(Pile!RemoveAt(PileOf(m), p + 1), At(m, p).buffer)
<1> DEFINE s == PileOf(m)
           t == [k \in 1 .. m.top - 1 |-> IF k < p + 1 THEN s[k] ELSE s[k + 1]]
           h == At(m, p).buffer
<1>1. /\ m.top \in Nat /\ s \in Seq(Handle) /\ Len(s) = m.top /\ h \in R /\ R \subseteq Handle
      /\ \A j \in 0 .. m.top - 1 : s[j + 1] = At(m, j).buffer
  <2>1. R \subseteq Handle
    BY DEF Kept, Books
  <2>2. QED
    BY <2>1, LevelIsWindow
<1>2. p + 1 \in 1 .. Len(s)
  BY <1>1
<1> HIDE DEF s, h
<1>3. Pile!RemoveAt(s, p + 1) = t
  BY <1>1, <1>2, RemoveAtGives DEF Pile!RemoveAt
<1>4. t \in Seq(Handle) /\ Len(t) = m.top - 1
  <2>1. \A k \in 1 .. m.top - 1 : k \in 1 .. Len(s) /\ k + 1 \in 1 .. Len(s)
    BY <1>1
  <2>2. \A k \in 1 .. Len(s) : s[k] \in Handle
    BY <1>1
  <2>3. t \in [1 .. m.top - 1 -> Handle] /\ m.top - 1 \in Nat
    BY <1>1, <2>1, <2>2
  <2> HIDE DEF t
  <2>4. QED
    BY <2>3
<1>5. \A k \in 1 .. m.top - 1 : t[k] = IF k < p + 1 THEN s[k] ELSE s[k + 1]
  OBVIOUS
<1> HIDE DEF t
<1>6. Append(t, h) = [k \in 1 .. Len(t) + 1 |-> IF k = Len(t) + 1 THEN h ELSE t[k]]
  BY <1>1, <1>4, AppendGives
<1>7. ASSUME NEW k \in 1 .. m.top
      PROVE  r.windows[r.ids[k - 1]].buffer = IF k = m.top THEN h ELSE t[k]
  <2>1. k - 1 \in 0 .. m.top - 1 /\ (k - 1) + 1 = k
        /\ (k # m.top => k \in 1 .. m.top - 1 /\ k \in 0 .. m.top - 1)
    BY <1>1
  <2>2. At(r, k - 1).buffer = IF k - 1 = m.top - 1 THEN h
                              ELSE IF k - 1 < p THEN At(m, k - 1).buffer ELSE At(m, (k - 1) + 1).buffer
    BY <2>1 DEF Raised, h
  <2>3. k # m.top => t[k] = IF k - 1 < p THEN At(m, k - 1).buffer ELSE At(m, k).buffer
    <3>1. k - 1 < p <=> k < p + 1
      BY <1>1
    <3>2. k # m.top => s[k] = At(m, k - 1).buffer /\ s[k + 1] = At(m, k).buffer
      BY <1>1, <2>1
    <3>3. QED
      BY <1>5, <2>1, <3>1, <3>2
  <2>4. k - 1 = m.top - 1 <=> k = m.top
    BY <1>1
  <2>5. QED
    BY <2>1, <2>2, <2>3, <2>4 DEF At
<1>8. PileOf(r) = [k \in 1 .. m.top |-> IF k = m.top THEN h ELSE t[k]]
  <2>1. r.top = m.top
    BY DEF Raised
  <2>2. QED
    BY <1>7, <2>1 DEF PileOf
<1>9. QED
  <2>1. Len(t) + 1 = m.top
    BY <1>1, <1>4
  <2>2. QED
    BY <1>3, <1>6, <1>8, <2>1 DEF s, h

\* A window other than h stays where it is.
LEMMA PlacesStay ==
  ASSUME NEW m, NEW w, NEW R, Kept(m, w, R), NEW r, NEW v, NEW Q, Kept(r, v, Q),
         NEW h \in Handle, Q \subseteq R \cup {h}, \A g \in Q \ {h} : v[g] = w[g],
         h \in Q => OthersStay(m, v[h], r), h \notin Q => r.windows = m.windows
  PROVE  \A g \in Handle \ {h} : Pile!Contains(PileOf(r), g) =>
           PlacesOf(r, v, Q)[g] = PlacesOf(m, w, R)[g]
<1> SUFFICES ASSUME NEW g \in Handle \ {h}, Pile!Contains(PileOf(r), g)
             PROVE  PlacesOf(r, v, Q)[g] = PlacesOf(m, w, R)[g]
  OBVIOUS
<1>1. g \in Q /\ g \in R /\ v[g] = w[g]
  BY OnPile
<1>2. r.windows[v[g]] = m.windows[v[g]]
  <2>1. CASE h \in Q
    <3>1. v[g] # v[h] /\ v[g] \in r.windows_exist
      BY <1>1, <2>1 DEF Kept, Books
    <3>2. r.windows_exist \subseteq Id
      BY DEF Kept, WellKept, WellShown, Piled, Manager
    <3>3. QED
      BY <2>1, <3>1, <3>2 DEF OthersStay
  <2>2. QED
    BY <2>1
<1>3. QED
  BY <1>1, <1>2 DEF PlacesOf
\* After a step that may move h and no other window, the screen shows the pile.
LEMMA ScreenIsDrawn ==
  ASSUME WinInv, WinInv', NEW h \in Handle, registered' \subseteq registered \cup {h},
         \A g \in registered' \ {h} : winfo_id'[g] = winfo_id[g],
         h \in registered' => OthersStay(winmgr, winfo_id'[h], winmgr'),
         h \notin registered' => winmgr'.windows = winmgr.windows
  PROVE  Pile!Draw({h}) /\ (h \notin registered' => Pile!Draw({}))
<1>1. Kept(winmgr, winfo_id, registered) /\ Kept(winmgr', winfo_id', registered')
  BY DEF WinInv
<1>2. winmgr'.screen = Pile!Seen(PileOf(winmgr'), PlacesOf(winmgr', winfo_id', registered'))
  BY <1>1, SeenIsPainted
<1>3. \A g \in Handle \ {h} : Pile!Contains(PileOf(winmgr'), g) =>
        PlacesOf(winmgr', winfo_id', registered')[g] = PlacesOf(winmgr, winfo_id, registered)[g]
  BY <1>1, PlacesStay
<1>4. h \notin registered' => ~Pile!Contains(PileOf(winmgr'), h)
  BY <1>1, OnPile
<1>5. QED
  BY <1>2, <1>3, <1>4 DEF Pile!Draw, PileOf, PlacesOf

\* A window that is closed is taken out of the pile.
LEMMA CloseShuts ==
  ASSUME WinInv, WinInv', NEW h \in registered, Closes(winmgr, winfo_id[h], winmgr'),
         registered' = registered \ {h}, \A g \in registered' : winfo_id'[g] = winfo_id[g]
  PROVE  Pile!Shut(h)
<1>1. Kept(winmgr, winfo_id, registered) /\ h \in Handle
  BY DEF WinInv, Kept, Books
<1>2. PICK p \in 0 .. winmgr.top - 1 : winmgr.ids[p] = winfo_id[h] /\ TakenOut(winmgr, p, winmgr')
  BY DEF Closes
<1>3. PileOf(winmgr') = Pile!RemoveAt(PileOf(winmgr), p + 1)
  BY <1>1, <1>2, PileTakenOut
<1>4. p + 1 \in 1 .. Len(PileOf(winmgr)) /\ PileOf(winmgr)[p + 1] = h
  <2>1. /\ winmgr.top \in Nat /\ Len(PileOf(winmgr)) = winmgr.top
        /\ PileOf(winmgr)[p + 1] = At(winmgr, p).buffer
    BY <1>1, LevelIsWindow
  <2>2. At(winmgr, p).buffer = h
    BY <1>1, <1>2 DEF At, Kept, Books
  <2>3. QED
    BY <2>1, <2>2
<1>5. Pile!Draw({})
  <2>1. winmgr'.windows = winmgr.windows
    BY DEF Closes
  <2>2. QED
    BY <1>1, <2>1, ScreenIsDrawn
<1>6. QED
  BY <1>3, <1>4, <1>5 DEF Pile!Shut, PileOf

\* With the same manager, and the same windows registered, nothing changes.
LEMMA NothingDrawn ==
  ASSUME winmgr'.top = winmgr.top, winmgr'.ids = winmgr.ids, winmgr'.windows = winmgr.windows,
         winmgr'.screen = winmgr.screen, registered' = registered,
         \A g \in registered : winfo_id'[g] = winfo_id[g]
  PROVE  UNCHANGED Pile!desktopVars
BY DEF Pile!desktopVars

\* Every step of the manager is a step of the pile.
LEMMA StepShowsThePile ==
  ASSUME OneWindowEach, WinInv, WinInv', [WinNext]_winVars
  PROVE  [Pile!DesktopNext]_(Pile!desktopVars)
<1> DEFINE P == PileOf(winmgr)
           Step == [Pile!DesktopNext]_(Pile!desktopVars)
<1>1. /\ Kept(winmgr, winfo_id, registered) /\ registered \subseteq Handle
      /\ winfo_id \in [Handle -> Id \cup {NoId}] /\ winmgr \in Manager
  BY DEF WinInv, Kept, Books, WellKept, WellShown, Piled
<1>2. ASSUME NEW h \in Handle, NEW place \in Place, Register(h, place) PROVE Step
  <2> DEFINE id == GeneratedId(winmgr)
  <2>1. CASE id \in Id \ winmgr.windows_exist
    <3>1. id # NoId /\ h \in Handle \ registered
      BY <1>2, <2>1, WindowAssumption DEF NoId, Id, Register
    <3>2. /\ winmgr' = Opened(winmgr, h, id, place) /\ winfo_id' = [winfo_id EXCEPT ![h] = id]
          /\ registered' = registered \cup {h}
      BY <1>2, <3>1 DEF Register, Opened
    <3> HIDE DEF id
    <3>3. PutOn(winmgr, h, winmgr') /\ OthersStay(winmgr, id, winmgr')
      BY <1>1, <2>1, <3>1, <3>2, RegisterKeeps
    <3>4. PileOf(winmgr') = Append(P, h)
      BY <1>1, <3>3, PilePutOn
    <3>5. ~Pile!Contains(P, h)
      BY <1>1, <3>1, OnPile
    <3>6. Pile!Draw({h})
      <4>1. winfo_id'[h] = id /\ \A g \in registered' \ {h} : winfo_id'[g] = winfo_id[g]
        BY <1>1, <3>2
      <4>2. QED
        BY <3>2, <3>3, <4>1, ScreenIsDrawn
    <3>7. Pile!Open(h)
      BY <3>4, <3>5, <3>6 DEF Pile!Open, PileOf
    <3>8. QED
      BY <3>7 DEF Pile!DesktopNext
  <2>2. CASE id = NoId
    <3> DEFINE n == [winmgr EXCEPT !.stray = "yes"]
    <3>1. winmgr' = n /\ winfo_id' = [winfo_id EXCEPT ![h] = NoId]
          /\ registered' = registered /\ h \notin registered
      BY <1>2, <2>2 DEF Register
    <3>2. n.windows = winmgr.windows /\ n.ids = winmgr.ids /\ n.top = winmgr.top
          /\ n.screen = winmgr.screen
      BY <1>1 DEF Manager
    <3> HIDE DEF n
    <3>3. \A g \in registered : winfo_id'[g] = winfo_id[g]
      BY <1>1, <3>1
    <3>4. QED
      BY <3>1, <3>2, <3>3, NothingDrawn
  <2>3. QED
    BY <1>1, <2>1, <2>2, GeneratedIsFree
<1>3. ASSUME NEW h \in Handle, NEW place \in Place, Update(h, place) PROVE Step
  <2>1. h \in registered /\ UNCHANGED <<winfo_id, registered>>
    BY <1>3 DEF Update
  <2> DEFINE i == PlaceOf(winmgr, winfo_id[h])
             r == ShowUpFrom(UpdateWinfo(HideDownTo(winmgr, i), winfo_id[h], place), i)
  <2>2. /\ Found(winmgr, winfo_id[h]) # {} /\ SamePile(winmgr, r)
        /\ OthersStay(winmgr, winfo_id[h], r)
    BY <1>1, <2>1, UpdateKeeps
  <2>3. winmgr' = r
    BY <1>3, <2>2 DEF Update
  <2> HIDE DEF r
  <2>4. PileOf(winmgr') = P
    <3>1. \A k \in 1 .. winmgr.top : At(r, k - 1).buffer = At(winmgr, k - 1).buffer
      <4>1. winmgr.top \in Nat
        BY <1>1, LevelIsWindow
      <4>2. \A k \in 1 .. winmgr.top : k - 1 \in 0 .. winmgr.top - 1
        BY <4>1
      <4>3. QED
        BY <2>2, <4>2 DEF SamePile
    <3>2. QED
      BY <2>2, <2>3, <3>1 DEF PileOf, At, SamePile
  <2>5. Pile!Contains(P, h)
    BY <1>1, <2>1, OnPile
  <2>6. Pile!Draw({h})
    BY <2>1, <2>2, <2>3, ScreenIsDrawn
  <2>7. Pile!Move(h)
    BY <2>4, <2>5, <2>6 DEF Pile!Move, PileOf
  <2>8. QED
    BY <2>7 DEF Pile!DesktopNext
<1>4. ASSUME NEW h \in Handle, NEW place \in Place, Raise(h, place) PROVE Step
  <2>1. h \in registered /\ UNCHANGED <<winfo_id, registered>>
    BY <1>4 DEF Raise
  <2> DEFINE r == StackAdd(UpdateWinfo(StackRemove(winmgr, winfo_id[h]), winfo_id[h], place),
                           winfo_id[h])
  <2>2. winmgr' = r
    BY <1>4 DEF Raise
  <2>3. /\ \E p \in 0 .. winmgr.top - 1 : At(winmgr, p).buffer = h /\ Raised(winmgr, p, r)
        /\ OthersStay(winmgr, winfo_id[h], r)
    BY <1>1, <2>1, RaiseKeeps
  <2> HIDE DEF r
  <2>4. PICK p \in 0 .. winmgr.top - 1 : At(winmgr, p).buffer = h /\ Raised(winmgr, p, r)
    BY <2>3
  <2>5. PileOf(winmgr') = Append(Pile!RemoveAt(P, p + 1), h)
    BY <1>1, <2>2, <2>4, PileRaised
  <2>6. p + 1 \in 1 .. Len(P) /\ P[p + 1] = h
    <3>1. winmgr.top \in Nat /\ Len(P) = winmgr.top /\ P[p + 1] = At(winmgr, p).buffer
      BY <1>1, LevelIsWindow
    <3>2. QED
      BY <2>4, <3>1
  <2>7. Pile!Draw({h})
    BY <2>1, <2>2, <2>3, ScreenIsDrawn
  <2>8. Pile!ToTop(h)
    BY <2>5, <2>6, <2>7 DEF Pile!ToTop, PileOf
  <2>9. QED
    BY <2>8 DEF Pile!DesktopNext
<1>5. ASSUME NEW h \in Handle, Close(h) PROVE Step
  <2>1. /\ h \in registered /\ winmgr' = CloseWindow(winmgr, winfo_id[h])
        /\ registered' = registered \ {h} /\ winfo_id' = winfo_id
    BY <1>5 DEF Close
  <2>2. WellKept(winmgr) /\ winfo_id[h] \in winmgr.windows_exist
    BY <2>1 DEF WinInv, Kept, Books
  <2>3. Closes(winmgr, winfo_id[h], winmgr')
    BY <2>1, <2>2, CloseCloses
  <2>4. Pile!Shut(h)
    BY <2>1, <2>3, CloseShuts
  <2>5. QED
    BY <2>4 DEF Pile!DesktopNext
<1>6. ASSUME NEW h \in Handle, Clean(Owner[h]) PROVE Step
  <2>1. {g \in Handle : Owner[g] = Owner[h]} = {h}
    BY DEF OneWindowEach
  <2>2. /\ winmgr' = CleanWindows(winmgr, Owner[h]) /\ registered' = registered \ {h}
        /\ winfo_id' = [g \in Handle |-> IF g \in {h} THEN 0 ELSE winfo_id[g]]
    BY <1>6, <2>1 DEF Clean
  <2>3. \A g \in registered \ {h} : winfo_id'[g] = winfo_id[g]
    BY <1>1, <2>2
  <2>4. IF h \in registered THEN Closes(winmgr, winfo_id[h], winmgr') ELSE winmgr' = winmgr
    BY <1>1, <2>2, CleanIs
  <2>5. CASE h \in registered
    <3>1. Pile!Shut(h)
      BY <2>2, <2>3, <2>4, <2>5, CloseShuts
    <3>2. QED
      BY <3>1 DEF Pile!DesktopNext
  <2>6. CASE h \notin registered
    <3>1. registered' = registered
      BY <2>2, <2>6
    <3>2. QED
      BY <2>3, <2>4, <2>6, <3>1, NothingDrawn
  <2>7. QED
    BY <2>5, <2>6
<1>7. CASE UNCHANGED winVars
  <2>1. winmgr' = winmgr /\ winfo_id' = winfo_id /\ registered' = registered
    BY <1>7 DEF winVars
  <2>2. QED
    BY <2>1, NothingDrawn
<1>8. QED
  BY <1>2, <1>3, <1>4, <1>5, <1>6, <1>7 DEF WinNext, UserCall

\* Saving what is behind each window and putting it back gives, after every
\* operation, the screen that redrawing all windows from the lowest to the
\* highest would give.
THEOREM ScreenShowsThePile == ASSUME OneWindowEach PROVE WinSpec => ShowsThePile
<1>1. WinInit => Pile!DesktopInit
  <2> SUFFICES ASSUME WinInit PROVE Pile!DesktopInit
    OBVIOUS
  <2>1. Kept(winmgr, winfo_id, registered)
    BY WinInvInit DEF WinInv
  <2>2. winmgr.screen = Pile!Seen(PileOf(winmgr), PlacesOf(winmgr, winfo_id, registered))
    BY <2>1, SeenIsPainted
  <2>3. PileOf(winmgr) = <<>>
    <3>1. PileOf(winmgr) \in Seq(Handle) /\ Len(PileOf(winmgr)) = winmgr.top
      BY <2>1, LevelIsWindow
    <3>2. winmgr.top = 0
      BY DEF WinInit
    <3> DEFINE s == PileOf(winmgr)
    <3> HIDE DEF s
    <3>3. s \in Seq(Handle) /\ Len(s) = 0
      BY <3>1, <3>2 DEF s
    <3>4. s = <<>>
      BY <3>3, EmptySeq
    <3>5. QED
      BY <3>4 DEF s
  <2>4. QED
    BY <2>2, <2>3 DEF Pile!DesktopInit, PileOf, PlacesOf
<1>2. WinInv /\ WinInv' /\ [WinNext]_winVars => [Pile!DesktopNext]_(Pile!desktopVars)
  BY StepShowsThePile
<1>3. QED
  BY <1>1, <1>2, WindowsSound, PTL DEF WinSpec, ShowsThePile, Pile!DesktopSpec
=============================================================================
