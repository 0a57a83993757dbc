---------------------------- MODULE Heap_proofs ----------------------------
(***************************************************************************)
(* That the headers in the memory of the heap always are a list of blocks  *)
(* from its start to the end of its used part, that the used ones are      *)
(* those somebody holds, and that what holders see is a store of bytes.    *)
(*                                                                         *)
(* The list is where the recursion of kmalloc and kfree leads.  ChainOf    *)
(* says without recursion what it is, and that there is only one: so to    *)
(* show what a call does to the list, name the list it leaves.             *)
(***************************************************************************)
EXTENDS MCHeap, Induction, FiniteSetTheorems

\* The types of a byte and of a heap.
Byte == [data : Nat, status : {0, 1}, size : 0 .. HEAP_SIZE]

HeapType == [memory : [Address -> Byte], last_alloc : 0 .. HEAP_SIZE, dynamic_pointers : Nat]

\* The address after the block of a header.
After(h, a) == a + HEADER + h.memory[a].size

\* The search of kmalloc moves on.
LEMMA AfterType ==
  ASSUME NEW h \in HeapType, NEW a \in Nat, a < h.last_alloc
  PROVE  /\ After(h, a) \in Nat /\ After(h, a) > a
         /\ h.memory[a] \in Byte
<1>1. a \in Address
  BY HeapAssumption DEF HeapType, Address
<1>2. h.memory[a] \in Byte
  BY <1>1 DEF HeapType
<1>3. QED
  BY <1>2, HeapAssumption DEF After, Byte

\* The recursion of Headers, unfolded once.
LEMMA HeadersFunction ==
  ASSUME NEW h \in HeapType
  PROVE  \E f \in [Nat -> SUBSET Nat] :
           /\ \A a \in Nat : f[a] = IF a < h.last_alloc THEN {a} \cup f[After(h, a)] ELSE {}
           /\ Headers(h) = f[0]
<1> DEFINE L == h.last_alloc
           D == {a \in Nat : a < L}
           next == [a \in D |-> After(h, a)]
           V == SUBSET Nat
           stop == [a \in Nat |-> {}]
           step == [x \in D \X V |-> {x[1]} \cup x[2]]
           from == CHOOSE f : f = [a \in Nat |-> IF a < h.last_alloc
                       THEN {a} \cup f[a + HEADER + h.memory[a].size] ELSE {}]
<1>1. Climbs(L, D, next)
  <2>1. L \in Nat /\ D \in SUBSET Nat /\ \A a \in D : a < L
    BY DEF HeapType
  <2>2. next \in [D -> Nat] /\ \A a \in D : next[a] > a
    BY AfterType
  <2>3. QED
    BY <2>1, <2>2 DEF Climbs
<1>2. Steps(D, V, stop, step)
  BY DEF Steps
<1>3. PICK f : Solves(f, D, V, next, stop, step)
  <2> HIDE DEF D, L, next, stop, step, V
  <2>1. QED
    BY <1>1, <1>2, RecursionUp
<1>4. f \in [Nat -> V]
      /\ \A a \in Nat : f[a] = IF a \in D THEN step[<<a, f[next[a]]>>] ELSE stop[a]
  BY <1>3 DEF Solves
<1>5. \A a \in Nat : f[a] = IF a < L THEN {a} \cup f[After(h, a)] ELSE {}
  BY <1>4, AfterType
<1>6. f = [a \in Nat |-> IF a < h.last_alloc THEN {a} \cup f[a + HEADER + h.memory[a].size] ELSE {}]
  BY <1>4, <1>5 DEF After
<1>7. from = [a \in Nat |-> IF a < h.last_alloc
                            THEN {a} \cup from[a + HEADER + h.memory[a].size] ELSE {}]
  BY <1>6
<1>8. Headers(h) = from[0]
  BY DEF Headers
<1>9. from[0] = f[0]
  <2>1. Follow(f, from, D, next)
    <3>1. \A a \in D : from[next[a]] = f[next[a]] => from[a] = f[a]
      <4>1. \A a \in D : next[a] = a + HEADER + h.memory[a].size
        BY DEF After
      <4>2. \A a \in D : f[a] = {a} \cup f[next[a]]
        BY <1>5
      <4> HIDE DEF from, D, next
      <4>3. \A a \in D : from[a] = {a} \cup from[next[a]]
        BY <1>7, <4>1 DEF D
      <4>4. ASSUME NEW a \in D, from[next[a]] = f[next[a]] PROVE from[a] = f[a]
        <5>1. f[a] = {a} \cup f[next[a]]
          BY <4>2
        <5>2. from[a] = {a} \cup from[next[a]]
          BY <4>3
        <5>3. QED
          BY <4>4, <5>1, <5>2
      <4>5. QED
        BY <4>4
    <3> HIDE DEF from
    <3>2. \A a \in Nat \ D : from[a] = f[a]
      BY <1>5, <1>7
    <3>3. QED
      BY <3>1, <3>2 DEF Follow
  <2> HIDE DEF D, L, next, from
  <2>2. \A a \in Nat : from[a] = f[a]
    BY <1>1, <2>1, RecursionUpUnique
  <2>3. QED
    BY <2>2
<1>10. QED
  BY <1>4, <1>5, <1>8, <1>9

\* H leads from 0 to the end of the used part.
ChainOf(h, H) ==
  /\ H \subseteq Nat /\ \A a \in H : a < h.last_alloc
  /\ 0 < h.last_alloc => 0 \in H
  /\ \A a \in H : After(h, a) < h.last_alloc => After(h, a) \in H
  /\ \A b \in H \ {0} : \E a \in H : After(h, a) = b

\* What the search of kmalloc walks over is a chain.
LEMMA HeadersChain ==
  ASSUME NEW h \in HeapType
  PROVE  ChainOf(h, Headers(h))
<1> DEFINE L == h.last_alloc
<1>1. PICK f \in [Nat -> SUBSET Nat] :
        /\ \A a \in Nat : f[a] = IF a < L THEN {a} \cup f[After(h, a)] ELSE {}
        /\ Headers(h) = f[0]
  BY HeadersFunction
<1>2. L \in Nat
  BY DEF HeapType
<1> DEFINE Chain(a) ==
             /\ \A x \in f[a] : a <= x /\ x < L
             /\ \A x \in f[a] : After(h, x) < L => After(h, x) \in f[a]
             /\ \A b \in f[a] : b = a \/ \E x \in f[a] : After(h, x) = b
           S == {n \in Nat : \A a \in Nat : a + n >= L => Chain(a)}
<1>3. 0 \in S
  BY <1>1, <1>2
<1>4. ASSUME NEW n \in Nat, n \in S PROVE n + 1 \in S
  <2>1. ASSUME NEW a \in Nat, a + (n + 1) >= L, a < L PROVE Chain(a)
    <3>1. After(h, a) \in Nat /\ After(h, a) > a
      BY <2>1, AfterType
    <3>2. Chain(After(h, a))
      BY <1>2, <1>4, <2>1, <3>1
    <3>3. f[a] = {a} \cup f[After(h, a)]
      BY <1>1, <2>1
    <3>4. After(h, a) < L => After(h, a) \in f[After(h, a)]
      BY <1>1, <3>1
    <3>5. \A x \in f[a] : a <= x /\ x < L
      BY <1>1, <1>2, <2>1, <3>1, <3>2, <3>3
    <3>6. \A x \in f[a] : After(h, x) < L => After(h, x) \in f[a]
      BY <3>2, <3>3, <3>4
    <3>7. \A b \in f[a] : b = a \/ \E x \in f[a] : After(h, x) = b
      BY <3>2, <3>3
    <3>8. QED
      BY <3>5, <3>6, <3>7
  <2>2. ASSUME NEW a \in Nat, a >= L PROVE Chain(a)
    BY <1>1, <1>2, <2>2
  <2> HIDE DEF Chain
  <2>3. QED
    BY <1>2, <2>1, <2>2
<1>5. L \in S
  <2> HIDE DEF S
  <2>1. Nat \subseteq S
    BY <1>3, <1>4, NatInSet
  <2>2. QED
    BY <1>2, <2>1
<1>6. Chain(0)
  BY <1>2, <1>5
<1>7. 0 < L => 0 \in f[0]
  BY <1>1
<1>8. QED
  BY <1>1, <1>6, <1>7 DEF ChainOf

\* There is only one chain.
LEMMA ChainUnique ==
  ASSUME NEW h \in HeapType, NEW G, NEW H, ChainOf(h, G), ChainOf(h, H)
  PROVE  G \subseteq H
<1> DEFINE T == {b \in G : b \notin H}
<1> SUFFICES ASSUME T # {} PROVE FALSE
  OBVIOUS
<1>1. T \in SUBSET Nat
  BY DEF ChainOf
<1>2. PICK b \in T : \A c \in T : b <= c
  BY <1>1, LeastNat
<1>3. b # 0 /\ b \in Nat /\ b < h.last_alloc
  BY DEF ChainOf, HeapType
<1>4. PICK a \in G : After(h, a) = b
  BY <1>3 DEF ChainOf
<1>5. a \in Nat /\ a < h.last_alloc
  BY DEF ChainOf
<1>6. a < b
  BY <1>4, <1>5, AfterType
<1>7. a \in H
  BY <1>1, <1>2, <1>5, <1>6
<1>8. QED
  BY <1>3, <1>4, <1>7 DEF ChainOf

\* So whatever is a chain is what the search of kmalloc walks over.
LEMMA HeadersAre ==
  ASSUME NEW h \in HeapType, NEW H, ChainOf(h, H)
  PROVE  Headers(h) = H
BY HeadersChain, ChainUnique

\* Blocks do not reach into each other.
LEMMA BlocksApart ==
  ASSUME NEW h \in HeapType, NEW H, ChainOf(h, H),
         NEW a \in H, NEW b \in H, a < b
  PROVE  After(h, a) <= b
<1> DEFINE T == {y \in H : \E x \in H : x < y /\ y < After(h, x)}
<1>1. T \in SUBSET Nat
  BY DEF ChainOf
<1>2. \A x \in H : x \in Nat /\ After(h, x) \in Nat /\ After(h, x) > x
  BY AfterType DEF ChainOf
<1>3. T = {}
  <2> SUFFICES ASSUME T # {} PROVE FALSE
    OBVIOUS
  <2>1. PICK y \in T : \A z \in T : y <= z
    BY <1>1, LeastNat
  <2>2. PICK x \in H : x < y /\ y < After(h, x)
    OBVIOUS
  <2>3. y # 0
    BY <1>2, <2>2
  <2>4. PICK c \in H : After(h, c) = y
    BY <2>3 DEF ChainOf
  <2>5. c < y /\ c # x
    BY <1>2, <2>2, <2>4
  <2>6. CASE x < c
    <3>1. c \in T
      BY <1>2, <2>2, <2>5, <2>6
    <3>2. QED
      BY <1>2, <2>1, <2>5, <3>1
  <2>7. CASE c < x
    <3>1. x \in T
      BY <1>2, <2>2, <2>4, <2>7
    <3>2. QED
      BY <1>2, <2>1, <2>2, <3>1
  <2>8. QED
    BY <1>2, <2>5, <2>6, <2>7
<1>4. QED
  BY <1>2, <1>3
-----------------------------------------------------------------------------
(* Where the free blocks after an address end *)

\* The recursion of FreeEnd, unfolded once.
LEMMA FreeEndFunction ==
  ASSUME NEW h \in HeapType
  PROVE  \E f \in [Nat -> Nat] :
           \A a \in Nat :
             /\ f[a] = IF a < h.last_alloc /\ h.memory[a].status = 0 THEN f[After(h, a)] ELSE a
             /\ FreeEnd(h, a) = f[a]
<1> DEFINE L == h.last_alloc
           D == {a \in Nat : a < L /\ h.memory[a].status = 0}
           next == [a \in D |-> After(h, a)]
           stop == [a \in Nat |-> a]
           step == [x \in D \X Nat |-> x[2]]
           end == CHOOSE f : f = [a \in Nat |->
                    IF a < h.last_alloc /\ h.memory[a].status = 0
                    THEN f[a + HEADER + h.memory[a].size] ELSE a]
<1>1. Climbs(L, D, next)
  <2>1. L \in Nat /\ D \in SUBSET Nat /\ \A a \in D : a < L
    BY DEF HeapType
  <2>2. next \in [D -> Nat] /\ \A a \in D : next[a] > a
    BY AfterType
  <2>3. QED
    BY <2>1, <2>2 DEF Climbs
<1>2. Steps(D, Nat, stop, step)
  BY DEF Steps
<1>3. PICK f : Solves(f, D, Nat, next, stop, step)
  <2> HIDE DEF D, L, next, stop, step
  <2>1. QED
    BY <1>1, <1>2, RecursionUp
<1>4. f \in [Nat -> Nat]
      /\ \A a \in Nat : f[a] = IF a \in D THEN step[<<a, f[next[a]]>>] ELSE stop[a]
  BY <1>3 DEF Solves
<1>5. \A a \in D : f[a] = f[next[a]]
  BY <1>1, <1>4 DEF Climbs
<1>6. \A a \in Nat : f[a] = IF a < L /\ h.memory[a].status = 0 THEN f[After(h, a)] ELSE a
  BY <1>4, <1>5
<1>7. f = [a \in Nat |-> IF a < h.last_alloc /\ h.memory[a].status = 0
                         THEN f[a + HEADER + h.memory[a].size] ELSE a]
  BY <1>4, <1>6 DEF After
<1>8. end = [a \in Nat |-> IF a < h.last_alloc /\ h.memory[a].status = 0
                           THEN end[a + HEADER + h.memory[a].size] ELSE a]
  BY <1>7
<1>9. \A a \in Nat : FreeEnd(h, a) = end[a]
  BY DEF FreeEnd
<1>10. \A a \in Nat : end[a] = f[a]
  <2>1. \A a \in D : next[a] = a + HEADER + h.memory[a].size
    BY DEF After
  <2> HIDE DEF end
  <2>2. \A a \in D : end[a] = end[next[a]]
    BY <1>8, <2>1
  <2>3. \A a \in Nat \ D : end[a] = f[a]
    BY <1>6, <1>8
  <2>4. Follow(f, end, D, next)
    BY <1>5, <2>2, <2>3 DEF Follow
  <2> HIDE DEF D, L, next
  <2>5. QED
    BY <1>1, <2>4, RecursionUpUnique
<1>11. QED
  BY SMTT(30), <1>4, <1>6, <1>9, <1>10

\* From a block on, or from the end of the used part.
LEMMA FreeEndFound ==
  ASSUME NEW h \in HeapType, NEW H, ChainOf(h, H),
         \A a \in H : After(h, a) \in H \cup {h.last_alloc},
         NEW a \in H \cup {h.last_alloc}
  PROVE  /\ FreeEnd(h, a) \in H \cup {h.last_alloc} /\ FreeEnd(h, a) >= a
         /\ \A c \in H : a <= c /\ c < FreeEnd(h, a) => h.memory[c].status = 0
<1> DEFINE L == h.last_alloc
           Place == H \cup {L}
<1>1. PICK f \in [Nat -> Nat] :
        \A b \in Nat :
          /\ f[b] = IF b < L /\ h.memory[b].status = 0 THEN f[After(h, b)] ELSE b
          /\ FreeEnd(h, b) = f[b]
  BY FreeEndFunction
<1>2. L \in Nat /\ Place \subseteq Nat /\ \A b \in Place : b <= L
  <2>1. L \in Nat
    BY DEF HeapType
  <2>2. \A b \in H : b \in Nat /\ b < L
    BY DEF ChainOf
  <2>3. QED
    BY <2>1, <2>2
<1> DEFINE Ends(b) == /\ f[b] \in Place /\ f[b] >= b
                      /\ \A c \in H : b <= c /\ c < f[b] => h.memory[c].status = 0
           S == {n \in Nat : \A b \in Place : b + n >= L => Ends(b)}
<1>3. \A b \in Place : f[b] = b => Ends(b)
  BY <1>2
<1>4. 0 \in S
  <2>1. ASSUME NEW b \in Place, b + 0 >= L PROVE Ends(b)
    <3>1. f[b] = b
      BY <1>1, <1>2, <2>1
    <3>2. QED
      BY <1>3, <3>1
  <2>2. QED
    BY <2>1
<1>5. ASSUME NEW n \in Nat, n \in S PROVE n + 1 \in S
  <2>1. ASSUME NEW b \in Place, b + (n + 1) >= L, b < L, h.memory[b].status = 0
        PROVE  Ends(b)
    <3>1. b \in H /\ b \in Nat
      BY <1>2, <2>1
    <3>2. After(h, b) \in Place /\ After(h, b) \in Nat /\ After(h, b) > b
      BY <2>1, <3>1, AfterType
    <3>3. Ends(After(h, b))
      BY <1>2, <1>5, <2>1, <3>1, <3>2
    <3>4. f[b] = f[After(h, b)]
      BY <1>1, <2>1, <3>1
    <3>5. ASSUME NEW c \in H, b <= c, c < f[b] PROVE h.memory[c].status = 0
      <4>1. c \in Nat
        BY <1>2
      <4>2. CASE b < c
        <5>1. After(h, b) <= c
          BY <3>1, <4>2, BlocksApart
        <5>2. QED
          BY <3>3, <3>4, <3>5, <5>1
      <4>3. QED
        BY <2>1, <3>1, <3>5, <4>1, <4>2
    <3>6. f[b] \in Place /\ f[b] >= b
      BY <1>2, <3>1, <3>2, <3>3, <3>4
    <3>7. QED
      BY <3>5, <3>6
  <2>2. ASSUME NEW b \in Place, ~(b < L /\ h.memory[b].status = 0) PROVE Ends(b)
    BY <1>1, <1>2, <1>3, <2>2
  <2> HIDE DEF Ends
  <2>3. QED
    BY <2>1, <2>2
<1>6. L \in S
  <2> HIDE DEF S
  <2>1. Nat \subseteq S
    BY <1>4, <1>5, NatInSet
  <2>2. QED
    BY <1>2, <2>1
<1>7. Ends(a)
  BY <1>2, <1>6
<1>8. QED
  BY <1>1, <1>2, <1>7
-----------------------------------------------------------------------------
(* The invariant, of a heap and of the pointers in use *)

\* The blocks in use.
Used(h, H) == {a \in H : h.memory[a].status = 1}

\* The list ends where the used part ends, its used blocks are those of the
\* pointers P, which are counted, the rest of the heap was never touched, and
\* with no block in use the used part is empty.
Sound(h, P) ==
  /\ h \in HeapType
  /\ h.last_alloc < HEAP_SIZE
  /\ \A a \in Headers(h) : After(h, a) \in Headers(h) \cup {h.last_alloc}
  /\ P = {a + HEADER : a \in Used(h, Headers(h))}
  /\ h.dynamic_pointers = Cardinality(P)
  /\ \A x \in Address : x >= h.last_alloc => h.memory[x] = Zero
  /\ P = {} => h.last_alloc = 0

\* What a sound heap says of its blocks.
LEMMA SoundBlocks ==
  ASSUME NEW h, NEW P, Sound(h, P)
  PROVE  /\ h.last_alloc \in Nat /\ h.last_alloc < HEAP_SIZE
         /\ ChainOf(h, Headers(h))
         /\ \A a \in Headers(h) :
              /\ a \in Nat /\ a < h.last_alloc /\ a \in Address /\ h.memory[a] \in Byte
              /\ After(h, a) \in Nat /\ After(h, a) <= h.last_alloc /\ a < After(h, a)
              /\ \A b \in Headers(h) : a < b => After(h, a) <= b
<1> DEFINE H == Headers(h)
<1>1. h \in HeapType /\ \A a \in H : After(h, a) \in H \cup {h.last_alloc}
  BY DEF Sound
<1>2. h.last_alloc \in Nat /\ h.last_alloc < HEAP_SIZE
  BY DEF Sound, HeapType
<1>3. ChainOf(h, H)
  BY <1>1, HeadersChain
<1>4. ASSUME NEW a \in H
      PROVE  /\ a \in Nat /\ a < h.last_alloc /\ a \in Address /\ h.memory[a] \in Byte
             /\ After(h, a) \in Nat /\ After(h, a) <= h.last_alloc /\ a < After(h, a)
             /\ \A b \in H : a < b => After(h, a) <= b
  <2>1. a \in Nat /\ a < h.last_alloc
    BY <1>3 DEF ChainOf
  <2>2. a \in Address
    BY <1>2, <2>1, HeapAssumption DEF Address
  <2>3. h.memory[a] \in Byte /\ After(h, a) \in Nat /\ a < After(h, a)
    BY <1>1, <2>1, AfterType
  <2>4. After(h, a) <= h.last_alloc
    <3>1. \A b \in H : b \in Nat /\ b < h.last_alloc
      BY <1>3 DEF ChainOf
    <3>2. QED
      BY <1>1, <1>2, <3>1
  <2>5. \A b \in H : a < b => After(h, a) <= b
    BY <1>1, <1>3, BlocksApart
  <2>6. QED
    BY <2>1, <2>2, <2>3, <2>4, <2>5
<1>5. QED
  BY <1>2, <1>3, <1>4

\* The chain reaches the end of the used part.
LEMMA LastBlock ==
  ASSUME NEW h, NEW P, Sound(h, P), h.last_alloc # 0
  PROVE  \E b \in Headers(h) : After(h, b) = h.last_alloc
<1> DEFINE H == Headers(h)
           L == h.last_alloc
<1> SUFFICES ASSUME \A b \in H : After(h, b) # L PROVE FALSE
  OBVIOUS
<1>1. L \in Nat /\ 0 \in H
  BY SoundBlocks DEF ChainOf
<1>2. \A b \in H : /\ b \in Nat /\ b < L /\ After(h, b) \in Nat /\ After(h, b) > b
                   /\ After(h, b) \in H
  BY SoundBlocks DEF Sound
<1> DEFINE S == {k \in Nat : \E b \in H : b >= k}
<1> HIDE DEF H, L
<1>3. 0 \in S
  BY <1>1, <1>2
<1>4. \A k \in Nat : k \in S => k + 1 \in S
  BY <1>2
<1>5. L \in S
  <2> HIDE DEF S
  <2>1. Nat \subseteq S
    BY <1>3, <1>4, NatInSet
  <2>2. QED
    BY <1>1, <2>1
<1>6. QED
  BY <1>1, <1>2, <1>5

\* The pointers in use lie in the heap, and are finitely many.
LEMMA SoundPointers ==
  ASSUME NEW h, NEW P, Sound(h, P)
  PROVE  /\ P \subseteq Address /\ IsFiniteSet(P)
         /\ \A p \in P : /\ p - HEADER \in Headers(h) /\ h.memory[p - HEADER].status = 1
                         /\ p \in Nat /\ p + h.memory[p - HEADER].size = After(h, p - HEADER)
<1>1. ASSUME NEW p \in P
      PROVE  /\ p \in Address /\ p - HEADER \in Headers(h) /\ h.memory[p - HEADER].status = 1
             /\ p \in Nat /\ p + h.memory[p - HEADER].size = After(h, p - HEADER)
  <2>1. PICK a \in Headers(h) : h.memory[a].status = 1 /\ p = a + HEADER
    BY DEF Sound, Used
  <2>2. /\ a \in Nat /\ h.memory[a] \in Byte
        /\ After(h, a) <= h.last_alloc /\ h.last_alloc \in Nat /\ h.last_alloc < HEAP_SIZE
    BY SoundBlocks
  <2>3. p - HEADER = a /\ p \in Nat
    BY <2>1, <2>2, HeapAssumption
  <2>4. h.memory[a].size \in Nat
    BY <2>2, HeapAssumption DEF Byte
  <2>5. p <= After(h, a) /\ p + h.memory[p - HEADER].size = After(h, a)
    BY <2>1, <2>2, <2>3, <2>4, HeapAssumption DEF After
  <2>6. p \in Address
    BY <2>2, <2>3, <2>4, <2>5, HeapAssumption DEF Address, After
  <2>7. QED
    BY <2>1, <2>3, <2>5, <2>6
<1>2. IsFiniteSet(Address)
  BY FS_Interval, HeapAssumption DEF Address
<1>3. P \subseteq Address
  BY <1>1
<1>4. QED
  BY <1>1, <1>2, <1>3, FS_Subset

-----------------------------------------------------------------------------
(* kmalloc *)

\* What kmalloc chooses: a free block it can take or split, or the end.
LEMMA HeaderForFound ==
  ASSUME NEW h, NEW P, Sound(h, P), NEW n \in Nat \ {0}, ~Exhausted(h, n)
  PROVE  \/ /\ HeaderFor(h, n) \in Headers(h)
            /\ h.memory[HeaderFor(h, n)].status = 0
            /\ \/ h.memory[HeaderFor(h, n)].size = n
               \/ h.memory[HeaderFor(h, n)].size >= n + HEADER
         \/ /\ HeaderFor(h, n) = h.last_alloc
            /\ h.last_alloc + n + HEADER < HEAP_SIZE
<1> DEFINE fit == FittingHeaders(h, n)
<1>1. CASE fit = {}
  <2>1. HeaderFor(h, n) = h.last_alloc
    BY <1>1 DEF HeaderFor
  <2>2. h.last_alloc \in Nat
    BY SoundBlocks
  <2>3. h.last_alloc + n + HEADER < HEAP_SIZE
    BY <1>1, <2>2, HeapAssumption DEF Exhausted
  <2>4. QED
    BY <2>1, <2>3
<1>2. CASE fit # {}
  <2>1. fit \in SUBSET Nat
    BY SoundBlocks DEF FittingHeaders
  <2>2. \E a \in fit : \A b \in fit : a <= b
    BY <1>2, <2>1, LeastNat
  <2>3. HeaderFor(h, n) = CHOOSE a \in fit : \A b \in fit : a <= b
    BY <1>2 DEF HeaderFor
  <2>4. HeaderFor(h, n) \in fit
    BY <2>2, <2>3
  <2>5. QED
    BY <2>4 DEF FittingHeaders, Fits
<1>3. QED
  BY <1>1, <1>2

\* The bytes after kmalloc.
LEMMA AllocatedMemory ==
  ASSUME NEW h \in HeapType, NEW n \in Nat \ {0}, NEW a \in Nat, a = HeaderFor(h, n)
  PROVE  /\ DOMAIN Allocated(h, n).memory = Address
         /\ \A x \in Address : Allocated(h, n).memory[x] =
              IF a < h.last_alloc /\ h.memory[a].size # n /\ x = a + HEADER + n
              THEN [data |-> 0, status |-> 0, size |-> Remainder(h, a, n)]
              ELSE IF a + HEADER <= x /\ x < a + HEADER + n THEN Zero
              ELSE IF x = a THEN [data |-> 0, status |-> 1, size |-> n]
              ELSE h.memory[x]
         /\ Allocated(h, n).last_alloc =
              IF a < h.last_alloc THEN h.last_alloc ELSE a + HEADER + n
         /\ Allocated(h, n).dynamic_pointers = h.dynamic_pointers + 1
<1> DEFINE taken == Cleared(SetHeader(h.memory, a, 1, n), a + HEADER, n)
           split == a < h.last_alloc /\ h.memory[a].size # n
           rest == SetHeader(taken, a + HEADER + n, 0, Remainder(h, a, n))
<1>1. Allocated(h, n) = [memory |-> IF split THEN rest ELSE taken,
                         last_alloc |-> IF a < h.last_alloc THEN h.last_alloc ELSE a + HEADER + n,
                         dynamic_pointers |-> h.dynamic_pointers + 1]
  BY DEF Allocated
<1>2. DOMAIN h.memory = Address
  BY DEF HeapType
<1>3. DOMAIN taken = Address /\ \A x \in Address : taken[x] =
        IF x \in a + HEADER .. a + HEADER + n - 1 THEN Zero
        ELSE IF x = a THEN [data |-> 0, status |-> 1, size |-> n] ELSE h.memory[x]
  BY <1>2 DEF Cleared, SetHeader
<1>4. \A x \in Address : x \in a + HEADER .. a + HEADER + n - 1 <=>
                         a + HEADER <= x /\ x < a + HEADER + n
  BY HeapAssumption DEF Address
<1> HIDE DEF taken
<1>5. DOMAIN rest = Address /\ \A x \in Address : rest[x] =
        IF x = a + HEADER + n
        THEN [data |-> 0, status |-> 0, size |-> Remainder(h, a, n)] ELSE taken[x]
  BY <1>3 DEF SetHeader
<1> HIDE DEF rest
<1>6. QED
  BY <1>1, <1>3, <1>4, <1>5

\* The block kmalloc gives: its header, and the end of it.
LEMMA AllocatedBlock ==
  ASSUME NEW h, NEW P, Sound(h, P), NEW n \in Nat \ {0}, ~Exhausted(h, n),
         NEW a, a = HeaderFor(h, n)
  PROVE  /\ a \in Nat /\ a \in Address /\ n <= HEAP_SIZE
         /\ h.last_alloc \in Nat
         /\ a < h.last_alloc => /\ a \in Headers(h) /\ h.memory[a].status = 0
                                /\ h.memory[a].size \in Nat
                                /\ h.memory[a].size = n \/ h.memory[a].size >= n + HEADER
                                /\ h.memory[a].size <= HEAP_SIZE
                                /\ a + HEADER + h.memory[a].size = After(h, a)
                                /\ After(h, a) <= h.last_alloc
         /\ ~(a < h.last_alloc) => a = h.last_alloc /\ a + n + HEADER < HEAP_SIZE
<1>1. h.last_alloc \in Nat /\ h.last_alloc < HEAP_SIZE
  BY SoundBlocks
<1>2. CASE a \in Headers(h) /\ h.memory[a].status = 0
            /\ (h.memory[a].size = n \/ h.memory[a].size >= n + HEADER)
  <2>1. /\ a \in Nat /\ a < h.last_alloc /\ a \in Address /\ h.memory[a] \in Byte
        /\ After(h, a) <= h.last_alloc
    BY <1>2, SoundBlocks
  <2>2. h.memory[a].size \in Nat /\ h.memory[a].size <= HEAP_SIZE
    BY <2>1, HeapAssumption DEF Byte
  <2>3. n <= HEAP_SIZE
    BY <1>2, <2>2, HeapAssumption
  <2>4. QED
    BY <1>1, <1>2, <2>1, <2>2, <2>3 DEF After
<1>3. CASE a = h.last_alloc /\ h.last_alloc + n + HEADER < HEAP_SIZE
  BY <1>1, <1>3, HeapAssumption DEF Address
<1>4. QED
  BY <1>2, <1>3, HeaderForFound

\* kmalloc turns a sound heap h, with pointers P, into g.
Allocates(h, P, n, a, g) ==
  /\ Sound(h, P) /\ n \in Nat \ {0} /\ ~Exhausted(h, n)
  /\ a = HeaderFor(h, n) /\ g = Allocated(h, n)

\* kmalloc changes nothing outside of the block it gives.
LEMMA AllocatedElsewhere ==
  ASSUME NEW h, NEW P, NEW n, NEW a, NEW g, Allocates(h, P, n, a, g)
  PROVE  /\ g \in HeapType
         /\ \A x \in Address : x < a \/ (a < h.last_alloc /\ x >= After(h, a))
                                   \/ (x >= a + HEADER + n /\ ~(a < h.last_alloc))
              => g.memory[x] = h.memory[x]
         /\ g.memory[a].status = 1 /\ g.memory[a].size = n
         /\ \A x \in Address : a + HEADER <= x /\ x < a + HEADER + n => g.memory[x] = Zero
         /\ a < h.last_alloc /\ h.memory[a].size # n =>
              /\ a + HEADER + n \in Address
              /\ g.memory[a + HEADER + n].status = 0
              /\ g.memory[a + HEADER + n].size = h.memory[a].size - n - HEADER
         /\ g.last_alloc = IF a < h.last_alloc THEN h.last_alloc ELSE a + HEADER + n
         /\ g.dynamic_pointers = h.dynamic_pointers + 1
<1>0. /\ Sound(h, P) /\ n \in Nat \ {0} /\ ~Exhausted(h, n)
      /\ a = HeaderFor(h, n) /\ g = Allocated(h, n)
  BY DEF Allocates
<1> USE <1>0
<1> DEFINE split == a < h.last_alloc /\ h.memory[a].size # n
<1>1. /\ a \in Nat /\ a \in Address /\ n <= HEAP_SIZE
      /\ h.last_alloc \in Nat /\ h.last_alloc < HEAP_SIZE
      /\ a < h.last_alloc => /\ h.memory[a].size \in Nat /\ h.memory[a].size <= HEAP_SIZE
                             /\ h.memory[a].size = n \/ h.memory[a].size >= n + HEADER
                             /\ a + HEADER + h.memory[a].size = After(h, a)
                             /\ After(h, a) <= h.last_alloc
      /\ ~(a < h.last_alloc) => a = h.last_alloc /\ a + n + HEADER < HEAP_SIZE
  BY AllocatedBlock, SoundBlocks
<1>2. h \in HeapType
  BY DEF Sound
<1>3. /\ DOMAIN g.memory = Address
      /\ \A x \in Address : g.memory[x] =
           IF split /\ x = a + HEADER + n
           THEN [data |-> 0, status |-> 0, size |-> h.memory[a].size - n - HEADER]
           ELSE IF a + HEADER <= x /\ x < a + HEADER + n THEN Zero
           ELSE IF x = a THEN [data |-> 0, status |-> 1, size |-> n]
           ELSE h.memory[x]
      /\ g.last_alloc = IF a < h.last_alloc THEN h.last_alloc ELSE a + HEADER + n
      /\ g.dynamic_pointers = h.dynamic_pointers + 1
  BY <1>1, <1>2, AllocatedMemory DEF Remainder
<1>4. split => /\ a + HEADER + n < After(h, a) + 1 /\ a + HEADER + n \in Address
               /\ h.memory[a].size - n - HEADER \in 0 .. HEAP_SIZE
               /\ a + HEADER + n + HEADER <= After(h, a)
  BY <1>1, HeapAssumption DEF Address
<1>5. ASSUME NEW x \in Address,
             x < a \/ (a < h.last_alloc /\ x >= After(h, a))
                   \/ (x >= a + HEADER + n /\ ~(a < h.last_alloc))
      PROVE  g.memory[x] = h.memory[x]
  <2>1. x \in Nat
    BY HeapAssumption DEF Address
  <2>2. ~(split /\ x = a + HEADER + n)
    BY <1>1, <1>4, <1>5, <2>1, HeapAssumption
  <2>3. ~(a + HEADER <= x /\ x < a + HEADER + n) /\ x # a
    BY <1>1, <1>5, <2>1, HeapAssumption
  <2>4. QED
    BY <1>3, <2>2, <2>3
<1>6. g.memory[a] = [data |-> 0, status |-> 1, size |-> n]
  <2>1. a # a + HEADER + n /\ ~(a + HEADER <= a)
    BY <1>1, HeapAssumption
  <2>2. QED
    BY <1>1, <1>3, <2>1
<1>7. ASSUME NEW x \in Address, a + HEADER <= x, x < a + HEADER + n PROVE g.memory[x] = Zero
  <2>1. x # a + HEADER + n
    BY <1>1, <1>7, HeapAssumption DEF Address
  <2>2. QED
    BY <1>3, <1>7, <2>1
<1>8. g \in HeapType
  <2>1. \A x \in Address : h.memory[x] \in Byte
    BY <1>2 DEF HeapType
  <2>2. Zero \in Byte /\ [data |-> 0, status |-> 1, size |-> n] \in Byte
    BY <1>1, HeapAssumption DEF Zero, Byte
  <2>3. split => [data |-> 0, status |-> 0, size |-> h.memory[a].size - n - HEADER] \in Byte
    BY <1>4 DEF Byte
  <2>4. \A x \in Address : g.memory[x] \in Byte
    BY <1>3, <2>1, <2>2, <2>3
  <2>5. g = [memory |-> g.memory, last_alloc |-> g.last_alloc,
             dynamic_pointers |-> g.dynamic_pointers]
    BY DEF Allocated
  <2>6. g.memory = [x \in Address |-> g.memory[x]]
    BY DEF Allocated, Cleared, SetHeader, HeapType, Sound
  <2>7. g.memory \in [Address -> Byte]
    BY <2>4, <2>6
  <2>8. g.last_alloc \in 0 .. HEAP_SIZE /\ g.dynamic_pointers \in Nat
    <3>1. h.dynamic_pointers \in Nat
      BY <1>2 DEF HeapType
    <3>2. QED
      BY <1>1, <1>3, <3>1, HeapAssumption
  <2>9. QED
    BY <2>5, <2>7, <2>8 DEF HeapType
<1>9. split => /\ a + HEADER + n \in Address
               /\ g.memory[a + HEADER + n] =
                    [data |-> 0, status |-> 0, size |-> h.memory[a].size - n - HEADER]
  BY <1>3, <1>4
<1>10. QED
  BY <1>3, <1>5, <1>6, <1>7, <1>8, <1>9

\* The pointers in use, apart from each other: the blocks with their headers.
LEMMA PointersApart ==
  ASSUME NEW h, NEW P, Sound(h, P), NEW p \in P, NEW q \in P, p # q
  PROVE  \/ p + h.memory[p - HEADER].size <= q - HEADER
         \/ q + h.memory[q - HEADER].size <= p - HEADER
<1>1. /\ p - HEADER \in Headers(h) /\ p + h.memory[p - HEADER].size = After(h, p - HEADER)
      /\ q - HEADER \in Headers(h) /\ q + h.memory[q - HEADER].size = After(h, q - HEADER)
      /\ p \in Nat /\ q \in Nat
  BY SoundPointers
<1>2. p - HEADER \in Nat /\ q - HEADER \in Nat /\ p - HEADER # q - HEADER
  BY <1>1, SoundBlocks, HeapAssumption
<1>3. CASE p - HEADER < q - HEADER
  BY <1>1, <1>3, SoundBlocks
<1>4. CASE q - HEADER < p - HEADER
  BY <1>1, <1>4, SoundBlocks
<1>5. QED
  BY <1>2, <1>3, <1>4

\* The headers after kmalloc: those there were, that of the block, and that
\* of what is left of a split one.
WithBlock(h, a, n) ==
  Headers(h) \cup {a} \cup IF a < h.last_alloc /\ h.memory[a].size # n
                           THEN {a + HEADER + n} ELSE {}

\* Where each of the blocks ends after kmalloc.
LEMMA AllocatedHeaders ==
  ASSUME NEW h, NEW P, NEW n, NEW a, NEW g, Allocates(h, P, n, a, g)
  PROVE  /\ \A b \in Headers(h) \ {a} : b \in Address /\ g.memory[b] = h.memory[b]
                                        /\ After(g, b) = After(h, b)
         /\ After(g, a) = a + HEADER + n
         /\ a < h.last_alloc /\ h.memory[a].size = n => After(g, a) = After(h, a)
         /\ a < h.last_alloc /\ h.memory[a].size # n =>
              After(g, a + HEADER + n) = After(h, a)
              /\ a + HEADER + n \notin Headers(h)
              /\ a + HEADER + n < After(h, a)
<1>0. /\ Sound(h, P) /\ n \in Nat \ {0} /\ ~Exhausted(h, n)
      /\ a = HeaderFor(h, n) /\ g = Allocated(h, n)
  BY DEF Allocates
<1> USE <1>0
<1>1. /\ a \in Nat /\ a \in Address /\ h.last_alloc \in Nat
      /\ a < h.last_alloc => /\ a \in Headers(h) /\ h.memory[a].size \in Nat
                             /\ h.memory[a].size = n \/ h.memory[a].size >= n + HEADER
                             /\ a + HEADER + h.memory[a].size = After(h, a)
      /\ ~(a < h.last_alloc) => a = h.last_alloc
  BY AllocatedBlock
<1>2. ASSUME NEW b \in Headers(h) \ {a}
      PROVE  b \in Address /\ g.memory[b] = h.memory[b] /\ After(g, b) = After(h, b)
  <2>1. b \in Nat /\ b \in Address /\ b < h.last_alloc
        /\ (a < h.last_alloc => b < a \/ b >= After(h, a))
    <3>1. b \in Nat /\ b \in Address /\ b < h.last_alloc
      BY SoundBlocks
    <3>2. a < h.last_alloc /\ a < b => After(h, a) <= b
      BY <1>1, SoundBlocks
    <3>3. a < h.last_alloc => After(h, a) \in Nat
      BY <1>1, HeapAssumption
    <3>4. QED
      BY <1>1, <3>1, <3>2, <3>3
  <2>2. b < a \/ (a < h.last_alloc /\ b >= After(h, a))
    <3>1. ~(a < h.last_alloc) => b < a
      BY <1>1, <2>1
    <3>2. QED
      BY <2>1, <3>1
  <2>3. g.memory[b] = h.memory[b]
    <3>1. \A x \in Address : x < a \/ (a < h.last_alloc /\ x >= After(h, a))
            => g.memory[x] = h.memory[x]
      BY AllocatedElsewhere
    <3>2. QED
      BY <2>1, <2>2, <3>1
  <2>4. QED
    BY <2>1, <2>3 DEF After
<1>3. After(g, a) = a + HEADER + n
  BY AllocatedElsewhere DEF After
<1>4. ASSUME a < h.last_alloc, h.memory[a].size = n PROVE After(g, a) = After(h, a)
  BY <1>1, <1>3, <1>4
<1>5. ASSUME a < h.last_alloc, h.memory[a].size # n
      PROVE  After(g, a + HEADER + n) = After(h, a) /\ a + HEADER + n \notin Headers(h)
             /\ a + HEADER + n < After(h, a)
  <2>1. g.memory[a + HEADER + n].size = h.memory[a].size - n - HEADER
    BY <1>5, AllocatedElsewhere
  <2>2. After(g, a + HEADER + n) = After(h, a)
    BY <1>1, <1>5, <2>1, HeapAssumption DEF After
  <2>3. a < a + HEADER + n /\ a + HEADER + n < After(h, a) /\ a + HEADER + n \in Nat
    BY <1>1, <1>5, HeapAssumption
  <2>4. a + HEADER + n \notin Headers(h)
    BY <1>1, <1>5, <2>3, SoundBlocks
  <2>5. QED
    BY <2>2, <2>3, <2>4
<1>6. QED
  BY <1>2, <1>3, <1>4, <1>5

\* They are the list after kmalloc.
LEMMA AllocatedChain ==
  ASSUME NEW h, NEW P, NEW n, NEW a, NEW g, Allocates(h, P, n, a, g)
  PROVE  /\ ChainOf(g, WithBlock(h, a, n))
         /\ \A b \in WithBlock(h, a, n) : After(g, b) \in WithBlock(h, a, n) \cup {g.last_alloc}
<1>0. /\ Sound(h, P) /\ n \in Nat \ {0} /\ ~Exhausted(h, n)
      /\ a = HeaderFor(h, n) /\ g = Allocated(h, n)
  BY DEF Allocates
<1> USE <1>0
<1> DEFINE H == Headers(h)
           G == WithBlock(h, a, n)
           L == h.last_alloc
<1>1. /\ a \in Nat /\ L \in Nat
      /\ a < L => /\ a \in H /\ h.memory[a].size \in Nat
                  /\ h.memory[a].size = n \/ h.memory[a].size >= n + HEADER
                  /\ a + HEADER + h.memory[a].size = After(h, a)
                  /\ After(h, a) <= L
      /\ ~(a < L) => a = L
  BY AllocatedBlock
<1>2. g.last_alloc = IF a < L THEN L ELSE a + HEADER + n
  BY AllocatedElsewhere
<1>3. /\ \A b \in H \ {a} : After(g, b) = After(h, b)
      /\ After(g, a) = a + HEADER + n
      /\ a < L /\ h.memory[a].size = n => After(g, a) = After(h, a)
      /\ a < L /\ h.memory[a].size # n =>
           /\ After(g, a + HEADER + n) = After(h, a)
           /\ a + HEADER + n < After(h, a)
  BY AllocatedHeaders
<1>4. ChainOf(h, H) /\ \A b \in H : b \in Nat /\ b < L /\ After(h, b) \in H \cup {L}
  BY SoundBlocks DEF Sound
<1>5. CASE a < L /\ h.memory[a].size = n
  <2>1. G = H /\ g.last_alloc = L
    BY <1>1, <1>2, <1>5 DEF WithBlock
  <2>2. \A b \in H : After(g, b) = After(h, b)
    BY <1>3, <1>5
  <2>3. ChainOf(g, H)
    BY <1>4, <2>1, <2>2 DEF ChainOf
  <2>4. QED
    BY <1>4, <2>1, <2>2, <2>3
<1>6. CASE a < L /\ h.memory[a].size # n
  <2> DEFINE r == a + HEADER + n
  <2>1. G = H \cup {r} /\ g.last_alloc = L /\ r \in Nat /\ r < L /\ r # 0 /\ r # a
    BY <1>1, <1>2, <1>3, <1>6, HeapAssumption DEF WithBlock
  <2>2. After(g, a) = r /\ After(g, r) = After(h, a) /\ a \in H
    BY <1>1, <1>3, <1>6
  <2> HIDE DEF r, G
  <2>3. \A b \in G : After(g, b) \in G \cup {L}
    BY <1>3, <1>4, <2>1, <2>2
  <2>4. ASSUME NEW c \in G \ {0} PROVE \E b \in G : After(g, b) = c
    <3>1. CASE c = r
      BY <2>1, <2>2, <3>1
    <3>2. CASE c \in H
      <4>1. PICK b \in H : After(h, b) = c
        BY <1>4, <3>2 DEF ChainOf
      <4>2. b # a => After(g, b) = c
        BY <1>3, <4>1
      <4>3. b = a => After(g, r) = c
        BY <2>2, <4>1
      <4>4. QED
        BY <2>1, <4>1, <4>2, <4>3
    <3>3. QED
      BY <2>1, <3>1, <3>2
  <2>5. 0 \in H
    BY <1>1, <1>4, <1>6 DEF ChainOf
  <2>6. G \subseteq Nat /\ \A b \in G : b < L
    BY <1>4, <2>1
  <2>7. QED
    BY <1>1, <2>1, <2>3, <2>4, <2>5, <2>6 DEF ChainOf, G
<1>7. CASE ~(a < L)
  <2> DEFINE e == a + HEADER + n
  <2>1. G = H \cup {L} /\ g.last_alloc = e /\ a = L /\ e \in Nat /\ e > L
    BY <1>1, <1>2, <1>7, HeapAssumption DEF WithBlock
  <2>2. After(g, L) = e /\ L \notin H /\ \A b \in H : After(g, b) = After(h, b)
    BY <1>1, <1>3, <1>4, <2>1
  <2> HIDE DEF e, G
  <2>3. \A b \in G : After(g, b) \in G \cup {e}
    BY <1>4, <2>1, <2>2
  <2>4. ASSUME NEW c \in G \ {0} PROVE \E b \in G : After(g, b) = c
    <3>1. CASE c \in H
      BY <1>4, <2>1, <2>2, <3>1 DEF ChainOf
    <3>2. CASE c = L
      <4>1. \E b \in H : After(h, b) = L
        BY <1>1, <2>4, <3>2, LastBlock
      <4>2. QED
        BY <2>1, <2>2, <3>2, <4>1
    <3>3. QED
      BY <2>1, <3>1, <3>2
  <2>5. 0 \in G
    BY <1>1, <1>4, <2>1 DEF ChainOf
  <2>6. G \subseteq Nat /\ \A b \in G : b < e
    BY <1>1, <1>4, <2>1
  <2>7. QED
    BY <1>1, <2>1, <2>3, <2>4, <2>5, <2>6 DEF ChainOf, G
<1>8. QED
  BY <1>1, <1>5, <1>6, <1>7

\* After kmalloc the heap is sound, with one pointer more, which is new.
LEMMA AllocatedSound ==
  ASSUME NEW h, NEW P, NEW n, NEW a, NEW g, Allocates(h, P, n, a, g)
  PROVE  /\ Sound(g, P \cup {a + HEADER})
         /\ a + HEADER \notin P
         /\ Headers(g) = WithBlock(h, a, n)
<1>0. /\ Sound(h, P) /\ n \in Nat \ {0} /\ ~Exhausted(h, n)
      /\ a = HeaderFor(h, n) /\ g = Allocated(h, n)
  BY DEF Allocates
<1> DEFINE H == Headers(h)
           G == WithBlock(h, a, n)
           L == h.last_alloc
           r == a + HEADER + n
           Q == P \cup {a + HEADER}
<1>1. /\ a \in Nat /\ L \in Nat /\ L < HEAP_SIZE
      /\ a < L => a \in H /\ h.memory[a].status = 0
                  /\ a + HEADER + h.memory[a].size = After(h, a) /\ After(h, a) <= L
      /\ ~(a < L) => a = L /\ a + n + HEADER < HEAP_SIZE
  BY <1>0, AllocatedBlock, SoundBlocks
<1>2. /\ g \in HeapType
      /\ g.memory[a].status = 1 /\ g.memory[a].size = n
      /\ a < L /\ h.memory[a].size # n => g.memory[r].status = 0
      /\ g.last_alloc = IF a < L THEN L ELSE a + HEADER + n
      /\ g.dynamic_pointers = h.dynamic_pointers + 1
  BY AllocatedElsewhere
<1>3. ChainOf(g, G) /\ \A b \in G : After(g, b) \in G \cup {g.last_alloc}
  BY AllocatedChain
<1>4. /\ \A b \in H \ {a} : g.memory[b] = h.memory[b]
      /\ a < L /\ h.memory[a].size # n => r \notin H
  BY AllocatedHeaders
<1>5. /\ P = {b + HEADER : b \in Used(h, H)} /\ IsFiniteSet(P)
      /\ h.dynamic_pointers = Cardinality(P)
      /\ \A x \in Address : x >= L => h.memory[x] = Zero
      /\ \A b \in H : b \in Nat /\ b < L
  BY <1>0, SoundPointers, SoundBlocks DEF Sound
<1>6. G = H \cup {a} \cup IF a < L /\ h.memory[a].size # n THEN {r} ELSE {}
  BY DEF WithBlock
<1>7. Used(g, G) = Used(h, H) \cup {a} /\ a \notin Used(h, H)
  <2>1. a \notin Used(h, H)
    <3>1. CASE a < L
      BY <1>1, <3>1 DEF Used
    <3>2. CASE ~(a < L)
      BY <1>5, <3>2 DEF Used
    <3>3. QED
      BY <3>1, <3>2
  <2>2. \A b \in G : g.memory[b].status = 1 <=> b = a \/ b \in Used(h, H)
    <3>1. ASSUME NEW b \in H, b # a PROVE g.memory[b].status = 1 <=> b \in Used(h, H)
      BY <1>4, <3>1 DEF Used
    <3>2. ASSUME NEW b \in G, b \notin H, b # a
          PROVE  g.memory[b].status = 0 /\ b \notin Used(h, H)
      BY <1>2, <1>6, <3>2 DEF Used
    <3>3. QED
      BY <1>2, <3>1, <3>2
  <2>3. Used(h, H) \subseteq G /\ a \in G
    BY <1>6 DEF Used
  <2> HIDE DEF H, G
  <2>4. Used(g, G) = Used(h, H) \cup {a}
    BY <2>2, <2>3 DEF Used
  <2>5. QED
    BY <2>1, <2>4
<1>8. Q = {b + HEADER : b \in Used(g, G)}
  BY <1>5, <1>7
<1>9. a + HEADER \notin P
  <2>1. \A b \in Used(h, H) : b \in Nat
    BY <1>5 DEF Used
  <2>2. \A b \in Used(h, H) : b + HEADER # a + HEADER
    BY <1>1, <1>7, <2>1, HeapAssumption
  <2>3. QED
    BY <1>5, <2>2
<1>10. g.dynamic_pointers = Cardinality(Q)
  <2>1. Cardinality(Q) = Cardinality(P) + 1
    BY <1>5, <1>9, FS_AddElement
  <2>2. QED
    BY <1>2, <1>5, <2>1
<1>11. ASSUME NEW x \in Address, x >= g.last_alloc PROVE g.memory[x] = Zero
  <2>1. x \in Nat
    BY HeapAssumption DEF Address
  <2>2. x >= L /\ (x < a \/ (a < L /\ x >= After(h, a)) \/ (x >= a + HEADER + n /\ ~(a < L)))
    <3>1. CASE a < L
      <4>1. After(h, a) \in Nat
        BY <1>0, <1>1, <3>1, SoundBlocks
      <4>2. QED
        BY <1>1, <1>2, <1>11, <2>1, <3>1, <4>1
    <3>2. CASE ~(a < L)
      BY <1>0, <1>1, <1>2, <1>11, <2>1, <3>2, HeapAssumption
    <3>3. QED
      BY <3>1, <3>2
  <2>3. g.memory[x] = h.memory[x]
    BY <2>2, AllocatedElsewhere
  <2>4. QED
    BY <1>5, <2>2, <2>3
<1>12. g.last_alloc < HEAP_SIZE
  BY <1>0, <1>1, <1>2, HeapAssumption
<1>13. Q # {}
  OBVIOUS
<1> HIDE DEF Q, G
<1>14. Sound(g, Q) /\ Headers(g) = G
  <2>1. Headers(g) = G
    BY <1>2, <1>3, HeadersAre
  <2>2. QED
    BY <1>2, <1>3, <1>8, <1>10, <1>11, <1>12, <1>13, <2>1 DEF Sound
<1>15. QED
  BY <1>9, <1>14 DEF Q, G

-----------------------------------------------------------------------------
(* Writing into a block *)

\* g is h but for bytes of the block at p.
Writes(h, P, p, g) ==
  /\ Sound(h, P) /\ p \in P /\ g \in HeapType
  /\ g.last_alloc = h.last_alloc /\ g.dynamic_pointers = h.dynamic_pointers
  /\ \A x \in Address : ~(p <= x /\ x < p + h.memory[p - HEADER].size)
                          => g.memory[x] = h.memory[x]

\* A holder that stays within its block leaves the list of blocks alone.
LEMMA WriteSound ==
  ASSUME NEW h, NEW P, NEW p, NEW g, Writes(h, P, p, g)
  PROVE  /\ Sound(g, P) /\ Headers(g) = Headers(h)
         /\ \A b \in Headers(h) : g.memory[b] = h.memory[b]
<1> DEFINE H == Headers(h)
<1>1. /\ Sound(h, P) /\ p \in P /\ g \in HeapType /\ h \in HeapType
      /\ g.last_alloc = h.last_alloc /\ g.dynamic_pointers = h.dynamic_pointers
      /\ \A x \in Address : ~(p <= x /\ x < p + h.memory[p - HEADER].size)
                              => g.memory[x] = h.memory[x]
  BY DEF Writes, Sound
<1>2. /\ p - HEADER \in H /\ p \in Nat /\ p + h.memory[p - HEADER].size = After(h, p - HEADER)
  BY <1>1, SoundPointers
<1>3. After(h, p - HEADER) \in Nat /\ After(h, p - HEADER) <= h.last_alloc /\ h.last_alloc \in Nat
      /\ p - HEADER \in Nat
  BY <1>1, <1>2, SoundBlocks
<1>4. ASSUME NEW b \in H PROVE g.memory[b] = h.memory[b] /\ b \in Nat /\ b < h.last_alloc
  <2>1. b \in Nat /\ b \in Address /\ b < h.last_alloc
    BY <1>1, SoundBlocks
  <2>2. p - HEADER < b => After(h, p - HEADER) <= b
    BY <1>1, <1>2, SoundBlocks
  <2>3. ~(p <= b /\ b < p + h.memory[p - HEADER].size)
    BY <1>2, <1>3, <2>1, <2>2, HeapAssumption
  <2>4. QED
    BY <1>1, <2>1, <2>3
<1>5. \A b \in H : After(g, b) = After(h, b)
  BY <1>4 DEF After
<1>6. ChainOf(h, H) /\ \A b \in H : After(h, b) \in H \cup {h.last_alloc}
  BY <1>1, SoundBlocks DEF Sound
<1>7. ChainOf(g, H)
  BY <1>1, <1>5, <1>6 DEF ChainOf
<1>8. Headers(g) = H
  BY <1>1, <1>7, HeadersAre
<1>9. Used(g, H) = Used(h, H)
  BY <1>4 DEF Used
<1>10. \A x \in Address : x >= g.last_alloc => g.memory[x] = Zero
  <2>1. ASSUME NEW x \in Address, x >= h.last_alloc PROVE g.memory[x] = Zero
    <3>1. x \in Nat
      BY HeapAssumption DEF Address
    <3>2. ~(x < p + h.memory[p - HEADER].size)
      BY <1>2, <1>3, <2>1, <3>1
    <3>3. QED
      BY <1>1, <2>1, <3>2 DEF Sound
  <2>2. QED
    BY <1>1, <2>1
<1>11. Sound(g, P)
  BY <1>1, <1>5, <1>6, <1>8, <1>9, <1>10 DEF Sound
<1>12. QED
  BY <1>4, <1>8, <1>11
-----------------------------------------------------------------------------
(* kfree *)

\* The block at p is free, together with the free ones after it.
Merged(h, p) ==
  [h EXCEPT !.memory = SetHeader(@, p - HEADER, 0,
                                 FreeEnd(h, p + h.memory[p - HEADER].size) - p),
            !.dynamic_pointers = @ - 1]

\* Where the merge ends, and what it leaves of the headers.
MergeEnd(h, p) == FreeEnd(h, p + h.memory[p - HEADER].size)

\* The headers that are left after the merge.
WithoutMerged(h, p) == {b \in Headers(h) : b <= p - HEADER \/ b >= MergeEnd(h, p)}

\* The merge ends at a header, or at the end of the used part, and all that it
\* swallows is free.
LEMMA MergeEndFound ==
  ASSUME NEW h, NEW P, Sound(h, P), NEW p \in P
  PROVE  /\ MergeEnd(h, p) \in Headers(h) \cup {h.last_alloc}
         /\ MergeEnd(h, p) \in Nat /\ MergeEnd(h, p) <= h.last_alloc
         /\ MergeEnd(h, p) >= After(h, p - HEADER)
         /\ \A c \in Headers(h) : p - HEADER < c /\ c < MergeEnd(h, p) => h.memory[c].status = 0
<1> DEFINE a == p - HEADER
           H == Headers(h)
<1>1. a \in H /\ p + h.memory[p - HEADER].size = After(h, a)
  BY SoundPointers
<1>2. h \in HeapType /\ ChainOf(h, H) /\ After(h, a) \in H \cup {h.last_alloc}
      /\ \A b \in H : After(h, b) \in H \cup {h.last_alloc}
  BY <1>1, SoundBlocks DEF Sound
<1>3. MergeEnd(h, p) = FreeEnd(h, After(h, a))
  BY <1>1 DEF MergeEnd
<1>4. /\ MergeEnd(h, p) \in H \cup {h.last_alloc} /\ MergeEnd(h, p) >= After(h, a)
      /\ \A c \in H : After(h, a) <= c /\ c < MergeEnd(h, p) => h.memory[c].status = 0
  BY <1>2, <1>3, FreeEndFound
<1>5. \A c \in H : a < c => After(h, a) <= c
  BY <1>1, SoundBlocks
<1>6. MergeEnd(h, p) \in Nat /\ MergeEnd(h, p) <= h.last_alloc
  <2>1. h.last_alloc \in Nat /\ \A b \in H : b \in Nat /\ b < h.last_alloc
    BY SoundBlocks
  <2>2. QED
    BY <1>4, <2>1
<1>7. QED
  BY <1>4, <1>5, <1>6

\* The merge writes one header.
LEMMA MergedMemory ==
  ASSUME NEW h, NEW P, Sound(h, P), NEW p \in P, NEW g, g = Merged(h, p)
  PROVE  /\ g \in HeapType
         /\ g.last_alloc = h.last_alloc /\ g.dynamic_pointers = h.dynamic_pointers - 1
         /\ \A x \in Address : x # p - HEADER => g.memory[x] = h.memory[x]
         /\ g.memory[p - HEADER].status = 0 /\ After(g, p - HEADER) = MergeEnd(h, p)
<1> DEFINE a == p - HEADER
           e == MergeEnd(h, p)
           header == [data |-> 0, status |-> 0, size |-> e - p]
<1>1. /\ a \in Headers(h) /\ p + h.memory[p - HEADER].size = After(h, a) /\ p \in Nat
      /\ P # {} /\ IsFiniteSet(P)
  BY SoundPointers
<1>2. a \in Nat /\ a \in Address /\ h.last_alloc \in Nat /\ h.last_alloc < HEAP_SIZE
      /\ h.memory[a] \in Byte
  BY <1>1, SoundBlocks
<1>3. e \in Nat /\ e <= h.last_alloc /\ e >= After(h, a)
  BY MergeEndFound
<1>4. e - p \in 0 .. HEAP_SIZE
  <2>1. h.memory[a].size \in Nat
    BY <1>2, HeapAssumption DEF Byte
  <2>2. e >= p
    BY <1>1, <1>3, <2>1
  <2>3. QED
    BY <1>1, <1>2, <1>3, <2>2, HeapAssumption
<1>5. h \in HeapType
  BY DEF Sound
<1>6. g = [memory |-> [h.memory EXCEPT ![a] = header], last_alloc |-> h.last_alloc,
           dynamic_pointers |-> h.dynamic_pointers - 1]
  BY <1>5 DEF Merged, SetHeader, MergeEnd, HeapType
<1>7. header \in Byte
  BY <1>4 DEF Byte
<1>8. h.dynamic_pointers - 1 \in Nat
  <2>1. h.dynamic_pointers = Cardinality(P) /\ h.dynamic_pointers \in Nat
    BY <1>5 DEF Sound, HeapType
  <2>2. Cardinality(P) # 0
    BY <1>1, FS_EmptySet
  <2>3. QED
    BY <2>1, <2>2
<1>9. [h.memory EXCEPT ![a] = header] \in [Address -> Byte]
  BY <1>2, <1>5, <1>7 DEF HeapType
<1> HIDE DEF e
<1>10. g \in HeapType
  BY <1>5, <1>6, <1>8, <1>9 DEF HeapType
<1>11. g.memory = [h.memory EXCEPT ![a] = header]
  BY <1>6
<1>12. \A x \in Address : x # a => g.memory[x] = h.memory[x]
  BY <1>5, <1>11 DEF HeapType
<1>13. g.memory[a] = header
  BY <1>2, <1>5, <1>11 DEF HeapType
<1>14. g.memory[a].status = 0 /\ After(g, a) = e
  <2>1. g.memory[a].size = e - p
    BY <1>13
  <2>2. QED
    BY <1>1, <1>3, <1>13, <2>1, HeapAssumption DEF After
<1>15. QED
  BY <1>6, <1>10, <1>12, <1>14 DEF e

\* The headers after the merge, and those of them in use.
LEMMA MergedChain ==
  ASSUME NEW h, NEW P, Sound(h, P), NEW p \in P, NEW g, g = Merged(h, p)
  PROVE  /\ ChainOf(g, WithoutMerged(h, p))
         /\ \A b \in WithoutMerged(h, p) : After(g, b) \in WithoutMerged(h, p) \cup {g.last_alloc}
         /\ Used(g, WithoutMerged(h, p)) = Used(h, Headers(h)) \ {p - HEADER}
<1> DEFINE a == p - HEADER
           e == MergeEnd(h, p)
           H == Headers(h)
           G == WithoutMerged(h, p)
           L == h.last_alloc
<1>1. a \in H /\ a \in Nat /\ L \in Nat /\ After(h, a) \in Nat /\ a < After(h, a)
  BY SoundPointers, SoundBlocks
<1>2. /\ e \in H \cup {L} /\ e \in Nat /\ e <= L /\ e >= After(h, a)
      /\ \A c \in H : a < c /\ c < e => h.memory[c].status = 0
  BY MergeEndFound
<1>3. /\ g.last_alloc = L
      /\ \A x \in Address : x # a => g.memory[x] = h.memory[x]
      /\ g.memory[a].status = 0 /\ After(g, a) = e
  BY MergedMemory
<1>4. \A b \in H : /\ b \in Nat /\ b < L /\ b \in Address
                   /\ After(h, b) \in Nat /\ b < After(h, b) /\ After(h, b) <= L
                   /\ \A c \in H : b < c => After(h, b) <= c
  BY SoundBlocks
<1>5. ChainOf(h, H) /\ \A b \in H : After(h, b) \in H \cup {L}
  BY SoundBlocks DEF Sound
<1>6. \A b \in H \ {a} : g.memory[b] = h.memory[b] /\ After(g, b) = After(h, b)
  BY <1>3, <1>4 DEF After
<1>7. G = {b \in H : b <= a \/ b >= e}
  BY DEF WithoutMerged
<1> HIDE DEF a, e, H, G, L
<1>8. a \in G /\ a < e /\ (e \in G \/ e = L)
  BY <1>1, <1>2, <1>7
<1>9. ASSUME NEW b \in G PROVE After(g, b) \in G \cup {L}
  <2>1. CASE b = a
    BY <1>3, <1>8, <2>1
  <2>2. CASE b < a
    <3>1. After(g, b) = After(h, b) /\ After(h, b) <= a
      BY <1>1, <1>4, <1>6, <1>7, <2>2
    <3>2. After(h, b) \in H
      BY <1>1, <1>4, <1>5, <1>7, <3>1
    <3>3. QED
      BY <1>7, <3>1, <3>2
  <2>3. CASE b > a
    <3>1. b >= e /\ After(g, b) = After(h, b) /\ After(h, b) > b
      BY <1>1, <1>4, <1>6, <1>7, <2>3
    <3>2. After(h, b) \in H \cup {L} /\ After(h, b) >= e
      BY <1>2, <1>4, <1>5, <1>7, <3>1
    <3>3. QED
      BY <1>7, <3>1, <3>2
  <2>4. QED
    BY <1>1, <1>4, <1>7, <2>1, <2>2, <2>3
<1>10. ASSUME NEW b \in G \ {0} PROVE \E c \in G : After(g, c) = b
  <2>1. PICK c \in H : After(h, c) = b
    BY <1>5, <1>7 DEF ChainOf
  <2>2. CASE c < a
    <3>1. c \in G /\ After(g, c) = b
      BY <1>1, <1>4, <1>6, <1>7, <2>1, <2>2
    <3>2. QED
      BY <3>1
  <2>3. CASE c >= a /\ c < e
    <3>1. b <= e
      BY <1>2, <1>4, <2>1, <2>3
    <3>2. b > a
      BY <1>1, <1>4, <2>1, <2>3
    <3>3. b = e
      BY <1>1, <1>2, <1>4, <1>7, <3>1, <3>2
    <3>4. QED
      BY <1>3, <1>8, <3>3
  <2>4. CASE c >= e
    <3>1. c \in G /\ c # a
      BY <1>1, <1>2, <1>4, <1>7, <1>8, <2>4
    <3>2. QED
      BY <1>6, <1>7, <2>1, <3>1
  <2>5. QED
    BY <1>1, <1>2, <1>4, <2>2, <2>3, <2>4
<1>11. 0 \in G
  <2>1. 0 \in H
    BY <1>1, <1>4, <1>5 DEF ChainOf, L
  <2>2. QED
    BY <1>1, <1>7, <2>1
<1>12. G \subseteq Nat /\ \A b \in G : b < L
  BY <1>4, <1>7
<1>13. ChainOf(g, G)
  <2>1. \A b \in G : After(g, b) < L => After(g, b) \in G
    BY <1>1, <1>9
  <2>2. QED
    BY <1>3, <1>10, <1>11, <1>12, <2>1 DEF ChainOf
<1>14. ASSUME NEW b \in H PROVE b \in Used(g, G) <=> b \in Used(h, H) \ {a}
  <2>1. CASE b = a
    BY <1>3, <2>1 DEF Used
  <2>2. CASE b # a /\ b \in G
    BY <1>6, <2>2 DEF Used
  <2>3. CASE b \notin G
    <3>1. h.memory[b].status = 0
      <4>1. ~(b <= a \/ b >= e)
        BY <1>7, <2>3
      <4>2. b \in Nat
        BY <1>4
      <4>3. a < b /\ b < e
        BY <1>1, <1>2, <4>1, <4>2
      <4>4. QED
        BY <1>2, <4>3
    <3>2. QED
      BY <2>3, <3>1 DEF Used
  <2>4. QED
    BY <2>1, <2>2, <2>3
<1>15. Used(g, G) = Used(h, H) \ {a}
  BY <1>7, <1>14 DEF Used
<1>16. QED
  BY <1>3, <1>9, <1>13, <1>15 DEF G, H, a

\* kfree of p turns a sound heap h, with pointers P, into g.
Frees(h, P, p, g) == Sound(h, P) /\ p \in P /\ g = Freed(h, p)

\* g is h but for the header of the block at p.
HeaderOnly(h, g, p) == \A x \in Address : x # p - HEADER => g.memory[x] = h.memory[x]

\* kfree leaves a sound heap with one pointer less, and does not touch what
\* others hold: when nobody holds anything any more, it clears everything.
LEMMA FreedSound ==
  ASSUME NEW h, NEW P, NEW p, NEW g, Frees(h, P, p, g)
  PROVE  /\ Sound(g, P \ {p})
         /\ P # {p} => HeaderOnly(h, g, p)
<1>0. Sound(h, P) /\ p \in P /\ g = Freed(h, p)
  BY DEF Frees
<1> USE <1>0
<1> DEFINE one == Merged(h, p)
           G == WithoutMerged(h, p)
<1>1. g = IF one.dynamic_pointers = 0 THEN Clean(one) ELSE one
  BY DEF Freed, Merged
<1>2. /\ one \in HeapType
      /\ one.last_alloc = h.last_alloc /\ one.dynamic_pointers = h.dynamic_pointers - 1
      /\ \A x \in Address : x # p - HEADER => one.memory[x] = h.memory[x]
  BY MergedMemory
<1>3. /\ ChainOf(one, G) /\ \A b \in G : After(one, b) \in G \cup {one.last_alloc}
      /\ Used(one, G) = Used(h, Headers(h)) \ {p - HEADER}
  BY MergedChain
<1>4. /\ h \in HeapType /\ h.last_alloc \in Nat /\ h.last_alloc < HEAP_SIZE
      /\ P = {b + HEADER : b \in Used(h, Headers(h))} /\ h.dynamic_pointers = Cardinality(P)
      /\ \A x \in Address : x >= h.last_alloc => h.memory[x] = Zero
      /\ IsFiniteSet(P) /\ p - HEADER \in Headers(h) /\ p \in Nat
      /\ \A b \in Headers(h) : b \in Nat /\ b < h.last_alloc
  BY SoundPointers, SoundBlocks DEF Sound, HeapType
<1>5. P \ {p} = {b + HEADER : b \in Used(one, G)}
  <2>1. \A b \in Used(h, Headers(h)) : b + HEADER = p <=> b = p - HEADER
    BY <1>4, HeapAssumption DEF Used
  <2>2. QED
    BY <1>3, <1>4, <2>1
<1>6. IsFiniteSet(P \ {p}) /\ Cardinality(P \ {p}) = Cardinality(P) - 1
  BY <1>4, FS_RemoveElement
<1>7. one.dynamic_pointers = Cardinality(P \ {p})
  BY <1>2, <1>4, <1>6
<1>8. \A x \in Address : x >= one.last_alloc => one.memory[x] = Zero
  <2>1. \A x \in Address : x >= h.last_alloc => x # p - HEADER
    BY <1>4
  <2>2. QED
    BY <1>2, <1>4, <2>1
<1> HIDE DEF one, G
<1>9. CASE P # {p}
  <2>1. P \ {p} # {} /\ one.dynamic_pointers # 0
    BY <1>6, <1>7, <1>9, FS_EmptySet
  <2>2. g = one
    BY <1>1, <2>1
  <2>3. Headers(g) = G
    BY <1>2, <1>3, <2>2, HeadersAre
  <2>4. Sound(g, P \ {p})
    BY <1>2, <1>3, <1>4, <1>5, <1>7, <1>8, <2>1, <2>2, <2>3 DEF Sound
  <2>5. QED
    BY <1>2, <2>2, <2>4 DEF HeaderOnly
<1>10. CASE P = {p}
  <2>1. P \ {p} = {} /\ one.dynamic_pointers = 0
    BY <1>7, <1>10, FS_EmptySet
  <2>2. g = [one EXCEPT !.memory = Cleared(@, 0, one.last_alloc), !.last_alloc = 0]
    BY <1>1, <2>1 DEF Clean
  <2>3. /\ g.memory = Cleared(one.memory, 0, one.last_alloc) /\ g.last_alloc = 0
        /\ g.dynamic_pointers = 0
    BY <1>2, <2>1, <2>2 DEF HeapType
  <2>4. \A x \in Address : g.memory[x] = Zero
    <3>1. ASSUME NEW x \in Address PROVE g.memory[x] = Zero
      <4>1. x \in Nat
        BY HeapAssumption DEF Address
      <4>2. x >= one.last_alloc \/ x \in 0 .. 0 + one.last_alloc - 1
        BY <1>2, <1>4, <4>1
      <4>3. QED
        BY <1>8, <2>3, <4>2 DEF Cleared
    <3>2. QED
      BY <3>1
  <2>5. g \in HeapType
    <3>1. Zero \in Byte
      BY HeapAssumption DEF Zero, Byte
    <3>2. Cleared(one.memory, 0, one.last_alloc) \in [Address -> Byte]
      BY <1>2, <3>1 DEF Cleared, HeapType
    <3>3. g = [memory |-> Cleared(one.memory, 0, one.last_alloc), last_alloc |-> 0,
               dynamic_pointers |-> 0]
      BY <1>2, <2>1, <2>2 DEF HeapType
    <3>4. 0 \in 0 .. HEAP_SIZE /\ 0 \in Nat
      BY HeapAssumption
    <3>5. QED
      BY <3>2, <3>3, <3>4 DEF HeapType
  <2>6. ChainOf(g, {}) /\ Headers(g) = {}
    <3>1. ChainOf(g, {})
      BY <2>3 DEF ChainOf
    <3>2. QED
      BY <2>5, <3>1, HeadersAre
  <2>7. Used(g, {}) = {}
    BY DEF Used
  <2>8. Sound(g, P \ {p})
    <3>1. Cardinality(P \ {p}) = 0
      BY <2>1, FS_EmptySet
    <3>2. P \ {p} = {b + HEADER : b \in Used(g, Headers(g))}
      BY <2>1, <2>6, <2>7
    <3>3. QED
      BY <2>3, <2>4, <2>5, <2>6, <3>1, <3>2, HeapAssumption DEF Sound
  <2>9. QED
    BY <1>10, <2>8
<1>11. QED
  BY <1>9, <1>10

-----------------------------------------------------------------------------
(* krealloc *)

\* krealloc turns h into b: kmalloc gives g, memcpy of m bytes gives b.
Copies(h, P, n, a, g, p, m, b) ==
  /\ Allocates(h, P, n, a, g) /\ p \in P
  /\ m = IF h.memory[p - HEADER].size > n THEN n ELSE h.memory[p - HEADER].size
  /\ b = Copied(g, a + HEADER, p, m)

\* A block in use is the same byte for byte, its header included.
Kept(h, g, r) ==
  \A x \in Address : r - HEADER <= x /\ x < r + h.memory[r - HEADER].size
                       => g.memory[x] = h.memory[x]

\* kmalloc changes no block in use.
LEMMA AllocatedKeeps ==
  ASSUME NEW h, NEW P, NEW n, NEW a, NEW g, Allocates(h, P, n, a, g), NEW r \in P
  PROVE  Kept(h, g, r)
<1>0. Sound(h, P) /\ n \in Nat \ {0} /\ ~Exhausted(h, n) /\ a = HeaderFor(h, n)
  BY DEF Allocates
<1> DEFINE s == r - HEADER
<1>1. /\ a \in Nat /\ h.last_alloc \in Nat
      /\ a < h.last_alloc => a \in Headers(h) /\ h.memory[a].status = 0
      /\ ~(a < h.last_alloc) => a = h.last_alloc
  BY <1>0, AllocatedBlock
<1>2. /\ s \in Headers(h) /\ h.memory[s].status = 1
      /\ r + h.memory[r - HEADER].size = After(h, s)
  BY <1>0, SoundPointers
<1>3. \A b \in Headers(h) : /\ b \in Nat /\ After(h, b) \in Nat /\ After(h, b) <= h.last_alloc
                            /\ \A c \in Headers(h) : b < c => After(h, b) <= c
  BY <1>0, SoundBlocks
<1>4. s \in Nat /\ After(h, s) \in Nat /\ After(h, s) <= h.last_alloc
  BY <1>2, <1>3
<1>5. After(h, s) <= a \/ (a < h.last_alloc /\ After(h, a) <= s)
  <2>1. CASE a < h.last_alloc
    <3>1. a # s
      BY <1>1, <1>2, <2>1
    <3>2. QED
      BY <1>1, <1>2, <1>3, <1>4, <2>1, <3>1
  <2>2. CASE ~(a < h.last_alloc)
    BY <1>1, <1>4, <2>2
  <2>3. QED
    BY <2>1, <2>2
<1>6. ASSUME NEW x \in Address, s <= x, x < After(h, s) PROVE g.memory[x] = h.memory[x]
  <2>1. x \in Nat
    BY HeapAssumption DEF Address
  <2>2. x < a \/ (a < h.last_alloc /\ x >= After(h, a))
    <3>1. a < h.last_alloc => After(h, a) \in Nat
      BY <1>1, <1>3
    <3>2. QED
      BY <1>1, <1>4, <1>5, <1>6, <2>1, <3>1
  <2>3. QED
    BY <2>2, AllocatedElsewhere
<1>7. QED
  BY <1>2, <1>6 DEF Kept

\* The block of n bytes at q has m bytes of the one at p, and zeros.
Received(h, b, p, q, n, m) ==
  \A x \in Address : q <= x /\ x < q + n =>
    b.memory[x] = IF x < q + m THEN h.memory[p + (x - q)] ELSE Zero

\* What is copied goes into the new block.
LEMMA CopiedWrites ==
  ASSUME NEW h, NEW P, NEW n, NEW a, NEW g, NEW p, NEW m, NEW b,
         Copies(h, P, n, a, g, p, m, b)
  PROVE  /\ Writes(g, P \cup {a + HEADER}, a + HEADER, b)
         /\ n \in Nat \ {0} /\ g.memory[a].size = n /\ m \in 0 .. n
         /\ Received(h, b, p, a + HEADER, n, m)
<1> DEFINE q == a + HEADER
<1>1. /\ Allocates(h, P, n, a, g) /\ p \in P
      /\ m = IF h.memory[p - HEADER].size > n THEN n ELSE h.memory[p - HEADER].size
      /\ b = Copied(g, q, p, m)
  BY DEF Copies
<1>2. Sound(h, P) /\ n \in Nat \ {0} /\ ~Exhausted(h, n) /\ a = HeaderFor(h, n)
  BY <1>1 DEF Allocates
<1>3. /\ Sound(g, P \cup {q}) /\ g \in HeapType /\ g.memory[a].size = n /\ a \in Nat
      /\ \A x \in Address : q <= x /\ x < q + n => g.memory[x] = Zero
  BY <1>1, <1>2, AllocatedSound, AllocatedElsewhere, AllocatedBlock
<1>4. /\ p \in Nat /\ p - HEADER \in Headers(h)
      /\ p + h.memory[p - HEADER].size = After(h, p - HEADER)
  BY <1>1, <1>2, SoundPointers
<1>5. /\ h.memory[p - HEADER] \in Byte /\ p - HEADER \in Nat
      /\ After(h, p - HEADER) <= h.last_alloc /\ h.last_alloc \in Nat
      /\ h.last_alloc < HEAP_SIZE
  BY <1>2, <1>4, SoundBlocks
<1>6. h.memory[p - HEADER].size \in Nat
  BY <1>5, HeapAssumption DEF Byte
<1>7. m \in Nat /\ m <= n /\ m <= h.memory[p - HEADER].size
  BY <1>1, <1>2, <1>6
<1>8. \A x \in Address : b.memory[x] =
        IF x \in q .. q + m - 1 THEN g.memory[p + (x - q)] ELSE g.memory[x]
  BY <1>1, <1>3 DEF Copied, HeapType
<1>9. ASSUME NEW x \in Address, q <= x, x < q + m
      PROVE  p + (x - q) \in Address /\ g.memory[p + (x - q)] = h.memory[p + (x - q)]
  <2>1. x \in Nat /\ q \in Nat
    BY <1>3, HeapAssumption DEF Address
  <2>2. /\ p + (x - q) \in Nat /\ p + (x - q) < p + h.memory[p - HEADER].size
        /\ p - HEADER <= p + (x - q)
    BY <1>4, <1>6, <1>7, <1>9, <2>1, HeapAssumption
  <2>3. p + (x - q) \in Address
    BY <1>4, <1>5, <1>6, <2>2, HeapAssumption DEF Address, After
  <2>4. QED
    BY <1>1, <2>2, <2>3, AllocatedKeeps DEF Kept
<1>10. \A x \in Address : x \in q .. q + m - 1 <=> q <= x /\ x < q + m
  BY <1>3, <1>7, HeapAssumption DEF Address
<1>11. \A x \in Address : q <= x /\ x < q + n =>
         b.memory[x] = IF x < q + m THEN h.memory[p + (x - q)] ELSE Zero
  BY <1>3, <1>8, <1>9, <1>10
<1>12. /\ b.last_alloc = g.last_alloc /\ b.dynamic_pointers = g.dynamic_pointers
       /\ b \in HeapType
  <2>1. \A x \in Address : b.memory[x] \in Byte
    BY <1>3, <1>8, <1>9, <1>10 DEF HeapType
  <2>2. b = [memory |-> b.memory, last_alloc |-> g.last_alloc,
             dynamic_pointers |-> g.dynamic_pointers]
        /\ b.memory = [x \in Address |-> b.memory[x]]
    BY <1>1, <1>3 DEF Copied, HeapType
  <2>3. b.memory \in [Address -> Byte]
    BY <2>1, <2>2
  <2>4. QED
    BY <1>3, <2>2, <2>3 DEF HeapType
<1>13. \A x \in Address : ~(q <= x /\ x < q + g.memory[q - HEADER].size) =>
         b.memory[x] = g.memory[x]
  <2>1. q - HEADER = a
    BY <1>3, HeapAssumption
  <2>2. ASSUME NEW x \in Address, ~(q <= x /\ x < q + n) PROVE ~(q <= x /\ x < q + m)
    BY <1>2, <1>3, <1>7, <2>2, HeapAssumption DEF Address
  <2>3. QED
    BY <1>3, <1>8, <1>10, <2>1, <2>2
<1>14. Writes(g, P \cup {q}, q, b)
  BY <1>3, <1>12, <1>13 DEF Writes
<1>15. QED
  BY <1>2, <1>3, <1>7, <1>11, <1>14 DEF Received

-----------------------------------------------------------------------------
(* The inductive invariant, through every call *)

\* The inductive invariant of the heap.
HeapInv == Sound(heap, held)

\* memory_initialize gives a sound heap.
LEMMA InitSound == HeapInit => HeapInv
<1> SUFFICES ASSUME HeapInit PROVE Sound(heap, held)
  BY DEF HeapInv
<1> USE DEF HeapInit
<1>1. heap \in HeapType
  <2>1. Zero \in Byte
    BY HeapAssumption DEF Zero, Byte
  <2>2. QED
    BY <2>1, HeapAssumption DEF HeapType
<1>2. heap.last_alloc = 0 /\ heap.dynamic_pointers = 0
  OBVIOUS
<1>3. ChainOf(heap, {})
  BY <1>2 DEF ChainOf
<1>4. Headers(heap) = {}
  BY <1>1, <1>3, HeadersAre
<1>5. \A x \in Address : heap.memory[x] = Zero
  OBVIOUS
<1>6. held = {a + HEADER : a \in Used(heap, Headers(heap))}
  BY <1>4 DEF Used
<1>7. heap.dynamic_pointers = Cardinality(held)
  BY <1>2, FS_EmptySet
<1>8. QED
  BY <1>1, <1>2, <1>4, <1>5, <1>6, <1>7, HeapAssumption DEF Sound

\* What each call with an effect does, in the terms of the lemmas.
LEMMA MallocStep ==
  ASSUME HeapInv, NEW n \in RequestSizes, Malloc(n)
  PROVE  /\ Allocates(heap, held, n, HeaderFor(heap, n), heap')
         /\ held' = held \cup {HeaderFor(heap, n) + HEADER}
BY HeapAssumption DEF HeapInv, Malloc, Allocates, PointerFor

\* krealloc to some bytes is kmalloc, memcpy, kfree.
LEMMA ReallocStep ==
  ASSUME HeapInv, NEW p \in held, NEW n \in RequestSizes, Realloc(p, n), n # 0
  PROVE  \E m, b :
           /\ Copies(heap, held, n, HeaderFor(heap, n), Allocated(heap, n), p, m, b)
           /\ heap' = Freed(b, p)
           /\ held' = (held \ {p}) \cup {HeaderFor(heap, n) + HEADER}
<1> DEFINE m == IF heap.memory[p - HEADER].size > n THEN n ELSE heap.memory[p - HEADER].size
           b == Copied(Allocated(heap, n), HeaderFor(heap, n) + HEADER, p, m)
<1>1. n \in Nat \ {0} /\ n > 0
  BY HeapAssumption
<1>2. heap' = Freed(b, p)
  BY <1>1 DEF Realloc, Reallocated, PointerFor
<1>3. ~Exhausted(heap, n) /\ held' = (held \ {p}) \cup {HeaderFor(heap, n) + HEADER}
  BY <1>1 DEF Realloc, PointerFor
<1>4. Copies(heap, held, n, HeaderFor(heap, n), Allocated(heap, n), p, m, b)
  BY <1>1, <1>3 DEF Copies, Allocates, HeapInv
<1>5. QED
  BY <1>2, <1>3, <1>4

\* A holder that fills its block writes into nothing else.
LEMMA FillStep ==
  ASSUME HeapInv, NEW p \in held, Fill(p)
  PROVE  Writes(heap, held, p, heap') /\ held' = held
<1> DEFINE n == heap.memory[p - HEADER].size
           byte(x) == [data |-> x - p + 1, status |-> 1, size |-> 0]
<1>1. Sound(heap, held) /\ heap \in HeapType
  BY DEF HeapInv, Sound
<1>2. /\ p \in Nat /\ p - HEADER \in Headers(heap)
      /\ heap.memory[p - HEADER] \in Byte
  BY <1>1, SoundPointers, SoundBlocks
<1>3. n \in Nat
  BY <1>2, HeapAssumption DEF Byte
<1>4. /\ heap' = [heap EXCEPT !.memory =
                    [x \in Address |-> IF x \in p .. p + n - 1 THEN byte(x) ELSE @[x]]]
      /\ held' = held
  BY DEF Fill
<1>5. heap' = [memory |-> [x \in Address |-> IF x \in p .. p + n - 1 THEN byte(x)
                                            ELSE heap.memory[x]],
               last_alloc |-> heap.last_alloc, dynamic_pointers |-> heap.dynamic_pointers]
  BY <1>1, <1>4 DEF HeapType
<1>6. \A x \in Address : heap.memory[x] \in Byte
  BY <1>1 DEF HeapType
<1>7. ASSUME NEW x \in Address, x \in p .. p + n - 1 PROVE byte(x) \in Byte
  <2>1. x - p + 1 \in Nat /\ 0 \in 0 .. HEAP_SIZE
    BY <1>2, <1>7, HeapAssumption
  <2>2. QED
    BY <2>1 DEF Byte
<1> HIDE DEF byte
<1>8. heap' \in HeapType
  BY <1>1, <1>5, <1>6, <1>7 DEF HeapType
<1>9. \A x \in Address : ~(p <= x /\ x < p + n) => heap'.memory[x] = heap.memory[x]
  <2>1. \A x \in Address : x \in p .. p + n - 1 => p <= x /\ x < p + n
    BY <1>2, <1>3
  <2>2. QED
    BY <1>5, <2>1
<1>10. QED
  BY <1>1, <1>4, <1>5, <1>8, <1>9 DEF Writes

\* Every call leaves a sound heap.
LEMMA NextSound == HeapInv /\ [HeapNext]_heapVars => HeapInv'
<1> SUFFICES ASSUME HeapInv, [HeapNext]_heapVars PROVE Sound(heap', held')
  BY DEF HeapInv
<1>1. ASSUME NEW n \in RequestSizes, Malloc(n) PROVE Sound(heap', held')
  BY <1>1, MallocStep, AllocatedSound
<1>2. ASSUME NEW n \in RequestSizes, Exhaust(n) PROVE Sound(heap', held')
  BY <1>2 DEF Exhaust, HeapInv
<1>3. ASSUME NEW p \in held, Free(p) PROVE Sound(heap', held')
  BY <1>3, FreedSound DEF Free, HeapInv, Frees
<1>4. ASSUME NEW p \in held, Fill(p) PROVE Sound(heap', held')
  BY <1>4, FillStep, WriteSound
<1>5. ASSUME NEW p \in held, NEW n \in RequestSizes, Realloc(p, n) PROVE Sound(heap', held')
  <2>1. CASE n = 0
    <3>1. heap' = Freed(heap, p) /\ held' = held \ {p}
      BY <1>5, <2>1 DEF Realloc, Reallocated
    <3>2. QED
      BY <3>1, FreedSound DEF HeapInv, Frees
  <2>2. CASE n # 0
    <3> DEFINE q == HeaderFor(heap, n) + HEADER
               g == Allocated(heap, n)
    <3>1. PICK m, b : /\ Copies(heap, held, n, HeaderFor(heap, n), g, p, m, b)
                      /\ heap' = Freed(b, p) /\ held' = (held \ {p}) \cup {q}
      BY <1>5, <2>2, ReallocStep
    <3>2. Writes(g, held \cup {q}, q, b)
      BY <3>1, CopiedWrites
    <3>3. Sound(b, held \cup {q})
      BY <3>2, WriteSound
    <3>4. Sound(heap', (held \cup {q}) \ {p})
      BY <3>1, <3>3, FreedSound DEF Copies, Frees
    <3>5. q \notin held
      BY <3>1, AllocatedSound DEF Copies
    <3>6. (held \cup {q}) \ {p} = (held \ {p}) \cup {q}
      BY <3>5
    <3>7. QED
      BY <3>1, <3>4, <3>6
  <2>3. QED
    BY <2>1, <2>2
<1>6. CASE UNCHANGED heapVars
  BY <1>6 DEF HeapInv, heapVars
<1>7. QED
  BY <1>1, <1>2, <1>3, <1>4, <1>5, <1>6 DEF HeapNext

\* The heap is sound in every reachable state.
THEOREM HeapSound == HeapSpec => []HeapInv
<1>1. QED
  BY InitSound, NextSound, PTL DEF HeapSpec

\* The used part, its end included, lies within the heap, sizes are sizes,
\* and what callers were given are addresses of the heap.
THEOREM HeapTyped == HeapSpec => []HeapTypeOK
<1>1. HeapInv => HeapTypeOK
  <2> SUFFICES ASSUME Sound(heap, held) PROVE HeapTypeOK
    BY DEF HeapInv
  <2>1. heap \in HeapType
    BY DEF Sound
  <2>2. heap.last_alloc \in 0 .. HEAP_SIZE - 1
    BY SoundBlocks, HeapAssumption
  <2>3. held \subseteq Address
    BY SoundPointers
  <2>4. QED
    BY <2>1, <2>2, <2>3 DEF HeapTypeOK, HeapType, Byte
<1>2. QED
  BY <1>1, HeapSound, PTL

\* After every history of calls the headers lead from block to block to
\* exactly the end of the used part, the used ones are those somebody holds,
\* and dynamic_pointers counts them.
THEOREM BlocksTileTheHeap == HeapSpec => []BlocksTile
<1>1. HeapInv => BlocksTile
  <2> SUFFICES ASSUME Sound(heap, held) PROVE BlocksTile
    BY DEF HeapInv
  <2> DEFINE H == Headers(heap)
             L == heap.last_alloc
  <2>1. {a + HEADER + heap.memory[a].size : a \in H} = {After(heap, a) : a \in H}
    BY DEF After
  <2>2. /\ ChainOf(heap, H) /\ L \in Nat
        /\ \A a \in H : a \in Nat /\ a < L /\ After(heap, a) \in Nat /\ After(heap, a) > a
                        /\ After(heap, a) \in H \cup {L}
    BY SoundBlocks DEF Sound
  <2>3. L # 0 => \E a \in H : After(heap, a) = L
    BY LastBlock
  <2>4. \A b \in H \ {0} : \E a \in H : After(heap, a) = b
    BY <2>2 DEF ChainOf
  <2> HIDE DEF H, L
  <2>5. {After(heap, a) : a \in H} = (H \ {0}) \cup IF L = 0 THEN {} ELSE {L}
    <3>1. ASSUME NEW a \in H
          PROVE  After(heap, a) \in (H \ {0}) \cup IF L = 0 THEN {} ELSE {L}
      BY <2>2
    <3>2. ASSUME NEW b \in (H \ {0}) \cup IF L = 0 THEN {} ELSE {L}
          PROVE  \E a \in H : After(heap, a) = b
      BY <2>3, <2>4
    <3>3. QED
      BY <3>1, <3>2
  <2>6. held = {a + HEADER : a \in {b \in H : heap.memory[b].status = 1}}
        /\ heap.dynamic_pointers = Cardinality(held)
    BY DEF Sound, Used, H
  <2>7. QED
    BY <2>1, <2>5, <2>6 DEF BlocksTile, H, L
<1>2. QED
  BY <1>1, HeapSound, PTL

\* Once nobody holds a block, whatever the order of the frees was, the heap
\* is as memory_initialize left it.
THEOREM IdleHeapIsAsNew == HeapSpec => []IdleHeapIsNew
<1>1. HeapInv => IdleHeapIsNew
  <2> SUFFICES ASSUME Sound(heap, held), held = {}
               PROVE  heap.last_alloc = 0 /\ \A a \in Address : heap.memory[a] = Zero
    BY DEF HeapInv, IdleHeapIsNew
  <2>1. heap.last_alloc = 0
    BY DEF Sound
  <2>2. \A a \in Address : a >= 0
    BY DEF Address
  <2>3. QED
    BY <2>1, <2>2 DEF Sound
<1>2. QED
  BY <1>1, HeapSound, PTL

-----------------------------------------------------------------------------
(* The heap implements the store of blocks *)

\* The bytes of the block at r.
Content(h, r) == [i \in 1 .. h.memory[r - HEADER].size |-> h.memory[r + i - 1].data]

\* Where the bytes of a block and its header lie.
LEMMA BlockAddresses ==
  ASSUME NEW h, NEW P, Sound(h, P), NEW r \in P
  PROVE  /\ r \in Nat /\ r - HEADER \in Nat /\ r - HEADER \in Address
         /\ h.memory[r - HEADER].size \in Nat
         /\ \A x \in Int : r - HEADER <= x /\ x < r + h.memory[r - HEADER].size => x \in Address
<1>1. /\ r \in Nat /\ r - HEADER \in Headers(h)
      /\ r + h.memory[r - HEADER].size = After(h, r - HEADER)
  BY SoundPointers
<1>2. /\ r - HEADER \in Nat /\ r - HEADER \in Address /\ h.memory[r - HEADER] \in Byte
      /\ After(h, r - HEADER) <= h.last_alloc /\ h.last_alloc \in Nat /\ h.last_alloc < HEAP_SIZE
  BY <1>1, SoundBlocks
<1>3. h.memory[r - HEADER].size \in Nat
  BY <1>2, HeapAssumption DEF Byte
<1>4. ASSUME NEW x \in Int, r - HEADER <= x, x < r + h.memory[r - HEADER].size
      PROVE  x \in Address
  BY <1>1, <1>2, <1>3, <1>4, HeapAssumption DEF Address
<1>5. QED
  BY <1>1, <1>2, <1>3, <1>4

\* A block that is kept has the same size and bytes.
LEMMA KeptContent ==
  ASSUME NEW h, NEW P, Sound(h, P), NEW r \in P, NEW g, Kept(h, g, r)
  PROVE  /\ g.memory[r - HEADER].size = h.memory[r - HEADER].size
         /\ Content(g, r) = Content(h, r)
<1> DEFINE n == h.memory[r - HEADER].size
<1>1. /\ r \in Nat /\ r - HEADER \in Nat /\ r - HEADER \in Address /\ n \in Nat
      /\ \A x \in Int : r - HEADER <= x /\ x < r + n => x \in Address
  BY BlockAddresses
<1>2. \A x \in Address : r - HEADER <= x /\ x < r + n => g.memory[x] = h.memory[x]
  BY DEF Kept
<1>3. g.memory[r - HEADER] = h.memory[r - HEADER]
  BY <1>1, <1>2, HeapAssumption
<1>4. ASSUME NEW i \in 1 .. n PROVE g.memory[r + i - 1] = h.memory[r + i - 1]
  <2>1. r + i - 1 \in Int /\ r - HEADER <= r + i - 1 /\ r + i - 1 < r + n
    BY <1>1, HeapAssumption
  <2>2. QED
    BY <1>1, <1>2, <2>1
<1>5. QED
  BY <1>3, <1>4 DEF Content


\* Writing into one block keeps the others.
LEMMA WriteKeeps ==
  ASSUME NEW h, NEW P, NEW p, NEW g, Writes(h, P, p, g), NEW r \in P, r # p
  PROVE  Kept(h, g, r)
<1>1. Sound(h, P) /\ p \in P
  BY DEF Writes
<1>2. /\ p + h.memory[p - HEADER].size <= r - HEADER
         \/ r + h.memory[r - HEADER].size <= p - HEADER
  BY <1>1, PointersApart
<1>3. /\ p \in Nat /\ h.memory[p - HEADER].size \in Nat
      /\ r \in Nat /\ h.memory[r - HEADER].size \in Nat
  BY <1>1, BlockAddresses
<1>4. ASSUME NEW x \in Address, r - HEADER <= x, x < r + h.memory[r - HEADER].size
      PROVE  ~(p <= x /\ x < p + h.memory[p - HEADER].size)
  BY <1>2, <1>3, <1>4, HeapAssumption DEF Address
<1>5. QED
  BY <1>4 DEF Kept, Writes

\* kfree keeps the blocks of the others.
LEMMA FreedKeeps ==
  ASSUME NEW h, NEW P, NEW p, NEW g, Frees(h, P, p, g), NEW r \in P, r # p
  PROVE  Kept(h, g, r)
<1>0. Sound(h, P) /\ p \in P
  BY DEF Frees
<1>1. P # {p}
  OBVIOUS
<1>2. \A x \in Address : x # p - HEADER => g.memory[x] = h.memory[x]
  <2>1. HeaderOnly(h, g, p)
    BY <1>1, FreedSound
  <2>2. QED
    BY <2>1 DEF HeaderOnly
<1>3. /\ p + h.memory[p - HEADER].size <= r - HEADER
         \/ r + h.memory[r - HEADER].size <= p - HEADER
  BY <1>0, PointersApart
<1>4. /\ p \in Nat /\ h.memory[p - HEADER].size \in Nat
      /\ r \in Nat /\ h.memory[r - HEADER].size \in Nat
  BY <1>0, BlockAddresses
<1>5. ASSUME NEW x \in Address, r - HEADER <= x, x < r + h.memory[r - HEADER].size
      PROVE  x # p - HEADER
  BY <1>3, <1>4, <1>5, HeapAssumption DEF Address
<1>6. QED
  BY <1>2, <1>5 DEF Kept

\* A block that kmalloc gives touches none of those in use.
LEMMA AllocatedApart ==
  ASSUME NEW h, NEW P, NEW n, NEW a, NEW g, Allocates(h, P, n, a, g), NEW r \in P
  PROVE  (a + HEADER .. a + HEADER + n - 1) \cap (r .. r + h.memory[r - HEADER].size - 1) = {}
<1> DEFINE q == a + HEADER
<1>1. Sound(h, P) /\ n \in Nat \ {0} /\ ~Exhausted(h, n) /\ a = HeaderFor(h, n)
  BY DEF Allocates
<1>2. Sound(g, P \cup {q}) /\ q \notin P /\ g.memory[a].size = n /\ a \in Nat
  BY <1>1, AllocatedSound, AllocatedElsewhere, AllocatedBlock
<1>3. q - HEADER = a /\ q \in Nat
  BY <1>2, HeapAssumption
<1>4. g.memory[r - HEADER].size = h.memory[r - HEADER].size
  BY <1>1, AllocatedKeeps, KeptContent
<1> HIDE DEF q
<1>5. /\ q + g.memory[q - HEADER].size <= r - HEADER
         \/ r + g.memory[r - HEADER].size <= q - HEADER
  BY <1>2, PointersApart
<1>6. r \in Nat /\ h.memory[r - HEADER].size \in Nat
  BY <1>1, BlockAddresses
<1>7. (q .. q + n - 1) \cap (r .. r + h.memory[r - HEADER].size - 1) = {}
  BY <1>1, <1>2, <1>3, <1>4, <1>5, <1>6, HeapAssumption
<1>8. QED
  BY <1>7 DEF q

\* The mapping: what each holder sees of its block.
Blocks == [p \in held |-> Content(heap, p)]

\* The mapping is the one of MCHeap, before and after a step.
LEMMA BlocksAre ==
  /\ [p \in held |-> [i \in 1 .. SizeOf(p) |-> heap.memory[p + i - 1].data]] = Blocks
  /\ [p \in held |-> [i \in 1 .. SizeOf(p) |-> heap.memory[p + i - 1].data]]' = Blocks'
BY DEF Blocks, Content, SizeOf

\* A block has as many bytes as its header says.
LEMMA ContentLength ==
  ASSUME NEW h, NEW P, Sound(h, P), NEW r \in P
  PROVE  Len(Content(h, r)) = h.memory[r - HEADER].size
<1>1. h.memory[r - HEADER].size \in Nat
  BY BlockAddresses
<1>2. QED
  BY <1>1 DEF Content

\* So has a block of the store.
LEMMA BlockLengths ==
  ASSUME HeapInv
  PROVE  /\ DOMAIN Blocks = held
         /\ \A r \in held : Blocks[r] = Content(heap, r)
                            /\ Len(Blocks[r]) = heap.memory[r - HEADER].size
BY ContentLength DEF Blocks, HeapInv

\* kmalloc adds a block of zeros to the store.
LEMMA MallocRefines ==
  ASSUME HeapInv, HeapInv', NEW n \in RequestSizes, Malloc(n)
  PROVE  Held!StoreNext
<1> DEFINE a == HeaderFor(heap, n)
<1>0. PICK q : q = a + HEADER
  OBVIOUS
<1>1. /\ Allocates(heap, held, n, a, heap') /\ held' = held \cup {q}
      /\ n \in Nat \ {0} /\ ~Exhausted(heap, n) /\ Sound(heap, held)
  BY <1>0, MallocStep DEF Allocates
<1>2. q \notin held /\ q \in Nat /\ a \in Nat /\ heap'.memory[a].size = n
  <2>1. q \notin held
    BY <1>0, <1>1, AllocatedSound
  <2>2. a \in Nat
    BY <1>1, AllocatedBlock
  <2>3. heap'.memory[a].size = n
    BY <1>1, AllocatedElsewhere
  <2>4. QED
    BY <1>0, <2>1, <2>2, <2>3, HeapAssumption
<1>3. \A r \in held : Content(heap', r) = Content(heap, r)
  BY <1>1, AllocatedKeeps, KeptContent
<1>4. Content(heap', q) = [i \in 1 .. n |-> 0]
  <2>1. q - HEADER = a
    BY <1>0, <1>2, HeapAssumption
  <2>2. Sound(heap', held') /\ q \in held'
    BY <1>1 DEF HeapInv
  <2>3. \A x \in Int : q - HEADER <= x /\ x < q + n => x \in Address
    BY <1>2, <2>1, <2>2, BlockAddresses
  <2>4. ASSUME NEW i \in 1 .. n PROVE heap'.memory[q + i - 1].data = 0
    <3>1. q + i - 1 \in Int /\ q - HEADER <= q + i - 1 /\ q <= q + i - 1 /\ q + i - 1 < q + n
      BY <1>1, <1>2, HeapAssumption
    <3>2. q + i - 1 \in Address
      BY <2>3, <3>1
    <3>3. heap'.memory[q + i - 1] = Zero
      BY <1>0, <1>1, <3>1, <3>2, AllocatedElsewhere
    <3>4. QED
      BY <3>3 DEF Zero
  <2>5. QED
    BY <1>2, <2>1, <2>4 DEF Content
<1>5. \A r \in held : (q .. q + n - 1) \cap (r .. r + heap.memory[r - HEADER].size - 1) = {}
  BY <1>0, <1>1, AllocatedApart
<1>6. q \in Address /\ n \in RequestSizes \ {0}
  BY <1>1, SoundPointers DEF HeapInv
<1> HIDE DEF a
<1>7. Held!Apart(q, n)
  BY <1>5, BlocksAre, BlockLengths DEF Held!Apart, Held!Bytes
<1>8. Blocks' = [r \in held \cup {q} |-> IF r = q THEN [i \in 1 .. n |-> 0] ELSE Blocks[r]]
  BY <1>1, <1>2, <1>3, <1>4 DEF Blocks
<1>9. Held!New(q, n)
  BY <1>7, <1>8, BlocksAre, BlockLengths
     DEF Held!New, Held!With, Held!Zeros
<1>10. QED
  BY <1>6, <1>9 DEF Held!StoreNext

\* kfree, or krealloc to no bytes.
LEMMA FreeRefines ==
  ASSUME HeapInv, NEW p \in held, heap' = Freed(heap, p), held' = held \ {p}
  PROVE  Held!StoreNext
<1>1. Frees(heap, held, p, heap') /\ Sound(heap, held)
  BY DEF Frees, HeapInv
<1>2. \A r \in held \ {p} : Content(heap', r) = Content(heap, r)
  BY <1>1, FreedKeeps, KeptContent
<1>3. Blocks' = [r \in held \ {p} |-> Blocks[r]]
  BY <1>2 DEF Blocks
<1>4. Held!Drop(p)
  BY <1>3, BlocksAre, BlockLengths DEF Held!Drop
<1>5. p \in Address
  BY <1>1, SoundPointers
<1>6. QED
  BY <1>4, <1>5 DEF Held!StoreNext

\* A holder that fills its block changes that block of the store.
LEMMA FillRefines ==
  ASSUME HeapInv, HeapInv', NEW p \in held, Fill(p)
  PROVE  Held!StoreNext
<1>1. Writes(heap, held, p, heap') /\ held' = held /\ Sound(heap, held)
  BY FillStep DEF HeapInv
<1>2. \A r \in held : r # p => Content(heap', r) = Content(heap, r)
  BY <1>1, WriteKeeps, KeptContent
<1>3. heap'.memory[p - HEADER].size = heap.memory[p - HEADER].size
  BY <1>1, WriteSound, SoundPointers
<1>4. /\ DOMAIN Blocks' = held /\ Len(Blocks'[p]) = Len(Blocks[p])
      /\ DOMAIN Blocks = held
  <2>1. DOMAIN Blocks' = held' /\ Len(Blocks'[p]) = heap'.memory[p - HEADER].size
    BY <1>1, ContentLength DEF Blocks, HeapInv
  <2>2. DOMAIN Blocks = held /\ Len(Blocks[p]) = heap.memory[p - HEADER].size
    BY BlockLengths
  <2>3. QED
    BY <1>1, <1>3, <2>1, <2>2
<1>5. Blocks' = [r \in held \cup {p} |-> IF r = p THEN Blocks'[p] ELSE Blocks[r]]
  BY <1>1, <1>2 DEF Blocks
<1>6. Held!Change(p)
  BY <1>4, <1>5, BlocksAre DEF Held!Change, Held!With
<1>7. p \in Address
  BY <1>1, SoundPointers
<1>8. QED
  BY <1>6, <1>7 DEF Held!StoreNext

\* krealloc to some bytes replaces a block of the store by its copy.
LEMMA ReallocRefines ==
  ASSUME HeapInv, HeapInv', NEW p \in held, NEW n \in RequestSizes, Realloc(p, n), n # 0
  PROVE  Held!StoreNext
<1> DEFINE g == Allocated(heap, n)
<1>1. PICK a, q, m, b :
        /\ a = HeaderFor(heap, n) /\ q = a + HEADER
        /\ Copies(heap, held, n, a, g, p, m, b)
        /\ heap' = Freed(b, p) /\ held' = (held \ {p}) \cup {q}
  BY ReallocStep
<1>2. /\ Allocates(heap, held, n, a, g) /\ n \in Nat \ {0} /\ ~Exhausted(heap, n)
      /\ Sound(heap, held)
      /\ m = IF heap.memory[p - HEADER].size > n THEN n ELSE heap.memory[p - HEADER].size
  BY <1>1 DEF Copies, Allocates
<1> HIDE DEF g
<1>3. q \notin held /\ a \in Nat /\ q \in Nat /\ q - HEADER = a
  <2>1. q \notin held
    BY <1>1, <1>2, AllocatedSound
  <2>2. a \in Nat
    BY <1>1, <1>2, AllocatedBlock
  <2>3. QED
    BY <1>1, <2>1, <2>2, HeapAssumption
<1>4. Sound(g, held \cup {q})
  BY <1>1, <1>2, AllocatedSound
<1>5. /\ Writes(g, held \cup {q}, q, b)
      /\ g.memory[a].size = n /\ m \in 0 .. n
      /\ \A x \in Address : q <= x /\ x < q + n =>
           b.memory[x] = IF x < q + m THEN heap.memory[p + (x - q)] ELSE Zero
  <2>1. /\ Writes(g, held \cup {a + HEADER}, a + HEADER, b)
        /\ g.memory[a].size = n /\ m \in 0 .. n
        /\ Received(heap, b, p, a + HEADER, n, m)
    BY <1>1, CopiedWrites
  <2>2. QED
    BY <1>1, <2>1 DEF Received
<1>6. Sound(b, held \cup {q}) /\ b.memory[a].size = n
  <2>1. a \in Headers(g)
    BY <1>3, <1>4, SoundPointers
  <2>2. QED
    BY <1>5, <2>1, WriteSound
<1>7. Frees(b, held \cup {q}, p, heap')
  BY <1>1, <1>6 DEF Frees
<1>8. ASSUME NEW r \in held \ {p} PROVE Content(heap', r) = Content(heap, r)
  <2>1. Kept(heap, g, r)
    BY <1>2, AllocatedKeeps
  <2>2. Kept(g, b, r)
    BY <1>3, <1>5, WriteKeeps
  <2>3. Kept(b, heap', r)
    BY <1>7, FreedKeeps
  <2>4. Content(g, r) = Content(heap, r)
    BY <1>2, <2>1, KeptContent
  <2>5. Content(b, r) = Content(g, r)
    BY <1>4, <2>2, KeptContent
  <2>6. Content(heap', r) = Content(b, r)
    BY <1>6, <2>3, KeptContent
  <2>7. QED
    BY <2>4, <2>5, <2>6
<1>9. Content(heap', q) = Content(b, q)
  <2>1. Kept(b, heap', q)
    BY <1>3, <1>7, FreedKeeps
  <2>2. QED
    BY <1>6, <2>1, KeptContent
<1>10. DOMAIN Blocks = held /\ Blocks[p] = Content(heap, p)
       /\ Len(Blocks[p]) = heap.memory[p - HEADER].size
       /\ heap.memory[p - HEADER].size \in Nat /\ p \in Nat
  BY <1>2, BlockLengths, BlockAddresses
<1>11. Content(b, q) = [i \in 1 .. n |-> IF i <= Len(Blocks[p]) THEN Blocks[p][i] ELSE 0]
  <2>1. ASSUME NEW i \in 1 .. n
        PROVE  b.memory[q + i - 1].data = IF i <= Len(Blocks[p]) THEN Blocks[p][i] ELSE 0
    <3>1. q + i - 1 \in Int /\ q - HEADER <= q + i - 1 /\ q <= q + i - 1 /\ q + i - 1 < q + n
      BY <1>2, <1>3, HeapAssumption
    <3>2. q + i - 1 \in Address
      BY <1>3, <1>6, <3>1, BlockAddresses
    <3>3. b.memory[q + i - 1] =
            IF q + i - 1 < q + m THEN heap.memory[p + ((q + i - 1) - q)] ELSE Zero
      BY <1>5, <3>1, <3>2
    <3>4. q + i - 1 < q + m <=> i <= m
      BY <1>3, <1>5
    <3>5. p + ((q + i - 1) - q) = p + i - 1
      BY <1>3, <1>10
    <3>6. i <= m <=> i <= Len(Blocks[p])
      BY <1>2, <1>10
    <3>7. CASE i <= Len(Blocks[p])
      <4>1. Blocks[p][i] = heap.memory[p + i - 1].data
        BY <1>10, <3>7 DEF Content
      <4>2. QED
        BY <3>3, <3>4, <3>5, <3>6, <3>7, <4>1
    <3>8. CASE ~(i <= Len(Blocks[p]))
      BY <3>3, <3>4, <3>6, <3>8 DEF Zero
    <3>9. QED
      BY <3>7, <3>8
  <2>2. QED
    BY <1>3, <1>6, <2>1 DEF Content
<1>12. \A r \in held : (q .. q + n - 1) \cap (r .. r + heap.memory[r - HEADER].size - 1) = {}
  BY <1>1, <1>2, AllocatedApart
<1>13. Held!Apart(q, n)
  BY <1>12, BlocksAre, BlockLengths DEF Held!Apart, Held!Bytes
<1>14. Blocks' = [r \in (held \ {p}) \cup {q} |->
         IF r = q THEN [i \in 1 .. n |-> IF i <= Len(Blocks[p]) THEN Blocks[p][i] ELSE 0]
         ELSE Blocks[r]]
  BY <1>1, <1>3, <1>8, <1>9, <1>11 DEF Blocks
<1>15. Held!Grow(p, q, n)
  BY <1>10, <1>13, <1>14, BlocksAre DEF Held!Grow, Held!With
<1>16. p \in Address /\ q \in Address
  <2>1. q \in held \cup {q} /\ p \in held
    OBVIOUS
  <2>2. QED
    BY <1>2, <1>4, <2>1, SoundPointers
<1>17. n \in RequestSizes \ {0}
  OBVIOUS
<1>18. QED
  BY <1>15, <1>16, <1>17 DEF Held!StoreNext

\* Every heap is a store: what kmalloc gives is zeroed and nobody else's,
\* krealloc keeps what fits, and no call changes a byte of a block that it
\* was not asked for, over every history of calls.
THEOREM HeapIsAStore == HeapSpec => KeepsWhatIsHeld
<1>1. HeapInit => Held!StoreInit
  <2>1. HeapInit => Blocks = <<>>
    BY DEF HeapInit, Blocks
  <2>2. QED
    BY <2>1, BlocksAre DEF Held!StoreInit
<1>2. HeapInv /\ HeapInv' /\ [HeapNext]_heapVars
        => [Held!StoreNext]_[p \in held |-> [i \in 1 .. SizeOf(p) |-> heap.memory[p + i - 1].data]]
  <2> SUFFICES ASSUME HeapInv, HeapInv', [HeapNext]_heapVars
               PROVE  Held!StoreNext \/ Blocks' = Blocks
    BY BlocksAre
  <2>1. ASSUME NEW n \in RequestSizes, Malloc(n) PROVE Held!StoreNext
    BY <2>1, MallocRefines
  <2>2. ASSUME NEW n \in RequestSizes, Exhaust(n) PROVE Blocks' = Blocks
    BY <2>2 DEF Exhaust, Blocks, Content
  <2>3. ASSUME NEW p \in held, Free(p) PROVE Held!StoreNext
    BY <2>3, FreeRefines DEF Free
  <2>4. ASSUME NEW p \in held, Fill(p) PROVE Held!StoreNext
    BY <2>4, FillRefines
  <2>5. ASSUME NEW p \in held, NEW n \in RequestSizes, Realloc(p, n) PROVE Held!StoreNext
    <3>1. CASE n = 0
      <4>1. heap' = Freed(heap, p) /\ held' = held \ {p}
        BY <2>5, <3>1 DEF Realloc, Reallocated
      <4>2. QED
        BY <4>1, FreeRefines
    <3>2. CASE n # 0
      BY <2>5, <3>2, ReallocRefines
    <3>3. QED
      BY <3>1, <3>2
  <2>6. CASE UNCHANGED heapVars
    BY <2>6 DEF heapVars, Blocks, Content
  <2>7. QED
    BY <2>1, <2>2, <2>3, <2>4, <2>5, <2>6 DEF HeapNext
<1>3. QED
  BY <1>1, <1>2, HeapSound, PTL DEF HeapSpec, KeepsWhatIsHeld, Held!StoreSpec
=============================================================================
