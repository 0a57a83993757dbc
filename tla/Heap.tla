-------------------------------- MODULE Heap --------------------------------
(***************************************************************************)
(* The kernel heap (src/memory/memory_manager.c), which kernel and programs *)
(* share: kmalloc, krealloc and kfree over the memory itself.  A block is a *)
(* header (struct allocator) and the bytes after it; the list of blocks is *)
(* nothing but the sizes in the headers.  Addresses count from heap_start. *)
(*                                                                         *)
(* A byte is what reading it as data gives, and what reading a header at   *)
(* its address gives: a program may write anything into its block.         *)
(***************************************************************************)
EXTENDS Integers, FiniteSets

CONSTANTS
  HEADER,        \* sizeof(struct allocator)
  HEAP_SIZE,     \* heap_end - heap_start
  RequestSizes   \* sizes programs and kernel ask for

\* Sizes are sizes of files, buffers and lines: last_alloc + size + HEADER
\* stays below 2^32.
ASSUME HeapAssumption ==
  /\ HEADER \in Nat \ {0}
  /\ HEAP_SIZE \in Nat \ {0}
  /\ RequestSizes \subseteq Nat

VARIABLES
  heap,     \* [memory, last_alloc, dynamic_pointers]
  held,     \* the pointers somebody was given and has not freed
  halted    \* the memory is exhausted: int $4, whose handler halts the CPU

heapVars == <<heap, held, halted>>

Address == 0 .. HEAP_SIZE - 1
Zero == [data |-> 0, status |-> 0, size |-> 0]

\* memory_initialize
HeapInit ==
  /\ heap = [memory |-> [a \in Address |-> Zero], last_alloc |-> 0, dynamic_pointers |-> 0]
  /\ held = {}
  /\ halted = FALSE
-----------------------------------------------------------------------------
(* The functions of the source, from the heap before to the heap after *)

Cleared(m, from, n) == [a \in Address |-> IF a \in from .. from + n - 1 THEN Zero ELSE m[a]]

SetHeader(m, a, used, n) == [m EXCEPT ![a] = [data |-> 0, status |-> used, size |-> n]]

\* The headers the search of kmalloc walks over.
Headers(h) ==
  LET from[a \in Nat] ==
        IF a < h.last_alloc THEN {a} \cup from[a + HEADER + h.memory[a].size] ELSE {}
  IN  from[0]

\* A free block of exactly the size, or one that can be split.
Fits(h, a, n) ==
  /\ h.memory[a].status = 0
  /\ h.memory[a].size >= n + HEADER \/ h.memory[a].size = n

FittingHeaders(h, n) == {a \in Headers(h) : Fits(h, a, n)}

\* Faulty: the block may end at the very end of the heap.
ExhaustedLate(h, n) == FittingHeaders(h, n) = {} /\ h.last_alloc + n + HEADER > HEAP_SIZE

Exhausted(h, n) == FittingHeaders(h, n) = {} /\ h.last_alloc + n + HEADER >= HEAP_SIZE

\* Where kmalloc puts the header: the first fit, or the end of the used part.
HeaderFor(h, n) ==
  LET fit == FittingHeaders(h, n)
  IN  IF fit = {} THEN h.last_alloc ELSE CHOOSE a \in fit : \A b \in fit : a <= b

\* Faulty: the header of the remainder is not counted.
RemainderFat(h, a, n) == h.memory[a].size - n

\* What is left of a free block that is split.
Remainder(h, a, n) == h.memory[a].size - n - HEADER

\* kmalloc(size) with size > 0 and memory left; its result is the address
\* after the header.
Allocated(h, n) ==
  LET a     == HeaderFor(h, n)
      taken == Cleared(SetHeader(h.memory, a, 1, n), a + HEADER, n)
      reuse == a < h.last_alloc
  IN  [memory |-> IF reuse /\ h.memory[a].size # n
                  THEN SetHeader(taken, a + HEADER + n, 0, Remainder(h, a, n)) ELSE taken,
       last_alloc |-> IF reuse THEN h.last_alloc ELSE a + HEADER + n,
       dynamic_pointers |-> h.dynamic_pointers + 1]

PointerFor(h, n) == HeaderFor(h, n) + HEADER

\* memory_clean
Clean(h) == [h EXCEPT !.memory = Cleared(@, 0, h.last_alloc), !.last_alloc = 0]

\* Faulty: the merge does not look whether the next block is free.
FreeEndBlind(h, from) == h.last_alloc

\* Where the free blocks that follow each other from an address on end.
FreeEnd(h, from) ==
  LET end[a \in Nat] ==
        IF a < h.last_alloc /\ h.memory[a].status = 0
        THEN end[a + HEADER + h.memory[a].size] ELSE a
  IN  end[from]

\* kfree
Freed(h, p) ==
  LET next == p + h.memory[p - HEADER].size
      one  == [h EXCEPT !.memory = SetHeader(@, p - HEADER, 0, FreeEnd(h, next) - p),
                        !.dynamic_pointers = @ - 1]
  IN  IF one.dynamic_pointers = 0 THEN Clean(one) ELSE one

\* memcpy of n bytes from p to q
Copied(h, q, p, n) ==
  [h EXCEPT !.memory =
    [a \in Address |-> IF a \in q .. q + n - 1 THEN h.memory[p + (a - q)] ELSE h.memory[a]]]

\* Faulty: the old block is kept.
ReallocatedBoth(h, p, n) ==
  IF n = 0 THEN h
  ELSE LET old == h.memory[p - HEADER].size
       IN  Copied(Allocated(h, n), PointerFor(h, n), p, IF old > n THEN n ELSE old)

\* krealloc(p, size) with memory left: kmalloc, memcpy, kfree.
Reallocated(h, p, n) ==
  IF n = 0 THEN Freed(h, p)
  ELSE LET old == h.memory[p - HEADER].size
       IN  Freed(Copied(Allocated(h, n), PointerFor(h, n), p, IF old > n THEN n ELSE old), p)
-----------------------------------------------------------------------------
(* The callers: SYSCALL_MALLOC, SYSCALL_REALLOC, SYSCALL_FREE, the reads of *)
(* the file system                                                         *)

Malloc(n) ==
  /\ ~halted /\ n > 0 /\ ~Exhausted(heap, n)
  /\ heap' = Allocated(heap, n)
  /\ held' = held \cup {PointerFor(heap, n)}
  /\ UNCHANGED halted

Realloc(p, n) ==
  /\ ~halted /\ p \in held
  /\ n > 0 => ~Exhausted(heap, n)
  /\ heap' = Reallocated(heap, p, n)
  /\ held' = (held \ {p}) \cup IF n = 0 THEN {} ELSE {PointerFor(heap, n)}
  /\ UNCHANGED halted

\* kmalloc finds no memory, for itself or for krealloc.
Exhaust(n) ==
  /\ ~halted /\ n > 0 /\ Exhausted(heap, n)
  /\ halted' = TRUE
  /\ UNCHANGED <<heap, held>>

\* Pointers are freed once: nobody frees what it does not hold.
Free(p) ==
  /\ ~halted /\ p \in held
  /\ heap' = Freed(heap, p)
  /\ held' = held \ {p}
  /\ UNCHANGED halted

\* The holder of a block writes its bytes.  Read as headers they would be
\* used blocks without a byte.
Fill(p) ==
  /\ ~halted /\ p \in held
  /\ LET n == heap.memory[p - HEADER].size
     IN  heap' = [heap EXCEPT !.memory =
           [a \in Address |-> IF a \in p .. p + n - 1
                              THEN [data |-> a - p + 1, status |-> 1, size |-> 0] ELSE @[a]]]
  /\ UNCHANGED <<held, halted>>

HeapNext ==
  \/ \E n \in RequestSizes : Malloc(n) \/ Exhaust(n)
  \/ \E p \in held : Free(p) \/ Fill(p) \/ \E n \in RequestSizes : Realloc(p, n)

HeapSpec == HeapInit /\ [][HeapNext]_heapVars
=============================================================================
