------------------------------- MODULE MCHeap -------------------------------
(***************************************************************************)
(* The heap on a few bytes, against the store it promises.                 *)
(***************************************************************************)
EXTENDS Heap, Sequences

SizeOf(p) == heap.memory[p - HEADER].size

\* The type invariant of the heap: the used part, its end included, lies
\* within the heap, and sizes are sizes.
HeapTypeOK ==
  /\ heap.last_alloc \in 0 .. HEAP_SIZE - 1
  /\ heap.dynamic_pointers \in Nat
  /\ heap.memory \in [Address -> [data : Nat, status : {0, 1}, size : 0 .. HEAP_SIZE]]
  /\ held \subseteq Address

\* The headers lead from one block to the next, through free and used ones,
\* to exactly the end of the used part; the used ones are those somebody
\* holds, and dynamic_pointers counts them.  Splitting, merging and reuse in
\* any order never lose the chain.
BlocksTile ==
  /\ {a + HEADER + heap.memory[a].size : a \in Headers(heap)} =
       (Headers(heap) \ {0}) \cup IF heap.last_alloc = 0 THEN {} ELSE {heap.last_alloc}
  /\ held = {a + HEADER : a \in {b \in Headers(heap) : heap.memory[b].status = 1}}
  /\ heap.dynamic_pointers = Cardinality(held)

\* When the last block is freed, whatever the order of frees, the whole heap
\* is as new: though kfree merges forward only, no fragment stays for good.
IdleHeapIsNew ==
  held = {} => heap.last_alloc = 0 /\ \A a \in Address : heap.memory[a] = Zero

Held == INSTANCE Store WITH
  Pointer <- Address,
  Size    <- RequestSizes \ {0},
  blocks  <- [p \in held |-> [i \in 1 .. SizeOf(p) |-> heap.memory[p + i - 1].data]]

\* Every kmalloc gives zeroed bytes that nobody else holds, krealloc keeps the
\* contents that fit, and no call changes a byte of a block it was not asked
\* for, over every history of calls.
KeepsWhatIsHeld == Held!StoreSpec
=============================================================================
