-------------------------------- MODULE Store --------------------------------
(***************************************************************************)
(* What a heap promises: blocks of bytes that nobody but the holder        *)
(* changes, at addresses where they do not touch each other.               *)
(***************************************************************************)
EXTENDS Integers, Sequences

CONSTANTS Pointer, Size

VARIABLE blocks   \* [the pointers in use -> their bytes]

Zeros(n) == [i \in 1 .. n |-> 0]

Bytes(p, n) == p .. p + n - 1

\* A block of n bytes at p would touch none of those in use.
Apart(p, n) == \A q \in DOMAIN blocks : Bytes(p, n) \cap Bytes(q, Len(blocks[q])) = {}

With(p, bytes, others) ==
  [q \in others \cup {p} |-> IF q = p THEN bytes ELSE blocks[q]]

StoreInit == blocks = <<>>

New(p, n) == Apart(p, n) /\ blocks' = With(p, Zeros(n), DOMAIN blocks)

Drop(p) == p \in DOMAIN blocks /\ blocks' = [q \in DOMAIN blocks \ {p} |-> blocks[q]]

Change(p) ==
  /\ p \in DOMAIN blocks
  /\ DOMAIN blocks' = DOMAIN blocks
  /\ Len(blocks'[p]) = Len(blocks[p])
  /\ blocks' = With(p, blocks'[p], DOMAIN blocks)

\* Another block with the bytes of the old one, as many as fit, and zeros.
Grow(p, q, n) ==
  /\ p \in DOMAIN blocks /\ Apart(q, n)
  /\ blocks' = With(q, [i \in 1 .. n |-> IF i <= Len(blocks[p]) THEN blocks[p][i] ELSE 0],
                    DOMAIN blocks \ {p})

StoreNext == \E p \in Pointer :
  \/ Drop(p) \/ Change(p)
  \/ \E n \in Size : New(p, n) \/ \E q \in Pointer : Grow(p, q, n)

StoreSpec == StoreInit /\ [][StoreNext]_blocks
=============================================================================
