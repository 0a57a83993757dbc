----------------------------- MODULE RoundRobin -----------------------------
(***************************************************************************)
(* What the process subsystem promises its users: a ring of processes that *)
(* starts with the kernel, in which newcomers queue at the end, the CPU    *)
(* goes to the first process after the current one that is not dead, and   *)
(* only a dead process that has left the CPU is taken out.                 *)
(***************************************************************************)
EXTENDS Integers, Sequences, SequencesExt

CONSTANTS Proc, Kernel

VARIABLES
  ring,   \* the processes in turn order, the kernel first
  dead,   \* the terminated ones among them
  cur     \* the one that has the CPU

rrVars == <<ring, dead, cur>>

RRInit == ring = <<Kernel>> /\ dead = {} /\ cur = Kernel

\* A process joins at the end: everybody else has a turn before it.
Spawn(p) ==
  /\ ~Contains(ring, p)
  /\ ring' = Append(ring, p)
  /\ UNCHANGED <<dead, cur>>

Kill(p) ==
  /\ Contains(ring, p) /\ p # Kernel
  /\ dead' = dead \cup {p}
  /\ UNCHANGED <<ring, cur>>

\* The turns after the current one, the current one last.
Turns == LET at == CHOOSE k \in 1 .. Len(ring) : ring[k] = cur
         IN  SubSeq(ring, at + 1, Len(ring)) \o SubSeq(ring, 1, at)

\* The first in turn that is not dead; it may be the one that has the CPU.
Dispatch ==
  /\ \E k \in 1 .. Len(ring) :
       /\ Turns[k] \notin dead
       /\ \A j \in 1 .. k - 1 : Turns[j] \in dead
       /\ cur' = Turns[k]
  /\ UNCHANGED <<ring, dead>>

Reap(p) ==
  /\ p \in dead /\ p # cur
  /\ \E k \in 1 .. Len(ring) : ring[k] = p /\ ring' = RemoveAt(ring, k)
  /\ dead' = dead \ {p}
  /\ UNCHANGED cur

RRNext == Dispatch \/ \E p \in Proc : Spawn(p) \/ Kill(p) \/ Reap(p)

RRSpec == RRInit /\ [][RRNext]_rrVars
=============================================================================
