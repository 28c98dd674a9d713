------------------------------- MODULE PagePool -------------------------------
(***************************************************************************)
(* What the physical page allocator of src/kernel/src/memory/memory.cpp    *)
(* promises its callers, without the bitmap, the hint and the counters: a  *)
(* pool of pages that can be given out.  A page is given out lowest first, *)
(* is never given out twice, and the pool gives up only when it is empty.  *)
(***************************************************************************)
EXTENDS Naturals

VARIABLES avail,    \* the pages the pool may give out
          taken,    \* the pages given out by Grab and not put back
          open,     \* readMap has run
          halted    \* the pool gave up: "Out of RAM"

poolVars == <<avail, taken, open, halted>>

PoolInit ==
  /\ avail = {}
  /\ taken = {}
  /\ open = FALSE
  /\ halted = FALSE

\* The pool is filled once, from the firmware's memory map.
Fill ==
  /\ ~open
  /\ open' = TRUE
  /\ avail' \in SUBSET Nat
  /\ UNCHANGED <<taken, halted>>

\* A page is given out: the lowest one there is.
Grab ==
  /\ open /\ ~halted
  /\ \E p \in avail :
       /\ \A q \in avail : p <= q
       /\ avail' = avail \ {p}
       /\ taken' = taken \cup {p}
  /\ UNCHANGED <<open, halted>>

\* Pages named by the caller leave the pool.
Claim ==
  /\ open /\ ~halted
  /\ avail' \subseteq avail
  /\ UNCHANGED <<taken, open, halted>>

\* Pages named by the caller come back; none of them is still in use.
PutBack ==
  /\ open /\ ~halted
  /\ avail \subseteq avail'
  /\ taken' \subseteq taken
  /\ taken' \cap avail' = {}
  /\ UNCHANGED <<open, halted>>

GiveUp ==
  /\ open /\ ~halted
  /\ avail = {}
  /\ halted' = TRUE
  /\ UNCHANGED <<avail, taken, open>>

PoolNext == Fill \/ Grab \/ Claim \/ PutBack \/ GiveUp

PoolSpec == PoolInit /\ [][PoolNext]_poolVars

\* No page is at the same time in use and on offer.
NoDoubleOffer == taken \cap avail = {}
===============================================================================
