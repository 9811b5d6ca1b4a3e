----------------------------- MODULE BlockFifo -----------------------------
(***************************************************************************)
(* What the databufs promise the threads that share them: each one is a    *)
(* queue of at most Capacity blocks.  Its writer appends to it, its reader *)
(* removes the oldest block, and nothing else changes it but the start of  *)
(* a new process, which empties them all.                                  *)
(***************************************************************************)
EXTENDS Integers, Sequences

CONSTANTS Buffer,      \* the databufs
          Capacity,    \* blocks in each
          Item         \* what a block can hold
VARIABLE queue         \* queue[d]: the filled blocks of databuf d, oldest first

Init == queue = [d \in Buffer |-> << >>]

Put(d, i) ==
    /\ Len(queue[d]) < Capacity
    /\ queue' = [queue EXCEPT ![d] = Append(@, i)]

Get(d) ==
    /\ queue[d] # << >>
    /\ queue' = [queue EXCEPT ![d] = Tail(@)]

Flush == queue' = [d \in Buffer |-> << >>]

Next ==
    \/ \E d \in Buffer : Get(d) \/ \E i \in Item : Put(d, i)
    \/ Flush

Spec == Init /\ [][Next]_queue
=============================================================================
