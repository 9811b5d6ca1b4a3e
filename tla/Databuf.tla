------------------------------ MODULE Databuf ------------------------------
(***************************************************************************)
(* The semaphore protocol of one hashpipe databuf (hashpipe_databuf.c).    *)
(*                                                                         *)
(* A databuf is a shared memory segment of n_block data blocks with a      *)
(* System V semaphore set of n_block semaphores: semaphore b is 0 when     *)
(* block b is free and 1 when it is filled.  The module holds the          *)
(* operations as functions of the semaphore array sv, one operator for     *)
(* each C function, for the modules that compose them with threads.        *)
(* A semop() is atomic, so each call is one step of its caller.            *)
(***************************************************************************)
EXTENDS Integers

CONSTANT NBlock     \* n_block of the databuf

ASSUME NBlockAssumption == NBlock \in Nat \ {0}

Block == 0 .. NBlock - 1

(* hashpipe_databuf_clear(), and the end of hashpipe_databuf_create():     *)
(* semctl(SETALL) with zeros, whatever the semaphores held.                *)
AllFree == [b \in Block |-> 0]

(* semctl(SETVAL): both succeed whatever the state of the block.           *)
SetFree(sv, b)   == [sv EXCEPT ![b] = 0]
SetFilled(sv, b) == [sv EXCEPT ![b] = 1]

(* What a wait may return although nothing is wrong with the protocol.     *)
(* ERR_SYS may come of any call: EINTR when a signal handler ran in the    *)
(* thread or the process was stopped and continued while it slept          *)
(* (semtimedop is never restarted), EIDRM or EINVAL, even without a sleep, *)
(* once hashpipe_clean_shmem has removed the set.                          *)
WaitError == "ERR_SYS"

(* Mutant: the result of semtimedop() is not looked at.                    *)
WaitFreeUnchecked(sv, b) == {"OK"}

(* A call whose condition holds does not sleep; one that sleeps ends with  *)
(* the condition true, or in TIMEOUT (EAGAIN after 250 ms).                *)
WaitFreeResults(sv, b) ==
    {IF sv[b] = 0 THEN "OK" ELSE "TIMEOUT", WaitError}

(* Two operations in one semop(): take 1, give 1 back.  It needs sv[b] > 0 *)
(* and leaves it as it was.                                                *)
WaitFilledResults(sv, b) ==
    {IF sv[b] > 0 THEN "OK" ELSE "TIMEOUT", WaitError}

(* Mutant: the index is not taken modulo n_block.                          *)
NextBlockUnwrapped(b) == b + 1

(* Every thread walks the ring of blocks in the same order.                *)
NextBlock(b) == (b + 1) % NBlock

(* How many steps of NextBlock lead from block r to block b.               *)
Dist(r, b) == IF b >= r THEN b - r ELSE b + NBlock - r

(* How many blocks are filled, told from the block the reader is at, r,    *)
(* and the block the writer is at, w.                                      *)
DepthOf(sv, r, w) ==
    IF sv[r] = 0 THEN 0 ELSE IF w = r THEN NBlock ELSE Dist(r, w)

(* The filled blocks are exactly the ones from r up to w.                  *)
Window(sv, r, w) ==
    /\ sv[r] = 0 => w = r
    /\ \A b \in Block : sv[b] = 1 <=> Dist(r, b) < DepthOf(sv, r, w)
=============================================================================
