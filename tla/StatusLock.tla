----------------------------- MODULE StatusLock -----------------------------
(***************************************************************************)
(* The lock of the status buffer: a named POSIX semaphore, created with    *)
(* value 1, that the threads of the hashpipe processes of an instance and  *)
(* the command line tools share (hashpipe_status.c, hashpipe_status.h).    *)
(*                                                                         *)
(* Threads use the *_safe macros, which push the unlock function as a      *)
(* cancellation handler and then call sem_wait(), a cancellation point.    *)
(* The tools call lock and unlock directly, and can be killed.             *)
(*                                                                         *)
(* The buffer is modelled by the set of actors whose record it holds: a    *)
(* store searches the records and then writes, in two steps, so that two   *)
(* stores at once lose one of the records.                                 *)
(***************************************************************************)
EXTENDS Integers

CONSTANTS Thread,        \* users of hashpipe_status_lock_safe()
          Client,        \* users of hashpipe_status_lock()
          Cancellable,   \* the threads pthread_cancel() is called on
          Mortal         \* the clients that may be killed

ASSUME StatusLockAssumption ==
    /\ Cancellable \subseteq Thread
    /\ Mortal \subseteq Client
    /\ Thread \cap Client = {}

Actor == Thread \cup Client

VARIABLES value,      \* value of the semaphore
          pc,         \* pc[a]: where actor a is
          pending,    \* the threads with a cancellation request
          ending,     \* the threads that run their cancellation handler
          keys,       \* the actors that have a record in the buffer
          seen        \* seen[a]: the records a found in its search

vars == <<value, pc, pending, ending, keys, seen>>

PC == {"idle", "lock", "search", "store", "getvalue", "post", "ended", "died"}

TypeOK ==
    /\ value \in Nat
    /\ pc \in [Actor -> PC]
    /\ pending \subseteq Cancellable
    /\ ending \subseteq Cancellable
    /\ keys \subseteq Actor
    /\ seen \in [Actor -> SUBSET Actor]

Init ==
    /\ value = 1
    /\ pc = [a \in Actor |-> "idle"]
    /\ pending = {}
    /\ ending = {}
    /\ keys = {}
    /\ seen = [a \in Actor |-> {}]

Goto(a, l) == pc' = [pc EXCEPT ![a] = l]

(* Mutant: the buffer is used without the lock.                            *)
CallUnlocked(a) ==
    /\ pc[a] = "idle"
    /\ Goto(a, "search")
    /\ UNCHANGED <<value, pending, ending, keys, seen>>

(* The actor calls the lock function or macro.                             *)
Call(a) ==
    /\ pc[a] = "idle"
    /\ Goto(a, "lock")
    /\ UNCHANGED <<value, pending, ending, keys, seen>>

(* Mutant: the value is decremented without a look at it.                  *)
LockUnchecked(a) ==
    /\ pc[a] = "lock"
    /\ a \notin pending
    /\ value' = value - 1
    /\ Goto(a, "search")
    /\ UNCHANGED <<pending, ending, keys, seen>>

(* sem_wait() gets the semaphore; sem_trywait() in a loop does the same.   *)
Lock(a) ==
    /\ pc[a] = "lock"
    /\ a \notin pending
    /\ value > 0
    /\ value' = value - 1
    /\ Goto(a, "search")
    /\ UNCHANGED <<pending, ending, keys, seen>>

(* hputs() and the like: find the keyword or the END record, ...           *)
Search(a) ==
    /\ pc[a] = "search"
    /\ seen' = [seen EXCEPT ![a] = keys]
    /\ Goto(a, "store")
    /\ UNCHANGED <<value, pending, ending, keys>>

(* ... and write the record and the END record after it.                   *)
Store(a) ==
    /\ pc[a] = "store"
    /\ keys' = seen[a] \cup {a}
    /\ Goto(a, "getvalue")
    /\ UNCHANGED <<value, pending, ending, seen>>

Finish(a) == Goto(a, IF a \in ending THEN "ended" ELSE "idle")

(* Mutant: the lock is taken for held only below 0.                        *)
GetValueBelow(a) ==
    /\ pc[a] = "getvalue"
    /\ IF value < 0 THEN Goto(a, "post") ELSE Finish(a)
    /\ UNCHANGED <<value, pending, ending, keys, seen>>

(* hashpipe_status_unlock() looks at the value first, ...                  *)
GetValue(a) ==
    /\ pc[a] = "getvalue"
    /\ IF value < 1 THEN Goto(a, "post") ELSE Finish(a)
    /\ UNCHANGED <<value, pending, ending, keys, seen>>

(* Mutant: the macro pops its handler with a 1, which runs it again.       *)
PostAgain(a) ==
    /\ pc[a] = "post"
    /\ value' = value + 1
    /\ Goto(a, "getvalue")
    /\ UNCHANGED <<pending, ending, keys, seen>>

(* ... and posts in a second step.                                         *)
Post(a) ==
    /\ pc[a] = "post"
    /\ value' = value + 1
    /\ Finish(a)
    /\ UNCHANGED <<pending, ending, keys, seen>>

(* main() cancels a thread.                                                *)
Cancel(a) ==
    /\ a \in Cancellable \ pending
    /\ pending' = pending \cup {a}
    /\ UNCHANGED <<value, pc, ending, keys, seen>>

(* The thread acts on it in sem_wait(), before it has the semaphore.  The  *)
(* handler that the macro pushed calls hashpipe_status_unlock().           *)
Cancelled(a) ==
    /\ a \in pending
    /\ pc[a] = "lock"
    /\ ending' = ending \cup {a}
    /\ Goto(a, "getvalue")
    /\ UNCHANGED <<value, pending, keys, seen>>

(* Between lock and unlock.                                                *)
Holder(a) == a \notin ending /\ pc[a] \in {"search", "store", "getvalue", "post"}

(* A tool is killed, wherever it is; nothing posts the semaphore for it.   *)
Killed(a) ==
    /\ a \in Mortal
    /\ pc[a] \notin {"ended", "died"}
    /\ Goto(a, IF Holder(a) THEN "died" ELSE "ended")
    /\ UNCHANGED <<value, pending, ending, keys, seen>>

ActorStep(a) ==
    \/ Lock(a) \/ Search(a) \/ Store(a) \/ GetValue(a) \/ Post(a) \/ Cancelled(a)

Next == \E a \in Actor : ActorStep(a) \/ Call(a) \/ Cancel(a) \/ Killed(a)

Spec == Init /\ [][Next]_vars

(* Every actor that can run does; none is obliged to call lock.            *)
FairSpec == Spec /\ \A a \in Actor : WF_vars(ActorStep(a))

-----------------------------------------------------------------------------
(* No actor has the buffer while another has it, or died with it.          *)
MutualExclusion ==
    \A a, b \in Actor : Holder(a) /\ (Holder(b) \/ pc[b] = "died") => a = b

(* The lock excludes until a thread acts on its cancellation while it      *)
(* waits for it, whichever threads are cancelled and tools killed.         *)
Exclusive == ending = {} => MutualExclusion

(* Until then, a record that was stored is not lost to another's store.    *)
NoLostRecord == [][ending = {} => keys \subseteq keys']_vars

(* The buffer never stays locked, whatever threads are cancelled, unless   *)
(* a tool is killed while it holds the lock.                               *)
NotLeftLocked == value = 0 ~> (value > 0 \/ \E c \in Client : pc[c] = "died")

(* An actor has the lock, or was killed with it.                           *)
Held == \E a \in Actor : Holder(a) \/ pc[a] = "died"

(* The semaphore tells whether the lock is held: it is 0 from the sem_wait *)
(* of a holder to its sem_post (for good, if the holder is killed), and 1  *)
(* otherwise.  So the holder never finds the 1 that would make             *)
(* hashpipe_status_unlock() skip the post.  Until a waiter's cancellation, *)
(* that is, as in Exclusive.                                               *)
ValueTells == ending = {} => value = IF Held THEN 0 ELSE 1

(* A holder that has searched has seen every record there is.              *)
Snapshot == ending = {} => \A a \in Actor : pc[a] = "store" => seen[a] = keys

IInv == TypeOK /\ Exclusive /\ ValueTells /\ Snapshot
=============================================================================
