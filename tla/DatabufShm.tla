----------------------------- MODULE DatabufShm -----------------------------
(***************************************************************************)
(* How one databuf comes to be and goes away: hashpipe_databuf_create(),   *)
(* hashpipe_databuf_attach() and hashpipe_clean_shmem, run by processes    *)
(* that know nothing of each other.  Each system call and each store into  *)
(* the shared header is a step, and a process may be killed after any.     *)
(*                                                                         *)
(* The segment and the semaphore set are kernel objects under the same     *)
(* IPC key.  A creator makes at most one of each, so they are named after  *)
(* the creator that made them.  A segment removed from its key exists      *)
(* until the last process has detached from it; a removed set is gone at   *)
(* once.  Of the sizes only n_block is kept.                               *)
(***************************************************************************)
EXTENDS Integers

CONSTANTS Creator,      \* processes that call hashpipe_databuf_create()
          User,         \* processes that only attach: null_output_thread, the tools
          Cleaner,      \* runs of hashpipe_clean_shmem
          Mortal,       \* the processes that may be killed
          NBlocks,      \* values of n_block that creators ask for
          JustBooted,   \* the kernel gives the next semaphore set the id 0
          ForeignZero,  \* a set of somebody else, with mode 0666, has the id 0
          None,         \* no object
          Zero,         \* the id 0, which a new header holds, too
          Error         \* -1

ASSUME DatabufShmAssumption ==
    /\ NBlocks \subseteq Nat \ {0}
    /\ JustBooted \in BOOLEAN /\ ForeignZero \in BOOLEAN /\ ~(JustBooted /\ ForeignZero)
    /\ Creator \cap (User \cup Cleaner) = {}
    /\ User \cap Cleaner = {}
    /\ Mortal \subseteq Creator \cup User \cup Cleaner
    /\ {None, Zero, Error} \cap Creator = {}
    /\ None # Zero /\ None # Error /\ Zero # Error

Process == Creator \cup User \cup Cleaner
Set     == Creator \cup {Zero}

VARIABLES key,      \* the segment under the key
          hdr,      \* hdr[s]: the header in segment s
          semkey,   \* the semaphore set under the key
          nsem,     \* nsem[q]: the semaphores in set q; 0 if there is no such set
          zero,     \* the next set gets the id 0
          want,     \* want[c]: the n_block creator c was given
          pc,       \* pc[p]: where process p is
          seg,      \* seg[p]: shmid, as shmget() returned it
          att,      \* the processes that are attached to their segment
          fresh,    \* the creators with newly_created = 1
          got,      \* got[c]: what semget() returned
          overlap   \* history: a cleaner ran while a create was under way

vars == <<key, hdr, semkey, nsem, zero, want, pc, seg, att, fresh, got, overlap>>

PC == {"start", "smaller", "getold", "shmat", "verify", "shmlock", "fill", "semget", "store",
       "setall", "done", "find", "wait", "past", "rmsem", "rmseg", "exited"}

Header == [shmid : Creator \cup {None}, semid : Set \cup {Error}, nblock : NBlocks \cup {0}]

TypeOK ==
    /\ key \in Creator \cup {None}
    /\ hdr \in [Creator -> Header]
    /\ semkey \in Set \cup {None}
    /\ nsem \in [Set -> NBlocks \cup {0}]
    /\ zero \in BOOLEAN
    /\ want \in [Creator -> NBlocks]
    /\ pc \in [Process -> PC]
    /\ seg \in [Process -> Creator \cup {None}]
    /\ att \subseteq {p \in Process : seg[p] # None}
    /\ fresh \subseteq Creator
    /\ got \in [Creator -> Set \cup {None, Error}]
    /\ overlap \in BOOLEAN

Init ==
    /\ key = None
    /\ hdr = [s \in Creator |-> [shmid |-> None, semid |-> Zero, nblock |-> 0]]
    /\ semkey = None
    /\ nsem = [q \in Set |-> 0]
    /\ zero = JustBooted
    /\ want \in [Creator -> NBlocks]
    /\ pc = [p \in Process |-> IF p \in Creator THEN "start" ELSE "find"]
    /\ seg = [p \in Process |-> None]
    /\ att = {}
    /\ fresh = {}
    /\ got = [c \in Creator |-> None]
    /\ overlap = FALSE

Creating(c) == pc[c] \notin {"start", "done", "exited"}
Cleaning(k) == pc[k] \notin {"find", "exited"}
Overlapping == \E c \in Creator, k \in Cleaner : Creating(c) /\ Cleaning(k)

Goto(p, l) ==
    /\ pc' = [pc EXCEPT ![p] = l]
    /\ overlap' = (overlap \/ Overlapping')

(* The process ends: an error path of the code, after which its caller     *)
(* calls exit(), or a kill.  It detaches from what it was attached to.     *)
Exit(p) == Goto(p, "exited") /\ att' = att \ {p}

(* A segment exists while it has its key or somebody is attached to it.    *)
Exists(s) == key = s \/ \E p \in att : seg[p] = s

-----------------------------------------------------------------------------
(* hashpipe_databuf_create().                                              *)

NewSegment(c) ==
    /\ key = None
    /\ key' = c
    /\ seg' = [seg EXCEPT ![c] = c]
    /\ fresh' = fresh \cup {c}
    /\ Goto(c, "shmat")

(* shmget(IPC_CREAT | IPC_EXCL) with 1 GB pages: a new segment, EEXIST, or *)
(* ENOMEM.                                                                 *)
Get(c) ==
    /\ pc[c] = "start"
    /\ \/ NewSegment(c)
       \/ Goto(c, IF key = None THEN "smaller" ELSE "getold") /\ UNCHANGED <<key, seg, fresh>>
    /\ UNCHANGED <<hdr, semkey, nsem, zero, want, att, got>>

(* The same with smaller pages, where EEXIST is an error.                  *)
GetSmaller(c) ==
    /\ pc[c] = "smaller"
    /\ \/ NewSegment(c) /\ UNCHANGED att
       \/ Exit(c) /\ UNCHANGED <<key, seg, fresh>>
    /\ UNCHANGED <<hdr, semkey, nsem, zero, want, got>>

(* Mutant: the second shmget() is taken to succeed.                        *)
GetOldUnchecked(c) ==
    /\ pc[c] = "getold"
    /\ seg' = [seg EXCEPT ![c] = key] /\ Goto(c, "shmat") /\ UNCHANGED att
    /\ UNCHANGED <<key, hdr, semkey, nsem, zero, want, fresh, got>>

(* shmget() of the segment that was there.  It may be gone again, or       *)
(* smaller than what is asked for (its size is rounded up to pages, so a   *)
(* larger n_block does not always fail here).                              *)
GetOld(c) ==
    /\ pc[c] = "getold"
    /\ \/ key # None /\ seg' = [seg EXCEPT ![c] = key] /\ Goto(c, "shmat") /\ UNCHANGED att
       \/ (key # None => want[c] > want[key]) /\ Exit(c) /\ UNCHANGED seg
    /\ UNCHANGED <<key, hdr, semkey, nsem, zero, want, fresh, got>>

(* shmat(), which fails when the segment is no more.                       *)
ShmAt(p, next) ==
    /\ pc[p] = "shmat"
    /\ IF Exists(seg[p]) THEN att' = att \cup {p} /\ Goto(p, next) ELSE Exit(p)
    /\ UNCHANGED <<key, hdr, semkey, nsem, zero, want, seg, fresh, got>>

Attach(c) == ShmAt(c, IF c \in fresh THEN "shmlock" ELSE "verify")

(* Mutant: the sizes are not compared.                                     *)
VerifyNothing(c) ==
    /\ pc[c] = "verify"
    /\ Goto(c, "shmlock") /\ UNCHANGED att
    /\ UNCHANGED <<key, hdr, semkey, nsem, zero, want, seg, fresh, got>>

Verify(c) ==
    /\ pc[c] = "verify"
    /\ IF hdr[seg[c]].nblock = want[c] THEN Goto(c, "shmlock") /\ UNCHANGED att ELSE Exit(c)
    /\ UNCHANGED <<key, hdr, semkey, nsem, zero, want, seg, fresh, got>>

(* shmctl(SHM_LOCK), which needs a privilege or a limit that allows it.    *)
ShmLock(c) ==
    /\ pc[c] = "shmlock"
    /\ \/ Goto(c, IF c \in fresh THEN "fill" ELSE "semget") /\ UNCHANGED att
       \/ Exit(c)
    /\ UNCHANGED <<key, hdr, semkey, nsem, zero, want, seg, fresh, got>>

(* Mutant: n_block is not stored.                                          *)
FillWithoutSizes(c) ==
    /\ pc[c] = "fill"
    /\ hdr' = [hdr EXCEPT ![seg[c]] = [shmid |-> seg[c], semid |-> Zero, nblock |-> 0]]
    /\ Goto(c, "semget")
    /\ UNCHANGED <<key, semkey, nsem, zero, want, seg, att, fresh, got>>

(* memset() and the stores into the header, semid = 0 among them.  (Only   *)
(* the last of the sizes makes Verify() of another process succeed, so     *)
(* they are one step.)                                                     *)
Fill(c) ==
    /\ pc[c] = "fill"
    /\ hdr' = [hdr EXCEPT ![seg[c]] = [shmid |-> seg[c], semid |-> Zero, nblock |-> want[c]]]
    /\ Goto(c, "semget")
    /\ UNCHANGED <<key, semkey, nsem, zero, want, seg, att, fresh, got>>

NewSet(c) ==
    LET q == IF zero THEN Zero ELSE c
    IN  /\ semkey = None
        /\ semkey' = q
        /\ nsem' = [nsem EXCEPT ![q] = want[c]]
        /\ zero' = FALSE
        /\ got' = [got EXCEPT ![c] = q]

(* Mutant: semget() with 0 for the number of semaphores takes any set.     *)
SemGetAny(c) ==
    /\ pc[c] = "semget"
    /\ \/ NewSet(c)
       \/ semkey # None /\ got' = [got EXCEPT ![c] = semkey] /\ UNCHANGED <<semkey, nsem, zero>>
    /\ Goto(c, "store")
    /\ UNCHANGED <<key, hdr, want, seg, att, fresh>>

(* semget(IPC_CREAT): a new set, the one that is there if it has enough    *)
(* semaphores (EINVAL if not), or ENOSPC.                                  *)
SemGet(c) ==
    /\ pc[c] = "semget"
    /\ \/ NewSet(c)
       \/ /\ got' = [got EXCEPT ![c] = IF semkey # None /\ nsem[semkey] >= want[c]
                                         THEN semkey ELSE Error]
          /\ UNCHANGED <<semkey, nsem, zero>>
    /\ Goto(c, "store")
    /\ UNCHANGED <<key, hdr, want, seg, att, fresh>>

(* What semget() returned is stored in the header first and looked at then.*)
StoreSem(c) ==
    /\ pc[c] = "store"
    /\ hdr' = [hdr EXCEPT ![seg[c]].semid = got[c]]
    /\ IF got[c] = Error THEN Exit(c) ELSE Goto(c, "setall") /\ UNCHANGED att
    /\ UNCHANGED <<key, semkey, nsem, zero, want, seg, fresh, got>>

(* Is there a semaphore set with this id?                                  *)
IsSet(q) == q # Error /\ nsem[q] > 0

(* semctl(SETALL) on the id that the header holds by now.                  *)
SetAll(c) ==
    /\ pc[c] = "setall"
    /\ IF IsSet(hdr[seg[c]].semid) THEN Goto(c, "done") /\ UNCHANGED att ELSE Exit(c)
    /\ UNCHANGED <<key, hdr, semkey, nsem, zero, want, seg, fresh, got>>

CreateStep(c) ==
    \/ Get(c) \/ GetSmaller(c) \/ GetOld(c) \/ Attach(c) \/ Verify(c) \/ ShmLock(c)
    \/ Fill(c) \/ SemGet(c) \/ StoreSem(c) \/ SetAll(c)

-----------------------------------------------------------------------------
(* hashpipe_databuf_attach(): shmget() with size 0, then shmat().  Nothing *)
(* happens when there is no segment; the null thread then tries again.     *)
Find(p) ==
    /\ pc[p] = "find"
    /\ key # None
    /\ seg' = [seg EXCEPT ![p] = key]
    /\ Goto(p, "shmat")
    /\ UNCHANGED <<key, hdr, semkey, nsem, zero, want, att, fresh, got>>

(* The wait for a filled block, with the id that the header holds by now:  *)
(* 0 in a new header, which may be a set of somebody else.  After a        *)
(* failure the null thread calls pthread_exit(); after a success it takes  *)
(* its index modulo n_block.                                               *)
Wait(u) ==
    /\ pc[u] = "wait"
    /\ LET q == hdr[seg[u]].semid
       IN  IF IsSet(q) \/ (q = Zero /\ ForeignZero)
             THEN Goto(u, "past") /\ UNCHANGED att
             ELSE Exit(u)
    /\ UNCHANGED <<key, hdr, semkey, nsem, zero, want, seg, fresh, got>>

UserStep(u) == Find(u) \/ ShmAt(u, "wait") \/ Wait(u)

(* Mutant: the set is left where it is.                                    *)
RemoveNoSet(k) ==
    /\ pc[k] = "rmsem"
    /\ Goto(k, "rmseg")
    /\ UNCHANGED <<key, hdr, semkey, nsem, zero, want, seg, att, fresh, got>>

(* hashpipe_clean_shmem: if(d->semid) semctl(IPC_RMID), ...                *)
RemoveSet(k) ==
    LET q == hdr[seg[k]].semid
    IN  /\ pc[k] = "rmsem"
        /\ IF q # Zero /\ IsSet(q)
             THEN /\ nsem' = [nsem EXCEPT ![q] = 0]
                  /\ semkey' = IF semkey = q THEN None ELSE semkey
             ELSE UNCHANGED <<nsem, semkey>>
        /\ Goto(k, "rmseg")
        /\ UNCHANGED <<key, hdr, zero, want, seg, att, fresh, got>>

(* ... then shmctl(d->shmid, IPC_RMID).  A header that was never filled    *)
(* says 0, which is somebody else's segment or nobody's.                   *)
RemoveSegment(k) ==
    /\ pc[k] = "rmseg"
    /\ key' = IF hdr[seg[k]].shmid = key THEN None ELSE key
    /\ Exit(k)
    /\ UNCHANGED <<hdr, semkey, nsem, zero, want, seg, fresh, got>>

CleanStep(k) == Find(k) \/ ShmAt(k, "rmsem") \/ RemoveSet(k) \/ RemoveSegment(k)

(* A process ends by itself once it uses the databuf, or is killed.        *)
Die(p) ==
    /\ pc[p] \in {"done", "past"} \/ (p \in Mortal /\ pc[p] # "exited")
    /\ Exit(p)
    /\ UNCHANGED <<key, hdr, semkey, nsem, zero, want, seg, fresh, got>>

Next ==
    \/ \E c \in Creator : CreateStep(c)
    \/ \E u \in User : UserStep(u)
    \/ \E k \in Cleaner : CleanStep(k)
    \/ \E p \in Process : Die(p)

Spec == Init /\ [][Next]_vars

-----------------------------------------------------------------------------
Using(c) == pc[c] = "done"

(* Processes whose create succeeded on the same segment agree on its       *)
(* sizes, however their calls were interleaved and whoever died.           *)
SizesAgree ==
    \A c, d \in Creator : Using(c) /\ Using(d) /\ seg[c] = seg[d] => want[c] = want[d]

(* The semaphore set a process waits on has a semaphore for every one of   *)
(* its blocks, or is gone: sets that other processes left behind are never *)
(* too small.                                                              *)
EnoughSemaphores ==
    \A c \in Creator : Using(c) /\ IsSet(hdr[seg[c]].semid) =>
        nsem[hdr[seg[c]].semid] >= want[c]

(* What a process that only attached works with after a wait: once the     *)
(* header names a set, n_block is there too, and the set has a semaphore   *)
(* for every block, whichever creator's store it is and whoever died since *)
(* -- or it is gone.  (A header that says 0 names no set: a new one does,  *)
(* and a wait on it gets through if there is a set 0, with n_block still   *)
(* 0.  That is the case nothing in the code keeps away.)                   *)
AttachedReady ==
    \A u \in User : pc[u] = "past" /\ hdr[seg[u]].semid # Zero =>
        LET h == hdr[seg[u]]
        IN  h.nblock # 0 /\ (IsSet(h.semid) => nsem[h.semid] >= h.nblock)

(* If nobody cleaned up while a databuf was being created, two segments in *)
(* use never share a semaphore set: what is left of a cleaned up databuf   *)
(* is not confused with the new one.                                       *)
SetsNotShared ==
    ~overlap =>
        \A c, d \in Creator :
            Using(c) /\ Using(d) /\ hdr[seg[c]].semid = hdr[seg[d]].semid =>
                seg[c] = seg[d] \/ ~IsSet(hdr[seg[c]].semid)

(* hashpipe_clean_shmem: it "deletes data buffers for specified Hashpipe   *)
(* instance".  So, if no create was under way, the segment it went through *)
(* is no longer there for the next create.                                 *)
Deleted ==
    [][\A k \in Cleaner : RemoveSegment(k) /\ ~overlap => key' # seg[k]]_vars

-----------------------------------------------------------------------------
(* The parts of the inductive invariant.  Where a process is tells whether *)
(* it made, has found, and is attached to a segment, ...                   *)
PlacedCreators ==
    \A c \in Creator :
        /\ pc[c] \in {"start", "smaller", "getold", "shmat", "verify", "shmlock", "fill",
                      "semget", "store", "setall", "done", "exited"}
        /\ c \in fresh => seg[c] = c
        /\ pc[c] \in {"start", "smaller", "getold"} => seg[c] = None /\ c \notin fresh
        /\ pc[c] = "verify" => c \notin fresh
        /\ pc[c] = "fill" => c \in fresh
        /\ seg[c] = None => pc[c] \in {"start", "smaller", "getold", "exited"}

PlacedOthers ==
    /\ \A u \in User : pc[u] \in {"find", "shmat", "wait", "past", "exited"}
    /\ \A k \in Cleaner : pc[k] \in {"find", "shmat", "rmsem", "rmseg", "exited"}
    /\ \A p \in User \cup Cleaner : seg[p] = None => pc[p] \in {"find", "exited"}

Known ==
    /\ key \in fresh \cup {None}
    /\ \A p \in Process : seg[p] \in fresh \cup {None}

(* ... a header is as the kernel gave it, or was filled by its maker, once,*)
(* before anybody else got past Verify(), ...                              *)
Unfilled(s) == hdr[s].shmid = None /\ hdr[s].semid = Zero /\ hdr[s].nblock = 0
Filled(s) ==
    /\ s \in fresh /\ pc[s] \notin {"shmat", "shmlock", "fill"}
    /\ hdr[s].shmid = s /\ hdr[s].nblock = want[s]
HeaderRight == \A s \in Creator : Unfilled(s) \/ Filled(s)

Verified(c) ==
    \/ pc[c] \in {"semget", "store", "setall", "done"}
    \/ pc[c] = "shmlock" /\ c \notin fresh
SizeRight == \A c \in Creator : Verified(c) => hdr[seg[c]].nblock = want[c]

(* ... there is no set but the one under the key, none comes back once it  *)
(* is removed, and one that was got was large enough, ...                  *)
OneSet == \A q \in Set : nsem[q] > 0 <=> q = semkey
Made(q) == IF q = Zero THEN ~zero ELSE pc[q] \in {"store", "setall", "done", "exited"}
Enough(q, n) == q \in Set => Made(q) /\ (nsem[q] = 0 \/ nsem[q] >= n)
SetsRight ==
    /\ semkey # None => Made(semkey)
    /\ \A s \in Creator : hdr[s].semid \in Creator => Made(hdr[s].semid)
    /\ \A c \in Creator : Enough(got[c], want[c]) /\ (pc[c] = "store" => got[c] # None)
    /\ \A c \in Creator : pc[c] \in {"setall", "done"} => Enough(hdr[seg[c]].semid, want[c])
HeaderEnough == \A s \in Creator : hdr[s].semid # Zero => Enough(hdr[s].semid, hdr[s].nblock)
ZeroOnlyOnce == (zero \/ semkey = Zero) => JustBooted

(* ... and as long as cleaners and creators keep out of each other's way,  *)
(* a creator works on the segment under the key, only that one's header    *)
(* has the set that there is, and a cleaner removes the set before the     *)
(* segment.  (The set with the id 0 is not removed.)                       *)
OverlapSeen == Overlapping => overlap
Orderly ==
    ~overlap =>
        /\ \A c \in Creator : Creating(c) => seg[c] \in {None, key}
        /\ semkey # Zero => \A s \in Creator : hdr[s].semid = semkey => s = key
        /\ semkey # Zero => \A k \in Cleaner : pc[k] = "rmseg" => hdr[seg[k]].semid # semkey

IInv ==
    /\ TypeOK /\ PlacedCreators /\ PlacedOthers /\ Known
    /\ HeaderRight /\ SizeRight /\ HeaderEnough /\ OneSet /\ SetsRight /\ ZeroOnlyOnce
    /\ OverlapSeen /\ Orderly
=============================================================================
