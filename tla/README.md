# hashpipe in TLA+

hashpipe runs a pipeline of threads, connected by ring buffers in shared memory
("databufs"), and publishes its state in a shared table of 80-byte records (the
"status buffer").  Segments and semaphores are System V and POSIX objects that
outlive the process, and other processes (command line tools, other pipelines of
the same instance) use them at the same time.  Nearly everything that is hard in
the code follows from that: several actors, no common lock, and state that stays
behind.

This directory holds TLA+ models of the parts whose correctness depends on
interleavings, failures and what survives them, the TLC configurations that check
them, and TLAPS proofs of the properties that matter most.

## The system

| part | source | state it keeps | operations |
|---|---|---|---|
| databuf protocol | `hashpipe_databuf.c` | one semaphore per block (0 free, 1 filled) | wait_free, wait_filled (with timeout, or busy), set_free, set_filled, clear, status queries |
| databuf segments | `hashpipe_databuf.c`, `hashpipe_clean_shmem.c`, `hashpipe_ipckey.c` | IPC key, segment, header (sizes, shmid, semid), semaphore set | create, attach, detach, clean up |
| pipeline threads | `null_output_thread.c`, plugins | a block index per databuf and thread | wait for a block, use it, set it to the other state, step the index |
| main and thread life cycle | `hashpipe.c`, `hashpipe_thread.c`, `hashpipe_thread_args.c` | run flag, arguments of each thread, its cancellation handlers, finished flag | init, start, run, cancel, signal, join; attach and detach on the way |
| status lock | `hashpipe_status.c`, `hashpipe_status.h` | a named semaphore | lock, busy lock, unlock, the `_safe` macros |
| status records | `hput.c`, `hget.c`, `hashpipe_status.c` | 2304 records of 80 bytes, the last one END | hputs and its kin, hgets and its kin, hputcom, hdel, hadd, hchange, chkinit, clear |
| tools | `hashpipe_check_status.c`, `hashpipe_clean_shmem.c`, `hashpipe_check_databuf.c`, `hashpipe_dump_databuf.c`, `hashpipe_write_databuf.c` | none of their own | clients of the above |
| packet sockets | `hashpipe_pktsock.c` | ring of frames shared with the kernel, index of the next one | open, recv_frame (blocking or not), recv_udp_frame, release, stats, close |
| InfiniBand verbs | `hashpipe_ibverbs.c` | the driver's objects and the buffers of a context, the lists its work requests are in, flow rules and their multicast groups | init, shutdown, flow, recv_pkts, release_pkts, get_pkts, send_pkts |
| UDP sockets, errors | `hashpipe_udp.c`, `hashpipe_error.c` | none | open a socket; print |

How they interact:

* main() runs the init of every thread, one after the other: each attaches to the
  status buffer, stores "init" under the thread's status key, creates the databufs
  of the thread (which clears their semaphores, also when they existed) and detaches
  again.  Then it starts the threads, waits until the run flag is cleared, cancels,
  signals and joins them.
* each thread attaches to what it needs, pushes a cancellation handler for all it
  has to undo, and calls the run function of its plugin.
* neighbouring threads share a databuf and meet only in its semaphores; their
  indices are private and are never compared.
* all threads, and tools in other processes, store into the status buffer under
  one named semaphore.  Cancellation points lie inside the lock call.
* `hashpipe_clean_shmem` removes segments and semaphore sets, whoever uses them.

What is hard, and what makes each part correct:

* *databufs*: SETVAL overwrites, so nothing but the order of calls keeps a writer
  from a block its reader still has.  Correct: no block is used by both sides, the
  filled blocks are the ones between the two indices, the databuf is a FIFO queue,
  timeouts and interruptions neither lose nor repeat a block, a new process starts
  clean, a chain of databufs does not deadlock.
* *segments*: a create is a dozen system calls, any other process may act between two
  of them, and any call may fail or be the last.  Correct: processes that get the databuf agree on its sizes
  and its semaphores, and a clean-up removes it.
* *threads*: a cancellation may come anywhere; attaches fail half way up.  Correct:
  everything attached is detached, nothing is used that is not attached, the process
  ends once it is told to.
* *status lock*: holders are killed, waiters are cancelled.  Correct: mutual
  exclusion, no lost record, and the lock is always released.
* *status records*: a record is written in several steps, and a delete moves all that
  follow; a holder may be killed between any two.  Correct: the records are a map from keywords to
  values, END is always there for the next caller, nobody's record suffers from another's call.
* *packet sockets*: library and kernel walk one ring with an index each; the plugin keeps
  frames and releases them in any order.  Correct: packets come in order, each once, a frame in use is left
  alone, and a wait ends with a frame when there is one.
* *verbs*: init asks the driver for two dozen things, any of which it may refuse; work requests
  go round between user, library and NIC, and a call may fail half way through a list.  Correct:
  what init got is given back once and in order, rules and multicast groups are the ones asked for,
  no packet is lost or in two places, no completion waits without a notification.

`PROJECT.json` lists every component with its status, and every hazard with the line
where it bites and the properties that would catch it.

## Modules

| module | models | state and actions |
|---|---|---|
| `Databuf` | the semaphore protocol of one databuf | operators on the semaphore array, one for each C function; the ring arithmetic |
| `BlockFifo` | abstract: what databufs promise | a bounded queue for each databuf: `Put`, `Get`, `Flush` |
| `Pipeline` | a chain of threads over databufs, processes started one after the other | `sem`, `block`: the shared memory; `pc`, `iblk`, `oblk`: the threads; an action for each step of the main loop, plus `Signal`, `Cancel`, `Kill`, `Restart` |
| `StatusLock` | the lock of the status buffer and its users | `value` of the semaphore; actors that lock, search, store and unlock; `Cancel`, `Cancelled`, `Killed` |
| `ThreadLife` | main() and hashpipe_thread_run() | `run`, `mpc`, `idx`: main; `pc`, `depth`, `att`, ...: the threads; an action for each step between two points where another thread or a cancellation can come in |
| `DatabufShm` | create, attach and clean_shmem on one databuf | `key`, `semkey`, `nsem`: the kernel; `hdr`: the shared header; `pc`, `seg`, `got`, ...: the processes; an action for each system call and for each store into the header |
| `DatabufShmMC` | `DatabufShm` for TLC | the symmetry of the creators |
| `StatusMap` | abstract: what users of the status buffer see | a map from keywords to values, the number of COMMENT lines; calls take effect as a whole, or are cut short by a death |
| `StatusBuf` | the records of the status buffer, written record by record | `buf`: the shared memory; `lock`; `pc`, `op`, `at`, ...: the call under way; an action for each write of a C function, plus `Kill` and `ForceUnlock` |
| `Pktsock` | a packet socket and the kernel's side of its ring | `status`, `packet`, `filling`, `head`: the kernel; `next_idx`, `pc`, `held`: library and plugin; an action for each look at shared memory and each system call |
| `IbvContext` | a verbs context: what it has and what it points to | `exists`, `field`: objects; `pc`, `step`: init or shutdown; an action for each object got or released, with its failure |
| `IbvFlow` | flow rules and multicast groups | `flow_dst_ips`, `member`; `fpc`, ...: hashpipe_ibv_flow(), queue pair by queue pair |
| `IbvPackets` | work requests between user, library and NIC | the lists of user and library, the queues of each queue pair, armed notifications; an action for each call of the driver |
| `Ibv` | the three of them as one context | the steps of init and shutdown change rules and packets, too |
| `DatabufProofs`, `PipelineProofs`, `StatusLockProofs`, `ThreadLifeProofs`, `DatabufShmProofs`, `StatusBufProofs`, `PktsockProofs`, `IbvProofs` | | theorems and proofs |

The names of actions follow the code; `PROJECT.json` ("map") gives the lines each
definition stands for.  Operators commented "Mutant" are deliberate errors; no
specification uses them: put in place of the definition they vary, each breaks the
property it is listed with, so that every property is known to say something about the code.

### Pipeline

Thread 1 is a source, the last thread is `null_output_thread` (whose loop is in the
repository, and is what `Enter`, `WaitFilled`, `AfterWait`, `MarkFree` and `Leave`
translate), the threads between are filters.  Plugins are not in the repository;
they are modelled as following the protocol that `hashpipe_databuf.h` describes and
`null_output_thread` follows, and marked external in the map.  `semop()` is atomic,
so a wait that succeeds, a timeout (250 ms, EAGAIN) and a failure (`HASHPIPE_ERR_SYS`) are
one step each.  A timeout is possible whenever a wait would sleep, a failure at any time: EINTR comes of
every stop and continue of the process, EIDRM and EINVAL of a clean-up that has removed the set.  A thread whose
wait failed calls `pthread_exit()` and leaves the run flag alone, so that a process may go on without one of its threads
(`LostThread`): nothing is delivered any more, and nobody is told.  `Delivered` names this as its exception.

Items are numbered by the source.  `last[s]`, the last item thread s finished, is a
history variable that tells loss, repetition and reordering apart.

`Kill` ends all threads between any two steps; `Restart` is a new process that finds
the old segments, clears the semaphores and leaves the data of the blocks alone.

Only one process at a time uses the databufs here: a process that clears the
databuf under the threads of another one is not modelled (hazard at
`hashpipe_databuf.c:173`).

### StatusLock

A store is two steps, a search and a write, so that two unlocked stores lose a record.
`hashpipe_status_unlock()` is two steps, `sem_getvalue()` and `sem_post()`.
A cancelled thread acts in `sem_wait()`, where the handler that
`hashpipe_status_lock_safe` has already pushed unlocks a semaphore it does not hold.

### ThreadLife

The handlers of a thread are lexically nested, so that the number of handlers pushed
(`depth`) tells which they are.  What the loop waits for is left to `Pipeline`, the
status lock to `StatusLock`: here a wait may end, and the lock may be had, at any
time.  `hashpipe_status_attach()` has three results: success, failure, and a key error, for which it returns 0, which is
HASHPIPE_OK, though `hashpipe_status.h` promises non-zero on error.  The caller then goes on with no buffer and no
lock (`nokey`); the first use of them in its run function is the end of the process (`LockStatus`, "crashed").  The handler that should store "exit" is registered with the address of the
wrong object (`hashpipe.c:197`); what it then does depends on the memory behind the
status descriptor, which on x86-64 is the owner word of the next thread's mutex: nothing when that is 0, an access through
a wild pointer (`WildExit`, "crashed") when the next thread is just setting its finished flag.

### DatabufShm

Kernel objects are named after the creator that made them; the id 0 is kept apart,
because the code uses it for "none", and it is also what a header holds that nobody
has filled.  `JustBooted` says that the kernel's next set gets this id, `ForeignZero` that somebody else has the set with
this id and lets everybody use it; a user of a databuf whose header is still empty then waits on the foreign set, gets
through, and takes its block index modulo an n_block of 0.  A removed segment exists until its last process detaches; a removed set is gone at
once, and waits on it fail.  Error paths of the code lead to the end of the process,
as they do in main() and the tools.  `overlap` is a history variable: a clean-up ran
while a create was under way.

Of the sizes only n_block is kept, since a create compares all of them in the same
place.  What semaphores hold is not part of this module.

### StatusBuf

A keyword stands for everything that `ksearch()` takes for it: any case, whatever comes
after 8 characters.  A number is stored like the text it is formatted to, so that `hputi4()` and the others are
`hputc()` with a value.  Which actor holds the lock does not matter to the records; that one at a
time has it is `StatusLock`'s business, and `lock` here is free, held, or held by a process that died.
`hashpipe_clean_shmem` (`ForceUnlock`) is taken to be run for what its comment says it is for: a lock
whose holder is gone, with nobody else attached who would go on with the old semaphore.  `health` is a history variable for
what the properties cannot promise: a death in the middle of a shift leaves a record twice ("doubled"), one
between the memset() of a clear and the new END leaves no END ("endless"), and so do writes behind the
segment and a comment for which a long value leaves no room: `hputc()`, which keeps the comment of the record, and `hputcom()` behind 65 characters
compute a negative length, `strncpy()` takes that for a huge one, and zeros fill the rest of the segment and what lies behind (`KeepCommentOut`, `SetCommentOut`).  What is overwritten behind the
segment is not modelled, nor what is left of the record that `strncpy()` hits first: it counts as gone.  Behind 64
characters `hputcom()` writes the separator of the comment and no comment, behind more than 65 nothing.  A search that finds no zero byte reads on behind the
segment, up to 256000 bytes from its start (`hget.c:1411`): that is a SIGSEGV, a `Kill`, or finds memory that holds no keyword.  `hashpipe_find_end()`
looks at three characters only, so that it takes a keyword such as ENDTIME for END (`EndLike`).

The refinement maps the buffer to what its users see while nobody is in it, and a call under way to what they
saw before it: all of it takes effect at `Unlock`, and a death leaves the record it was at unfinished.

### Pktsock

The kernel gives frames to packets in turn, several CPUs may fill them in any order, and `poll()`
looks at the frame that was given away last: these are external, from `tpacket_rcv()` and `packet_poll()` as the
library uses them.  The plugin may hold frames and release them in any order, as the header allows.  A frame it has not released still says
"user", and the library looks at nothing else: when the ring comes round to it, the frame is handed out once more (`again`), and
`recv_udp_frame` releases it if its packet does not match, while the plugin still uses it.  From then on library and kernel no longer agree on the frame that is
next.  `lapped` is history: the frames that were handed out while they were held, since the socket was opened; what depends on the order of frames is
claimed as long as there are none (`InTurn`), and that a held frame is left alone, always, frame by frame, for those not in `lapped`.  The reasons for a NULL (`null`) are history: "ready" when `poll()`
found data, nothing was held and nothing was being filled, so that data can only be the next frame.

### IbvContext, IbvFlow, IbvPackets, Ibv

`exists` is what there is, `field` what the context points to; leaks are the first without the second, double
releases the second without the first.  `Needs` says what the driver refuses to release while it is used, from the
documentation of libibverbs (external).  Rules and groups live in `IbvFlow`; a group is joined once through one
socket, whatever the number of queue pairs, and the kernel refuses to join it twice.  In `IbvPackets`, `rx` and `tx`
are the receive and the send side: the links of the work requests (`next`, for `wr.next`), the queues, and the first packets of the
lists that library and user have in hands.  A list is what its links say: `Along` follows them from its first packet, `List` gives the packets up to
the one whose link is NULL, and the library changes lists only by links (`Linked`, as the code does it, the old link of the last packet of a
list that is being made included).  `ibv_post_recv()` and `ibv_post_send()` fail at any element, those
before it are the NIC's from then on.  The model assumes that one thread uses a context (the header says nothing of threads, and the
library has no lock), and that a user passes lists he got from the library.  `HPIBV_USE_MMAP_PKTBUFS` is on, as in the source; `HPIBV_USE_SEND_CC` is off.

## Runs

| run | question | bounds |
|---|---|---|
| `pipeline_chain` | exclusive blocks, window of filled blocks, order, refinement of `BlockFifo`, delivery, with waits that time out or fail | 3 threads, 2 databufs of 3 blocks, 5 items, 1 restart |
| `statuslock_exclusion` | exclusion, the value is 0 exactly while it is held, no lost record until a thread is cancelled; the lock is always released, cancelled or not, unless a tool died with it | 2 cancellable threads, 1 tool that may be killed |
| `statuslock_cancelled` | *violated*: mutual exclusion when a waiter is cancelled | 2 threads, 1 tool |
| `threads_life` | all is detached, only attached memory is used (but after a key error), finished is told, the process ends | a plugin with both databufs, and the null thread |
| `threads_exitstatus` | *violated*: "exit" is stored by a thread that ends through its handlers (here: its wait failed and it called `pthread_exit()`) | same |
| `shm_create` | creators agree on sizes, semaphores suffice and are not shared, an attached header is complete unless it led to a foreign set | 3 creators with n_block 1 or 2, 1 user, 1 clean-up, each may be killed; a foreign set with the id 0 |
| `shm_deleted` | *violated*: a clean-up deletes the segment it went through | 2 creators, 1 clean-up, nobody killed |
| `statusbuf_records` | END is kept, others' records are untouched, one record for a keyword, refinement of `StatusMap` | 4 records, INSTANCE and one more keyword that begins with END, a short and a long value |
| `statusbuf_full` | *violated*: nothing is written behind the segment | 2 records |
| `pktsock_ring` | refinement of `BlockFifo`, held frames are intact, NULL only with a reason, counters agree, every packet is received | 3 frames, 4 packets, 2 calls of open, no frame handed out a third time while held |
| `ibv_use` | nothing leaks but the buffers of the second queue pair, nothing is released twice, rules and groups are the ones asked for, packets are in one place, completions are noticed | 2 queue pairs, 2 rules, 1 group, 2 packets each way per queue pair, 1 failure, 3 calls of init and shutdown |
| `ibv_leak` | *violated*: a shutdown leaves nothing | 2 queue pairs, no failure, 1 init and 1 shutdown |

Why the bounds are enough.  In `pipeline_chain` the rings have 3 blocks, so that empty,
full, and partly filled windows that wrap all occur; 5 items are more than a ring
holds, so that the source meets a full ring and the indices wrap; three threads
are the smallest chain with a filter, which holds blocks of two databufs at once.  The
restart comes after any prefix of a first process.  The safety properties are proved
for all values besides.  In `StatusLock` two threads and two tools are enough for a
holder, a waiter, a canceller's victim and a third that is let in.  In `ThreadLife`
two threads are enough for one to be in the way of the other's wild pointer, and to
return while the other waits.  In `DatabufShm` three creators are enough for one that
left something behind, one that found it, and one that comes after the clean-up.  In
`StatusBuf` four records hold INSTANCE, another keyword, a COMMENT or blank line and END, so that records move
up and down past others, blank ones lie before END, and the buffer gets full.  `MaxClean` bounds how
often a lock is replaced without a good buffer in between.  In `Pktsock` three frames are the
fewest of which one is held, one is being filled and one is ready, and four packets make the ring wrap; the
second open finds what the first left; a frame handed out twice can be released by the call or by the plugin while the other use goes on, a third time adds nothing.  In `Ibv` two queue pairs are the fewest for loops that stop
half way, two rules for two that share a group or take each other's place in `ibv_flows`, and three calls of
init and shutdown for a second shutdown or a second init.  `MaxFail` is the number of calls that fail,
`MaxGotten` the number of lists a user gets before he sends them, `WC_BATCH_SIZE` is 1 so that queues are longer than a batch.
`focus` chooses, at the start of a behaviour, which of rules, receiving and sending it is about: they share the context and
nothing else, and interleaving them only multiplies states.

`CHECK_DEADLOCK FALSE` is set where the system stops by design: all restarts used,
all processes ended, a lock whose holder was killed and that is not replaced again, a socket closed for the last
time.

### Fairness

* `Pipeline`: weak fairness of each thread's steps.  The kernel schedules every
  runnable thread; a wait that can succeed does at the latest when it next
  times out and is retried.  Nothing obliges a signal, a kill, a cancellation of
  a running loop, a restart, the return of a plugin, or, while the run flag is set, the end of a thread by a failed wait
  (which the fairness condition therefore leaves out).
* `StatusLock`: weak fairness of each actor's steps once it has called lock; nobody is
  obliged to call lock, to cancel or to kill.  `sem_wait()` hands out no turns, so starvation
  of one actor is possible and no property denies it.
* `Pktsock`: weak fairness of the kernel's filling of frames it has given away, of the library's steps within a call, and
  of a plugin that goes on receiving and gives back each frame.  `Served` is claimed until a held frame is handed out again.  Nothing obliges packets to come, or `poll()` not to be
  interrupted: `Served` holds even if it always is.
* `IbvPackets` (`ReceiveFairness`): weak fairness of a user that goes on receiving and of the library's steps in that call; neither NIC nor
  sender has to do anything.
* `ThreadLife`: weak fairness of main() and of each thread.  A plugin is not obliged to
  return, a signal not obliged to come.

### What the violated properties show

Each is a statement of the repository that the code does not keep.

* `statuslock_cancelled`: `hashpipe_status_lock_safe` pushes the unlock handler before
  `sem_wait()`.  A thread cancelled in its wait posts the semaphore that another actor
  holds, and a third one gets in beside the holder.
* `threads_exitstatus`: the handler for the "exit" status gets `&args->st` in place of `args`.  In the run a thread's wait
  fails and it calls `pthread_exit()`; the handlers of a cancelled thread are the same.
* `shm_deleted`: a create whose SHM_LOCK is refused leaves a segment whose header is empty;
  `hashpipe_clean_shmem` takes the id of the segment from that header and does not delete it.
* `statusbuf_full`: the length `hputc()` compares with is computed from END itself, so a full buffer is not noticed and END is
  copied behind the segment.
* `ibv_leak`: init maps the packet buffers of all queue pairs, shutdown unmaps as much as one queue pair has and forgets the pointers; the header
  says that shutdown frees packet buffers.

Other properties hold only with an exception that the code makes necessary, and that the property names.  Each of these is a
weakness of the code, not of the model, in which the excepted case happens:

* `Delivered`: a wait that fails ends its thread and not the process (`LostThread`).
* `UsesAttached`: a thread that took a key error of `hashpipe_status_attach()` for success uses a buffer it never attached
  (`nokey`).  `hashpipe_status.h:50-53` says "Returns non-zero on error", `hashpipe_status.c:93-96` returns 0.
* `AttachedReady`: a header that is still empty names the set 0, and if there is one a wait on it gets through.  `SetsNotShared` besides speaks of
  clean-ups that overlap no create.
* `EndKept`, `OthersUntouched`, `IsMap`: a full buffer, or a comment for a value that is too long, is the end of END and of the records after it.
  `NamesUnique`: a caller killed in the middle of a shift leaves a record twice.
* `IsFifo`, `StatsAgree`, `Served`: until a frame is handed out while it is held; `HeldIntact`: for the frames that were not.
* `NullExplained`: not explained are the NULLs of a `poll()` that is interrupted, or that reports data while frames are held or being filled: then
  the data need not be at the next frame, and `recv_frame` returns NULL although it was asked to wait.
* `OnlyBuffersLeft`: the leak of `ibv_leak`.  `ReleasedRight`: a second shutdown closes the multicast socket again.
* `RulesKnown`, `MembershipKnown`: after a failed call of `hashpipe_ibv_flow()` rules may be lost or a null pointer followed; they speak of
  contexts without one.
* `Exclusive`, `ValueTells`, `NoLostRecord`: until a thread is being cancelled (`statuslock_cancelled`).

`clear_run_threads()` is also skipped by two early `goto done` of `hashpipe_thread_run()`, although the comment at its call says that it is for threads
that were not run, too: `ThreadLife` has these ways (`SetAffinity`, `AttachStatus`), and no property is stated about them.

## Proofs

TLAPS proves, for every value of the constants that satisfies the assumptions
named in the modules (at least two threads, at least one block, and the like):

| theorem | what it says |
|---|---|
| `PipelineProofs!TypeCorrect`, `Exclusion`, `WindowKept` | invariants of the chain: types, exclusive blocks, filled blocks are a window |
| `PipelineProofs!Untouched`, `Ordered` | action properties: a filled block keeps its contents; every thread finishes every item once and in order |
| `PipelineProofs!Refinement` | `Pipeline` implements `BlockFifo` under the mapping `Queue` |
| `StatusLockProofs!TypeCorrect`, `Exclusion`, `ValueRight`, `RecordsKept` | types; until a thread is being cancelled: mutual exclusion, the value is 0 exactly while somebody holds it, no lost record |
| `ThreadLifeProofs!TypeCorrect`, `Undone`, `AttachedWhileUsed`, `Told` | types, all is detached, only attached memory is used (but after a key error), finished is told |
| `DatabufShmProofs!TypeCorrect`, `SameSizes`, `LargeEnough` | types; creators of one segment agree on its sizes; their set has a semaphore for every block, or is gone |
| `DatabufShmProofs!ReadyWhenAttached` | a header that somebody got a wait through is complete, or still empty and the wait was on a set with the id 0 |
| `DatabufShmProofs!NotShared` | if no set of this databuf gets the id 0: sets are not shared by two segments |
| `StatusBufProofs!TypeCorrect`, `EndThere` | types; END can be found at every moment until it is overrun or a caller dies in a clear |
| `StatusBufProofs!OthersRead`, `UniqueNames` | a call on one keyword disturbs no other, at none of its writes; no keyword has two records |
| `StatusBufProofs!Refinement` | `StatusBuf` implements `StatusMap` under the mapping `IsMap` |
| `PktsockProofs!TypeCorrect`, `Explained`, `Intact` | types; data that poll() reports at the next frame is found; a frame the plugin got once stays its own until it releases it |
| `PktsockProofs!CountersAgree` | until a held frame is handed out again, what stats said and will say adds up with what was received and what is in the ring |
| `PktsockProofs!Refinement` | `Pktsock` implements `BlockFifo` under the mapping `Queue` |
| `IbvProofs!ReleasedOnce`, `AllReleased` | nothing is released twice or too early; a failed init or a shutdown leaves nothing but the packet buffers of the queue pairs after the first |
| `IbvProofs!RulesAsAsked`, `GroupsAsAsked` | while no call fails, rules and groups are the ones asked for |
| `IbvProofs!TypeCorrect` | types of objects, rules, queues and links; a send queue never holds more than it has room for |
| `IbvProofs!PacketsInOnePlace` | every packet is in one place, in the middle of calls, too, a received one comes back to its queue pair, and only a call that fails loses one |

*Pipeline.*  Exclusion alone is not inductive: that the writer does not write the block its
reader has follows from where the two are in the ring.  `IInv` adds: the filled blocks
are the ones from the reader's index to the writer's (`FilledWindow`); a thread that uses a
block found it in the state it waited for and nobody else changes that (`Holding`); what
the filled blocks hold, counted from the last item their reader finished
(`Numbering`), with a correction for a filter that has marked its output filled and not yet its
input free (`Copied`); and what a thread has written and not yet marked (`Written`).  The
facts about one ring, that filling extends the window by one block and freeing
shrinks it by one, are lemmas of `DatabufProofs`.  The refinement maps `MarkFilled` to `Put`,
`MarkFree` to `Get`, `Restart` to `Flush` and all other steps to stutters.

*StatusLock.*  The invariant ties the value of the semaphore to the holder: it is 1 or there is exactly one
holder, who may be dead.  All of it is claimed until a thread is being cancelled; the run
`statuslock_cancelled` shows that this cannot be dropped.

*ThreadLife.*  `IInv` has a part for each thread: the place it is at tells how many handlers it
has pushed (`HandlersPushed`), each attachment has a handler left that undoes it
(`AttachedCovered`), what it is about to use is attached (`AttachedInTime`), and the finished flag is set
once its handler is gone (`FinishedInTime`).  `MainInTime` says that main() starts each
thread once and that its loops stay within args[].  One lemma covers all steps that
only move a thread, one each the steps that push, pop, attach or detach.

*Pktsock.*  What keeps the kernel off a frame that is held, and what makes the second look at a
frame find a packet, is where the unread frames are: `UnreadWindow` says they are a
window of the ring from `next_idx` to the kernel's `head`, as the filled blocks of a
databuf are, so the lemmas of `DatabufProofs` are used again, for the frames.  The rest of `IInv` bounds the
counters (`Counted`), says who owns the frames that are held and being filled (`Owned`), relates
calls and the state of the socket (`Placed`), and says what a null answer leaves behind (`Found`).
In the refinement the queue is what the frames of the window hold: `Arrive` is `Put`, `TakeFrame` is `Get`, a ring that is
forgotten (`OpenFails`, `Close`) is `Flush`, and all other steps of kernel and plugin stutter.

*DatabufShm.*  That creators agree on sizes rests on what others may find in a header: it is as the kernel
gave it, or was filled by its maker, once, after everybody else was kept waiting by `verify` (`HeaderRight`, `SizeRight`).
Sets need a history: there is no set but the one under the key and none comes back once it is removed (`OneSet`),
and whoever got a set got one with enough semaphores (`SetsRight`).  As long as no clean-up overlaps
a create, a creator works on the segment under the key, only its header has the set there is, and a cleaner has
removed the set before the segment (`Orderly`).  `ReadyWhenAttached` makes no assumption; `NotShared` assumes `~JustBooted`, that the kernel's
first set, with the id 0, went to somebody else, as it does on all hosts but one on which
nothing else used semaphores since the boot.  The assumption is needed: `hashpipe_clean_shmem` takes 0 for none and leaves the set, which the next create
finds and shares with a user that is still attached to the old segment.

*StatusBuf.*  What the searches return, the first record of a kind, is shown with the least-element principle of the natural numbers;
`StatusBufProofs` is otherwise cases, one lemma for each write of each C function.  The shape of the buffer is an invariant of
its own (`ShapeRight`): records in use, then END, then only ENDs and zeros; each place in a call says how
far END is from where it works.  For what the records say, a call has one record in its hands
(which `Rest` leaves out: the one it fills, or the one that a shift has just doubled), and the other
records have, for every keyword, at most one record (`Alone`) and read as in `Base`, the contents before the call, or nothing once a
clear has begun (`OthersRight`).  `Stored` says how far the call is with its own keyword, `Counted` the same for
COMMENT lines.  The refinement needs no more: at `Unlock` the call has had its whole effect or none; after a death
the records it left read as if it had, or had not, or as if the keyword it worked on were gone (the three outcomes that `StatusMap`
allows); every other step stutters, because what the users see is `before` as long as a call is under way.
These theorems are about any number of records, all keywords and values; `N` is a constant and no record is ever counted out.

*Ibv.*  `Teardown` is shown to be sorted by `Rank`, and whatever the driver needs to go first has the lower rank
(`NeedsRank`), so that nothing that is left when something is released still uses it.  What is left is in `ExistsRight`: without a
mishap there is nothing but the leftover and what the context points to and shutdown has not gone through yet; in any case the context points to
nothing that is gone (`PointsRight`).  For the rules, `SettledRight` speaks of those that no call has in hands, and
`CallRight` says how far the call is with the other one: queue pair by queue pair, its group left and not yet joined, or
joined.  That no two rules have one group is part of it, since dropping one of them would leave the group of both.  The steps for packets do
not touch any of this.

*The packets of Ibv.*  That a packet is in one place is not inductive, since where it is depends on links that any call may
overwrite.  `PacketsRight` (in `IbvPackets`) adds that each list ends and is the one its links say (`IsListOf`), that the list being made is one as soon as its
tail is given NULL for its old link (`RxRight`), that the lists a user received, and the one being made, are of one queue pair each (`Home`), and that a call for
send packets has asked for one at least, without which `pop_send_packets()` would cut before the first.  The proof never walks a list:
the first lemmas of `IbvProofs`, about any links and any packets, say that a sequence of different packets, each linked to the next
and the last to NULL, is `List` of its first (`ListOfChain`), that writing links outside a list leaves it as it was, and
what a list becomes that is cut in two, put behind another, or turned round onto it.  A call then takes a sequence out of one place and
puts it in another; that all places stay apart, and together hold all packets when none is dropped, follows from what is moved from where to where,
with one lemma for each kind of call.  `TypeOK` needs all of this: the room of a send queue, and that what is
posted are packets, follow from the length and the contents of a list.  TLC checked `PacketsRight` on the instance of `ibv_use`
first; there a batch is a single completion, while the theorems are about batches of any size (`WC_BATCH_SIZE`), which link several packets
to a list at once.

Only model-checked: the liveness properties (`Delivered`, `NotLeftLocked`, `Shutdown`, `Served`,
`Received`), since fairness and ENABLED are beyond the prover.  Every other property of a run that holds is stated by a theorem.

## Not modelled

* The command line, plugin loading, privileges and CPU masks of `hashpipe.c`: sequential set-up.
* The content and format of messages, and output of the tools.
* Memory ordering below the level of a store: models interleave stores of the shared
  header and of the run flag as the program orders them.
* `hashpipe_udp.c` and `hashpipe_error.c`: no state.
* Conversions of numbers, dates and angles from and to text in `hget.c` and `hput.c`, and `hgetm()`, `hputm()`, for values longer than
  a record: nothing in the repository calls the latter, the former have no state.
* Two processes on one databuf, and two semaphores over one status buffer after a clean-up that hits a living holder: the
  code promises nothing there (hazards without a property).
* An argument block for thread 1025 (`hashpipe.c:370`); a databuf whose own set or segment gets the id 0, which `hashpipe_clean_shmem` takes for none
  (`JustBooted`: in `DatabufShm`, but left out of its run); `hashpipe_thread_finished()` and its timed wait, which has no caller.
* The copies of blocks between databufs and files in the tools.  `hashpipe_check_databuf` passes the arguments of create in a wrong order
  (`hashpipe_check_databuf.c:110`), so that its create fails at the test of the header size and creates nothing.
* The removal of the status segment by `hashpipe_clean_shmem -d`, after which processes still attached and processes to come use different buffers.
* `hashpipe_databuf_total_mask()`, which shifts an int and is undefined for the blocks from 31 on.
* A second thread that uses a verbs context.

## Plan

Done, in this order: `Databuf`, `BlockFifo`, `Pipeline` and their proofs; `StatusLock` and its
proofs; `ThreadLife` and its proofs; `DatabufShm`; `StatusMap` and `StatusBuf`; `Pktsock` and its proofs, with the
refinement; `IbvContext`, `IbvFlow`, `IbvPackets`, `Ibv`; the proofs about `DatabufShm`, `StatusBuf`, the context and rules of `Ibv`, and its
packets.

Should the models grow: `total_mask` against its definition at the width of int; `DatabufShm` with
`Pipeline`, for a second process that creates a databuf in use.
