------------------------------ MODULE Pipeline ------------------------------
(***************************************************************************)
(* The data plane of a hashpipe process: NStage threads in a chain, with   *)
(* databuf d between thread d, which fills it, and thread d + 1, which     *)
(* empties it.  The last thread is null_output_thread, whose main loop is  *)
(* in the repository; the others are plugins, which follow the protocol    *)
(* hashpipe_databuf.h describes: wait for a block, use it, set it to the   *)
(* other state, go on to the next block of the ring.                       *)
(*                                                                         *)
(* The segments and semaphores outlive the process.  A process may be      *)
(* stopped (SIGINT, a thread that returns) or killed, and a new one may be *)
(* started on what it left: hashpipe_databuf_create() attaches to the      *)
(* existing segments and sets every semaphore to 0.                        *)
(*                                                                         *)
(* Items are numbered as the first thread writes them, so that last[s],    *)
(* the number of the last item thread s finished, tells loss, duplication  *)
(* and reordering apart.  It is a history variable: nothing reads it but   *)
(* the numbering itself.                                                   *)
(***************************************************************************)
EXTENDS Databuf, Sequences

CONSTANTS NStage,      \* threads in the chain
          MaxItem,     \* bound: items the first thread produces
          MaxBoot      \* bound: processes started one after the other

ASSUME PipelineAssumption ==
    /\ NStage \in Nat /\ NStage >= 2
    /\ MaxItem \in Nat
    /\ MaxBoot \in Nat

VARIABLES sem,      \* sem[d][b]: semaphore of block b of databuf d
          block,    \* block[d][b]: item in the memory of that block
          pc,       \* pc[s]: where thread s is in its main loop
          iblk,     \* iblk[s]: block_idx of thread s in its input databuf
          oblk,     \* oblk[s]: block_idx of thread s in its output databuf
          run,      \* run_threads()
          last,     \* last[s]: last item thread s finished
          boot      \* processes started so far

vars == <<sem, block, pc, iblk, oblk, run, last, boot>>

Stage == 1 .. NStage
Ring  == 1 .. NStage - 1
Sink  == NStage                 \* null_output_thread
HasIn(s)  == s > 1
HasOut(s) == s < NStage

Item == 0 .. MaxItem            \* 0: what memset() leaves in a new segment

PC == {"top", "wait_filled", "wait_free", "process", "set_filled", "set_free", "exited"}

TypeOK ==
    /\ sem   \in [Ring -> [Block -> {0, 1}]]
    /\ block \in [Ring -> [Block -> Item]]
    /\ pc    \in [Stage -> PC]
    /\ iblk  \in [Stage -> Block]
    /\ oblk  \in [Stage -> Block]
    /\ run   \in BOOLEAN
    /\ last  \in [Stage -> Item]
    /\ boot  \in 0 .. MaxBoot

-----------------------------------------------------------------------------
Init ==
    /\ sem   = [d \in Ring |-> AllFree]
    /\ block = [d \in Ring |-> [b \in Block |-> 0]]
    /\ pc    = [s \in Stage |-> "top"]
    /\ iblk  = [s \in Stage |-> 0]
    /\ oblk  = [s \in Stage |-> 0]
    /\ run   = TRUE
    /\ last  = [s \in Stage |-> 0]
    /\ boot  = 0

Goto(s, l) == pc' = [pc EXCEPT ![s] = l]

(* while (run_threads()): the thread goes round its loop once more.        *)
Enter(s) ==
    /\ pc[s] = "top"
    /\ run
    /\ Goto(s, IF HasIn(s) THEN "wait_filled" ELSE "wait_free")
    /\ UNCHANGED <<sem, block, iblk, oblk, run, last, boot>>

(* The loop ends, or pthread_testcancel() at its end acts.                 *)
Leave(s) ==
    /\ pc[s] = "top"
    /\ ~run
    /\ Goto(s, "exited")
    /\ UNCHANGED <<sem, block, iblk, oblk, run, last, boot>>

(* A plugin's run function returns of its own accord, at the top of its    *)
(* loop; hashpipe_thread_run() then clears the run flag for all.           *)
Return(s) ==
    /\ s # Sink
    /\ pc[s] = "top"
    /\ run' = FALSE
    /\ Goto(s, "exited")
    /\ UNCHANGED <<sem, block, iblk, oblk, last, boot>>

(* Mutant: "if" for "while", so a timeout is taken for success.             *)
AfterWaitOnce(s, rv, next) == Goto(s, IF rv = "ERR_SYS" THEN "exited" ELSE next)

(* while (wait(db, block_idx) != OK) { if TIMEOUT continue else exit }     *)
(* The exit is pthread_exit(), from inside the run function: the run flag  *)
(* stays as it is, and with it the process and the other threads.          *)
AfterWait(s, rv, next) ==
    Goto(s, CASE rv = "OK"      -> next
              [] rv = "TIMEOUT" -> pc[s]
              [] rv = "ERR_SYS" -> "exited")

WaitFilled(s) ==
    /\ pc[s] = "wait_filled"
    /\ \E rv \in WaitFilledResults(sem[s-1], iblk[s]) :
          AfterWait(s, rv, IF HasOut(s) THEN "wait_free" ELSE "set_free")
    /\ UNCHANGED <<sem, block, iblk, oblk, run, last, boot>>

WaitFree(s) ==
    /\ pc[s] = "wait_free"
    /\ \E rv \in WaitFreeResults(sem[s], oblk[s]) :
          AfterWait(s, rv, "process")
    /\ UNCHANGED <<sem, block, iblk, oblk, run, last, boot>>

(* The thread fills its output block: the first one with a new item, a     *)
(* filter with what it makes of its input block.                           *)
Process(s) ==
    /\ pc[s] = "process"
    /\ \E i \in IF HasIn(s) THEN {block[s-1][iblk[s]]} ELSE {last[s] + 1} \cap Item :
          block' = [block EXCEPT ![s][oblk[s]] = i]
    /\ Goto(s, "set_filled")
    /\ UNCHANGED <<sem, iblk, oblk, run, last, boot>>

(* Mutant: the output index is not stepped.                                *)
MarkFilledInPlace(s) ==
    /\ pc[s] = "set_filled"
    /\ sem'  = [sem EXCEPT ![s] = SetFilled(@, oblk[s])]
    /\ last' = [last EXCEPT ![s] = block[s][oblk[s]]]
    /\ Goto(s, IF HasIn(s) THEN "set_free" ELSE "top")
    /\ UNCHANGED <<block, iblk, oblk, run, boot>>

(* hashpipe_databuf_set_filled() and the step to the next output block.    *)
MarkFilled(s) ==
    /\ pc[s] = "set_filled"
    /\ sem'  = [sem EXCEPT ![s] = SetFilled(@, oblk[s])]
    /\ last' = [last EXCEPT ![s] = block[s][oblk[s]]]
    /\ oblk' = [oblk EXCEPT ![s] = NextBlock(@)]
    /\ Goto(s, IF HasIn(s) THEN "set_free" ELSE "top")
    /\ UNCHANGED <<block, iblk, run, boot>>

(* Mutant: the input index is not stepped.                                 *)
MarkFreeInPlace(s) ==
    /\ pc[s] = "set_free"
    /\ sem'  = [sem EXCEPT ![s-1] = SetFree(@, iblk[s])]
    /\ last' = IF s = Sink THEN [last EXCEPT ![s] = block[s-1][iblk[s]]] ELSE last
    /\ Goto(s, "top")
    /\ UNCHANGED <<block, iblk, oblk, run, boot>>

(* hashpipe_databuf_set_free() and the step to the next input block.  The  *)
(* sink has finished the item here.                                        *)
MarkFree(s) ==
    /\ pc[s] = "set_free"
    /\ sem'  = [sem EXCEPT ![s-1] = SetFree(@, iblk[s])]
    /\ last' = IF s = Sink THEN [last EXCEPT ![s] = block[s-1][iblk[s]]] ELSE last
    /\ iblk' = [iblk EXCEPT ![s] = NextBlock(@)]
    /\ Goto(s, "top")
    /\ UNCHANGED <<block, oblk, run, boot>>

(* main() has cancelled the thread, and it reaches a cancellation point:   *)
(* the status buffer lock it takes before, between and after its waits.    *)
(* The null thread takes it while it holds a filled block, too.            *)
Cancel(s) ==
    /\ ~run
    /\ \/ pc[s] \in {"wait_filled", "wait_free", "process"}
       \/ s = Sink /\ pc[s] = "set_free"
    /\ Goto(s, "exited")
    /\ UNCHANGED <<sem, block, iblk, oblk, run, last, boot>>

ThreadStep(s) ==
    \/ Enter(s) \/ Leave(s) \/ WaitFilled(s) \/ WaitFree(s) \/ Process(s)
    \/ MarkFilled(s) \/ MarkFree(s) \/ Cancel(s)

-----------------------------------------------------------------------------
(* cc(), the handler of SIGINT and SIGTERM.                                *)
Signal ==
    /\ run
    /\ run' = FALSE
    /\ UNCHANGED <<sem, block, pc, iblk, oblk, last, boot>>

(* The process is killed between any two steps.                            *)
Kill ==
    /\ \E s \in Stage : pc[s] # "exited"
    /\ pc' = [s \in Stage |-> "exited"]
    /\ run' = FALSE
    /\ UNCHANGED <<sem, block, iblk, oblk, last, boot>>

(* Mutant: databufs that exist keep their semaphores.                      *)
RestartUncleared ==
    /\ ~run /\ \A s \in Stage : pc[s] = "exited"
    /\ boot < MaxBoot
    /\ boot' = boot + 1
    /\ pc'   = [s \in Stage |-> "top"]
    /\ iblk' = [s \in Stage |-> 0]
    /\ oblk' = [s \in Stage |-> 0]
    /\ run'  = TRUE
    /\ last' = [s \in Stage |-> last[1]]
    /\ UNCHANGED <<sem, block>>

(* The old process is gone: while the run flag is set, main() stays in its *)
(* loop however many threads have ended.  In a new one every               *)
(* hashpipe_thread_init() runs, and with it hashpipe_databuf_create() on   *)
(* every databuf, before any thread starts.  The memory of the blocks is   *)
(* left as it is.  The items that were under way are lost, and the history *)
(* starts again at the newest one.                                         *)
Restart ==
    /\ ~run /\ \A s \in Stage : pc[s] = "exited"
    /\ boot < MaxBoot
    /\ boot' = boot + 1
    /\ sem'  = [d \in Ring |-> AllFree]
    /\ pc'   = [s \in Stage |-> "top"]
    /\ iblk' = [s \in Stage |-> 0]
    /\ oblk' = [s \in Stage |-> 0]
    /\ run'  = TRUE
    /\ last' = [s \in Stage |-> last[1]]
    /\ UNCHANGED block

Next ==
    \/ \E s \in Stage : ThreadStep(s) \/ Return(s)
    \/ Signal \/ Kill \/ Restart

Spec == Init /\ [][Next]_vars

(* The operating system runs every thread that can run.  Nothing obliges a *)
(* signal, a kill, a restart or a plugin's return to happen, nor a wait to *)
(* fail: that is how a thread ends while the run flag is set.              *)
Fairness ==
    \A s \in Stage : WF_vars(ThreadStep(s) /\ ~(run /\ pc'[s] = "exited"))

FairSpec == Spec /\ Fairness

-----------------------------------------------------------------------------
(* Which block a thread may be touching.                                   *)
Writing(s) == HasOut(s) /\ pc[s] \in {"process", "set_filled"}
Reading(s) == HasIn(s) /\ pc[s] \in {"wait_free", "process", "set_filled", "set_free"}

(* The number of filled blocks of databuf d.                               *)
Depth(d) == DepthOf(sem[d], iblk[d+1], oblk[d])

(* The contents of the filled blocks of databuf d, oldest first.           *)
Queue(d) ==
    [k \in 1 .. Depth(d) |-> block[d][(iblk[d+1] + k - 1) % NBlock]]

(* No block is written by the thread that fills it while the thread that   *)
(* empties it has it: the two never touch the same block of a databuf.     *)
ExclusiveBlocks ==
    \A d \in Ring : Writing(d) /\ Reading(d+1) => oblk[d] # iblk[d+1]

(* The filled blocks are the ones from the reader's index to the writer's: *)
(* a free block among them would stop the reader, and a filled one beyond  *)
(* them would be read before its turn.                                     *)
FilledWindow == \A d \in Ring : Window(sem[d], iblk[d+1], oblk[d])

(* What makes the three facts above survive every step.  A thread that     *)
(* uses a block has found it in the state it waited for, and nobody else   *)
(* changes that state:                                                     *)
Holding ==
    \A s \in Stage :
        /\ Reading(s) => sem[s-1][iblk[s]] = 1
        /\ Writing(s) => sem[s][oblk[s]] = 0

(* the first thread has no input and the sink no output;                   *)
Roles ==
    /\ pc[1] \notin {"wait_filled", "set_free"}
    /\ pc[Sink] \notin {"wait_free", "process", "set_filled"}

(* a filter that has marked its output filled but not yet freed its input  *)
(* counts that item as finished although it is still in the input databuf; *)
Copied(s) == IF HasOut(s) /\ pc[s] = "set_free" THEN 1 ELSE 0

(* and the filled blocks of a databuf hold the items after the last one    *)
(* its reader finished, in order, up to the last one its writer finished.  *)
(* (A killed filter may have left between its two semctl calls, so this    *)
(* speaks of readers that are alive.)                                      *)
Numbering ==
    \A d \in Ring : pc[d+1] # "exited" =>
        /\ last[d] = last[d+1] - Copied(d+1) + Depth(d)
        /\ \A b \in Block : sem[d][b] = 1 =>
               block[d][b] = last[d+1] - Copied(d+1) + 1 + Dist(iblk[d+1], b)

Written ==
    \A s \in Stage : pc[s] = "set_filled" => block[s][oblk[s]] = last[s] + 1

IInv == TypeOK /\ FilledWindow /\ Holding /\ Roles /\ Numbering /\ Written

(* A filled block keeps its contents until it is set free.                 *)
FilledUntouched ==
    [][\A d \in Ring, b \in Block :
         sem[d][b] = 1 /\ sem'[d][b] = 1 => block'[d][b] = block[d][b]]_vars

(* Within a process every thread finishes every item, once, in the order   *)
(* in which the first thread wrote them; and nothing that an earlier       *)
(* process left in the blocks is ever taken for an item.                   *)
InOrder ==
    [][boot' = boot =>
         \A s \in Stage : last'[s] = last[s] \/ last'[s] = last[s] + 1]_vars

(* Each databuf is a queue of at most NBlock blocks: the semaphores and    *)
(* the threads' indices implement BlockFifo.                               *)
Fifo == INSTANCE BlockFifo WITH
            Buffer <- Ring, Capacity <- NBlock, queue <- [d \in Ring |-> Queue(d)]
DatabufsAreFifos == Fifo!Spec

(* The process still means to run, but a wait of one of its threads failed *)
(* and that thread is gone: nobody is told, and the chain stands still     *)
(* until somebody stops the process.                                       *)
LostThread == run /\ \E s \in Stage : pc[s] = "exited"

(* What the first thread has marked filled reaches the sink, unless the    *)
(* process is stopped or loses a thread to a failed wait: timeouts, full   *)
(* and empty databufs and the chain of threads waiting for each other      *)
(* never leave it stuck.                                                   *)
Delivered ==
    \A i \in 1 .. MaxItem :
        last[1] >= i ~> (last[Sink] >= i \/ ~run \/ LostThread)
=============================================================================
