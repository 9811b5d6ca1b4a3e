----------------------------- MODULE ThreadLife -----------------------------
(***************************************************************************)
(* The control plane of a hashpipe process (hashpipe.c): main() starts the *)
(* threads, waits until the run flag is cleared, cancels, signals and      *)
(* joins them; each thread goes through hashpipe_thread_run(), which       *)
(* attaches to shared memory, pushes a cancellation handler for everything *)
(* it has to undo, calls the run function of the thread and undoes it all. *)
(*                                                                         *)
(* The run function is the loop of null_output_thread; a plugin's loop     *)
(* goes through the same calls and may also return of its own accord.      *)
(* What the waits of the loop wait for is in Pipeline, and the lock of the *)
(* status buffer in StatusLock: here a wait may end and a lock may be had  *)
(* at any time.                                                            *)
(***************************************************************************)
EXTENDS Integers

CONSTANTS NThread,     \* threads on the command line
          HasIbuf,     \* threads whose description has ibuf_desc.create
          HasObuf,     \* threads whose description has obuf_desc.create
          NullThread   \* threads that run null_output_thread

ASSUME ThreadLifeAssumption ==
    /\ NThread \in Nat \ {0}
    /\ HasIbuf \subseteq 1 .. NThread
    /\ HasObuf \subseteq 1 .. NThread
    /\ NullThread \subseteq 1 .. NThread
    /\ NullThread \cap (HasIbuf \cup HasObuf) = {}

Thread == 1 .. NThread

VARIABLES run,       \* run_threads_flag
          mpc,       \* where main() is
          idx,       \* i, the loop variable of main()
          pc,        \* pc[t]: where thread t is
          depth,     \* depth[t]: how many cancellation handlers it has pushed
          att,       \* att[t]: the shared memory t is attached to
          bad,       \* bad[t]: an attach to a databuf failed (rv in the code)
          ran,       \* ran[t]: the run function of t was called
          fin,       \* fin[t]: args->finished
          st,        \* st[t]: what the status buffer says under t's skey
          asked,     \* the threads pthread_cancel() was called on
          nokey      \* history: the threads that took a key error for an attachment

vars == <<run, mpc, idx, pc, depth, att, bad, ran, fin, st, asked, nokey>>

MainPC   == {"setup", "start", "watch", "cancel", "kill", "join", "ended", "crashed"}
ThreadPC == {"none", "affinity", "status", "chkinit", "ibuf", "obuf",
             "own", "loop", "lock", "wait", "busy", "detown",
             "fin_lock", "fin_unlock", "clear", "det_obuf", "det_ibuf", "exit_lock",
             "det_status", "unwind", "ended", "gone"}
Memory   == {"status", "ibuf", "obuf", "own"}

(* pthread_cleanup_push() and _pop() are lexically nested, so the handlers *)
(* of a thread are always the first ones of this list, outermost first.    *)
Handlers == <<"det_status", "set_exit", "det_ibuf", "det_obuf", "set_finished", "det_own">>

TypeOK ==
    /\ run \in BOOLEAN
    /\ mpc \in MainPC
    /\ idx \in 0 .. NThread
    /\ pc \in [Thread -> ThreadPC]
    /\ depth \in [Thread -> 0 .. 6]
    /\ att \in [Thread -> SUBSET Memory]
    /\ bad \in [Thread -> BOOLEAN]
    /\ ran \in [Thread -> BOOLEAN]
    /\ fin \in [Thread -> BOOLEAN]
    /\ st \in [Thread -> {"init", "waiting", "processing", "exit"}]
    /\ asked \subseteq Thread
    /\ nokey \subseteq Thread

(* Every thread has been through hashpipe_thread_init(); the flag is 1     *)
(* from the start of the program.                                          *)
Init ==
    /\ run = TRUE
    /\ mpc = "setup"
    /\ idx = NThread
    /\ pc = [t \in Thread |-> "none"]
    /\ depth = [t \in Thread |-> 0]
    /\ att = [t \in Thread |-> {}]
    /\ bad = [t \in Thread |-> FALSE]
    /\ ran = [t \in Thread |-> FALSE]
    /\ fin = [t \in Thread |-> FALSE]
    /\ st = [t \in Thread |-> "init"]
    /\ asked = {}
    /\ nokey = {}

Goto(t, l) == pc' = [pc EXCEPT ![t] = l]
Push(t, n) == depth' = [depth EXCEPT ![t] = @ + n]
Pop(t)     == depth' = [depth EXCEPT ![t] = @ - 1]
Innermost(t) == Handlers[depth[t]]
Attach(t, m) == att' = [att EXCEPT ![t] = @ \cup {m}]
Detach(t, m) == att' = [att EXCEPT ![t] = @ \ {m}]

rareVars == <<mpc, idx, asked, nokey>>     \* what few steps of a thread change

(* exit(), or a fatal signal, ends all threads where they are.             *)
EndProcess(l) ==
    /\ mpc' = l
    /\ pc' = [t \in Thread |-> "gone"]

-----------------------------------------------------------------------------
(* hashpipe_thread_run().                                                  *)

(* A CPU mask that cannot be set: "goto done".                             *)
SetAffinity(t) ==
    /\ pc[t] = "affinity"
    /\ Goto(t, "status") \/ Goto(t, "ended")
    /\ UNCHANGED <<run, depth, att, bad, ran, fin, st, rareVars>>

(* hashpipe_status_attach() maps the segment, then opens the semaphore and *)
(* checks the buffer under the lock.  A failure after shmat() does not     *)
(* detach again.  When the key cannot be computed (ftok() on a key file    *)
(* that has gone since) it returns 0, which is HASHPIPE_OK, with nothing   *)
(* done: the thread goes on with the lock it has from hashpipe_thread_init *)
(* and a null pointer for the buffer.                                      *)
AttachStatus(t) ==
    /\ pc[t] = "status"
    /\ \/ Attach(t, "status") /\ Goto(t, "chkinit") /\ UNCHANGED <<depth, nokey>>
       \/ Attach(t, "status") /\ Goto(t, "ended") /\ UNCHANGED <<depth, nokey>>
       \/ Goto(t, "ended") /\ UNCHANGED <<att, depth, nokey>>
       \/ /\ nokey' = nokey \cup {t}
          /\ Push(t, 2)
          /\ Goto(t, "ibuf")
          /\ UNCHANGED att
    /\ UNCHANGED <<run, bad, ran, fin, st, mpc, idx, asked>>

CheckInit(t) ==
    /\ pc[t] = "chkinit" /\ t \notin asked
    /\ Push(t, 2)
    /\ Goto(t, "ibuf")
    /\ UNCHANGED <<run, att, bad, ran, fin, st, rareVars>>

(* Attach to one databuf, if the description has it; the handler is pushed *)
(* either way.                                                             *)
AttachDatabuf(t, has, m) ==
    \/ t \in has /\ Attach(t, m) /\ UNCHANGED bad
    \/ t \in has /\ bad' = [bad EXCEPT ![t] = TRUE] /\ UNCHANGED att
    \/ t \notin has /\ UNCHANGED <<att, bad>>

AttachIbuf(t) ==
    /\ pc[t] = "ibuf"
    /\ AttachDatabuf(t, HasIbuf, "ibuf")
    /\ Push(t, 1)
    /\ Goto(t, "obuf")
    /\ UNCHANGED <<run, ran, fin, st, rareVars>>

(* Mutant: the run function is called although an attach failed.           *)
AttachObufRunsAnyway(t) ==
    /\ pc[t] = "obuf"
    /\ AttachDatabuf(t, HasObuf, "obuf")
    /\ Push(t, 2)
    /\ ran' = [ran EXCEPT ![t] = TRUE]
    /\ Goto(t, IF t \in NullThread THEN "own" ELSE "loop")
    /\ UNCHANGED <<run, fin, st, rareVars>>

(* Mutant: no handler is pushed for the finished flag.                     *)
AttachObufUnfinished(t) ==
    /\ pc[t] = "obuf"
    /\ AttachDatabuf(t, HasObuf, "obuf")
    /\ Push(t, 1)
    /\ ran' = [ran EXCEPT ![t] = ~bad'[t]]
    /\ Goto(t, IF bad'[t] THEN "fin_lock" ELSE IF t \in NullThread THEN "own" ELSE "loop")
    /\ UNCHANGED <<run, fin, st, rareVars>>

AttachObuf(t) ==
    /\ pc[t] = "obuf"
    /\ AttachDatabuf(t, HasObuf, "obuf")
    /\ Push(t, 2)
    /\ ran' = [ran EXCEPT ![t] = ~bad'[t]]
    /\ Goto(t, IF bad'[t] THEN "fin_lock" ELSE IF t \in NullThread THEN "own" ELSE "loop")
    /\ UNCHANGED <<run, fin, st, rareVars>>

(* null_output_thread attaches to its input databuf itself.  It tries for  *)
(* a second and then returns THREAD_ERROR.                                 *)
AttachOwn(t) ==
    /\ pc[t] = "own"
    /\ \/ Attach(t, "own") /\ Push(t, 1) /\ Goto(t, "loop")
       \/ Goto(t, "fin_lock") /\ UNCHANGED <<att, depth>>
    /\ UNCHANGED <<run, bad, ran, fin, st, rareVars>>

(* while (run_threads())                                                   *)
Loop(t) ==
    /\ pc[t] = "loop"
    /\ Goto(t, IF run THEN "lock" ELSE IF t \in NullThread THEN "detown" ELSE "fin_lock")
    /\ UNCHANGED <<run, depth, att, bad, ran, fin, st, rareVars>>

PluginReturns(t) ==
    /\ t \notin NullThread
    /\ pc[t] = "loop"
    /\ Goto(t, "fin_lock")
    /\ UNCHANGED <<run, depth, att, bad, ran, fin, st, rareVars>>

(* The status update before a wait and after a timeout.  hputs() follows   *)
(* the pointer to the buffer.                                              *)
LockStatus(t) ==
    /\ pc[t] = "lock" /\ t \notin asked
    /\ IF "status" \in att[t]
         THEN /\ st' = [st EXCEPT ![t] = "waiting"]
              /\ Goto(t, "wait")
              /\ UNCHANGED mpc
         ELSE EndProcess("crashed") /\ UNCHANGED st
    /\ UNCHANGED <<run, depth, att, bad, ran, fin, idx, asked, nokey>>

(* semtimedop() times out, succeeds, or fails, upon which the thread calls *)
(* pthread_exit() and leaves the run flag as it is.  It is not a           *)
(* cancellation point.                                                     *)
WaitEnds(t) ==
    /\ pc[t] = "wait"
    /\ Goto(t, "lock") \/ Goto(t, "busy") \/ Goto(t, "unwind")
    /\ UNCHANGED <<run, depth, att, bad, ran, fin, st, rareVars>>

(* The block is used and freed, after another status update and before     *)
(* pthread_testcancel().                                                   *)
UseBlock(t) ==
    /\ pc[t] = "busy" /\ t \notin asked
    /\ st' = [st EXCEPT ![t] = "processing"]
    /\ Goto(t, "loop")
    /\ UNCHANGED <<run, depth, att, bad, ran, fin, rareVars>>

DetachOwn(t) ==
    /\ pc[t] = "detown"
    /\ Detach(t, "own")
    /\ Pop(t)
    /\ Goto(t, "fin_lock")
    /\ UNCHANGED <<run, bad, ran, fin, st, rareVars>>

(* hashpipe_thread_set_finished(), on the normal path and as a handler.    *)
SetFinished(t) ==
    /\ pc[t] = "fin_lock"
    /\ fin' = [fin EXCEPT ![t] = TRUE]
    /\ Goto(t, "fin_unlock")
    /\ UNCHANGED <<run, depth, att, bad, ran, st, rareVars>>

UnlockFinished(t) ==
    /\ pc[t] = "fin_unlock"
    /\ IF Innermost(t) = "set_finished"
         THEN Pop(t) /\ Goto(t, "clear")
         ELSE Goto(t, "unwind") /\ UNCHANGED depth
    /\ UNCHANGED <<run, att, bad, ran, fin, st, rareVars>>

ClearRun(t) ==
    /\ pc[t] = "clear"
    /\ run' = FALSE
    /\ Goto(t, "det_obuf")
    /\ UNCHANGED <<depth, att, bad, ran, fin, st, rareVars>>

DetachObuf(t) ==
    /\ pc[t] = "det_obuf"
    /\ Detach(t, "obuf")
    /\ Pop(t)
    /\ Goto(t, "det_ibuf")
    /\ UNCHANGED <<run, bad, ran, fin, st, rareVars>>

DetachIbuf(t) ==
    /\ pc[t] = "det_ibuf"
    /\ Detach(t, "ibuf")
    /\ Pop(t)
    /\ Goto(t, "exit_lock")
    /\ UNCHANGED <<run, bad, ran, fin, st, rareVars>>

(* set_exit_status() does nothing without a buffer.                        *)
SetExitStatus(t) ==
    /\ pc[t] = "exit_lock"
    /\ IF "status" \in att[t]
         THEN t \notin asked /\ st' = [st EXCEPT ![t] = "exit"]
         ELSE UNCHANGED st
    /\ Pop(t)
    /\ Goto(t, "det_status")
    /\ UNCHANGED <<run, att, bad, ran, fin, rareVars>>

DetachStatus(t) ==
    /\ pc[t] = "det_status"
    /\ Detach(t, "status")
    /\ Pop(t)
    /\ Goto(t, "ended")
    /\ UNCHANGED <<run, bad, ran, fin, st, rareVars>>

-----------------------------------------------------------------------------
(* Cancellation.  A request is acted upon at the next cancellation point:  *)
(* sem_wait() of the status lock, nanosleep() while the null thread waits  *)
(* for its databuf, and pthread_testcancel() at the end of its loop.  A    *)
(* thread with a request does not get past one.                            *)
ActOnCancel(t) ==
    /\ t \in asked
    /\ \/ pc[t] \in {"chkinit", "own", "lock", "busy"}
       \/ pc[t] = "exit_lock" /\ "status" \in att[t]
    /\ Goto(t, "unwind")
    /\ UNCHANGED <<run, depth, att, bad, ran, fin, st, rareVars>>

(* Mutant: the handler of the output databuf was pushed before it was      *)
(* attached to, and holds a null pointer.                                  *)
ReleasedButObuf(h) ==
    {m \in Memory : <<h, m>> \in {<<"det_own", "own">>, <<"det_ibuf", "ibuf">>,
                                 <<"det_status", "status">>}}

(* What a handler detaches from.                                           *)
Released(h) ==
    {m \in Memory : <<h, m>> \in {<<"det_own", "own">>, <<"det_obuf", "obuf">>,
                                 <<"det_ibuf", "ibuf">>, <<"det_status", "status">>}}

(* The handlers run, innermost first.  The one that should store "exit" is *)
(* given &args->st in place of args: the pointer it takes for the buffer   *)
(* is then the owner word of the mutex of the next element of args[] (on   *)
(* x86-64), so it does nothing when that mutex is free and follows a wild  *)
(* pointer when the next thread is just setting its finished flag.         *)
WildExit(t) ==
    Innermost(t) = "set_exit" /\ t + 1 \in Thread /\ pc[t+1] = "fin_unlock"

Unwind(t) ==
    /\ pc[t] = "unwind"
    /\ depth[t] > 0
    /\ Pop(t)
    /\ att' = [att EXCEPT ![t] = @ \ Released(Innermost(t))]
    /\ IF WildExit(t)
         THEN EndProcess("crashed")
         ELSE /\ Goto(t, IF Innermost(t) = "set_finished" THEN "fin_lock" ELSE "unwind")
              /\ UNCHANGED mpc
    /\ UNCHANGED <<run, bad, ran, fin, st, idx, asked, nokey>>

Unwound(t) ==
    /\ pc[t] = "unwind"
    /\ depth[t] = 0
    /\ Goto(t, "ended")
    /\ UNCHANGED <<run, depth, att, bad, ran, fin, st, rareVars>>

(* What a signal does to thread t: its handler clears the flag, and a      *)
(* semtimedop() it sleeps in fails with EINTR, upon which the thread calls *)
(* pthread_exit().  (A wait that had just succeeded is not interrupted.)   *)
Interrupt(t) ==
    /\ run' = FALSE
    /\ IF pc[t] = "wait" THEN Goto(t, "unwind") \/ UNCHANGED pc ELSE UNCHANGED pc

-----------------------------------------------------------------------------
(* main(), once the handlers of SIGINT and SIGTERM are installed.          *)
SetRun ==
    /\ mpc = "setup"
    /\ run' = TRUE
    /\ mpc' = "start"
    /\ UNCHANGED <<idx, pc, depth, att, bad, ran, fin, st, asked, nokey>>

(* The threads are started in reverse order.                               *)
Create ==
    /\ mpc = "start"
    /\ idx >= 1
    /\ \/ /\ Goto(idx, "affinity")
          /\ idx' = idx - 1
          /\ UNCHANGED mpc
       \/ EndProcess("ended") /\ UNCHANGED idx           \* exit(1)
    /\ UNCHANGED <<run, depth, att, bad, ran, fin, st, asked, nokey>>

Created ==
    /\ mpc = "start"
    /\ idx = 0
    /\ mpc' = "watch"
    /\ UNCHANGED <<run, idx, pc, depth, att, bad, ran, fin, st, asked, nokey>>

Watch ==
    /\ mpc = "watch"
    /\ ~run
    /\ mpc' = "cancel"
    /\ idx' = NThread
    /\ UNCHANGED <<run, pc, depth, att, bad, ran, fin, st, asked, nokey>>

(* Mutant: the loop makes one turn too many.                               *)
TurnTooMany(here, next) ==
    /\ mpc = here
    /\ IF idx > 0 THEN idx' = idx - 1 /\ UNCHANGED mpc
                  ELSE idx' = NThread /\ mpc' = next

(* One turn of a loop of main() over the threads, and what comes after it. *)
Turn(here, next) ==
    /\ mpc = here
    /\ IF idx > 1 THEN idx' = idx - 1 /\ UNCHANGED mpc
                  ELSE idx' = NThread /\ mpc' = next

(* Mutant: the threads get the signal only.                                *)
CancelNone ==
    /\ Turn("cancel", "kill")
    /\ UNCHANGED <<run, pc, depth, att, bad, ran, fin, st, asked, nokey>>

CancelThread ==
    /\ Turn("cancel", "kill")
    /\ asked' = asked \cup {idx}
    /\ UNCHANGED <<run, pc, depth, att, bad, ran, fin, st, nokey>>

KillThread ==
    /\ Turn("kill", "join")
    /\ Interrupt(idx)
    /\ UNCHANGED <<depth, att, bad, ran, fin, st, asked, nokey>>

JoinThread ==
    /\ Turn("join", "ended")
    /\ pc[idx] = "ended"
    /\ UNCHANGED <<run, pc, depth, att, bad, ran, fin, st, asked, nokey>>

(* SIGINT or SIGTERM from outside: the main thread or any other handles it.*)
Signal ==
    /\ mpc \notin {"ended", "crashed"}
    /\ \/ run' = FALSE /\ UNCHANGED pc
       \/ \E t \in Thread : Interrupt(t)
    /\ UNCHANGED <<depth, att, bad, ran, fin, st, rareVars>>

MainStep == SetRun \/ Create \/ Created \/ Watch \/ CancelThread \/ KillThread \/ JoinThread

RunStep(t) ==
    \/ SetAffinity(t) \/ AttachStatus(t) \/ CheckInit(t) \/ AttachIbuf(t) \/ AttachObuf(t)
    \/ AttachOwn(t) \/ Loop(t) \/ LockStatus(t) \/ WaitEnds(t) \/ UseBlock(t) \/ DetachOwn(t)
    \/ SetFinished(t) \/ UnlockFinished(t) \/ ClearRun(t) \/ DetachObuf(t) \/ DetachIbuf(t)
    \/ SetExitStatus(t) \/ DetachStatus(t) \/ ActOnCancel(t)
    \/ Unwind(t) \/ Unwound(t)

Next ==
    \/ MainStep
    \/ \E t \in Thread : RunStep(t) \/ PluginReturns(t)
    \/ Signal

Spec == Init /\ [][Next]_vars

(* main() and every thread run when they can.  A signal, and a plugin that *)
(* returns, may come or not.                                               *)
FairSpec == Spec /\ WF_vars(MainStep) /\ \A t \in Thread : WF_vars(RunStep(t))

-----------------------------------------------------------------------------
Ended(t) == pc[t] = "ended"
InRun(t) == pc[t] \in {"own", "loop", "lock", "wait", "busy", "detown"}

(* However a thread that ran ends -- it returns, it is cancelled, or it    *)
(* calls pthread_exit() -- it has detached from everything it attached to, *)
(* and no handler is left; a thread that did not get to run keeps at most  *)
(* the status buffer.                                                      *)
AllDetached ==
    \A t \in Thread : Ended(t) =>
        /\ depth[t] = 0
        /\ att[t] \subseteq {"status"}
        /\ ran[t] => att[t] = {}

(* While its run function runs a thread is attached to the databufs its    *)
(* description asks for, and from the time it pushes its first handlers to *)
(* its last status update to the status buffer -- unless it took a key     *)
(* error for success: such a thread follows a null pointer when its run    *)
(* function first reports, and the process crashes (LockStatus).           *)
UsesAttached ==
    \A t \in Thread :
        /\ InRun(t) => /\ t \in HasIbuf => "ibuf" \in att[t]
                       /\ t \in HasObuf => "obuf" \in att[t]
        /\ t \in NullThread /\ pc[t] \in {"wait", "busy"} => "own" \in att[t]
        /\ pc[t] \in {"wait", "busy"} => "status" \in att[t]
        /\ pc[t] \in {"ibuf", "lock", "exit_lock"} => "status" \in att[t] \/ t \in nokey

(* hashpipe_thread_finished() of a thread that ran and ended says so.      *)
FinishedTold == \A t \in Thread : Ended(t) /\ ran[t] => fin[t]

(* Once the run flag is cleared -- by a signal or because a thread         *)
(* returned -- the process ends: every thread gets to a point where it     *)
(* sees the flag or is cancelled, and main() joins them all.               *)
Shutdown == (~run /\ mpc # "setup") ~> mpc \in {"ended", "crashed"}

(* What makes these hold: the place a thread is at tells which handlers it *)
(* has pushed, ...                                                         *)
LoopDepth(t) == IF t \in NullThread THEN 6 ELSE 5

HandlersPushed(t) ==
    /\ pc[t] \in {"none", "affinity", "status", "chkinit", "ended"} => depth[t] = 0
    /\ pc[t] = "det_status" => depth[t] = 1
    /\ pc[t] \in {"ibuf", "exit_lock"} => depth[t] = 2
    /\ pc[t] \in {"obuf", "det_ibuf"} => depth[t] = 3
    /\ pc[t] \in {"clear", "det_obuf"} => depth[t] = 4
    /\ pc[t] \in {"fin_lock", "fin_unlock"} => depth[t] \in {4, 5}
    /\ pc[t] = "own" => depth[t] = 5 /\ t \in NullThread
    /\ pc[t] = "detown" => depth[t] = 6 /\ t \in NullThread
    /\ pc[t] \in {"loop", "lock", "wait", "busy"} => depth[t] = LoopDepth(t)

(* ... every attachment has a handler that will undo it, but for that to   *)
(* the status buffer before the first handler is pushed, ...               *)
BeforeRun == {"none", "affinity", "status", "chkinit", "ibuf", "obuf"}

AttachedCovered(t) ==
    pc[t] # "gone" =>
        /\ "own" \in att[t] => depth[t] = 6
        /\ "obuf" \in att[t] => depth[t] >= 4
        /\ "ibuf" \in att[t] => depth[t] >= 3
        /\ "status" \in att[t] =>
              \/ depth[t] >= 1
              \/ pc[t] = "chkinit"
              \/ pc[t] \in {"unwind", "ended"} /\ ~ran[t]
        /\ ran[t] => pc[t] \notin BeforeRun

(* ... it is attached to what it is about to use, ...                      *)
AttachedInTime(t) ==
    /\ pc[t] \in {"chkinit", "wait", "busy"} => "status" \in att[t]
    /\ depth[t] >= 1 => "status" \in att[t] \/ t \in nokey
    /\ pc[t] = "obuf" /\ ~bad[t] /\ t \in HasIbuf => "ibuf" \in att[t]
    /\ InRun(t) => /\ t \in HasIbuf => "ibuf" \in att[t]
                   /\ t \in HasObuf => "obuf" \in att[t]
    /\ t \in NullThread /\ pc[t] \in {"loop", "lock", "wait", "busy"} => "own" \in att[t]

(* ... and it has told that it finished once the handler for that is gone. *)
FinishedInTime(t) ==
    /\ pc[t] # "gone" /\ ran[t] => fin[t] \/ depth[t] >= 5 \/ pc[t] = "fin_lock"
    /\ pc[t] = "fin_unlock" => fin[t]

ThreadInv(t) ==
    HandlersPushed(t) /\ AttachedCovered(t) /\ AttachedInTime(t) /\ FinishedInTime(t)

ThreadsInv == TypeOK /\ \A t \in Thread : ThreadInv(t)

(* main() creates each thread once, and the loops that follow stay within  *)
(* args[].                                                                 *)
MainInTime ==
    /\ mpc = "setup" => idx = NThread /\ \A t \in Thread : pc[t] = "none"
    /\ mpc = "start" => \A t \in 1 .. idx : pc[t] = "none"
    /\ mpc \in {"cancel", "kill", "join"} => idx \in Thread

IInv == ThreadsInv /\ MainInTime

(* hashpipe.h: "HASHPIPE will automatically store/update this key in the   *)
(* status buffer with the thread's status at initialization ("init") and   *)
(* exit ("exit")."  (Of the threads that have a status buffer.)            *)
ExitStatusStored ==
    \A t \in Thread \ nokey : Ended(t) /\ ran[t] => st[t] = "exit"
=============================================================================
