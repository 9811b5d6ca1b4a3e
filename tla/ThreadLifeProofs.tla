-------------------------- MODULE ThreadLifeProofs --------------------------
(***************************************************************************)
(* Every thread, in a process with any number of them, undoes what it did  *)
(* and uses what it is not attached to only after a key error taken for    *)
(* success.  The inductive invariant is IInv: the place a thread is at     *)
(* tells how many handlers it has pushed, and every attachment is covered  *)
(* by one of them.                                                         *)
(***************************************************************************)
EXTENDS ThreadLife, TLAPS

LEMMA InitInv == Init => IInv
BY ThreadLifeAssumption
   DEF Thread, Init, IInv, ThreadsInv, MainInTime, TypeOK, MainPC, ThreadPC, ThreadInv,
       HandlersPushed,
       AttachedCovered, AttachedInTime, FinishedInTime, InRun

(* What a thread's part of the invariant does not depend on.               *)
Same(u) ==
    /\ pc'[u] = pc[u] /\ depth'[u] = depth[u] /\ att'[u] = att[u]
    /\ bad'[u] = bad[u] /\ ran'[u] = ran[u] /\ fin'[u] = fin[u]
    /\ u \in nokey' <=> u \in nokey

(* A step of one thread keeps the invariant if it keeps the thread's part. *)
LEMMA OneThread ==
    ASSUME ThreadsInv, TypeOK', NEW t \in Thread, ThreadInv(t)',
           \A u \in Thread : u # t => Same(u)
    PROVE  ThreadsInv'
BY DEF Same, ThreadsInv, ThreadInv, HandlersPushed, AttachedCovered, AttachedInTime,
       FinishedInTime, InRun, LoopDepth, BeforeRun

(* The steps in which a thread goes from one place to another, and neither *)
(* pushes or pops a handler nor attaches or detaches.                      *)
Moves(u) ==
    \/ pc'[u] \in {pc[u], "gone"}
    \/ pc[u] = "none" /\ pc'[u] = "affinity"
    \/ pc[u] = "affinity" /\ pc'[u] \in {"status", "ended"}
    \/ pc[u] = "status" /\ pc'[u] = "ended"
    \/ pc[u] = "own" /\ pc'[u] = "fin_lock"
    \/ pc[u] = "loop" /\ pc'[u] = IF u \in NullThread THEN "detown" ELSE "fin_lock"
    \/ pc[u] \in {"loop", "wait", "busy"} /\ pc'[u] \in {"loop", "lock"}
    \/ pc[u] = "lock" /\ "status" \in att[u] /\ pc'[u] = "wait"
    \/ pc[u] = "wait" /\ pc'[u] = "busy"
    \/ pc[u] = "clear" /\ pc'[u] = "det_obuf"
    \/ pc[u] \in {"chkinit", "own", "lock", "wait", "busy", "exit_lock"} /\ pc'[u] = "unwind"
    \/ pc[u] = "unwind" /\ depth[u] = 0 /\ pc'[u] = "ended"

LEMMA MovesInv ==
    ASSUME ThreadsInv, TypeOK', UNCHANGED <<depth, att, bad, ran, fin, nokey>>,
           \A u \in Thread : Moves(u)
    PROVE  ThreadsInv'
<1> SUFFICES ASSUME NEW u \in Thread PROVE ThreadInv(u)'
  BY DEF ThreadsInv
<1>1. ThreadInv(u) /\ Moves(u) /\ depth[u] \in 0 .. 6
  BY DEF ThreadsInv, TypeOK
<1>2. HandlersPushed(u)'
  BY <1>1 DEF ThreadInv, HandlersPushed, Moves, LoopDepth
<1>3. AttachedCovered(u)'
  BY <1>1 DEF ThreadInv, AttachedCovered, HandlersPushed, Moves, BeforeRun, LoopDepth
<1>4. AttachedInTime(u)'
  BY <1>1 DEF ThreadInv, AttachedInTime, HandlersPushed, Moves, InRun, LoopDepth
<1>5. FinishedInTime(u)'
  BY <1>1 DEF ThreadInv, FinishedInTime, HandlersPushed, AttachedCovered, Moves, BeforeRun,
              LoopDepth
<1> QED BY <1>2, <1>3, <1>4, <1>5 DEF ThreadInv

LEMMA MoveInv ==
    ASSUME ThreadsInv, NEW t \in Thread,
           \/ SetAffinity(t) \/ Loop(t) \/ PluginReturns(t) \/ LockStatus(t) \/ WaitEnds(t)
           \/ UseBlock(t) \/ ClearRun(t) \/ ActOnCancel(t) \/ Unwound(t)
    PROVE  ThreadsInv'
<1> USE DEF Goto, rareVars
<1>1. TypeOK /\ ThreadInv(t)
  BY DEF ThreadsInv
<1>2. UNCHANGED <<idx, asked, nokey, depth, att, bad, ran, fin>> /\ run' \in BOOLEAN
  BY <1>1 DEF TypeOK, SetAffinity, Loop, PluginReturns, LockStatus, WaitEnds, UseBlock,
              ClearRun, ActOnCancel, Unwound
<1>3. /\ st' \in [Thread -> {"init", "waiting", "processing", "exit"}]
      /\ mpc' \in MainPC
  BY <1>1 DEF TypeOK, MainPC, EndProcess, SetAffinity, Loop, PluginReturns, LockStatus,
              WaitEnds, UseBlock, ClearRun, ActOnCancel, Unwound
<1>4. CASE pc' = [u \in Thread |-> "gone"]
  <2>1. TypeOK'
    BY <1>1, <1>2, <1>3, <1>4 DEF TypeOK, ThreadPC
  <2>2. \A u \in Thread : Moves(u)
    BY <1>4 DEF Moves
  <2> QED BY <1>2, <2>1, <2>2, MovesInv
<1>5. CASE ~EndProcess("crashed")
  <2>1. PICK l \in ThreadPC : pc' = [pc EXCEPT ![t] = l]
    BY <1>5 DEF ThreadPC, SetAffinity, Loop, PluginReturns, LockStatus, WaitEnds, UseBlock,
                ClearRun, ActOnCancel, Unwound
  <2>2. TypeOK'
    BY <1>1, <1>2, <1>3, <2>1 DEF TypeOK
  <2>3. Moves(t)
    BY <1>1, <1>5 DEF TypeOK, Moves, SetAffinity, Loop, PluginReturns, LockStatus, WaitEnds,
                      UseBlock, ClearRun, ActOnCancel, Unwound
  <2>4. \A u \in Thread : Moves(u)
    BY <1>1, <2>1, <2>3 DEF TypeOK, Moves
  <2> QED BY <1>2, <2>2, <2>4, MovesInv
<1> QED BY <1>4, <1>5 DEF EndProcess

(* The steps that push, pop, attach, detach or set a flag, one by one.     *)
LEMMA AttachStatusInv == ASSUME ThreadsInv, NEW t \in Thread, AttachStatus(t)
      PROVE ThreadsInv'
<1>1. TypeOK /\ ThreadInv(t)
  BY DEF ThreadsInv
<1>2. pc[t] = "status" /\ depth[t] = 0 /\ UNCHANGED <<run, bad, ran, fin, st, mpc, idx, asked>>
  BY <1>1 DEF AttachStatus, ThreadInv, HandlersPushed
<1>3. \/ /\ att' = [att EXCEPT ![t] = @ \cup {"status"}]
         /\ pc' = [pc EXCEPT ![t] = "chkinit"] \/ pc' = [pc EXCEPT ![t] = "ended"]
         /\ UNCHANGED <<depth, nokey>>
      \/ pc' = [pc EXCEPT ![t] = "ended"] /\ UNCHANGED <<att, depth, nokey>>
      \/ /\ pc' = [pc EXCEPT ![t] = "ibuf"] /\ nokey' = nokey \cup {t} /\ att' = att
         /\ depth' = [depth EXCEPT ![t] = 2]
  BY <1>1, <1>2 DEF AttachStatus, Attach, Push, Goto, TypeOK
<1>4. TypeOK'
  BY <1>1, <1>2, <1>3 DEF TypeOK, ThreadPC, Memory
<1>5. \/ /\ "status" \in att'[t] /\ att'[t] = att[t] \cup {"status"}
         /\ pc'[t] \in {"chkinit", "ended"} /\ depth'[t] = 0
      \/ att'[t] = att[t] /\ pc'[t] = "ended" /\ depth'[t] = 0
      \/ att'[t] = att[t] /\ pc'[t] = "ibuf" /\ depth'[t] = 2 /\ t \in nokey'
  BY <1>1, <1>2, <1>3 DEF TypeOK
<1>6. HandlersPushed(t)'
  BY <1>5 DEF HandlersPushed
<1>7. AttachedCovered(t)'
  BY <1>1, <1>2, <1>5 DEF ThreadInv, AttachedCovered, BeforeRun
<1>8. AttachedInTime(t)'
  BY <1>5 DEF AttachedInTime, InRun
<1>9. FinishedInTime(t)'
  BY <1>1, <1>2, <1>5 DEF ThreadInv, AttachedCovered, FinishedInTime, BeforeRun
<1>10. \A u \in Thread : u # t => Same(u)
  BY <1>1, <1>2, <1>3 DEF TypeOK, Same
<1> QED BY <1>4, <1>6, <1>7, <1>8, <1>9, <1>10, OneThread DEF ThreadInv

LEMMA CheckInitInv == ASSUME ThreadsInv, NEW t \in Thread, CheckInit(t) PROVE ThreadsInv'
<1>1. TypeOK /\ ThreadInv(t)
  BY DEF ThreadsInv
<1>2. TypeOK'
  BY <1>1 DEF CheckInit, Push, Goto, TypeOK, ThreadPC, Memory, rareVars, ThreadInv, HandlersPushed
<1>3. /\ pc[t] = "chkinit" /\ pc'[t] = "ibuf"
      /\ depth'[t] = depth[t] + 2
      /\ att'[t] = att[t]
      /\ UNCHANGED <<bad, ran, fin, nokey>>
  BY <1>1 DEF CheckInit, Push, Goto, TypeOK, rareVars
<1>4. HandlersPushed(t)'
  BY <1>1, <1>3 DEF ThreadInv, HandlersPushed, LoopDepth
<1>5. AttachedCovered(t)'
  BY <1>1, <1>3 DEF TypeOK, ThreadInv, HandlersPushed, AttachedCovered, BeforeRun
<1>6. AttachedInTime(t)'
  BY <1>1, <1>3 DEF TypeOK, ThreadInv, HandlersPushed, AttachedInTime, InRun
<1>7. FinishedInTime(t)'
  BY <1>1, <1>3 DEF TypeOK, ThreadInv, HandlersPushed, AttachedCovered, FinishedInTime, BeforeRun
<1>8. \A u \in Thread : u # t => Same(u)
  BY <1>1 DEF CheckInit, Push, Goto, TypeOK, rareVars, Same
<1> QED BY <1>2, <1>4, <1>5, <1>6, <1>7, <1>8, OneThread DEF ThreadInv

LEMMA AttachDatabufType ==
    ASSUME TypeOK, NEW t \in Thread, NEW has, NEW m \in Memory, AttachDatabuf(t, has, m)
    PROVE  att' \in [Thread -> SUBSET Memory] /\ bad' \in [Thread -> BOOLEAN]
<1>1. CASE Attach(t, m) /\ UNCHANGED bad
  BY <1>1 DEF TypeOK, Attach
<1>2. CASE bad' = [bad EXCEPT ![t] = TRUE] /\ UNCHANGED att
  BY <1>2 DEF TypeOK
<1>3. CASE UNCHANGED <<att, bad>>
  BY <1>3 DEF TypeOK
<1> QED BY <1>1, <1>2, <1>3 DEF AttachDatabuf

LEMMA AttachIbufInv == ASSUME ThreadsInv, NEW t \in Thread, AttachIbuf(t) PROVE ThreadsInv'
<1>1. TypeOK /\ ThreadInv(t)
  BY DEF ThreadsInv
<1>2. TypeOK'
  <2>1. att' \in [Thread -> SUBSET Memory] /\ bad' \in [Thread -> BOOLEAN]
    BY <1>1, AttachDatabufType DEF AttachIbuf, Memory
  <2>2. depth[t] = 2
    BY <1>1 DEF AttachIbuf, ThreadInv, HandlersPushed
  <2>3. pc' \in [Thread -> ThreadPC] /\ depth' \in [Thread -> 0 .. 6]
    BY <1>1, <2>1, <2>2 DEF AttachIbuf, Goto, Push, TypeOK, ThreadPC
  <2> QED BY <1>1, <2>1, <2>3 DEF AttachIbuf, TypeOK, rareVars
<1>3. /\ pc[t] = "ibuf" /\ pc'[t] = "obuf"
      /\ depth'[t] = depth[t] + 1
      /\ att'[t] \in {att[t], att[t] \cup {"ibuf"}}
      /\ t \in HasIbuf => "ibuf" \in att'[t] \/ bad'[t]
      /\ UNCHANGED <<ran, fin, nokey>>
  BY <1>1 DEF AttachIbuf, AttachDatabuf, Attach, Push, Goto, TypeOK, rareVars
<1>4. HandlersPushed(t)'
  BY <1>1, <1>3 DEF ThreadInv, HandlersPushed, LoopDepth
<1>5. AttachedCovered(t)'
  BY <1>1, <1>3 DEF TypeOK, ThreadInv, HandlersPushed, AttachedCovered, BeforeRun
<1>6. AttachedInTime(t)'
  BY <1>1, <1>3 DEF TypeOK, ThreadInv, HandlersPushed, AttachedInTime, InRun
<1>7. FinishedInTime(t)'
  BY <1>1, <1>3 DEF TypeOK, ThreadInv, HandlersPushed, AttachedCovered, FinishedInTime, BeforeRun
<1>8. \A u \in Thread : u # t => Same(u)
  BY <1>1 DEF AttachIbuf, AttachDatabuf, Attach, Push, Goto, TypeOK, rareVars, Same
<1> QED BY <1>2, <1>4, <1>5, <1>6, <1>7, <1>8, OneThread DEF ThreadInv

LEMMA AttachObufInv == ASSUME ThreadsInv, NEW t \in Thread, AttachObuf(t) PROVE ThreadsInv'
<1>1. TypeOK /\ ThreadInv(t)
  BY DEF ThreadsInv
<1>2. TypeOK'
  <2>1. att' \in [Thread -> SUBSET Memory] /\ bad' \in [Thread -> BOOLEAN]
    BY <1>1, AttachDatabufType DEF AttachObuf, Memory
  <2>2. depth[t] = 3
    BY <1>1 DEF AttachObuf, ThreadInv, HandlersPushed
  <2>3. pc' \in [Thread -> ThreadPC] /\ depth' \in [Thread -> 0 .. 6]
    BY <1>1, <2>1, <2>2 DEF AttachObuf, Goto, Push, TypeOK, ThreadPC
  <2>4. ran' \in [Thread -> BOOLEAN]
    BY <1>1, <2>1 DEF AttachObuf, TypeOK
  <2> QED BY <1>1, <2>1, <2>3, <2>4 DEF AttachObuf, TypeOK, rareVars
<1>3. /\ pc[t] = "obuf"
      /\ pc'[t] = IF bad'[t] THEN "fin_lock" ELSE IF t \in NullThread THEN "own" ELSE "loop"
      /\ depth'[t] = depth[t] + 2
      /\ att'[t] \in {att[t], att[t] \cup {"obuf"}}
      /\ t \in HasObuf => "obuf" \in att'[t] \/ bad'[t]
      /\ bad[t] => bad'[t]
      /\ ran'[t] = ~bad'[t] /\ fin' = fin /\ nokey' = nokey
  BY <1>1 DEF AttachObuf, AttachDatabuf, Attach, Push, Goto, TypeOK, rareVars
<1>4. HandlersPushed(t)'
  BY <1>1, <1>3 DEF ThreadInv, HandlersPushed, LoopDepth
<1>5. AttachedCovered(t)'
  BY <1>1, <1>3 DEF TypeOK, ThreadInv, HandlersPushed, AttachedCovered, BeforeRun
<1>6. AttachedInTime(t)'
  BY <1>1, <1>3 DEF TypeOK, ThreadInv, HandlersPushed, AttachedInTime, InRun
<1>7. FinishedInTime(t)'
  BY <1>1, <1>3 DEF TypeOK, ThreadInv, HandlersPushed, AttachedCovered, FinishedInTime, BeforeRun
<1>8. \A u \in Thread : u # t => Same(u)
  BY <1>1 DEF AttachObuf, AttachDatabuf, Attach, Push, Goto, TypeOK, rareVars, Same
<1> QED BY <1>2, <1>4, <1>5, <1>6, <1>7, <1>8, OneThread DEF ThreadInv

LEMMA AttachOwnInv == ASSUME ThreadsInv, NEW t \in Thread, AttachOwn(t) PROVE ThreadsInv'
<1>1. TypeOK /\ ThreadInv(t)
  BY DEF ThreadsInv
<1>2. pc[t] = "own" /\ depth[t] = 5 /\ t \in NullThread
  BY <1>1 DEF AttachOwn, ThreadInv, HandlersPushed
<1>3. CASE Goto(t, "fin_lock") /\ UNCHANGED <<att, depth>>
  <2>1. TypeOK'
    BY <1>1, <1>3 DEF AttachOwn, Goto, TypeOK, ThreadPC, rareVars
  <2>2. \A u \in Thread : Moves(u)
    BY <1>1, <1>2, <1>3 DEF Goto, TypeOK, Moves
  <2> QED BY <1>3, <2>1, <2>2, MovesInv DEF AttachOwn, rareVars
<1>4. CASE Attach(t, "own") /\ Push(t, 1) /\ Goto(t, "loop")
  <2>1. TypeOK'
    BY <1>1, <1>2, <1>4 DEF AttachOwn, Attach, Push, Goto, TypeOK, ThreadPC, Memory, rareVars
  <2>2. /\ pc'[t] = "loop" /\ depth'[t] = 6 /\ att'[t] = att[t] \cup {"own"}
        /\ UNCHANGED <<bad, ran, fin, nokey>>
    BY <1>1, <1>2, <1>4 DEF AttachOwn, Attach, Push, Goto, rareVars, TypeOK
  <2>3. ThreadInv(t)'
    BY <1>1, <1>2, <2>2 DEF ThreadInv, HandlersPushed, AttachedCovered, AttachedInTime,
                            FinishedInTime, InRun, BeforeRun, LoopDepth
  <2>4. \A u \in Thread : u # t => Same(u)
    BY <1>1, <1>4 DEF AttachOwn, Attach, Push, Goto, rareVars, TypeOK, Same
  <2> QED BY <2>1, <2>3, <2>4, OneThread
<1> QED BY <1>3, <1>4 DEF AttachOwn

LEMMA DetachOwnInv == ASSUME ThreadsInv, NEW t \in Thread, DetachOwn(t) PROVE ThreadsInv'
<1>1. TypeOK /\ ThreadInv(t)
  BY DEF ThreadsInv
<1>2. TypeOK'
  BY <1>1 DEF DetachOwn, Detach, Pop, Goto, TypeOK, ThreadPC, Memory, rareVars, ThreadInv,
              HandlersPushed
<1>3. /\ pc[t] = "detown" /\ pc'[t] = "fin_lock"
      /\ depth'[t] = depth[t] - 1
      /\ att'[t] = att[t] \ {"own"}
      /\ UNCHANGED <<bad, ran, fin, nokey>>
  BY <1>1 DEF DetachOwn, Detach, Pop, Goto, TypeOK, rareVars
<1>4. HandlersPushed(t)'
  BY <1>1, <1>3 DEF ThreadInv, HandlersPushed, LoopDepth
<1>5. AttachedCovered(t)'
  BY <1>1, <1>3 DEF TypeOK, ThreadInv, HandlersPushed, AttachedCovered, BeforeRun
<1>6. AttachedInTime(t)'
  BY <1>1, <1>3 DEF TypeOK, ThreadInv, HandlersPushed, AttachedInTime, InRun
<1>7. FinishedInTime(t)'
  BY <1>1, <1>3 DEF TypeOK, ThreadInv, HandlersPushed, AttachedCovered, FinishedInTime, BeforeRun
<1>8. \A u \in Thread : u # t => Same(u)
  BY <1>1 DEF DetachOwn, Detach, Pop, Goto, TypeOK, rareVars, Same
<1> QED BY <1>2, <1>4, <1>5, <1>6, <1>7, <1>8, OneThread DEF ThreadInv

LEMMA SetFinishedInv == ASSUME ThreadsInv, NEW t \in Thread, SetFinished(t)
      PROVE ThreadsInv'
<1>1. TypeOK /\ ThreadInv(t)
  BY DEF ThreadsInv
<1>2. TypeOK'
  BY <1>1 DEF SetFinished, Goto, TypeOK, ThreadPC, Memory, rareVars, ThreadInv, HandlersPushed
<1>3. /\ pc[t] = "fin_lock" /\ pc'[t] = "fin_unlock"
      /\ fin'[t]
      /\ UNCHANGED <<depth, att, bad, ran, nokey>>
  BY <1>1 DEF SetFinished, Goto, TypeOK, rareVars
<1>4. HandlersPushed(t)'
  BY <1>1, <1>3 DEF ThreadInv, HandlersPushed, LoopDepth
<1>5. AttachedCovered(t)'
  BY <1>1, <1>3 DEF TypeOK, ThreadInv, HandlersPushed, AttachedCovered, BeforeRun
<1>6. AttachedInTime(t)'
  BY <1>1, <1>3 DEF TypeOK, ThreadInv, HandlersPushed, AttachedInTime, InRun
<1>7. FinishedInTime(t)'
  BY <1>1, <1>3 DEF TypeOK, ThreadInv, HandlersPushed, AttachedCovered, FinishedInTime, BeforeRun
<1>8. \A u \in Thread : u # t => Same(u)
  BY <1>1 DEF SetFinished, Goto, TypeOK, rareVars, Same
<1> QED BY <1>2, <1>4, <1>5, <1>6, <1>7, <1>8, OneThread DEF ThreadInv

LEMMA DetachObufInv == ASSUME ThreadsInv, NEW t \in Thread, DetachObuf(t) PROVE ThreadsInv'
<1>1. TypeOK /\ ThreadInv(t)
  BY DEF ThreadsInv
<1>2. TypeOK'
  BY <1>1 DEF DetachObuf, Detach, Pop, Goto, TypeOK, ThreadPC, Memory, rareVars, ThreadInv,
              HandlersPushed
<1>3. /\ pc[t] = "det_obuf" /\ pc'[t] = "det_ibuf"
      /\ depth'[t] = depth[t] - 1
      /\ att'[t] = att[t] \ {"obuf"}
      /\ UNCHANGED <<bad, ran, fin, nokey>>
  BY <1>1 DEF DetachObuf, Detach, Pop, Goto, TypeOK, rareVars
<1>4. HandlersPushed(t)'
  BY <1>1, <1>3 DEF ThreadInv, HandlersPushed, LoopDepth
<1>5. AttachedCovered(t)'
  BY <1>1, <1>3 DEF TypeOK, ThreadInv, HandlersPushed, AttachedCovered, BeforeRun
<1>6. AttachedInTime(t)'
  BY <1>1, <1>3 DEF TypeOK, ThreadInv, HandlersPushed, AttachedInTime, InRun
<1>7. FinishedInTime(t)'
  BY <1>1, <1>3 DEF TypeOK, ThreadInv, HandlersPushed, AttachedCovered, FinishedInTime, BeforeRun
<1>8. \A u \in Thread : u # t => Same(u)
  BY <1>1 DEF DetachObuf, Detach, Pop, Goto, TypeOK, rareVars, Same
<1> QED BY <1>2, <1>4, <1>5, <1>6, <1>7, <1>8, OneThread DEF ThreadInv

LEMMA DetachIbufInv == ASSUME ThreadsInv, NEW t \in Thread, DetachIbuf(t) PROVE ThreadsInv'
<1>1. TypeOK /\ ThreadInv(t)
  BY DEF ThreadsInv
<1>2. TypeOK'
  BY <1>1 DEF DetachIbuf, Detach, Pop, Goto, TypeOK, ThreadPC, Memory, rareVars, ThreadInv,
              HandlersPushed
<1>3. /\ pc[t] = "det_ibuf" /\ pc'[t] = "exit_lock"
      /\ depth'[t] = depth[t] - 1
      /\ att'[t] = att[t] \ {"ibuf"}
      /\ UNCHANGED <<bad, ran, fin, nokey>>
  BY <1>1 DEF DetachIbuf, Detach, Pop, Goto, TypeOK, rareVars
<1>4. HandlersPushed(t)'
  BY <1>1, <1>3 DEF ThreadInv, HandlersPushed, LoopDepth
<1>5. AttachedCovered(t)'
  BY <1>1, <1>3 DEF TypeOK, ThreadInv, HandlersPushed, AttachedCovered, BeforeRun
<1>6. AttachedInTime(t)'
  BY <1>1, <1>3 DEF TypeOK, ThreadInv, HandlersPushed, AttachedInTime, InRun
<1>7. FinishedInTime(t)'
  BY <1>1, <1>3 DEF TypeOK, ThreadInv, HandlersPushed, AttachedCovered, FinishedInTime, BeforeRun
<1>8. \A u \in Thread : u # t => Same(u)
  BY <1>1 DEF DetachIbuf, Detach, Pop, Goto, TypeOK, rareVars, Same
<1> QED BY <1>2, <1>4, <1>5, <1>6, <1>7, <1>8, OneThread DEF ThreadInv

LEMMA SetExitStatusInv == ASSUME ThreadsInv, NEW t \in Thread, SetExitStatus(t)
      PROVE ThreadsInv'
<1>1. TypeOK /\ ThreadInv(t)
  BY DEF ThreadsInv
<1>2. TypeOK'
  BY <1>1 DEF SetExitStatus, Pop, Goto, TypeOK, ThreadPC, Memory, rareVars, ThreadInv,
              HandlersPushed
<1>3. /\ pc[t] = "exit_lock" /\ pc'[t] = "det_status"
      /\ depth'[t] = depth[t] - 1
      /\ att'[t] = att[t]
      /\ UNCHANGED <<bad, ran, fin, nokey>>
  BY <1>1 DEF SetExitStatus, Pop, Goto, TypeOK, rareVars
<1>4. HandlersPushed(t)'
  BY <1>1, <1>3 DEF ThreadInv, HandlersPushed, LoopDepth
<1>5. AttachedCovered(t)'
  BY <1>1, <1>3 DEF TypeOK, ThreadInv, HandlersPushed, AttachedCovered, BeforeRun
<1>6. AttachedInTime(t)'
  BY <1>1, <1>3 DEF TypeOK, ThreadInv, HandlersPushed, AttachedInTime, InRun
<1>7. FinishedInTime(t)'
  BY <1>1, <1>3 DEF TypeOK, ThreadInv, HandlersPushed, AttachedCovered, FinishedInTime, BeforeRun
<1>8. \A u \in Thread : u # t => Same(u)
  BY <1>1 DEF SetExitStatus, Pop, Goto, TypeOK, rareVars, Same
<1> QED BY <1>2, <1>4, <1>5, <1>6, <1>7, <1>8, OneThread DEF ThreadInv

LEMMA DetachStatusInv == ASSUME ThreadsInv, NEW t \in Thread, DetachStatus(t)
      PROVE ThreadsInv'
<1>1. TypeOK /\ ThreadInv(t)
  BY DEF ThreadsInv
<1>2. TypeOK'
  BY <1>1 DEF DetachStatus, Detach, Pop, Goto, TypeOK, ThreadPC, Memory, rareVars, ThreadInv,
              HandlersPushed
<1>3. /\ pc[t] = "det_status" /\ pc'[t] = "ended"
      /\ depth'[t] = depth[t] - 1
      /\ att'[t] = att[t] \ {"status"}
      /\ UNCHANGED <<bad, ran, fin, nokey>>
  BY <1>1 DEF DetachStatus, Detach, Pop, Goto, TypeOK, rareVars
<1>4. HandlersPushed(t)'
  BY <1>1, <1>3 DEF ThreadInv, HandlersPushed, LoopDepth
<1>5. AttachedCovered(t)'
  BY <1>1, <1>3 DEF TypeOK, ThreadInv, HandlersPushed, AttachedCovered, BeforeRun
<1>6. AttachedInTime(t)'
  BY <1>1, <1>3 DEF TypeOK, ThreadInv, HandlersPushed, AttachedInTime, InRun
<1>7. FinishedInTime(t)'
  BY <1>1, <1>3 DEF TypeOK, ThreadInv, HandlersPushed, AttachedCovered, FinishedInTime, BeforeRun
<1>8. \A u \in Thread : u # t => Same(u)
  BY <1>1 DEF DetachStatus, Detach, Pop, Goto, TypeOK, rareVars, Same
<1> QED BY <1>2, <1>4, <1>5, <1>6, <1>7, <1>8, OneThread DEF ThreadInv

LEMMA UnlockFinishedInv == ASSUME ThreadsInv, NEW t \in Thread, UnlockFinished(t)
      PROVE ThreadsInv'
<1>1. TypeOK /\ ThreadInv(t)
  BY DEF ThreadsInv
<1>2. depth[t] \in {4, 5} /\ pc[t] = "fin_unlock"
  BY <1>1 DEF UnlockFinished, ThreadInv, HandlersPushed
<1>3. Innermost(t) = "set_finished" <=> depth[t] = 5
  BY <1>2 DEF Innermost, Handlers
<1>4. /\ depth'[t] = 4 /\ pc'[t] \in {"clear", "unwind"}
      /\ UNCHANGED <<att, bad, ran, fin, nokey>>
  BY <1>1, <1>2, <1>3 DEF UnlockFinished, Pop, Goto, rareVars, TypeOK
<1>5. TypeOK'
  <2>1. pc' \in [Thread -> ThreadPC] /\ depth' \in [Thread -> 0 .. 6]
    BY <1>1, <1>2, <1>3 DEF UnlockFinished, Pop, Goto, TypeOK, ThreadPC
  <2> QED BY <1>1, <2>1 DEF UnlockFinished, TypeOK, rareVars
<1>6. HandlersPushed(t)'
  BY <1>4 DEF HandlersPushed
<1>7. AttachedCovered(t)'
  BY <1>1, <1>2, <1>4 DEF ThreadInv, AttachedCovered, BeforeRun
<1>8. AttachedInTime(t)'
  BY <1>1, <1>2, <1>4 DEF ThreadInv, AttachedInTime, InRun
<1>9. FinishedInTime(t)'
  BY <1>1, <1>2, <1>4 DEF ThreadInv, FinishedInTime
<1>10. \A u \in Thread : u # t => Same(u)
  BY <1>1 DEF UnlockFinished, Pop, Goto, rareVars, TypeOK, Same
<1> QED BY <1>5, <1>6, <1>7, <1>8, <1>9, <1>10, OneThread DEF ThreadInv

(* A cancelled thread: the innermost handler runs, which may end the whole *)
(* process, and the handlers that are left cover what it is attached to.   *)
LEMMA UnwindInv == ASSUME ThreadsInv, NEW t \in Thread, Unwind(t) PROVE ThreadsInv'
<1>1. TypeOK /\ ThreadInv(t)
  BY DEF ThreadsInv
<1>2. /\ pc[t] = "unwind" /\ depth[t] \in 1 .. 6
      /\ depth' = [depth EXCEPT ![t] = @ - 1]
      /\ att' = [att EXCEPT ![t] = @ \ Released(Innermost(t))]
      /\ UNCHANGED <<bad, ran, fin, nokey>>
  BY <1>1 DEF Unwind, Pop, TypeOK
<1>3. \/ pc' = [u \in Thread |-> "gone"]
      \/ pc' = [pc EXCEPT ![t] = IF depth[t] = 5 THEN "fin_lock" ELSE "unwind"]
  <2>1. Innermost(t) = "set_finished" <=> depth[t] = 5
    BY <1>2 DEF Innermost, Handlers
  <2> QED BY <2>1 DEF Unwind, EndProcess, Goto
<1>4. /\ "own" \in Released(Innermost(t)) <=> depth[t] = 6
      /\ "obuf" \in Released(Innermost(t)) <=> depth[t] = 4
      /\ "ibuf" \in Released(Innermost(t)) <=> depth[t] = 3
      /\ "status" \in Released(Innermost(t)) <=> depth[t] = 1
  <2>1. /\ depth[t] = 6 <=> Innermost(t) = "det_own"
        /\ depth[t] = 4 <=> Innermost(t) = "det_obuf"
        /\ depth[t] = 3 <=> Innermost(t) = "det_ibuf"
        /\ depth[t] = 1 <=> Innermost(t) = "det_status"
    BY <1>2 DEF Innermost, Handlers
  <2> HIDE DEF Innermost
  <2> QED BY <2>1 DEF Released, Memory
<1>5. TypeOK'
  <2>1. pc' \in [Thread -> ThreadPC]
    BY <1>1, <1>3 DEF TypeOK, ThreadPC
  <2>2. depth' \in [Thread -> 0 .. 6]
    BY <1>1, <1>2 DEF TypeOK
  <2>3. att' \in [Thread -> SUBSET Memory]
    BY <1>1, <1>2 DEF TypeOK
  <2>4. mpc' \in MainPC
    BY <1>1 DEF Unwind, EndProcess, TypeOK, MainPC
  <2> QED BY <1>1, <2>1, <2>2, <2>3, <2>4 DEF Unwind, TypeOK
<1>6. /\ pc'[t] \in {"gone", IF depth[t] = 5 THEN "fin_lock" ELSE "unwind"}
      /\ depth'[t] = depth[t] - 1
      /\ att'[t] = att[t] \ Released(Innermost(t))
  BY <1>1, <1>2, <1>3 DEF TypeOK
<1>7. HandlersPushed(t)'
  BY <1>2, <1>6 DEF HandlersPushed
<1>8. AttachedCovered(t)'
  <2>1. /\ "own" \in att'[t] => FALSE
        /\ "obuf" \in att'[t] => depth[t] >= 5
        /\ "ibuf" \in att'[t] => depth[t] >= 4
        /\ "status" \in att'[t] => depth[t] >= 2
    BY <1>1, <1>2, <1>4, <1>6 DEF ThreadInv, AttachedCovered
  <2> QED BY <1>1, <1>2, <1>6, <2>1 DEF ThreadInv, AttachedCovered, BeforeRun
<1>9. AttachedInTime(t)'
  BY <1>1, <1>2, <1>4, <1>6 DEF ThreadInv, AttachedInTime, InRun
<1>10. FinishedInTime(t)'
  BY <1>1, <1>2, <1>6 DEF ThreadInv, FinishedInTime
<1>11. ThreadInv(t)'
  BY <1>7, <1>8, <1>9, <1>10 DEF ThreadInv
<1>12. CASE pc' = [u \in Thread |-> "gone"]
  <2>1. ASSUME NEW u \in Thread, u # t PROVE ThreadInv(u)'
    <3>1. ThreadInv(u) /\ pc'[u] = "gone" /\ depth'[u] = depth[u] /\ att'[u] = att[u]
      BY <1>1, <1>2, <1>12, <2>1 DEF ThreadsInv, TypeOK
    <3>2. HandlersPushed(u)' /\ AttachedCovered(u)' /\ AttachedInTime(u)' /\ FinishedInTime(u)'
      BY <1>2, <3>1 DEF ThreadInv, HandlersPushed, AttachedCovered, AttachedInTime,
                        FinishedInTime, InRun
    <3> QED BY <3>2 DEF ThreadInv
  <2> QED BY <1>5, <1>11, <2>1 DEF ThreadsInv
<1>13. CASE pc' = [pc EXCEPT ![t] = IF depth[t] = 5 THEN "fin_lock" ELSE "unwind"]
  <2>1. \A u \in Thread : u # t => Same(u)
    BY <1>1, <1>2, <1>13 DEF TypeOK, Same
  <2> QED BY <1>5, <1>11, <2>1, OneThread
<1> QED BY <1>3, <1>12, <1>13

(* main() moves a thread when it creates it and when it interrupts it.     *)
LEMMA MainStepInv == ASSUME IInv, MainStep \/ Signal PROVE ThreadsInv'
<1>1. TypeOK /\ MainInTime /\ ThreadsInv
  BY DEF IInv, ThreadsInv
<1>2. UNCHANGED <<depth, att, bad, ran, fin, st, nokey>>
  BY DEF rareVars, MainStep, Signal, SetRun, Create, Created, Watch, CancelThread, KillThread, JoinThread
<1>3. CASE UNCHANGED pc
  <2>1. run' \in BOOLEAN
    BY <1>1 DEF TypeOK, MainStep, Signal, SetRun, Create, Created, Watch, CancelThread,
                KillThread, JoinThread, Interrupt
  <2>2. mpc' \in MainPC
    BY <1>1 DEF TypeOK, MainPC, MainStep, Signal, SetRun, Create, Created, Watch, CancelThread,
                KillThread, JoinThread, Turn, EndProcess, rareVars
  <2>3. idx' \in 0 .. NThread
    BY <1>1, ThreadLifeAssumption
       DEF TypeOK, MainStep, Signal, SetRun, Create, Created, Watch, CancelThread,
           KillThread, JoinThread, Turn, rareVars
  <2>4. asked' \subseteq Thread
    BY <1>1 DEF TypeOK, MainInTime, MainStep, Signal, SetRun, Create, Created, Watch,
                CancelThread, KillThread, JoinThread, Turn, rareVars
  <2>5. TypeOK'
    BY <1>1, <1>2, <1>3, <2>1, <2>2, <2>3, <2>4 DEF TypeOK
  <2> QED BY <1>1, <1>2, <1>3, <2>5, MovesInv DEF Moves
<1>4. CASE Create
  <2>1. idx \in Thread /\ pc[idx] = "none"
    BY <1>1, <1>4 DEF Create, TypeOK, MainInTime, Thread
  <2>2. TypeOK'
    <3>1. pc' \in [Thread -> ThreadPC]
      BY <1>1, <1>4, <2>1 DEF Create, EndProcess, Goto, TypeOK, ThreadPC
    <3>2. idx' \in 0 .. NThread /\ mpc' \in MainPC
      BY <1>1, <1>4, <2>1, ThreadLifeAssumption DEF Create, EndProcess, TypeOK, MainPC, Thread
    <3> QED BY <1>1, <1>2, <1>4, <3>1, <3>2 DEF Create, TypeOK
  <2>3. \A u \in Thread : Moves(u)
    BY <1>1, <1>4, <2>1 DEF Create, EndProcess, Goto, TypeOK, Moves
  <2> QED BY <1>1, <1>2, <2>2, <2>3, MovesInv
<1>5. ASSUME NEW t \in Thread, Interrupt(t), pc' # pc, asked' = asked,
             idx' \in 0 .. NThread, mpc' \in MainPC
      PROVE  ThreadsInv'
  <2>1. pc[t] = "wait" /\ pc' = [pc EXCEPT ![t] = "unwind"] /\ run' = FALSE
    BY <1>5 DEF Interrupt, Goto
  <2>2. TypeOK'
    BY <1>1, <1>2, <1>5, <2>1 DEF TypeOK, ThreadPC
  <2>3. \A u \in Thread : Moves(u)
    BY <1>1, <2>1 DEF TypeOK, Moves
  <2> QED BY <1>1, <1>2, <2>2, <2>3, MovesInv
<1>6. CASE KillThread
  <2>1. idx \in Thread /\ idx' \in 0 .. NThread /\ mpc' \in MainPC
    BY <1>1, <1>6, ThreadLifeAssumption DEF KillThread, Turn, TypeOK, MainInTime, MainPC, Thread
  <2> QED BY <1>3, <1>5, <1>6, <2>1 DEF KillThread
<1>7. CASE Signal
  <2>1. idx' \in 0 .. NThread /\ mpc' \in MainPC /\ asked' = asked
    BY <1>1, <1>7 DEF Signal, TypeOK, rareVars
  <2> QED BY <1>3, <1>5, <1>7, <2>1 DEF Signal
<1> QED BY <1>3, <1>4, <1>6, <1>7
        DEF MainStep, SetRun, Created, Watch, CancelThread, JoinThread

(* A thread that runs has been created, and it does not start others.      *)
LEMMA RunMainInv ==
    ASSUME IInv, NEW t \in Thread, RunStep(t) \/ PluginReturns(t)
    PROVE  MainInTime'
<1>1. TypeOK /\ MainInTime
  BY DEF IInv, ThreadsInv
<1>2. pc[t] # "none"
  BY DEF RunStep, PluginReturns, SetAffinity, AttachStatus, CheckInit, AttachIbuf, AttachObuf,
         AttachOwn, Loop, LockStatus, WaitEnds, UseBlock, DetachOwn, SetFinished, UnlockFinished,
         ClearRun, DetachObuf, DetachIbuf, SetExitStatus, DetachStatus, ActOnCancel, Unwind,
         Unwound
<1>3. idx' = idx /\ mpc' \in {mpc, "crashed"}
  BY DEF RunStep, PluginReturns, SetAffinity, AttachStatus, CheckInit, AttachIbuf, AttachObuf,
         AttachOwn, Loop, LockStatus, WaitEnds, UseBlock, DetachOwn, SetFinished, UnlockFinished,
         ClearRun, DetachObuf, DetachIbuf, SetExitStatus, DetachStatus, ActOnCancel, Unwind,
         Unwound, EndProcess, rareVars
<1>4. mpc' = "crashed" \/ \A u \in Thread : u # t => pc'[u] = pc[u]
  BY <1>1
     DEF RunStep, PluginReturns, SetAffinity, AttachStatus, CheckInit, AttachIbuf, AttachObuf,
         AttachOwn, Loop, LockStatus, WaitEnds, UseBlock, DetachOwn, SetFinished, UnlockFinished,
         ClearRun, DetachObuf, DetachIbuf, SetExitStatus, DetachStatus, ActOnCancel, Unwind,
         Unwound, Goto, EndProcess, TypeOK
<1>5. 1 .. idx \subseteq Thread
  BY <1>1, ThreadLifeAssumption DEF TypeOK, Thread
<1> QED BY <1>1, <1>2, <1>3, <1>4, <1>5 DEF MainInTime

LEMMA MainMainInv == ASSUME IInv, MainStep \/ Signal PROVE MainInTime'
<1>1. TypeOK /\ MainInTime
  BY DEF IInv, ThreadsInv
<1>2. CASE SetRun \/ Created \/ Watch \/ CancelThread \/ JoinThread
  BY <1>1, <1>2, ThreadLifeAssumption
     DEF SetRun, Created, Watch, CancelThread, JoinThread, Turn, MainInTime, TypeOK, Thread
<1>3. CASE Create
  <2>1. CASE EndProcess("ended")
    BY <2>1 DEF EndProcess, MainInTime
  <2>2. CASE Goto(idx, "affinity") /\ idx' = idx - 1 /\ mpc' = mpc
    <3>1. mpc = "start" /\ \A u \in 1 .. idx' : u \in 1 .. idx /\ u \in Thread /\ u # idx
      BY <1>1, <1>3, <2>2, ThreadLifeAssumption DEF Create, TypeOK, Thread
    <3>2. \A u \in 1 .. idx' : pc'[u] = "none"
      BY <1>1, <2>2, <3>1 DEF MainInTime, TypeOK, Goto
    <3> QED BY <2>2, <3>1, <3>2 DEF MainInTime
  <2> QED BY <1>3, <2>1, <2>2 DEF Create
<1>4. CASE KillThread
  BY <1>1, <1>4, ThreadLifeAssumption DEF KillThread, Turn, MainInTime, TypeOK, Thread
<1>5. ASSUME NEW t \in Thread, Interrupt(t)
      PROVE \A u \in Thread : pc[u] = "none" => pc'[u] = "none"
  BY <1>1, <1>5 DEF Interrupt, Goto, TypeOK
<1>6. CASE Signal
  <2>1. UNCHANGED rareVars /\ \A u \in Thread : pc[u] = "none" => pc'[u] = "none"
    BY <1>5, <1>6 DEF Signal
  <2>2. mpc' = mpc /\ idx' = idx /\ 1 .. idx \subseteq Thread
    BY <1>1, <2>1, ThreadLifeAssumption DEF rareVars, TypeOK, Thread
  <2> QED BY <1>1, <2>1, <2>2 DEF MainInTime
<1> QED BY <1>2, <1>3, <1>4, <1>6 DEF MainStep

LEMMA StepInv == ASSUME IInv, [Next]_vars PROVE IInv'
<1>1. CASE MainStep \/ Signal
  BY <1>1, MainStepInv, MainMainInv DEF IInv
<1>2. ASSUME NEW t \in Thread, RunStep(t) \/ PluginReturns(t) PROVE IInv'
  <2>1. ThreadsInv
    BY DEF IInv
  <2>2. ThreadsInv'
    BY <1>2, <2>1, MoveInv, AttachStatusInv, CheckInitInv, AttachIbufInv, AttachObufInv,
       AttachOwnInv, DetachOwnInv, SetFinishedInv, UnlockFinishedInv, DetachObufInv,
       DetachIbufInv, SetExitStatusInv, DetachStatusInv, UnwindInv
       DEF RunStep
  <2> QED BY <1>2, <2>2, RunMainInv DEF IInv
<1>3. CASE UNCHANGED vars
  BY <1>3 DEF vars, IInv, ThreadsInv, MainInTime, TypeOK, ThreadInv, HandlersPushed,
              AttachedCovered, AttachedInTime, FinishedInTime, InRun
<1> QED BY <1>1, <1>2, <1>3 DEF Next

LEMMA Invariance == Spec => []IInv
BY InitInv, StepInv, PTL DEF Spec

(* The process's state has the values its code can store.                  *)
THEOREM TypeCorrect == Spec => []TypeOK
<1>1. IInv => TypeOK
  BY DEF IInv, ThreadsInv
<1> QED BY <1>1, Invariance, PTL

(* However a thread that ran ends -- it returns, it is cancelled, or it    *)
(* calls pthread_exit() -- its cancellation handlers have detached it from *)
(* everything it attached to (hashpipe.c, hashpipe_thread_run()).          *)
THEOREM Undone == Spec => []AllDetached
<1>1. ASSUME IInv PROVE AllDetached
  <2> SUFFICES ASSUME NEW t \in Thread, Ended(t)
               PROVE  depth[t] = 0 /\ att[t] \subseteq {"status"} /\ (ran[t] => att[t] = {})
    BY DEF AllDetached
  <2>1. ThreadInv(t) /\ att[t] \subseteq Memory
    BY <1>1 DEF IInv, ThreadsInv, TypeOK
  <2>2. depth[t] = 0 /\ pc[t] = "ended"
    BY <2>1 DEF ThreadInv, HandlersPushed, Ended
  <2>3. /\ "own" \notin att[t] /\ "obuf" \notin att[t] /\ "ibuf" \notin att[t]
        /\ ran[t] => "status" \notin att[t]
    BY <2>1, <2>2 DEF ThreadInv, AttachedCovered
  <2> QED BY <2>1, <2>2, <2>3 DEF Memory
<1> QED BY <1>1, Invariance, PTL

(* What hashpipe_thread_run() passes to run() is attached for as long as   *)
(* run() may use it, and the status buffer at every status update; a       *)
(* thread that is not attached to that has taken a key error of            *)
(* hashpipe_status_attach() for success, and does not get past its first   *)
(* status update.                                                          *)
THEOREM AttachedWhileUsed == Spec => []UsesAttached
<1>1. ASSUME IInv PROVE UsesAttached
  <2> SUFFICES ASSUME NEW t \in Thread
               PROVE  /\ InRun(t) => /\ t \in HasIbuf => "ibuf" \in att[t]
                                     /\ t \in HasObuf => "obuf" \in att[t]
                      /\ t \in NullThread /\ pc[t] \in {"wait", "busy"} => "own" \in att[t]
                      /\ pc[t] \in {"wait", "busy"} => "status" \in att[t]
                      /\ pc[t] \in {"ibuf", "lock", "exit_lock"} =>
                             "status" \in att[t] \/ t \in nokey
    BY DEF UsesAttached
  <2>1. ThreadInv(t)
    BY <1>1 DEF IInv, ThreadsInv
  <2>2. pc[t] \in {"ibuf", "lock", "exit_lock"} => depth[t] >= 1
    BY <2>1 DEF ThreadInv, HandlersPushed, LoopDepth
  <2> QED BY <2>1, <2>2 DEF ThreadInv, AttachedInTime
<1> QED BY <1>1, Invariance, PTL

(* hashpipe_thread_finished() is true of every thread that ran and ended,  *)
(* whichever way it ended.                                                 *)
THEOREM Told == Spec => []FinishedTold
<1>1. ASSUME IInv PROVE FinishedTold
  <2> SUFFICES ASSUME NEW t \in Thread, Ended(t), ran[t] PROVE fin[t]
    BY DEF FinishedTold
  <2>1. ThreadInv(t)
    BY <1>1 DEF IInv, ThreadsInv
  <2> QED BY <2>1 DEF ThreadInv, HandlersPushed, FinishedInTime, Ended
<1> QED BY <1>1, Invariance, PTL
=============================================================================
