-------------------------- MODULE StatusLockProofs --------------------------
(***************************************************************************)
(* Until a thread acts on its cancellation while it waits for the lock,    *)
(* the status lock excludes, for any number of threads and tools,          *)
(* whichever threads are cancelled elsewhere and tools killed.             *)
(***************************************************************************)
EXTENDS StatusLock, TLAPS

LEMMA InitType == Init => TypeOK
BY DEF Init, TypeOK, PC

LEMMA StepType == TypeOK /\ [Next]_vars => TypeOK'
<1> SUFFICES ASSUME TypeOK, [Next]_vars PROVE TypeOK'
  OBVIOUS
<1>1. ASSUME NEW a \in Actor, Call(a) \/ Search(a) \/ Store(a) \/ Lock(a) PROVE TypeOK'
  BY <1>1 DEF Call, Search, Store, Lock, Goto, TypeOK, PC
<1>2. ASSUME NEW a \in Actor, GetValue(a) \/ Post(a) PROVE TypeOK'
  BY <1>2 DEF GetValue, Post, Finish, Goto, TypeOK, PC
<1>3. ASSUME NEW a \in Actor, Cancel(a) \/ Cancelled(a) \/ Killed(a) PROVE TypeOK'
  BY <1>3 DEF Cancel, Cancelled, Killed, Goto, TypeOK, PC
<1> QED BY <1>1, <1>2, <1>3 DEF Next, ActorStep, vars, TypeOK

(* What holds until a thread runs its cancellation handler.                *)
Sound ==
    /\ MutualExclusion
    /\ value = IF Held THEN 0 ELSE 1
    /\ \A a \in Actor : pc[a] = "store" => seen[a] = keys

LEMMA Parts == IInv <=> TypeOK /\ (ending = {} => Sound)
BY DEF IInv, Exclusive, ValueTells, Snapshot, Sound

LEMMA InitInv == Init => IInv
BY InitType, Parts DEF Init, Sound, Held, MutualExclusion, Holder

(* The actor that unlocks is the holder, finds the value 0, and posts it.  *)
LEMMA StepSound ==
  ASSUME TypeOK, Sound, ending = {}, ending' = {}, [Next]_vars
  PROVE  Sound'
<1>1. ASSUME NEW a \in Actor, Call(a) PROVE Sound'
  BY <1>1 DEF Call, Goto, TypeOK, Sound, Held, MutualExclusion, Holder
<1>2. ASSUME NEW a \in Actor, Lock(a) PROVE Sound'
  <2>1. value = 1 /\ value' = 0 /\ \A b \in Actor : ~Holder(b) /\ pc[b] # "died"
    BY <1>2 DEF Lock, Sound, Held
  <2>2. \A b \in Actor : pc'[b] # "died" /\ (Holder(b)' => b = a)
    BY <1>2, <2>1 DEF Lock, Goto, TypeOK, Holder
  <2>3. \A b \in Actor : pc'[b] = "store" => seen'[b] = keys'
    BY <1>2 DEF Lock, Goto, TypeOK, Sound, Held
  <2>4. Holder(a)'
    BY <1>2, <2>1 DEF Lock, Goto, TypeOK, Holder, Sound
  <2> QED BY <2>1, <2>2, <2>3, <2>4 DEF Sound, Held, MutualExclusion
<1>3. ASSUME NEW a \in Actor, Search(a) PROVE Sound'
  <2>1. \A b \in Actor : Holder(b)' <=> Holder(b)
    BY <1>3 DEF Search, Goto, TypeOK, Holder
  <2>2. \A b \in Actor : pc'[b] = "died" <=> pc[b] = "died"
    BY <1>3 DEF Search, Goto, TypeOK
  <2>3. \A b \in Actor : pc'[b] = "store" => seen'[b] = keys'
    BY <1>3 DEF Search, Goto, TypeOK, Sound, Held
  <2>4. Held' <=> Held
    BY <2>1, <2>2 DEF Held
  <2> QED BY <1>3, <2>1, <2>2, <2>3, <2>4 DEF Search, Sound, MutualExclusion
<1>4. ASSUME NEW a \in Actor, Store(a) PROVE Sound'
  <2>1. \A b \in Actor : Holder(b)' <=> Holder(b)
    BY <1>4 DEF Store, Goto, TypeOK, Holder
  <2>2. \A b \in Actor : pc'[b] = "died" <=> pc[b] = "died"
    BY <1>4 DEF Store, Goto, TypeOK
  <2>3. \A b \in Actor : pc'[b] = "store" => Holder(b) /\ b # a
    BY <1>4 DEF Store, Goto, TypeOK, Holder
  <2>4. Holder(a)
    BY <1>4 DEF Store, Holder
  <2>5. \A b \in Actor : pc'[b] # "store"
    BY <2>3, <2>4 DEF Sound, Held, MutualExclusion
  <2>6. Held' <=> Held
    BY <2>1, <2>2 DEF Held
  <2> QED BY <1>4, <2>1, <2>2, <2>5, <2>6 DEF Store, Sound, MutualExclusion
<1>5. ASSUME NEW a \in Actor, GetValue(a) PROVE Sound'
  <2>1. Holder(a) /\ value = 0
    BY <1>5 DEF GetValue, Holder, Sound, Held
  <2>2. pc' = [pc EXCEPT ![a] = "post"] /\ UNCHANGED <<value, pending, ending, keys, seen>>
    BY <1>5, <2>1 DEF GetValue, Goto
  <2>3. \A b \in Actor : Holder(b)' <=> Holder(b)
    BY <1>5, <2>2 DEF GetValue, TypeOK, Holder
  <2>4. \A b \in Actor : (pc'[b] = "store" => pc[b] = "store") /\ (pc'[b] = "died" => pc[b] = "died")
    BY <2>2 DEF TypeOK
  <2> QED BY <2>1, <2>2, <2>3, <2>4 DEF Sound, Held, MutualExclusion
<1>6. ASSUME NEW a \in Actor, Post(a) PROVE Sound'
  <2>1. Holder(a) /\ value = 0 /\ value' = 1
    BY <1>6 DEF Post, Holder, Sound, Held
  <2>2. pc' = [pc EXCEPT ![a] = "idle"] /\ UNCHANGED <<pending, ending, keys, seen>>
    BY <1>6 DEF Post, Finish, Goto
  <2>3. \A b \in Actor : ~Holder(b)'
    BY <2>1, <2>2 DEF TypeOK, Sound, Held, MutualExclusion, Holder
  <2>4. \A b \in Actor : pc'[b] # "died"
    BY <2>1, <2>2 DEF TypeOK, Sound, Held, MutualExclusion, Holder
  <2> QED BY <2>1, <2>2, <2>3, <2>4 DEF Sound, Held, MutualExclusion
<1>7. ASSUME NEW a \in Actor, Cancel(a) PROVE Sound'
  BY <1>7 DEF Cancel, Sound, Held, MutualExclusion, Holder
<1>8. ASSUME NEW a \in Actor, Cancelled(a) PROVE FALSE
  BY <1>8 DEF Cancelled
<1>9. ASSUME NEW a \in Actor, Killed(a) PROVE Sound'
  <2>1. \A b \in Actor : Holder(b)' => Holder(b)
    BY <1>9 DEF Killed, Goto, TypeOK, Holder
  <2>2. value' = value
    BY <1>9 DEF Killed
  <2>3. \A b \in Actor : pc'[b] = "died" => pc[b] = "died" \/ (b = a /\ Holder(a) /\ ~Holder(a)')
    BY <1>9 DEF Killed, Goto, TypeOK, Holder
  <2>4. \A b \in Actor : pc'[b] = "store" => pc[b] = "store"
    BY <1>9 DEF Killed, Goto, TypeOK
  <2>5. Held' <=> Held
    <3>1. pc'[a] = IF Holder(a) THEN "died" ELSE "ended"
      BY <1>9 DEF Killed, Goto, TypeOK
    <3>2. \A b \in Actor : b # a => pc'[b] = pc[b]
      BY <1>9 DEF Killed, Goto, TypeOK
    <3>3. ending' = ending /\ pc[a] # "died"
      BY <1>9 DEF Killed
    <3> QED BY <3>1, <3>2, <3>3 DEF Held, Holder
  <2> QED BY <1>9, <2>1, <2>2, <2>3, <2>4, <2>5 DEF Killed, Sound, MutualExclusion
<1>10. CASE UNCHANGED vars
  BY <1>10 DEF vars, Sound, Held, MutualExclusion, Holder
<1> QED
  BY <1>1, <1>2, <1>3, <1>4, <1>5, <1>6, <1>7, <1>8, <1>9, <1>10 DEF Next, ActorStep

(* A thread that runs its handler goes on doing so until it has ended.     *)
LEMMA EndingGrows == [Next]_vars => ending \subseteq ending'
BY DEF Next, ActorStep, vars, Call, Lock, Search, Store, GetValue, Post, Cancel,
     Cancelled, Killed

LEMMA Invariance == Spec => []IInv
<1>1. IInv /\ [Next]_vars => IInv'
  <2> SUFFICES ASSUME IInv, [Next]_vars PROVE IInv'
    OBVIOUS
  <2>1. TypeOK'
    BY StepType DEF IInv
  <2>2. ending' = {} => Sound'
    BY StepSound, EndingGrows, Parts
  <2> QED BY <2>1, <2>2 DEF IInv, Exclusive, ValueTells, Snapshot, Sound
<1> QED BY <1>1, InitInv, PTL DEF Spec

(* The lock stays well typed.                                              *)
THEOREM TypeCorrect == Spec => []TypeOK
<1>1. IInv => TypeOK
  BY DEF IInv
<1> QED BY <1>1, Invariance, PTL

(* At most one actor is between lock and unlock, until a thread acts on    *)
(* its cancellation while it waits.                                        *)
THEOREM Exclusion == Spec => []Exclusive
<1>1. IInv => Exclusive
  BY DEF IInv
<1> QED BY <1>1, Invariance, PTL

(* Until then the value of the semaphore is 0 when an actor has the lock   *)
(* or was killed with it, and 1 when nobody has.                           *)
THEOREM ValueRight == Spec => []ValueTells
<1>1. IInv => ValueTells
  BY DEF IInv
<1> QED BY <1>1, Invariance, PTL

(* Until then, no store loses another actor's record.                      *)
THEOREM RecordsKept == Spec => NoLostRecord
<1>1. IInv /\ [Next]_vars => [ending = {} => keys \subseteq keys']_vars
  BY DEF IInv, Snapshot, Next, ActorStep, Call, Lock, Search, Store, GetValue, Post,
         Cancel, Cancelled, Killed
<1> QED BY <1>1, Invariance, PTL DEF Spec, NoLostRecord
=============================================================================
