-------------------------- MODULE DatabufShmProofs --------------------------
(***************************************************************************)
(* Proofs about DatabufShm, for every number of creators, users and        *)
(* cleaners, whoever of them is killed, and all the sizes they ask for.    *)
(* Steps that only move a process are covered by one lemma; there is one   *)
(* more for each kind of step that changes the segments, a header or the   *)
(* semaphore sets.                                                         *)
(***************************************************************************)
EXTENDS DatabufShm, TLAPS

USE DatabufShmAssumption

LEMMA NamesDiffer ==
    /\ None \notin Set /\ Error \notin Set
    /\ None # Zero /\ None # Error /\ Zero # Error
    /\ None \notin Creator /\ Zero \notin Creator
BY DEF Set

LEMMA InitInv == Init => IInv
<1> SUFFICES ASSUME Init PROVE IInv
  OBVIOUS
<1>1. TypeOK
  <2>1. hdr \in [Creator -> Header]
    BY DEF Init, Header, Set
  <2>2. pc \in [Process -> PC] /\ seg \in [Process -> Creator \cup {None}]
    BY DEF Init, PC
  <2> QED BY <2>1, <2>2 DEF Init, TypeOK
<1>2. PlacedCreators /\ PlacedOthers /\ Known
  BY DEF Init, PlacedCreators, PlacedOthers, Known, Process
<1>3. HeaderRight /\ SizeRight /\ HeaderEnough /\ OneSet /\ SetsRight /\ ZeroOnlyOnce
  BY NamesDiffer DEF Init, HeaderRight, Unfilled, SizeRight, Verified, HeaderEnough, OneSet, SetsRight, Enough,
     ZeroOnlyOnce, Process
<1>4. OverlapSeen /\ Orderly
  BY DEF Init, OverlapSeen, Overlapping, Orderly, Creating, Cleaning, Process
<1> QED BY <1>1, <1>2, <1>3, <1>4 DEF IInv

(* What is enough stays so: a set that was made does not shrink, it is     *)
(* removed at most.                                                        *)
LEMMA EnoughKept ==
    ASSUME \A q \in Set : Made(q) => Made(q)' /\ nsem'[q] \in {nsem[q], 0},
           NEW q, NEW n, Enough(q, n)
    PROVE  Enough(q, n)'
BY DEF Enough

LEMMA HeaderEnoughKept ==
    ASSUME IInv, \A q \in Set : Made(q) => Made(q)' /\ nsem'[q] \in {nsem[q], 0},
           UNCHANGED hdr
    PROVE  HeaderEnough'
BY EnoughKept DEF IInv, HeaderEnough

-----------------------------------------------------------------------------
(* Steps that only move a process, attach it or detach it                  *)

Moves(p, l) ==
    \/ l = "exited"
    \/ /\ p \in Creator
       /\ \/ pc[p] = "start" /\ l \in {"smaller", "getold"}
          \/ pc[p] = "shmat" /\ l = (IF p \in fresh THEN "shmlock" ELSE "verify")
          \/ pc[p] = "verify" /\ l = "shmlock" /\ hdr[seg[p]].nblock = want[p]
          \/ pc[p] = "shmlock" /\ l = (IF p \in fresh THEN "fill" ELSE "semget")
          \/ pc[p] = "setall" /\ l = "done"
    \/ p \in User /\ pc[p] = "shmat" /\ l = "wait"
    \/ p \in User /\ pc[p] = "wait" /\ l = "past"
    \/ p \in Cleaner /\ pc[p] = "shmat" /\ l = "rmsem"

LEMMA MoveInv ==
    ASSUME IInv, NEW p \in Process, NEW l, Moves(p, l), Goto(p, l),
           att' \in {att, att \cup {p}, att \ {p}}, p \in att' => seg[p] # None,
           UNCHANGED <<key, hdr, semkey, nsem, zero, want, seg, fresh, got>>
    PROVE  IInv'
<1>1. /\ pc' = [pc EXCEPT ![p] = l] /\ pc \in [Process -> PC] /\ l \in PC
      /\ overlap' = (overlap \/ Overlapping')
  BY DEF Goto, Moves, PC, IInv, TypeOK
<1>2. TypeOK'
  <2>1. pc' \in [Process -> PC] /\ overlap' \in BOOLEAN
    BY <1>1 DEF Overlapping, IInv, TypeOK
  <2>2. att' \subseteq {q \in Process : seg'[q] # None}
    BY DEF IInv, TypeOK
  <2> QED BY <2>1, <2>2 DEF IInv, TypeOK
<1>3. PlacedCreators'
  BY <1>1 DEF IInv, PlacedCreators, Moves, Process
<1>4. PlacedOthers'
  BY <1>1 DEF IInv, PlacedOthers, Moves, Process
<1>5. Known'
  BY DEF IInv, Known
<1>6. HeaderRight'
  BY <1>1 DEF IInv, HeaderRight, Filled, Unfilled, Moves, Process, PlacedCreators
<1>7. SizeRight'
  BY <1>1 DEF IInv, SizeRight, Verified, Moves, Process
<1>8. OneSet' /\ ZeroOnlyOnce'
  BY DEF IInv, OneSet, ZeroOnlyOnce
<1>9. SetsRight'
  <2>1. \A q \in Set : Made(q) => Made(q)'
    BY <1>1 DEF Made, Moves, Process, Set, IInv, PlacedCreators
  <2> QED BY <1>1, <2>1, NamesDiffer DEF IInv, TypeOK, SetsRight, Enough, Moves, Process, Set
<1>10. OverlapSeen' /\ Orderly'
  <2>1. ~overlap' => ~overlap
    BY <1>1
  <2>2. \A c \in Creator : Creating(c)' => Creating(c) \/ seg[c] = None
    BY <1>1 DEF Creating, Moves, Process, IInv, PlacedCreators
  <2>3. \A k \in Cleaner : pc'[k] = "rmseg" => pc[k] = "rmseg"
    BY <1>1 DEF Moves, Process
  <2> QED BY <1>1, <2>1, <2>2, <2>3 DEF IInv, OverlapSeen, Orderly
<1>11. HeaderEnough'
  <2>1. \A q \in Set : Made(q) => Made(q)'
    BY <1>1 DEF Made, Moves, Process, Set, IInv, PlacedCreators
  <2> QED BY <2>1, HeaderEnoughKept
<1> QED BY <1>2, <1>3, <1>4, <1>5, <1>6, <1>7, <1>8, <1>9, <1>10, <1>11 DEF IInv

-----------------------------------------------------------------------------
(* Steps of shmget()                                                       *)

LEMMA NewSegmentInv ==
    ASSUME IInv, NEW c \in Creator, pc[c] \in {"start", "smaller"}, NewSegment(c),
           UNCHANGED <<hdr, semkey, nsem, zero, want, att, got>>
    PROVE  IInv'
<1>1. /\ pc' = [pc EXCEPT ![c] = "shmat"] /\ overlap' = (overlap \/ Overlapping')
      /\ key = None /\ key' = c /\ fresh' = fresh \cup {c}
      /\ seg' = [seg EXCEPT ![c] = c] /\ c \in Process
  BY DEF NewSegment, Goto, Process
<1>2. pc \in [Process -> PC] /\ seg \in [Process -> Creator \cup {None}]
  BY DEF IInv, TypeOK
<1>3. seg[c] = None /\ c \notin fresh
  BY DEF IInv, PlacedCreators
<1>4. TypeOK'
  <2>1. pc' \in [Process -> PC] /\ overlap' \in BOOLEAN
    BY <1>1, <1>2 DEF Overlapping, IInv, TypeOK, PC
  <2>2. seg' \in [Process -> Creator \cup {None}]
    BY <1>1, <1>2
  <2>3. att' \subseteq {q \in Process : seg'[q] # None}
    BY <1>1, <1>2, <1>3 DEF IInv, TypeOK
  <2> QED BY <1>1, <2>1, <2>2, <2>3 DEF IInv, TypeOK
<1>5. PlacedCreators'
  BY <1>1, <1>2, NamesDiffer DEF IInv, PlacedCreators, Process
<1>6. PlacedOthers'
  BY <1>1, <1>2 DEF IInv, PlacedOthers, Process
<1>7. Known'
  BY <1>1, <1>2 DEF IInv, Known
<1>8. HeaderRight' /\ SizeRight'
  BY <1>1, <1>2, <1>3 DEF IInv, HeaderRight, Filled, Unfilled, SizeRight, Verified, Process
<1>9. OneSet' /\ ZeroOnlyOnce'
  BY DEF IInv, OneSet, ZeroOnlyOnce
<1>10. SetsRight'
  <2>1. \A q \in Set : Made(q) => Made(q)'
    BY <1>1, <1>2 DEF Made, Process, Set
  <2>2. \A d \in Creator : pc'[d] \in {"setall", "done"} => pc[d] \in {"setall", "done"} /\ seg'[d] = seg[d]
    BY <1>1, <1>2 DEF Process
  <2> QED BY <1>1, <2>1, <2>2, NamesDiffer DEF IInv, TypeOK, SetsRight, Enough, Set
<1>11. OverlapSeen' /\ Orderly'
  <2>1. ~overlap' => ~overlap
    BY <1>1
  <2>2. \A d \in Creator : Creating(d)' => d = c \/ (Creating(d) /\ seg'[d] = seg[d])
    BY <1>1, <1>2 DEF Creating, Process
  <2>3. \A k \in Cleaner : pc'[k] = "rmseg" => pc[k] = "rmseg" /\ seg'[k] = seg[k]
    BY <1>1, <1>2 DEF Process
  <2>4. seg'[c] = key' /\ key = None
    BY <1>1, <1>2
  <2>5. Orderly'
    BY <1>1, <2>1, <2>2, <2>3, <2>4, NamesDiffer DEF IInv, Orderly
  <2> QED BY <1>1, <2>5 DEF OverlapSeen
<1>12. HeaderEnough'
  <2>1. \A q \in Set : Made(q) => Made(q)'
    BY <1>1, <1>2 DEF Made, Process, Set
  <2> QED BY <2>1, HeaderEnoughKept
<1> QED BY <1>4, <1>5, <1>6, <1>7, <1>8, <1>9, <1>10, <1>11, <1>12 DEF IInv

(* The segment that is under the key.                                      *)
LEMMA FindInv ==
    ASSUME IInv, NEW p \in Process, key # None, seg' = [seg EXCEPT ![p] = key], Goto(p, "shmat"),
           \/ p \in Creator /\ pc[p] = "getold"
           \/ p \in User \cup Cleaner /\ pc[p] = "find",
           UNCHANGED <<key, hdr, semkey, nsem, zero, want, att, fresh, got>>
    PROVE  IInv'
<1>1. pc' = [pc EXCEPT ![p] = "shmat"] /\ overlap' = (overlap \/ Overlapping')
  BY DEF Goto
<1>2. pc \in [Process -> PC] /\ seg \in [Process -> Creator \cup {None}]
  BY DEF IInv, TypeOK
<1>3. TypeOK'
  <2>1. pc' \in [Process -> PC] /\ overlap' \in BOOLEAN
    BY <1>1, <1>2 DEF Overlapping, IInv, TypeOK, PC
  <2>2. seg' \in [Process -> Creator \cup {None}]
    BY <1>2 DEF IInv, TypeOK
  <2>3. att' \subseteq {q \in Process : seg'[q] # None}
    BY <1>2 DEF IInv, TypeOK
  <2> QED BY <2>1, <2>2, <2>3 DEF IInv, TypeOK
<1>4. PlacedCreators'
  BY <1>1, <1>2 DEF IInv, PlacedCreators, Process
<1>5. PlacedOthers'
  BY <1>1, <1>2 DEF IInv, PlacedOthers, Process
<1>6. Known'
  BY <1>1, <1>2 DEF IInv, Known
<1>7. HeaderRight' /\ SizeRight'
  BY <1>1, <1>2 DEF IInv, HeaderRight, Filled, Unfilled, SizeRight, Verified, Process, PlacedCreators
<1>8. OneSet' /\ ZeroOnlyOnce'
  BY DEF IInv, OneSet, ZeroOnlyOnce
<1>9. SetsRight'
  <2>1. \A q \in Set : Made(q) => Made(q)'
    BY <1>1, <1>2 DEF Made, Process, Set
  <2>2. \A d \in Creator : pc'[d] \in {"setall", "done"} => pc[d] \in {"setall", "done"} /\ seg'[d] = seg[d]
    BY <1>1, <1>2 DEF Process
  <2> QED BY <1>1, <2>1, <2>2, NamesDiffer DEF IInv, TypeOK, SetsRight, Enough, Set
<1>10. Orderly'
  <2>1. ~overlap' => ~overlap
    BY <1>1
  <2>2. \A d \in Creator : Creating(d)' => seg'[d] = key \/ (Creating(d) /\ seg'[d] = seg[d])
    BY <1>1, <1>2 DEF Creating, Process
  <2>3. \A k \in Cleaner : pc'[k] = "rmseg" => pc[k] = "rmseg" /\ seg'[k] = seg[k]
    BY <1>1, <1>2 DEF Process
  <2> QED BY <1>1, <2>1, <2>2, <2>3, NamesDiffer DEF IInv, Orderly
<1>11. OverlapSeen'
  BY <1>1 DEF OverlapSeen
<1>12. HeaderEnough'
  <2>1. \A q \in Set : Made(q) => Made(q)'
    BY <1>1, <1>2 DEF Made, Process, Set
  <2> QED BY <2>1, HeaderEnoughKept
<1> QED BY <1>3, <1>4, <1>5, <1>6, <1>7, <1>8, <1>9, <1>10, <1>11, <1>12 DEF IInv

-----------------------------------------------------------------------------
(* The header and the semaphore set                                        *)

LEMMA FillInv ==
    ASSUME IInv, NEW c \in Creator, Fill(c)
    PROVE  IInv'
<1>1. /\ pc' = [pc EXCEPT ![c] = "semget"] /\ overlap' = (overlap \/ Overlapping')
      /\ pc[c] = "fill" /\ c \in Process
  BY DEF Fill, Goto, Process
<1>2. pc \in [Process -> PC] /\ hdr \in [Creator -> Header]
  BY DEF IInv, TypeOK
<1>3. c \in fresh /\ seg[c] = c /\ Unfilled(c)
  BY <1>1 DEF IInv, PlacedCreators, HeaderRight, Filled
<1>4. hdr' = [hdr EXCEPT ![c] = [shmid |-> c, semid |-> Zero, nblock |-> want[c]]]
  BY <1>3 DEF Fill
<1>5. UNCHANGED <<key, semkey, nsem, zero, want, seg, att, fresh, got>>
  BY DEF Fill
<1>6. TypeOK'
  <2>1. pc' \in [Process -> PC] /\ overlap' \in BOOLEAN
    BY <1>1, <1>2 DEF Overlapping, IInv, TypeOK, PC
  <2>2. hdr' \in [Creator -> Header]
    BY <1>2, <1>4 DEF Header, Set, IInv, TypeOK
  <2> QED BY <1>5, <2>1, <2>2 DEF IInv, TypeOK
<1>7. PlacedCreators' /\ PlacedOthers' /\ Known'
  BY <1>1, <1>2, <1>3, <1>5, NamesDiffer DEF IInv, PlacedCreators, PlacedOthers, Known, Process
<1>8. HeaderRight'
  BY <1>1, <1>2, <1>3, <1>4, <1>5 DEF IInv, HeaderRight, Filled, Unfilled, Process
<1>9. SizeRight'
  <2> SUFFICES ASSUME NEW d \in Creator, Verified(d)' PROVE hdr'[seg[d]].nblock = want[d]
    BY <1>5 DEF SizeRight
  <2>1. seg[d] \in Creator
    BY <1>1, <1>2, <1>5 DEF Verified, IInv, PlacedCreators, TypeOK, Process
  <2>2. CASE seg[d] = c
    <3>1. d # c => hdr[c].nblock = want[d] /\ want[d] # 0
      BY <1>1, <1>2, <1>5, <2>2 DEF Verified, IInv, SizeRight, TypeOK, Process
    <3>2. d = c
      BY <1>3, <3>1 DEF Unfilled
    <3> QED BY <1>2, <1>4, <2>2, <3>2
  <2>3. CASE seg[d] # c
    BY <1>1, <1>2, <1>3, <1>4, <1>5, <2>1, <2>3 DEF Verified, IInv, SizeRight, Process
  <2> QED BY <2>2, <2>3
<1>10. OneSet' /\ ZeroOnlyOnce'
  BY <1>5 DEF IInv, OneSet, ZeroOnlyOnce
<1>11. SetsRight'
  <2>1. \A q \in Set : Made(q) => Made(q)'
    BY <1>1, <1>2, <1>5 DEF Made, Process, Set
  <2>2. \A s \in Creator : hdr'[s].semid = hdr[s].semid
    BY <1>2, <1>3, <1>4 DEF Unfilled
  <2>3. \A d \in Creator : pc'[d] \in {"setall", "done"} => pc[d] \in {"setall", "done"} /\ seg[d] \in Creator
    BY <1>1, <1>2 DEF Process, IInv, PlacedCreators, TypeOK
  <2>4. \A d \in Creator : pc'[d] = "store" => pc[d] = "store"
    BY <1>1, <1>2 DEF Process
  <2> QED BY <1>5, <2>1, <2>2, <2>3, <2>4, NamesDiffer DEF IInv, TypeOK, SetsRight, Enough, Set
<1>12. Orderly'
  <2>1. ~overlap' => ~overlap
    BY <1>1
  <2>2. \A d \in Creator : Creating(d)' => Creating(d)
    BY <1>1, <1>2 DEF Creating, Process
  <2>3. \A k \in Cleaner : pc'[k] = "rmseg" => pc[k] = "rmseg" /\ seg[k] \in Creator
    BY <1>1, <1>2 DEF Process, IInv, TypeOK, PlacedOthers
  <2>4. \A s \in Creator : hdr'[s].semid = hdr[s].semid
    BY <1>2, <1>3, <1>4 DEF Unfilled
  <2> QED BY <1>5, <2>1, <2>2, <2>3, <2>4 DEF IInv, Orderly
<1>13. OverlapSeen'
  BY <1>1 DEF OverlapSeen
<1>14. HeaderEnough'
  <2>1. \A q \in Set : Made(q) => Made(q)'
    BY <1>1, <1>2, <1>5 DEF Made, Process, Set
  <2>2. \A s \in Creator : s # c => hdr'[s] = hdr[s]
    BY <1>2, <1>4
  <2>3. hdr'[c].semid = Zero
    BY <1>2, <1>4
  <2>4. \A s \in Creator : hdr'[s].semid # Zero => Enough(hdr[s].semid, hdr[s].nblock) /\ hdr'[s] = hdr[s]
    BY <2>2, <2>3 DEF IInv, HeaderEnough
  <2> QED BY <1>5, <2>1, <2>4, EnoughKept DEF HeaderEnough
<1> QED BY <1>6, <1>7, <1>8, <1>9, <1>10, <1>11, <1>12, <1>13, <1>14 DEF IInv

LEMMA SemGetInv ==
    ASSUME IInv, NEW c \in Creator, SemGet(c)
    PROVE  IInv'
<1> DEFINE q == IF zero THEN Zero ELSE c
           New == NewSet(c)
<1>1. /\ pc' = [pc EXCEPT ![c] = "store"] /\ overlap' = (overlap \/ Overlapping')
      /\ pc[c] = "semget" /\ c \in Process
      /\ UNCHANGED <<key, hdr, want, seg, att, fresh>>
  BY DEF SemGet, Goto, Process
<1>2. /\ pc \in [Process -> PC] /\ got \in [Creator -> Set \cup {None, Error}]
      /\ nsem \in [Set -> NBlocks \cup {0}] /\ want[c] \in Nat \ {0} /\ q \in Set
  BY DEF IInv, TypeOK, Set
<1>3. ~New => /\ got' = [got EXCEPT ![c] = IF semkey # None /\ nsem[semkey] >= want[c] THEN semkey ELSE Error]
              /\ UNCHANGED <<semkey, nsem, zero>>
  BY DEF SemGet
<1>4. New => /\ semkey = None /\ semkey' = q /\ nsem' = [nsem EXCEPT ![q] = want[c]]
             /\ zero' = FALSE /\ got' = [got EXCEPT ![c] = q]
  BY DEF NewSet
<1>5. New => ~Made(q) /\ Made(q)'
  BY <1>1, <1>2, <1>4, NamesDiffer DEF Made
<1>6. \A r \in Set : Made(r) => Made(r)'
  BY <1>1, <1>2, <1>3, <1>4 DEF Made, Process, Set
<1>7. \A r \in Set : Made(r) => nsem'[r] = nsem[r]
  BY <1>2, <1>3, <1>4, <1>5
<1>8. TypeOK'
  <2>1. pc' \in [Process -> PC] /\ overlap' \in BOOLEAN
    BY <1>1, <1>2 DEF Overlapping, IInv, TypeOK, PC
  <2>2. CASE New
    <3>1. /\ nsem' \in [Set -> NBlocks \cup {0}] /\ got' \in [Creator -> Set \cup {None, Error}]
          /\ semkey' \in Set \cup {None} /\ zero' \in BOOLEAN
      <4>1. want[c] \in NBlocks
        BY DEF IInv, TypeOK
      <4>2. nsem' \in [Set -> NBlocks \cup {0}]
        BY <1>2, <1>4, <2>2, <4>1
      <4>3. got' \in [Creator -> Set \cup {None, Error}]
        BY <1>2, <1>4, <2>2
      <4> QED BY <1>2, <1>4, <2>2, <4>2, <4>3
    <3> QED BY <1>1, <2>1, <3>1 DEF IInv, TypeOK
  <2>3. CASE ~New
    BY <1>1, <1>2, <1>3, <2>1, <2>3, NamesDiffer DEF IInv, TypeOK
  <2> QED BY <2>2, <2>3
<1>9. PlacedCreators' /\ PlacedOthers' /\ Known'
  BY <1>1, <1>2 DEF IInv, PlacedCreators, PlacedOthers, Known, Process
<1>10. HeaderRight' /\ SizeRight'
  BY <1>1, <1>2 DEF IInv, HeaderRight, Filled, Unfilled, SizeRight, Verified, Process
<1>11. OneSet' /\ ZeroOnlyOnce'
  <2>1. CASE New
    BY <1>2, <1>4, <2>1, NamesDiffer DEF IInv, TypeOK, OneSet, ZeroOnlyOnce, Set
  <2>2. CASE ~New
    BY <1>3, <2>2 DEF IInv, OneSet, ZeroOnlyOnce
  <2> QED BY <2>1, <2>2
<1>12. SetsRight'
  <2>1. semkey' # None => Made(semkey)'
    <3>1. CASE New
      BY <1>1, <1>2, <1>4, <3>1, NamesDiffer DEF Made
    <3>2. CASE ~New
      BY <1>3, <1>6, <3>2 DEF IInv, SetsRight, TypeOK
    <3> QED BY <3>1, <3>2
  <2>2. \A s \in Creator : (hdr[s].semid \in Creator)' => Made(hdr[s].semid)'
    BY <1>1, <1>6 DEF IInv, SetsRight, Set
  <2>3. \A r, n : Enough(r, n) => Enough(r, n)'
    BY <1>6, <1>7 DEF Enough
  <2>4. Enough(got[c], want[c])' /\ got'[c] # None
    <3>1. CASE New
      BY <1>1, <1>2, <1>4, <3>1, NamesDiffer DEF Enough, Made
    <3>2. CASE ~New
      <4>1. CASE got'[c] = Error
        BY <4>1, NamesDiffer DEF Enough
      <4>2. CASE got'[c] # Error
        <5>1. got'[c] = semkey /\ semkey \in Set /\ nsem[semkey] >= want[c] /\ Made(semkey)
          BY <1>2, <1>3, <3>2, <4>2 DEF IInv, SetsRight, TypeOK
        <5> QED BY <1>1, <1>2, <1>3, <3>2, <5>1, NamesDiffer DEF Enough, Made, Process, Set
      <4> QED BY <4>1, <4>2
    <3> QED BY <3>1, <3>2
  <2>5. \A d \in Creator : d # c => got'[d] = got[d] /\ pc'[d] = pc[d]
    BY <1>1, <1>2, <1>3, <1>4 DEF Process
  <2>6. \A d \in Creator : pc'[d] \in {"setall", "done"} => pc[d] \in {"setall", "done"}
    BY <1>1, <1>2 DEF Process
  <2>7. \A d \in Creator : Enough(got[d], want[d])' /\ (pc'[d] = "store" => got'[d] # None)
    BY <1>1, <2>3, <2>4, <2>5 DEF IInv, SetsRight
  <2>8. \A d \in Creator : pc'[d] \in {"setall", "done"} => Enough(hdr[seg[d]].semid, want[d])'
    BY <1>1, <2>3, <2>6 DEF IInv, SetsRight
  <2> QED BY <2>1, <2>2, <2>7, <2>8 DEF SetsRight
<1>13. Orderly'
  <2>1. ~overlap' => ~overlap
    BY <1>1
  <2>2. \A d \in Creator : Creating(d)' => Creating(d)
    BY <1>1, <1>2 DEF Creating, Process
  <2>3. \A k \in Cleaner : pc'[k] = "rmseg" => pc[k] = "rmseg" /\ seg[k] \in Creator
    BY <1>1, <1>2 DEF Process, IInv, TypeOK, PlacedOthers
  <2>4. semkey' # Zero => \A s \in Creator : hdr[s].semid # semkey' \/ semkey' = semkey
    <3>1. CASE New
      BY <1>4, <1>5, <3>1 DEF IInv, SetsRight
    <3>2. CASE ~New
      BY <1>3, <3>2
    <3> QED BY <3>1, <3>2
  <2> QED BY <1>1, <2>1, <2>2, <2>3, <2>4 DEF IInv, Orderly
<1>14. OverlapSeen'
  BY <1>1 DEF OverlapSeen
<1>15. HeaderEnough'
  BY <1>1, <1>6, <1>7, HeaderEnoughKept
<1> QED BY <1>8, <1>9, <1>10, <1>11, <1>12, <1>13, <1>14, <1>15 DEF IInv

(* The id goes into the header, for the next processes to find and, if it  *)
(* is one of a set, for the cleaner.                                       *)
LEMMA StoreSemInv ==
    ASSUME IInv, NEW c \in Creator, StoreSem(c)
    PROVE  IInv'
<1> DEFINE l == IF got[c] = Error THEN "exited" ELSE "setall"
<1>0. PICK s \in Creator : s = seg[c]
  BY DEF StoreSem, IInv, TypeOK, PlacedCreators, Process
<1>1. /\ pc' = [pc EXCEPT ![c] = l] /\ overlap' = (overlap \/ Overlapping')
      /\ att' \subseteq att
      /\ pc[c] = "store" /\ c \in Process
      /\ hdr' = [hdr EXCEPT ![s].semid = got[c]]
      /\ UNCHANGED <<key, semkey, nsem, zero, want, seg, fresh, got>>
  BY <1>0 DEF StoreSem, Goto, Exit, Process
<1>2. pc \in [Process -> PC] /\ hdr \in [Creator -> Header] /\ got[c] \in Set \cup {Error}
  BY <1>1 DEF IInv, TypeOK, SetsRight, PlacedCreators
<1>3. /\ \A t \in Creator : hdr'[t].shmid = hdr[t].shmid /\ hdr'[t].nblock = hdr[t].nblock
      /\ hdr'[s].semid = got[c] /\ \A t \in Creator : t # s => hdr'[t].semid = hdr[t].semid
      /\ hdr' \in [Creator -> Header]
  BY <1>1, <1>2 DEF Header
<1>4. TypeOK'
  <2>1. pc' \in [Process -> PC] /\ overlap' \in BOOLEAN
    BY <1>1, <1>2 DEF Overlapping, IInv, TypeOK, PC
  <2> QED BY <1>1, <1>3, <2>1 DEF IInv, TypeOK
<1>5. PlacedCreators' /\ PlacedOthers' /\ Known'
  BY <1>1, <1>2 DEF IInv, PlacedCreators, PlacedOthers, Known, Process
<1>6. Filled(s)
  <2>1. hdr[s].nblock = want[c] /\ want[c] # 0
    BY <1>0, <1>1 DEF IInv, SizeRight, Verified, TypeOK
  <2> QED BY <1>2, <2>1 DEF IInv, HeaderRight, Unfilled
<1>7. HeaderRight' /\ SizeRight'
  <2>1. Filled(s)'
    BY <1>1, <1>2, <1>3, <1>6 DEF Filled, Process
  <2>2. \A t \in Creator : t # s => (Unfilled(t) => Unfilled(t)') /\ (Filled(t) => Filled(t)')
    BY <1>1, <1>2, <1>3 DEF Unfilled, Filled, Process
  <2>3. SizeRight'
    <3> SUFFICES ASSUME NEW d \in Creator, Verified(d)' PROVE hdr'[seg[d]].nblock = want[d]
      BY <1>1 DEF SizeRight
    <3>1. Verified(d) /\ seg[d] \in Creator
      BY <1>1, <1>2 DEF Verified, Process, IInv, PlacedCreators, TypeOK
    <3> QED BY <1>3, <3>1 DEF IInv, SizeRight
  <2> QED BY <2>1, <2>2, <2>3 DEF IInv, HeaderRight
<1>8. OneSet' /\ ZeroOnlyOnce'
  BY <1>1 DEF IInv, OneSet, ZeroOnlyOnce
<1>9. SetsRight'
  <2>1. \A r \in Set : Made(r) => Made(r)'
    BY <1>1, <1>2 DEF Made, Process, Set
  <2>2. \A r, n : Enough(r, n) => Enough(r, n)'
    BY <1>1, <2>1 DEF Enough
  <2>3. semkey' # None => Made(semkey)'
    BY <1>1, <2>1 DEF IInv, SetsRight, TypeOK
  <2>4. Enough(got[c], want[c])
    BY DEF IInv, SetsRight
  <2>5. \A t \in Creator : (hdr[t].semid \in Creator)' => Made(hdr[t].semid)'
    BY <1>1, <1>3, <2>1, <2>4 DEF IInv, SetsRight, Enough, Set
  <2>6. \A d \in Creator : Enough(got[d], want[d])' /\ (pc'[d] = "store" => got'[d] # None)
    BY <1>1, <1>2, <2>2 DEF IInv, SetsRight, Process
  <2>7. ASSUME NEW d \in Creator, pc'[d] \in {"setall", "done"}
        PROVE  Enough(hdr[seg[d]].semid, want[d])'
    <3>1. Verified(d) /\ seg[d] \in Creator
      BY <1>1, <1>2, <2>7 DEF Process, IInv, PlacedCreators, TypeOK, Verified
    <3>2. CASE seg[d] = s
      <4>1. want[d] = want[c]
        BY <1>0, <1>1, <3>1, <3>2 DEF IInv, SizeRight, Verified
      <4> QED BY <1>1, <1>3, <2>2, <2>4, <3>2, <4>1
    <3>3. CASE seg[d] # s
      <4>1. pc[d] \in {"setall", "done"}
        BY <1>0, <1>1, <1>2, <2>7, <3>3 DEF Process
      <4> QED BY <1>1, <1>3, <2>2, <3>1, <3>3, <4>1 DEF IInv, SetsRight
    <3> QED BY <3>2, <3>3
  <2> QED BY <2>3, <2>5, <2>6, <2>7 DEF SetsRight
<1>10. Orderly'
  <2> SUFFICES ASSUME ~overlap' PROVE Orderly'
    BY DEF Orderly
  <2>1. ~overlap /\ Creating(c) /\ s = key
    BY <1>0, <1>1, <1>2, NamesDiffer DEF Creating, IInv, Orderly, PlacedCreators
  <2>2. \A k \in Cleaner : ~Cleaning(k)
    BY <2>1 DEF IInv, OverlapSeen, Overlapping
  <2>3. \A k \in Cleaner : pc'[k] # "rmseg"
    BY <1>1, <1>2, <2>2 DEF Cleaning, Process
  <2>4. \A d \in Creator : Creating(d)' => Creating(d)
    BY <1>1, <1>2 DEF Creating, Process
  <2> QED BY <1>1, <1>3, <2>1, <2>3, <2>4 DEF IInv, Orderly
<1>11. OverlapSeen'
  BY <1>1 DEF OverlapSeen
<1>12. HeaderEnough'
  <2>1. \A r \in Set : Made(r) => Made(r)'
    BY <1>1, <1>2 DEF Made, Process, Set
  <2>2. Enough(got[c], want[c]) /\ hdr[s].nblock = want[c]
    BY <1>0, <1>1 DEF IInv, SetsRight, SizeRight, Verified
  <2>3. ASSUME NEW t \in Creator, hdr'[t].semid # Zero PROVE Enough(hdr'[t].semid, hdr'[t].nblock)
    BY <1>3, <2>2, <2>3 DEF IInv, HeaderEnough
  <2> QED BY <1>1, <2>1, <2>3 DEF HeaderEnough, Enough
<1> QED BY <1>4, <1>5, <1>7, <1>8, <1>9, <1>10, <1>11, <1>12 DEF IInv

-----------------------------------------------------------------------------
(* hashpipe_clean_shmem                                                    *)

LEMMA RemoveSetInv ==
    ASSUME IInv, NEW k \in Cleaner, RemoveSet(k)
    PROVE  IInv'
<1>0. PICK s \in Creator : s = seg[k]
  BY DEF RemoveSet, IInv, TypeOK, PlacedOthers, Process
<1> DEFINE q == hdr[s].semid
           Gone == q # Zero /\ IsSet(q)
<1>1. /\ pc' = [pc EXCEPT ![k] = "rmseg"] /\ overlap' = (overlap \/ Overlapping')
      /\ pc[k] = "rmsem" /\ k \in Process
      /\ UNCHANGED <<key, hdr, zero, want, seg, att, fresh, got>>
      /\ Gone => nsem' = [nsem EXCEPT ![q] = 0] /\ semkey' = (IF semkey = q THEN None ELSE semkey)
      /\ ~Gone => UNCHANGED <<nsem, semkey>>
  BY <1>0 DEF RemoveSet, Goto, Process
<1>2. /\ pc \in [Process -> PC] /\ nsem \in [Set -> NBlocks \cup {0}] /\ q \in Set \cup {Error}
      /\ semkey \in Set \cup {None}
  BY DEF IInv, TypeOK, Header
<1>3. Gone => q \in Set /\ q = semkey
  BY <1>2 DEF IsSet, IInv, OneSet
<1>4. \A c \in Creator : pc'[c] = pc[c]
  BY <1>1, <1>2 DEF Process
<1>5. TypeOK'
  <2>1. pc' \in [Process -> PC] /\ overlap' \in BOOLEAN
    BY <1>1, <1>2 DEF Overlapping, IInv, TypeOK, PC
  <2>2. nsem' \in [Set -> NBlocks \cup {0}] /\ semkey' \in Set \cup {None}
    BY <1>1, <1>2, <1>3
  <2> QED BY <1>1, <2>1, <2>2 DEF IInv, TypeOK
<1>6. PlacedCreators' /\ PlacedOthers' /\ Known'
  BY <1>1, <1>2, <1>4 DEF IInv, PlacedCreators, PlacedOthers, Known, Process
<1>7. HeaderRight' /\ SizeRight'
  BY <1>1, <1>4 DEF IInv, HeaderRight, Filled, Unfilled, SizeRight, Verified
<1>8. OneSet' /\ ZeroOnlyOnce'
  BY <1>1, <1>2, <1>3, NamesDiffer DEF IInv, OneSet, ZeroOnlyOnce
<1>9. SetsRight'
  <2>1. \A r \in Set : Made(r) => Made(r)'
    BY <1>1, <1>4 DEF Made, Set
  <2>2. \A r \in Set : nsem'[r] = nsem[r] \/ nsem'[r] = 0
    BY <1>1, <1>2, <1>3
  <2>3. \A r, n : Enough(r, n) => Enough(r, n)'
    BY <1>1, <2>1, <2>2 DEF Enough
  <2>4. semkey' # None => Made(semkey)'
    BY <1>1, <1>2, <1>4 DEF IInv, SetsRight, Made, Set
  <2>5. \A t \in Creator : (hdr[t].semid \in Creator)' => Made(hdr[t].semid)'
    BY <1>1, <2>1 DEF IInv, SetsRight, Set
  <2> QED BY <1>1, <1>4, <2>3, <2>4, <2>5 DEF IInv, SetsRight
<1>10. Orderly'
  <2> SUFFICES ASSUME ~overlap' PROVE Orderly'
    BY DEF Orderly
  <2>1. ~overlap /\ \A c \in Creator : Creating(c)' => Creating(c)
    BY <1>1, <1>4 DEF Creating
  <2>2. ASSUME semkey' # Zero, NEW t \in Creator, hdr[t].semid = semkey' PROVE t = key
    <3>1. semkey' = semkey
      BY <1>1, <1>2, <2>2, NamesDiffer DEF IInv, TypeOK, Header
    <3> QED BY <2>1, <2>2, <3>1 DEF IInv, Orderly
  <2>3. ASSUME semkey' # Zero, NEW j \in Cleaner, pc'[j] = "rmseg" PROVE hdr[seg[j]].semid # semkey'
    <3>1. seg[j] \in Creator /\ hdr[seg[j]].semid \in Set \cup {Error}
      BY <1>1, <1>2, <2>3 DEF IInv, PlacedOthers, TypeOK, Process, Header
    <3>2. CASE j = k
      <4>1. CASE Gone
        BY <1>0, <1>1, <1>3, <3>1, <3>2, <4>1, NamesDiffer
      <4>2. CASE ~Gone
        <5>1. q # semkey
          BY <1>1, <1>2, <2>3, <4>2, NamesDiffer DEF IsSet, IInv, OneSet
        <5> QED BY <1>0, <1>1, <3>2, <4>2, <5>1
      <4> QED BY <4>1, <4>2
    <3>3. CASE j # k
      <4>1. pc[j] = "rmseg"
        BY <1>1, <1>2, <2>3, <3>3 DEF Process
      <4>2. semkey' = None \/ semkey' = semkey
        BY <1>1
      <4> QED BY <2>1, <2>3, <3>1, <4>1, <4>2, NamesDiffer DEF IInv, Orderly
    <3> QED BY <3>2, <3>3
  <2>4. \A c \in Creator : Creating(c)' => seg[c] \in {None, key}
    BY <2>1 DEF IInv, Orderly
  <2> QED BY <1>1, <2>2, <2>3, <2>4 DEF Orderly
<1>11. OverlapSeen'
  BY <1>1 DEF OverlapSeen
<1>12. HeaderEnough'
  <2>1. \A r \in Set : Made(r) => Made(r)'
    BY <1>1, <1>4 DEF Made, Set
  <2>2. \A r \in Set : nsem'[r] \in {nsem[r], 0}
    BY <1>1, <1>2, <1>3
  <2> QED BY <1>1, <2>1, <2>2, HeaderEnoughKept
<1> QED BY <1>5, <1>6, <1>7, <1>8, <1>9, <1>10, <1>11, <1>12 DEF IInv

LEMMA RemoveSegmentInv ==
    ASSUME IInv, NEW k \in Cleaner, RemoveSegment(k)
    PROVE  IInv'
<1>0. PICK s \in Creator : s = seg[k]
  BY DEF RemoveSegment, IInv, TypeOK, PlacedOthers, Process
<1>1. /\ pc' = [pc EXCEPT ![k] = "exited"] /\ overlap' = (overlap \/ Overlapping')
      /\ att' \subseteq att
      /\ pc[k] = "rmseg" /\ k \in Process
      /\ key' = IF hdr[s].shmid = key THEN None ELSE key
      /\ UNCHANGED <<hdr, semkey, nsem, zero, want, seg, fresh, got>>
  BY <1>0 DEF RemoveSegment, Exit, Goto, Process
<1>2. pc \in [Process -> PC]
  BY DEF IInv, TypeOK
<1>3. \A c \in Creator : pc'[c] = pc[c]
  BY <1>1, <1>2 DEF Process
<1>4. TypeOK'
  <2>1. pc' \in [Process -> PC] /\ overlap' \in BOOLEAN
    BY <1>1, <1>2 DEF Overlapping, IInv, TypeOK, PC
  <2> QED BY <1>1, <2>1 DEF IInv, TypeOK
<1>5. PlacedCreators' /\ PlacedOthers' /\ Known'
  BY <1>1, <1>2, <1>3 DEF IInv, PlacedCreators, PlacedOthers, Known, Process
<1>6. HeaderRight' /\ SizeRight'
  BY <1>1, <1>3 DEF IInv, HeaderRight, Filled, Unfilled, SizeRight, Verified
<1>7. OneSet' /\ ZeroOnlyOnce'
  BY <1>1 DEF IInv, OneSet, ZeroOnlyOnce
<1>8. SetsRight'
  <2>1. \A r \in Set : Made(r) <=> Made(r)'
    BY <1>1, <1>3 DEF Made, Set
  <2>2. \A r, n : Enough(r, n) => Enough(r, n)'
    BY <1>1, <2>1 DEF Enough
  <2>3. semkey' # None => Made(semkey)'
    BY <1>1, <1>3 DEF IInv, SetsRight, Made, Set, TypeOK
  <2>4. \A t \in Creator : (hdr[t].semid \in Creator)' => Made(hdr[t].semid)'
    BY <1>1, <2>1 DEF IInv, SetsRight, Set
  <2> QED BY <1>1, <1>3, <2>2, <2>3, <2>4 DEF IInv, SetsRight
<1>9. Orderly'
  <2> SUFFICES ASSUME ~overlap' PROVE Orderly'
    BY DEF Orderly
  <2>1. ~overlap /\ Cleaning(k)
    BY <1>1 DEF Cleaning
  <2>2. \A c \in Creator : ~Creating(c) /\ ~Creating(c)'
    BY <1>3, <2>1 DEF Creating, IInv, OverlapSeen, Overlapping
  <2>3. ASSUME semkey # Zero, NEW t \in Creator, hdr[t].semid = semkey PROVE t = key'
    <3>1. t = key /\ hdr[s].semid # semkey
      BY <1>0, <1>1, <2>1, <2>3 DEF IInv, Orderly
    <3>2. hdr[s].shmid # key
      BY <2>3, <3>1, NamesDiffer DEF IInv, HeaderRight, Unfilled, Filled
    <3> QED BY <1>1, <3>1, <3>2
  <2>4. \A j \in Cleaner : pc'[j] = "rmseg" => pc[j] = "rmseg"
    BY <1>1, <1>2 DEF Process
  <2> QED BY <1>1, <2>1, <2>2, <2>3, <2>4 DEF IInv, Orderly
<1>10. OverlapSeen'
  BY <1>1 DEF OverlapSeen
<1>11. HeaderEnough'
  <2>1. \A r \in Set : Made(r) => Made(r)'
    BY <1>1, <1>3 DEF Made, Set
  <2> QED BY <1>1, <2>1, HeaderEnoughKept
<1> QED BY <1>4, <1>5, <1>6, <1>7, <1>8, <1>9, <1>10, <1>11 DEF IInv

-----------------------------------------------------------------------------
LEMMA CreateInv ==
    ASSUME IInv, NEW c \in Creator, CreateStep(c)
    PROVE  IInv'
<1>1. /\ c \in Process /\ pc[c] \in PC /\ seg[c] \in Creator \cup {None}
      /\ att \subseteq {p \in Process : seg[p] # None}
      /\ seg[c] = None => pc[c] \in {"start", "smaller", "getold", "exited"}
  BY DEF Process, IInv, TypeOK, PlacedCreators
<1>2. CASE Get(c)
  <2>1. CASE NewSegment(c)
    BY <1>2, <2>1, NewSegmentInv DEF Get
  <2>2. CASE ~NewSegment(c)
    BY <1>1, <1>2, <2>2, MoveInv DEF Get, Moves
  <2> QED BY <2>1, <2>2
<1>3. CASE GetSmaller(c)
  <2>1. CASE NewSegment(c) /\ UNCHANGED att
    BY <1>3, <2>1, NewSegmentInv DEF GetSmaller
  <2>2. CASE Exit(c) /\ UNCHANGED <<key, seg, fresh>>
    BY <1>1, <1>3, <2>2, MoveInv DEF GetSmaller, Exit, Moves
  <2> QED BY <1>3, <2>1, <2>2 DEF GetSmaller
<1>4. CASE GetOld(c)
  <2>1. CASE key # None /\ seg' = [seg EXCEPT ![c] = key] /\ Goto(c, "shmat") /\ UNCHANGED att
    <3>1. /\ pc[c] = "getold" /\ key # None /\ seg' = [seg EXCEPT ![c] = key] /\ Goto(c, "shmat")
          /\ UNCHANGED <<key, hdr, semkey, nsem, zero, want, att, fresh, got>>
      BY <1>4, <2>1 DEF GetOld
    <3> QED BY <1>1, <3>1, FindInv
  <2>2. CASE Exit(c) /\ UNCHANGED seg
    BY <1>1, <1>4, <2>2, MoveInv DEF GetOld, Exit, Moves
  <2> QED BY <1>4, <2>1, <2>2 DEF GetOld
<1>5. CASE Attach(c)
  <2>1. CASE Exit(c)
    BY <1>1, <1>5, <2>1, MoveInv DEF Attach, ShmAt, Exit, Moves
  <2>2. CASE Exists(seg[c])
    BY <1>1, <1>5, <2>2, MoveInv DEF Attach, ShmAt, Moves
  <2> QED BY <1>5, <2>1, <2>2 DEF Attach, ShmAt
<1>6. CASE Verify(c)
  BY <1>1, <1>6, MoveInv DEF Verify, Exit, Moves
<1>7. CASE ShmLock(c)
  BY <1>1, <1>7, MoveInv DEF ShmLock, Exit, Moves
<1>8. CASE SetAll(c)
  BY <1>1, <1>8, MoveInv DEF SetAll, Exit, Moves
<1> QED BY <1>2, <1>3, <1>4, <1>5, <1>6, <1>7, <1>8, FillInv, SemGetInv, StoreSemInv DEF CreateStep

LEMMA OthersInv ==
    ASSUME IInv, NEW p \in User \cup Cleaner,
           (p \in User /\ UserStep(p)) \/ (p \in Cleaner /\ CleanStep(p))
    PROVE  IInv'
<1>1. /\ p \in Process /\ att \subseteq {q \in Process : seg[q] # None}
      /\ seg[p] = None => pc[p] \in {"find", "exited"}
  BY DEF Process, IInv, TypeOK, PlacedOthers
<1>2. CASE Find(p)
  BY <1>1, <1>2, FindInv DEF Find
<1>3. ASSUME NEW l, ShmAt(p, l), Moves(p, l) PROVE IInv'
  <2>1. CASE Exit(p)
    BY <1>1, <1>3, <2>1, MoveInv DEF ShmAt, Exit, Moves
  <2>2. CASE Exists(seg[p])
    BY <1>1, <1>3, <2>2, MoveInv DEF ShmAt
  <2> QED BY <1>3, <2>1, <2>2 DEF ShmAt
<1>4. CASE p \in User /\ ShmAt(p, "wait")
  BY <1>3, <1>4 DEF Moves, ShmAt
<1>5. CASE p \in Cleaner /\ ShmAt(p, "rmsem")
  BY <1>3, <1>5 DEF Moves, ShmAt
<1>6. CASE p \in User /\ Wait(p)
  BY <1>1, <1>6, MoveInv DEF Wait, Exit, Moves
<1> QED BY <1>2, <1>4, <1>5, <1>6, RemoveSetInv, RemoveSegmentInv DEF UserStep, CleanStep

LEMMA Invariance == Spec => []IInv
<1>1. IInv /\ [Next]_vars => IInv'
  <2> SUFFICES ASSUME IInv, [Next]_vars PROVE IInv'
    OBVIOUS
  <2>1. ASSUME NEW p \in Process, Die(p) PROVE IInv'
    <3>1. att \subseteq {q \in Process : seg[q] # None}
      BY DEF IInv, TypeOK
    <3> QED BY <2>1, <3>1, MoveInv DEF Die, Exit, Moves
  <2>2. CASE UNCHANGED vars
    BY <2>2 DEF vars, IInv, TypeOK, PlacedCreators, PlacedOthers, Known, HeaderRight, Unfilled, Filled,
       SizeRight, Verified, HeaderEnough, OneSet, SetsRight, Made, Enough, ZeroOnlyOnce, OverlapSeen, Overlapping, Orderly,
       Creating, Cleaning
  <2>3. ASSUME NEW c \in Creator, CreateStep(c) PROVE IInv'
    BY <2>3, CreateInv
  <2>4. ASSUME NEW u \in User, UserStep(u) PROVE IInv'
    BY <2>4, OthersInv
  <2>5. ASSUME NEW k \in Cleaner, CleanStep(k) PROVE IInv'
    BY <2>5, OthersInv
  <2> QED BY <2>1, <2>2, <2>3, <2>4, <2>5 DEF Next
<1> QED BY <1>1, InitInv, PTL DEF Spec

(* Segments, headers, semaphore sets and processes stay well typed; nobody *)
(* is attached who has not found a segment.                                *)
THEOREM TypeCorrect == Spec => []TypeOK
<1>1. IInv => TypeOK
  BY DEF IInv
<1> QED BY <1>1, Invariance, PTL

(* Creators that succeeded on one segment agree on its size: the check of  *)
(* hashpipe_databuf_create() is enough, in whatever order they come and    *)
(* whoever dies before it has filled the header.                           *)
THEOREM SameSizes == Spec => []SizesAgree
<1>1. IInv => SizesAgree
  BY DEF IInv, SizeRight, Verified, SizesAgree, Using
<1> QED BY <1>1, Invariance, PTL

(* The set in the header of a databuf in use is large enough or gone, even *)
(* if it was made for a segment before this one or has the id 0.           *)
THEOREM LargeEnough == Spec => []EnoughSemaphores
<1>1. IInv => EnoughSemaphores
  <2> SUFFICES ASSUME IInv, NEW c \in Creator, pc[c] = "done", IsSet(hdr[seg[c]].semid)
               PROVE  nsem[hdr[seg[c]].semid] >= want[c]
    BY DEF EnoughSemaphores, Using
  <2>1. hdr[seg[c]].semid \in Set
    BY DEF IsSet, IInv, PlacedCreators, TypeOK, Header, Process
  <2> QED BY <2>1 DEF IInv, SetsRight, Enough, IsSet
<1> QED BY <1>1, Invariance, PTL

(* Whoever attached and got through a wait on the set that a header names  *)
(* finds n_block in that header, and in the set a semaphore for every      *)
(* block, or no set any more: the id is stored last, and a set that was    *)
(* too small was never stored.  Nothing is said of a header that holds the *)
(* id 0, whether or not there is a set 0.                                  *)
THEOREM ReadyWhenAttached == Spec => []AttachedReady
<1>1. IInv => AttachedReady
  <2> SUFFICES ASSUME IInv, NEW u \in User, pc[u] = "past", hdr[seg[u]].semid # Zero
               PROVE  /\ hdr[seg[u]].nblock # 0
                      /\ IsSet(hdr[seg[u]].semid) => nsem[hdr[seg[u]].semid] >= hdr[seg[u]].nblock
    BY DEF AttachedReady
  <2>1. seg[u] \in Creator /\ hdr[seg[u]] \in Header
    BY DEF IInv, PlacedOthers, TypeOK, Process
  <2>2. Filled(seg[u]) /\ Enough(hdr[seg[u]].semid, hdr[seg[u]].nblock)
    BY <2>1 DEF IInv, HeaderRight, Unfilled, HeaderEnough
  <2>3. hdr[seg[u]].nblock \in NBlocks
    BY <2>1, <2>2 DEF Filled, IInv, TypeOK
  <2> QED BY <2>1, <2>2, <2>3 DEF Enough, IsSet, Header
<1> QED BY <1>1, Invariance, PTL

(* Without an overlap of a create and a clean-up, and without a set with   *)
(* the id 0, which hashpipe_clean_shmem does not remove, a set that was    *)
(* left behind is never used for two segments.                             *)
THEOREM NotShared == ASSUME ~JustBooted PROVE Spec => []SetsNotShared
<1>1. IInv => SetsNotShared
  <2> SUFFICES ASSUME IInv, ~overlap, NEW c \in Creator, NEW d \in Creator, Using(c), Using(d),
                      hdr[seg[c]].semid = hdr[seg[d]].semid, IsSet(hdr[seg[c]].semid)
               PROVE  seg[c] = seg[d]
    BY DEF SetsNotShared
  <2>1. seg[c] \in Creator /\ seg[d] \in Creator
    BY DEF Using, IInv, PlacedCreators, TypeOK, Process
  <2>2. hdr[seg[c]].semid = semkey /\ semkey # Zero
    BY <2>1 DEF IsSet, IInv, TypeOK, Header, OneSet, ZeroOnlyOnce
  <2> QED BY <2>1, <2>2 DEF IInv, Orderly
<1> QED BY <1>1, Invariance, PTL
=============================================================================
