-------------------------- MODULE StatusBufProofs ---------------------------
(***************************************************************************)
(* Proofs about StatusBuf, for every number of records and all keywords    *)
(* and values.  What the searches return is shown with the least-element   *)
(* principle of the natural numbers.  Then come, each with the steps that  *)
(* touch it: types, where END is, what is remembered of the time before a  *)
(* call, and what the records say; last that the users see StatusMap.      *)
(***************************************************************************)
EXTENDS StatusBuf, WellFoundedInduction, FiniteSetTheorems, TLAPS

USE StatusBufAssumption

(* Every set of natural numbers has a least one.                           *)
LEMMA Least ==
    ASSUME NEW S \in SUBSET Nat, S # {}
    PROVE  \E x \in S : \A y \in S : x <= y
<1> DEFINE R == {ss \in Nat \X Nat : ss[1] < ss[2]}
<1>1. IsWellFoundedOn(R, Nat)
  BY NatLessThanWellFounded DEF OpToRel
<1>2. PICK x \in S : \A y \in S : ~ (<<y, x>> \in R)
  <2> HIDE DEF R
  <2> QED BY <1>1, WFMin
<1>3. \A y \in S : ~ (y < x)
  BY <1>2
<1> QED BY <1>3

LEMMA FirstIs ==
    ASSUME NEW S \in SUBSET (1..N)
    PROVE  /\ S = {} => First(S) = 0
           /\ S # {} => First(S) \in S /\ \A j \in S : First(S) <= j
<1>1. S # {} => \E i \in S : \A j \in S : i <= j
  BY Least
<1> QED BY <1>1 DEF First

Records == [1..N -> LineSet]

LEMMA RecordsTyped ==
    /\ EndLine \in LineSet /\ BlankLine \in LineSet /\ NulLine \in LineSet
    /\ \A k \in Key \cup {"COMMENT"}, v \in Val \cup {Empty}, c \in BOOLEAN : Line(k, v, c) \in LineSet
    /\ \A r \in LineSet : [r EXCEPT !.com = TRUE] \in LineSet
    /\ \A r \in LineSet, k \in Key : [r EXCEPT !.key = k] \in LineSet
BY DEF EndLine, BlankLine, NulLine, Line, LineSet

(* What the searches return.                                               *)
LEMMA SearchRange ==
    ASSUME NEW b \in Records, NEW k
    PROVE  ksearch(b, k) \in 0..N /\ blsearch(b) \in 0..N
<1>1. {i \in Visible(b) : b[i].key = k} \in SUBSET (1..N)
  BY DEF Visible
<1>2. {i \in 1..N : i < ksearch(b, "END") /\
             \A j \in i..(ksearch(b, "END") - 1) : b[j].key = "blank"} \in SUBSET (1..N)
  OBVIOUS
<1>3. ASSUME NEW S \in SUBSET (1..N) PROVE First(S) \in 0..N
  <2>1. S = {} => First(S) = 0
    BY FirstIs
  <2>2. S # {} => First(S) \in S
    BY FirstIs
  <2>3. 0 \in 0..N /\ 1..N \subseteq 0..N
    OBVIOUS
  <2>4. S # {} => First(S) \in 1..N
    BY <2>2
  <2> QED BY ONLY <2>1, <2>3, <2>4
<1>4. ksearch(b, k) \in 0..N
  BY <1>1, <1>3 DEF ksearch
<1> QED BY <1>2, <1>3, <1>4 DEF blsearch

LEMMA EndFound ==
    ASSUME NEW b \in Records, NEW e \in 1..N, EndAt(b, e)
    PROVE  ksearch(b, "END") = e /\ hashpipe_find_end(b)
<1> DEFINE S == {i \in Visible(b) : b[i].key = "END"}
<1>1. S \in SUBSET (1..N) /\ e \in S /\ \A i \in S : i >= e
  BY DEF Visible, EndAt
<1>2. First(S) \in S /\ First(S) <= e
  BY <1>1, FirstIs
<1>3. First(S) = e
  BY <1>1, <1>2
<1> QED BY <1>3 DEF ksearch, hashpipe_find_end, EndAt

LEMMA KeyFound ==
    ASSUME NEW b \in Records, NEW e \in 1..N, EndAt(b, e), NEW k \in Key \cup {"COMMENT"}
    PROVE  \/ ksearch(b, k) = 0 /\ \A j \in 1..N : b[j].key # k
           \/ ksearch(b, k) \in 1..(e - 1) /\ b[ksearch(b, k)].key = k
<1> DEFINE S == {i \in Visible(b) : b[i].key = k}
<1>1. S \in SUBSET (1..N) /\ \A i \in 1..N : i \in S <=> b[i].key = k
  BY DEF Visible, EndAt
<1>2. \A i \in S : i < e
  BY <1>1 DEF EndAt
<1>3. S # {} => First(S) \in S
  BY <1>1, FirstIs
<1>4. S = {} => First(S) = 0
  BY <1>1, FirstIs
<1> QED BY <1>1, <1>2, <1>3, <1>4 DEF ksearch

LEMMA BlankFound ==
    ASSUME NEW b \in Records, NEW e \in 1..N, EndAt(b, e), blsearch(b) # 0
    PROVE  blsearch(b) \in 1..(e - 1) /\ b[blsearch(b)].key = "blank"
<1> DEFINE S == {i \in 1..N : i < e /\ \A j \in i..(e - 1) : b[j].key = "blank"}
<1>1. blsearch(b) = First(S)
  BY EndFound DEF blsearch
<1>2. First(S) \in S
  BY <1>1, FirstIs
<1> QED BY <1>1, <1>2

-----------------------------------------------------------------------------
(* Types, whatever was overrun                                             *)
Basic == TypeOK /\ CallRight /\ CursorRight

LEMMA InitBasic == Init => Basic
<1> SUFFICES ASSUME Init PROVE Basic
  OBVIOUS
<1>1. buf \in [1..N -> LineSet] /\ 0 \in 0..N
  BY RecordsTyped DEF Init
<1> QED BY <1>1 DEF Init, Basic, TypeOK, CallRight, CursorRight

LEMMA LockBasic ==
    ASSUME Basic, NEW c, NEW l, Lock(c, l),
           \/ c.name = "put" /\ c.key \in Key \cup {"COMMENT"} /\ c.val \in Val /\ l = "hputc"
           \/ c.name = "com" /\ c.key \in Key \cup {"COMMENT"} /\ c.val = Empty /\ l = "hputcom"
           \/ c.name = "del" /\ c.key \in Key \cup {"COMMENT"} /\ l = "hdel"
           \/ c.name = "add" /\ c.key \in Key /\ l = "hadd"
           \/ c.name = "change" /\ c.key \in Key /\ c.val \in Key /\ l = "hchange"
           \/ c = hashpipe_status_chkinit /\ l = "chkinit"
           \/ c = hashpipe_status_clear /\ l = "zero"
    PROVE  Basic'
<1>1. TypeOK'
  BY DEF Basic, TypeOK, Lock, Goto, cursor, marks
<1>2. CallRight'
  BY DEF Basic, CallRight, Lock, Goto, PutSteps
<1>3. CursorRight'
  BY DEF Basic, TypeOK, CallRight, CursorRight, Lock, Goto, cursor
<1> QED BY <1>1, <1>2, <1>3 DEF Basic

LEMMA DeadBasic ==
    ASSUME Basic, NEW h \in {"good", "doubled", "endless"}, Dead(h),
           buf' \in Records, overrun' \in BOOLEAN
    PROVE  Basic'
<1>1. 0 \in 0..N
  OBVIOUS
<1> QED BY <1>1 DEF Basic, TypeOK, CallRight, CursorRight, Dead, Idle, Goto, Records

(* The holder of the lock goes on.                                         *)
LEMMA OnBasic ==
    ASSUME Basic, pc # "idle", pc' # "idle", UNCHANGED <<lock, attached>>, buf' \in Records,
           at' \in 0..N, stop' \in 0..N, com' \in BOOLEAN, overrun' \in BOOLEAN,
           health' \in {"good", "doubled", "endless"}, CallRight', CursorRight'
    PROVE  Basic'
BY DEF Basic, TypeOK, Records

LEMMA HputcBasic ==
    ASSUME Basic, Place \/ MoveEnd \/ MoveEndOut \/ Fill \/ PutKey \/ PutValue \/ KeepComment \/ KeepCommentOut \/ SetCommentOut
    PROVE  Basic'
<1>0. TypeOK /\ CallRight /\ CursorRight /\ buf \in Records
  BY DEF Basic, TypeOK, Records
<1>1. CASE Place
  <2>1. ksearch(buf, op.key) \in 0..N /\ blsearch(buf) \in 0..N /\ ksearch(buf, "END") \in 0..N
    BY <1>0, SearchRange
  <2>2. CASE Die
    BY <1>0, <2>2, DeadBasic DEF Die, TypeOK, Records
  <2>3. CASE ~Die
    <3> DEFINE k == IF op.key = "COMMENT" THEN 0 ELSE ksearch(buf, op.key)
               b == blsearch(buf)
               e == ksearch(buf, "END")
    <3>1. /\ pc = "hputc" /\ (k # 0 \/ b # 0 \/ e # 0)
          /\ at' = IF k # 0 THEN k ELSE IF b # 0 THEN b ELSE e
          /\ com' = (k # 0 /\ buf[k].com)
          /\ pc' = IF k # 0 \/ b # 0 THEN "fill" ELSE "moveend"
          /\ UNCHANGED <<buf, stop, call, marks>>
      BY <1>1, <2>3 DEF Place, Goto
    <3>2. pc' \in {"fill", "moveend"} /\ at' \in 1..N /\ op.key \in Key \cup {"COMMENT"}
      <4>1. k \in 0..N
        BY <2>1
      <4>2. at' # 0
        BY <2>1, <3>1, <4>1
      <4>3. op.key \in Key \cup {"COMMENT"}
        BY <1>0, <3>1 DEF CallRight, hashpipe_status_chkinit, hashpipe_status_clear, Call, NoCall
      <4> HIDE DEF k
      <4> QED BY <2>1, <3>1, <4>1, <4>2, <4>3
    <3>3. com' => k # 0 /\ op.key # "COMMENT"
      BY <3>1
    <3>4. com' \in BOOLEAN
      BY <3>1
    <3>5. com' => pc' = "fill"
      <4> HIDE DEF k
      <4> QED BY <3>1
    <3> HIDE DEF k
    <3>6. CallRight'
      BY <1>0, <3>1, <3>2 DEF CallRight, call, PutSteps
    <3>7. CursorRight'
      BY <3>1, <3>2, <3>3, <3>5 DEF CursorRight, call
    <3> QED BY <1>0, <3>1, <3>2, <3>4, <3>6, <3>7, OnBasic DEF TypeOK, Records, call, marks
  <2> QED BY <2>2, <2>3
<1>2. CASE MoveEnd
  <2>1. buf' \in Records
    BY <1>0, <1>2 DEF MoveEnd, Write, Store, TypeOK, CursorRight, Records
  <2> QED BY <1>0, <1>2, <2>1 DEF MoveEnd, Write, Goto, Basic, TypeOK, CallRight, CursorRight, call, cursor, marks, PutSteps, Records
<1>3. CASE MoveEndOut
  <2>1. CASE Dead(health)
    BY <1>0, <1>3, <2>1, DeadBasic DEF MoveEndOut, TypeOK
  <2>2. CASE ~Dead(health)
    BY <1>0, <1>3, <2>2 DEF MoveEndOut, Goto, Basic, TypeOK, CallRight, CursorRight, call, cursor, PutSteps
  <2> QED BY <2>1, <2>2
<1>4. CASE Fill
  <2>1. buf' \in Records
    <3>1. \E l \in LineSet : buf' = [buf EXCEPT ![at] = l]
      BY <1>4, RecordsTyped DEF Fill, Write, Store
    <3> QED BY <1>0, <3>1 DEF Records
  <2>2. pc = "fill" /\ pc' = (IF op.key = "COMMENT" THEN "value" ELSE "key") /\ UNCHANGED <<call, cursor, marks>>
    BY <1>4 DEF Fill, Write, Goto
  <2>3. op.key \in Key \cup {"COMMENT"}
    BY <1>0, <2>2 DEF CallRight, hashpipe_status_chkinit, hashpipe_status_clear, Call, NoCall
  <2>4. CallRight'
    BY <1>0, <2>2, <2>3 DEF CallRight, call, PutSteps
  <2>5. CursorRight'
    BY <1>0, <2>2, <2>3 DEF CursorRight, call, cursor
  <2> QED BY <1>0, <2>1, <2>2, <2>4, <2>5, OnBasic DEF TypeOK, call, cursor, marks
<1>5. CASE PutKey
  <2>1. buf' \in Records
    BY <1>0, <1>5, RecordsTyped DEF PutKey, Write, Store, CursorRight, Records
  <2> QED BY <1>0, <1>5, <2>1 DEF PutKey, Write, Goto, Basic, TypeOK, CallRight, CursorRight, call, cursor, marks, PutSteps, Records
<1>6. ASSUME pc \in {"value", "comment"} PROVE op.key \in Key \cup {"COMMENT"} /\ op.val \in Val \cup {Empty}
  BY <1>0, <1>6 DEF CallRight, hashpipe_status_chkinit, hashpipe_status_clear, Call, NoCall
<1>7. CASE PutValue
  <2>1. buf' \in Records
    BY <1>0, <1>6, <1>7, RecordsTyped DEF PutValue, Write, Store, Records
  <2>2. pc = "value" /\ pc' = (IF com THEN "comment" ELSE "unlock") /\ UNCHANGED <<call, cursor, marks>>
    BY <1>7 DEF PutValue, Write, Goto
  <2> QED BY <1>0, <2>1, <2>2 DEF Basic, TypeOK, CallRight, CursorRight, call, cursor, marks, PutSteps, Records
<1>8. CASE KeepComment
  <2>1. buf' \in Records
    BY <1>0, <1>6, <1>8, RecordsTyped DEF KeepComment, Write, Store, Records
  <2> QED BY <1>0, <1>8, <2>1 DEF KeepComment, Write, Goto, Basic, TypeOK, CallRight, CursorRight, call, cursor, marks, PutSteps, Records
<1>9. CASE KeepCommentOut \/ SetCommentOut
  <2>1. PICK k : RunOut(k)
    BY <1>9 DEF KeepCommentOut, SetCommentOut
  <2>2. buf' \in Records
    BY <1>0, <2>1, RecordsTyped DEF RunOut, Records, LineSet
  <2> QED BY <2>1, <2>2, DeadBasic DEF RunOut
<1> QED BY <1>1, <1>2, <1>3, <1>4, <1>5, <1>7, <1>8, <1>9

LEMMA OtherCallsBasic ==
    ASSUME Basic, \/ SetComment \/ FindDeleted \/ ShiftUp \/ Terminate
                  \/ FindAdded \/ ShiftDown \/ ShiftDownOut \/ AddKey \/ ChangeKey
    PROVE  Basic'
<1>0. TypeOK /\ CallRight /\ CursorRight /\ buf \in Records
  BY DEF Basic, TypeOK, Records
<1>a. \A k : ksearch(buf, k) \in 0..N
  BY <1>0, SearchRange
<1>1. CASE SetComment
  <2>1. CASE Die
    BY <1>0, <2>1, DeadBasic DEF Die, TypeOK
  <2>2. CASE op.key = "COMMENT" /\ ~Die
    BY <1>0, <1>1, <1>a, <2>2 DEF SetComment, Goto, Basic, TypeOK, CallRight, CursorRight, call, marks, PutSteps
  <2>3. CASE op.key # "COMMENT"
    <3>1. buf' \in Records
      BY <1>0, <1>1, <2>3, RecordsTyped DEF SetComment, Store, Records, LineSet
    <3>2. pc = "hputcom" /\ pc' = "unlock" /\ UNCHANGED <<call, cursor, marks>>
      BY <1>1, <2>3 DEF SetComment, Goto
    <3>3. CallRight' /\ CursorRight'
      BY <1>0, <3>2 DEF CallRight, CursorRight, call, cursor, PutSteps
    <3> QED BY <1>0, <3>1, <3>2, <3>3, OnBasic DEF TypeOK, call, cursor, marks
  <2> QED BY <2>1, <2>2, <2>3
<1>2. CASE FindDeleted
  <2>1. CASE Die
    BY <1>0, <2>1, DeadBasic DEF Die, TypeOK
  <2>2. CASE ~Die
    <3> DEFINE k == ksearch(buf, op.key)
    <3>1. /\ pc = "hdel" /\ at' = k /\ stop' = ksearch(buf, "END")
          /\ pc' = IF k = 0 THEN "unlock" ELSE "up"
          /\ UNCHANGED <<buf, com, call, marks>>
      BY <1>2, <2>2 DEF FindDeleted, Goto
    <3>2. k \in 0..N /\ ksearch(buf, "END") \in 0..N
      BY <1>a
    <3> HIDE DEF k
    <3>3. CallRight' /\ CursorRight'
      BY <1>0, <3>1, <3>2 DEF CallRight, CursorRight, call, PutSteps
    <3> QED BY <1>0, <3>1, <3>2, <3>3, OnBasic DEF TypeOK, call, marks
  <2> QED BY <2>1, <2>2
<1>3. CASE ShiftUp
  <2>1. buf' \in Records
    BY <1>0, <1>3 DEF ShiftUp, Store, TypeOK, CursorRight, Records
  <2>2. at' \in 1..N
    BY <1>0, <1>3 DEF ShiftUp, TypeOK
  <2> QED BY <1>0, <1>3, <2>1, <2>2 DEF ShiftUp, Basic, TypeOK, CallRight, CursorRight, call, marks, Records
<1>4. CASE Terminate
  <2>1. buf' \in Records /\ overrun' \in BOOLEAN
    BY <1>0, <1>4, RecordsTyped DEF Terminate, TypeOK, Records
  <2>2. CASE Dead(health)
    BY <1>0, <2>1, <2>2, DeadBasic DEF TypeOK
  <2>3. CASE ~Dead(health)
    <3>1. pc = "up" /\ pc' = "unlock" /\ UNCHANGED <<health, call, cursor>>
      BY <1>4, <2>3 DEF Terminate, Goto
    <3>2. CallRight' /\ CursorRight'
      BY <1>0, <3>1 DEF CallRight, CursorRight, call, cursor, PutSteps
    <3> QED BY <1>0, <2>1, <3>1, <3>2, OnBasic DEF TypeOK, call, cursor
  <2> QED BY <2>2, <2>3
<1>5. CASE FindAdded
  <2>1. /\ pc = "hadd" /\ at' \in 0..N /\ stop' \in 0..N /\ pc' \in {"unlock", "down"}
        /\ pc' = "down" => stop' > 0 /\ at' >= stop'
        /\ UNCHANGED <<buf, com, call, marks>>
    BY <1>0, <1>5, <1>a DEF FindAdded, Goto, TypeOK
  <2>2. CallRight' /\ CursorRight'
    <3>1. op.name = "add" /\ op.key \in Key /\ UNCHANGED <<op, com>> /\ ~com
      BY <1>0, <2>1 DEF CallRight, CursorRight, hashpipe_status_chkinit, hashpipe_status_clear, Call, PutSteps, call
    <3>2. CallRight'
      BY <2>1, <3>1 DEF CallRight
    <3>3. CursorRight'
      <4>1. ~com' /\ pc' \notin {"moveend", "fill", "key", "value", "comment", "up"}
        BY <2>1, <3>1
      <4>2. \A a, z \in Nat : a >= z => a + 1 >= z
        OBVIOUS
      <4>3. at' \in Nat /\ stop' \in Nat
        BY <2>1
      <4> QED BY <2>1, <4>1, <4>2, <4>3 DEF CursorRight
    <3> QED BY <3>2, <3>3
  <2> QED BY <1>0, <2>1, <2>2, OnBasic DEF TypeOK, call, marks
<1>6. CASE ShiftDown
  <2>1. buf' \in Records
    BY <1>0, <1>6 DEF ShiftDown, Store, TypeOK, CursorRight, Records
  <2>2. at' \in 0..N /\ at' + 1 >= stop
    BY <1>0, <1>6 DEF ShiftDown, TypeOK, CursorRight
  <2> QED BY <1>0, <1>6, <2>1, <2>2 DEF ShiftDown, Basic, TypeOK, CallRight, CursorRight, call, marks, Records
<1>7. CASE ShiftDownOut
  <2>1. CASE Dead(health)
    BY <1>0, <1>7, <2>1, DeadBasic DEF ShiftDownOut, TypeOK
  <2>2. CASE ~Dead(health)
    <3>1. at' \in 0..N /\ at' + 1 >= stop
      BY <1>0, <1>7, <2>2 DEF ShiftDownOut, TypeOK
    <3> QED BY <1>0, <1>7, <2>2, <3>1 DEF ShiftDownOut, Basic, TypeOK, CallRight, CursorRight, call
  <2> QED BY <2>1, <2>2
<1>8. CASE AddKey
  <2>1. buf' \in Records
    <3>1. op.key \in Key
      BY <1>0, <1>8 DEF AddKey, CallRight, hashpipe_status_chkinit, hashpipe_status_clear, Call, PutSteps
    <3> QED BY <1>0, <1>8, <3>1, RecordsTyped DEF AddKey, Write, Store, Records
  <2> QED BY <1>0, <1>8, <2>1 DEF AddKey, Write, Goto, Basic, TypeOK, CallRight, CursorRight, call, cursor, marks, Records, PutSteps
<1>9. CASE ChangeKey
  <2>1. buf' \in Records
    <3>1. op.val \in Key
      BY <1>0, <1>9 DEF ChangeKey, CallRight, hashpipe_status_chkinit, hashpipe_status_clear, Call, PutSteps
    <3> QED BY <1>0, <1>9, <3>1, RecordsTyped DEF ChangeKey, Records
  <2> QED BY <1>0, <1>9, <2>1 DEF ChangeKey, Goto, Basic, TypeOK, CallRight, CursorRight, call, cursor, marks, Records, PutSteps
<1> QED BY <1>1, <1>2, <1>3, <1>4, <1>5, <1>6, <1>7, <1>8, <1>9

LEMMA NextBasic == ASSUME Basic, [Next]_vars PROVE Basic'
<1>0. TypeOK /\ CallRight /\ CursorRight /\ buf \in Records
  BY DEF Basic, TypeOK, Records
<1>1. CASE Put \/ PutComment \/ Delete \/ Add \/ Change \/ Clear \/ Attach
  BY <1>1, LockBasic DEF Put, PutComment, Delete, Add, Change, Clear, Attach, hputs, hputNumber, hputcom, hdel, hadd,
     hchange, Call
<1>2. CASE CheckInit
  BY <1>0, <1>2 DEF CheckInit, Goto, Basic, TypeOK, CallRight, CursorRight, call, cursor, marks, PutSteps
<1>3. CASE Zero
  <2>1. buf' \in Records
    BY <1>3, RecordsTyped DEF Zero, Records
  <2>2. pc = "zero" /\ pc' = "newend" /\ health' = "endless" /\ UNCHANGED <<overrun, call, cursor>>
    BY <1>3 DEF Zero, Goto
  <2>3. CallRight' /\ CursorRight'
    BY <1>0, <2>2 DEF CallRight, CursorRight, call, cursor, PutSteps
  <2> QED BY <1>0, <2>1, <2>2, <2>3, OnBasic DEF TypeOK, call, cursor
<1>4. CASE NewEnd
  <2>1. buf' \in Records
    BY <1>0, <1>4, RecordsTyped DEF NewEnd, Store, Records
  <2> QED BY <1>0, <1>4, <2>1 DEF NewEnd, Goto, Basic, TypeOK, CallRight, CursorRight, cursor, Records, PutSteps
<1>5. CASE Unlock
  <2>1. 0 \in 0..N
    OBVIOUS
  <2> QED BY <1>0, <1>5, <2>1 DEF Unlock, Idle, Goto, Basic, TypeOK, CallRight, CursorRight, marks
<1>6. CASE Kill
  BY <1>0, <1>6, DeadBasic DEF Kill, TypeOK
<1>7. CASE ForceUnlock
  BY <1>0, <1>7 DEF ForceUnlock, Basic, TypeOK, CallRight, CursorRight, cursor, marks
<1>8. CASE UNCHANGED vars
  BY <1>0, <1>8 DEF vars, Basic, TypeOK, CallRight, CursorRight, call, cursor, marks
<1> QED BY <1>1, <1>2, <1>3, <1>4, <1>5, <1>6, <1>7, <1>8, HputcBasic, OtherCallsBasic DEF Next

(* The records, the lock and where its holder is stay well typed, whatever *)
(* is written behind the segment.                                          *)
THEOREM TypeCorrect == Spec => []TypeOK
<1>1. Basic => TypeOK
  BY DEF Basic
<1> QED BY <1>1, InitBasic, NextBasic, PTL DEF Spec

-----------------------------------------------------------------------------
(* Where END is                                                            *)

Quiet == {"idle", "hputc", "hputcom", "hdel", "hadd", "hchange", "chkinit", "zero", "unlock"}

LEMMA ShapeStill ==
    ASSUME ShapeRight, UNCHANGED buf, health' # "endless" => health # "endless", pc' \in Quiet
    PROVE  ShapeRight'
BY DEF ShapeRight, Placed, EndAt, Quiet

(* To show that END is at e, and the cursor where it belongs.              *)
LEMMA ShapeBy ==
    ASSUME NEW e \in 1..N, EndAt(buf', e), Placed(e)', pc' # "newend"
    PROVE  ShapeRight'
BY DEF ShapeRight

LEMMA EndKeep ==
    ASSUME NEW b \in Records, NEW e \in 1..N, EndAt(b, e), NEW i \in 1..(e - 1),
           NEW r \in LineSet, r.key \notin {"END", "nul"}
    PROVE  EndAt([b EXCEPT ![i] = r], e)
BY DEF EndAt, Records

(* A record in use in the place of the first of two ENDs.                  *)
LEMMA EndNext ==
    ASSUME NEW b \in Records, NEW e \in 1..N, EndAt(b, e), e + 1 <= N, b[e + 1].key = "END",
           NEW r \in LineSet, r.key \notin {"END", "nul"}
    PROVE  EndAt([b EXCEPT ![e] = r], e + 1)
BY DEF EndAt, Records

LEMMA NamesReserved ==
    \A k \in Key \cup {"COMMENT"} : k \notin {"END", "nul", "blank"} /\ (k \in Key => k # "COMMENT")
OBVIOUS

LEMMA HputcShape ==
    ASSUME Basic, ShapeRight, health' # "endless",
           Place \/ MoveEnd \/ MoveEndOut \/ Fill \/ PutKey \/ PutValue \/ KeepComment \/ KeepCommentOut \/ SetCommentOut
    PROVE  ShapeRight'
<1>0. TypeOK /\ CallRight /\ CursorRight /\ buf \in Records
  BY DEF Basic, TypeOK, Records
<1>1. pc \notin {"idle", "newend"} /\ health = health'
  BY DEF Place, MoveEnd, MoveEndOut, Fill, PutKey, PutValue, KeepComment, KeepCommentOut, SetCommentOut, RunOut, Write, Dead, Die, marks
<1>2. PICK e \in 1..N : EndAt(buf, e) /\ Placed(e)
  BY <1>1 DEF ShapeRight
<1>3. ASSUME pc \in PutSteps PROVE op.key \in Key \cup {"COMMENT"}
  BY <1>0, <1>3 DEF CallRight, hashpipe_status_chkinit, hashpipe_status_clear, Call, NoCall, PutSteps
<1>4. CASE Place
  <2>1. CASE Die
    BY <2>1, ShapeStill DEF Die, Dead, Idle, Goto, Quiet
  <2>2. CASE ~Die
    <3> DEFINE k == IF op.key = "COMMENT" THEN 0 ELSE ksearch(buf, op.key)
               b == blsearch(buf)
    <3>1. /\ pc = "hputc"
          /\ at' = IF k # 0 THEN k ELSE IF b # 0 THEN b ELSE e
          /\ pc' = IF k # 0 \/ b # 0 THEN "fill" ELSE "moveend"
          /\ UNCHANGED <<buf, stop, call, marks>>
      BY <1>0, <1>2, <1>4, <2>2, EndFound DEF Place, Goto
    <3>2. k = 0 \/ k \in 1..(e - 1)
      BY <1>0, <1>2, <1>3, <3>1, KeyFound DEF PutSteps
    <3>3. b = 0 \/ b \in 1..(e - 1)
      BY <1>0, <1>2, BlankFound
    <3>4. Placed(e)'
      <4> HIDE DEF k, b
      <4> QED BY <3>1, <3>2, <3>3 DEF Placed
    <3>5. EndAt(buf', e) /\ pc' # "newend"
      <4> HIDE DEF k, b
      <4> QED BY <1>2, <3>1
    <3> QED BY <3>4, <3>5, ShapeBy
  <2> QED BY <2>1, <2>2
<1>5. CASE MoveEnd
  <2>1. at = e /\ e < N /\ buf' = [buf EXCEPT ![e + 1] = buf[e]] /\ pc' = "fill" /\ at' = at
    BY <1>2, <1>5 DEF MoveEnd, Write, Store, Goto, cursor, Placed
  <2>2. EndAt(buf', e) /\ buf'[e + 1].key = "END"
    BY <1>0, <1>2, <2>1 DEF EndAt, Records
  <2>3. Placed(e)'
    BY <2>1, <2>2 DEF Placed
  <2> QED BY <2>1, <2>2, <2>3, ShapeBy
<1>6. CASE MoveEndOut
  BY <1>6, ShapeStill DEF MoveEndOut, Dead, Idle, Goto, Quiet
<1>7. CASE Fill
  <2>1. PICK r \in LineSet : r.key \notin {"END", "nul"} /\ buf' = [buf EXCEPT ![at] = r]
    BY <1>7, RecordsTyped DEF Fill, Write, Store, Line, BlankLine
  <2>2. pc = "fill" /\ pc' \in {"key", "value"} /\ at' = at /\ at \in 1..N
    <3>1. pc = "fill" /\ pc' = (IF op.key = "COMMENT" THEN "value" ELSE "key") /\ at' = at
      BY <1>7 DEF Fill, Write, Goto, cursor
    <3> QED BY <1>0, <3>1 DEF TypeOK, CursorRight
  <2>3. CASE at < e
    <3>1. EndAt(buf', e)
      <4>1. at \in 1..(e - 1)
        BY <2>2, <2>3
      <4> QED BY <1>0, <1>2, <2>1, <4>1, EndKeep
    <3> QED BY <2>2, <2>3, <3>1, ShapeBy DEF Placed
  <2>4. CASE ~(at < e)
    <3>0. e + 1 <= N
      BY <1>2, <2>2, <2>4 DEF Placed
    <3>1. at = e /\ e + 1 \in 1..N /\ buf[e + 1].key = "END"
      BY <1>2, <2>2, <2>4 DEF Placed
    <3>2. EndAt(buf', e + 1)
      BY <1>0, <1>2, <2>1, <3>1, <3>0, EndNext
    <3>3. Placed(e + 1)'
      BY <2>2, <3>1 DEF Placed
    <3> QED BY <2>2, <3>1, <3>2, <3>3, ShapeBy
  <2> QED BY <2>3, <2>4
<1>8. CASE PutKey \/ PutValue \/ KeepComment
  <2>1. /\ pc \in {"key", "value", "comment"} /\ pc' \in {"value", "comment", "unlock"} /\ at' = at
        /\ \E v, c : buf' = [buf EXCEPT ![at] = Line(op.key, v, c)]
    <3>1. CASE PutKey
      BY <3>1 DEF PutKey, Write, Store, Goto, cursor
    <3>2. CASE PutValue
      <4>1. pc' = IF com THEN "comment" ELSE "unlock"
        BY <3>2 DEF PutValue, Write, Goto
      <4> QED BY <3>2, <4>1 DEF PutValue, Write, Store, cursor
    <3>3. CASE KeepComment
      BY <3>3 DEF KeepComment, Write, Store, Goto, cursor
    <3> QED BY <1>8, <3>1, <3>2, <3>3
  <2>2. op.key \in Key \cup {"COMMENT"}
    BY <1>3, <2>1 DEF PutSteps
  <2>3. at \in 1..(e - 1)
    BY <1>0, <1>2, <2>1 DEF TypeOK, CursorRight, Placed
  <2>4. PICK v, c : buf' = [buf EXCEPT ![at] = Line(op.key, v, c)]
    BY <2>1
  <2>5. Line(op.key, v, c) \in LineSet
    <3>1. buf' \in Records
      BY <1>0, <1>8, HputcBasic DEF Basic, TypeOK, Records
    <3> QED BY <1>0, <2>3, <2>4, <3>1 DEF Records
  <2>6. Line(op.key, v, c).key \notin {"END", "nul"}
    BY <2>2 DEF Line
  <2>7. EndAt(buf', e)
    BY <1>0, <1>2, <2>3, <2>4, <2>5, <2>6, EndKeep
  <2>8. Placed(e)'
    BY <2>1, <2>3 DEF Placed
  <2> QED BY <2>1, <2>7, <2>8, ShapeBy
<1>9. ~KeepCommentOut /\ ~SetCommentOut
  BY DEF KeepCommentOut, SetCommentOut, RunOut, Dead
<1> QED BY <1>4, <1>5, <1>6, <1>7, <1>8, <1>9

LEMMA OtherCallsShape ==
    ASSUME Basic, ShapeRight, health' # "endless",
           \/ SetComment \/ FindDeleted \/ ShiftUp \/ Terminate
           \/ FindAdded \/ ShiftDown \/ ShiftDownOut \/ AddKey \/ ChangeKey
    PROVE  ShapeRight'
<1>0. TypeOK /\ CallRight /\ CursorRight /\ buf \in Records
  BY DEF Basic, TypeOK, Records
<1>1. pc \notin {"idle", "newend"} /\ health = health'
  BY DEF SetComment, FindDeleted, ShiftUp, Terminate, FindAdded, ShiftDown, ShiftDownOut, AddKey, ChangeKey,
         Write, Dead, Die, marks
<1>2. PICK e \in 1..N : EndAt(buf, e) /\ Placed(e)
  BY <1>1 DEF ShapeRight
<1>3. ksearch(buf, "END") = e
  BY <1>0, <1>2, EndFound
<1>4. CASE SetComment
  <2>1. CASE Die
    BY <2>1, ShapeStill DEF Die, Dead, Idle, Goto, Quiet
  <2>2. CASE op.key = "COMMENT" /\ ~Die
    <3>1. at' = e /\ pc' = "moveend" /\ buf' = buf
      BY <1>3, <1>4, <2>2 DEF SetComment, Goto
    <3> QED BY <1>2, <3>1, ShapeBy DEF Placed
  <2>3. CASE op.key # "COMMENT"
    <3>1. pc' = "unlock" /\ \A i \in 1..N : buf'[i].key = buf[i].key
      BY <1>0, <1>4, <2>3 DEF SetComment, Store, Goto, Records, LineSet
    <3>2. EndAt(buf', e)
      BY <1>2, <3>1 DEF EndAt
    <3> QED BY <3>1, <3>2, ShapeBy DEF Placed
  <2> QED BY <2>1, <2>2, <2>3
<1>5. CASE FindDeleted
  <2>1. CASE Die
    BY <2>1, ShapeStill DEF Die, Dead, Idle, Goto, Quiet
  <2>2. CASE ~Die
    <3> DEFINE k == ksearch(buf, op.key)
    <3>1. /\ pc = "hdel" /\ at' = k /\ stop' = e /\ buf' = buf
          /\ pc' = IF k = 0 THEN "unlock" ELSE "up"
      BY <1>3, <1>5, <2>2 DEF FindDeleted, Goto
    <3>2. op.key \in Key \cup {"COMMENT"}
      BY <1>0, <3>1 DEF CallRight, hashpipe_status_chkinit, hashpipe_status_clear, Call, NoCall, PutSteps
    <3>3. k = 0 \/ k \in 1..(e - 1)
      BY <1>0, <1>2, <3>2, KeyFound
    <3>4. Placed(e)' /\ pc' # "newend" /\ EndAt(buf', e)
      <4> HIDE DEF k
      <4> QED BY <1>2, <3>1, <3>3 DEF Placed
    <3> QED BY <3>4, ShapeBy
  <2> QED BY <2>1, <2>2
<1>6. CASE ShiftUp
  <2>1. /\ pc = "up" /\ pc' = "up" /\ at < stop /\ stop = e /\ at' = at + 1 /\ stop' = stop /\ at \in 1..(e - 1)
        /\ buf' = [buf EXCEPT ![at] = buf[at + 1]]
    BY <1>0, <1>2, <1>6 DEF ShiftUp, Store, Placed, TypeOK, CursorRight
  <2>2. CASE at + 1 < e
    <3>1. EndAt(buf', e)
      BY <1>0, <1>2, <2>1, <2>2 DEF EndAt, Records
    <3>2. Placed(e)'
      BY <2>1, <2>2 DEF Placed
    <3> QED BY <2>1, <3>1, <3>2, ShapeBy
  <2>3. CASE at + 1 = e
    <3>1. EndAt(buf', e - 1)
      BY <1>0, <1>2, <2>1, <2>3 DEF EndAt, Records
    <3>2. Placed(e - 1)'
      BY <2>1, <2>3 DEF Placed
    <3>3. e - 1 \in 1..N
      BY <2>1, <2>3
    <3> QED BY <2>1, <3>1, <3>2, <3>3, ShapeBy
  <2> QED BY <2>1, <2>2, <2>3
<1>7. CASE Terminate
  <2>1. e = stop - 1 /\ pc' \in {"unlock", "idle"} /\ buf' = [i \in 1..N |-> IF i = stop + 1 THEN NulLine ELSE buf[i]]
    BY <1>0, <1>2, <1>7 DEF Terminate, Placed, Dead, Idle, Goto, TypeOK
  <2>2. EndAt(buf', e)
    <3>1. \A j \in 1..N : buf'[j].key = IF j = stop + 1 THEN "nul" ELSE buf[j].key
      BY <2>1 DEF NulLine, Line
    <3>2. stop \in 0..N /\ stop + 1 > e
      BY <1>0, <2>1 DEF TypeOK
    <3> QED BY <1>2, <2>1, <3>1, <3>2 DEF EndAt
  <2> QED BY <2>1, <2>2, ShapeBy DEF Placed
<1>8. CASE FindAdded
  <2>1. buf' = buf /\ pc' = "down" /\ at' = e /\ stop' \in 1..e
    BY <1>3, <1>8 DEF FindAdded, Goto
  <2> QED BY <1>2, <2>1, ShapeBy DEF Placed
<1>9. CASE ShiftDown
  <2>1. /\ pc = "down" /\ pc' = "down" /\ at \in 1..(N - 1) /\ at' = at - 1 /\ stop' = stop /\ stop <= e
        /\ buf' = [buf EXCEPT ![at + 1] = buf[at]]
    BY <1>0, <1>2, <1>9 DEF ShiftDown, Store, Placed, TypeOK, CursorRight
  <2>2. CASE at = e
    <3>1. EndAt(buf', e) /\ buf'[e] = buf'[e + 1]
      BY <1>0, <1>2, <2>1, <2>2 DEF EndAt, Records
    <3>2. Placed(e)'
      BY <2>1, <2>2, <3>1 DEF Placed
    <3> QED BY <2>1, <3>1, <3>2, ShapeBy
  <2>3. CASE at # e
    <3>1. at < e /\ at + 2 <= N /\ buf[at + 1] = buf[at + 2] /\ buf'[at] = buf'[at + 1]
      BY <1>0, <1>2, <2>1, <2>3 DEF Placed, Records
    <3>2. CASE at + 1 < e
      <4>1. EndAt(buf', e)
        BY <1>0, <1>2, <2>1, <3>1, <3>2 DEF EndAt, Records
      <4>2. Placed(e)'
        BY <2>1, <3>1, <3>2 DEF Placed
      <4> QED BY <2>1, <4>1, <4>2, ShapeBy
    <3>3. CASE at + 1 = e
      <4>1. EndAt(buf', e + 1)
        BY <1>0, <1>2, <2>1, <3>1, <3>3 DEF EndAt, Records
      <4>2. Placed(e + 1)'
        <5>1. stop' <= e + 1 /\ at' < e + 1 /\ at' + 2 <= N /\ at' + 1 = at
          BY <1>0, <2>1, <3>1, <3>3 DEF TypeOK
        <5>2. buf'[at' + 1] = buf'[at' + 2]
          BY <2>1, <3>1, <5>1
        <5> QED BY <2>1, <5>1, <5>2 DEF Placed
      <4>3. e + 1 \in 1..N
        BY <2>1, <3>1, <3>3
      <4> QED BY <2>1, <4>1, <4>2, <4>3, ShapeBy
    <3> QED BY <2>1, <3>1, <3>2, <3>3
  <2> QED BY <2>2, <2>3
<1>10. CASE ShiftDownOut
  BY <1>10, <1>1, ShapeStill DEF ShiftDownOut, Dead, Idle, Goto, Quiet
<1>11. CASE AddKey
  <2>1. /\ pc' = "unlock" /\ stop \in 1..e /\ at + 1 = stop /\ at < e /\ at + 2 <= N /\ buf[at + 1] = buf[at + 2]
        /\ buf' = [buf EXCEPT ![stop] = Line(op.key, Empty, FALSE)]
    BY <1>0, <1>2, <1>11 DEF AddKey, Write, Store, Goto, Placed, TypeOK, CursorRight
  <2>2. op.key \in Key
    BY <1>0, <1>11 DEF AddKey, CallRight, hashpipe_status_chkinit, hashpipe_status_clear, Call, NoCall, PutSteps
  <2>3. Line(op.key, Empty, FALSE) \in LineSet /\ Line(op.key, Empty, FALSE).key \notin {"END", "nul"}
    BY <2>2, RecordsTyped DEF Line
  <2>4. CASE stop < e
    <3>1. EndAt(buf', e)
      <4>1. stop \in 1..(e - 1)
        BY <2>1, <2>4
      <4> QED BY <1>0, <1>2, <2>1, <2>3, <4>1, EndKeep
    <3> QED BY <2>1, <3>1, ShapeBy DEF Placed
  <2>5. CASE stop = e
    <3>1. e + 1 \in 1..N /\ buf[e + 1].key = "END"
      BY <1>0, <1>2, <2>1, <2>5 DEF EndAt, TypeOK
    <3>2. EndAt(buf', e + 1)
      <4>1. buf' = [buf EXCEPT ![e] = Line(op.key, Empty, FALSE)] /\ e + 1 <= N
        BY <2>1, <2>5, <3>1
      <4> QED BY <1>0, <1>2, <2>3, <3>1, <4>1, EndNext
    <3> QED BY <2>1, <3>1, <3>2, ShapeBy DEF Placed
  <2> QED BY <2>1, <2>4, <2>5
<1>12. CASE ChangeKey
  <2> DEFINE k == ksearch(buf, op.key)
  <2>1. pc = "hchange" /\ pc' = "unlock"
        /\ buf' = [i \in 1..N |-> IF i = k THEN [buf[i] EXCEPT !.key = op.val] ELSE buf[i]]
    BY <1>12 DEF ChangeKey, Goto
  <2>2. op.key \in Key /\ op.val \in Key
    BY <1>0, <2>1 DEF CallRight, hashpipe_status_chkinit, hashpipe_status_clear, Call, NoCall, PutSteps
  <2>3. k = 0 \/ k \in 1..(e - 1)
    BY <1>0, <1>2, <2>2, KeyFound
  <2> HIDE DEF k
  <2>4. \A i \in 1..N : buf'[i].key = IF i = k THEN op.val ELSE buf[i].key
    BY <1>0, <2>1 DEF Records, LineSet
  <2>5. EndAt(buf', e)
    BY <1>2, <2>2, <2>3, <2>4, NamesReserved DEF EndAt
  <2> QED BY <2>1, <2>5, ShapeBy DEF Placed
<1> QED BY <1>4, <1>5, <1>6, <1>7, <1>8, <1>9, <1>10, <1>11, <1>12

LEMMA NextShape == ASSUME Basic, ShapeRight, [Next]_vars PROVE ShapeRight'
<1>0. TypeOK /\ CallRight /\ CursorRight /\ buf \in Records
  BY DEF Basic, TypeOK, Records
<1>1. CASE Put \/ PutComment \/ Delete \/ Add \/ Change \/ Clear \/ Attach
  <2>1. UNCHANGED <<buf, health>> /\ pc' \in Quiet
    BY <1>1 DEF Put, PutComment, Delete, Add, Change, Clear, Attach, Lock, Goto, marks, Quiet
  <2> QED BY <2>1, ShapeStill
<1>2. CASE CheckInit
  <2>1. UNCHANGED <<buf, health>> /\ pc' \in Quiet
    BY <1>2 DEF CheckInit, Goto, marks, Quiet
  <2> QED BY <2>1, ShapeStill
<1>3. CASE Zero
  <2>1. health' = "endless" /\ buf' = [i \in 1..N |-> NulLine]
    BY <1>3 DEF Zero
  <2> QED BY <2>1 DEF ShapeRight
<1>4. CASE NewEnd
  <2>1. buf = [i \in 1..N |-> NulLine] /\ buf' = [buf EXCEPT ![1] = EndLine] /\ pc' = "hputc"
    BY <1>4 DEF NewEnd, Store, Goto, ShapeRight
  <2>2. EndAt(buf', 1) /\ 1 \in 1..N
    BY <2>1 DEF EndAt, EndLine, NulLine, Line
  <2> QED BY <2>1, <2>2, ShapeBy DEF Placed
<1>5. CASE Unlock
  BY <1>5, ShapeStill DEF Unlock, Idle, Goto, marks, Quiet
<1>6. CASE Kill
  <2>1. UNCHANGED buf /\ pc' = "idle" /\ (health' # "endless" => health # "endless")
    BY <1>6 DEF Kill, Dead, Idle, Goto
  <2> QED BY <2>1, ShapeStill DEF Quiet
<1>7. CASE UNCHANGED <<buf, pc, cursor, marks>>
  BY <1>7 DEF ShapeRight, Placed, EndAt, cursor, marks
<1>8. CASE ForceUnlock
  BY <1>7, <1>8 DEF ForceUnlock
<1>9. CASE UNCHANGED vars
  BY <1>7, <1>9 DEF vars
<1>10. CASE health' = "endless" /\ pc' # "newend"
  BY <1>10 DEF ShapeRight
<1>11. ASSUME \/ Place \/ MoveEnd \/ MoveEndOut \/ Fill \/ PutKey \/ PutValue \/ KeepComment \/ KeepCommentOut \/ SetCommentOut
              \/ SetComment \/ FindDeleted \/ ShiftUp \/ Terminate
              \/ FindAdded \/ ShiftDown \/ ShiftDownOut \/ AddKey \/ ChangeKey
       PROVE  ShapeRight'
  <2>2. pc # "newend" /\ pc # "zero"
    BY <1>11 DEF Place, MoveEnd, MoveEndOut, Fill, PutKey, PutValue, KeepComment, KeepCommentOut, SetCommentOut, RunOut,
       SetComment, FindDeleted, ShiftUp, Terminate, FindAdded, ShiftDown, ShiftDownOut, AddKey, ChangeKey
  <2>3. pc' # "newend"
    BY <1>11, <2>2 DEF Place, MoveEnd, MoveEndOut, Fill, PutKey, PutValue, KeepComment, KeepCommentOut, SetCommentOut, RunOut,
       SetComment, FindDeleted, ShiftUp, Terminate, FindAdded, ShiftDown, ShiftDownOut, AddKey, ChangeKey,
       Write, Goto, Die, Dead, Idle
  <2> QED BY <1>10, <1>11, <2>3, HputcShape, OtherCallsShape
<1> QED BY <1>1, <1>2, <1>3, <1>4, <1>5, <1>6, <1>8, <1>9, <1>11 DEF Next

LEMMA ShapeInvariance == Spec => [](Basic /\ ShapeRight)
<1>1. Init => ShapeRight
  BY DEF Init, ShapeRight
<1> QED BY <1>1, InitBasic, NextBasic, NextShape, PTL DEF Spec

(* END is there for the next caller whoever dies where, unless the buffer  *)
(* was being cleared or was overrun.                                       *)
THEOREM EndThere == Spec => []EndKept
<1>1. Basic /\ ShapeRight => EndKept
  <2> SUFFICES ASSUME Basic, ShapeRight, health # "endless" PROVE ksearch(buf, "END") # 0
    BY DEF EndKept
  <2>1. PICK e \in 1..N : EndAt(buf, e)
    BY DEF ShapeRight
  <2> QED BY <2>1, EndFound DEF Basic, TypeOK, Records
<1> QED BY <1>1, ShapeInvariance, PTL

-----------------------------------------------------------------------------
(* Some of the records, and how they change                                *)

LEMMA CommentsFinite ==
    ASSUME NEW b, NEW R \in SUBSET (1..N)
    PROVE  IsFiniteSet(Comments(b, R)) /\ Cardinality(Comments(b, R)) \in Nat
<1>1. Comments(b, R) \subseteq 1..N /\ IsFiniteSet(1..N)
  BY 1 \in Int, N \in Int, FS_Interval DEF Comments
<1>2. IsFiniteSet(Comments(b, R))
  BY <1>1, FS_Subset
<1> QED BY <1>2, FS_CardinalityType

(* Nothing changes but records that are neither keywords nor lines.        *)
LEMMA RestSame ==
    ASSUME NEW b, NEW c, NEW R \in SUBSET (1..N),
           \A i \in R : \/ c[i] = b[i]
                        \/ b[i].key \notin Key \cup {"COMMENT"} /\ c[i].key \notin Key \cup {"COMMENT"}
    PROVE  /\ Alone(b, R) => Alone(c, R)
           /\ \A m : \A k \in Key : Reads(b, R, k, m) => Reads(c, R, k, m)
           /\ \A k \in Key : (\A i \in R : b[i].key # k) => \A i \in R : c[i].key # k
           /\ Comments(c, R) = Comments(b, R)
<1>1. Alone(b, R) => Alone(c, R)
  BY DEF Alone
<1>2. ASSUME NEW k \in Key, NEW m, Reads(b, R, k, m) PROVE Reads(c, R, k, m)
  <2>1. CASE m = Absent /\ \A i \in R : b[i].key # k
    BY <2>1 DEF Reads
  <2>2. CASE \E i \in R : b[i].key = k /\ m = Entry(b[i])
    <3>1. PICK i \in R : b[i].key = k /\ m = Entry(b[i])
      BY <2>2
    <3>2. c[i] = b[i]
      BY <3>1
    <3> QED BY <3>1, <3>2 DEF Reads
  <2> QED BY <1>2, <2>1, <2>2 DEF Reads
<1>3. Comments(c, R) = Comments(b, R)
  BY DEF Comments
<1> QED BY <1>1, <1>2, <1>3

LEMMA CommentsDropped ==
    ASSUME NEW b, NEW R \in SUBSET (1..N), NEW x \in R
    PROVE  /\ b[x].key # "COMMENT" => Comments(b, R \ {x}) = Comments(b, R)
           /\ b[x].key = "COMMENT" => Cardinality(Comments(b, R \ {x})) + 1 = Cardinality(Comments(b, R))
<1>1. b[x].key # "COMMENT" => Comments(b, R \ {x}) = Comments(b, R)
  BY DEF Comments
<1>2. ASSUME b[x].key = "COMMENT" PROVE Cardinality(Comments(b, R \ {x})) + 1 = Cardinality(Comments(b, R))
  <2>1. Comments(b, R \ {x}) = Comments(b, R) \ {x} /\ x \in Comments(b, R)
    BY <1>2 DEF Comments
  <2>2. IsFiniteSet(Comments(b, R)) /\ Cardinality(Comments(b, R)) \in Nat
    BY CommentsFinite
  <2>3. Cardinality(Comments(b, R) \ {x}) = Cardinality(Comments(b, R)) - 1
    BY <2>1, <2>2, FS_RemoveElement
  <2>4. Cardinality(Comments(b, R \ {x})) = Cardinality(Comments(b, R)) - 1
    BY ONLY <2>1, <2>3
  <2> QED BY ONLY <2>2, <2>4
<1> QED BY <1>1, <1>2

LEMMA CommentsAdded ==
    ASSUME NEW b, NEW c, NEW R \in SUBSET (1..N), NEW y \in (1..N) \ R, \A i \in R : c[i] = b[i]
    PROVE  /\ c[y].key # "COMMENT" => Comments(c, R \cup {y}) = Comments(b, R)
           /\ c[y].key = "COMMENT" => Cardinality(Comments(c, R \cup {y})) = Cardinality(Comments(b, R)) + 1
<1>1. c[y].key # "COMMENT" => Comments(c, R \cup {y}) = Comments(b, R)
  BY DEF Comments
<1>2. ASSUME c[y].key = "COMMENT" PROVE Cardinality(Comments(c, R \cup {y})) = Cardinality(Comments(b, R)) + 1
  <2>1. Comments(c, R \cup {y}) = Comments(b, R) \cup {y} /\ y \notin Comments(b, R)
    BY <1>2 DEF Comments
  <2>2. IsFiniteSet(Comments(b, R))
    BY CommentsFinite
  <2> QED BY <2>1, <2>2, FS_AddElement
<1> QED BY <1>1, <1>2

(* Record x is taken out.                                                  *)
LEMMA RestDropped ==
    ASSUME NEW b, NEW R \in SUBSET (1..N), NEW x \in R
    PROVE  LET Q == R \ {x}
               k == b[x].key
           IN  /\ Alone(b, R) => Alone(b, Q) /\ (k \in Key => \A i \in Q : b[i].key # k)
               /\ Alone(b, R) /\ k \in Key => \A m : Reads(b, R, k, m) => m = Entry(b[x])
               /\ \A m : \A l \in Key : l # k /\ Reads(b, R, l, m) => Reads(b, Q, l, m)
<1> DEFINE Q == R \ {x}
           k == b[x].key
<1>1. Alone(b, R) => Alone(b, Q) /\ (k \in Key => \A i \in Q : b[i].key # k)
  BY DEF Alone
<1>2. ASSUME Alone(b, R), k \in Key, NEW m, Reads(b, R, k, m) PROVE m = Entry(b[x])
  BY <1>2 DEF Alone, Reads
<1>3. ASSUME NEW l \in Key, NEW m, l # k, Reads(b, R, l, m) PROVE Reads(b, Q, l, m)
  BY <1>3 DEF Reads
<1> QED BY <1>1, <1>2, <1>3

(* Record y comes in.                                                      *)
LEMMA RestAdded ==
    ASSUME NEW b, NEW c, NEW R \in SUBSET (1..N), NEW y \in (1..N) \ R,
           \A i \in R : c[i] = b[i]
    PROVE  LET Q == R \cup {y}
               k == c[y].key
           IN  /\ Alone(b, R) /\ (k \in Key => \A i \in R : b[i].key # k) => Alone(c, Q)
               /\ Reads(c, Q, k, Entry(c[y]))
               /\ \A m : \A l \in Key : l # k /\ Reads(b, R, l, m) => Reads(c, Q, l, m)
<1> DEFINE Q == R \cup {y}
           k == c[y].key
<1>1. Alone(b, R) /\ (k \in Key => \A i \in R : b[i].key # k) => Alone(c, Q)
  BY DEF Alone
<1>2. Reads(c, Q, k, Entry(c[y]))
  BY DEF Reads
<1>3. ASSUME NEW l \in Key, NEW m, l # k, Reads(b, R, l, m) PROVE Reads(c, Q, l, m)
  BY <1>3 DEF Reads
<1> QED BY <1>1, <1>2, <1>3

(* A record that is copied to y and does not count at x any more.          *)
LEMMA CommentsMoved ==
    ASSUME NEW b, NEW c, NEW R \in SUBSET (1..N), NEW x \in R, NEW y \in (1..N) \ R,
           c[y] = b[x], \A i \in R : c[i] = b[i], NEW Q, Q = (R \ {x}) \cup {y}
    PROVE  Cardinality(Comments(c, Q)) = Cardinality(Comments(b, R))
<1> DEFINE P == R \ {x}
<1>1. P \in SUBSET (1..N) /\ y \in (1..N) \ P /\ (\A i \in P : c[i] = b[i]) /\ Q = P \cup {y}
  OBVIOUS
<1>2. CASE b[x].key # "COMMENT"
  <2>1. Comments(b, P) = Comments(b, R)
    BY <1>2, CommentsDropped
  <2>2. Comments(c, Q) = Comments(b, P)
    BY <1>2 DEF Comments
  <2> QED BY <2>1, <2>2
<1>3. CASE b[x].key = "COMMENT"
  <2>1. Cardinality(Comments(b, P)) + 1 = Cardinality(Comments(b, R))
    BY <1>3, CommentsDropped
  <2>2. Cardinality(Comments(c, Q)) = Cardinality(Comments(b, P)) + 1
    <3> HIDE DEF P
    <3> QED BY <1>1, <1>3, CommentsAdded
  <2> QED BY <2>1, <2>2
<1> QED BY <1>2, <1>3

LEMMA RestMoved ==
    ASSUME NEW b, NEW c, NEW R \in SUBSET (1..N), NEW x \in R, NEW y \in (1..N) \ R,
           c[y] = b[x], \A i \in R : c[i] = b[i]
    PROVE  LET Q == (R \ {x}) \cup {y}
           IN  /\ Alone(b, R) => Alone(c, Q)
               /\ \A m : \A k \in Key : Reads(b, R, k, m) => Reads(c, Q, k, m)
               /\ \A k \in Key : (\A i \in R : b[i].key # k) => \A i \in Q : c[i].key # k
               /\ Cardinality(Comments(c, Q)) = Cardinality(Comments(b, R))
<1> DEFINE P == R \ {x}
           Q == P \cup {y}
           k == b[x].key
<1>1. Alone(b, R) => Alone(c, Q)
  BY DEF Alone
<1>2. ASSUME NEW l \in Key, NEW m, Reads(b, R, l, m) PROVE Reads(c, Q, l, m)
  <2>1. CASE m = Absent /\ \A i \in R : b[i].key # l
    BY <2>1 DEF Reads
  <2>2. CASE \E i \in R : b[i].key = l /\ m = Entry(b[i])
    <3>1. PICK i \in R : b[i].key = l /\ m = Entry(b[i])
      BY <2>2
    <3>2. \E j \in Q : c[j] = b[i]
      BY <3>1
    <3> QED BY <3>1, <3>2 DEF Reads
  <2> QED BY <1>2, <2>1, <2>2 DEF Reads
<1>3. ASSUME NEW l \in Key, \A i \in R : b[i].key # l PROVE \A i \in Q : c[i].key # l
  BY <1>3
<1>4. Cardinality(Comments(c, Q)) = Cardinality(Comments(b, R))
  BY CommentsMoved
<1> QED BY <1>1, <1>2, <1>3, <1>4

(* What a user reads.                                                      *)
LEMMA Reading ==
    ASSUME NEW b \in Records, NEW e \in 1..N, EndAt(b, e), Alone(b, 1..N), NEW k \in Key
    PROVE  Reads(b, 1..N, k, hgetc(b, k)) /\ \A m : Reads(b, 1..N, k, m) => m = hgetc(b, k)
<1>1. CASE ksearch(b, k) = 0 /\ \A j \in 1..N : b[j].key # k
  BY <1>1 DEF hgetc, Reads
<1>2. CASE ksearch(b, k) \in 1..(e - 1) /\ b[ksearch(b, k)].key = k
  <2>1. ksearch(b, k) \in 1..N /\ ksearch(b, k) # 0
    BY <1>2
  <2>2. hgetc(b, k) = Entry(b[ksearch(b, k)])
    BY <2>1 DEF hgetc, Entry
  <2>3. \A i \in 1..N : b[i].key = k => i = ksearch(b, k)
    BY <1>2, <2>1 DEF Alone
  <2> QED BY <1>2, <2>1, <2>2, <2>3 DEF Reads
<1> QED BY <1>1, <1>2, KeyFound

LEMMA LinesCounted ==
    ASSUME NEW b \in Records, NEW e \in 1..N, EndAt(b, e)
    PROVE  LinesOf(b) = Cardinality(Comments(b, 1..N))
<1>1. {i \in Visible(b) : b[i].key = "COMMENT"} = Comments(b, 1..N)
  BY DEF Comments, Visible, EndAt
<1> QED BY <1>1 DEF LinesOf

-----------------------------------------------------------------------------
(* What is remembered                                                      *)

LEMMA ViewIs ==
    /\ NoView = [known |-> FALSE, map |-> NoMap, lines |-> 0]
    /\ \A b, h : View(b, h) = IF h = "good" THEN [known |-> TRUE, map |-> MapOf(b), lines |-> LinesOf(b)] ELSE NoView
<1>1. NoView = [known |-> FALSE, map |-> NoMap, lines |-> 0]
  BY DEF NoView, View
<1>2. ASSUME NEW b, NEW h, h = "good" PROVE View(b, h) = [known |-> TRUE, map |-> MapOf(b), lines |-> LinesOf(b)]
  BY <1>2 DEF View
<1>3. ASSUME NEW b, NEW h, h # "good" PROVE View(b, h) = NoView
  BY <1>1, <1>3 DEF View
<1> QED BY <1>1, <1>2, <1>3

LEMMA LinesType == \A b : LinesOf(b) \in Nat
<1> TAKE b
<1>1. {i \in Visible(b) : b[i].key = "COMMENT"} = Comments(b, Visible(b)) /\ Visible(b) \in SUBSET (1..N)
  BY DEF Comments, Visible
<1> QED BY <1>1, CommentsFinite DEF LinesOf

LEMMA BeforeOn ==
    ASSUME Basic', BeforeRight, UNCHANGED <<before, op>>, health' = "good" => health = "good", pc # "idle",
           pc' \notin {"idle", "chkinit", "zero", "newend"}, pc \in PutSteps => pc' \in PutSteps
    PROVE  BeforeRight'
<1>1. NoView' = NoView
  BY DEF NoView
<1> QED BY <1>1 DEF BeforeRight

LEMMA BeforeEnd == ASSUME Idle PROVE BeforeRight'
<1>1. before' = NoView /\ before' = NoView'
  BY DEF Idle, NoView
<1>2. NoView.known = FALSE /\ NoView.map = [k \in Key |-> NoView.map[k]]
  BY ViewIs DEF NoMap
<1>3. ~before'.known /\ before'.known \in BOOLEAN /\ before'.map = [k \in Key |-> before'.map[k]] /\ pc' = "idle"
  BY <1>1, <1>2 DEF Idle, Goto
<1> QED BY <1>1, <1>3 DEF BeforeRight

LEMMA LockBefore ==
    ASSUME NEW c, NEW l, Lock(c, l), l # "newend",
           c.name = "init" => l # "zero"
    PROVE  BeforeRight'
<1>1. before' = View(buf, health) /\ health' = health /\ pc' = l /\ op' = c /\ NoView' = NoView
  BY DEF Lock, Goto, marks, NoView
<1>2. CASE health = "good"
  <2>1. before' = [known |-> TRUE, map |-> MapOf(buf), lines |-> LinesOf(buf)]
    BY <1>1, <1>2, ViewIs
  <2>2. before'.known = TRUE /\ before'.lines \in Nat /\ before'.map = [k \in Key |-> before'.map[k]]
    BY <2>1, LinesType DEF MapOf
  <2> QED BY <1>1, <1>2, <2>2 DEF BeforeRight
<1>3. CASE health # "good"
  <2>1. before' = NoView /\ before'.known = FALSE /\ before'.map = [k \in Key |-> before'.map[k]]
    BY <1>1, <1>3, ViewIs DEF NoMap
  <2> QED BY <1>1, <1>3, <2>1 DEF BeforeRight
<1> QED BY <1>2, <1>3

LEMMA NextBefore == ASSUME Basic, ShapeRight, BeforeRight, [Next]_vars PROVE BeforeRight'
<1>0. TypeOK /\ CallRight /\ CursorRight /\ buf \in Records /\ Basic'
  BY NextBasic DEF Basic, TypeOK, Records
<1>1. CASE Put \/ PutComment \/ Delete \/ Add \/ Change \/ Clear \/ Attach
  BY <1>1, LockBefore DEF Put, PutComment, Delete, Add, Change, Clear, Attach, hputs, hputNumber, hputcom, hdel, hadd,
     hchange, hashpipe_status_clear, Call
<1>2. CASE CheckInit
  <2>1. /\ pc = "chkinit" /\ UNCHANGED <<before, op, health>>
        /\ pc' = (IF ~hashpipe_find_end(buf) THEN "zero"
                  ELSE IF hgetc(buf, InstanceKey).val = InstanceVal THEN "unlock" ELSE "hputc")
    BY <1>2 DEF CheckInit, Goto, call, marks
  <2>2. CASE hashpipe_find_end(buf)
    <3>1. pc' \in {"unlock", "hputc"}
      BY <2>1, <2>2
    <3> QED BY <1>0, <2>1, <3>1, BeforeOn DEF PutSteps
  <2>3. CASE ~hashpipe_find_end(buf)
    <3>1. health = "endless"
      BY <1>0, <2>3, EndFound DEF ShapeRight
    <3>2. pc' = "zero" /\ ~before.known /\ NoView' = NoView
      BY <2>1, <2>3, <3>1 DEF BeforeRight, NoView
    <3> QED BY <2>1, <3>1, <3>2 DEF BeforeRight
  <2> QED BY <2>2, <2>3
<1>3. CASE Zero
  <2>1. pc = "zero" /\ pc' = "newend" /\ health' = "endless" /\ UNCHANGED <<before, op>> /\ NoView' = NoView
    BY <1>3 DEF Zero, Goto, call, NoView
  <2> QED BY <2>1 DEF BeforeRight
<1>4. CASE NewEnd
  <2>1. pc = "newend" /\ pc' = "hputc" /\ UNCHANGED <<before, op>> /\ NoView' = NoView
    BY <1>4 DEF NewEnd, Goto, NoView
  <2>2. op.name \in {"init", "clear"}
    BY <1>0, <2>1 DEF CallRight, hashpipe_status_chkinit, hashpipe_status_clear, Call, PutSteps
  <2> QED BY <2>1, <2>2 DEF BeforeRight, PutSteps
<1>5. CASE Idle
  BY <1>5, BeforeEnd
<1>6. ASSUME UNCHANGED <<pc, op, before, health>> PROVE BeforeRight'
  BY <1>6 DEF BeforeRight, NoView
<1>7. CASE ForceUnlock
  BY <1>6, <1>7 DEF ForceUnlock, marks
<1>8. CASE UNCHANGED vars
  BY <1>6, <1>8 DEF vars, call, marks
<1>9. CASE Kill \/ Unlock \/ Die \/ KeepCommentOut \/ SetCommentOut
  BY <1>5, <1>9 DEF Kill, Unlock, Die, Dead, KeepCommentOut, SetCommentOut, RunOut
<1>10. CASE MoveEndOut \/ Terminate \/ ShiftDownOut
  <2>1. CASE Dead(health)
    BY <1>5, <2>1 DEF Dead
  <2>2. CASE ~Dead(health)
    <3>1. UNCHANGED <<before, op>> /\ pc # "idle" /\ (pc \in PutSteps => pc' \in PutSteps)
          /\ pc' \notin {"idle", "chkinit", "zero", "newend"} /\ (health' = "good" => health = "good")
      BY <1>10, <2>2 DEF MoveEndOut, Terminate, ShiftDownOut, Goto, call, PutSteps
    <3> QED BY <1>0, <3>1, BeforeOn
  <2> QED BY <2>1, <2>2
<1>11. CASE ~Die /\ (Place \/ MoveEnd \/ Fill \/ PutKey \/ PutValue \/ KeepComment)
  <2>1. UNCHANGED <<before, op, health>> /\ pc \in PutSteps /\ pc' \in PutSteps
    <3>1. CASE Place
      BY <1>11, <3>1 DEF Place, Goto, call, marks, PutSteps
    <3>2. CASE Fill
      <4>1. \E r : Write(at, r, IF op.key = "COMMENT" THEN "value" ELSE "key")
        BY <3>2 DEF Fill
      <4> QED BY <3>2, <4>1 DEF Fill, Write, Goto, call, marks, PutSteps
    <3>3. CASE PutValue
      BY <3>3 DEF PutValue, Write, Goto, call, marks, PutSteps
    <3>4. CASE MoveEnd \/ PutKey \/ KeepComment
      BY <3>4 DEF MoveEnd, PutKey, KeepComment, Write, Goto, call, marks, PutSteps
    <3> QED BY <1>11, <3>1, <3>2, <3>3, <3>4
  <2> QED BY <1>0, <2>1, BeforeOn DEF PutSteps
<1>12. CASE ~Die /\ (SetComment \/ FindDeleted \/ ShiftUp \/ FindAdded \/ ShiftDown \/ AddKey \/ ChangeKey)
  <2>1. UNCHANGED <<before, op, health>> /\ pc \in {"hputcom", "hdel", "up", "hadd", "down", "hchange"}
        /\ pc' \in {"moveend", "unlock", "up", "down"}
    <3>1. CASE SetComment
      BY <1>12, <3>1 DEF SetComment, Goto, call, marks
    <3>2. CASE FindDeleted
      BY <1>12, <3>2 DEF FindDeleted, Goto, call, marks
    <3>3. CASE FindAdded
      BY <3>3 DEF FindAdded, Goto, call, marks
    <3>4. CASE ShiftUp \/ ShiftDown \/ AddKey \/ ChangeKey
      BY <3>4 DEF ShiftUp, ShiftDown, AddKey, ChangeKey, Write, Goto, call, marks
    <3> QED BY <1>12, <3>1, <3>2, <3>3, <3>4
  <2> QED BY <1>0, <2>1, BeforeOn DEF PutSteps
<1> QED BY <1>1, <1>2, <1>3, <1>4, <1>7, <1>8, <1>9, <1>10, <1>11, <1>12 DEF Next

-----------------------------------------------------------------------------
(* What the records say                                                    *)

LEMMA BaseSame == ASSUME UNCHANGED <<before, op>>, pc # "zero", pc' # "zero" PROVE Base' = Base
BY DEF Base, NoView

LEMMA AbsentIs == \A r : Entry(r) # Absent /\ Entry(r).there = TRUE /\ Absent.there = FALSE /\ Absent.com = FALSE /\ Absent.val = Empty
BY DEF Entry, Absent

(* Where nothing is promised but that keywords are unique.                 *)
LEMMA IdleEffect == ASSUME Alone(buf', 1..N), pc' = "idle" PROVE EffectRight'
<1>1. Rest' = 1..N
  BY DEF Rest
<1>2. WorkRight'
  BY DEF WorkRight
<1>3. Alone(buf, Rest)'
  BY <1>1 DEF Alone
<1> QED BY <1>2, <1>3 DEF EffectRight

(* The record that a call works on has a keyword of its own.               *)
LEMMA AloneAll ==
    ASSUME IInv, health = "good", pc \notin {"up", "down"}
    PROVE  Alone(buf, 1..N)
<1>1. Alone(buf, Rest) /\ WorkRight
  BY DEF IInv, EffectRight
<1>2. CASE pc \in {"fill", "key", "value", "comment"}
  <2>1. at \in 1..N /\ Rest = (1..N) \ {at}
    BY <1>2 DEF IInv, TypeOK, CursorRight, Rest
  <2>2. buf[at].key \in Key => buf[at].key = op.key
    BY <1>1, <1>2 DEF WorkRight, BlankLine, Line
  <2>3. buf[at].key \in Key => \A i \in Rest : buf[i].key # buf[at].key
    BY <1>1, <1>2, <2>2 DEF WorkRight
  <2> QED BY <1>1, <2>1, <2>3 DEF Alone
<1>3. CASE pc \notin {"fill", "key", "value", "comment"}
  BY <1>1, <1>3 DEF Rest
<1> QED BY <1>2, <1>3

LEMMA LockEffect ==
    ASSUME IInv, NEW c, NEW l, Lock(c, l), health' = "good",
           \/ c.name = "put" /\ l = "hputc"
           \/ c.name = "com" /\ l = "hputcom"
           \/ c.name = "del" /\ l = "hdel"
           \/ c.name = "add" /\ l = "hadd"
           \/ c.name = "change" /\ c.key \in Key /\ c.val \in Key /\ l = "hchange"
           \/ c.name = "init" /\ l = "chkinit"
           \/ c.name = "clear" /\ l = "zero"
    PROVE  EffectRight'
<1>1. /\ before' = View(buf, "good") /\ health = "good" /\ pc' = l /\ op' = c /\ buf' = buf /\ pc = "idle" /\ Usable(c)
  BY DEF IInv, TypeOK, Lock, Goto, marks
<1>2. PICK e \in 1..N : EndAt(buf, e)
  BY <1>1 DEF IInv, ShapeRight
<1>3. Alone(buf, 1..N) /\ buf \in Records
  BY <1>1, AloneAll DEF IInv, TypeOK, Records
<1>4. before' = [known |-> TRUE, map |-> MapOf(buf), lines |-> LinesOf(buf)]
  BY <1>1, ViewIs
<1>5. Base' = before'
  BY <1>1, <1>4 DEF Base
<1>6. \A k \in Key : Base'.map[k] = hgetc(buf, k)
  BY <1>4, <1>5 DEF MapOf
<1>7. Rest' = 1..N /\ WorkRight'
  BY <1>1 DEF Rest, WorkRight
<1>8. \A k \in Key : Reads(buf, 1..N, k, Base'.map[k])
  BY <1>2, <1>3, <1>6, Reading
<1>9. \A k \in Key : ksearch(buf, k) = 0 => Base'.map[k] = Absent
  BY <1>6 DEF hgetc
<1>10. OthersRight'
  BY <1>1, <1>7, <1>8 DEF OthersRight
<1>11. op'.key \in Key => Stored'
  <2>1. pc' = "hadd" /\ op'.key \in Key => Base'.map[op'.key] = Absent
    BY <1>1, <1>9 DEF Usable
  <2>2. pc' = "hchange" => Base'.map[op'.val] = Absent
    BY <1>1, <1>9 DEF Usable
  <2>3. op'.name = "change" => Reads(buf, 1..N, op'.val, Absent)
    BY <1>1, <1>8, <2>2
  <2> QED BY <1>1, <1>7, <1>8, <2>1, <2>2, <2>3 DEF Stored
<1>12. Counted'
  <2>1. Base'.lines = Cardinality(Comments(buf, 1..N))
    BY <1>2, <1>3, <1>4, <1>5, LinesCounted
  <2> QED BY <1>1, <1>7, <2>1 DEF Counted
<1> QED BY <1>1, <1>3, <1>7, <1>10, <1>11, <1>12 DEF EffectRight

LEMMA KillEffect ==
    ASSUME IInv, Kill \/ Unlock \/ ForceUnlock, health' = "good"
    PROVE  EffectRight'
<1>1. health = "good" /\ buf' = buf /\ pc \notin {"up", "down"} /\ pc' = "idle"
  BY DEF Kill, Unlock, ForceUnlock, Dead, Idle, Goto, marks, IInv, TypeOK
<1> QED BY <1>1, AloneAll, IdleEffect

LEMMA CheckInitEffect ==
    ASSUME IInv, CheckInit, health' = "good"
    PROVE  EffectRight'
<1>1. /\ pc = "chkinit" /\ UNCHANGED <<buf, before, op, health>>
      /\ pc' = (IF ~hashpipe_find_end(buf) THEN "zero"
                ELSE IF hgetc(buf, InstanceKey).val = InstanceVal THEN "unlock" ELSE "hputc")
  BY DEF CheckInit, Goto, call, marks
<1>2. PICK e \in 1..N : EndAt(buf, e)
  BY <1>1 DEF IInv, ShapeRight
<1>3. Alone(buf, 1..N) /\ buf \in Records
  BY <1>1, AloneAll DEF IInv, TypeOK, Records
<1>4. op = hashpipe_status_chkinit
  BY <1>1 DEF IInv, CallRight, PutSteps, Call
<1>5. pc' = (IF hgetc(buf, InstanceKey).val = InstanceVal THEN "unlock" ELSE "hputc")
  BY <1>1, <1>2, <1>3, EndFound
<1>6. Rest = 1..N /\ Rest' = 1..N /\ WorkRight' /\ Base' = Base
  BY <1>1, <1>5, BaseSame DEF Rest, WorkRight
<1>7. op.key = InstanceKey /\ op.name = "init" /\ op.val = InstanceVal
  BY <1>4 DEF hashpipe_status_chkinit, Call
<1>8. OthersRight /\ Stored /\ Counted
  BY <1>1, <1>7 DEF IInv, EffectRight
<1>9. Reads(buf, 1..N, op.key, Base.map[op.key])
  BY <1>1, <1>6, <1>8 DEF Stored
<1>10. OthersRight' /\ Counted'
  BY <1>1, <1>5, <1>6, <1>7, <1>8 DEF OthersRight, Counted
<1>11. Stored'
  <2>1. CASE pc' = "hputc"
    BY <1>1, <1>6, <1>7, <1>9, <2>1 DEF Stored
  <2>2. CASE pc' = "unlock"
    <3> DEFINE m == Base.map[op.key]
    <3>1. m = hgetc(buf, InstanceKey) /\ m.val = InstanceVal
      BY <1>2, <1>3, <1>5, <1>7, <1>9, <2>2, Reading
    <3>2. m # Absent
      BY <3>1 DEF Absent
    <3>3. m = [val |-> op.val, com |-> m.com, there |-> TRUE]
      <4>1. PICK i \in 1..N : m = Entry(buf[i])
        BY <1>9, <3>2 DEF Reads
      <4> HIDE DEF m
      <4>2. m = [val |-> m.val, com |-> m.com, there |-> TRUE]
        BY <4>1 DEF Entry
      <4> QED BY <1>7, <3>1, <4>2
    <3>4. Reads(buf', Rest', op'.key, [val |-> op'.val, com |-> Base'.map[op'.key].com, there |-> TRUE])
      BY <1>1, <1>6, <1>9, <3>3
    <3> QED BY <1>1, <1>7, <2>2, <3>4 DEF Stored
  <2> QED BY <1>5, <2>1, <2>2
<1> QED BY <1>1, <1>3, <1>6, <1>10, <1>11 DEF EffectRight

LEMMA NewEndEffect ==
    ASSUME IInv, NewEnd
    PROVE  EffectRight'
<1>1. buf = [i \in 1..N |-> NulLine] /\ buf' = [buf EXCEPT ![1] = EndLine] /\ pc = "newend" /\ pc' = "hputc"
      /\ UNCHANGED <<before, op>>
  BY DEF NewEnd, Store, Goto, IInv, ShapeRight
<1>2. Base' = NoView
  <2>1. op.name = "clear" \/ ~before.known
    BY <1>1, SMTT(30) DEF IInv, CallRight, BeforeRight, PutSteps, hashpipe_status_clear, hashpipe_status_chkinit, Call
  <2> QED BY <1>1, <2>1 DEF Base, NoView
<1>3. \A i \in 1..N : buf'[i].key \in {"END", "nul"}
  BY <1>1 DEF EndLine, NulLine, Line
<1>4. Rest' = 1..N /\ WorkRight'
  BY <1>1 DEF Rest, WorkRight
<1>5. Alone(buf', 1..N) /\ \A k \in Key : Reads(buf', 1..N, k, Absent)
  BY <1>3 DEF Alone, Reads
<1>6. \A k \in Key : Base'.map[k] = Absent
  BY <1>2, ViewIs DEF NoMap
<1>7. OthersRight'
  BY <1>4, <1>5, <1>6 DEF OthersRight
<1>8. op'.key \in Key => Stored'
  <2>1. op'.name # "change"
    BY <1>1 DEF IInv, CallRight, PutSteps, hashpipe_status_clear, hashpipe_status_chkinit, Call
  <2> QED BY <1>1, <1>4, <1>5, <1>6, <2>1 DEF Stored
<1>9. Counted'
  <2>1. Comments(buf', 1..N) = {}
    BY <1>3 DEF Comments
  <2>2. Base'.lines = 0
    BY <1>2, ViewIs
  <2> QED BY <1>1, <1>4, <2>1, <2>2, FS_EmptySet DEF Counted
<1> QED BY <1>4, <1>5, <1>7, <1>8, <1>9 DEF EffectRight

LEMMA OthersBy ==
    ASSUME OthersRight, UNCHANGED <<before, op>>, pc # "zero", pc' # "zero",
           \A m : \A k \in Key : Reads(buf, Rest, k, m) =>
               Reads(buf', Rest', k, m) \/ k = op.key \/ (op.name = "change" /\ k = op.val)
    PROVE  OthersRight'
<1>1. Base' = Base
  BY BaseSame
<1> QED BY <1>1 DEF OthersRight

(* The record that is worked on is all that changes.                       *)
LEMMA RestKept ==
    ASSUME Alone(buf, Rest), OthersRight, UNCHANGED <<before, op>>, pc # "zero", pc' # "zero",
           Rest' = Rest,
           \A i \in Rest : \/ buf'[i] = buf[i]
                           \/ buf[i].key \notin Key \cup {"COMMENT"} /\ buf'[i].key \notin Key \cup {"COMMENT"}
    PROVE  /\ Alone(buf', Rest') /\ OthersRight'
           /\ Comments(buf', Rest') = Comments(buf, Rest)
           /\ \A m : \A k \in Key : Reads(buf, Rest, k, m) => Reads(buf', Rest', k, m)
           /\ \A k \in Key : (\A i \in Rest : buf[i].key # k) => \A i \in Rest' : buf'[i].key # k
<1>1. Rest \in SUBSET (1..N)
  BY DEF Rest
<1>2. /\ Alone(buf', Rest) /\ Comments(buf', Rest) = Comments(buf, Rest)
      /\ \A m : \A k \in Key : Reads(buf, Rest, k, m) => Reads(buf', Rest, k, m)
      /\ \A k \in Key : (\A i \in Rest : buf[i].key # k) => \A i \in Rest : buf'[i].key # k
  BY <1>1, RestSame
<1>3. OthersRight'
  BY <1>2, OthersBy
<1> QED BY <1>2, <1>3

LEMMA PutCalls ==
    ASSUME CallRight, pc \in PutSteps \ {"unlock"}
    PROVE  /\ op.key \in Key \cup {"COMMENT"}
           /\ op.name \in {"put", "init", "clear"} \/ (op.name = "com" /\ op.key = "COMMENT")
BY DEF CallRight, PutSteps, hashpipe_status_chkinit, hashpipe_status_clear, Call, NoCall

LEMMA PlaceEffect ==
    ASSUME IInv, Place, health' = "good"
    PROVE  EffectRight'
<1>1. pc = "hputc" /\ health = "good"
  BY DEF Place, Die, Dead, marks
<1>2. PICK e \in 1..N : EndAt(buf, e)
  BY <1>1 DEF IInv, ShapeRight
<1>3. Alone(buf, 1..N) /\ buf \in Records /\ OthersRight /\ (op.key \in Key => Stored) /\ Counted
  BY <1>1, AloneAll DEF IInv, TypeOK, Records, EffectRight
<1>4. Rest = 1..N /\ op.key \in Key \cup {"COMMENT"} /\ op.name # "change"
  BY <1>1, PutCalls DEF Rest, IInv, PutSteps
<1> DEFINE k == IF op.key = "COMMENT" THEN 0 ELSE ksearch(buf, op.key)
           b == blsearch(buf)
<1>5. /\ at' = (IF k # 0 THEN k ELSE IF b # 0 THEN b ELSE e)
      /\ com' = (k # 0 /\ buf[k].com)
      /\ pc' = (IF k # 0 \/ b # 0 THEN "fill" ELSE "moveend")
      /\ UNCHANGED <<buf, stop, op, before>>
  BY <1>2, <1>3, EndFound DEF Place, Goto, call
<1>6. Base' = Base
  BY <1>1, <1>5, BaseSame
<1>7. op.key \in Key => Reads(buf, 1..N, op.key, Base.map[op.key])
  BY <1>1, <1>3, <1>4 DEF Stored
<1>8. CASE k # 0
  <2>1. op.key \in Key /\ k \in 1..N /\ buf[k].key = op.key
    BY <1>2, <1>3, <1>4, <1>8, KeyFound
  <2>2. Rest' = (1..N) \ {k} /\ pc' = "fill" /\ at' = k
    BY <1>5, <1>8 DEF Rest
  <2>3. buf[k].com \in BOOLEAN /\ com' = buf[k].com
    BY <1>3, <1>5, <1>8, <2>1 DEF Records, LineSet
  <2> HIDE DEF k
  <2>4. /\ Alone(buf, Rest') /\ \A i \in Rest' : buf[i].key # op.key
        /\ Base.map[op.key] = Entry(buf[k])
        /\ \A m : \A l \in Key : l # op.key /\ Reads(buf, 1..N, l, m) => Reads(buf, Rest', l, m)
    <3>1. /\ Alone(buf, (1..N) \ {k}) /\ (buf[k].key \in Key => \A i \in (1..N) \ {k} : buf[i].key # buf[k].key)
          /\ \A m : Reads(buf, 1..N, buf[k].key, m) => m = Entry(buf[k])
          /\ \A m : \A l \in Key : l # buf[k].key /\ Reads(buf, 1..N, l, m) => Reads(buf, (1..N) \ {k}, l, m)
      BY <1>3, <2>1, RestDropped
    <3> QED BY <1>7, <2>1, <2>2, <3>1
  <2>5. Comments(buf, Rest') = Comments(buf, 1..N)
    BY <2>1, <2>2, CommentsDropped
  <2>6. OthersRight'
    BY <1>1, <1>3, <1>4, <1>5, <2>2, <2>4, OthersBy
  <2>7. WorkRight'
    BY <1>5, <2>1, <2>2, <2>4 DEF WorkRight
  <2>8. Stored'
    <3>1. Base.map[op.key] = Entry(buf[k]) /\ Entry(buf[k]).com = com'
      BY <2>3, <2>4 DEF Entry
    <3> QED BY <1>5, <1>6, <2>1, <2>2, <3>1 DEF Stored
  <2>9. Counted'
    BY <1>1, <1>3, <1>4, <1>5, <1>6, <2>2, <2>5 DEF Counted
  <2> QED BY <1>5, <2>2, <2>4, <2>6, <2>7, <2>8, <2>9 DEF EffectRight
<1>9. CASE k = 0
  <2>1. op.key \in Key => (\A i \in 1..N : buf[i].key # op.key) /\ Base.map[op.key] = Absent
    <3>1. op.key \in Key => \A i \in 1..N : buf[i].key # op.key
      BY <1>2, <1>3, <1>4, <1>9, KeyFound
    <3> QED BY <1>7, <3>1 DEF Reads
  <2>2. ~com' /\ com' \in BOOLEAN
    BY <1>5, <1>9
  <2>3. CASE b # 0
    <3>1. b \in 1..N /\ buf[b].key = "blank"
      BY <1>2, <1>3, <2>3, BlankFound
    <3>2. Rest' = (1..N) \ {b} /\ pc' = "fill" /\ at' = b
      BY <1>5, <1>9, <2>3 DEF Rest
    <3> HIDE DEF k, b
    <3>3. /\ Alone(buf, Rest')
          /\ \A m : \A l \in Key : Reads(buf, 1..N, l, m) => Reads(buf, Rest', l, m)
      BY <1>3, <3>1, <3>2, RestDropped
    <3>4. Comments(buf, Rest') = Comments(buf, 1..N)
      BY <3>1, <3>2, CommentsDropped
    <3>5. OthersRight'
      BY <1>1, <1>3, <1>4, <1>5, <3>2, <3>3, OthersBy
    <3>6. WorkRight'
      BY <1>5, <2>1, <3>1, <3>2 DEF WorkRight
    <3>7. op'.key \in Key => Stored'
      <4>1. op.key \in Key => com' = Base.map[op.key].com
        BY <2>1, <2>2, AbsentIs
      <4>2. op.key \in Key => buf[b].key # op.key
        BY <3>1
      <4> QED BY <1>5, <1>6, <2>1, <3>2, <4>1, <4>2 DEF Stored
    <3>8. Counted'
      BY <1>1, <1>3, <1>4, <1>5, <1>6, <3>2, <3>4 DEF Counted
    <3> QED BY <1>5, <3>2, <3>3, <3>5, <3>6, <3>7, <3>8 DEF EffectRight
  <2>4. CASE b = 0
    <3>1. Rest' = 1..N /\ pc' = "moveend"
      BY <1>5, <1>9, <2>4 DEF Rest
    <3> HIDE DEF k, b
    <3>2. OthersRight'
      BY <1>1, <1>3, <1>4, <1>5, <3>1, OthersBy
    <3>3. WorkRight'
      BY <1>5, <2>1, <3>1 DEF WorkRight
    <3>4. op'.key \in Key => Stored'
      BY <1>5, <1>6, <2>1, <3>1 DEF Stored
    <3>5. Counted'
      BY <1>1, <1>3, <1>4, <1>5, <1>6, <3>1 DEF Counted
    <3> QED BY <1>3, <1>5, <3>1, <3>2, <3>3, <3>4, <3>5 DEF EffectRight
  <2> QED BY <2>3, <2>4
<1> QED BY <1>8, <1>9

LEMMA MoveEndEffect ==
    ASSUME IInv, MoveEnd \/ MoveEndOut, health' = "good"
    PROVE  EffectRight'
<1>1. pc = "moveend" /\ health = "good"
  BY DEF MoveEnd, MoveEndOut, Write, Dead, marks
<1>2. PICK e \in 1..N : EndAt(buf, e) /\ at = e
  BY <1>1 DEF IInv, ShapeRight, Placed
<1>3. Alone(buf, 1..N) /\ buf \in Records /\ OthersRight /\ (op.key \in Key => Stored) /\ Counted /\ WorkRight
  BY <1>1, AloneAll DEF IInv, TypeOK, Records, EffectRight
<1>4. Rest = 1..N
  BY <1>1 DEF Rest
<1>5. CASE MoveEndOut
  <2>1. pc' = "idle" /\ buf' = buf
    BY <1>5 DEF MoveEndOut, Dead, Idle, Goto
  <2> QED BY <1>3, <2>1, IdleEffect
<1>6. CASE MoveEnd
  <2>1. /\ e + 1 \in 1..N /\ pc' = "fill" /\ buf' = [buf EXCEPT ![e + 1] = buf[e]]
        /\ UNCHANGED <<op, before, at, com>> /\ Rest' = (1..N) \ {e} /\ ~com
    BY <1>1, <1>2, <1>6 DEF MoveEnd, Write, Store, Goto, call, cursor, Rest, IInv, TypeOK, CursorRight
  <2>2. \A i \in 1..N : \/ buf'[i] = buf[i]
                        \/ buf[i].key \notin Key \cup {"COMMENT"} /\ buf'[i].key \notin Key \cup {"COMMENT"}
    BY <1>2, <1>3, <2>1 DEF EndAt, Records
  <2>3. /\ Alone(buf', 1..N) /\ Comments(buf', 1..N) = Comments(buf, 1..N)
        /\ \A m : \A k \in Key : Reads(buf, 1..N, k, m) => Reads(buf', 1..N, k, m)
        /\ \A k \in Key : (\A i \in 1..N : buf[i].key # k) => \A i \in 1..N : buf'[i].key # k
    BY <1>3, <2>2, RestSame
  <2>4. buf'[e].key = "END"
    BY <1>2, <1>3, <2>1 DEF EndAt, Records
  <2>5. /\ Alone(buf', Rest')
        /\ \A m : \A l \in Key : Reads(buf', 1..N, l, m) => Reads(buf', Rest', l, m)
    <3>1. /\ Alone(buf', (1..N) \ {e})
          /\ \A m : \A l \in Key : l # buf'[e].key /\ Reads(buf', 1..N, l, m) => Reads(buf', (1..N) \ {e}, l, m)
      BY <2>3, RestDropped
    <3> QED BY <2>1, <2>4, <3>1
  <2>6. Comments(buf', Rest') = Comments(buf', 1..N)
    BY <2>1, <2>4, CommentsDropped
  <2>7. OthersRight'
    BY <1>1, <1>3, <1>4, <2>1, <2>3, <2>5, OthersBy
  <2>8. Base' = Base
    BY <1>1, <2>1, BaseSame
  <2>9. WorkRight'
    BY <1>1, <1>2, <1>3, <1>4, <2>1, <2>3, <2>4 DEF WorkRight
  <2>10. op'.key \in Key => Stored'
    <3>1. op.key \in Key => Base.map[op.key] = Absent
      BY <1>1, <1>3 DEF Stored
    <3>2. com = FALSE
      BY <2>1 DEF IInv, TypeOK
    <3>3. op.key \in Key => com' = Base.map[op.key].com
      BY <2>1, <3>1, <3>2, AbsentIs
    <3>4. op.key \in Key => buf'[e].key # op.key
      BY <2>4
    <3> QED BY <1>2, <2>1, <2>8, <3>1, <3>3, <3>4 DEF Stored
  <2>11. Counted'
    BY <1>1, <1>3, <1>4, <2>1, <2>3, <2>6, <2>8 DEF Counted
  <2> QED BY <2>1, <2>5, <2>7, <2>9, <2>10, <2>11 DEF EffectRight
<1> QED BY <1>5, <1>6

LEMMA FillEffect ==
    ASSUME IInv, Fill \/ PutKey \/ (PutValue /\ com), health' = "good"
    PROVE  EffectRight'
<1>1. pc \in {"fill", "key", "value"} /\ health = "good" /\ UNCHANGED <<op, before, at, com>>
  BY DEF Fill, PutKey, PutValue, Write, call, cursor, marks
<1>2. buf \in Records /\ OthersRight /\ (op.key \in Key => Stored) /\ Counted /\ WorkRight /\ Alone(buf, Rest)
  BY <1>1 DEF IInv, TypeOK, Records, EffectRight
<1>3. at \in 1..N /\ Rest = (1..N) \ {at}
  BY <1>1 DEF Rest, IInv, TypeOK, CursorRight
<1>4. op.key \in Key \cup {"COMMENT"} /\ op.name # "change"
  BY <1>1, PutCalls DEF IInv, PutSteps
<1>5. \/ op.key = "COMMENT" /\ pc' = "value" /\ buf' = [buf EXCEPT ![at] = Line("COMMENT", Empty, FALSE)]
      \/ op.key \in Key /\ pc' = "key" /\ buf' = [buf EXCEPT ![at] = BlankLine]
      \/ op.key \in Key /\ pc' = "value" /\ buf' = [buf EXCEPT ![at] = Line(op.key, Empty, FALSE)]
      \/ op.key \in Key /\ pc' = "comment" /\ buf' = [buf EXCEPT ![at] = Line(op.key, op.val, FALSE)]
  <2>1. CASE Fill
    BY <1>4, <2>1 DEF Fill, Write, Store, Goto
  <2>2. CASE PutKey
    BY <1>4, <2>2 DEF PutKey, Write, Store, Goto, IInv, CursorRight
  <2>3. CASE PutValue /\ com
    BY <1>4, <2>3 DEF PutValue, Write, Store, Goto, IInv, CursorRight
  <2> QED BY <2>1, <2>2, <2>3
<1>6. Rest' = Rest /\ (\A i \in Rest : buf'[i] = buf[i]) /\ pc' \in {"key", "value", "comment"}
  BY <1>1, <1>2, <1>3, <1>5 DEF Rest, Records
<1>7. /\ Alone(buf', Rest') /\ OthersRight' /\ Comments(buf', Rest') = Comments(buf, Rest)
      /\ \A k \in Key : (\A i \in Rest : buf[i].key # k) => \A i \in Rest' : buf'[i].key # k
  BY <1>1, <1>2, <1>6, RestKept
<1>8. Base' = Base
  BY <1>1, <1>6, BaseSame
<1>9. WorkRight'
  <2>1. op.key \in Key => \A i \in Rest' : buf'[i].key # op.key
    BY <1>1, <1>2, <1>7 DEF WorkRight
  <2>2. /\ pc' = "key" => buf'[at] = BlankLine
        /\ pc' = "value" => buf'[at] = Line(op.key, Empty, FALSE)
        /\ pc' = "comment" => buf'[at] = Line(op.key, op.val, FALSE)
    BY <1>2, <1>3, <1>5 DEF Records
  <2> QED BY <1>1, <1>6, <2>1, <2>2 DEF WorkRight
<1>10. op'.key \in Key => Stored'
  BY <1>1, <1>2, <1>6, <1>8 DEF Stored
<1>11. Counted'
  BY <1>1, <1>2, <1>6, <1>7, <1>8 DEF Counted
<1> QED BY <1>6, <1>7, <1>9, <1>10, <1>11 DEF EffectRight

LEMMA PutValueEffect ==
    ASSUME IInv, (PutValue /\ ~com) \/ KeepComment, health' = "good"
    PROVE  EffectRight'
<1>1. pc \in {"value", "comment"} /\ pc' = "unlock" /\ health = "good" /\ UNCHANGED <<op, before>>
  BY DEF PutValue, KeepComment, Write, Goto, call, marks
<1>2. buf \in Records /\ OthersRight /\ (op.key \in Key => Stored) /\ Counted /\ WorkRight /\ Alone(buf, Rest)
  BY <1>1 DEF IInv, TypeOK, Records, EffectRight
<1>3. at \in 1..N /\ Rest = (1..N) \ {at} /\ Rest' = 1..N
  BY <1>1 DEF Rest, IInv, TypeOK, CursorRight
<1>4. /\ op.key \in Key \cup {"COMMENT"}
      /\ op.name \in {"put", "init", "clear"} \/ (op.name = "com" /\ op.key = "COMMENT")
  BY <1>1, PutCalls DEF IInv, PutSteps
<1>5. PICK c \in BOOLEAN : /\ buf' = [buf EXCEPT ![at] = Line(op.key, op.val, c)]
                           /\ op.key \in Key => c = Base.map[op.key].com
                           /\ ~(c /\ op.val \in Long)
  <2>1. op.key \in Key => com = Base.map[op.key].com
    BY <1>1, <1>2 DEF Stored
  <2>2. CASE PutValue /\ ~com
    <3>1. buf' = [buf EXCEPT ![at] = Line(op.key, op.val, FALSE)] /\ com = FALSE
      BY <2>2 DEF PutValue, Write, Store, IInv, TypeOK
    <3> QED BY <2>1, <3>1
  <2>3. CASE KeepComment
    <3>1. buf' = [buf EXCEPT ![at] = Line(op.key, op.val, TRUE)] /\ pc = "comment" /\ op.val \notin Long
      BY <2>3 DEF KeepComment, Write, Store
    <3>2. com = TRUE
      BY <3>1 DEF IInv, CursorRight, TypeOK
    <3> QED BY <2>1, <3>1, <3>2
  <2> QED BY <2>2, <2>3
<1>6. buf'[at] = Line(op.key, op.val, c) /\ \A i \in Rest : buf'[i] = buf[i]
  BY <1>2, <1>3, <1>5 DEF Records
<1>7. op.key \in Key => \A i \in Rest : buf[i].key # op.key
  BY <1>1, <1>2 DEF WorkRight
<1>8. /\ buf'[at].key = op.key /\ Rest \in SUBSET (1..N) /\ at \in (1..N) \ Rest /\ 1..N = Rest \cup {at}
      /\ Entry(buf'[at]) = [val |-> op.val, com |-> c, there |-> TRUE]
  BY <1>3, <1>6 DEF Line, Entry
<1>9. /\ Alone(buf', Rest') /\ Reads(buf', Rest', op.key, Entry(buf'[at]))
      /\ \A m : \A l \in Key : l # op.key /\ Reads(buf, Rest, l, m) => Reads(buf', Rest', l, m)
  <2>1. /\ Alone(buf', Rest \cup {at}) /\ Reads(buf', Rest \cup {at}, buf'[at].key, Entry(buf'[at]))
        /\ \A m : \A l \in Key : l # buf'[at].key /\ Reads(buf, Rest, l, m) => Reads(buf', Rest \cup {at}, l, m)
    BY <1>2, <1>6, <1>7, <1>8, RestAdded
  <2>2. Rest \cup {at} = Rest' /\ buf'[at].key = op.key
    BY <1>3, <1>8
  <2>3. /\ Alone(buf', Rest') /\ Reads(buf', Rest', op.key, Entry(buf'[at]))
        /\ \A m : \A l \in Key : l # op.key /\ Reads(buf, Rest, l, m) => Reads(buf', Rest', l, m)
    BY ONLY <2>1, <2>2
  <2> QED BY ONLY <2>3
<1>10. Cardinality(Comments(buf', Rest')) = Cardinality(Comments(buf, Rest)) + (IF op.key = "COMMENT" THEN 1 ELSE 0)
  <2>1. Cardinality(Comments(buf, Rest)) \in Nat
    BY <1>8, CommentsFinite
  <2>2. /\ op.key # "COMMENT" => Comments(buf', Rest') = Comments(buf, Rest)
        /\ op.key = "COMMENT" => Cardinality(Comments(buf', Rest')) = Cardinality(Comments(buf, Rest)) + 1
    BY <1>3, <1>6, <1>8, CommentsAdded
  <2> QED BY <2>1, <2>2
<1>11. OthersRight' /\ Base' = Base
  BY <1>1, <1>2, <1>9, OthersBy, BaseSame
<1>12. WorkRight'
  BY <1>1 DEF WorkRight
<1>13. op'.key \in Key => Stored'
  BY <1>1, <1>4, <1>5, <1>8, <1>9, <1>11 DEF Stored
<1>14. Counted'
  <2>1. Cardinality(Comments(buf, Rest)) = Base.lines /\ Cardinality(Comments(buf, Rest)) \in Nat
    BY <1>1, <1>2, <1>8, CommentsFinite DEF Counted
  <2> QED BY <1>1, <1>10, <1>11, <2>1 DEF Counted
<1> QED BY <1>1, <1>9, <1>11, <1>12, <1>13, <1>14 DEF EffectRight

(* A record gets another text, or a keyword that no other record has.      *)
LEMMA RestRewritten ==
    ASSUME NEW b, NEW c, NEW x \in 1..N, \A i \in (1..N) \ {x} : c[i] = b[i], Alone(b, 1..N),
           b[x].key \in Key, c[x].key \in Key,
           c[x].key = b[x].key \/ \A i \in 1..N : b[i].key # c[x].key
    PROVE  /\ Alone(c, 1..N) /\ Comments(c, 1..N) = Comments(b, 1..N)
           /\ \A m : Reads(b, 1..N, b[x].key, m) => m = Entry(b[x])
           /\ Reads(c, 1..N, c[x].key, Entry(c[x]))
           /\ c[x].key # b[x].key => Reads(c, 1..N, b[x].key, Absent)
           /\ \A m : \A l \in Key : l \notin {b[x].key, c[x].key} /\ Reads(b, 1..N, l, m) => Reads(c, 1..N, l, m)
<1> DEFINE R == (1..N) \ {x}
<1>1. R \in SUBSET (1..N) /\ x \in (1..N) \ R /\ (\A i \in R : c[i] = b[i]) /\ R \cup {x} = 1..N
  OBVIOUS
<1>2. /\ Alone(b, R) /\ \A i \in R : b[i].key # b[x].key
      /\ \A m : Reads(b, 1..N, b[x].key, m) => m = Entry(b[x])
      /\ \A m : \A l \in Key : l # b[x].key /\ Reads(b, 1..N, l, m) => Reads(b, R, l, m)
  BY RestDropped
<1>3. \A i \in R : b[i].key # c[x].key
  BY <1>2
<1>4. Comments(c, 1..N) = Comments(b, 1..N)
  BY DEF Comments
<1> HIDE DEF R
<1>5. /\ Alone(c, R \cup {x}) /\ Reads(c, R \cup {x}, c[x].key, Entry(c[x]))
      /\ \A m : \A l \in Key : l # c[x].key /\ Reads(b, R, l, m) => Reads(c, R \cup {x}, l, m)
  BY <1>1, <1>2, <1>3, RestAdded
<1>6. /\ Alone(c, 1..N) /\ Reads(c, 1..N, c[x].key, Entry(c[x]))
      /\ \A m : \A l \in Key : l # c[x].key /\ Reads(b, R, l, m) => Reads(c, 1..N, l, m)
  BY ONLY <1>1, <1>5
<1>7. c[x].key # b[x].key => Reads(c, 1..N, b[x].key, Absent)
  <2>1. c[x].key # b[x].key => \A i \in R \cup {x} : c[i].key # b[x].key
    BY <1>1, <1>2
  <2>2. c[x].key # b[x].key => \A i \in 1..N : c[i].key # b[x].key
    BY ONLY <1>1, <2>1
  <2> QED BY <2>2 DEF Reads
<1> QED BY <1>2, <1>4, <1>6, <1>7

LEMMA SetCommentEffect ==
    ASSUME IInv, SetComment, health' = "good"
    PROVE  EffectRight'
<1>1. pc = "hputcom" /\ health = "good"
  BY DEF SetComment, Die, Dead, marks
<1>2. PICK e \in 1..N : EndAt(buf, e)
  BY <1>1 DEF IInv, ShapeRight
<1>3. Alone(buf, 1..N) /\ buf \in Records /\ OthersRight /\ (op.key \in Key => Stored) /\ Counted
  BY <1>1, AloneAll DEF IInv, TypeOK, Records, EffectRight
<1>4. Rest = 1..N /\ op.key \in Key \cup {"COMMENT"} /\ op.name = "com"
  BY <1>1 DEF Rest, IInv, CallRight, hashpipe_status_chkinit, hashpipe_status_clear, Call, NoCall, PutSteps
<1>5. CASE op.key = "COMMENT"
  <2>1. pc' = "moveend" /\ UNCHANGED <<buf, op, before>> /\ Rest' = 1..N
    BY <1>2, <1>3, <1>5, EndFound DEF SetComment, Goto, call, Rest
  <2>2. OthersRight' /\ Base' = Base
    BY <1>1, <1>3, <1>4, <2>1, OthersBy, BaseSame
  <2>3. Counted'
    BY <1>1, <1>3, <1>4, <1>5, <2>1, <2>2 DEF Counted
  <2>4. WorkRight' /\ op'.key \notin Key
    BY <1>5, <2>1 DEF WorkRight
  <2> QED BY <1>3, <2>1, <2>2, <2>3, <2>4 DEF EffectRight
<1>6. CASE op.key # "COMMENT"
  <2> DEFINE k == ksearch(buf, op.key)
  <2>1. /\ (k # 0 /\ buf' = [buf EXCEPT ![k] = [buf[k] EXCEPT !.com = TRUE]]) \/ UNCHANGED buf
        /\ pc' = "unlock" /\ UNCHANGED <<op, before>> /\ Rest' = 1..N
    BY <1>6 DEF SetComment, Store, Goto, call, Rest
  <2>2. op.key \in Key
    BY <1>4, <1>6
  <2>3. Reads(buf, 1..N, op.key, Base.map[op.key])
    BY <1>1, <1>3, <1>4, <2>2 DEF Stored
  <2>4. Base' = Base /\ WorkRight'
    BY <1>1, <2>1, BaseSame DEF WorkRight
  <2>5. \/ \A i \in 1..N : buf'[i] = buf[i]
        \/ k \in 1..N /\ buf[k].key = op.key /\ buf'[k] = [buf[k] EXCEPT !.com = TRUE]
           /\ \A i \in (1..N) \ {k} : buf'[i] = buf[i]
    <3>1. k = 0 \/ (k \in 1..N /\ buf[k].key = op.key)
      BY <1>2, <1>3, <2>2, KeyFound
    <3> HIDE DEF k
    <3> QED BY <1>3, <2>1, <3>1 DEF Records
  <2>6. CASE \A i \in 1..N : buf'[i] = buf[i]
    <3>1. /\ Alone(buf', 1..N) /\ Comments(buf', 1..N) = Comments(buf, 1..N)
          /\ \A m : \A l \in Key : Reads(buf, 1..N, l, m) => Reads(buf', 1..N, l, m)
      BY <1>3, <2>6, RestSame
    <3>2. OthersRight'
      BY <1>1, <1>3, <1>4, <2>1, <3>1, OthersBy
    <3>3. Stored'
      BY <1>4, <2>1, <2>2, <2>3, <2>4, <3>1 DEF Stored
    <3>4. Counted'
      BY <1>1, <1>3, <1>4, <2>1, <2>2, <2>4, <3>1 DEF Counted
    <3> QED BY <2>1, <2>4, <3>1, <3>2, <3>3, <3>4 DEF EffectRight
  <2>7. CASE k \in 1..N /\ buf[k].key = op.key /\ buf'[k] = [buf[k] EXCEPT !.com = TRUE]
             /\ \A i \in (1..N) \ {k} : buf'[i] = buf[i]
    <3> HIDE DEF k
    <3>0. buf'[k].key = op.key /\ Entry(buf'[k]) = [val |-> Entry(buf[k]).val, com |-> TRUE, there |-> TRUE] /\ Entry(buf[k]).there = TRUE
      <4>1. buf[k] \in LineSet
        BY <1>3, <2>7 DEF Records
      <4>2. buf'[k].key = op.key /\ buf'[k].val = buf[k].val /\ buf'[k].com = TRUE
        BY <2>7, <4>1 DEF LineSet
      <4>3. /\ Entry(buf'[k]) = [val |-> buf[k].val, com |-> TRUE, there |-> TRUE]
            /\ Entry(buf[k]) = [val |-> buf[k].val, com |-> buf[k].com, there |-> TRUE]
        BY <4>2 DEF Entry
      <4>4. Entry(buf'[k]) = [val |-> Entry(buf[k]).val, com |-> TRUE, there |-> TRUE] /\ Entry(buf[k]).there = TRUE
        BY ONLY <4>3
      <4> QED BY <2>7, <4>2, <4>4
    <3>1. /\ Alone(buf', 1..N) /\ Comments(buf', 1..N) = Comments(buf, 1..N)
          /\ \A m : Reads(buf, 1..N, buf[k].key, m) => m = Entry(buf[k])
          /\ Reads(buf', 1..N, buf'[k].key, Entry(buf'[k]))
          /\ \A m : \A l \in Key : l \notin {buf[k].key, buf'[k].key} /\ Reads(buf, 1..N, l, m) => Reads(buf', 1..N, l, m)
      BY <1>3, <2>2, <2>7, <3>0, RestRewritten
    <3>2. /\ \A m : Reads(buf, 1..N, op.key, m) => m = Entry(buf[k])
          /\ Reads(buf', 1..N, op.key, [val |-> Entry(buf[k]).val, com |-> TRUE, there |-> TRUE])
          /\ \A m : \A l \in Key : l # op.key /\ Reads(buf, 1..N, l, m) => Reads(buf', 1..N, l, m)
      BY <2>7, <3>0, <3>1
    <3>3. OthersRight'
      BY <1>1, <1>3, <1>4, <2>1, <3>2, OthersBy
    <3>4. Base.map[op.key] = Entry(buf[k])
      BY <2>3, <3>2
    <3>5. Stored'
      BY <1>4, <2>1, <2>2, <2>4, <3>0, <3>2, <3>4 DEF Stored
    <3>6. Counted'
      BY <1>1, <1>3, <1>4, <2>1, <2>2, <2>4, <3>1 DEF Counted
    <3> QED BY <2>1, <2>4, <3>1, <3>3, <3>5, <3>6 DEF EffectRight
  <2> QED BY <2>5, <2>6, <2>7
<1> QED BY <1>5, <1>6

LEMMA DeleteCalls ==
    ASSUME CallRight, pc \in {"hdel", "up"}
    PROVE  op.key \in Key \cup {"COMMENT"} /\ op.name = "del"
BY DEF CallRight, PutSteps, hashpipe_status_chkinit, hashpipe_status_clear, Call, NoCall

LEMMA FindDeletedEffect ==
    ASSUME IInv, FindDeleted, health' = "good"
    PROVE  EffectRight'
<1>1. pc = "hdel" /\ health = "good"
  BY DEF FindDeleted, Die, Dead, marks
<1>2. PICK e \in 1..N : EndAt(buf, e)
  BY <1>1 DEF IInv, ShapeRight
<1>3. Alone(buf, 1..N) /\ buf \in Records /\ OthersRight /\ (op.key \in Key => Stored) /\ Counted
  BY <1>1, AloneAll DEF IInv, TypeOK, Records, EffectRight
<1>4. Rest = 1..N /\ op.key \in Key \cup {"COMMENT"} /\ op.name = "del"
  BY <1>1, DeleteCalls DEF Rest, IInv
<1> DEFINE k == ksearch(buf, op.key)
<1>5. at' = k /\ pc' = (IF k = 0 THEN "unlock" ELSE "up") /\ UNCHANGED <<buf, op, before>>
  BY <1>2, <1>3, EndFound DEF FindDeleted, Goto, call
<1>6. \/ k = 0 /\ \A j \in 1..N : buf[j].key # op.key
      \/ k \in 1..(e - 1) /\ buf[k].key = op.key
  BY <1>2, <1>3, <1>4, KeyFound
<1>7. Base' = Base
  BY <1>1, <1>5, BaseSame
<1> HIDE DEF k
<1>8. CASE k = 0 /\ \A j \in 1..N : buf[j].key # op.key
  <2>1. pc' = "unlock" /\ Rest' = 1..N /\ WorkRight'
    BY <1>5, <1>8 DEF Rest, WorkRight
  <2>2. OthersRight'
    BY <1>1, <1>3, <1>4, <1>5, <2>1, OthersBy
  <2>3. op'.key \in Key => Stored'
    BY <1>4, <1>5, <1>8, <2>1 DEF Stored, Reads
  <2>4. Counted'
    BY <1>1, <1>3, <1>4, <1>5, <1>7, <2>1 DEF Counted
  <2> QED BY <1>3, <1>5, <2>1, <2>2, <2>3, <2>4 DEF EffectRight
<1>9. CASE k \in 1..(e - 1) /\ buf[k].key = op.key
  <2>1. pc' = "up" /\ k \in 1..N /\ Rest' = (1..N) \ {k}
    BY <1>5, <1>9 DEF Rest
  <2>2. /\ Alone(buf, (1..N) \ {k}) /\ (buf[k].key \in Key => \A i \in (1..N) \ {k} : buf[i].key # buf[k].key)
        /\ \A m : \A l \in Key : l # buf[k].key /\ Reads(buf, 1..N, l, m) => Reads(buf, (1..N) \ {k}, l, m)
    BY <1>3, <2>1, RestDropped
  <2>3. /\ Alone(buf, Rest') /\ (op.key \in Key => \A i \in Rest' : buf[i].key # op.key)
        /\ \A m : \A l \in Key : l # op.key /\ Reads(buf, 1..N, l, m) => Reads(buf, Rest', l, m)
    BY <1>9, <2>1, <2>2
  <2>4. OthersRight'
    BY <1>1, <1>3, <1>4, <1>5, <2>1, <2>3, OthersBy
  <2>5. WorkRight'
    BY <1>5, <1>9, <2>1, <2>3 DEF WorkRight
  <2>6. op'.key \in Key => Stored'
    BY <2>1 DEF Stored
  <2>7. Counted'
    <3>1. /\ op.key # "COMMENT" => Comments(buf, (1..N) \ {k}) = Comments(buf, 1..N)
          /\ op.key = "COMMENT" => Cardinality(Comments(buf, (1..N) \ {k})) + 1 = Cardinality(Comments(buf, 1..N))
      BY <1>9, <2>1, CommentsDropped
    <3>2. Cardinality(Comments(buf, 1..N)) = Base.lines
      BY <1>1, <1>3, <1>4 DEF Counted
    <3> QED BY <1>5, <1>7, <2>1, <3>1, <3>2 DEF Counted
  <2> QED BY <1>5, <2>1, <2>3, <2>4, <2>5, <2>6, <2>7 DEF EffectRight
<1> QED BY <1>6, <1>8, <1>9

LEMMA ShiftUpEffect ==
    ASSUME IInv, ShiftUp, health' = "good"
    PROVE  EffectRight'
<1>1. pc = "up" /\ pc' = "up" /\ health = "good" /\ UNCHANGED <<op, before, stop>>
  BY DEF ShiftUp, call, marks
<1>2. buf \in Records /\ Alone(buf, Rest) /\ WorkRight /\ OthersRight /\ (op.key \in Key => Stored) /\ Counted
  BY <1>1 DEF IInv, TypeOK, Records, EffectRight
<1>3. at \in 1..(N - 1) /\ at' = at + 1 /\ buf' = [buf EXCEPT ![at] = buf[at + 1]]
  BY DEF ShiftUp, Store, IInv, TypeOK, CursorRight
<1>4. Rest = (1..N) \ {at} /\ Rest' = (1..N) \ {at + 1} /\ op.name = "del"
  BY <1>1, <1>3, DeleteCalls DEF Rest, IInv
<1>5. /\ Rest \in SUBSET (1..N) /\ at + 1 \in Rest /\ at \in (1..N) \ Rest /\ (Rest \ {at + 1}) \cup {at} = Rest'
      /\ buf'[at] = buf[at + 1] /\ \A i \in Rest : buf'[i] = buf[i]
  BY <1>2, <1>3, <1>4 DEF Records
<1>6. /\ Alone(buf', (Rest \ {at + 1}) \cup {at})
      /\ \A m : \A k \in Key : Reads(buf, Rest, k, m) => Reads(buf', (Rest \ {at + 1}) \cup {at}, k, m)
      /\ \A k \in Key : (\A i \in Rest : buf[i].key # k) => \A i \in (Rest \ {at + 1}) \cup {at} : buf'[i].key # k
      /\ Cardinality(Comments(buf', (Rest \ {at + 1}) \cup {at})) = Cardinality(Comments(buf, Rest))
  <2> DEFINE R == Rest  c == buf'  x == at + 1  y == at  Q == (R \ {x}) \cup {y}
  <2>1. R \in SUBSET (1..N) /\ x \in R /\ y \in (1..N) \ R /\ c[y] = buf[x] /\ \A i \in R : c[i] = buf[i]
    BY <1>5
  <2>2. Alone(buf, R)
    BY <1>2
  <2> HIDE DEF R, c, x, y
  <2>3. Alone(c, Q)
    BY ONLY <2>1, <2>2, RestMoved
  <2>4. \A m : \A k \in Key : Reads(buf, R, k, m) => Reads(c, Q, k, m)
    BY ONLY <2>1, RestMoved
  <2>5. \A k \in Key : (\A i \in R : buf[i].key # k) => \A i \in Q : c[i].key # k
    BY ONLY <2>1, RestMoved
  <2>6. Cardinality(Comments(c, Q)) = Cardinality(Comments(buf, R))
    <3>1. Q = (R \ {x}) \cup {y}
      OBVIOUS
    <3> HIDE DEF Q
    <3> QED BY ONLY <2>1, <3>1, CommentsMoved
  <2> QED BY <2>3, <2>4, <2>5, <2>6 DEF R, c, x, y
<1>7. /\ Alone(buf', Rest')
      /\ \A m : \A k \in Key : Reads(buf, Rest, k, m) => Reads(buf', Rest', k, m)
      /\ \A k \in Key : (\A i \in Rest : buf[i].key # k) => \A i \in Rest' : buf'[i].key # k
      /\ Cardinality(Comments(buf', Rest')) = Cardinality(Comments(buf, Rest))
  BY ONLY <1>5, <1>6
<1>8. OthersRight' /\ Base' = Base
  BY <1>1, <1>2, <1>7, OthersBy, BaseSame
<1>9. WorkRight'
  <2>1. at' > 1 /\ at' - 1 = at
    BY <1>3
  <2>2. buf'[at'] = buf'[at' - 1]
    BY <1>3, <1>5, <2>1
  <2>3. op.key \in Key => \A i \in Rest' : buf'[i].key # op.key
    BY <1>1, <1>2, <1>7 DEF WorkRight
  <2> QED BY <1>1, <2>1, <2>2, <2>3 DEF WorkRight
<1>10. op'.key \in Key => Stored'
  BY <1>1 DEF Stored
<1>11. Counted'
  BY <1>1, <1>2, <1>7, <1>8 DEF Counted
<1> QED BY <1>1, <1>7, <1>8, <1>9, <1>10, <1>11 DEF EffectRight

LEMMA TerminateRest ==
    ASSUME IInv, Terminate, health' = "good"
    PROVE  /\ pc = "up" /\ health = "good" /\ op.name = "del" /\ op.key \in Key \cup {"COMMENT"}
           /\ buf \in Records /\ OthersRight /\ WorkRight /\ Counted /\ Rest \in SUBSET (1..N)
           /\ Alone(buf', 1..N)
           /\ \A m : \A k \in Key : Reads(buf, Rest, k, m) => Reads(buf', 1..N, k, m)
           /\ Comments(buf', 1..N) = Comments(buf, Rest)
           /\ op.key \in Key => Reads(buf, Rest, op.key, Absent)
<1>1. pc = "up" /\ health = "good"
  BY DEF Terminate, Dead
<1>2. PICK e \in 1..N : EndAt(buf, e) /\ Placed(e)
  BY <1>1 DEF IInv, ShapeRight
<1>3. buf \in Records /\ Alone(buf, Rest) /\ WorkRight /\ OthersRight /\ (op.key \in Key => Stored) /\ Counted
  BY <1>1 DEF IInv, TypeOK, Records, EffectRight
<1>4. at = stop /\ at \in 1..N /\ e = at - 1 /\ buf' = [i \in 1..N |-> IF i = at + 1 THEN NulLine ELSE buf[i]]
  BY <1>1, <1>2 DEF Terminate, Placed, IInv, TypeOK, CursorRight
<1>5. Rest = (1..N) \ {at} /\ op.key \in Key \cup {"COMMENT"} /\ op.name = "del"
  BY <1>1, DeleteCalls DEF Rest, IInv
<1>6. Rest \in SUBSET (1..N) /\ at \in (1..N) \ Rest /\ Rest \cup {at} = 1..N
  BY <1>4, <1>5
<1>7. \A i \in Rest : \/ buf'[i] = buf[i]
                      \/ buf[i].key \notin Key \cup {"COMMENT"} /\ buf'[i].key \notin Key \cup {"COMMENT"}
  <2>1. NulLine.key = "nul"
    BY DEF NulLine, Line
  <2> QED BY <1>2, <1>4, <1>6, <2>1 DEF EndAt
<1>8. buf'[at].key \notin Key \cup {"COMMENT"}
  BY <1>2, <1>4 DEF EndAt
<1>9. /\ Alone(buf', Rest)
      /\ \A m : \A k \in Key : Reads(buf, Rest, k, m) => Reads(buf', Rest, k, m)
      /\ \A k \in Key : (\A i \in Rest : buf[i].key # k) => \A i \in Rest : buf'[i].key # k
      /\ Comments(buf', Rest) = Comments(buf, Rest)
  BY <1>3, <1>6, <1>7, RestSame
<1>10. /\ Alone(buf', Rest \cup {at})
       /\ \A m : \A l \in Key : l # buf'[at].key /\ Reads(buf', Rest, l, m) => Reads(buf', Rest \cup {at}, l, m)
  BY <1>6, <1>8, <1>9, RestAdded
<1>11. /\ Alone(buf', 1..N)
       /\ \A m : \A k \in Key : Reads(buf, Rest, k, m) => Reads(buf', 1..N, k, m)
  <2>1. \A m : \A l \in Key : Reads(buf', Rest, l, m) => Reads(buf', Rest \cup {at}, l, m)
    BY <1>8, <1>10
  <2>2. \A m : \A k \in Key : Reads(buf, Rest, k, m) => Reads(buf', Rest \cup {at}, k, m)
    BY ONLY <1>9, <2>1
  <2> QED BY ONLY <1>6, <1>10, <2>2
<1>12. Comments(buf', 1..N) = Comments(buf, Rest)
  <2>1. Comments(buf', Rest \cup {at}) = Comments(buf', Rest)
    BY <1>6, <1>8, CommentsAdded
  <2> QED BY <1>6, <1>9, <2>1
<1>13. op.key \in Key => Reads(buf, Rest, op.key, Absent)
  <2>1. op.key \in Key => \A i \in Rest : buf[i].key # op.key
    BY <1>1, <1>3 DEF WorkRight
  <2> QED BY <2>1 DEF Reads
<1> QED BY <1>1, <1>3, <1>5, <1>6, <1>11, <1>12, <1>13

LEMMA TerminateEffect ==
    ASSUME IInv, Terminate, health' = "good"
    PROVE  EffectRight'
<1>1. /\ pc = "up" /\ health = "good" /\ op.name = "del" /\ op.key \in Key \cup {"COMMENT"}
      /\ buf \in Records /\ OthersRight /\ WorkRight /\ Counted /\ Rest \in SUBSET (1..N)
      /\ Alone(buf', 1..N)
      /\ \A m : \A k \in Key : Reads(buf, Rest, k, m) => Reads(buf', 1..N, k, m)
      /\ Comments(buf', 1..N) = Comments(buf, Rest)
      /\ op.key \in Key => Reads(buf, Rest, op.key, Absent)
  BY TerminateRest
<1>2. CASE Dead(health)
  BY <1>1, <1>2, IdleEffect DEF Dead, Idle, Goto
<1>3. CASE ~Dead(health)
  <2>1. pc' = "unlock" /\ UNCHANGED <<op, before>> /\ Rest' = 1..N /\ WorkRight'
    BY <1>3 DEF Terminate, Goto, call, Rest, WorkRight
  <2>2. OthersRight' /\ Base' = Base
    BY <1>1, <2>1, OthersBy, BaseSame
  <2>3. op'.key \in Key => Stored'
    <3>1. op.key \in Key => Reads(buf', 1..N, op.key, Absent)
      BY <1>1
    <3> QED BY <1>1, <2>1, <3>1 DEF Stored
  <2>4. Counted'
    <3>1. Cardinality(Comments(buf, Rest)) \in Nat
      BY <1>1, CommentsFinite
    <3>2. LET n == Cardinality(Comments(buf, Rest))
          IN IF op.key = "COMMENT" THEN n + 1 = Base.lines ELSE n = Base.lines
      BY <1>1 DEF Counted
    <3> QED BY <1>1, <2>1, <2>2, <3>1, <3>2 DEF Counted
  <2> QED BY <1>1, <2>1, <2>2, <2>3, <2>4 DEF EffectRight
<1> QED BY <1>2, <1>3

LEMMA AddCalls ==
    ASSUME CallRight, pc \in {"hadd", "down"}
    PROVE  op.key \in Key /\ op.name = "add"
BY DEF CallRight, PutSteps, hashpipe_status_chkinit, hashpipe_status_clear, Call, NoCall

LEMMA FindAddedEffect ==
    ASSUME IInv, FindAdded, health' = "good"
    PROVE  EffectRight'
<1>1. pc = "hadd" /\ health = "good" /\ UNCHANGED <<buf, op, before>>
  BY DEF FindAdded, call, marks
<1>2. PICK e \in 1..N : EndAt(buf, e)
  BY <1>1 DEF IInv, ShapeRight
<1>3. Alone(buf, 1..N) /\ buf \in Records /\ OthersRight /\ (op.key \in Key => Stored) /\ Counted
  BY <1>1, AloneAll DEF IInv, TypeOK, Records, EffectRight
<1>4. Rest = 1..N /\ op.key \in Key /\ op.name = "add"
  BY <1>1, AddCalls DEF Rest, IInv
<1>5. at' = e /\ pc' = "down" /\ Rest' = (1..N) \ {e + 1}
  BY <1>2, <1>3, EndFound DEF FindAdded, Goto, Rest
<1>6. Base' = Base
  BY <1>1, <1>5, BaseSame
<1>7. /\ Alone(buf, Rest') /\ Comments(buf, Rest') = Comments(buf, 1..N)
      /\ \A m : \A k \in Key : Reads(buf, 1..N, k, m) => Reads(buf, Rest', k, m)
  <2>1. CASE e + 1 \in 1..N
    <3>1. buf[e + 1].key \notin Key \cup {"COMMENT"}
      BY <1>2, <2>1 DEF EndAt
    <3>2. /\ Alone(buf, (1..N) \ {e + 1}) /\ Comments(buf, (1..N) \ {e + 1}) = Comments(buf, 1..N)
          /\ \A m : \A l \in Key : l # buf[e + 1].key /\ Reads(buf, 1..N, l, m) => Reads(buf, (1..N) \ {e + 1}, l, m)
      BY <1>3, <2>1, <3>1, RestDropped, CommentsDropped
    <3> QED BY <1>5, <3>1, <3>2
  <2>2. CASE e + 1 \notin 1..N
    <3>1. Rest' = 1..N
      BY <1>5, <2>2
    <3> QED BY <1>3, <3>1
  <2> QED BY <2>1, <2>2
<1>8. OthersRight'
  BY <1>1, <1>3, <1>4, <1>5, <1>7, OthersBy
<1>9. Base.map[op.key] = Absent
  BY <1>1, <1>3, <1>4 DEF Stored
<1>10. WorkRight'
  <2>1. Reads(buf, 1..N, op.key, Absent)
    BY <1>1, <1>3, <1>4, <1>9 DEF Stored
  <2>2. \A i \in 1..N : buf[i].key # op.key
    BY <2>1, AbsentIs DEF Reads
  <2> QED BY <1>1, <1>5, <2>2 DEF WorkRight
<1>11. Stored'
  BY <1>1, <1>5, <1>6, <1>9 DEF Stored
<1>12. Counted'
  BY <1>1, <1>3, <1>4, <1>5, <1>6, <1>7 DEF Counted
<1> QED BY <1>1, <1>5, <1>7, <1>8, <1>10, <1>11, <1>12 DEF EffectRight

LEMMA ShiftDownEffect ==
    ASSUME IInv, ShiftDown \/ ShiftDownOut, health' = "good"
    PROVE  EffectRight'
<1>1. pc = "down" /\ health = "good"
  BY DEF ShiftDown, ShiftDownOut, Dead, marks
<1>2. buf \in Records /\ Alone(buf, Rest) /\ WorkRight /\ OthersRight /\ (op.key \in Key => Stored) /\ Counted
  BY <1>1 DEF IInv, TypeOK, Records, EffectRight
<1>3. Rest = (1..N) \ {at + 1} /\ op.key \in Key /\ op.name = "add"
  BY <1>1, AddCalls DEF Rest, IInv
<1>4. CASE ShiftDownOut
  <2>1. pc' = "idle" /\ buf' = buf /\ at = N
    BY <1>4 DEF ShiftDownOut, Dead, Idle, Goto
  <2>2. Rest = 1..N
    BY <1>3, <2>1
  <2> QED BY <1>2, <2>1, <2>2, IdleEffect
<1>5. CASE ShiftDown
  <2>1. /\ at \in 1..(N - 1) /\ at' = at - 1 /\ pc' = "down" /\ UNCHANGED <<op, before>>
        /\ buf' = [buf EXCEPT ![at + 1] = buf[at]]
    BY <1>1, <1>5 DEF ShiftDown, Store, IInv, TypeOK, CursorRight, call
  <2>2. Rest' = (1..N) \ {at}
    <3>1. at' + 1 = at
      BY <2>1
    <3> QED BY <2>1, <3>1 DEF Rest
  <2>3. /\ Rest \in SUBSET (1..N) /\ at \in Rest /\ at + 1 \in (1..N) \ Rest /\ (Rest \ {at}) \cup {at + 1} = Rest'
        /\ buf'[at + 1] = buf[at] /\ \A i \in Rest : buf'[i] = buf[i]
    BY <1>2, <1>3, <2>1, <2>2 DEF Records
  <2>4. /\ Alone(buf', (Rest \ {at}) \cup {at + 1})
        /\ \A m : \A k \in Key : Reads(buf, Rest, k, m) => Reads(buf', (Rest \ {at}) \cup {at + 1}, k, m)
        /\ \A k \in Key : (\A i \in Rest : buf[i].key # k) => \A i \in (Rest \ {at}) \cup {at + 1} : buf'[i].key # k
        /\ Cardinality(Comments(buf', (Rest \ {at}) \cup {at + 1})) = Cardinality(Comments(buf, Rest))
    <3>1. Alone(buf, Rest)
      BY <1>2
    <3> QED BY ONLY <2>3, <3>1, RestMoved
  <2>5. /\ Alone(buf', Rest')
        /\ \A m : \A k \in Key : Reads(buf, Rest, k, m) => Reads(buf', Rest', k, m)
        /\ \A k \in Key : (\A i \in Rest : buf[i].key # k) => \A i \in Rest' : buf'[i].key # k
        /\ Cardinality(Comments(buf', Rest')) = Cardinality(Comments(buf, Rest))
    BY ONLY <2>3, <2>4
  <2>6. OthersRight' /\ Base' = Base
    BY <1>1, <1>2, <2>1, <2>5, OthersBy, BaseSame
  <2>7. WorkRight'
    <3>1. \A i \in Rest' : buf'[i].key # op.key
      BY <1>1, <1>2, <1>3, <2>5 DEF WorkRight
    <3> QED BY <2>1, <3>1 DEF WorkRight
  <2>8. Stored'
    BY <1>1, <1>2, <1>3, <2>1, <2>6 DEF Stored
  <2>9. Counted'
    BY <1>1, <1>2, <2>1, <2>5, <2>6 DEF Counted
  <2> QED BY <2>1, <2>5, <2>6, <2>7, <2>8, <2>9 DEF EffectRight
<1> QED BY <1>4, <1>5

LEMMA AddKeyEffect ==
    ASSUME IInv, AddKey, health' = "good"
    PROVE  EffectRight'
<1>1. pc = "down" /\ health = "good" /\ pc' = "unlock" /\ UNCHANGED <<op, before>>
  BY DEF AddKey, Write, Goto, call, marks
<1>2. buf \in Records /\ Alone(buf, Rest) /\ WorkRight /\ OthersRight /\ (op.key \in Key => Stored) /\ Counted
  BY <1>1 DEF IInv, TypeOK, Records, EffectRight
<1>3. stop \in 1..N /\ at + 1 = stop /\ buf' = [buf EXCEPT ![stop] = Line(op.key, Empty, FALSE)]
  BY <1>1 DEF AddKey, Write, Store, IInv, TypeOK, CursorRight
<1>4. Rest = (1..N) \ {stop} /\ Rest' = 1..N /\ WorkRight' /\ op.key \in Key /\ op.name = "add"
  BY <1>1, <1>3, AddCalls DEF Rest, WorkRight, IInv
<1>5. /\ Rest \in SUBSET (1..N) /\ stop \in (1..N) \ Rest /\ Rest \cup {stop} = Rest'
      /\ buf'[stop] = Line(op.key, Empty, FALSE) /\ \A i \in Rest : buf'[i] = buf[i]
  BY <1>2, <1>3, <1>4 DEF Records
<1>6. buf'[stop].key = op.key /\ Entry(buf'[stop]) = [val |-> Empty, com |-> FALSE, there |-> TRUE]
  <2>1. Entry(buf'[stop]) = [val |-> Empty, com |-> FALSE, there |-> TRUE]
    BY <1>5 DEF Line, Entry
  <2> QED BY <1>5, <2>1 DEF Line
<1>7. \A i \in Rest : buf[i].key # op.key
  BY <1>1, <1>2, <1>4 DEF WorkRight
<1>8. /\ Alone(buf', Rest \cup {stop}) /\ Reads(buf', Rest \cup {stop}, buf'[stop].key, Entry(buf'[stop]))
      /\ \A m : \A l \in Key : l # buf'[stop].key /\ Reads(buf, Rest, l, m) => Reads(buf', Rest \cup {stop}, l, m)
  BY <1>2, <1>5, <1>6, <1>7, RestAdded
<1>9. /\ Alone(buf', Rest') /\ Reads(buf', Rest', op.key, [val |-> Empty, com |-> FALSE, there |-> TRUE])
      /\ \A m : \A l \in Key : l # op.key /\ Reads(buf, Rest, l, m) => Reads(buf', Rest', l, m)
  BY ONLY <1>5, <1>6, <1>8
<1>10. OthersRight' /\ Base' = Base
  BY <1>1, <1>2, <1>9, OthersBy, BaseSame
<1>11. Stored'
  <2>1. Base.map[op.key] = Absent
    BY <1>1, <1>2, <1>4 DEF Stored
  <2> QED BY <1>1, <1>4, <1>9, <1>10, <2>1 DEF Stored
<1>12. Counted'
  <2>1. Comments(buf', Rest \cup {stop}) = Comments(buf, Rest)
    <3>1. buf'[stop].key # "COMMENT"
      BY <1>4, <1>6, NamesReserved
    <3> DEFINE R == Rest  c == buf'
    <3>2. /\ R \in SUBSET (1..N) /\ stop \in (1..N) \ R /\ \A i \in R : c[i] = buf[i]
          /\ c[stop].key # "COMMENT"
      BY <1>5, <3>1
    <3> HIDE DEF R, c
    <3>3. Comments(c, R \cup {stop}) = Comments(buf, R)
      BY ONLY <3>2, CommentsAdded
    <3> QED BY <3>3 DEF R, c
  <2>2. Comments(buf', Rest') = Comments(buf, Rest)
    BY ONLY <1>5, <2>1
  <2> QED BY <1>1, <1>2, <1>4, <1>10, <2>2 DEF Counted
<1> QED BY <1>1, <1>4, <1>9, <1>10, <1>11, <1>12 DEF EffectRight

LEMMA ChangeKeyEffect ==
    ASSUME IInv, ChangeKey, health' = "good"
    PROVE  EffectRight'
<1>1. pc = "hchange" /\ health = "good" /\ pc' = "unlock" /\ UNCHANGED <<op, before>>
  BY DEF ChangeKey, Goto, call, marks
<1>2. PICK e \in 1..N : EndAt(buf, e)
  BY <1>1 DEF IInv, ShapeRight
<1>3. Alone(buf, 1..N) /\ buf \in Records /\ OthersRight /\ (op.key \in Key => Stored) /\ Counted
  BY <1>1, AloneAll DEF IInv, TypeOK, Records, EffectRight
<1>4. Rest = 1..N /\ Rest' = 1..N /\ WorkRight' /\ op.key \in Key /\ op.val \in Key /\ op.name = "change"
  BY <1>1 DEF Rest, WorkRight, IInv, CallRight, hashpipe_status_chkinit, hashpipe_status_clear, Call, NoCall, PutSteps
<1> DEFINE k == ksearch(buf, op.key)
<1>5. buf' = [i \in 1..N |-> IF i = k THEN [buf[i] EXCEPT !.key = op.val] ELSE buf[i]]
  BY DEF ChangeKey
<1>6. k = 0 \/ (k \in 1..N /\ buf[k].key = op.key)
  BY <1>2, <1>3, <1>4, KeyFound
<1>7. Base' = Base
  BY <1>1, BaseSame
<1>8. /\ Reads(buf, 1..N, op.key, Base.map[op.key]) /\ Reads(buf, 1..N, op.val, Absent)
      /\ Base.map[op.val] = Absent
  BY <1>1, <1>3, <1>4 DEF Stored
<1>9. \A i \in 1..N : buf[i].key # op.val
  BY <1>8, AbsentIs DEF Reads
<1> HIDE DEF k
<1>10. CASE k = 0
  <2>1. \A i \in 1..N : buf'[i] = buf[i]
    BY <1>5, <1>10
  <2>2. /\ Alone(buf', 1..N) /\ Comments(buf', 1..N) = Comments(buf, 1..N)
        /\ \A m : \A l \in Key : Reads(buf, 1..N, l, m) => Reads(buf', 1..N, l, m)
    BY <1>3, <2>1, RestSame
  <2>3. OthersRight'
    BY <1>1, <1>3, <1>4, <2>2, OthersBy
  <2>4. Stored'
    <3>1. Reads(buf', 1..N, op.key, Base.map[op.key]) /\ Reads(buf', 1..N, op.val, Base.map[op.val])
      BY <1>4, <1>8, <2>2
    <3> QED BY <1>1, <1>4, <1>7, <3>1 DEF Stored
  <2>5. Counted'
    BY <1>1, <1>3, <1>4, <1>7, <2>2 DEF Counted
  <2> QED BY <1>1, <1>4, <2>2, <2>3, <2>4, <2>5 DEF EffectRight
<1>11. CASE k \in 1..N /\ buf[k].key = op.key
  <2>0. buf[k] \in LineSet
    BY <1>3, <1>11 DEF Records
  <2>1. /\ \A i \in (1..N) \ {k} : buf'[i] = buf[i]
        /\ buf'[k].key = op.val /\ buf'[k].val = buf[k].val /\ buf'[k].com = buf[k].com
    BY <1>5, <1>11, <2>0 DEF LineSet
  <2>2. op.key # op.val /\ Entry(buf'[k]) = Entry(buf[k])
    BY <1>9, <1>11, <2>1 DEF Entry
  <2>3. /\ Alone(buf', 1..N) /\ Comments(buf', 1..N) = Comments(buf, 1..N)
        /\ \A m : Reads(buf, 1..N, buf[k].key, m) => m = Entry(buf[k])
        /\ Reads(buf', 1..N, buf'[k].key, Entry(buf'[k]))
        /\ buf'[k].key # buf[k].key => Reads(buf', 1..N, buf[k].key, Absent)
        /\ \A m : \A l \in Key : l \notin {buf[k].key, buf'[k].key} /\ Reads(buf, 1..N, l, m) => Reads(buf', 1..N, l, m)
    <3>1. buf[k].key \in Key /\ buf'[k].key \in Key /\ \A i \in 1..N : buf[i].key # buf'[k].key
      BY <1>4, <1>9, <1>11, <2>1
    <3>2. k \in 1..N /\ Alone(buf, 1..N) /\ \A i \in (1..N) \ {k} : buf'[i] = buf[i]
      BY <1>3, <1>11, <2>1
    <3> QED BY ONLY <3>1, <3>2, RestRewritten
  <2>4. /\ \A m : Reads(buf, 1..N, op.key, m) => m = Entry(buf[k])
        /\ Reads(buf', 1..N, op.val, Entry(buf[k])) /\ Reads(buf', 1..N, op.key, Absent)
        /\ \A m : \A l \in Key : l \notin {op.key, op.val} /\ Reads(buf, 1..N, l, m) => Reads(buf', 1..N, l, m)
    BY <1>11, <2>1, <2>2, <2>3
  <2>5. Base.map[op.key] = Entry(buf[k])
    BY <1>8, <2>4
  <2>6. OthersRight'
    BY <1>1, <1>3, <1>4, <2>4, OthersBy
  <2>7. Stored'
    <3>1. Base.map[op.key].there = TRUE /\ Reads(buf', 1..N, op.val, Base.map[op.key])
      BY <2>4, <2>5, AbsentIs
    <3> QED BY <1>1, <1>4, <1>7, <1>8, <2>4, <3>1 DEF Stored
  <2>8. Counted'
    BY <1>1, <1>3, <1>4, <1>7, <2>3 DEF Counted
  <2> QED BY <1>1, <1>4, <2>3, <2>6, <2>7, <2>8 DEF EffectRight
<1> QED BY <1>6, <1>10, <1>11

LEMMA NextEffect == ASSUME IInv, [Next]_vars PROVE EffectRight'
<1> SUFFICES ASSUME health' = "good" PROVE EffectRight'
  BY DEF EffectRight
<1>1. CASE Put \/ PutComment \/ Delete \/ Add \/ Change \/ Clear \/ Attach
  BY <1>1, LockEffect DEF Put, PutComment, Delete, Add, Change, Clear, Attach, hputs, hputNumber, hputcom, hdel, hadd,
     hchange, hashpipe_status_clear, hashpipe_status_chkinit, Call
<1>2. CASE PutValue
  BY <1>2, FillEffect, PutValueEffect
<1>3. ~KeepCommentOut /\ ~SetCommentOut /\ ~Zero
  BY DEF KeepCommentOut, SetCommentOut, RunOut, Zero, Dead
<1>4. CASE UNCHANGED vars
  <2>1. UNCHANGED <<buf, pc, op, at, before, com, health>>
    BY <1>4 DEF vars, call, cursor, marks
  <2>2. Rest' = Rest /\ Base' = Base /\ EffectRight
    BY <2>1 DEF Rest, Base, NoView, IInv
  <2>3. Alone(buf', Rest') /\ WorkRight'
    BY <2>1, <2>2 DEF EffectRight, WorkRight
  <2>4. pc' # "idle" => OthersRight' /\ (op'.key \in Key => Stored') /\ Counted'
    BY <2>1, <2>2 DEF EffectRight, OthersRight, Stored, Counted
  <2> QED BY <2>3, <2>4 DEF EffectRight
<1>5. CASE Place \/ MoveEnd \/ MoveEndOut \/ Fill \/ PutKey \/ KeepComment
  BY <1>5, PlaceEffect, MoveEndEffect, FillEffect, PutValueEffect
<1>6. CASE SetComment \/ FindDeleted \/ ShiftUp \/ Terminate
  BY <1>6, SetCommentEffect, FindDeletedEffect, ShiftUpEffect, TerminateEffect
<1>7. CASE FindAdded \/ ShiftDown \/ ShiftDownOut \/ AddKey \/ ChangeKey
  BY <1>7, FindAddedEffect, ShiftDownEffect, AddKeyEffect, ChangeKeyEffect
<1>8. CASE CheckInit \/ NewEnd \/ Unlock \/ Kill \/ ForceUnlock
  BY <1>8, CheckInitEffect, NewEndEffect, KillEffect
<1> QED BY <1>1, <1>2, <1>3, <1>4, <1>5, <1>6, <1>7, <1>8 DEF Next

LEMMA Invariance == Spec => []IInv
<1>1. Init => IInv
  <2> SUFFICES ASSUME Init PROVE IInv
    OBVIOUS
  <2>1. Basic /\ ShapeRight
    BY InitBasic DEF Init, ShapeRight
  <2>2. before = NoView /\ before.known = FALSE /\ before.map = [k \in Key |-> before.map[k]]
    BY ViewIs DEF Init, NoMap
  <2>3. BeforeRight
    BY <2>2 DEF Init, BeforeRight
  <2>4. EffectRight
    BY DEF Init, EffectRight
  <2> QED BY <2>1, <2>3, <2>4 DEF IInv, Basic
<1>2. IInv /\ [Next]_vars => IInv'
  <2> SUFFICES ASSUME IInv, [Next]_vars PROVE IInv'
    OBVIOUS
  <2>1. Basic /\ ShapeRight /\ BeforeRight
    BY DEF IInv, Basic
  <2>2. Basic' /\ ShapeRight' /\ BeforeRight' /\ EffectRight'
    BY <2>1, NextBasic, NextShape, NextBefore, NextEffect
  <2> QED BY <2>2 DEF IInv, Basic
<1> QED BY <1>1, <1>2, PTL DEF Spec
-----------------------------------------------------------------------------
(* What users read                                                         *)

(* The records outside R are copies of those in it, or have another        *)
(* keyword.                                                                *)
LEMMA ReadingRest ==
    ASSUME NEW b \in Records, NEW e \in 1..N, EndAt(b, e), NEW R \in SUBSET (1..N), Alone(b, R),
           NEW k \in Key, NEW m, Reads(b, R, k, m),
           \A i \in 1..N : b[i].key = k => \E j \in R : b[j] = b[i]
    PROVE  hgetc(b, k) = m
<1>1. CASE ksearch(b, k) = 0 /\ \A j \in 1..N : b[j].key # k
  <2>1. m = Absent
    BY <1>1 DEF Reads
  <2> QED BY <1>1, <2>1 DEF hgetc
<1>2. CASE ksearch(b, k) \in 1..(e - 1) /\ b[ksearch(b, k)].key = k
  <2>1. ksearch(b, k) \in 1..N /\ ksearch(b, k) # 0
    BY <1>2
  <2>2. hgetc(b, k) = Entry(b[ksearch(b, k)])
    BY <2>1 DEF hgetc, Entry
  <2>3. PICK j \in R : b[j] = b[ksearch(b, k)]
    BY <1>2, <2>1
  <2>4. b[j].key = k
    BY <1>2, <2>3
  <2>5. PICK i \in R : b[i].key = k /\ m = Entry(b[i])
    BY <2>4 DEF Reads
  <2>6. i = j
    BY <2>4, <2>5 DEF Alone
  <2> QED BY <2>2, <2>3, <2>5, <2>6
<1> QED BY <1>1, <1>2, KeyFound

LEMMA ReadThrough ==
    ASSUME IInv, health = "good", NEW k \in Key \ {op.key}, NEW m, Reads(buf, Rest, k, m)
    PROVE  hgetc(buf, k) = m
<1>1. PICK e \in 1..N : EndAt(buf, e) /\ Placed(e)
  BY DEF IInv, ShapeRight
<1>2. buf \in Records /\ Alone(buf, Rest) /\ WorkRight /\ Rest \in SUBSET (1..N)
  BY DEF IInv, TypeOK, Records, EffectRight, Rest
<1>3. ASSUME NEW i \in 1..N, buf[i].key = k PROVE \E j \in Rest : buf[j] = buf[i]
  <2>1. CASE i \in Rest
    BY <2>1
  <2>2. CASE i \notin Rest /\ pc \in {"fill", "key", "value", "comment", "up"}
    <3>1. i = at
      BY <2>2 DEF Rest
    <3>2. buf[at].key # op.key
      BY <1>3, <3>1
    <3>3. pc = "up" /\ at > 1 /\ buf[at] = buf[at - 1]
      BY <1>2, <1>3, <2>2, <3>1, <3>2 DEF WorkRight, BlankLine, Line
    <3>4. at - 1 \in Rest
      BY <1>3, <3>1, <3>3 DEF Rest
    <3> QED BY <3>1, <3>3, <3>4
  <2>3. CASE i \notin Rest /\ pc = "down"
    <3>1. i = at + 1
      BY <2>3 DEF Rest
    <3>2. at # e
      BY <1>1, <1>3, <3>1 DEF EndAt
    <3>3. at + 2 <= N /\ buf[at + 1] = buf[at + 2]
      BY <1>1, <2>3, <3>2 DEF Placed
    <3>4. at + 2 \in Rest
      BY <2>3, <3>3 DEF Rest, IInv, TypeOK
    <3> QED BY <3>1, <3>3, <3>4
  <2> QED BY <2>1, <2>2, <2>3 DEF Rest
<1> QED BY <1>1, <1>2, <1>3, ReadingRest

(* While a call works on a keyword, the records of all others can be read  *)
(* as before at any moment, also when the caller died, whatever the size   *)
(* of the buffer and whatever the keywords are.                            *)
THEOREM OthersRead == Spec => []OthersUntouched
<1>1. IInv => OthersUntouched
  <2> SUFFICES ASSUME IInv, before.known, op.name \in {"put", "com", "del", "add", "change"}, health = "good",
                      NEW k \in Key \ {op.key, op.val}
               PROVE  hgetc(buf, k) = before.map[k]
    BY DEF OthersUntouched
  <2>1. pc # "idle"
    BY DEF IInv, CallRight, NoCall, Call, PutSteps
  <2>2. Base = before
    BY DEF Base
  <2>3. Reads(buf, Rest, k, Base.map[k])
    BY <2>1 DEF IInv, EffectRight, OthersRight
  <2> QED BY <2>2, <2>3, ReadThrough
<1> QED BY <1>1, Invariance, PTL

(* No keyword ever has two records that stay, unless a caller died in the  *)
(* middle of a shift.                                                      *)
THEOREM UniqueNames == Spec => []NamesUnique
<1>1. IInv => NamesUnique
  <2> SUFFICES ASSUME IInv, health = "good", pc = "idle" PROVE NamesUnique
    BY DEF NamesUnique
  <2>1. Alone(buf, 1..N)
    BY AloneAll
  <2> QED BY <2>1 DEF NamesUnique, Alone, Visible
<1> QED BY <1>1, Invariance, PTL
-----------------------------------------------------------------------------
(* The map the users see                                                   *)

LEMMA MapIs ==
    ASSUME NEW f, f = [k \in Key |-> f[k]], NEW b
    PROVE  /\ (\A k \in Key : hgetc(b, k) = f[k]) => MapOf(b) = f
           /\ \A e : \A x \in Key : hgetc(b, x) = e /\ (\A k \in Key \ {x} : hgetc(b, k) = f[k])
                                => MapOf(b) = [f EXCEPT ![x] = e]
<1>1. MapOf(b) = [k \in Key |-> hgetc(b, k)]
  BY DEF MapOf
<1>2. (\A k \in Key : hgetc(b, k) = f[k]) => MapOf(b) = f
  BY <1>1
<1>3. ASSUME NEW x \in Key, NEW e, hgetc(b, x) = e, \A k \in Key \ {x} : hgetc(b, k) = f[k]
      PROVE  MapOf(b) = [f EXCEPT ![x] = e]
  BY <1>1, <1>3
<1> QED BY <1>2, <1>3

(* What a call makes of the map and the lines it started from, once it has *)
(* done everything or nothing of it, ...                                   *)
Done(m, n) ==
    LET base == Base.map[op.key]
        set(e) == m = [Base.map EXCEPT ![op.key] = e]
    IN  \/ m = Base.map /\ n = Base.lines
        \/ op.key = "COMMENT" /\ m = Base.map /\ n \in {Base.lines + 1, Base.lines - 1}
        \/ /\ op.key \in Key /\ n = Base.lines
           /\ \/ /\ op.name \in {"put", "init", "clear"} /\ op.val \in Val /\ ~(base.com /\ op.val \in Long)
                 /\ set([val |-> op.val, com |-> base.com, there |-> TRUE])
              \/ op.name = "com" /\ base.there /\ set([val |-> base.val, com |-> TRUE, there |-> TRUE])
              \/ op.name = "del" /\ set(Absent)
              \/ op.name = "add" /\ base = Absent /\ set([val |-> Empty, com |-> FALSE, there |-> TRUE])
              \/ /\ op.name = "change" /\ op.val \in Key /\ base.there /\ Base.map[op.val] = Absent
                 /\ m = [k \in Key |-> IF k = op.key THEN Absent ELSE IF k = op.val THEN base ELSE Base.map[k]]

(* ... and when it was stopped while it stored.                            *)
Undone(m, n) ==
    /\ op.key \in Key /\ op.name \in {"put", "init", "clear"} /\ op.val \in Val /\ n = Base.lines
    /\ \E e \in {Absent} \cup {[val |-> v, com |-> FALSE, there |-> TRUE] : v \in {Empty, op.val}} :
           m = [Base.map EXCEPT ![op.key] = e]

LEMMA Names ==
    ASSUME CallRight, pc # "idle"
    PROVE  /\ op.key \in Key \cup {"COMMENT"}
           /\ op.name \in {"put", "com", "del", "add", "change", "init", "clear"}
           /\ op.name \in {"put", "init", "clear"} => op.val \in Val
           /\ op.name = "change" => op.val \in Key /\ op.key \in Key
           /\ op.name \in {"init", "clear"} => op.key = InstanceKey /\ op.val = InstanceVal
BY DEF CallRight, hashpipe_status_chkinit, hashpipe_status_clear, Call, NoCall

LEMMA BaseMap == ASSUME IInv PROVE Base.map = [k \in Key |-> Base.map[k]] /\ Base.lines \in Nat
<1>1. before.map = [k \in Key |-> before.map[k]] /\ (before.known => before.lines \in Nat)
  BY DEF IInv, BeforeRight
<1>2. NoView.map = [k \in Key |-> NoView.map[k]] /\ NoView.lines \in Nat
  BY ViewIs DEF NoMap
<1> QED BY <1>1, <1>2 DEF Base

LEMMA OthersOfBase ==
    ASSUME IInv, health = "good", pc # "idle", NEW k \in Key \ {op.key}, op.name = "change" => k # op.val
    PROVE  hgetc(buf, k) = Base.map[k]
<1>1. Reads(buf, Rest, k, Base.map[k])
  BY DEF IInv, EffectRight, OthersRight
<1> QED BY <1>1, ReadThrough

(* ... also when all other keywords but the one of the call are as they    *)
(* were.                                                                   *)
LEMMA OwnIs ==
    ASSUME IInv, health = "good", pc # "idle", op.name # "change"
    PROVE  /\ op.key \notin Key => MapOf(buf) = Base.map
           /\ op.key \in Key /\ hgetc(buf, op.key) = Base.map[op.key] => MapOf(buf) = Base.map
           /\ op.key \in Key => MapOf(buf) = [Base.map EXCEPT ![op.key] = hgetc(buf, op.key)]
<1>1. \A k \in Key \ {op.key} : hgetc(buf, k) = Base.map[k]
  BY OthersOfBase
<1>2. Base.map = [k \in Key |-> Base.map[k]]
  BY BaseMap
<1>3. (\A k \in Key : hgetc(buf, k) = Base.map[k]) => MapOf(buf) = Base.map
  BY <1>2, MapIs
<1>4. op.key \in Key => MapOf(buf) = [Base.map EXCEPT ![op.key] = hgetc(buf, op.key)]
  BY <1>1, <1>2, MapIs
<1> QED BY <1>1, <1>3, <1>4

LEMMA ReadsAll ==
    ASSUME IInv, health = "good", pc \notin {"up", "down"}, NEW k \in Key, NEW m, Reads(buf, 1..N, k, m)
    PROVE  hgetc(buf, k) = m
<1>1. PICK e \in 1..N : EndAt(buf, e)
  BY DEF IInv, ShapeRight
<1> QED BY <1>1, AloneAll, Reading DEF IInv, TypeOK, Records

LEMMA UnlockDone ==
    ASSUME IInv, health = "good", pc = "unlock"
    PROVE  Done(MapOf(buf), LinesOf(buf))
<1>1. Rest = 1..N
  BY DEF Rest
<1>2. (op.key \in Key => Stored) /\ Counted
  BY DEF IInv, EffectRight
<1>3. LinesOf(buf) = Cardinality(Comments(buf, Rest))
  <2>1. PICK e \in 1..N : EndAt(buf, e)
    BY DEF IInv, ShapeRight
  <2> QED BY <1>1, <2>1, LinesCounted DEF IInv, TypeOK, Records
<1>4. LinesOf(buf) = Base.lines \/ (op.key = "COMMENT" /\ Base.lines \in {LinesOf(buf) - 1, LinesOf(buf) + 1})
  BY <1>2, <1>3 DEF Counted
<1>5. /\ op.key \in Key \cup {"COMMENT"}
      /\ op.name \in {"put", "com", "del", "add", "change", "init", "clear"}
      /\ op.name \in {"put", "init", "clear"} => op.val \in Val
      /\ op.name = "change" => op.val \in Key /\ op.key \in Key
  BY Names DEF IInv
<1>6. CASE op.key \notin Key
  <2>1. MapOf(buf) = Base.map /\ op.key = "COMMENT"
    BY <1>5, <1>6, OwnIs
  <2>2. LinesOf(buf) \in Nat /\ Base.lines \in Nat
    BY LinesType, BaseMap
  <2>3. \A x, y \in Nat : y \in {x - 1, x + 1} => x \in {y + 1, y - 1}
    OBVIOUS
  <2>4. LinesOf(buf) = Base.lines \/ LinesOf(buf) \in {Base.lines + 1, Base.lines - 1}
    BY <1>4, <2>2, <2>3
  <2> QED BY <2>1, <2>4 DEF Done
<1>7. CASE op.key \in Key /\ op.name # "change"
  <2>1. LinesOf(buf) = Base.lines
    BY <1>4, <1>7
  <2>2. \A m : Reads(buf, Rest, op.key, m) => hgetc(buf, op.key) = m
    BY <1>1, <1>7, ReadsAll
  <2>3. /\ hgetc(buf, op.key) = Base.map[op.key] => MapOf(buf) = Base.map
        /\ MapOf(buf) = [Base.map EXCEPT ![op.key] = hgetc(buf, op.key)]
    BY <1>7, OwnIs
  <2>4. CASE op.name \in {"put", "init", "clear"}
    <3>1. /\ hgetc(buf, op.key) = [val |-> op.val, com |-> Base.map[op.key].com, there |-> TRUE]
          /\ ~(Base.map[op.key].com /\ op.val \in Long)
      BY <1>2, <1>7, <2>2, <2>4 DEF Stored
    <3> QED BY <1>5, <1>7, <2>1, <2>3, <2>4, <3>1 DEF Done
  <2>5. CASE op.name = "com"
    <3>1. \/ hgetc(buf, op.key) = Base.map[op.key]
          \/ Base.map[op.key].there /\ hgetc(buf, op.key) = [val |-> Base.map[op.key].val, com |-> TRUE, there |-> TRUE]
      BY <1>2, <1>7, <2>2, <2>5 DEF Stored
    <3> QED BY <1>7, <2>1, <2>3, <2>5, <3>1 DEF Done
  <2>6. CASE op.name = "del"
    <3>1. hgetc(buf, op.key) = Absent
      BY <1>2, <1>7, <2>2, <2>6 DEF Stored
    <3> QED BY <1>7, <2>1, <2>3, <2>6, <3>1 DEF Done
  <2>7. CASE op.name = "add"
    <3>1. Base.map[op.key] = Absent /\ hgetc(buf, op.key) = [val |-> Empty, com |-> FALSE, there |-> TRUE]
      BY <1>2, <1>7, <2>2, <2>7 DEF Stored
    <3> QED BY <1>7, <2>1, <2>3, <2>7, <3>1 DEF Done
  <2> QED BY <1>5, <1>7, <2>4, <2>5, <2>6, <2>7
<1>8. CASE op.name = "change"
  <2>1. LinesOf(buf) = Base.lines /\ op.key \in Key /\ op.val \in Key
    BY <1>4, <1>5, <1>8
  <2>2. \A k \in Key \ {op.key, op.val} : hgetc(buf, k) = Base.map[k]
    BY OthersOfBase
  <2>3. Base.map = [k \in Key |-> Base.map[k]]
    BY BaseMap
  <2>4. \/ Reads(buf, Rest, op.key, Base.map[op.key]) /\ Reads(buf, Rest, op.val, Base.map[op.val])
        \/ /\ Base.map[op.key].there /\ Base.map[op.val] = Absent
           /\ Reads(buf, Rest, op.key, Absent) /\ Reads(buf, Rest, op.val, Base.map[op.key])
    BY <1>2, <1>8, <2>1 DEF Stored
  <2>5. \A m : \A k \in Key : Reads(buf, Rest, k, m) => hgetc(buf, k) = m
    BY <1>1, ReadsAll
  <2>6. CASE hgetc(buf, op.key) = Base.map[op.key] /\ hgetc(buf, op.val) = Base.map[op.val]
    <3>1. \A k \in Key : hgetc(buf, k) = Base.map[k]
      BY <2>2, <2>6
    <3>2. MapOf(buf) = Base.map
      BY <2>3, <3>1, MapIs
    <3> QED BY <2>1, <3>2 DEF Done
  <2>7. CASE /\ Base.map[op.key].there /\ Base.map[op.val] = Absent
             /\ hgetc(buf, op.key) = Absent /\ hgetc(buf, op.val) = Base.map[op.key]
    <3>1. op.key # op.val
      BY <2>7, AbsentIs
    <3>2. \A k \in Key : hgetc(buf, k) =
              IF k = op.key THEN Absent ELSE IF k = op.val THEN Base.map[op.key] ELSE Base.map[k]
      BY <2>2, <2>7, <3>1
    <3>3. MapOf(buf) = [k \in Key |-> IF k = op.key THEN Absent ELSE IF k = op.val THEN Base.map[op.key] ELSE Base.map[k]]
      BY <3>2 DEF MapOf
    <3> QED BY <1>8, <2>1, <2>7, <3>3 DEF Done
  <2> QED BY <2>1, <2>4, <2>5, <2>6, <2>7
<1> QED BY <1>5, <1>6, <1>7, <1>8

(* The caller is stopped in the middle of a call that shifts nothing.      *)
LEMMA BusyLines ==
    ASSUME IInv, health = "good", pc \notin {"idle", "up", "unlock"}, pc = "down" => at = N
    PROVE  LinesOf(buf) = Base.lines \/ (op.key = "COMMENT" /\ LinesOf(buf) = Base.lines + 1)
<1>1. WorkRight /\ Cardinality(Comments(buf, Rest)) = Base.lines
  BY DEF IInv, EffectRight, Counted
<1>2. LinesOf(buf) = Cardinality(Comments(buf, 1..N))
  <2>1. PICK e \in 1..N : EndAt(buf, e)
    BY DEF IInv, ShapeRight
  <2> QED BY <2>1, LinesCounted DEF IInv, TypeOK, Records
<1>3. CASE pc \notin {"fill", "key", "value", "comment"}
  <2>1. Rest = 1..N
    BY <1>3 DEF Rest
  <2> QED BY <1>1, <1>2, <2>1
<1>4. CASE pc \in {"fill", "key", "value", "comment"}
  <2>1. at \in 1..N /\ Rest = (1..N) \ {at}
    BY <1>4 DEF Rest, IInv, TypeOK, CursorRight
  <2>2. /\ buf[at].key # "COMMENT" => Comments(buf, Rest) = Comments(buf, 1..N)
        /\ buf[at].key = "COMMENT" => Cardinality(Comments(buf, Rest)) + 1 = Cardinality(Comments(buf, 1..N))
    <3>1. /\ buf[at].key # "COMMENT" => Comments(buf, (1..N) \ {at}) = Comments(buf, 1..N)
          /\ buf[at].key = "COMMENT" => Cardinality(Comments(buf, (1..N) \ {at})) + 1 = Cardinality(Comments(buf, 1..N))
      BY <2>1, CommentsDropped
    <3> QED BY <2>1, <3>1
  <2>3. buf[at].key = "COMMENT" => op.key = "COMMENT"
    BY <1>1, <1>4 DEF WorkRight, BlankLine, Line
  <2> QED BY <1>1, <1>2, <2>2, <2>3
<1> QED BY <1>3, <1>4

LEMMA BusyDone ==
    ASSUME IInv, health = "good", pc \notin {"idle", "up", "unlock"}, pc = "down" => at = N
    PROVE  Done(MapOf(buf), LinesOf(buf)) \/ Undone(MapOf(buf), LinesOf(buf))
<1> DEFINE base == Base.map[op.key]
<1>1. (op.key \in Key => Stored) /\ WorkRight /\ Rest \in SUBSET (1..N)
  BY DEF IInv, EffectRight, Rest
<1>2. LinesOf(buf) = Base.lines \/ (op.key = "COMMENT" /\ LinesOf(buf) = Base.lines + 1)
  BY BusyLines
<1>3. /\ op.key \in Key \cup {"COMMENT"}
      /\ op.name \in {"put", "com", "del", "add", "change", "init", "clear"}
      /\ op.name \in {"put", "init", "clear"} => op.val \in Val
      /\ op.name = "change" => op.val \in Key /\ op.key \in Key
  BY Names DEF IInv
<1>4. CASE op.key \notin Key
  <2>1. MapOf(buf) = Base.map /\ op.key = "COMMENT"
    BY <1>3, <1>4, OwnIs
  <2> QED BY <1>2, <2>1 DEF Done
<1>5. CASE op.key \in Key /\ pc \notin {"fill", "key", "value", "comment"}
  <2>1. pc # "newend"
    BY DEF IInv, ShapeRight
  <2>2. Rest = 1..N
    BY <1>5 DEF Rest
  <2>3. Reads(buf, 1..N, op.key, base)
    <3>1. CASE pc \in {"moveend", "down"}
      <4>1. base = Absent /\ \A i \in Rest : buf[i].key # op.key
        BY <1>1, <1>5, <3>1 DEF Stored, WorkRight
      <4> QED BY <2>2, <4>1 DEF Reads
    <3>2. CASE pc \notin {"moveend", "down"}
      <4>1. pc \in {"hputc", "hputcom", "hdel", "hadd", "hchange", "chkinit", "zero"}
        BY <1>5, <2>1, <3>2 DEF IInv, CallRight, PutSteps
      <4> QED BY <1>1, <1>5, <2>2, <4>1 DEF Stored
    <3> QED BY <3>1, <3>2
  <2>4. hgetc(buf, op.key) = base
    <3>1. CASE pc # "down"
      BY <1>5, <2>3, <3>1, ReadsAll
    <3>2. CASE pc = "down"
      <4>1. PICK e \in 1..N : EndAt(buf, e)
        BY DEF IInv, ShapeRight
      <4>2. Alone(buf, 1..N) /\ buf \in Records
        BY <2>2 DEF IInv, EffectRight, TypeOK, Records
      <4> QED BY <1>5, <2>3, <4>1, <4>2, Reading
    <3> QED BY <3>1, <3>2
  <2>5. op.name = "change" => hgetc(buf, op.val) = Base.map[op.val]
    <3>1. op.name = "change" => pc = "hchange"
      BY DEF IInv, CallRight, PutSteps, NoCall, Call, hashpipe_status_chkinit, hashpipe_status_clear
    <3>2. op.name = "change" => Reads(buf, 1..N, op.val, Absent) /\ Base.map[op.val] = Absent
      BY <1>1, <1>5, <2>2, <3>1 DEF Stored
    <3> QED BY <1>3, <3>1, <3>2, ReadsAll
  <2>6. \A k \in Key : hgetc(buf, k) = Base.map[k]
    <3>1. \A k \in Key \ {op.key} : (op.name = "change" => k # op.val) => hgetc(buf, k) = Base.map[k]
      BY OthersOfBase
    <3> QED BY <2>4, <2>5, <3>1
  <2>7. MapOf(buf) = Base.map
    BY <2>6, BaseMap, MapIs
  <2>8. LinesOf(buf) = Base.lines
    BY <1>2, <1>5
  <2> QED BY <2>7, <2>8 DEF Done
<1>6. CASE op.key \in Key /\ pc \in {"fill", "key", "value", "comment"}
  <2>0. op.name \in {"put", "init", "clear"} /\ op.val \in Val
    BY <1>3, <1>6, PutCalls DEF PutSteps, IInv
  <2>1. at \in 1..N /\ Rest = (1..N) \ {at} /\ \A i \in Rest : buf[i].key # op.key
    BY <1>1, <1>6 DEF Rest, IInv, TypeOK, CursorRight, WorkRight
  <2>2. buf[at].key = op.key => hgetc(buf, op.key) = Entry(buf[at])
    <3>1. buf[at].key = op.key => Reads(buf, 1..N, op.key, Entry(buf[at]))
      BY <2>1 DEF Reads
    <3> QED BY <1>6, <3>1, ReadsAll
  <2>3. buf[at].key # op.key => hgetc(buf, op.key) = Absent
    <3>1. buf[at].key # op.key => Reads(buf, 1..N, op.key, Absent)
      BY <2>1 DEF Reads
    <3> QED BY <1>6, <3>1, ReadsAll
  <2>4. /\ hgetc(buf, op.key) = base => MapOf(buf) = Base.map
        /\ MapOf(buf) = [Base.map EXCEPT ![op.key] = hgetc(buf, op.key)]
    BY <1>6, <2>0, OwnIs
  <2>5. LinesOf(buf) = Base.lines
    BY <1>2, <1>6
  <2>6. CASE pc = "fill"
    <3>1. base = IF buf[at].key = op.key THEN Entry(buf[at]) ELSE Absent
      BY <1>1, <1>6, <2>6 DEF Stored
    <3>2. MapOf(buf) = Base.map
      BY <2>2, <2>3, <2>4, <3>1
    <3> QED BY <2>5, <3>2 DEF Done
  <2>7. CASE pc # "fill"
    <3>1. hgetc(buf, op.key) \in {Absent} \cup {[val |-> v, com |-> FALSE, there |-> TRUE] : v \in {Empty, op.val}}
      <4>1. CASE pc = "key"
        <5>1. buf[at].key # op.key
          BY <1>1, <1>6, <4>1 DEF WorkRight, BlankLine, Line
        <5> QED BY <2>3, <5>1
      <4>2. CASE pc \in {"value", "comment"}
        <5>1. PICK v \in {Empty, op.val} : buf[at] = Line(op.key, v, FALSE)
          BY <1>1, <4>2 DEF WorkRight
        <5>2. buf[at].key = op.key /\ Entry(buf[at]) = [val |-> v, com |-> FALSE, there |-> TRUE]
          BY <5>1 DEF Line, Entry
        <5> QED BY <2>2, <5>2
      <4> QED BY <1>6, <2>7, <4>1, <4>2
    <3> QED BY <1>6, <2>0, <2>4, <2>5, <3>1 DEF Undone
  <2> QED BY <2>6, <2>7
<1> QED BY <1>3, <1>4, <1>5, <1>6

(* The zero byte is behind the records that moved up.                      *)
LEMMA TerminateDone ==
    ASSUME IInv, Terminate, health' = "good"
    PROVE  Done(MapOf(buf'), LinesOf(buf'))
<1>1. /\ pc = "up" /\ health = "good" /\ op.name = "del" /\ op.key \in Key \cup {"COMMENT"}
      /\ OthersRight /\ Counted /\ Rest \in SUBSET (1..N)
      /\ Alone(buf', 1..N)
      /\ \A m : \A k \in Key : Reads(buf, Rest, k, m) => Reads(buf', 1..N, k, m)
      /\ Comments(buf', 1..N) = Comments(buf, Rest)
      /\ op.key \in Key => Reads(buf, Rest, op.key, Absent)
  BY TerminateRest
<1>2. PICK e \in 1..N : EndAt(buf', e)
  <2>1. ShapeRight'
    BY OtherCallsShape DEF IInv, Basic
  <2> QED BY <2>1 DEF ShapeRight
<1>3. buf' \in Records
  BY OtherCallsBasic DEF IInv, Basic, TypeOK, Records
<1>4. \A m : \A k \in Key : Reads(buf, Rest, k, m) => hgetc(buf', k) = m
  BY <1>1, <1>2, <1>3, Reading
<1>5. \A k \in Key \ {op.key} : hgetc(buf', k) = Base.map[k]
  BY <1>1, <1>4 DEF OthersRight
<1>6. op.key \in Key => hgetc(buf', op.key) = Absent
  BY <1>1, <1>4
<1>7. LinesOf(buf') = Cardinality(Comments(buf, Rest)) /\ LinesOf(buf') \in Nat
  BY <1>1, <1>2, <1>3, LinesCounted, LinesType
<1>8. Base.map = [k \in Key |-> Base.map[k]] /\ Base.lines \in Nat
  BY BaseMap
<1>9. CASE op.key = "COMMENT"
  <2>1. LinesOf(buf') + 1 = Base.lines
    BY <1>1, <1>7, <1>9 DEF Counted
  <2>2. LinesOf(buf') = Base.lines - 1
    BY <1>7, <1>8, <2>1
  <2>3. \A k \in Key : hgetc(buf', k) = Base.map[k]
    BY <1>5, <1>9
  <2>4. MapOf(buf') = Base.map
    BY <1>8, <2>3, MapIs
  <2> QED BY <1>9, <2>2, <2>4 DEF Done
<1>10. CASE op.key \in Key
  <2>1. LinesOf(buf') = Base.lines
    BY <1>1, <1>7, <1>10 DEF Counted
  <2>2. MapOf(buf') = [Base.map EXCEPT ![op.key] = Absent]
    BY <1>5, <1>6, <1>8, <1>10, MapIs
  <2> QED BY <1>1, <1>10, <2>1, <2>2 DEF Done
<1> QED BY <1>1, <1>9, <1>10

(* The map the users see changes by a step of the abstract map, or not.    *)
Same == UNCHANGED <<Shown.map, Shown.lines, Shown.known>>

LEMMA BaseOrEmpty ==
    ASSUME IInv, health = "good", pc # "idle"
    PROVE  \/ Base = before /\ before.known = TRUE
           \/ Base = NoView /\ op.name \in {"init", "clear"}
<1>1. before.known \in BOOLEAN
  BY DEF IInv, BeforeRight
<1>2. ~before.known => op.name \in {"init", "clear"}
  BY DEF IInv, BeforeRight
<1> QED BY <1>1, <1>2 DEF Base

LEMMA FromEmpty ==
    ASSUME IInv, health = "good", pc # "idle", op.name \in {"init", "clear"}, Base = NoView,
           NEW m, NEW n, Done(m, n) \/ Undone(m, n),
           Shown' = [known |-> TRUE, map |-> m, lines |-> n]
    PROVE  Map!Clear
<1>1. op.key = InstanceKey /\ op.val = InstanceVal /\ op.key \in Key /\ op.key # "COMMENT"
  BY Names, NamesReserved DEF IInv
<1>2. Base.map = NoMap /\ Base.lines = 0
  BY ViewIs
<1>3. Base.map[op.key] = Absent /\ NoMap = [k \in Key |-> Absent]
  BY <1>1, <1>2 DEF NoMap
<1>4. n = 0
  BY <1>1, <1>2 DEF Done, Undone
<1>5. \E e \in {Absent, [val |-> Empty, com |-> FALSE, there |-> TRUE], [val |-> InstanceVal, com |-> FALSE, there |-> TRUE]} :
          m = [NoMap EXCEPT ![InstanceKey] = e]
  <2>1. CASE m = Base.map
    <3>1. m = [NoMap EXCEPT ![InstanceKey] = Absent]
      BY <1>1, <1>2, <1>3, <2>1
    <3> QED BY <3>1
  <2>2. CASE Undone(m, n)
    BY <1>1, <1>2, <2>2 DEF Undone
  <2>3. CASE Done(m, n) /\ m # Base.map
    <3>1. m = [Base.map EXCEPT ![op.key] = [val |-> op.val, com |-> Base.map[op.key].com, there |-> TRUE]]
      BY <1>1, <2>3 DEF Done
    <3>2. Base.map[op.key].com = FALSE
      BY <1>3, AbsentIs
    <3>3. m = [NoMap EXCEPT ![InstanceKey] = [val |-> InstanceVal, com |-> FALSE, there |-> TRUE]]
      BY <1>1, <1>2, <3>1, <3>2
    <3> QED BY <3>3
  <2> QED BY <2>1, <2>2, <2>3
<1>6. Shown'.known = TRUE /\ Shown'.map = m /\ Shown'.lines = n
  OBVIOUS
<1> QED BY <1>4, <1>5, <1>6 DEF Map!Clear, Map!NoMap, Map!Absent, Map!Entry, NoMap, Absent

LEMMA DoneStep ==
    ASSUME IInv, health = "good", pc # "idle", NEW m, NEW n, Done(m, n),
           Shown' = [known |-> TRUE, map |-> m, lines |-> n]
    PROVE  Map!Complete \/ Same
<1>1. Shown = before
  BY DEF Shown
<1>2. CASE Base = NoView /\ op.name \in {"init", "clear"}
  BY <1>2, FromEmpty DEF Map!Complete
<1>3. CASE Base = before /\ before.known = TRUE
  <2>1. /\ Shown.known = TRUE /\ Shown.map = Base.map /\ Shown.lines = Base.lines
        /\ Shown'.known = TRUE /\ Shown'.map = m /\ Shown'.lines = n
    BY <1>1, <1>3
  <2> DEFINE base == Base.map[op.key]
  <2>2. CASE m = Base.map /\ n = Base.lines
    BY <2>1, <2>2 DEF Same
  <2>3. CASE op.key = "COMMENT" /\ m = Base.map /\ n \in {Base.lines + 1, Base.lines - 1}
    BY <2>1, <2>3 DEF Map!Complete, Map!Lines
  <2>4. ASSUME NEW e, m = [Base.map EXCEPT ![op.key] = e], n = Base.lines PROVE Map!Set(op.key, e)
    BY <2>1, <2>4 DEF Map!Set
  <2>5. CASE /\ op.key \in Key /\ n = Base.lines /\ op.val \in Val /\ ~(base.com /\ op.val \in Long)
             /\ m = [Base.map EXCEPT ![op.key] = [val |-> op.val, com |-> base.com, there |-> TRUE]]
    <3>1. Map!Set(op.key, [val |-> op.val, com |-> base.com, there |-> TRUE])
      BY <2>4, <2>5
    <3>2. Map!Put(op.key, op.val)
      BY <2>1, <2>5, <3>1 DEF Map!Put, Map!Entry
    <3> QED BY <2>5, <3>2 DEF Map!Complete
  <2>6. CASE /\ op.key \in Key /\ n = Base.lines /\ base.there
             /\ m = [Base.map EXCEPT ![op.key] = [val |-> base.val, com |-> TRUE, there |-> TRUE]]
    <3>1. Map!Set(op.key, [val |-> base.val, com |-> TRUE, there |-> TRUE])
      BY <2>4, <2>6
    <3>2. Map!Comment(op.key)
      BY <2>1, <2>6, <3>1 DEF Map!Comment, Map!Entry
    <3> QED BY <2>6, <3>2 DEF Map!Complete
  <2>7. CASE op.key \in Key /\ n = Base.lines /\ m = [Base.map EXCEPT ![op.key] = Absent]
    <3>1. Map!Set(op.key, Absent)
      BY <2>4, <2>7
    <3>2. Map!Delete(op.key)
      BY <3>1 DEF Map!Delete, Map!Absent, Absent
    <3> QED BY <2>7, <3>2 DEF Map!Complete
  <2>8. CASE /\ op.key \in Key /\ n = Base.lines /\ base = Absent
             /\ m = [Base.map EXCEPT ![op.key] = [val |-> Empty, com |-> FALSE, there |-> TRUE]]
    <3>1. Map!Set(op.key, [val |-> Empty, com |-> FALSE, there |-> TRUE])
      BY <2>4, <2>8
    <3>2. base.there = FALSE
      BY <2>8, AbsentIs
    <3>3. Map!Add(op.key)
      BY <2>1, <3>1, <3>2 DEF Map!Add, Map!Entry
    <3> QED BY <2>8, <3>3 DEF Map!Complete
  <2>9. CASE /\ op.key \in Key /\ n = Base.lines /\ op.val \in Key /\ base.there /\ Base.map[op.val] = Absent
             /\ m = [k \in Key |-> IF k = op.key THEN Absent ELSE IF k = op.val THEN base ELSE Base.map[k]]
    <3>1. Base.map[op.val].there = FALSE
      BY <2>9, AbsentIs
    <3>2. m = [Base.map EXCEPT ![op.val] = Base.map[op.key], ![op.key] = Absent]
      <4> DEFINE f == Base.map
      <4>1. f = [k \in Key |-> f[k]]
        BY BaseMap
      <4>2. op.key \in Key /\ op.val \in Key
            /\ m = [k \in Key |-> IF k = op.key THEN Absent ELSE IF k = op.val THEN f[op.key] ELSE f[k]]
        BY <2>9
      <4> HIDE DEF f
      <4>3. m = [f EXCEPT ![op.val] = f[op.key], ![op.key] = Absent]
        BY <4>1, <4>2
      <4> QED BY <4>3 DEF f
    <3>3. Map!Change(op.key, op.val)
      BY <2>1, <2>9, <3>1, <3>2 DEF Map!Change, Map!Absent, Absent
    <3> QED BY <2>9, <3>3 DEF Map!Complete
  <2> QED BY <2>2, <2>3, <2>5, <2>6, <2>7, <2>8, <2>9 DEF Done
<1> QED BY <1>2, <1>3, BaseOrEmpty

LEMMA UndoneStep ==
    ASSUME IInv, health = "good", pc # "idle", NEW m, NEW n, Undone(m, n),
           Shown' = [known |-> TRUE, map |-> m, lines |-> n]
    PROVE  Map!Complete \/ \E k \in Key : Map!Unfinished(k)
<1>1. Shown = before
  BY DEF Shown
<1>2. CASE Base = NoView /\ op.name \in {"init", "clear"}
  BY <1>2, FromEmpty DEF Map!Complete
<1>3. CASE Base = before /\ before.known = TRUE
  <2>1. /\ Shown.known = TRUE /\ Shown.map = Base.map /\ Shown.lines = Base.lines
        /\ Shown'.known = TRUE /\ Shown'.map = m /\ Shown'.lines = n
    BY <1>1, <1>3
  <2>2. PICK e \in {Absent} \cup {[val |-> v, com |-> FALSE, there |-> TRUE] : v \in {Empty, op.val}} :
             m = [Base.map EXCEPT ![op.key] = e]
    BY DEF Undone
  <2>3. Map!Set(op.key, e)
    BY <2>1, <2>2 DEF Map!Set, Undone
  <2>4. e \in {Map!Absent, Map!Entry(Empty, FALSE)} \cup {Map!Entry(v, FALSE) : v \in Val}
    BY <2>2 DEF Map!Absent, Map!Entry, Absent, Undone
  <2>5. Map!Unfinished(op.key) /\ op.key \in Key
    BY <2>3, <2>4 DEF Map!Unfinished, Undone
  <2> QED BY <2>5
<1> QED BY <1>2, <1>3, BaseOrEmpty

LEMMA Lost ==
    ASSUME pc' = "idle", health' # "good"
    PROVE  Map!Lose
<1>1. Shown' = View(buf', health')
  BY DEF Shown
<1>2. Shown' = [known |-> FALSE, map |-> NoMap, lines |-> 0]
  BY <1>1, ViewIs
<1>3. Shown'.known = FALSE /\ Shown'.map = NoMap /\ Shown'.lines = 0
  BY <1>2
<1> QED BY <1>3 DEF Map!Lose, Map!NoMap, Map!Absent, NoMap, Absent

LEMMA ShownEnd ==
    ASSUME pc' = "idle", health' = "good"
    PROVE  Shown' = [known |-> TRUE, map |-> MapOf(buf'), lines |-> LinesOf(buf')]
<1>1. Shown' = View(buf', health')
  BY DEF Shown
<1> QED BY <1>1, ViewIs

LEMMA UnlockStep ==
    ASSUME IInv, Unlock
    PROVE  Map!Use \/ (Same /\ lock # "dead" /\ lock' # "dead")
<1>1. pc = "unlock" /\ pc' = "idle" /\ UNCHANGED <<buf, health>> /\ lock = "held" /\ lock' = "free"
  BY DEF Unlock, Idle, Goto, marks, IInv, TypeOK
<1>2. Map!Complete \/ Same
  <2>1. CASE health # "good"
    BY <1>1, <2>1, Lost DEF Map!Complete
  <2>2. CASE health = "good"
    <3>1. Shown' = [known |-> TRUE, map |-> MapOf(buf), lines |-> LinesOf(buf)]
      BY <1>1, <2>2, ShownEnd
    <3> QED BY <1>1, <2>2, <3>1, UnlockDone, DoneStep
  <2> QED BY <2>1, <2>2
<1> QED BY <1>1, <1>2 DEF Map!Use

(* How a caller dies.                                                      *)
LEMMA Deaths ==
    ASSUME IInv, NEW h, Dead(h), pc # "idle",
           h = "good" => \/ UNCHANGED buf /\ (pc \in {"up", "down"} => pc = "down" /\ at = N)
                         \/ Terminate,
           h = "good" => health = "good"
    PROVE  Map!Die
<1>1. pc' = "idle" /\ health' = h /\ lock = "held" /\ lock' = "dead"
  BY DEF Dead, Idle, Goto, IInv, TypeOK
<1>2. Map!Complete \/ (\E k \in Key : Map!Unfinished(k)) \/ Same
  <2>1. CASE h # "good"
    BY <1>1, <2>1, Lost DEF Map!Complete
  <2>2. CASE h = "good"
    <3>1. Shown' = [known |-> TRUE, map |-> MapOf(buf'), lines |-> LinesOf(buf')]
      BY <1>1, <2>2, ShownEnd
    <3>2. Done(MapOf(buf'), LinesOf(buf')) \/ Undone(MapOf(buf'), LinesOf(buf'))
      <4>1. CASE Terminate
        BY <1>1, <2>2, <4>1, TerminateDone
      <4>2. CASE ~Terminate
        <5>1. buf' = buf /\ pc # "up" /\ (pc = "down" => at = N)
          BY <2>2, <4>2
        <5> QED BY <2>2, <5>1, UnlockDone, BusyDone
      <4> QED BY <4>1, <4>2
    <3> QED BY <2>2, <3>1, <3>2, DoneStep, UndoneStep
  <2> QED BY <2>1, <2>2
<1> QED BY <1>1, <1>2 DEF Map!Die, Same

LEMMA DeadStep ==
    ASSUME IInv, [Next]_vars, lock # "dead", lock' = "dead"
    PROVE  Map!Die
<1>1. CASE Die /\ (Place \/ SetComment \/ FindDeleted)
  <2>1. pc \in {"hputc", "hputcom", "hdel"} /\ Dead(health) /\ UNCHANGED buf
    BY <1>1 DEF Place, SetComment, FindDeleted, Die
  <2> QED BY <2>1, Deaths
<1>2. CASE MoveEndOut
  <2>1. pc = "moveend" /\ Dead(health) /\ UNCHANGED buf
    BY <1>2 DEF MoveEndOut, call
  <2> QED BY <2>1, Deaths
<1>3. CASE KeepCommentOut \/ SetCommentOut
  <2>1. pc \in {"comment", "hputcom"} /\ Dead("endless")
    BY <1>3 DEF KeepCommentOut, SetCommentOut, RunOut
  <2> QED BY <2>1, Deaths
<1>4. CASE Terminate
  <2>1. pc = "up" /\ Dead(health)
    BY <1>4 DEF Terminate, call
  <2> QED BY <1>4, <2>1, Deaths
<1>5. CASE ShiftDownOut
  <2>1. pc = "down" /\ at = N /\ Dead(health) /\ UNCHANGED buf
    BY <1>5 DEF ShiftDownOut, call
  <2> QED BY <2>1, Deaths
<1>6. CASE Kill
  <2>1. lock = "held" /\ UNCHANGED buf
        /\ Dead(IF pc \in {"up", "down"} /\ health = "good" THEN "doubled" ELSE health)
    BY <1>6 DEF Kill
  <2>2. pc # "idle"
    BY <2>1 DEF IInv, TypeOK
  <2>3. CASE pc \in {"up", "down"} /\ health = "good"
    BY <2>1, <2>2, <2>3, Deaths
  <2>4. CASE ~(pc \in {"up", "down"} /\ health = "good")
    BY <2>1, <2>2, <2>4, Deaths
  <2> QED BY <2>3, <2>4
<1>7. ~(Put \/ PutComment \/ Delete \/ Add \/ Change \/ Clear \/ Attach)
  BY DEF Put, PutComment, Delete, Add, Change, Clear, Attach, Lock
<1>8. ~(MoveEnd \/ PutKey \/ PutValue \/ KeepComment \/ ShiftUp \/ FindAdded \/ ShiftDown \/ AddKey \/ ChangeKey)
  BY DEF MoveEnd, PutKey, PutValue, KeepComment, ShiftUp, FindAdded, ShiftDown, AddKey, ChangeKey, Write, call
<1>9. ~Fill /\ ~(~Die /\ (Place \/ SetComment \/ FindDeleted))
  BY DEF Fill, Write, Place, SetComment, FindDeleted, call
<1>10. ~(CheckInit \/ Zero \/ NewEnd \/ Unlock \/ ForceUnlock \/ UNCHANGED vars)
  BY DEF CheckInit, Zero, NewEnd, Unlock, ForceUnlock, vars, call
<1> QED BY <1>1, <1>2, <1>3, <1>4, <1>5, <1>6, <1>7, <1>8, <1>9, <1>10 DEF Next

(* In the middle of a call, users are shown what was before it.            *)
LEMMA BetweenSteps ==
    ASSUME IInv, IInv', [Next]_vars, ~(lock # "dead" /\ lock' = "dead"), ~Unlock, ~ForceUnlock
    PROVE  Same /\ (lock' = "dead" <=> lock = "dead")
<1>1. CASE Put \/ PutComment \/ Delete \/ Add \/ Change \/ Clear \/ Attach
  <2>1. PICK c, l : Lock(c, l)
    BY <1>1 DEF Put, PutComment, Delete, Add, Change, Clear, Attach
  <2>2. pc = "idle" /\ pc' # "idle" /\ before' = View(buf, health) /\ lock = "free" /\ lock' = "held"
    BY <2>1 DEF Lock, IInv, TypeOK
  <2>3. Shown' = Shown
    BY <2>2 DEF Shown
  <2> QED BY <2>2, <2>3 DEF Same
<1>2. CASE UNCHANGED <<lock, before>> /\ pc # "idle"
  <2>1. pc' # "idle"
    BY <1>2 DEF IInv, TypeOK
  <2>2. Shown' = Shown
    BY <1>2, <2>1 DEF Shown
  <2> QED BY <1>2, <2>2 DEF Same
<1>3. CASE UNCHANGED vars
  <2>1. Shown' = Shown /\ lock' = lock
    BY <1>3 DEF vars, call, marks, Shown, View, MapOf, LinesOf
  <2> QED BY <2>1 DEF Same
<1>4. ASSUME MoveEnd \/ Fill \/ PutKey \/ PutValue \/ KeepComment \/ ShiftUp \/ FindAdded \/ ShiftDown \/ AddKey \/ ChangeKey
      PROVE  UNCHANGED <<lock, before>> /\ pc # "idle"
  BY <1>4 DEF MoveEnd, Fill, PutKey, PutValue, KeepComment, ShiftUp, FindAdded, ShiftDown, AddKey, ChangeKey, Write, call
<1>5. ASSUME CheckInit \/ Zero \/ NewEnd
      PROVE  UNCHANGED <<lock, before>> /\ pc # "idle"
  BY <1>5 DEF CheckInit, Zero, NewEnd, call
<1>6. ASSUME ~Dead(health), ~Dead("endless"),
             Place \/ SetComment \/ FindDeleted \/ MoveEndOut \/ KeepCommentOut \/ SetCommentOut \/ Terminate \/ ShiftDownOut
      PROVE  UNCHANGED <<lock, before>> /\ pc # "idle"
  BY <1>6 DEF Place, SetComment, FindDeleted, MoveEndOut, KeepCommentOut, SetCommentOut, RunOut, Terminate, ShiftDownOut, Die, call
<1>7. ASSUME NEW h, Dead(h), pc # "idle" PROVE FALSE
  <2>1. lock = "held" /\ lock' = "dead"
    BY <1>7 DEF Dead, IInv, TypeOK
  <2> QED BY <2>1
<1>8. ASSUME Place \/ SetComment \/ FindDeleted \/ MoveEndOut \/ KeepCommentOut \/ SetCommentOut \/ Terminate \/ ShiftDownOut
      PROVE  pc # "idle"
  BY <1>8 DEF Place, SetComment, FindDeleted, MoveEndOut, KeepCommentOut, SetCommentOut, RunOut, Terminate, ShiftDownOut
<1>9. ~Kill
  <2> SUFFICES ASSUME Kill PROVE FALSE
    OBVIOUS
  <2>1. pc # "idle" /\ \E h : Dead(h)
    BY DEF Kill, IInv, TypeOK
  <2> QED BY <1>7, <2>1
<1> QED BY <1>1, <1>2, <1>3, <1>4, <1>5, <1>6, <1>7, <1>8, <1>9 DEF Next

(* The records implement the map of StatusMap: what a call does appears at *)
(* once when the lock is released; a caller that dies leaves nothing, all, *)
(* or an entry it had begun, and nothing is promised of the others only if *)
(* it died in a shift, in a clear, or wrote behind the segment.            *)
THEOREM Refinement == Spec => IsMap
<1> DEFINE shown == <<Shown.map, Shown.lines, Shown.known, lock = "dead">>
<1>1. Init => Map!Init
  <2> SUFFICES ASSUME Init PROVE Map!Init
    OBVIOUS
  <2>1. Shown = NoView
    BY ViewIs DEF Init, Shown
  <2>2. Shown.known = FALSE /\ Shown.map = NoMap /\ Shown.lines = 0 /\ lock # "dead"
    BY <2>1, ViewIs DEF Init
  <2> QED BY <2>2 DEF Map!Init, Map!NoMap, Map!Absent, NoMap, Absent
<1>2. IInv /\ IInv' /\ [Next]_vars => [Map!Next]_shown
  <2> SUFFICES ASSUME IInv, IInv', [Next]_vars PROVE Map!Next \/ shown' = shown
    OBVIOUS
  <2>1. CASE lock # "dead" /\ lock' = "dead"
    BY <2>1, DeadStep DEF Map!Next
  <2>2. CASE Unlock
    <3>1. CASE Map!Use
      BY <3>1 DEF Map!Next
    <3>2. CASE ~Map!Use
      BY <2>2, <3>2, UnlockStep DEF Same
    <3> QED BY <3>1, <3>2
  <2>3. CASE ForceUnlock
    <3>1. pc = "idle" /\ pc' = pc /\ UNCHANGED <<buf, health>> /\ lock = "dead" /\ lock' = "free"
      BY <2>3 DEF ForceUnlock, marks, IInv, TypeOK
    <3>2. Shown' = Shown
      BY <3>1 DEF Shown, View, MapOf, LinesOf
    <3> QED BY <3>1, <3>2 DEF Map!Replace, Map!Next
  <2>4. CASE ~(lock # "dead" /\ lock' = "dead") /\ ~Unlock /\ ~ForceUnlock
    BY <2>4, BetweenSteps DEF Same
  <2> QED BY <2>1, <2>2, <2>3, <2>4
<1> QED BY <1>1, <1>2, Invariance, PTL DEF Spec, IsMap, Map!Spec, Map!vars
=============================================================================
