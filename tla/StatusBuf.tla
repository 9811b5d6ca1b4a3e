----------------------------- MODULE StatusBuf ------------------------------
(***************************************************************************)
(* The records of the status buffer (hput.c, hget.c, hashpipe_status.c):   *)
(* N records of 80 bytes in a shared segment, a keyword and a value each,  *)
(* the last one END.  Library calls work on it under the lock, one record  *)
(* after the other; the caller may be killed between any two writes, and   *)
(* the lock then stays held until hashpipe_clean_shmem replaces it.        *)
(*                                                                         *)
(* A keyword stands for all spellings that the search takes for the same   *)
(* (any case, whatever comes after 8 characters).  Comments have some text, *)
(* which does not look like a record where it runs over.  Values of 63     *)
(* characters, which leave a comment its separator and no text, are left   *)
(* out.  Who holds the lock does not matter to the records: StatusLock is  *)
(* about that.                                                             *)
(***************************************************************************)
EXTENDS Naturals, FiniteSets

CONSTANTS N,             \* records in the segment
          Key,           \* keywords
          EndLike,       \* those that begin with "END"
          Val,           \* values
          Long,          \* the values of 64 characters and more
          MaxClean       \* bound: hashpipe_clean_shmem is run so often

InstanceKey == "INSTANCE"
InstanceVal == "1"
Empty == ""

ASSUME StatusBufAssumption ==
    /\ N \in Nat \ {0}
    /\ InstanceKey \in Key /\ InstanceVal \in Val \ Long
    /\ Long \subseteq Val /\ Empty \notin Val
    /\ EndLike \subseteq Key \ {InstanceKey}
    /\ MaxClean \in Nat
    /\ Key \cap {"COMMENT", "END", "blank", "nul"} = {}

VARIABLES buf,        \* buf[i]: the record at 80 * (i - 1)
          lock,       \* "free", "held", or "dead": held by a process that died
          attached,   \* some process has attached
          pc,         \* where the holder of the lock is
          op,         \* what it was called for
          at, stop,   \* the record it is at, and where it stops
          com,        \* the comment it carries over
          before,     \* history: the contents when the lock was taken
          health,     \* history: what died or overran in the buffer
          overrun,    \* history: something was written behind the segment
          cleaned     \* how often the lock was replaced

call == <<lock, op, before, attached, cleaned>>
cursor == <<at, stop, com>>
marks == <<health, overrun>>
vars == <<buf, pc, call, cursor, marks>>

-----------------------------------------------------------------------------
(* Records                                                                 *)
Line(k, v, c) == [key |-> k, val |-> v, com |-> c]
EndLine == Line("END", Empty, FALSE)
BlankLine == Line("blank", Empty, FALSE)
NulLine == Line("nul", Empty, FALSE)        \* starts with a zero byte

LineSet == [key : Key \cup {"COMMENT", "END", "blank", "nul"}, val : Val \cup {Empty}, com : BOOLEAN]

First(S) == IF S = {} THEN 0 ELSE CHOOSE i \in S : \A j \in S : i <= j

(* The search sees a zero-terminated string.  If there is no zero byte in  *)
(* the segment, as when END has its last record, the search for one reads  *)
(* on behind it: the process gets a SIGSEGV, which is a Kill, or finds     *)
(* something mapped there, which is taken to hold no keyword.              *)
Visible(b) == {i \in 1..N : \A j \in 1..i : b[j].key # "nul"}

(* First record with keyword k, or 0.                                      *)
ksearch(b, k) == First({i \in Visible(b) : b[i].key = k})

(* First of the blank records right before END, or 0.                      *)
blsearch(b) ==
    First({i \in 1..N : i < ksearch(b, "END") /\
             \A j \in i..(ksearch(b, "END") - 1) : b[j].key = "blank"})

(* hashpipe_find_end() looks through the whole segment, zeros or not, and  *)
(* at the first three characters only.                                     *)
hashpipe_find_end(b) == \E i \in 1..N : b[i].key \in {"END"} \cup EndLike

(* What a user of the library sees.                                        *)
Absent == [val |-> Empty, com |-> FALSE, there |-> FALSE]
hgetc(b, k) ==
    IF ksearch(b, k) = 0 THEN Absent
    ELSE [val |-> b[ksearch(b, k)].val, com |-> b[ksearch(b, k)].com, there |-> TRUE]
MapOf(b) == [k \in Key |-> hgetc(b, k)]
LinesOf(b) == Cardinality({i \in Visible(b) : b[i].key = "COMMENT"})
NoMap == [k \in Key |-> Absent]

View(b, h) ==
    [known |-> h = "good",
     map   |-> IF h = "good" THEN MapOf(b) ELSE NoMap,
     lines |-> IF h = "good" THEN LinesOf(b) ELSE 0]

-----------------------------------------------------------------------------
(* Calls.  Numbers are formatted and stored like the text of the value.    *)
Call(n, k, v) == [name |-> n, key |-> k, val |-> v]
hputs == {Call("put", k, v) : k \in Key, v \in Val} \cup {Call("put", "COMMENT", v) : v \in Val \ Long}
hputNumber == {Call("put", k, v) : k \in Key, v \in Val \ Long}
hputcom == {Call("com", k, Empty) : k \in Key \cup {"COMMENT"}}
hdel == {Call("del", k, Empty) : k \in Key \cup {"COMMENT"}}
hadd == {Call("add", k, Empty) : k \in Key}
hchange == {Call("change", k, l) : k \in Key, l \in Key}
hashpipe_status_clear == Call("clear", InstanceKey, InstanceVal)
hashpipe_status_chkinit == Call("init", InstanceKey, InstanceVal)

(* hadd() and hchange() leave it to the caller that keywords are unique.   *)
Usable(c) ==
    /\ c.name = "add" => ksearch(buf, c.key) = 0
    /\ c.name = "change" => ksearch(buf, c.val) = 0

NoCall == Call("none", Empty, Empty)

Init ==
    /\ buf = [i \in 1..N |-> NulLine]      \* a new segment is zero
    /\ lock = "free"
    /\ attached = FALSE
    /\ pc = "idle"
    /\ op = NoCall
    /\ at = 0 /\ stop = 0 /\ com = FALSE
    /\ before = View(buf, "endless")
    /\ health = "endless"
    /\ overrun = FALSE
    /\ cleaned = 0

Goto(l) == pc' = l
Store(i, r) == buf' = [buf EXCEPT ![i] = r]
Write(i, r, l) == Store(i, r) /\ Goto(l) /\ UNCHANGED <<call, cursor, marks>>

(* The caller gets the lock and calls the library.                         *)
Lock(c, l) ==
    /\ lock = "free"
    /\ Usable(c)
    /\ lock' = "held" /\ op' = c
    /\ before' = View(buf, health)
    /\ Goto(l)
    /\ UNCHANGED <<buf, attached, cleaned, cursor, marks>>

Put == attached /\ \E c \in hputs \cup hputNumber : Lock(c, "hputc")
PutComment == attached /\ \E c \in hputcom : Lock(c, "hputcom")
Delete == attached /\ \E c \in hdel : Lock(c, "hdel")
Add == attached /\ \E c \in hadd : Lock(c, "hadd")
Change == attached /\ \E c \in hchange : Lock(c, "hchange")
Clear == attached /\ Lock(hashpipe_status_clear, "zero")

(* hashpipe_status_attach() ends with hashpipe_status_chkinit().           *)
Attach == Lock(hashpipe_status_chkinit, "chkinit")

Idle ==
    /\ Goto("idle")
    /\ op' = NoCall /\ at' = 0 /\ stop' = 0 /\ com' = FALSE
    /\ before' = View([i \in 1..N |-> NulLine], "endless")

Unlock ==
    /\ pc = "unlock"
    /\ lock' = "free"
    /\ Idle
    /\ attached' = (attached \/ op.name = "init")
    /\ UNCHANGED <<buf, cleaned, marks>>

(* The holder dies; the lock stays as it is.                               *)
Dead(h) == lock' = "dead" /\ Idle /\ health' = h /\ UNCHANGED <<attached, cleaned>>

(* Searches need END: without it, the code goes on with a null pointer.    *)
Die == Dead(health) /\ UNCHANGED <<buf, overrun>>

-----------------------------------------------------------------------------
(* Mutant: the record is written where END is before END moves.            *)
PlaceEarly ==
    /\ pc = "hputc"
    /\ LET k == IF op.key = "COMMENT" THEN 0 ELSE ksearch(buf, op.key)
           e == ksearch(buf, "END")
       IN IF k # 0 \/ e # 0
          THEN /\ at' = IF k # 0 THEN k ELSE e
               /\ com' = (k # 0 /\ buf[k].com)
               /\ Goto("fill")
               /\ UNCHANGED <<buf, stop, call, marks>>
          ELSE Die

(* Mutant: the blank record is taken before the keyword is looked for.     *)
PlaceBlankFirst ==
    /\ pc = "hputc"
    /\ LET k == IF op.key = "COMMENT" THEN 0 ELSE ksearch(buf, op.key)
           b == blsearch(buf)
           e == ksearch(buf, "END")
       IN IF k # 0 \/ b # 0 \/ e # 0
          THEN /\ at' = IF b # 0 THEN b ELSE IF k # 0 THEN k ELSE e
               /\ com' = (b = 0 /\ k # 0 /\ buf[k].com)
               /\ Goto(IF k # 0 \/ b # 0 THEN "fill" ELSE "moveend")
               /\ UNCHANGED <<buf, stop, call, marks>>
          ELSE Die

(* hputc(): the record of the keyword, else a blank one before END, else   *)
(* END itself, which moves down first.                                     *)
Place ==
    /\ pc = "hputc"
    /\ LET k == IF op.key = "COMMENT" THEN 0 ELSE ksearch(buf, op.key)
           b == blsearch(buf)
           e == ksearch(buf, "END")
       IN IF k # 0 \/ b # 0 \/ e # 0
          THEN /\ at' = IF k # 0 THEN k ELSE IF b # 0 THEN b ELSE e
               /\ com' = (k # 0 /\ buf[k].com)
               /\ Goto(IF k # 0 \/ b # 0 THEN "fill" ELSE "moveend")
               /\ UNCHANGED <<buf, stop, call, marks>>
          ELSE Die

(* The length END is compared with is that of the string up to END: the    *)
(* test for a full buffer never fires.                                     *)
MoveEnd ==
    /\ pc = "moveend"
    /\ at < N
    /\ Write(at + 1, buf[at], "fill")

(* In the last record, END is copied behind the segment: the process gets  *)
(* a SIGSEGV, or goes on if something else is mapped there.                *)
MoveEndOut ==
    /\ pc = "moveend"
    /\ at = N
    /\ overrun' = TRUE
    /\ \/ Dead(health)
       \/ Goto("fill") /\ health' = "endless" /\ UNCHANGED <<call, cursor>>
    /\ UNCHANGED buf

Fill ==
    /\ pc = "fill"
    /\ IF op.key = "COMMENT" THEN Write(at, Line("COMMENT", Empty, FALSE), "value")
       ELSE Write(at, BlankLine, "key")

PutKey ==
    /\ pc = "key"
    /\ Write(at, Line(op.key, Empty, FALSE), "value")

(* Mutant: the comment is dropped.                                         *)
PutValueAlone ==
    /\ pc = "value"
    /\ Write(at, Line(op.key, op.val, FALSE), "unlock")

PutValue ==
    /\ pc = "value"
    /\ Write(at, Line(op.key, op.val, FALSE), IF com THEN "comment" ELSE "unlock")

KeepComment ==
    /\ pc = "comment"
    /\ op.val \notin Long
    /\ Write(at, Line(op.key, op.val, TRUE), "unlock")

(* There is no room for the comment of record k, its length becomes        *)
(* negative, and strncpy() fills the segment with zeros to its end and     *)
(* runs on until the process gets a SIGSEGV.                               *)
RunOut(k) ==
    /\ buf' = [i \in 1..N |-> IF i > k THEN NulLine
                              ELSE IF i = k THEN [buf[k] EXCEPT !.com = TRUE] ELSE buf[i]]
    /\ overrun' = TRUE
    /\ Dead("endless")

KeepCommentOut ==
    /\ pc = "comment"
    /\ op.val \in Long
    /\ RunOut(at)

-----------------------------------------------------------------------------
(* hputcom(): a COMMENT line goes before END, blank lines or not; another  *)
(* keyword gets the comment if it exists.  Behind a value of 64 characters *)
(* there is room for the separator alone, behind 66 or more not even that. *)
SetComment ==
    /\ pc = "hputcom"
    /\ LET k == ksearch(buf, IF op.key = "COMMENT" THEN "END" ELSE op.key)
       IN \/ op.key = "COMMENT" /\ k = 0 /\ Die
          \/ /\ op.key = "COMMENT" /\ k # 0
             /\ at' = k
             /\ Goto("moveend")
             /\ UNCHANGED <<buf, stop, com, call, marks>>
          \/ /\ op.key # "COMMENT"
             /\ \/ k # 0 /\ Store(k, [buf[k] EXCEPT !.com = TRUE])
                \/ (k # 0 => buf[k].val \in Long) /\ UNCHANGED buf
             /\ Goto("unlock")
             /\ UNCHANGED <<call, cursor, marks>>

(* Behind 65 characters the separator ends the record, the room left is -1,*)
(* and so is the length that strncpy() gets.                               *)
SetCommentOut ==
    /\ pc = "hputcom"
    /\ LET k == ksearch(buf, op.key)
       IN  op.key # "COMMENT" /\ k # 0 /\ buf[k].val \in Long /\ ~buf[k].com /\ RunOut(k)

(* Mutant: the deletion begins one record too late.                        *)
FindDeletedLate ==
    /\ pc = "hdel"
    /\ LET k == ksearch(buf, op.key)
           e == ksearch(buf, "END")
       IN IF k # 0 /\ e = 0 THEN Die
          ELSE /\ at' = (IF k + 1 < e THEN k + 1 ELSE k) /\ stop' = e
               /\ Goto(IF k = 0 THEN "unlock" ELSE "up")
               /\ UNCHANGED <<buf, com, call, marks>>

(* hdel(): the records behind, END included, move up one by one.           *)
FindDeleted ==
    /\ pc = "hdel"
    /\ LET k == ksearch(buf, op.key)
           e == ksearch(buf, "END")
       IN IF k # 0 /\ e = 0 THEN Die
          ELSE /\ at' = k /\ stop' = e
               /\ Goto(IF k = 0 THEN "unlock" ELSE "up")
               /\ UNCHANGED <<buf, com, call, marks>>

ShiftUp ==
    /\ pc = "up"
    /\ at < stop
    /\ Store(at, buf[at + 1])
    /\ at' = at + 1
    /\ UNCHANGED <<pc, stop, com, call, marks>>

(* ... and a zero byte ends the string behind the old END, which may be    *)
(* the first byte behind the segment.                                      *)
Terminate ==
    /\ pc = "up"
    /\ at >= stop
    /\ buf' = [i \in 1..N |-> IF i = stop + 1 THEN NulLine ELSE buf[i]]
    /\ overrun' = (overrun \/ stop = N)
    /\ \/ Goto("unlock") /\ UNCHANGED <<health, call, cursor>>
       \/ stop = N /\ Dead(health)

(* hadd() at any record up to END: the records from there, END first, move *)
(* down; the one at the place becomes the new keyword without a value.     *)
FindAdded ==
    /\ pc = "hadd"
    /\ LET e == ksearch(buf, "END")
       IN IF e = 0 THEN Goto("unlock") /\ UNCHANGED <<at, stop>>
          ELSE at' = e /\ stop' \in 1..e /\ Goto("down")
    /\ UNCHANGED <<buf, com, call, marks>>

ShiftDown ==
    /\ pc = "down"
    /\ at >= stop
    /\ at < N
    /\ Store(at + 1, buf[at])
    /\ at' = at - 1
    /\ UNCHANGED <<pc, stop, com, call, marks>>

ShiftDownOut ==
    /\ pc = "down"
    /\ at = N
    /\ overrun' = TRUE
    /\ \/ Dead(health)
       \/ /\ at' = at - 1 /\ health' = "endless"
          /\ UNCHANGED <<pc, stop, com, call>>
    /\ UNCHANGED buf

AddKey ==
    /\ pc = "down"
    /\ at < stop
    /\ Write(stop, Line(op.key, Empty, FALSE), "unlock")

(* hchange(): a new keyword for a record.                                  *)
ChangeKey ==
    /\ pc = "hchange"
    /\ LET k == ksearch(buf, op.key)
       IN buf' = [i \in 1..N |-> IF i = k THEN [buf[i] EXCEPT !.key = op.val] ELSE buf[i]]
    /\ Goto("unlock")
    /\ UNCHANGED <<call, cursor, marks>>

-----------------------------------------------------------------------------
(* hashpipe_status_chkinit(): start afresh if there is no END at all, and  *)
(* see that INSTANCE is right.                                             *)
CheckInit ==
    /\ pc = "chkinit"
    /\ Goto(IF ~hashpipe_find_end(buf) THEN "zero"
            ELSE IF hgetc(buf, InstanceKey).val = InstanceVal THEN "unlock" ELSE "hputc")
    /\ UNCHANGED <<buf, call, cursor, marks>>

(* memset(), ...                                                           *)
Zero ==
    /\ pc = "zero"
    /\ buf' = [i \in 1..N |-> NulLine]
    /\ health' = "endless"
    /\ Goto("newend")
    /\ UNCHANGED <<overrun, call, cursor>>

(* ... then END in the first record.                                       *)
NewEnd ==
    /\ pc = "newend"
    /\ Store(1, EndLine)
    /\ health' = "good"
    /\ Goto("hputc")
    /\ cleaned' = 0
    /\ UNCHANGED <<overrun, lock, op, before, attached, cursor>>

(* The holder is killed.  In the middle of a shift that leaves records     *)
(* twice.                                                                  *)
Kill ==
    /\ lock = "held"
    /\ Dead(IF pc \in {"up", "down"} /\ health = "good" THEN "doubled" ELSE health)
    /\ UNCHANGED <<buf, overrun>>

(* Mutant: the lock is replaced under a living holder.                     *)
ForceUnlockAnyway ==
    /\ lock # "free"
    /\ health = "good" \/ cleaned < MaxClean
    /\ lock' = "free"
    /\ cleaned' = IF health = "good" THEN cleaned ELSE cleaned + 1
    /\ UNCHANGED <<buf, attached, pc, op, before, cursor, marks>>

(* hashpipe_clean_shmem, run when the holder is dead and nobody else has   *)
(* the semaphore open, unlinks it; who attaches next, itself or another    *)
(* process, gets a new one.  Its own attach and clear are Attach and Clear.*)
ForceUnlock ==
    /\ lock = "dead"
    /\ health = "good" \/ cleaned < MaxClean
    /\ lock' = "free"
    /\ cleaned' = IF health = "good" THEN cleaned ELSE cleaned + 1
    /\ UNCHANGED <<buf, attached, pc, op, before, cursor, marks>>

Next ==
    \/ Put \/ PutComment \/ Delete \/ Add \/ Change \/ Clear \/ Attach
    \/ Place \/ MoveEnd \/ MoveEndOut \/ Fill \/ PutKey \/ PutValue
    \/ KeepComment \/ KeepCommentOut \/ SetComment \/ SetCommentOut
    \/ FindDeleted \/ ShiftUp \/ Terminate
    \/ FindAdded \/ ShiftDown \/ ShiftDownOut \/ AddKey \/ ChangeKey
    \/ CheckInit \/ Zero \/ NewEnd \/ Unlock \/ Kill \/ ForceUnlock

Spec == Init /\ [][Next]_vars

-----------------------------------------------------------------------------
TypeOK ==
    /\ buf \in [1..N -> LineSet]
    /\ lock \in {"free", "held", "dead"}
    /\ lock = "held" <=> pc # "idle"
    /\ attached \in BOOLEAN /\ com \in BOOLEAN /\ overrun \in BOOLEAN
    /\ at \in 0..N /\ stop \in 0..N
    /\ health \in {"good", "doubled", "endless"}

(* Whoever dies where: END is there for the next caller to find, unless    *)
(* the buffer was just being cleared, or was overrun.                      *)
EndKept == health # "endless" => ksearch(buf, "END") # 0

(* While a call works on a keyword, all others can be read as before, at   *)
(* any moment, and so they are when the caller dies.                       *)
OthersUntouched ==
    before.known /\ op.name \in {"put", "com", "del", "add", "change"} /\ health = "good" =>
        \A k \in Key \ {op.key, op.val} : hgetc(buf, k) = before.map[k]

(* No keyword has two records, of which a delete would leave the second,   *)
(* unless somebody died in the middle of a shift.                          *)
NamesUnique ==
    health = "good" /\ pc = "idle" =>
        \A i, j \in Visible(buf) : buf[i].key \in Key /\ buf[i].key = buf[j].key => i = j

(* The records are the map the users see: calls take effect as a whole     *)
(* when the lock is released, or are left unfinished by their death.       *)
Shown == IF pc = "idle" THEN View(buf, health) ELSE before
Map == INSTANCE StatusMap WITH
           map <- Shown.map, lines <- Shown.lines, known <- Shown.known, dead <- (lock = "dead")
IsMap == Map!Spec

(* "If header length is exceeded, return error code" (hput.c:540): nothing *)
(* is written behind the segment.                                          *)
StaysInside == ~overrun

-----------------------------------------------------------------------------
(* The parts of the inductive invariant.  Every call takes its own way, ...*)
PutSteps == {"hputc", "moveend", "fill", "key", "value", "comment", "unlock"}

CallRight ==
    \/ op = NoCall /\ pc = "idle"
    \/ op.name = "put" /\ op.key \in Key \cup {"COMMENT"} /\ op.val \in Val /\ pc \in PutSteps
    \/ op.name = "com" /\ op.key \in Key \cup {"COMMENT"} /\ op.val = Empty /\ pc \in {"hputcom", "unlock"}
    \/ op.name = "com" /\ op.key = "COMMENT" /\ op.val = Empty /\ pc \in {"moveend", "fill", "value"}
    \/ op.name = "del" /\ op.key \in Key \cup {"COMMENT"} /\ pc \in {"hdel", "up", "unlock"}
    \/ op.name = "add" /\ op.key \in Key /\ pc \in {"hadd", "down", "unlock"}
    \/ op.name = "change" /\ op.key \in Key /\ op.val \in Key /\ pc \in {"hchange", "unlock"}
    \/ op = hashpipe_status_chkinit /\ pc \in PutSteps \cup {"chkinit", "zero", "newend"}
    \/ op = hashpipe_status_clear /\ pc \in PutSteps \cup {"zero", "newend"}

CursorRight ==
    /\ pc \in {"moveend", "fill", "key", "value", "comment", "up"} => at > 0
    /\ pc = "down" => stop > 0 /\ at + 1 >= stop
    /\ pc \in {"key", "comment"} => op.key \in Key
    /\ pc = "comment" => com
    /\ com => op.key \in Key /\ pc \in {"fill", "key", "value", "comment", "unlock"}

(* ... the records in use come before END, and only ENDs and zeros after, ...*)
EndAt(b, e) ==
    /\ b[e].key = "END"
    /\ \A j \in 1..N : /\ j < e => b[j].key \notin {"END", "nul"}
                       /\ j > e => b[j].key \in {"END", "nul"}

Placed(e) ==
    /\ pc = "moveend" => at = e
    /\ pc = "fill" => at < e \/ (at = e /\ e < N /\ buf[e + 1].key = "END")
    /\ pc \in {"key", "value", "comment"} => at < e
    /\ pc = "up" => IF at < stop THEN e = stop ELSE at = stop /\ e = stop - 1
    /\ pc = "down" => /\ stop <= e
                      /\ \/ at = e
                         \/ at < e /\ at + 2 <= N /\ buf[at + 1] = buf[at + 2]

ShapeRight ==
    /\ health # "endless" => \E e \in 1..N : EndAt(buf, e) /\ Placed(e)
    /\ pc = "newend" => health = "endless" /\ buf = [i \in 1..N |-> NulLine]

(* ... a call works on one record, which is no loss to the others, ...     *)
Rest ==
    (1..N) \ IF pc \in {"fill", "key", "value", "comment", "up"} THEN {at}
             ELSE IF pc = "down" THEN {at + 1} ELSE {}

Alone(b, R) == \A i, j \in R : b[i].key \in Key /\ b[i].key = b[j].key => i = j

WorkRight ==
    /\ pc = "fill" => buf[at].key \in {"blank", "END"} \cup (Key \cap {op.key})
    /\ pc = "key" => buf[at] = BlankLine
    /\ pc = "value" => buf[at] = Line(op.key, Empty, FALSE)
    /\ pc = "comment" => buf[at] = Line(op.key, op.val, FALSE)
    /\ pc = "up" => buf[at].key = op.key \/ (at > 1 /\ buf[at] = buf[at - 1])
    /\ pc \in {"moveend", "fill", "key", "value", "comment", "up", "down"} /\ op.key \in Key =>
           \A i \in Rest : buf[i].key # op.key

(* ... and the other records say what they said before the call, or before *)
(* it cleared the buffer; the one of its keyword is as far as it should be.*)
Entry(r) == [val |-> r.val, com |-> r.com, there |-> TRUE]
Reads(b, R, k, m) ==
    \/ m = Absent /\ \A i \in R : b[i].key # k
    \/ \E i \in R : b[i].key = k /\ m = Entry(b[i])
Comments(b, R) == {i \in R : b[i].key = "COMMENT"}

NoView == View([i \in 1..N |-> NulLine], "endless")
Base == IF before.known /\ (op.name = "clear" => pc = "zero") THEN before ELSE NoView

BeforeRight ==
    /\ before.known \in BOOLEAN /\ before.map = [k \in Key |-> before.map[k]]
    /\ before.known => before.lines \in Nat
    /\ ~before.known => before = NoView
    /\ pc \in {"chkinit", "zero"} => (before.known <=> health = "good")
    /\ pc \in {"zero", "newend"} /\ op.name = "init" => ~before.known
    /\ health = "good" /\ pc # "idle" /\ ~before.known => op.name \in {"init", "clear"} /\ pc \in PutSteps

OthersRight ==
    \A k \in Key : Reads(buf, Rest, k, Base.map[k])
                   \/ k = op.key \/ (op.name = "change" /\ k = op.val)

Stored ==
    LET base == Base.map[op.key]
        reads(k, m) == Reads(buf, Rest, k, m)
    IN  /\ pc \in {"moveend", "hadd", "down"} => base = Absent
        /\ pc = "hchange" => Base.map[op.val] = Absent
        /\ pc = "fill" => base = IF buf[at].key = op.key THEN Entry(buf[at]) ELSE Absent
        /\ pc \in {"fill", "key", "value", "comment"} => com = base.com
        /\ pc \in {"hputc", "hputcom", "hdel", "hadd", "hchange", "chkinit", "zero"} =>
               reads(op.key, base) /\ (op.name = "change" => reads(op.val, Absent))
        /\ pc = "unlock" =>
               CASE op.name \in {"put", "init", "clear"} ->
                        /\ reads(op.key, [val |-> op.val, com |-> base.com, there |-> TRUE])
                        /\ ~(base.com /\ op.val \in Long)
                 [] op.name = "com" ->
                        \/ reads(op.key, base)
                        \/ base.there /\ reads(op.key, [val |-> base.val, com |-> TRUE, there |-> TRUE])
                 [] op.name = "del" -> reads(op.key, Absent)
                 [] op.name = "add" ->
                        base = Absent /\ reads(op.key, [val |-> Empty, com |-> FALSE, there |-> TRUE])
                 [] op.name = "change" ->
                        \/ reads(op.key, base) /\ reads(op.val, Base.map[op.val])
                        \/ /\ base.there /\ Base.map[op.val] = Absent
                           /\ reads(op.key, Absent) /\ reads(op.val, base)

Counted ==
    LET n == Cardinality(Comments(buf, Rest))
    IN  /\ pc # "unlock" /\ ~(pc = "up" /\ op.key = "COMMENT") => n = Base.lines
        /\ pc = "up" /\ op.key = "COMMENT" => n + 1 = Base.lines
        /\ pc = "unlock" => n = Base.lines \/ (op.key = "COMMENT" /\ Base.lines \in {n - 1, n + 1})

EffectRight ==
    health = "good" =>
        /\ Alone(buf, Rest) /\ WorkRight
        /\ pc # "idle" => OthersRight /\ (op.key \in Key => Stored) /\ Counted

IInv == TypeOK /\ CallRight /\ CursorRight /\ ShapeRight /\ BeforeRight /\ EffectRight
=============================================================================
