----------------------------- MODULE StatusMap ------------------------------
(***************************************************************************)
(* What the status buffer promises its users: a map from keywords to       *)
(* values, some with a comment, and a number of COMMENT and HISTORY lines. *)
(* A user that dies may leave the entry it was working on unfinished, or,  *)
(* in the middle of a delete or a clear, a buffer of which nothing is      *)
(* promised until it is cleared (known = FALSE).                           *)
(***************************************************************************)
EXTENDS Naturals

CONSTANTS Key, Val, Long, Empty, InstanceKey, InstanceVal

VARIABLES map, lines, known,
          dead        \* a user died with the lock, which is not replaced yet

vars == <<map, lines, known, dead>>

Absent == [val |-> Empty, com |-> FALSE, there |-> FALSE]
Entry(v, c) == [val |-> v, com |-> c, there |-> TRUE]
NoMap == [k \in Key |-> Absent]

Init == map = NoMap /\ lines = 0 /\ ~known /\ ~dead

Set(k, e) == known /\ map' = [map EXCEPT ![k] = e] /\ UNCHANGED <<lines, known>>

(* A new value keeps the comment.  A value of 64 characters together with  *)
(* a comment is not promised to work: its user may die and lose the map.   *)
Put(k, v) == ~(map[k].com /\ v \in Long) /\ Set(k, Entry(v, map[k].com))
Comment(k) == map[k].there /\ Set(k, Entry(map[k].val, TRUE))
Delete(k) == Set(k, Absent)
Add(k) == ~map[k].there /\ Set(k, Entry(Empty, FALSE))

Change(k, l) ==
    /\ known /\ map[k].there /\ ~map[l].there
    /\ map' = [map EXCEPT ![l] = map[k], ![k] = Absent]
    /\ UNCHANGED <<lines, known>>

Lines == known /\ lines' \in {lines + 1, lines - 1} /\ UNCHANGED <<map, known>>

(* Also what a user that dies after the clear itself leaves.               *)
Clear ==
    /\ known' = TRUE
    /\ lines' = 0
    /\ map' \in {[NoMap EXCEPT ![InstanceKey] = e] :
                   e \in {Absent, Entry(Empty, FALSE), Entry(InstanceVal, FALSE)}}

(* A user died while it stored k.                                          *)
Unfinished(k) == \E e \in {Absent, Entry(Empty, FALSE)} \cup {Entry(v, FALSE) : v \in Val} : Set(k, e)

Lose == known' = FALSE /\ map' = NoMap /\ lines' = 0

Complete ==
    \/ \E k \in Key : Comment(k) \/ Delete(k) \/ Add(k)
    \/ \E k \in Key, v \in Val : Put(k, v)
    \/ \E k, l \in Key : Change(k, l)
    \/ Lines \/ Clear \/ Lose

Use == ~dead /\ Complete /\ UNCHANGED dead

(* A user dies before, in the middle of, or right after what it does.      *)
Die ==
    /\ ~dead /\ dead'
    /\ Complete \/ (\E k \in Key : Unfinished(k)) \/ UNCHANGED <<map, lines, known>>

Replace == dead /\ ~dead' /\ UNCHANGED <<map, lines, known>>

Next == Use \/ Die \/ Replace

Spec == Init /\ [][Next]_vars
=============================================================================
