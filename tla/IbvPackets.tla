----------------------------- MODULE IbvPackets -----------------------------
(***************************************************************************)
(* Packets (hashpipe_ibv_recv_pkts(), _release_pkts(), _get_pkts() and     *)
(* _send_pkts(), hashpipe_ibverbs.c).  A packet is a work request in an    *)
(* array, of recv_pkt_num or send_pkt_num entries per queue pair, and      *)
(* lists of packets are linked by the requests' next pointers: those that  *)
(* recv_pkts() returns, those that get_pkts() returns, and the list of     *)
(* unused send packets.  One thread uses the context; the NIC (Arrive,     *)
(* Transmit) works meanwhile.                                              *)
(***************************************************************************)
EXTENDS IbvContext, SequencesExt, FiniteSetsExt

CONSTANTS recv_pkt_num, send_pkt_num, WC_BATCH_SIZE,
          MaxGotten      \* bound: lists a user gets before sending them

ASSUME IbvPacketsAssumption ==
    /\ recv_pkt_num \in Nat \ {0} /\ send_pkt_num \in Nat \ {0}
    /\ WC_BATCH_SIZE \in Nat \ {0} /\ MaxGotten \in Nat

NULL == -1
RecvPkt == 0 .. nqp * recv_pkt_num - 1
SendPkt == 0 .. nqp * send_pkt_num - 1

VARIABLES qstate,        \* the state of each queue pair
          rx,            \* receive: next; per queue pair rq (posted), cq (not
                         \* yet polled), armed (the next completion gives an
                         \* event); events to read; head and tail of the list
                         \* being made; user: the first packets of lists held
          tx,            \* send: next; head, the unused packets; per queue
                         \* pair sq (posted), cq (sent, not yet polled); user
          lpc, lqp, num_pkts,  \* where a call is, for which queue pair
          pkt_failed     \* history: a call for packets failed

callVars == <<lpc, lqp, num_pkts>>
packetVars == <<qstate, rx, tx, callVars, pkt_failed>>

(* From packet p on along the links, NULL after the last.                  *)
Along(next, p) ==
    LET at[n \in Nat] ==
          IF n = 0 THEN p ELSE IF at[n - 1] = NULL THEN NULL ELSE next[at[n - 1]]
    IN  at

(* The packets of a list, from the first to the one whose next is NULL.    *)
List(next, p) ==
    LET held == {n \in 0 .. Cardinality(DOMAIN next) - 1 : Along(next, p)[n] # NULL}
    IN  [k \in 1 .. Cardinality(held) |-> Along(next, p)[k - 1]]

(* The packets c linked one to the next.                                   *)
Linked(next, c) ==
    [p \in DOMAIN next |->
        IF \E i \in 1 .. Len(c) - 1 : c[i] = p
        THEN c[1 + CHOOSE i \in 1 .. Len(c) - 1 : c[i] = p] ELSE next[p]]

(* What init leaves: receive requests posted, send requests in one list.   *)
PerPair(x) == [q \in QP |-> x]
FreshRx ==
    [next |-> [p \in RecvPkt |-> IF (p + 1) % recv_pkt_num = 0 THEN NULL ELSE p + 1],
     rq |-> [q \in QP |-> [k \in 1 .. recv_pkt_num |-> q * recv_pkt_num + k - 1]],
     cq |-> PerPair(<< >>), armed |-> PerPair(TRUE), events |-> << >>,
     head |-> NULL, tail |-> NULL, user |-> {}]
FreshTx ==
    [next |-> [p \in SendPkt |-> IF p + 1 \in SendPkt THEN p + 1 ELSE NULL],
     head |-> 0, sq |-> PerPair(<< >>), cq |-> PerPair(<< >>), user |-> {}]

RxRecord ==
    [next : [RecvPkt -> RecvPkt \cup {NULL}], rq : [QP -> Seq(RecvPkt)], cq : [QP -> Seq(RecvPkt)],
     armed : [QP -> BOOLEAN], events : Seq(QP),
     head : RecvPkt \cup {NULL}, tail : RecvPkt \cup {NULL}, user : SUBSET RecvPkt]
TxRecord ==
    [next : [SendPkt -> SendPkt \cup {NULL}], head : SendPkt \cup {NULL},
     sq : [QP -> Seq(SendPkt)], cq : [QP -> Seq(SendPkt)], user : SUBSET SendPkt]

TypeOKPackets ==
    /\ qstate \in [QP -> {"INIT", "RTR", "RTS"}]
    /\ rx \in RxRecord /\ tx \in TxRecord
    /\ \A q \in QP : Len(tx.sq[q] \o tx.cq[q]) <= send_pkt_num
    /\ lpc \in {"idle", "poll", "rearm", "empty", "drain", "pop"}
    /\ lqp \in QP /\ num_pkts \in 0 .. send_pkt_num
    /\ pkt_failed \in BOOLEAN

InitPackets ==
    /\ qstate = PerPair("INIT") /\ rx = FreshRx /\ tx = FreshTx
    /\ lpc = "idle" /\ lqp = 0 /\ num_pkts = 0
    /\ pkt_failed = FALSE

Call(l, q) == lpc' = l /\ lqp' = q
Done == Call("idle", 0) /\ num_pkts' = 0
Fails == Fail /\ pkt_failed' = TRUE /\ UNCHANGED <<work, exists, field, history>>
Succeeds == UNCHANGED <<contextVars, pkt_failed>>

-----------------------------------------------------------------------------
(* The NIC.  A completion gives an event only if one was asked for.        *)
Arrive(q) ==
    /\ pc = "up" /\ qstate[q] # "INIT" /\ rx.rq[q] # << >>
    /\ rx' = [rx EXCEPT !.rq[q] = Tail(@), !.cq[q] = Append(@, Head(rx.rq[q])),
                        !.armed[q] = FALSE,
                        !.events = IF rx.armed[q] THEN Append(@, q) ELSE @]
    /\ UNCHANGED <<qstate, tx, callVars>> /\ Succeeds

Transmit(q) ==
    /\ pc = "up" /\ tx.sq[q] # << >>
    /\ tx' = [tx EXCEPT !.sq[q] = Tail(@), !.cq[q] = Append(@, Head(tx.sq[q]))]
    /\ UNCHANGED <<qstate, rx, callVars>> /\ Succeeds

(* Both kinds of calls first bring every queue pair to the state they need;*)
(* one that refuses leaves those before it there, itself on the way.       *)
Below(s) == IF s = "RTR" THEN {"INIT"} ELSE {"INIT", "RTR"}
Ready(s, Pairs) == [q \in QP |-> IF q \in Pairs /\ qstate[q] \in Below(s) THEN s ELSE qstate[q]]

NotReady(s) ==
    /\ pc = "up" /\ lpc = "idle"
    /\ \E q \in QP, t \in Below(s) :
          /\ qstate[q] \in Below(t) \cup {t}
          /\ qstate' = [Ready(s, 0 .. q - 1) EXCEPT ![q] = t]
    /\ Fails
    /\ UNCHANGED <<rx, tx, callVars>>

-----------------------------------------------------------------------------
(* hashpipe_ibv_recv_pkts()                                                *)
RecvPkts ==
    /\ pc = "up" /\ lpc = "idle"
    /\ qstate' = Ready("RTR", QP)
    /\ Call("poll", 0)
    /\ UNCHANGED <<rx, tx, num_pkts>> /\ Succeeds

(* poll() of the completion channel: nothing came in time.                 *)
Timeout ==
    /\ lpc = "poll" /\ rx.events = << >>
    /\ Done
    /\ UNCHANGED <<qstate, rx, tx>> /\ Succeeds

(* poll() or ibv_get_cq_event() fails.                                     *)
PollFails ==
    /\ lpc = "poll"
    /\ Done
    /\ UNCHANGED <<qstate, rx, tx>> /\ Fails

GetEvent ==
    /\ lpc = "poll" /\ rx.events # << >>
    /\ rx' = [rx EXCEPT !.events = Tail(@)]
    /\ Call("rearm", Head(rx.events))
    /\ UNCHANGED <<qstate, tx, num_pkts>> /\ Succeeds

(* ibv_req_notify_cq() comes before the queue is emptied.                  *)
Rearm ==
    /\ lpc = "rearm"
    /\ rx' = [rx EXCEPT !.armed[lqp] = TRUE]
    /\ Call("empty", lqp)
    /\ UNCHANGED <<qstate, tx, num_pkts>> /\ Succeeds

(* A failed request leaves the queue without events, full as it is.        *)
RearmFails ==
    /\ lpc = "rearm"
    /\ Done
    /\ UNCHANGED <<qstate, rx, tx>> /\ Fails

(* The work completions one call of ibv_poll_cq() takes.                   *)
Batch(cq) == SubSeq(cq, 1, Min({WC_BATCH_SIZE, Len(cq)}))
Rest(cq) == SubSeq(cq, Len(Batch(cq)) + 1, Len(cq))

(* Mutant: the list is returned after one batch.                           *)
EmptyOnce ==
    /\ lpc = "empty" /\ rx.cq[lqp] # << >>
    /\ LET b == Batch(rx.cq[lqp])
       IN rx' = [rx EXCEPT !.cq[lqp] = Rest(@),
                           !.next = [Linked(@, b) EXCEPT ![Last(b)] = NULL],
                           !.user = @ \cup {Head(b)}]
    /\ Done
    /\ UNCHANGED <<qstate, tx>> /\ Succeeds

Empty ==
    /\ lpc = "empty" /\ rx.cq[lqp] # << >>
    /\ LET b == Batch(rx.cq[lqp])
       IN rx' = [rx EXCEPT !.cq[lqp] = Rest(@),
                           !.next = Linked(@, (IF rx.head = NULL THEN << >> ELSE <<rx.tail>>) \o b),
                           !.head = IF @ = NULL THEN Head(b) ELSE @,
                           !.tail = Last(b)]
    /\ UNCHANGED <<qstate, tx, callVars>> /\ Succeeds

(* ibv_poll_cq() fails: what was taken before is in no list.               *)
EmptyFails ==
    /\ lpc = "empty"
    /\ rx' = [rx EXCEPT !.head = NULL, !.tail = NULL]
    /\ Done
    /\ UNCHANGED <<qstate, tx>> /\ Fails

Emptied ==
    /\ lpc = "empty" /\ rx.cq[lqp] = << >>
    /\ rx' = IF rx.head = NULL THEN rx
             ELSE [rx EXCEPT !.next[rx.tail] = NULL, !.user = @ \cup {rx.head},
                             !.head = NULL, !.tail = NULL]
    /\ Done
    /\ UNCHANGED <<qstate, tx>> /\ Succeeds

(* Mutant: released to the first queue pair.                               *)
ReleaseFirst ==
    /\ pc = "up" /\ lpc = "idle"
    /\ \E p \in rx.user : rx' = [rx EXCEPT !.rq[0] = @ \o List(rx.next, p), !.user = @ \ {p}]
    /\ UNCHANGED <<qstate, tx, callVars>> /\ Succeeds

(* hashpipe_ibv_release_pkts(): the list goes to its first packet's queue  *)
(* pair; of one that is refused halfway the rest is in no list.            *)
Release ==
    /\ pc = "up" /\ lpc = "idle"
    /\ \E p \in rx.user :
          rx' = [rx EXCEPT !.rq[p \div recv_pkt_num] = @ \o List(rx.next, p), !.user = @ \ {p}]
    /\ UNCHANGED <<qstate, tx, callVars>> /\ Succeeds

ReleaseFailsHalfway ==
    /\ pc = "up" /\ lpc = "idle"
    /\ \E p \in rx.user : \E n \in 0 .. Len(List(rx.next, p)) - 1 :
          rx' = [rx EXCEPT !.rq[p \div recv_pkt_num] = @ \o SubSeq(List(rx.next, p), 1, n),
                           !.user = @ \ {p}]
    /\ UNCHANGED <<qstate, tx, callVars>> /\ Fails

-----------------------------------------------------------------------------
(* Mutant: num_pkts is taken as it is.                                     *)
GetPktsUnclipped ==
    /\ pc = "up" /\ lpc = "idle" /\ Cardinality(tx.user) < MaxGotten
    /\ qstate' = Ready("RTS", QP)
    /\ Call("drain", 0) /\ num_pkts' \in 1 .. send_pkt_num + 1
    /\ UNCHANGED <<rx, tx>> /\ Succeeds

(* hashpipe_ibv_get_pkts(): num_pkts is at most send_pkt_num.              *)
GetPkts ==
    /\ pc = "up" /\ lpc = "idle" /\ Cardinality(tx.user) < MaxGotten
    /\ qstate' = Ready("RTS", QP)
    /\ Call("drain", 0) /\ num_pkts' \in 1 .. send_pkt_num
    /\ UNCHANGED <<rx, tx>> /\ Succeeds

(* What was sent is pushed on the list of unused packets, one by one.      *)
Drain ==
    /\ lpc = "drain" /\ tx.cq[lqp] # << >>
    /\ LET b == Batch(tx.cq[lqp])
       IN tx' = [tx EXCEPT !.cq[lqp] = Rest(@), !.head = Last(b),
                           !.next = [Linked(@, Reverse(b)) EXCEPT ![Head(b)] = tx.head]]
    /\ UNCHANGED <<qstate, rx, callVars>> /\ Succeeds

DrainFails ==
    /\ lpc = "drain"
    /\ Done
    /\ UNCHANGED <<qstate, rx, tx>> /\ Fails

Drained ==
    /\ lpc = "drain" /\ tx.cq[lqp] = << >>
    /\ IF lqp + 1 \in QP THEN Call("drain", lqp + 1) ELSE Call("pop", 0)
    /\ UNCHANGED <<qstate, rx, tx, num_pkts>> /\ Succeeds

(* pop_send_packets(): the last packet taken ends the user's list.         *)
Pop ==
    /\ lpc = "pop"
    /\ IF tx.head = NULL THEN UNCHANGED tx
       ELSE LET free == List(tx.next, tx.head)
                tail == free[Min({num_pkts, Len(free)})]
            IN tx' = [tx EXCEPT !.user = @ \cup {tx.head}, !.head = tx.next[tail],
                                !.next[tail] = NULL]
    /\ Done
    /\ UNCHANGED <<qstate, rx>> /\ Succeeds

(* hashpipe_ibv_send_pkts(): the list goes to any queue pair, each of      *)
(* which takes send_pkt_num packets that were not polled yet.              *)
Room(q) == send_pkt_num - Len(tx.sq[q] \o tx.cq[q])
Posted(p, q, n) ==
    tx' = [tx EXCEPT !.sq[q] = @ \o SubSeq(List(tx.next, p), 1, n), !.user = @ \ {p}]

SendPkts ==
    /\ pc = "up" /\ lpc = "idle"
    /\ \E p \in tx.user, q \in QP :
          /\ Len(List(tx.next, p)) <= Room(q)
          /\ Posted(p, q, Len(List(tx.next, p)))
    /\ UNCHANGED <<qstate, rx, callVars>> /\ Succeeds

(* A list that is refused halfway, for one reason or for want of room.     *)
SendFails ==
    /\ pc = "up" /\ lpc = "idle"
    /\ \E p \in tx.user, q \in QP :
          \/ \E n \in 0 .. Min({Room(q), Len(List(tx.next, p)) - 1}) : Posted(p, q, n) /\ Fail
          \/ Len(List(tx.next, p)) > Room(q) /\ Posted(p, q, Room(q)) /\ UNCHANGED failures
    /\ pkt_failed' = TRUE
    /\ UNCHANGED <<work, exists, field, history, qstate, rx, callVars>>

NextReceive ==
    \/ \E q \in QP : Arrive(q)
    \/ RecvPkts \/ Timeout \/ PollFails \/ GetEvent \/ Rearm \/ RearmFails
    \/ Empty \/ EmptyFails \/ Emptied \/ Release \/ ReleaseFailsHalfway
    \/ NotReady("RTR")

NextSend ==
    \/ \E q \in QP : Transmit(q)
    \/ GetPkts \/ Drain \/ DrainFails \/ Drained \/ Pop \/ SendPkts \/ SendFails
    \/ NotReady("RTS")

(* What init and shutdown do to packets: init posts and links them anew.   *)
ContextStepForPackets ==
    /\ lpc = "idle"
    /\ IF pc' \in {"init", "up"} THEN UNCHANGED packetVars
       ELSE /\ qstate' = PerPair("INIT") /\ rx' = FreshRx /\ tx' = FreshTx
            /\ pkt_failed' = FALSE /\ UNCHANGED callVars

-----------------------------------------------------------------------------
(* The list being made, whose tail still has an old next.                 *)
Making == IF rx.head = NULL THEN << >> ELSE List([rx.next EXCEPT ![rx.tail] = NULL], rx.head)
Unused == IF tx.head = NULL THEN << >> ELSE List(tx.next, tx.head)

(* Where packets are, and in which order: posted or completed at a queue   *)
(* pair, in a list of the user, or in one more list.                       *)
Places(posted, completed, user, next, more) ==
    [a \in ({"posted", "completed"} \X QP) \cup ({"user"} \X DOMAIN next) \cup {<<"more", 0>>} |->
        CASE a[1] = "posted" -> posted[a[2]]
          [] a[1] = "completed" -> completed[a[2]]
          [] a[1] = "user" -> IF a[2] \in user THEN List(next, a[2]) ELSE << >>
          [] a[1] = "more" -> more]
RxPlaces == Places(rx.rq, rx.cq, rx.user, rx.next, Making)
TxPlaces == Places(tx.sq, tx.cq, tx.user, tx.next, Unused)

Held(f) == UNION {{<<a, i, f[a][i]>> : i \in DOMAIN f[a]} : a \in DOMAIN f}
Apart(f) == \A x, y \in Held(f) : x[3] = y[3] => x = y
Filled(f, all) == all \subseteq {x[3] : x \in Held(f)}

OwnPair == \A q \in QP : \A p \in ToSet(rx.rq[q]) \cup ToSet(rx.cq[q]) : p \div recv_pkt_num = q

(* A packet is in one place: posted, completed, in a list of the user, in  *)
(* the one being made or in that of unused packets; a receive packet comes *)
(* back to its own queue pair; only a call that fails can lose one.        *)
OnePlace ==
    /\ Apart(RxPlaces) /\ Apart(TxPlaces)
    /\ ~pkt_failed => Filled(RxPlaces, RecvPkt) /\ Filled(TxPlaces, SendPkt)
    /\ OwnPair

(* Why: every list has an end and the packets its links say, and those of  *)
(* a received one are all of one queue pair.                               *)
Chained(next, s) ==
    \A i \in 1 .. Len(s) : next[s[i]] = IF i < Len(s) THEN s[i + 1] ELSE NULL
IsListOf(next, s, p) == s \in Seq(DOMAIN next) /\ s # << >> /\ s[1] = p /\ Chained(next, s)

RxRight ==
    /\ Apart(RxPlaces) /\ (~pkt_failed => Filled(RxPlaces, RecvPkt))
    /\ \A p \in rx.user : IsListOf(rx.next, List(rx.next, p), p)
    /\ rx.head # NULL =>
          /\ lpc = "empty" /\ rx.tail # NULL /\ Last(Making) = rx.tail
          /\ IsListOf([rx.next EXCEPT ![rx.tail] = NULL], Making, rx.head)
Home ==
    /\ OwnPair
    /\ \A p \in rx.user : \A r \in ToSet(List(rx.next, p)) : r \div recv_pkt_num = p \div recv_pkt_num
    /\ \A r \in ToSet(Making) : r \div recv_pkt_num = lqp
TxRight ==
    /\ Apart(TxPlaces) /\ (~pkt_failed => Filled(TxPlaces, SendPkt))
    /\ \A p \in tx.user : IsListOf(tx.next, List(tx.next, p), p)
    /\ tx.head # NULL => IsListOf(tx.next, Unused, tx.head)

PacketsRight ==
    /\ TypeOKPackets /\ RxRight /\ Home /\ TxRight
    /\ lpc \in {"drain", "pop"} => num_pkts # 0

(* What was received is returned to a user who keeps on calling, unless a  *)
(* call failed: no completion stays in a queue that will give no event.    *)
Received ==
    \A q \in QP : rx.cq[q] # << >> ~> rx.cq[q] = << >> \/ pkt_failed \/ pc # "up"

ReceiveFairness ==
    /\ WF_packetVars(RecvPkts) /\ WF_packetVars(Timeout \/ GetEvent)
    /\ WF_packetVars(Rearm) /\ WF_packetVars(Empty \/ Emptied)
=============================================================================
