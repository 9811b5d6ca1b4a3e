------------------------------- MODULE Pktsock -------------------------------
(***************************************************************************)
(* Packet sockets (hashpipe_pktsock.c): the kernel writes packets into a   *)
(* ring of frames that it shares with a plugin, one status word per frame  *)
(* saying whose it is.  The plugin looks at the next frame, or waits for   *)
(* it in poll(), and gives frames back in any order.                       *)
(*                                                                         *)
(* The kernel's side is external: packets get frames one after the other,  *)
(* and on several CPUs are filled in any order; poll() reports data if the *)
(* frame that was given to a packet last is not the kernel's.              *)
(*                                                                         *)
(* The header asks the plugin to give each frame back "once it is finished *)
(* with the frame", and the library looks at nothing but the status word:  *)
(* when the ring comes round to a frame that the plugin still has, it is   *)
(* handed out again, and released if its packet does not match.  From then *)
(* on the plugin's index is ahead of the kernel's, until the next open.    *)
(***************************************************************************)
EXTENDS Integers, Sequences, FiniteSets

CONSTANTS NFrames,     \* frames of the ring
          MaxPacket,   \* bound: packets that arrive
          MaxOpen      \* bound: calls of open
                       \* (and: no frame is handed out a third time while held)

ASSUME PktsockAssumption ==
    /\ NFrames \in Nat \ {0}
    /\ MaxPacket \in Nat /\ MaxOpen \in Nat

Frame == 0 .. NFrames - 1
Packet == 1 .. MaxPacket

VARIABLES sock,        \* how far the socket is: "none", ..., "mapped"
          leaked,      \* an open that failed left its descriptor open
          opens,       \* calls of open
          status,      \* tp_status of each frame: "kernel" or "user"
          packet,      \* the packet in each frame, 0: none yet
          filling,     \* frames given to a packet and not yet filled
          head,        \* the frame the next packet gets
          arrived,     \* packets so far
          packets, drops,     \* the kernel's counters
          next_idx,    \* the frame the plugin looks at next
          pc, call,    \* where the plugin is, and in which receive function
          frame,       \* the frame it has got
          held,        \* the frames it has
          again,       \* those of them that it got twice
          early,       \* history: packets counted before there was a ring
          lapped,      \* history: frames of this socket handed out while held
          got, last,   \* history: frames got from this socket, the last packet
          told,        \* history: packets less drops that stats reported
          null         \* history: why the last call returned NULL

ring == <<packet, filling, head>>
counters == <<arrived, packets, drops, early>>
kernel == <<status, ring, counters>>
received == <<got, last, told>>
hands == <<again, lapped>>
plugin == <<next_idx, pc, call, null, frame, held, hands>>
user == <<plugin, received>>
socket == <<sock, leaked, opens>>
vars == <<socket, kernel, user>>

Calls == [wait : BOOLEAN, udp : BOOLEAN]
NoCall == [wait |-> FALSE, udp |-> FALSE]
Stages == {"none", "socket", "bound", "ring", "mapped", "unmapped"}
Reasons == {"none", "empty", "ready", "busy", "failed"}

TypeOK ==
    /\ sock \in Stages /\ leaked \in BOOLEAN /\ opens \in 0 .. MaxOpen
    /\ status \in [Frame -> {"kernel", "user"}]
    /\ packet \in [Frame -> 0 .. MaxPacket]
    /\ filling \subseteq Frame /\ held \subseteq Frame
    /\ again \subseteq held \cap lapped /\ lapped \subseteq Frame
    /\ head \in Frame /\ next_idx \in Frame /\ frame \in Frame
    /\ arrived \in 0 .. MaxPacket /\ packets \in 0 .. MaxPacket /\ drops \in 0 .. MaxPacket
    /\ early \in 0 .. MaxPacket /\ last \in 0 .. MaxPacket
    /\ got \in Nat /\ told \in Int
    /\ pc \in {"idle", "try", "poll", "retry", "match"}
    /\ call \in Calls
    /\ null \in Reasons

After(i) == (i + 1) % NFrames
Before(i) == (i + NFrames - 1) % NFrames

Init ==
    /\ sock = "none" /\ leaked = FALSE /\ opens = 0
    /\ status = [f \in Frame |-> "kernel"] /\ packet = [f \in Frame |-> 0]
    /\ filling = {} /\ head = 0 /\ arrived = 0
    /\ packets = 0 /\ drops = 0 /\ early = 0
    /\ next_idx = 0 /\ pc = "idle" /\ call = NoCall
    /\ frame = 0 /\ held = {} /\ again = {} /\ lapped = {} /\ got = 0 /\ last = 0 /\ null = "none"
    /\ told = 0

-----------------------------------------------------------------------------
(* hashpipe_pktsock_open() and hashpipe_pktsock_close()                    *)
OpenInvalid ==
    /\ sock = "none" /\ opens < MaxOpen
    /\ opens' = opens + 1
    /\ UNCHANGED <<sock, leaked, kernel, user>>

(* A new socket has new counters.                                          *)
OpenSocket ==
    /\ sock = "none" /\ opens < MaxOpen
    /\ sock' = "socket" /\ opens' = opens + 1
    /\ packets' = 0 /\ drops' = 0 /\ early' = 0 /\ got' = 0 /\ told' = 0
    /\ UNCHANGED <<leaked, status, ring, arrived, plugin, last>>

Bind == sock = "socket" /\ sock' = "bound" /\ UNCHANGED <<leaked, opens, kernel, user>>

(* setsockopt() makes the ring.                                            *)
SetRing ==
    /\ sock = "bound"
    /\ sock' = "ring"
    /\ UNCHANGED <<leaked, opens, kernel, user>>

(* Mutant: the index of the last socket is kept.                           *)
MapKeepsIndex ==
    /\ sock = "ring"
    /\ sock' = "mapped"
    /\ UNCHANGED <<leaked, opens, kernel, user>>

(* mmap(), and the index is set to 0.                                      *)
Map ==
    /\ sock = "ring"
    /\ sock' = "mapped"
    /\ next_idx' = 0
    /\ UNCHANGED <<leaked, opens, kernel, pc, call, frame, held, hands, null, received>>

(* The kernel frees the ring with the socket.                              *)
Forget ==
    /\ status' = [f \in Frame |-> "kernel"] /\ packet' = [f \in Frame |-> 0]
    /\ filling' = {} /\ head' = 0
    /\ UNCHANGED counters

(* bind(), setsockopt() or mmap() fails: the descriptor stays open.        *)
OpenFails ==
    /\ sock \in {"socket", "bound", "ring"}
    /\ sock' = "none" /\ leaked' = TRUE
    /\ Forget
    /\ UNCHANGED <<opens, user>>

Unmap ==
    /\ sock = "mapped" /\ pc = "idle"
    /\ sock' = "unmapped"
    /\ UNCHANGED <<leaked, opens, kernel, user>>

Close ==
    /\ sock = "unmapped"
    /\ sock' = "none"
    /\ held' = {} /\ again' = {} /\ lapped' = {}
    /\ Forget
    /\ UNCHANGED <<leaked, opens, next_idx, pc, call, frame, null, received>>

-----------------------------------------------------------------------------
(* The kernel                                                              *)

(* A packet that arrives between socket() and setsockopt() is counted; no  *)
(* frame will have it.                                                     *)
ArriveEarly ==
    /\ sock \in {"socket", "bound"}
    /\ arrived < MaxPacket
    /\ arrived' = arrived + 1 /\ packets' = packets + 1 /\ early' = early + 1
    /\ UNCHANGED <<socket, status, ring, drops, user>>

RingUp == sock \in {"ring", "mapped", "unmapped"}

Arrive ==
    /\ RingUp
    /\ arrived < MaxPacket
    /\ arrived' = arrived + 1 /\ packets' = packets + 1
    /\ status[head] = "kernel" /\ head \notin filling
    /\ filling' = filling \cup {head}
    /\ packet' = [packet EXCEPT ![head] = arrived + 1]
    /\ head' = After(head)
    /\ UNCHANGED <<socket, status, drops, early, user>>

(* The next frame is not free: the packet is dropped.                      *)
Drop ==
    /\ RingUp
    /\ arrived < MaxPacket
    /\ status[head] # "kernel" \/ head \in filling
    /\ arrived' = arrived + 1 /\ packets' = packets + 1 /\ drops' = drops + 1
    /\ UNCHANGED <<socket, status, ring, early, user>>

Fill(f) ==
    /\ f \in filling
    /\ filling' = filling \ {f}
    /\ status' = [status EXCEPT ![f] = "user"]
    /\ UNCHANGED <<socket, packet, head, counters, user>>

-----------------------------------------------------------------------------
(* hashpipe_pktsock_recv_frame(), ..._recv_udp_frame() and their _nonblock *)
(* variants                                                                *)
Recv(c) ==
    /\ sock = "mapped" /\ pc = "idle"
    /\ next_idx \notin again
    /\ pc' = "try" /\ call' = c /\ null' = "none"
    /\ UNCHANGED <<socket, kernel, next_idx, frame, held, hands, received>>

Return(why) == pc' = "idle" /\ null' = why /\ call' = NoCall

(* The frame may be one that the plugin has already.                       *)
Take ==
    /\ frame' = next_idx
    /\ held' = held \cup {next_idx}
    /\ again' = again \cup (held \cap {next_idx})
    /\ lapped' = lapped \cup (held \cap {next_idx})
    /\ got' = got + 1 /\ last' = packet[next_idx]
    /\ IF call.udp THEN pc' = "match" /\ null' = "none" /\ UNCHANGED call ELSE Return("none")
    /\ UNCHANGED <<socket, kernel, told>>

(* Mutant: the index stays at the last frame.                              *)
TakeFrameNoWrap ==
    /\ pc \in {"try", "retry"}
    /\ status[next_idx] = "user"
    /\ next_idx' = IF next_idx + 1 < NFrames THEN next_idx + 1 ELSE next_idx
    /\ Take

(* Mutant: the index goes one past the last frame.                         *)
TakeFramePast ==
    /\ pc \in {"try", "retry"}
    /\ status[next_idx] = "user"
    /\ next_idx' = IF next_idx + 1 > NFrames THEN 0 ELSE next_idx + 1
    /\ Take

TakeFrame ==
    /\ pc \in {"try", "retry"}
    /\ status[next_idx] = "user"
    /\ next_idx' = IF next_idx + 1 >= NFrames THEN 0 ELSE next_idx + 1
    /\ Take

(* Mutant: the index is advanced before the status is looked at.           *)
NoFrameAdvances ==
    /\ pc \in {"try", "retry"}
    /\ status[next_idx] # "user"
    /\ next_idx' = After(next_idx)
    /\ IF pc = "try" /\ call.wait THEN pc' = "poll" /\ UNCHANGED <<null, call>>
       ELSE Return(IF pc = "try" THEN "empty" ELSE null)
    /\ UNCHANGED <<socket, kernel, frame, held, hands, received>>

NoFrame ==
    /\ pc \in {"try", "retry"}
    /\ status[next_idx] # "user"
    /\ IF pc = "try" /\ call.wait THEN pc' = "poll" /\ UNCHANGED <<null, call>>
       ELSE Return(IF pc = "try" THEN "empty" ELSE null)
    /\ UNCHANGED <<socket, kernel, next_idx, frame, held, hands, received>>

Poll(why) ==
    /\ pc = "poll"
    /\ pc' = "retry" /\ null' = why
    /\ UNCHANGED <<socket, kernel, next_idx, call, frame, held, hands, received>>

(* Mutant: poll() for an event that is always there.                       *)
PollAnything == Poll(IF held # {} \/ filling # {} \/ lapped # {} THEN "busy" ELSE "ready")

(* "ready" is what poll() should mean; it says the same while a frame is   *)
(* held, while earlier frames are still being filled, and when the index   *)
(* is ahead of the kernel's.                                               *)
PollReady ==
    /\ status[Before(head)] = "user"
    /\ Poll(IF held # {} \/ filling # {} \/ lapped # {} THEN "busy" ELSE "ready")

(* A signal, or POLLERR when the interface goes down.                      *)
PollFails == Poll("failed")

PollTimeout ==
    /\ pc = "poll"
    /\ status[Before(head)] # "user"
    /\ Return("empty")
    /\ UNCHANGED <<socket, kernel, next_idx, frame, held, hands, received>>

(* A release of frame f.  If the plugin got it twice, it has it still.     *)
GiveBack(f) ==
    /\ status' = [status EXCEPT ![f] = "kernel"]
    /\ held' = (held \ {f}) \cup (again \cap {f})
    /\ again' = again \ {f}

(* Mutant: the frame that is released is the next one.                     *)
MatchReleasesNext(udp) ==
    /\ pc = "match"
    /\ IF udp THEN UNCHANGED <<status, held, again>>
       ELSE /\ status' = [status EXCEPT ![next_idx] = "kernel"]
            /\ held' = (held \ {frame}) \cup (again \cap {frame})
            /\ again' = again \ {frame}
    /\ Return("none")
    /\ UNCHANGED <<socket, ring, counters, next_idx, frame, lapped, received>>

(* A packet that is not UDP to the port asked for is released, even if the *)
(* plugin has its frame from an earlier call.                              *)
Match(udp) ==
    /\ pc = "match"
    /\ IF udp THEN UNCHANGED <<status, held, again>> ELSE GiveBack(frame)
    /\ Return("none")
    /\ UNCHANGED <<socket, ring, counters, next_idx, frame, lapped, received>>

(* The plugin releases a frame it has, any of them, as often as it got it. *)
Release(f) ==
    /\ sock = "mapped" /\ pc = "idle"
    /\ f \in held
    /\ GiveBack(f)
    /\ UNCHANGED <<socket, ring, counters, next_idx, pc, call, frame, null, lapped, received>>

(* Reading the counters sets them to zero.                                 *)
Stats ==
    /\ sock = "mapped" /\ pc = "idle"
    /\ told' = told + packets - drops
    /\ packets' = 0 /\ drops' = 0
    /\ UNCHANGED <<socket, status, ring, arrived, early, plugin, got, last>>

-----------------------------------------------------------------------------
UserStep ==
    \/ TakeFrame \/ NoFrame \/ PollReady \/ PollTimeout
    \/ \E udp \in BOOLEAN : Match(udp)

Next ==
    \/ OpenInvalid \/ OpenSocket \/ Bind \/ SetRing \/ Map \/ OpenFails \/ Unmap \/ Close
    \/ ArriveEarly \/ Arrive \/ Drop
    \/ UserStep \/ PollFails \/ Stats
    \/ \E c \in Calls : Recv(c)
    \/ \E f \in Frame : Fill(f) \/ Release(f)

Spec == Init /\ [][Next]_vars

(* The kernel fills the frames it has given away; a plugin that has the    *)
(* socket open goes on receiving and releasing.                            *)
FairSpec ==
    /\ Spec
    /\ WF_vars(\E f \in Frame : Fill(f))
    /\ WF_vars(UserStep)
    /\ WF_vars(\E c \in Calls : Recv(c))
    /\ \A f \in Frame : WF_vars(Release(f))

-----------------------------------------------------------------------------
InTurn == lapped = {}

(* The frames from the plugin's to the kernel's index, not received yet.   *)
Oldest == IF sock = "ring" THEN 0 ELSE next_idx
InRing(k) == (Oldest + k) % NFrames
Unread(f) == f \notin held /\ (f \in filling \/ status[f] = "user")
NUnread == Cardinality({k \in Frame : \A j \in 0 .. k : Unread(InRing(j))})
Queue == IF RingUp /\ InTurn THEN [k \in 1 .. NUnread |-> packet[InRing(k - 1)]] ELSE << >>

(* The parts of the inductive invariant: the counters are of packets that  *)
(* arrived, ...                                                            *)
Counted == packets <= arrived /\ drops <= packets /\ early <= arrived

(* ... a frame is filled only by the kernel, and one that is held is the   *)
(* user's unless it was handed out twice, ...                              *)
Owned ==
    /\ \A f \in held \ lapped : status[f] = "user"
    /\ \A f \in filling : status[f] = "kernel"

(* ... calls need the ring, ...                                            *)
Placed ==
    /\ pc # "idle" => sock = "mapped"
    /\ held # {} => sock \in {"mapped", "unmapped"}
    /\ pc = "match" => frame \in held

(* ... the unread frames are those from the plugin's to the kernel's index,*)
(* as long as the plugin's does not overtake,                              *)
Ring == INSTANCE Databuf WITH NBlock <- NFrames
Marks == [f \in Frame |-> IF Unread(f) THEN 1 ELSE 0]
UnreadWindow ==
    /\ RingUp /\ InTurn => Ring!Window(Marks, Oldest, head)
    /\ ~RingUp => head = 0 /\ filling = {} /\ \A f \in Frame : status[f] = "kernel"

(* ... and once poll() has found data that can only be the next frame, it  *)
(* is there.                                                               *)
Found == null = "ready" => pc = "retry" /\ status[next_idx] = "user"

IInv == TypeOK /\ Counted /\ Owned /\ Placed /\ UnreadWindow /\ Found

(* The ring is a queue: the packets that are not dropped are received in   *)
(* the order in which they came, each once, whichever frames are held, in  *)
(* whatever order they are released, and whether the ring is closed and    *)
(* opened again.  This ends when a frame that is still held is handed out  *)
(* (hashpipe_pktsock.c:109 looks at the status word only), with a packet   *)
(* the plugin has already: from there to the close the queue is empty.     *)
Fifo == INSTANCE BlockFifo WITH
            Buffer <- {"ring"}, Capacity <- NFrames, Item <- Packet,
            queue <- [d \in {"ring"} |-> Queue]
IsFifo == Fifo!Spec

(* A frame the plugin has is not overwritten, and stays the plugin's until *)
(* it gives it back itself, even when others were handed out twice: what   *)
(* can take a frame from it (hashpipe_pktsock.c:163 and 187, and the first *)
(* of two releases) is only that the ring came round to this very frame    *)
(* while the plugin had it.                                                *)
HeldIntact == [][\A f \in (held \cap held') \ lapped' :
                   status'[f] = "user" /\ packet'[f] = packet[f]]_vars

(* "Should never get NULL here" (hashpipe_pktsock.c:141): when poll() finds*)
(* data, the plugin has no frame, none is being filled and none was handed *)
(* out twice, the second look finds the frame.                             *)
NullExplained == pc = "idle" => null # "ready"

(* Whatever stats reported and the counters still hold is what was counted *)
(* before there was a ring, was received, or waits in it, as long as every *)
(* frame was handed out once.                                              *)
StatsAgree == sock # "none" /\ InTurn => told + packets - drops = early + got + Len(Queue)

(* A packet in the ring of a socket that stays open is received, even if   *)
(* every poll() is interrupted, unless the ring comes round to a frame that*)
(* is held.                                                                *)
Served == \A p \in Packet :
            (\E k \in 1 .. Len(Queue) : Queue[k] = p) ~> (last = p \/ sock # "mapped" \/ ~InTurn)
=============================================================================
