---------------------------- MODULE PktsockProofs ----------------------------
(***************************************************************************)
(* Proofs about Pktsock, for every number of frames, packets and opens.    *)
(* The unread frames are a window of the ring: it grows by one frame when  *)
(* a packet arrives, as a databuf does when its writer fills a block, and  *)
(* shrinks when the plugin takes one, as if a reader freed it, so that the *)
(* lemmas about databufs are about frames, too.                            *)
(***************************************************************************)
EXTENDS Pktsock, FiniteSetTheorems, TLAPS

RingFacts == INSTANCE DatabufProofs WITH NBlock <- NFrames

USE PktsockAssumption

-----------------------------------------------------------------------------
(* The ring                                                                *)

LEMMA AfterFacts ==
    ASSUME NEW f \in Frame
    PROVE  /\ After(f) \in Frame /\ Before(f) \in Frame
           /\ After(f) = IF f + 1 >= NFrames THEN 0 ELSE f + 1
<1>1. CASE f + 1 >= NFrames
  BY <1>1 DEF After, Before, Frame
<1>2. CASE f + 1 < NFrames
  BY <1>2 DEF After, Before, Frame
<1> QED BY <1>1, <1>2 DEF Frame

(* The window of Pktsock is the window of the databuf lemmas.              *)
LEMMA SameWindow ==
    ASSUME NEW sv, NEW r, NEW w
    PROVE  /\ Ring!Window(sv, r, w) <=> RingFacts!Window(sv, r, w)
           /\ Ring!DepthOf(sv, r, w) = RingFacts!DepthOf(sv, r, w)
BY DEF Ring!Window, RingFacts!Window, Ring!DepthOf, RingFacts!DepthOf, Ring!Dist, RingFacts!Dist,
       Ring!Block, RingFacts!Block

(* A packet gets the frame behind the window, as many frames from its first*)
(* one as it is deep.                                                      *)
LEMMA WindowGrows ==
    ASSUME NEW sv \in [Frame -> {0, 1}], NEW r \in Frame, NEW w \in Frame,
           Ring!Window(sv, r, w), sv[w] = 0
    PROVE  /\ Ring!Window([sv EXCEPT ![w] = 1], r, After(w))
           /\ Ring!DepthOf(sv, r, w) = Ring!Dist(r, w)
           /\ Ring!DepthOf([sv EXCEPT ![w] = 1], r, After(w)) = Ring!DepthOf(sv, r, w) + 1
<1>1. RingFacts!Block = Frame
  BY DEF RingFacts!Block, Frame
<1>2. RingFacts!NBlockAssumption
  BY DEF RingFacts!NBlockAssumption
<1>3. /\ RingFacts!Window(RingFacts!SetFilled(sv, w), r, RingFacts!NextBlock(w))
      /\ RingFacts!DepthOf(sv, r, w) = RingFacts!Dist(r, w)
      /\ RingFacts!DepthOf(RingFacts!SetFilled(sv, w), r, RingFacts!NextBlock(w))
           = RingFacts!DepthOf(sv, r, w) + 1
  BY <1>1, <1>2, SameWindow, RingFacts!FillExtendsWindow
<1>4. RingFacts!SetFilled(sv, w) = [sv EXCEPT ![w] = 1] /\ RingFacts!NextBlock(w) = After(w)
  BY DEF RingFacts!SetFilled, RingFacts!NextBlock, After
<1>5. RingFacts!Dist(r, w) = Ring!Dist(r, w)
  BY DEF RingFacts!Dist, Ring!Dist
<1> QED BY <1>3, <1>4, <1>5, SameWindow

(* The plugin takes the first frame of the window.                         *)
LEMMA WindowShrinks ==
    ASSUME NEW sv \in [Frame -> {0, 1}], NEW r \in Frame, NEW w \in Frame,
           Ring!Window(sv, r, w), sv[r] = 1
    PROVE  /\ Ring!Window([sv EXCEPT ![r] = 0], After(r), w)
           /\ Ring!DepthOf([sv EXCEPT ![r] = 0], After(r), w) = Ring!DepthOf(sv, r, w) - 1
<1>1. RingFacts!Block = Frame
  BY DEF RingFacts!Block, Frame
<1>2. RingFacts!NBlockAssumption
  BY DEF RingFacts!NBlockAssumption
<1>3. /\ RingFacts!Window(RingFacts!SetFree(sv, r), RingFacts!NextBlock(r), w)
      /\ RingFacts!DepthOf(RingFacts!SetFree(sv, r), RingFacts!NextBlock(r), w)
           = RingFacts!DepthOf(sv, r, w) - 1
  BY <1>1, <1>2, SameWindow, RingFacts!FreeShrinksWindow
<1>4. RingFacts!SetFree(sv, r) = [sv EXCEPT ![r] = 0] /\ RingFacts!NextBlock(r) = After(r)
  BY DEF RingFacts!SetFree, RingFacts!NextBlock, After
<1> QED BY <1>3, <1>4, SameWindow

(* An empty window, and one that is not.                                   *)
LEMMA WindowEmpty ==
    ASSUME NEW sv \in [Frame -> {0, 1}], NEW r \in Frame, \A f \in Frame : sv[f] = 0
    PROVE  Ring!Window(sv, r, r)
BY DEF Ring!Window, Ring!DepthOf, Ring!Dist, Ring!Block, Frame

LEMMA WindowHasFirst ==
    ASSUME NEW sv \in [Frame -> {0, 1}], NEW r \in Frame, NEW w \in Frame, NEW f \in Frame,
           Ring!Window(sv, r, w), sv[f] = 1
    PROVE  sv[r] = 1
<1>1. Ring!Dist(r, f) < Ring!DepthOf(sv, r, w)
  BY DEF Ring!Window, Ring!Block, Frame
<1>2. Ring!Dist(r, f) >= 0
  BY DEF Ring!Dist, Frame
<1>3. sv[r] # 0
  <2> SUFFICES ASSUME sv[r] = 0 PROVE FALSE
    OBVIOUS
  <2>1. Ring!Dist(r, f) < 0
    BY <1>1 DEF Ring!DepthOf
  <2> QED BY <1>2, <2>1 DEF Ring!Dist, Frame
<1> QED BY <1>3

LEMMA NoCallType == NoCall \in Calls
BY DEF NoCall, Calls

LEMMA MarksType == Marks \in [Frame -> {0, 1}]
BY DEF Marks

(* While nothing is unread that was not, the window stays.                 *)
LEMMA WindowKept ==
    ASSUME IInv, TypeOK', RingUp <=> RingUp', RingUp => Oldest' = Oldest, head' = head,
           InTurn' => InTurn,
           ~RingUp => filling' = filling /\ status' = status,
           \A f \in Frame : Unread(f)' <=> Unread(f)
    PROVE  UnreadWindow'
<1>1. Marks' = Marks
  BY DEF Marks
<1> QED BY <1>1 DEF IInv, UnreadWindow

-----------------------------------------------------------------------------
(* The invariant                                                           *)

LEMMA InitInv == Init => IInv
<1> SUFFICES ASSUME Init PROVE IInv
  OBVIOUS
<1>1. TypeOK
  <2>1. status \in [Frame -> {"kernel", "user"}] /\ packet \in [Frame -> 0 .. MaxPacket]
    BY DEF Init
  <2>2. head \in Frame /\ next_idx \in Frame /\ frame \in Frame /\ call \in Calls
    BY DEF Init, Frame, Calls, NoCall
  <2>3. /\ filling \subseteq Frame /\ held \subseteq Frame
        /\ again \subseteq held \cap lapped /\ lapped \subseteq Frame
        /\ sock \in Stages /\ null \in Reasons
    BY DEF Init, Stages, Reasons
  <2>4. /\ arrived \in 0 .. MaxPacket /\ packets \in 0 .. MaxPacket /\ drops \in 0 .. MaxPacket
        /\ early \in 0 .. MaxPacket /\ last \in 0 .. MaxPacket
        /\ got \in Nat /\ told \in Int
        /\ pc \in {"idle", "try", "poll", "retry", "match"} /\ opens \in 0 .. MaxOpen
    BY DEF Init
  <2>5. leaked \in BOOLEAN
    BY DEF Init
  <2> QED BY <2>1, <2>2, <2>3, <2>4, <2>5 DEF TypeOK
<1>2. Counted /\ Owned /\ Placed /\ UnreadWindow /\ Found
  BY DEF Init, Counted, Owned, Placed, UnreadWindow, Found, RingUp
<1> QED BY <1>1, <1>2 DEF IInv

(* Steps of open that leave the ring and the plugin alone.                *)
LEMMA OpenInv ==
    ASSUME IInv, OpenInvalid \/ Bind \/ OpenSocket \/ ArriveEarly
    PROVE  IInv'
<1> USE DEF IInv, OpenInvalid, Bind, OpenSocket, ArriveEarly, socket, kernel, ring, counters, user, plugin, hands, received
<1>1. TypeOK'
  <2>1. sock' \in Stages /\ leaked' \in BOOLEAN /\ opens' \in 0 .. MaxOpen
    BY DEF TypeOK, Stages
  <2>2. /\ arrived' \in 0 .. MaxPacket /\ packets' \in 0 .. MaxPacket /\ drops' \in 0 .. MaxPacket
        /\ early' \in 0 .. MaxPacket /\ last' \in 0 .. MaxPacket
        /\ got' \in Nat /\ told' \in Int
    BY DEF TypeOK, Counted
  <2>3. UNCHANGED <<status, packet, filling, head, held, again, lapped, next_idx, frame, pc, call, null>>
    OBVIOUS
  <2> QED BY <2>1, <2>2, <2>3 DEF TypeOK
<1>2. Counted'
  BY DEF TypeOK, Counted
<1>3. Owned' /\ Placed' /\ Found'
  BY DEF TypeOK, Owned, Placed, Found
<1>4. UnreadWindow'
  BY DEF TypeOK, UnreadWindow, RingUp, InTurn, Oldest, Marks, Unread
<1> QED BY <1>1, <1>2, <1>3, <1>4

LEMMA SetRingInv ==
    ASSUME IInv, SetRing
    PROVE  IInv'
<1> USE DEF SetRing, kernel, ring, counters, user, plugin, hands, received
<1>1. TypeOK' /\ Counted' /\ Owned' /\ Placed' /\ Found'
  BY DEF IInv, TypeOK, Counted, Owned, Placed, Found, Stages
<1>2. Oldest' = 0 /\ head' = 0 /\ 0 \in Frame
  BY DEF IInv, UnreadWindow, RingUp, Oldest, Frame
<1>3. \A f \in Frame : ~Unread(f)'
  BY DEF IInv, UnreadWindow, RingUp, Unread
<1>4. \A f \in Frame : Marks'[f] = 0
  BY <1>3 DEF Marks
<1>5. Marks' \in [Frame -> {0, 1}]
  BY DEF Marks
<1>6. Ring!Window(Marks', 0, 0)
  BY <1>2, <1>4, <1>5, WindowEmpty
<1>7. UnreadWindow'
  BY <1>2, <1>6 DEF UnreadWindow, RingUp
<1> QED BY <1>1, <1>7 DEF IInv

(* mmap() of the new ring, nothing of which is held.                       *)
LEMMA MapInv ==
    ASSUME IInv, Map
    PROVE  IInv'
<1> USE DEF Map, kernel, ring, counters, hands, received
<1>1. TypeOK'
  <2>1. sock' \in Stages /\ next_idx' \in Frame
    BY DEF Stages, Frame
  <2> QED BY <2>1 DEF IInv, TypeOK
<1>2. Counted' /\ Owned' /\ Placed' /\ Found'
  BY DEF IInv, TypeOK, Counted, Owned, Placed, Found
<1>3. UnreadWindow'
  <2>1. RingUp /\ RingUp' /\ Oldest' = Oldest /\ InTurn' = InTurn
    BY DEF RingUp, Oldest, InTurn
  <2>2. \A f \in Frame : Unread(f)' <=> Unread(f)
    BY DEF Unread
  <2> QED BY <1>1, <2>1, <2>2, WindowKept
<1> QED BY <1>1, <1>2, <1>3 DEF IInv

LEMMA UnmapInv ==
    ASSUME IInv, Unmap
    PROVE  IInv'
<1> USE DEF Unmap, kernel, ring, counters, user, plugin, hands, received
<1>1. TypeOK' /\ Counted' /\ Owned' /\ Placed' /\ Found'
  BY DEF IInv, TypeOK, Counted, Owned, Placed, Found, Stages
<1>2. UnreadWindow'
  <2>1. RingUp /\ RingUp' /\ Oldest' = Oldest /\ InTurn' = InTurn
    BY DEF RingUp, Oldest, InTurn
  <2>2. \A f \in Frame : Unread(f)' <=> Unread(f)
    BY DEF Unread
  <2> QED BY <1>1, <2>1, <2>2, WindowKept
<1> QED BY <1>1, <1>2 DEF IInv

(* The kernel forgets the ring, of which nobody has a frame any more.      *)
LEMMA ForgetInv ==
    ASSUME IInv, OpenFails \/ Close
    PROVE  IInv'
<1> USE DEF OpenFails, Close, Forget, counters, user, plugin, hands, received
<1>1. TypeOK'
  <2>1. sock' \in Stages /\ opens' \in 0 .. MaxOpen
    BY DEF IInv, TypeOK, Stages
  <2>2. leaked' \in BOOLEAN
    BY DEF IInv, TypeOK
  <2>3. status' \in [Frame -> {"kernel", "user"}] /\ packet' \in [Frame -> 0 .. MaxPacket]
    OBVIOUS
  <2>4. /\ filling' = {} /\ held' \subseteq Frame
        /\ again' \subseteq held' \cap lapped' /\ lapped' \subseteq Frame
    BY DEF IInv, TypeOK
  <2>5. head' \in Frame
    BY DEF Frame
  <2> QED BY <2>1, <2>2, <2>3, <2>4, <2>5 DEF IInv, TypeOK
<1>2. pc = "idle" /\ held' = {} /\ sock' = "none"
  BY DEF IInv, TypeOK, Placed
<1>3. Counted' /\ Owned' /\ Placed' /\ Found'
  BY <1>2 DEF IInv, TypeOK, Counted, Owned, Placed, Found
<1>4. UnreadWindow'
  BY <1>2 DEF UnreadWindow, RingUp
<1> QED BY <1>1, <1>3, <1>4 DEF IInv

-----------------------------------------------------------------------------
(* The kernel                                                              *)

LEMMA ArriveInv ==
    ASSUME IInv, Arrive
    PROVE  IInv'
<1> USE DEF Arrive, socket, user, plugin, hands, received
<1>1. TypeOK'
  <2>1. head' \in Frame /\ filling' \subseteq Frame /\ packet' \in [Frame -> 0 .. MaxPacket]
    BY AfterFacts DEF IInv, TypeOK
  <2>2. arrived' \in 0 .. MaxPacket /\ packets' \in 0 .. MaxPacket
    BY DEF IInv, TypeOK, Counted
  <2> QED BY <2>1, <2>2 DEF IInv, TypeOK
<1>2. Counted' /\ Owned' /\ Placed' /\ Found'
  BY DEF IInv, TypeOK, Counted, Owned, Placed, Found
<1>3. ASSUME InTurn PROVE Ring!Window(Marks', Oldest', head')
  <2>1. PICK h \in Frame : h = head
    BY DEF IInv, TypeOK
  <2>2. h \notin held /\ ~Unread(h)
    BY <1>3, <2>1 DEF IInv, Owned, Unread, InTurn
  <2>3. \A f \in Frame : f # h => (Unread(f)' <=> Unread(f))
    BY <2>1 DEF Unread
  <2>4. Unread(h)'
    BY <2>1, <2>2 DEF Unread
  <2>5. Marks' = [Marks EXCEPT ![h] = 1]
    BY <2>2, <2>3, <2>4 DEF Marks
  <2>6. Marks[h] = 0 /\ Oldest' = Oldest /\ Oldest \in Frame
    BY <2>2 DEF Marks, Oldest, IInv, TypeOK, Frame
  <2> QED BY <1>3, <2>1, <2>5, <2>6, WindowGrows, MarksType DEF IInv, UnreadWindow
<1>4. UnreadWindow'
  BY <1>3 DEF UnreadWindow, RingUp, InTurn
<1> QED BY <1>1, <1>2, <1>4 DEF IInv

LEMMA DropInv ==
    ASSUME IInv, Drop
    PROVE  IInv'
<1> USE DEF Drop, socket, ring, user, plugin, hands, received
<1>1. TypeOK' /\ Counted' /\ Owned' /\ Placed' /\ Found'
  BY DEF IInv, TypeOK, Counted, Owned, Placed, Found
<1>2. UnreadWindow'
  BY DEF IInv, UnreadWindow, RingUp, InTurn, Oldest, Marks, Unread
<1> QED BY <1>1, <1>2 DEF IInv

LEMMA FillInv ==
    ASSUME IInv, NEW f \in Frame, Fill(f)
    PROVE  IInv'
<1> USE DEF Fill, socket, counters, user, plugin, hands, received
<1>1. TypeOK'
  BY DEF IInv, TypeOK
<1>2. Counted' /\ Owned' /\ Placed' /\ Found'
  BY DEF IInv, TypeOK, Counted, Owned, Placed, Found
<1>3. UnreadWindow'
  <2>1. RingUp /\ RingUp' /\ Oldest' = Oldest /\ InTurn' = InTurn
    BY DEF RingUp, Oldest, InTurn, IInv, UnreadWindow
  <2>2. \A g \in Frame : Unread(g)' <=> Unread(g)
    BY DEF Unread, IInv, TypeOK
  <2> QED BY <1>1, <2>1, <2>2, WindowKept
<1> QED BY <1>1, <1>2, <1>3 DEF IInv

-----------------------------------------------------------------------------
(* The plugin                                                              *)

(* Steps that leave the ring and the frames held alone.                    *)
LEMMA LookInv ==
    ASSUME IInv, NoFrame \/ PollReady \/ PollFails \/ PollTimeout \/ Stats \/ \E c \in Calls : Recv(c)
    PROVE  IInv'
<1> USE DEF NoFrame, PollReady, PollFails, Poll, PollTimeout, Return, Stats, Recv,
            socket, kernel, ring, counters, plugin, hands, received
<1>1. TypeOK'
  <2>1. UNCHANGED <<sock, leaked, opens, status, packet, filling, head, held, again, lapped, next_idx, frame,
                   arrived, early, got, last>>
    OBVIOUS
  <2>2. packets' \in 0 .. MaxPacket /\ drops' \in 0 .. MaxPacket /\ told' \in Int
    BY DEF IInv, TypeOK
  <2>3. pc' \in {"idle", "try", "poll", "retry", "match"} /\ null' \in Reasons
    BY DEF IInv, TypeOK, Reasons
  <2>4. call' \in Calls
    BY NoCallType DEF IInv, TypeOK
  <2> QED BY <2>1, <2>2, <2>3, <2>4 DEF IInv, TypeOK
<1>2. Counted' /\ Owned' /\ Placed'
  BY DEF IInv, TypeOK, Counted, Owned, Placed
<1>3. UnreadWindow'
  BY DEF IInv, UnreadWindow, RingUp, InTurn, Oldest, Marks, Unread
<1>4. Found'
  <2>1. CASE PollReady
    <3>1. CASE held # {} \/ filling # {} \/ lapped # {}
      BY <2>1, <3>1 DEF Found
    <3>2. CASE held = {} /\ filling = {} /\ lapped = {}
      <4>1. sock = "mapped" /\ RingUp /\ InTurn /\ Oldest = next_idx
        BY <2>1, <3>2 DEF IInv, Placed, RingUp, InTurn, Oldest
      <4>2. Before(head) \in Frame /\ head \in Frame /\ next_idx \in Frame
        BY AfterFacts DEF IInv, TypeOK
      <4>3. Marks[Before(head)] = 1
        BY <2>1, <3>2, <4>2 DEF Marks, Unread
      <4>4. Marks[next_idx] = 1
        BY <4>1, <4>2, <4>3, MarksType, WindowHasFirst DEF IInv, UnreadWindow
      <4>5. status[next_idx] = "user"
        BY <3>2, <4>2, <4>4 DEF Marks, Unread
      <4> QED BY <2>1, <4>5 DEF Found
    <3> QED BY <3>1, <3>2
  <2>2. CASE ~PollReady
    BY <2>2 DEF IInv, Found
  <2> QED BY <2>1, <2>2
<1> QED BY <1>1, <1>2, <1>3, <1>4 DEF IInv

LEMMA TakeFrameInv ==
    ASSUME IInv, TakeFrame
    PROVE  IInv'
<1> USE DEF TakeFrame, Take, Return, socket, kernel, ring, counters
<1>1. next_idx \in Frame /\ next_idx' = After(next_idx) /\ next_idx' \in Frame
  BY AfterFacts DEF IInv, TypeOK
<1>2. TypeOK'
  <2>1. /\ held' \subseteq Frame /\ frame' \in Frame /\ last' \in 0 .. MaxPacket /\ got' \in Nat
        /\ again' \subseteq held' \cap lapped' /\ lapped' \subseteq Frame
    BY <1>1 DEF IInv, TypeOK
  <2>2. pc' \in {"idle", "match"} /\ null' = "none" /\ call' \in Calls
    BY NoCallType DEF IInv, TypeOK
  <2> QED BY <1>1, <2>1, <2>2 DEF IInv, TypeOK, Reasons
<1>3. Counted' /\ Owned' /\ Placed' /\ Found'
  BY DEF IInv, TypeOK, Counted, Owned, Placed, Found
<1>4. sock = "mapped" /\ sock' = "mapped" /\ Oldest = next_idx /\ Oldest' = next_idx'
  BY DEF IInv, Placed, Oldest
<1>5. ASSUME InTurn' PROVE InTurn /\ next_idx \notin held /\ Unread(next_idx)
  BY <1>5 DEF InTurn, Unread
<1>6. ASSUME InTurn' PROVE Marks' = [Marks EXCEPT ![next_idx] = 0]
  <2>1. PICK n \in Frame : n = next_idx
    BY <1>1
  <2>2. \A f \in Frame : f # n => (Unread(f)' <=> Unread(f))
    BY <2>1 DEF Unread
  <2>3. ~Unread(n)'
    BY <2>1 DEF Unread
  <2> QED BY <2>1, <2>2, <2>3 DEF Marks
<1>7. ASSUME InTurn' PROVE Ring!Window(Marks', Oldest', head')
  <2>1. Marks[next_idx] = 1 /\ head \in Frame
    BY <1>1, <1>5, <1>7 DEF Marks, IInv, TypeOK
  <2>2. Ring!Window(Marks, next_idx, head)
    BY <1>4, <1>5, <1>7 DEF IInv, UnreadWindow, RingUp
  <2> QED BY <2>1, <2>2, <1>1, <1>4, <1>6, <1>7, WindowShrinks, MarksType
<1>8. UnreadWindow'
  BY <1>4, <1>7 DEF UnreadWindow, RingUp
<1> QED BY <1>2, <1>3, <1>8 DEF IInv

(* As long as no frame was handed out twice, one that was held is not      *)
(* unread, before and after its release.                                   *)
LEMMA ReleaseInv ==
    ASSUME IInv, (\E udp \in BOOLEAN : Match(udp)) \/ (\E f \in Frame : Release(f))
    PROVE  IInv'
<1>1. PICK f \in Frame :
         /\ \/ GiveBack(f) /\ f \in held
            \/ UNCHANGED <<status, held, again>>
         /\ sock = "mapped"
         /\ pc' = "idle"
         /\ call' \in Calls
         /\ null' \in Reasons /\ null' # "ready"
         /\ UNCHANGED <<socket, ring, counters, next_idx, frame, lapped, received>>
  <2>1. ASSUME NEW udp \in BOOLEAN, Match(udp)
        PROVE  /\ frame \in held /\ frame \in Frame /\ sock = "mapped"
               /\ NoCall \in Calls
    BY <2>1 DEF Match, IInv, TypeOK, Placed, NoCall, Calls
  <2>2. CASE \E udp \in BOOLEAN : Match(udp)
    BY <2>1, <2>2 DEF Match, Return, Reasons
  <2>3. CASE \E g \in Frame : Release(g)
    BY <2>3 DEF Release, IInv, TypeOK, Found
  <2> QED BY <2>2, <2>3
<1> USE DEF socket, ring, counters, received
<1>2. TypeOK'
  BY <1>1 DEF GiveBack, IInv, TypeOK
<1>3. Counted' /\ Owned' /\ Placed' /\ Found'
  BY <1>1 DEF GiveBack, IInv, TypeOK, Counted, Owned, Placed, Found
<1>4. UnreadWindow'
  <2>1. RingUp /\ RingUp' /\ Oldest' = Oldest /\ InTurn' = InTurn
    BY <1>1 DEF RingUp, Oldest, InTurn
  <2>2. CASE InTurn
    <3>1. \A g \in Frame : Unread(g)' <=> Unread(g)
      BY <1>1, <2>2 DEF GiveBack, Unread, IInv, TypeOK, Owned, InTurn
    <3> QED BY <1>1, <1>2, <2>1, <3>1, WindowKept
  <2>3. CASE ~InTurn
    BY <2>1, <2>3 DEF UnreadWindow
  <2> QED BY <2>2, <2>3
<1> QED BY <1>2, <1>3, <1>4 DEF IInv

-----------------------------------------------------------------------------
LEMMA NextInv == IInv /\ [Next]_vars => IInv'
<1> SUFFICES ASSUME IInv, [Next]_vars PROVE IInv'
  OBVIOUS
<1>1. CASE Next
  BY <1>1, OpenInv, SetRingInv, MapInv, UnmapInv, ForgetInv, ArriveInv, DropInv, FillInv,
     LookInv, TakeFrameInv, ReleaseInv DEF Next, UserStep
<1>2. CASE UNCHANGED vars
  BY <1>2 DEF vars, socket, kernel, ring, counters, user, plugin, hands, received, IInv, TypeOK, Counted,
     Owned, Placed, Found, UnreadWindow, RingUp, InTurn, Oldest, Marks, Unread
<1> QED BY <1>1, <1>2

LEMMA Invariance == Spec => []IInv
BY InitInv, NextInv, PTL DEF Spec

(* The state of socket, ring and plugin stays well typed: next_idx, head   *)
(* and the frames held are frames of the ring.                             *)
THEOREM TypeCorrect == Spec => []TypeOK
<1>1. IInv => TypeOK
  BY DEF IInv
<1> QED BY <1>1, Invariance, PTL

(* When poll() finds data that can only be the next frame, the second look *)
(* of hashpipe_pktsock_recv_frame() finds it.                              *)
THEOREM Explained == Spec => []NullExplained
<1>1. IInv => NullExplained
  BY DEF IInv, Found, NullExplained
<1> QED BY <1>1, Invariance, PTL

(* A frame the plugin has got once stays its own and is not written to,    *)
(* until it releases it or the ring comes round to it.                     *)
THEOREM Intact == Spec => HeldIntact
<1> DEFINE Kept == \A f \in (held \cap held') \ lapped' : status'[f] = "user" /\ packet'[f] = packet[f]
<1>1. IInv /\ [Next]_vars => [Kept]_vars
  <2> SUFFICES ASSUME IInv, Next, NEW f \in held, f \in held', f \notin lapped'
               PROVE  status'[f] = "user" /\ packet'[f] = packet[f]
    BY DEF vars
  <2> USE DEF socket, kernel, ring, counters, user, plugin, hands, received
  <2>1. IInv'
    BY NextInv DEF vars
  <2>2. status'[f] = "user"
    BY <2>1 DEF IInv, Owned
  <2>3. CASE Arrive
    <3>1. status[f] = "user" /\ f \in Frame
      BY <2>3 DEF Arrive, IInv, TypeOK, Owned
    <3> QED BY <2>2, <2>3, <3>1 DEF Arrive, IInv, TypeOK
  <2>4. CASE OpenFails \/ Close
    BY <2>4 DEF OpenFails, Close, IInv, Placed
  <2>5. CASE UNCHANGED packet
    BY <2>2, <2>5
  <2>6. CASE ~Arrive /\ ~OpenFails /\ ~Close
    BY <2>5, <2>6 DEF Next, UserStep, OpenInvalid, OpenSocket, Bind, SetRing, Map, Unmap, ArriveEarly, Drop, Fill,
       Recv, TakeFrame, Take, NoFrame, PollReady, PollFails, Poll, PollTimeout, Match, Release, Stats
  <2> QED BY <2>3, <2>4, <2>6
<1> QED BY <1>1, Invariance, PTL DEF Spec, HeldIntact

-----------------------------------------------------------------------------
(* The queue of packets in the ring                                        *)

Depth == Ring!DepthOf(Marks, Oldest, head)

(* The k-th frame of the window.                                           *)
LEMMA InRingFacts ==
    ASSUME NEW k \in Frame, Oldest \in Frame
    PROVE  /\ InRing(k) \in Frame
           /\ InRing(k) = IF Oldest + k < NFrames THEN Oldest + k ELSE Oldest + k - NFrames
           /\ Ring!Dist(Oldest, InRing(k)) = k
           /\ \A f \in Frame : Ring!Dist(Oldest, f) = k => f = InRing(k)
<1>1. InRing(k) = IF Oldest + k < NFrames THEN Oldest + k ELSE Oldest + k - NFrames
  <2>1. CASE Oldest + k < NFrames
    BY <2>1 DEF InRing, Frame
  <2>2. CASE Oldest + k >= NFrames
    BY <2>2 DEF InRing, Frame
  <2> QED BY <2>1, <2>2 DEF Frame
<1> QED BY <1>1 DEF Frame, Ring!Dist

LEMMA OldestType == IInv => Oldest \in Frame /\ head \in Frame
BY DEF IInv, TypeOK, Oldest, Frame

(* There are as many unread packets as the window is deep.                 *)
InWindow == [k \in 1 .. Depth |-> packet[InRing(k - 1)]]

LEMMA QueueIs ==
    IInv /\ RingUp /\ InTurn =>
         /\ Depth \in 0 .. NFrames
         /\ Queue = InWindow
         /\ Queue \in Seq(0 .. MaxPacket)
         /\ Len(Queue) = Depth
<1> SUFFICES ASSUME IInv, RingUp, InTurn
             PROVE  /\ Depth \in 0 .. NFrames
                    /\ Queue = InWindow
                    /\ Queue \in Seq(0 .. MaxPacket)
                    /\ Len(Queue) = Depth
  OBVIOUS
<1>1. Depth \in 0 .. NFrames
  BY OldestType DEF Depth, Ring!DepthOf, Ring!Dist, Frame
<1>2. \A k \in Frame : Unread(InRing(k)) <=> k < Depth
  <2> SUFFICES ASSUME NEW k \in Frame PROVE Unread(InRing(k)) <=> k < Depth
    OBVIOUS
  <2>1. InRing(k) \in Frame /\ Ring!Dist(Oldest, InRing(k)) = k
    BY OldestType, InRingFacts
  <2>2. Unread(InRing(k)) <=> Marks[InRing(k)] = 1
    BY <2>1 DEF Marks
  <2>3. Marks[InRing(k)] = 1 <=> Ring!Dist(Oldest, InRing(k)) < Depth
    BY <2>1 DEF IInv, UnreadWindow, Ring!Window, Ring!Block, Frame, Depth
  <2> QED BY <2>1, <2>2, <2>3
<1>3. {k \in Frame : \A j \in 0 .. k : Unread(InRing(j))} = 0 .. Depth - 1
  <2>1. ASSUME NEW k \in Frame
        PROVE  (\A j \in 0 .. k : Unread(InRing(j))) <=> k < Depth
    <3>1. \A j \in 0 .. k : j \in Frame
      BY DEF Frame
    <3>2. k \in 0 .. k
      BY DEF Frame
    <3> QED BY <1>1, <1>2, <3>1, <3>2 DEF Frame
  <2> QED BY <1>1, <2>1 DEF Frame
<1>4. NUnread = Depth
  <2>1. Cardinality(0 .. Depth - 1) = Depth
    BY <1>1, FS_Interval
  <2> QED BY <1>3, <2>1 DEF NUnread
<1>5. Queue = InWindow
  BY <1>4 DEF Queue, InWindow
<1>6. \A k \in 1 .. Depth : packet[InRing(k - 1)] \in 0 .. MaxPacket
  <2> SUFFICES ASSUME NEW k \in 1 .. Depth PROVE packet[InRing(k - 1)] \in 0 .. MaxPacket
    OBVIOUS
  <2>1. InRing(k - 1) \in Frame
    BY <1>1, OldestType, InRingFacts DEF Frame
  <2> QED BY <2>1 DEF IInv, TypeOK
<1> QED BY <1>1, <1>5, <1>6 DEF InWindow

(* The queue is in the ring, so there is none without one, and none when a *)
(* frame was handed out twice.                                             *)
LEMMA QueueType == IInv => Queue \in Seq(0 .. MaxPacket) /\ Len(Queue) \in 0 .. NFrames
<1>1. CASE RingUp /\ InTurn
  BY <1>1, QueueIs
<1>2. CASE ~(RingUp /\ InTurn)
  <2>1. Queue = << >>
    BY <1>2 DEF Queue
  <2>2. Len(<< >>) = 0 /\ << >> \in Seq(0 .. MaxPacket)
    OBVIOUS
  <2> QED BY <2>1, <2>2
<1> QED BY <1>1, <1>2

(* A packet that arrives is appended.                                      *)
LEMMA ArriveAppends ==
    ASSUME IInv, Arrive, InTurn
    PROVE  Len(Queue) < NFrames /\ Queue' = Append(Queue, arrived + 1)
<1>1. IInv' /\ RingUp /\ RingUp' /\ Oldest' = Oldest /\ InTurn'
  BY ArriveInv DEF Arrive, RingUp, InTurn, Oldest, socket, user, plugin, hands
<1>2. PICK h \in Frame : h = head
  BY OldestType
<1>3. ~Unread(h) /\ Oldest \in Frame
  BY <1>2, OldestType DEF Arrive, IInv, Owned, Unread, InTurn
<1>4. Marks' = [Marks EXCEPT ![h] = 1]
  <2>1. \A f \in Frame : f # h => (Unread(f)' <=> Unread(f))
    BY <1>2 DEF Arrive, Unread, user, plugin, hands
  <2>2. Unread(h)'
    BY <1>2 DEF Arrive, Unread, IInv, Owned, InTurn, user, plugin
  <2> QED BY <2>1, <2>2 DEF Marks
<1>5. Depth = Ring!Dist(Oldest, h) /\ Depth' = Depth + 1
  <2>1. Ring!Window(Marks, Oldest, h) /\ Marks[h] = 0
    BY <1>1, <1>2, <1>3 DEF IInv, UnreadWindow, Marks
  <2>2. Ring!DepthOf([Marks EXCEPT ![h] = 1], Oldest, After(h)) = Ring!DepthOf(Marks, Oldest, h) + 1
    BY <1>3, <2>1, WindowGrows, MarksType
  <2>3. Ring!DepthOf(Marks, Oldest, h) = Ring!Dist(Oldest, h)
    BY <1>3, <2>1, WindowGrows, MarksType
  <2>4. head' = After(h)
    BY <1>2 DEF Arrive
  <2> QED BY <1>1, <1>2, <1>4, <2>2, <2>3, <2>4 DEF Depth
<1>6. Depth \in Frame /\ InRing(Depth) = h
  <2>1. Depth \in Frame
    BY <1>3, <1>5 DEF Ring!Dist, Frame
  <2> QED BY <1>2, <1>3, <1>5, <2>1, InRingFacts
<1>7. \A k \in 1 .. Depth : InRing(k - 1) \in Frame /\ InRing(k - 1) # h
  <2> SUFFICES ASSUME NEW k \in 1 .. Depth PROVE InRing(k - 1) \in Frame /\ InRing(k - 1) # h
    OBVIOUS
  <2>1. k - 1 \in Frame /\ k - 1 # Depth
    BY <1>6 DEF Frame
  <2> QED BY <1>3, <1>5, <2>1, InRingFacts
<1>8. \A k \in Nat : InRing(k)' = InRing(k)
  BY <1>1 DEF InRing
<1>9. packet' = [packet EXCEPT ![h] = arrived + 1] /\ packet \in [Frame -> 0 .. MaxPacket]
  BY <1>2 DEF Arrive, IInv, TypeOK
<1>10. Queue = [k \in 1 .. Depth |-> packet[InRing(k - 1)]] /\ Len(Queue) = Depth /\ Queue \in Seq(0 .. MaxPacket)
  BY <1>1, QueueIs DEF InWindow
<1>11. Queue' = [k \in 1 .. Depth + 1 |-> packet'[InRing(k - 1)']]
  <2>1. (Queue = InWindow)'
    BY <1>1, QueueIs, PTL
  <2> QED BY <1>5, <2>1 DEF InWindow
<1>12. Queue' = [k \in 1 .. Depth + 1 |-> packet'[InRing(k - 1)]]
  BY <1>6, <1>8, <1>11 DEF Frame
<1>13. \A k \in 1 .. Depth : packet'[InRing(k - 1)] = packet[InRing(k - 1)]
  BY <1>7, <1>9
<1>14. packet'[InRing(Depth)] = arrived + 1
  BY <1>6, <1>9
<1>15. Append(Queue, arrived + 1) = [k \in 1 .. Depth + 1 |-> IF k <= Depth THEN packet[InRing(k - 1)] ELSE arrived + 1]
  BY <1>6, <1>10 DEF Frame
<1> QED BY <1>6, <1>10, <1>12, <1>13, <1>14, <1>15 DEF Frame

(* The plugin takes the oldest packet.                                     *)
LEMMA TakeRemoves ==
    ASSUME IInv, TakeFrame, InTurn'
    PROVE  Queue # << >> /\ Queue' = Tail(Queue)
<1>1. /\ IInv' /\ RingUp /\ RingUp' /\ Oldest = next_idx /\ Oldest' = next_idx'
      /\ InTurn /\ next_idx \notin held
  BY TakeFrameInv DEF TakeFrame, Take, IInv, Placed, RingUp, InTurn, Oldest, socket
<1>2. PICK n \in Frame : n = next_idx
  BY DEF IInv, TypeOK
<1>3. next_idx' = After(n) /\ After(n) \in Frame
  BY <1>2, AfterFacts DEF TakeFrame
<1>4. Unread(n)
  BY <1>1, <1>2 DEF TakeFrame, Unread
<1>5. Marks' = [Marks EXCEPT ![n] = 0]
  <2>1. \A f \in Frame : f # n => (Unread(f)' <=> Unread(f))
    BY <1>2 DEF TakeFrame, Take, Unread, kernel, ring
  <2>2. ~Unread(n)'
    BY <1>2 DEF TakeFrame, Take, Unread
  <2> QED BY <2>1, <2>2 DEF Marks
<1>6. Depth' = Depth - 1
  <2>1. Ring!Window(Marks, n, head) /\ Marks[n] = 1 /\ head \in Frame
    BY <1>1, <1>2, <1>4 DEF IInv, UnreadWindow, TypeOK, Marks
  <2>2. Ring!DepthOf([Marks EXCEPT ![n] = 0], After(n), head) = Ring!DepthOf(Marks, n, head) - 1
    BY <2>1, WindowShrinks, MarksType
  <2>3. head' = head
    BY DEF TakeFrame, Take, kernel, ring
  <2> QED BY <1>1, <1>2, <1>3, <1>5, <2>2, <2>3 DEF Depth
<1>7. /\ Depth \in 0 .. NFrames /\ Queue \in Seq(0 .. MaxPacket) /\ Len(Queue) = Depth
      /\ Queue = [k \in 1 .. Depth |-> packet[InRing(k - 1)]]
  BY <1>1, QueueIs DEF InWindow
<1>8. Depth >= 1 /\ Queue' = [k \in 1 .. Depth - 1 |-> packet'[InRing(k - 1)']]
  <2>1. (Queue = InWindow)' /\ (Depth \in 0 .. NFrames)'
    BY <1>1, QueueIs, PTL
  <2> QED BY <1>6, <1>7, <2>1 DEF InWindow
<1>9. \A k \in 1 .. Depth - 1 : InRing(k - 1)' = InRing(k)
  <2> SUFFICES ASSUME NEW k \in 1 .. Depth - 1 PROVE InRing(k - 1)' = InRing(k)
    OBVIOUS
  <2>1. k \in Frame /\ k - 1 \in Frame
    BY <1>7 DEF Frame
  <2>2. InRing(k - 1)' = (After(n) + (k - 1)) % NFrames
    BY <1>1, <1>3 DEF InRing
  <2>3. InRing(k) = IF n + k < NFrames THEN n + k ELSE n + k - NFrames
    BY <1>1, <1>2, <2>1, InRingFacts
  <2>4. After(n) = IF n + 1 >= NFrames THEN 0 ELSE n + 1
    BY AfterFacts
  <2>5. CASE After(n) + (k - 1) < NFrames
    BY <1>3, <2>1, <2>2, <2>3, <2>4, <2>5 DEF Frame
  <2>6. CASE After(n) + (k - 1) >= NFrames
    <3>1. (After(n) + (k - 1)) % NFrames = After(n) + (k - 1) - NFrames
      BY <1>3, <2>1, <2>6 DEF Frame
    <3> QED BY <1>3, <2>1, <2>2, <2>3, <2>4, <2>6, <3>1 DEF Frame
  <2> QED BY <1>3, <2>1, <2>5, <2>6 DEF Frame
<1>10. packet' = packet
  BY DEF TakeFrame, Take, kernel, ring
<1>11. Queue' = [k \in 1 .. Depth - 1 |-> packet[InRing(k)]]
  BY <1>8, <1>9, <1>10
<1>12. Tail(Queue) = [k \in 1 .. Depth - 1 |-> Queue[k + 1]]
  BY <1>7, <1>8
<1>13. \A k \in 1 .. Depth - 1 : Queue[k + 1] = packet[InRing(k)]
  BY <1>7
<1> QED BY <1>7, <1>8, <1>11, <1>12, <1>13

(* Steps that neither give a frame to a packet nor take one nor make or    *)
(* forget the ring leave the queue as it is.                               *)
LEMMA OthersKeep ==
    ASSUME IInv, IInv', RingUp <=> RingUp', RingUp => Oldest' = Oldest, UNCHANGED packet,
           InTurn <=> InTurn', RingUp => head' = head,
           InTurn => \A f \in Frame : Unread(f)' <=> Unread(f)
    PROVE  Queue' = Queue
<1>1. CASE RingUp /\ InTurn
  <2>1. Marks' = Marks
    BY <1>1 DEF Marks
  <2>2. Depth' = Depth
    BY <1>1, <2>1 DEF Depth
  <2>3. Queue = InWindow
    BY <1>1, QueueIs
  <2>4. (Queue = InWindow)'
    BY <1>1, QueueIs, PTL
  <2>5. \A k \in Nat : InRing(k)' = InRing(k)
    BY <1>1 DEF InRing
  <2>6. InWindow' = InWindow
    <3>1. Depth \in 0 .. NFrames
      BY <1>1, QueueIs
    <3> QED BY <2>2, <2>5, <3>1 DEF InWindow
  <2> QED BY <2>3, <2>4, <2>6
<1>2. CASE ~(RingUp /\ InTurn)
  BY <1>2 DEF Queue
<1> QED BY <1>1, <1>2

LEMMA NewRingEmpty ==
    ASSUME IInv, SetRing
    PROVE  Queue = << >> /\ Queue' = << >>
<1>1. IInv' /\ ~RingUp /\ RingUp'
  BY SetRingInv DEF SetRing, RingUp
<1>2. Oldest' = 0 /\ 0 \in Frame
  BY DEF SetRing, Oldest, Frame
<1>3. Marks'[0] = 0
  BY <1>1, <1>2 DEF IInv, UnreadWindow, Unread, Marks, SetRing, kernel, ring, user, plugin, hands
<1>4. Depth' = 0
  BY <1>2, <1>3 DEF Depth, Ring!DepthOf
<1>5. CASE InTurn
  <2>1. InTurn'
    BY <1>5 DEF SetRing, InTurn, user, plugin, hands
  <2>2. (Queue = InWindow)'
    BY <1>1, <2>1, QueueIs, PTL
  <2> QED BY <1>1, <1>4, <2>2 DEF InWindow, Queue
<1>6. CASE ~InTurn
  BY <1>6 DEF SetRing, Queue, InTurn, user, plugin, hands
<1> QED BY <1>5, <1>6

(* What any other step does to the ring.                                   *)
LEMMA OtherSteps ==
    ASSUME IInv, [Next]_vars, ~Arrive, ~TakeFrame, ~OpenFails, ~Close
    PROVE  Queue' = Queue
<1> USE DEF socket, kernel, ring, counters, user, plugin, hands, received
<1>1. IInv'
  BY NextInv
<1>2. CASE SetRing
  BY <1>2, NewRingEmpty
<1>3. CASE OpenInvalid \/ OpenSocket \/ Bind \/ ArriveEarly \/ Map \/ Unmap
  <2>1. (RingUp <=> RingUp') /\ (RingUp => Oldest' = Oldest)
    BY <1>3 DEF OpenInvalid, OpenSocket, Bind, ArriveEarly, Map, Unmap, RingUp, InTurn, Oldest
  <2>2. UNCHANGED <<packet, head, held, lapped, filling, status>>
    BY <1>3 DEF OpenInvalid, OpenSocket, Bind, ArriveEarly, Map, Unmap
  <2> QED BY <1>1, <2>1, <2>2, OthersKeep DEF Unread, InTurn
<1>4. CASE Drop \/ NoFrame \/ PollReady \/ PollFails \/ PollTimeout \/ Stats \/ \E c \in Calls : Recv(c)
  <2>1. UNCHANGED <<sock, next_idx, packet, head, held, lapped, filling, status>>
    BY <1>4 DEF Drop, NoFrame, PollReady, PollFails, Poll, PollTimeout, Stats, Recv
  <2> QED BY <1>1, <2>1, OthersKeep DEF Unread, RingUp, InTurn, Oldest
<1>5. ASSUME NEW f \in Frame, Fill(f) PROVE Queue' = Queue
  <2>1. UNCHANGED <<sock, next_idx, packet, head, held, lapped>>
    BY <1>5 DEF Fill
  <2>2. \A g \in Frame : Unread(g)' <=> Unread(g)
    BY <1>5 DEF Fill, Unread, IInv, TypeOK
  <2> QED BY <1>1, <2>1, <2>2, OthersKeep DEF RingUp, InTurn, Oldest
<1>6. ASSUME NEW f \in Frame, Release(f) PROVE Queue' = Queue
  <2>1. UNCHANGED <<sock, next_idx, packet, head, lapped, filling>>
    BY <1>6 DEF Release
  <2>2. InTurn => \A g \in Frame : Unread(g)' <=> Unread(g)
    BY <1>6 DEF Release, GiveBack, Unread, IInv, TypeOK, Owned, InTurn
  <2> QED BY <1>1, <2>1, <2>2, OthersKeep DEF RingUp, InTurn, Oldest
<1>7. ASSUME NEW udp \in BOOLEAN, Match(udp) PROVE Queue' = Queue
  <2>1. UNCHANGED <<sock, next_idx, packet, head, lapped, filling>>
    BY <1>7 DEF Match
  <2>2. ASSUME InTurn PROVE \A g \in Frame : Unread(g)' <=> Unread(g)
    <3>1. frame \in Frame /\ frame \in held /\ frame \notin filling /\ again = {}
      BY <1>7, <2>2 DEF Match, IInv, TypeOK, Placed, Owned, InTurn
    <3> QED BY <1>7, <3>1 DEF Match, GiveBack, Unread, IInv, TypeOK
  <2> QED BY <1>1, <2>1, <2>2, OthersKeep DEF RingUp, InTurn, Oldest
<1>8. CASE UNCHANGED vars
  <2>1. UNCHANGED <<sock, next_idx, packet, head, held, lapped, filling, status>>
    BY <1>8 DEF vars
  <2> QED BY <1>1, <2>1, OthersKeep DEF Unread, RingUp, InTurn, Oldest
<1> QED BY <1>2, <1>3, <1>4, <1>5, <1>6, <1>7, <1>8 DEF Next, UserStep

(* Once a frame was handed out twice there is no queue, until the close.   *)
LEMMA OutOfTurn ==
    /\ ~InTurn => Queue = << >>
    /\ ~InTurn' => Queue' = << >>
BY DEF Queue

LEMMA TurnKept ==
    ASSUME [Next]_vars, ~Close, InTurn'
    PROVE  InTurn
<1> USE DEF socket, kernel, ring, counters, user, plugin, hands, received, InTurn
<1>1. CASE UNCHANGED vars
  BY <1>1 DEF vars
<1>2. CASE Next
  BY <1>2 DEF Next, UserStep, OpenInvalid, OpenSocket, Bind, SetRing, Map, OpenFails, Unmap, ArriveEarly, Arrive,
     Drop, Fill, Recv, TakeFrame, Take, NoFrame, PollReady, PollFails, Poll, PollTimeout, Match, Release, Stats
<1> QED BY <1>1, <1>2

LEMMA RingForgotten ==
    ASSUME OpenFails \/ Close
    PROVE  sock' = "none" /\ Queue' = << >>
BY DEF OpenFails, Close, Queue, RingUp

(* What stats reported and the counters hold adds up with what was received*)
(* and what is in the ring, for every ring and number of packets.          *)
THEOREM CountersAgree == Spec => []StatsAgree
<1>1. Init => StatsAgree
  BY DEF Init, StatsAgree
<1>2. IInv /\ StatsAgree /\ [Next]_vars => StatsAgree'
  <2> SUFFICES ASSUME IInv, StatsAgree, [Next]_vars, sock' # "none", InTurn'
               PROVE  told' + packets' - drops' = early' + got' + Len(Queue')
    BY DEF StatsAgree
  <2> USE DEF socket, kernel, ring, counters, user, plugin, hands, received
  <2>1. /\ told \in Int /\ packets \in Int /\ drops \in Int /\ early \in Int /\ got \in Int
        /\ Queue \in Seq(0 .. MaxPacket) /\ Len(Queue) \in Int
    BY QueueType DEF IInv, TypeOK
  <2>2. CASE Arrive
    <3>1. sock # "none" /\ InTurn /\ UNCHANGED <<told, drops, early, got>> /\ packets' = packets + 1
      BY <2>2 DEF Arrive, RingUp, InTurn
    <3>2. Len(Queue') = Len(Queue) + 1
      BY <2>1, <2>2, <3>1, ArriveAppends
    <3> QED BY <2>1, <3>1, <3>2 DEF StatsAgree
  <2>3. CASE TakeFrame
    <3>1. sock # "none" /\ InTurn /\ UNCHANGED <<told, packets, drops, early>> /\ got' = got + 1
      BY <2>3 DEF TakeFrame, Take, IInv, Placed, InTurn
    <3>2. Len(Queue') = Len(Queue) - 1
      BY <2>1, <2>3, TakeRemoves
    <3> QED BY <2>1, <3>1, <3>2 DEF StatsAgree
  <2>4. CASE OpenFails \/ Close
    BY <2>4, RingForgotten
  <2>5. CASE OpenSocket
    <3>1. Queue' = << >>
      BY <2>5 DEF OpenSocket, Queue, RingUp
    <3> QED BY <2>5, <3>1 DEF OpenSocket
  <2>6. CASE ~Arrive /\ ~TakeFrame /\ ~OpenFails /\ ~Close /\ ~OpenSocket
    <3>1. Queue' = Queue /\ InTurn
      BY <2>6, OtherSteps, TurnKept
    <3>2. CASE ArriveEarly
      BY <2>1, <3>1, <3>2 DEF ArriveEarly, StatsAgree
    <3>3. CASE Drop
      BY <2>1, <3>1, <3>3 DEF Drop, RingUp, StatsAgree
    <3>4. CASE Stats
      BY <2>1, <3>1, <3>4 DEF Stats, StatsAgree
    <3>5. CASE ~ArriveEarly /\ ~Drop /\ ~Stats
      <4>1. UNCHANGED <<told, packets, drops, early, got>> /\ sock # "none"
        <5>1. CASE UNCHANGED vars
          BY <5>1 DEF vars
        <5>2. CASE Next
          BY <2>6, <3>5, <5>2 DEF Next, UserStep, OpenInvalid, Bind, SetRing, Map, Unmap, Fill, Recv, NoFrame,
             PollReady, PollFails, Poll, PollTimeout, Match, Release, IInv, Placed
        <5> QED BY <5>1, <5>2
      <4> QED BY <3>1, <4>1 DEF StatsAgree
    <3> QED BY <3>2, <3>3, <3>4, <3>5
  <2> QED BY <2>2, <2>3, <2>4, <2>5, <2>6
<1> QED BY <1>1, <1>2, Invariance, PTL DEF Spec

(* The ring implements the queue of BlockFifo: Arrive puts a packet, a     *)
(* frame that is taken is got, a ring that is forgotten is flushed, and    *)
(* every other step of kernel and plugin stutters.  A held frame that is   *)
(* handed out again is mapped to a flush, and stuttering to the close.     *)
THEOREM Refinement == Spec => IsFifo
<1> DEFINE queue == [d \in {"ring"} |-> Queue]
<1>1. Init => Fifo!Init
  BY DEF Init, Fifo!Init, Queue, RingUp
<1>2. IInv /\ [Next]_vars => [Fifo!Next]_queue
  <2> SUFFICES ASSUME IInv, [Next]_vars PROVE Fifo!Next \/ queue' = queue
    OBVIOUS
  <2>1. CASE Arrive /\ InTurn
    <3>1. arrived + 1 \in Packet
      BY <2>1 DEF Arrive, IInv, TypeOK, Packet
    <3>2. Fifo!Put("ring", arrived + 1)
      BY <2>1, ArriveAppends DEF Fifo!Put
    <3> QED BY <3>1, <3>2 DEF Fifo!Next
  <2>2. CASE TakeFrame /\ InTurn'
    <3>1. Fifo!Get("ring")
      BY <2>2, TakeRemoves DEF Fifo!Get
    <3> QED BY <3>1 DEF Fifo!Next
  <2>3. CASE OpenFails \/ Close
    BY <2>3, RingForgotten DEF Fifo!Flush, Fifo!Next
  <2>4. CASE ~Arrive /\ ~TakeFrame /\ ~OpenFails /\ ~Close
    BY <2>4, OtherSteps
  <2>5. CASE Arrive /\ ~InTurn
    <3>1. ~InTurn'
      BY <2>5 DEF Arrive, InTurn, user, plugin, hands
    <3> QED BY <2>5, <3>1, OutOfTurn
  <2>6. CASE TakeFrame /\ ~InTurn'
    BY <2>6, OutOfTurn DEF Fifo!Flush, Fifo!Next
  <2> QED BY <2>1, <2>2, <2>3, <2>4, <2>5, <2>6
<1> QED BY <1>1, <1>2, Invariance, PTL DEF Spec, IsFifo, Fifo!Spec
=============================================================================
