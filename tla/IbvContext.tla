----------------------------- MODULE IbvContext -----------------------------
(***************************************************************************)
(* hashpipe_ibv_context (hashpipe_ibverbs.c): what hashpipe_ibv_init()     *)
(* gets from the driver and the C library, one thing after the other, any  *)
(* of which may be refused, and hashpipe_ibv_shutdown() gives back.        *)
(*                                                                         *)
(* exists is what there really is; field is what the context points to.    *)
(* Flow rules are in both, by their index in ibv_flows (module IbvFlow);   *)
(* "lost" is a rule whose pointer was overwritten.                         *)
(***************************************************************************)
EXTENDS Integers, Sequences, FiniteSets

CONSTANTS nqp,           \* queue pairs
          MaxFlows,      \* max_flows: flow rules, each of them once per queue pair
          NDevices,      \* devices of the machine
          MaxFail,       \* bound: calls that fail
          MaxInit        \* bound: calls of init and of shutdown

ASSUME IbvContextAssumption ==
    /\ nqp \in Nat \ {0} /\ MaxFlows \in Nat \ {0} /\ NDevices \in Nat
    /\ MaxFail \in Nat /\ MaxInit \in Nat

VARIABLES pc,            \* "down", or where init or shutdown is, or "up"
          step,          \* at which of its steps
          user_managed_flag,
          exists, field,
          calls,         \* calls of init and shutdown so far
          failures,      \* calls that failed so far
          spoiled,       \* history: a release failed, or a pointer was lost
          wrong          \* history: what was released twice, or too early

work == <<pc, step, user_managed_flag, calls>>
history == <<spoiled, wrong>>
contextVars == <<work, exists, field, failures, history>>

QP == 0 .. nqp - 1
Each(n) == [i \in 1 .. nqp |-> <<n, i - 1>>]
One(n) == << <<n, 0>> >>

(* The packet buffers are one mapping each, for all QPs.                   *)
Mapped == {"send_mr_buf", "recv_mr_buf"}
PktBufs == One("send_pkt_buf") \o One("recv_pkt_buf") \o One("send_sge_buf") \o One("recv_sge_buf")

(* What init gets after the device, in this order.  "posted" stands for    *)
(* ibv_post_recv().                                                        *)
Plan ==
    One("pd") \o One("recv_cc") \o One("send_cqs") \o Each("send_cq") \o
    One("recv_cqs") \o Each("recv_cq") \o One("qps") \o Each("qp") \o
    (IF user_managed_flag THEN << >> ELSE PktBufs \o One("send_mr_buf") \o One("recv_mr_buf")) \o
    One("send_mr") \o One("recv_mr") \o Each("posted") \o
    One("ibv_flows") \o One("flow_dst_ips") \o One("mcast_subscriber")

(* Mutant: the completion queues go before the queue pairs.                *)
TeardownQueuesFirst ==
    One("send_mr") \o One("recv_mr") \o Each("send_cq") \o One("send_cqs") \o
    Each("recv_cq") \o One("recv_cqs") \o Each("qp") \o One("qps") \o
    One("recv_cc") \o One("pd") \o One("ctx") \o
    (IF user_managed_flag THEN << >> ELSE PktBufs \o One("send_mr_buf") \o One("recv_mr_buf")) \o
    One("ibv_flows") \o One("flow_dst_ips") \o One("mcast_subscriber")

(* What shutdown releases after the flow rules, in this order.             *)
Teardown ==
    One("send_mr") \o One("recv_mr") \o Each("qp") \o One("qps") \o
    Each("send_cq") \o One("send_cqs") \o Each("recv_cq") \o One("recv_cqs") \o
    One("recv_cc") \o One("pd") \o One("ctx") \o
    (IF user_managed_flag THEN << >> ELSE PktBufs \o One("send_mr_buf") \o One("recv_mr_buf")) \o
    One("ibv_flows") \o One("flow_dst_ips") \o One("mcast_subscriber")

(* What the driver refuses to release, or must not be freed, before others.*)
Needs(n) ==
    CASE n \in {"pd", "recv_cc", "send_cq"} -> {"ctx"}
      [] n = "recv_cq" -> {"ctx", "recv_cc"}
      [] n = "qp" -> {"pd", "send_cq", "recv_cq"}
      [] n = "send_mr" -> {"pd", "send_mr_buf"}
      [] n = "recv_mr" -> {"pd", "recv_mr_buf"}
      [] n \in {"rule", "lost"} -> {"qp"}
      [] OTHER -> {}
PerQP == {"send_cq", "recv_cq", "qp"}
QPOf(u) == IF u[1] \in {"rule", "lost"} THEN u[2] \div MaxFlows ELSE u[2]
Users(r) == {u \in exists : r[1] \in Needs(u[1]) /\ (r[1] \in PerQP => r[2] = QPOf(u))}

TypeOKContext ==
    /\ pc \in {"down", "open", "init", "up", "rules", "teardown"}
    /\ user_managed_flag \in BOOLEAN /\ spoiled \in BOOLEAN
    /\ step \in Nat /\ calls \in 0 .. MaxInit /\ failures \in 0 .. MaxFail

InitContext ==
    /\ pc = "down" /\ step = 0
    /\ user_managed_flag \in BOOLEAN
    /\ exists = {} /\ field = {}
    /\ calls = 0 /\ failures = 0
    /\ spoiled = FALSE /\ wrong = {}

Fail == failures < MaxFail /\ failures' = failures + 1
At(l, s) == pc' = l /\ step' = s /\ UNCHANGED <<user_managed_flag, calls>>

-----------------------------------------------------------------------------
(* hashpipe_ibv_init(): the interface is there; every pointer is reset.    *)
Start ==
    /\ pc = "down" /\ calls < MaxInit
    /\ pc' = "open" /\ step' = 1 /\ calls' = calls + 1
    /\ field' = {r \in field : r[1] \in {"ibv_flows", "flow_dst_ips", "rule"}}
    /\ UNCHANGED <<user_managed_flag, exists, failures, spoiled, wrong>>

(* Device by device: one that cannot be opened or asked is passed over, ...*)
PassDevice ==
    /\ pc = "open" /\ step <= NDevices
    /\ Fail
    /\ At("open", step + 1)
    /\ UNCHANGED <<exists, field, history>>

(* ... one that has not the interface is closed, ...                       *)
OtherDevice ==
    /\ pc = "open" /\ step <= NDevices
    /\ At("open", step + 1)
    /\ \/ UNCHANGED <<exists, failures, spoiled>>
       \/ Fail /\ exists' = exists \cup {<<"device", step>>} /\ spoiled' = TRUE
    /\ UNCHANGED <<field, wrong>>

(* ... the one that has it is kept.  Else init returns at once.            *)
FoundDevice ==
    /\ pc = "open" /\ step <= NDevices
    /\ exists' = exists \cup {<<"ctx", 0>>} /\ field' = field \cup {<<"ctx", 0>>}
    /\ At("init", 1)
    /\ UNCHANGED <<failures, history>>

NoDevice ==
    /\ pc = "open" /\ step > NDevices
    /\ At("down", 0)
    /\ UNCHANGED <<exists, field, failures, history>>

Got(r) ==
    IF r[1] = "posted" THEN {}
    ELSE IF r[1] \in Mapped THEN {<<r[1], i>> : i \in QP}
    ELSE {r}

GetNext ==
    /\ pc = "init"
    /\ exists' = exists \cup Got(Plan[step])
    /\ field' = field \cup Got(Plan[step])
    /\ IF step < Len(Plan) THEN At("init", step + 1) ELSE At("up", 0)
    /\ UNCHANGED <<failures, history>>

(* Mutant: a failure returns without the cleanup.                          *)
GetNextReturns ==
    /\ pc = "init"
    /\ Fail
    /\ field' = field
    /\ At("down", 0)
    /\ UNCHANGED <<exists, history>>

(* Cleanup.  A mapping that fails leaves MAP_FAILED in the context, which  *)
(* munmap() refuses later; one that cannot be locked is there.             *)
GetNextFails ==
    /\ pc = "init"
    /\ Fail
    /\ \/ UNCHANGED <<exists, field>>
       \/ /\ Plan[step][1] \in Mapped \cup {"recv_cc", "qp"} \cup {"recv_cq"}
          /\ exists' = exists \cup Got(Plan[step])
          /\ field' = field \cup Got(Plan[step])
    /\ At("rules", 0)
    /\ UNCHANGED history

-----------------------------------------------------------------------------
(* hashpipe_ibv_shutdown(), also on what failed to come up or is down.     *)
Shutdown ==
    /\ pc \in {"up", "down"} /\ calls \in 1 .. MaxInit - 1
    /\ pc' = "rules" /\ step' = 0 /\ calls' = calls + 1
    /\ UNCHANGED <<user_managed_flag, exists, field, failures, history>>

(* The part of a resource that its release returns: a mapping is unmapped  *)
(* with the size for one QP.                                               *)
Returned(r) == {r} \cap exists

(* The context forgets it, whatever the release returns.                   *)
Forgotten(r) ==
    IF r[1] \in Mapped THEN {u \in field : u[1] = r[1]}
    ELSE IF r[1] = "ibv_flows" THEN {u \in field : u[1] \in {"ibv_flows", "rule"}}
    ELSE IF r[1] = "mcast_subscriber" THEN {} ELSE {r}

Continue == IF step < Len(Teardown) THEN At("teardown", step + 1) ELSE At("down", 0)

(* Freed memory does not fail.                                             *)
Heap == {"send_cqs", "recv_cqs", "qps", "send_pkt_buf", "recv_pkt_buf", "send_sge_buf",
         "recv_sge_buf", "ibv_flows", "flow_dst_ips"} \cup Mapped

ReleaseNext ==
    /\ pc = "teardown"
    /\ LET r == Teardown[step]
       IN /\ r \in field
          /\ r[1] \in Heap \/ Users(r) = {}
          /\ exists' = exists \ Returned(r)
          /\ field' = field \ Forgotten(r)
          /\ wrong' = wrong \cup (IF r \in exists THEN {} ELSE {r})
                            \cup (IF spoiled \/ Users(r) = {} THEN {} ELSE {r})
    /\ Continue
    /\ UNCHANGED <<failures, spoiled>>

(* The driver refuses what is still in use, or has another reason.         *)
ReleaseFails ==
    /\ pc = "teardown"
    /\ LET r == Teardown[step]
       IN /\ r \in field /\ r[1] \notin Heap
          /\ field' = field \ Forgotten(r)
          /\ IF Users(r) = {} THEN Fail ELSE UNCHANGED failures
          /\ wrong' = wrong \cup (IF spoiled \/ Users(r) = {} THEN {} ELSE {r})
    /\ spoiled' = TRUE
    /\ Continue
    /\ UNCHANGED exists

NothingToRelease ==
    /\ pc = "teardown"
    /\ Teardown[step] \notin field
    /\ Continue
    /\ UNCHANGED <<exists, field, failures, history>>

NextContext ==
    \/ Start \/ PassDevice \/ OtherDevice \/ FoundDevice \/ NoDevice
    \/ GetNext \/ GetNextFails
    \/ Shutdown \/ ReleaseNext \/ ReleaseFails \/ NothingToRelease

-----------------------------------------------------------------------------
(* Shutdown never releases anything twice, nor anything that something     *)
(* else still uses because it comes later in its order; only the socket    *)
(* for multicast groups is closed again by a second shutdown.              *)
ReleasedRight == wrong \subseteq {<<"mcast_subscriber", 0>>}

(* The buffers of the QPs after the first.                                 *)
Leftover == {<<b, i>> : b \in Mapped, i \in QP \ {0}}

(* "This function releases all library managed resources" and, without     *)
(* user_managed_flag, "packet buffers" (hashpipe_ibverbs.h:340): after a   *)
(* shutdown in which every call succeeded there is nothing left.  It does  *)
(* not hold: munmap() is told the size of one QP's buffers                 *)
(* (hashpipe_ibverbs.c:909), and those of the others stay mapped.          *)
NothingLeft == pc = "down" /\ ~spoiled => exists = {}

(* That is all that stays.  An init that fails at any of its calls, at the *)
(* device, half way through the QPs or with the last one, and a shutdown   *)
(* whose calls all succeed, give everything else back: no queue, memory    *)
(* region, flow rule or buffer of the first QP is forgotten.               *)
OnlyBuffersLeft ==
    pc = "down" /\ ~spoiled => exists \subseteq Leftover

-----------------------------------------------------------------------------
(* What these rest on: the context points to nothing that is gone, ...     *)
Closed == {<<"mcast_subscriber", 0>>}
PointsRight == field \ Closed \subseteq exists

(* ... and it points to all there is, which is what is still to be         *)
(* released: the rest of what shutdown goes through, and rules only while  *)
(* they are in use or not yet gone through.                                *)
From(n) == {Teardown[j] : j \in n .. Len(Teardown)}
ToRelease ==
    CASE pc = "teardown" -> From(step)
      [] pc \in {"init", "up", "rules"} -> From(1)
      [] OTHER -> {}
RulesLeft ==
    IF pc \in {"up", "rules"} THEN {<<"rule", k>> : k \in step .. nqp * MaxFlows - 1} ELSE {}
ExistsRight ==
    ~spoiled => exists \subseteq (field \cap (ToRelease \cup RulesLeft)) \cup Leftover

StepRight ==
    /\ pc = "init" => step \in 1 .. Len(Plan)
    /\ pc = "teardown" => step \in 1 .. Len(Teardown)
    /\ pc = "up" => step = 0

ContextRight == TypeOKContext /\ StepRight /\ PointsRight /\ ExistsRight /\ ReleasedRight
=============================================================================
