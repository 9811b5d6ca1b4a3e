------------------------------ MODULE IbvFlow -------------------------------
(***************************************************************************)
(* Flow rules (hashpipe_ibv_flow() and the first part of                   *)
(* hashpipe_ibv_shutdown(), hashpipe_ibverbs.c): rule idx of queue pair q  *)
(* is ibv_flows[q * max_flows + idx]; the multicast group of rule idx is   *)
(* joined through one socket for all queue pairs and remembered in         *)
(* flow_dst_ips[idx].                                                      *)
(***************************************************************************)
EXTENDS IbvContext

CONSTANTS Group          \* multicast groups

(* The other destinations are no groups.                                   *)
ASSUME IbvFlowAssumption == {"unicast", "none", "off"} \cap Group = {}

(* What a rule asks of the destination: a group, another address, nothing. *)
Dst == Group \cup {"unicast", "none"}
Idx == 0 .. MaxFlows - 1

VARIABLES flow_dst_ips, member,
          fpc, fidx, fdst, fqp,  \* where hashpipe_ibv_flow() is, for which rule
          asked,                 \* history: the rules asked for with success
          flow_failed            \* history: a call for a rule failed

flowCall == <<fpc, fidx, fdst, fqp>>
flowVars == <<flow_dst_ips, member, flowCall, asked, flow_failed>>
resources == <<exists, field>>

Rule(q, i) == <<"rule", q * MaxFlows + i>>

TypeOKFlow ==
    /\ flow_dst_ips \in [Idx -> Dst] /\ member \subseteq Group
    /\ fpc \in {"idle", "drop", "destroy", "add", "create", "crashed"}
    /\ fidx \in Idx /\ fdst \in Dst \cup {"off"} /\ fqp \in QP
    /\ asked \in [Idx -> Dst \cup {"off"}] /\ flow_failed \in BOOLEAN

InitFlow ==
    /\ flow_dst_ips = [i \in Idx |-> "none"] /\ member = {}
    /\ fpc = "idle" /\ fidx = 0 /\ fdst = "off" /\ fqp = 0
    /\ asked = [i \in Idx |-> "off"] /\ flow_failed = FALSE

Returns(ok) ==
    /\ fpc' = "idle" /\ fidx' = 0 /\ fdst' = "off" /\ fqp' = 0
    /\ asked' = IF ok THEN [asked EXCEPT ![fidx] = fdst] ELSE asked
    /\ flow_failed' = (flow_failed \/ ~ok)
GoesOn(l, q) == fpc' = l /\ fqp' = q /\ UNCHANGED <<fidx, fdst, asked, flow_failed>>

-----------------------------------------------------------------------------
(* hashpipe_ibv_flow(): "off" stands for no criteria.                      *)
Flow ==
    /\ pc = "up" /\ fpc = "idle"
    /\ \E i \in Idx, d \in Dst \cup {"off"} :
          /\ Rule(0, i) \in field \/ d # "off"
          /\ fpc' = IF Rule(0, i) \in field THEN "drop" ELSE "add"
          /\ fidx' = i /\ fdst' = d
    /\ UNCHANGED <<contextVars, flow_dst_ips, member, fqp, asked, flow_failed>>

(* Mutant: the group is forgotten, not left.                               *)
DropMembershipNot ==
    /\ fpc = "drop"
    /\ flow_dst_ips' = [flow_dst_ips EXCEPT ![fidx] = "none"]
    /\ GoesOn("destroy", 0)
    /\ UNCHANGED <<contextVars, member>>

DropMembership ==
    /\ fpc = "drop"
    /\ flow_dst_ips[fidx] \in Group => flow_dst_ips[fidx] \in member
    /\ member' = member \ {flow_dst_ips[fidx]}
    /\ flow_dst_ips' = [flow_dst_ips EXCEPT ![fidx] = "none"]
    /\ GoesOn("destroy", 0)
    /\ UNCHANGED contextVars

(* The kernel refuses to leave a group that was not joined.                *)
DropFails ==
    /\ fpc = "drop"
    /\ flow_dst_ips[fidx] \in Group
    /\ IF flow_dst_ips[fidx] \in member THEN Fail ELSE UNCHANGED failures
    /\ Returns(FALSE)
    /\ UNCHANGED <<work, resources, history, flow_dst_ips, member>>

(* Mutant: only the first queue pair's rule is destroyed.                  *)
DestroyFirst ==
    /\ fpc = "destroy"
    /\ Rule(fqp, fidx) \in field
    /\ exists' = exists \ {Rule(fqp, fidx)} /\ field' = field \ {Rule(fqp, fidx)}
    /\ IF fdst = "off" THEN Returns(TRUE) ELSE GoesOn("add", 0)
    /\ UNCHANGED <<work, failures, history, flow_dst_ips, member>>

Destroy ==
    /\ fpc = "destroy"
    /\ Rule(fqp, fidx) \in field
    /\ exists' = exists \ {Rule(fqp, fidx)} /\ field' = field \ {Rule(fqp, fidx)}
    /\ IF fqp + 1 \in QP THEN GoesOn("destroy", fqp + 1)
       ELSE IF fdst = "off" THEN Returns(TRUE)
       ELSE GoesOn("add", 0)
    /\ UNCHANGED <<work, failures, history, flow_dst_ips, member>>

DestroyFails ==
    /\ fpc = "destroy"
    /\ Rule(fqp, fidx) \in field
    /\ Fail
    /\ Returns(FALSE)
    /\ UNCHANGED <<work, resources, history, flow_dst_ips, member>>

(* A rule that its queue pair never got: ibv_destroy_flow(NULL).           *)
DestroyNull ==
    /\ fpc = "destroy"
    /\ Rule(fqp, fidx) \notin field
    /\ GoesOn("crashed", fqp)
    /\ UNCHANGED <<contextVars, flow_dst_ips, member>>

(* The address is remembered before the group is joined; a rule without    *)
(* one leaves the address that is there.                                   *)
Remember ==
    flow_dst_ips' = IF fdst = "none" THEN flow_dst_ips ELSE [flow_dst_ips EXCEPT ![fidx] = fdst]

AddMembership ==
    /\ fpc = "add"
    /\ fdst \notin member
    /\ member' = member \cup ({fdst} \cap Group)
    /\ Remember
    /\ GoesOn("create", 0)
    /\ UNCHANGED contextVars

(* The kernel refuses to join a group twice.                               *)
AddFails ==
    /\ fpc = "add" /\ fdst \in Group
    /\ IF fdst \in member THEN UNCHANGED failures ELSE Fail
    /\ Remember
    /\ Returns(FALSE)
    /\ UNCHANGED <<work, resources, history, member>>

(* A pointer that was still there is overwritten.                          *)
Overwritten(r) == IF r \in exists THEN {<<"lost", r[2]>>} ELSE {}

Create ==
    /\ fpc = "create"
    /\ LET r == Rule(fqp, fidx)
       IN exists' = exists \cup {r} \cup Overwritten(r) /\ field' = field \cup {r}
    /\ spoiled' = (spoiled \/ Rule(fqp, fidx) \in exists)
    /\ IF fqp + 1 \in QP THEN GoesOn("create", fqp + 1) ELSE Returns(TRUE)
    /\ UNCHANGED <<work, failures, wrong, flow_dst_ips, member>>

CreateFails ==
    /\ fpc = "create"
    /\ Fail
    /\ LET r == Rule(fqp, fidx)
       IN exists' = (exists \ {r}) \cup Overwritten(r) /\ field' = field \ {r}
    /\ spoiled' = (spoiled \/ Rule(fqp, fidx) \in exists)
    /\ Returns(FALSE)
    /\ UNCHANGED <<work, wrong, flow_dst_ips, member>>

-----------------------------------------------------------------------------
(* hashpipe_ibv_shutdown(), rule by rule: it leaves the group of a rule    *)
(* of the first queue pair, then destroys the rule; either may fail.       *)
ShutdownLeaves(i) ==
    LET g == IF i \in Idx THEN flow_dst_ips[i] ELSE "none"
    IN  \/ /\ g \in Group => g \in member
           /\ member' = member \ {g}
           /\ flow_dst_ips' = IF i \in Idx THEN [flow_dst_ips EXCEPT ![i] = "none"] ELSE flow_dst_ips
           /\ UNCHANGED failures
        \/ /\ g \in Group
           /\ IF g \in member THEN Fail ELSE UNCHANGED failures
           /\ UNCHANGED <<member, flow_dst_ips>>

ShutdownRule ==
    /\ pc = "rules" /\ <<"rule", step>> \in field
    /\ ShutdownLeaves(step)
    /\ exists' = exists \ {<<"rule", step>>} /\ field' = field \ {<<"rule", step>>}
    /\ At("rules", step + 1)
    /\ UNCHANGED <<history, flowCall, asked, flow_failed>>

ShutdownRuleFails ==
    /\ pc = "rules" /\ <<"rule", step>> \in field
    /\ Fail
    /\ \/ UNCHANGED <<member, flow_dst_ips>>
       \/ step \in Idx /\ flow_dst_ips[step] \in member
          /\ member' = member \ {flow_dst_ips[step]}
          /\ flow_dst_ips' = [flow_dst_ips EXCEPT ![step] = "none"]
    /\ spoiled' = TRUE
    /\ At("rules", step + 1)
    /\ UNCHANGED <<resources, wrong, flowCall, asked, flow_failed>>

ShutdownNoRule ==
    /\ pc = "rules" /\ <<"rule", step>> \notin field
    /\ IF step < nqp * MaxFlows THEN At("rules", step + 1) ELSE At("teardown", 1)
    /\ UNCHANGED <<resources, failures, history, flowVars>>

NextFlow ==
    \/ Flow \/ DropMembership \/ DropFails \/ Destroy \/ DestroyFails \/ DestroyNull
    \/ AddMembership \/ AddFails \/ Create \/ CreateFails
    \/ ShutdownRule \/ ShutdownRuleFails \/ ShutdownNoRule

(* What init and shutdown do to the rules: flow_dst_ips is cleared when it *)
(* is allocated, closing the socket leaves every group.                    *)
ContextStepForFlow ==
    /\ fpc = "idle"
    /\ member' = IF <<"mcast_subscriber", 0>> \in exists' THEN member ELSE {}
    /\ IF <<"flow_dst_ips", 0>> \in exists'
       THEN UNCHANGED <<flow_dst_ips, asked, flow_failed>>
       ELSE /\ flow_dst_ips' = [i \in Idx |-> "none"]
            /\ asked' = [i \in Idx |-> "off"] /\ flow_failed' = FALSE
    /\ UNCHANGED flowCall

-----------------------------------------------------------------------------
FlowsAgreed == pc = "up" /\ fpc \in {"idle", "crashed"} /\ ~flow_failed /\ ~spoiled

(* While no call failed, the rules the driver has are the rules asked for, *)
(* at every queue pair, and ibv_flows points to them: no rule is           *)
(* overwritten, none is destroyed through a null pointer.                  *)
RulesKnown ==
    FlowsAgreed =>
        LET rules == {Rule(q, i) : q \in QP, i \in {j \in Idx : asked[j] # "off"}}
        IN  /\ fpc # "crashed"
            /\ {r \in exists : r[1] \in {"rule", "lost"}} = rules
            /\ {r \in field : r[1] = "rule"} = rules

(* While no call failed, the groups joined are those of the rules, and     *)
(* flow_dst_ips says which to leave with each.                             *)
MembershipKnown ==
    FlowsAgreed =>
        /\ member = {asked[i] : i \in Idx} \cap Group
        /\ flow_dst_ips = [i \in Idx |-> IF asked[i] = "off" THEN "none" ELSE asked[i]]

-----------------------------------------------------------------------------
(* What these rest on: the rules that no call is working on are as asked   *)
(* for, no two of them with one group, ...                                 *)
Settled == IF fpc \in {"idle", "drop"} THEN Idx ELSE Idx \ {fidx}
Groups == {asked[i] : i \in Settled} \cap Group
SettledRight ==
    /\ \A i \in Settled : \A q \in QP : Rule(q, i) \in exists <=> asked[i] # "off"
    /\ \A i \in Settled : flow_dst_ips[i] = IF asked[i] = "off" THEN "none" ELSE asked[i]
    /\ \A i, j \in Settled : asked[i] \in Group /\ asked[i] = asked[j] => i = j

(* ... and of the other one it is known how far the call is: queue pair by *)
(* queue pair, its group left and not joined yet, or joined.               *)
Made(q) == (fpc = "destroy" /\ q >= fqp) \/ (fpc = "create" /\ q < fqp)
CallRight ==
    /\ fpc # "crashed"
    /\ fpc = "drop" => asked[fidx] # "off"
    /\ fpc = "create" => fdst \notin Groups
    /\ fidx \notin Settled =>
          /\ \A q \in QP : Rule(q, fidx) \in exists <=> Made(q)
          /\ flow_dst_ips[fidx] = IF fpc = "create" THEN fdst ELSE "none"
    /\ member = Groups \cup (IF fpc = "create" THEN {fdst} \cap Group ELSE {})

NoRules == flow_dst_ips = [i \in Idx |-> "none"] /\ member = {} /\ asked = [i \in Idx |-> "off"] /\ ~flow_failed

FlowRight ==
    /\ TypeOKFlow
    /\ fpc # "idle" => pc = "up"
    /\ fpc \in {"add", "create"} => fdst # "off"
    /\ pc \in {"down", "open", "init"} /\ ~spoiled => NoRules
    /\ pc = "up" /\ ~flow_failed /\ ~spoiled => SettledRight /\ CallRight
=============================================================================
