-------------------------------- MODULE Ibv ---------------------------------
(***************************************************************************)
(* A hashpipe_ibv_context as a program uses it: init, then flow rules and  *)
(* packets, one call at a time, then shutdown.                             *)
(***************************************************************************)
EXTENDS IbvFlow, IbvPackets

VARIABLE focus           \* bound: what the program uses the context for (only
                         \* for flow rules does it use it a second time)

vars == <<contextVars, flowVars, packetVars, focus>>

TypeOK ==
    /\ TypeOKContext /\ TypeOKFlow /\ TypeOKPackets
    /\ focus \in {"flows", "receive", "send"}

Init ==
    /\ InitContext /\ InitFlow /\ InitPackets
    /\ focus \in {"flows", "receive", "send"}
    /\ user_managed_flag => focus = "receive"

ContextStep ==
    /\ NextContext /\ ContextStepForFlow /\ ContextStepForPackets
    /\ focus # "flows" => calls' < MaxInit
FlowStep == (focus = "flows" \/ pc = "rules") /\ NextFlow /\ UNCHANGED packetVars
ReceiveStep == focus = "receive" /\ NextReceive /\ UNCHANGED flowVars
SendStep == focus = "send" /\ NextSend /\ UNCHANGED flowVars

Next ==
    /\ ContextStep \/ FlowStep \/ ReceiveStep \/ SendStep
    /\ UNCHANGED focus

Spec == Init /\ [][Next]_vars /\ ReceiveFairness

-----------------------------------------------------------------------------
(* The invariant of context and rules, whatever the packets do.            *)
IInv == ContextRight /\ FlowRight
=============================================================================
