\* Two queue pairs, two rules, two packets each way per queue pair, polled
\* one by one; one failure, three calls of init and shutdown.
CONSTANTS
    nqp = 2
    MaxFlows = 2
    NDevices = 2
    Group = {"g1"}
    recv_pkt_num = 2
    send_pkt_num = 2
    WC_BATCH_SIZE = 1
    MaxGotten = 1
    MaxFail = 1
    MaxInit = 3
SPECIFICATION Spec
INVARIANTS TypeOK ReleasedRight OnlyBuffersLeft RulesKnown MembershipKnown OnePlace
PROPERTIES Received
CHECK_DEADLOCK FALSE
