\* Two queue pairs, one init and one shutdown, every call of which succeeds.
CONSTANTS
    nqp = 2
    MaxFlows = 1
    NDevices = 1
    Group = {"g1"}
    recv_pkt_num = 1
    send_pkt_num = 1
    WC_BATCH_SIZE = 1
    MaxGotten = 1
    MaxFail = 0
    MaxInit = 2
SPECIFICATION Spec
INVARIANTS NothingLeft
CHECK_DEADLOCK FALSE
