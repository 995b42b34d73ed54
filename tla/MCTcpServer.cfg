SPECIFICATION FairSpec
CONSTANTS
    c1 = c1
    c2 = c2
    c3 = c3
    Clients = {c1, c2, c3}
    Nobody = Nobody
    MAXCLINE = 2
    QueueSize = 2
    MaxInbox = 1
    Modes = {"MODBUS", "IEC102"}
    Masters <- TwoMasters
    Patient = TRUE
INVARIANTS TypeOK SlotsConsistent SessionOfClient
PROPERTIES  NoRequestLost ServedBelowCount EveryDialAnswered
