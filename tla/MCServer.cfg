CONSTANTS
    Source = {s1}
    Main = Main
    Slave = Slave
    Runner = Runner
    Nobody = Nobody
    ServerChain <- TwoBackends
    MountChain <- OneBackend
    QueueMax = 1
    MaxVersion = 2
    MaxRequests = 2
SPECIFICATION FairSpec
INVARIANTS RegistrationsExact 
 
CHECK_DEADLOCK FALSE
