CONSTANTS
    m1 = m1
    m2 = m2
    Mount = {m1, m2}
    Version = {1, 2}
    OnDemand = {m2}
    List = {"local", "master"}
    Wishes <- Changing
    Outcomes = {"stream", "fail"}
    SlaveThread = SlaveThread
    Nobody = Nobody
SPECIFICATION RelaysSpec
INVARIANTS ThreadOwned  FlagsTellThreads
CHECK_DEADLOCK FALSE
