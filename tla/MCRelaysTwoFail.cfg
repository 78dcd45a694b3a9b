CONSTANTS
    m1 = m1
    m2 = m2
    Mount = {m1, m2}
    Version = {1}
    OnDemand = {}
    List = {"local"}
    Wishes <- Both
    Outcomes = {"stream", "fail"}
    SlaveThread = SlaveThread
    Nobody = Nobody
SPECIFICATION RelaysFairSpec
PROPERTIES SlaveTurns
CHECK_DEADLOCK FALSE
