CONSTANTS
    Mount = {m1}
    MaxEntries = 3
SPECIFICATION FairSpec
INVARIANTS Match UpdateAnnounced
PROPERTIES  ReleasedGoes
CHECK_DEADLOCK FALSE
