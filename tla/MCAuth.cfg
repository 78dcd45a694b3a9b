CONSTANTS
    Client = {c1, c2}
    Stacks <- MountBoth
    Limit = 0
    MaxGen = 2
    Acceptor = Acceptor
    Null = Null
SPECIFICATION FairSpec
INVARIANTS   ChainFollowed
PROPERTIES Answered
CHECK_DEADLOCK FALSE
