CONSTANTS
    Client = {c1, c2, c3}
    Allowed = {c1, c2, c3}
    Shoutcast = {c2}
    Failing = {c1}
    ClientLimit = 2
    Front = Front
    Null = Null
SPECIFICATION FairSpec
INVARIANTS ClientsCounted QueueIntact
PROPERTIES RequestHandled
