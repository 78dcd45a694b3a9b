CONSTANTS
    Client = {c1, c2}
    Thread = {t1, t2}
    MaxSize = 1
    Refused = {c2}
    Null = Null
SPECIFICATION FairSpec
 
PROPERTIES ClientServed
CHECK_DEADLOCK FALSE
