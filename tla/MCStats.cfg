CONSTANTS
    Mount = {m1}
    Subscriber = {s1}
    MaxEvents = 3
    Global = Global
    Null = Null
    Unknown = Unknown
SPECIFICATION FairSpec
  
PROPERTIES CatchesUp ShutdownEnds
CHECK_DEADLOCK FALSE
