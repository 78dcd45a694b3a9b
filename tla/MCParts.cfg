CONSTANTS
    EbmlStreams <- Movies
    Slice = 8
    HeaderMax = 21
    NoTrack = 0
    Mp3Streams <- Songs
    MetaInt = 3
    Interval = 2
    Unit = 1
    BufSize = 4
    IntroSize = 2
    MaxUpdates = 1
    OggStreams <- Programmes
    Trigger = 1
    MaxCodecs = 2
    MaxTags = 1
    User = {u1, u2}
    Worker = {w1, w2}
    None = None
    MaxTime = 2
SPECIFICATION Spec
SYMMETRY Same
INVARIANTS  Mp3Faithful OggFaithful UsersKept AnsweredByFile
CHECK_DEADLOCK FALSE
