CONSTANTS
    live = live
    backup = backup
    None = None
    Client = {c1, c2}
    Mount <- LiveAndBackup
    Relay = {backup}
    OnDemand = {backup}
    Fallback <- ToBackup
    Override = {live}
    WhenFull = {live}
    MaxListeners <- OneOnLive
    Type <- SameType
    SourceLimit = 2
    MaxDepth = 2
    BadEncoding = TRUE
    AdminTargets = {live, backup}
SPECIFICATION Spec
SYMMETRY Perms
INVARIANTS ClientInOnePlace NoUseAfterFree SourcesCounted ListenersCounted
PROPERTIES ListenerPromise
