CONSTANTS
    Listeners = {l1, l2}
    MaxBuffers = 4
    Lens = {1, 2}
    IntroLen = 1
    Settings <- RoomySettings
    SendLoop = 2
    MaxListeners <- Unlimited
    SizeMod = 256
SPECIFICATION Spec
SYMMETRY Perms
INVARIANTS  PointersInQueue SizesExact BurstNotEvicted
PROPERTIES TrimNeverStopsSource 
