SPECIFICATION FairSpec
CONSTANTS
    Glasses = {air, one, nxtwear, max, luma, ultra}
    NoGlasses = none
    MaxEvents = 2
    Drivers = {"xreal", "rayneo", "rokid", "viture"}
    XrealGlasses = {air, one}
    Hid = {air}
    Heartbeat = {one}
    VitureGlasses = {luma, ultra}
    NativeDof = {luma}
    Carina = {ultra}
    RayneoGlasses = {nxtwear}
    RokidGlasses = {max}
INVARIANTS UnplugReleases DisplayRestored
PROPERTIES RemovedSessionEnds DisabledSessionEnds
