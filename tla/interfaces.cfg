SPECIFICATION FairSpec
CONSTANTS
    Parts = {"breezy", "sbs"}
    Leftovers = {"absent", "off"}
    WritesFail = FALSE
    Vendors = {"xreal", "rokid", "rayneo", "viture"}
PROPERTIES SwitchShown ModeReported
