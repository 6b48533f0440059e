SPECIFICATION FairSpec
CONSTANTS
    Parts = {"features", "gamescope", "smooth_follow", "outputs", "listener"}
    Basic = basic
    Pro = pro
    Others = {}
    Productivity = productivity
    Reader = {pose, imu_plugin}
    Nobody = nobody
    MaxYaw = 6
    Delay = 0
    NoPose = none
    Listener = listener
    Config = config
INVARIANTS FreshUnlessRaced ToldUnlessRaced HomeKept OutputsMatch StopsListening
PROPERTIES FallsBack SnapsBack ConfigReturns SilentStreamEnds
