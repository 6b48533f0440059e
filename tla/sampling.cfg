SPECIFICATION Spec
CONSTANTS
    Rates = {60, 100}
    BufferSizes = {1, 2}
    Measured = {60, 63, 66, 100}
    ClocksBehind = {0, 10}
    Modes = {{"multi_tap"}, {"calibrated"}}
    MaxTapPeriod = 7
    MaxTapDuration = 2
    MinPause = 1
    MaxTaps = 3
    MaxWindows = 3
    MaxBufferSize = 3
INVARIANTS OldestPopped PosesEquidistant
 
