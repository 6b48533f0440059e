SPECIFICATION FairSpec
CONSTANTS
    a1 = a1
    a2 = a2
    b1 = b1
    ma = ma
    mb = mb
    xreal = xreal
    rokid = rokid
    usb = usb
    Device = {a1, b1}
    Model = {ma, mb}
    ModelOf <- MCModelOf
    Driver = {xreal, rokid}
    DriverOf <- MCDriverOf
    CanBeSupplemental = {}
    ConnectsOnProbe = {rokid}
    NoDevice = none
    Owner = owner
    Handler = {usb}
    HandlerOf <- MCHandlerOf
    StateThread = manage_state
    ConfigThread = config
    ControlThread = control
    MayDisable = TRUE
    MayQuit = FALSE
    SlowReplug = TRUE
PROPERTY PrimaryServed
