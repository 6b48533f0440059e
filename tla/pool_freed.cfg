SPECIFICATION Spec
CONSTANTS
    g1 = g1
    g2 = g2
    o1 = o1
    o2 = o2
    mg1 = mg1
    mg2 = mg2
    mo = mo
    xreal = xreal
    rokid = rokid
    opentrack = opentrack
    Device = {g1, g2, o1, o2}
    Model = {mg1, mg2, mo}
    ModelOf <- MCModelOf
    Driver = {xreal, rokid, opentrack}
    DriverOf <- MCDriverOf
    CanBeSupplemental = {o1, o2}
    ConnectsOnProbe = {rokid}
    NoDevice = none
INVARIANT NoFreedConnectionUsed
