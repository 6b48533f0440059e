SPECIFICATION FairSpec
CONSTANTS
    d1 = d1
    d2 = d2
    d3 = d3
    d4 = d4
    m1 = m1
    m2 = m2
    Device = {d1, d2, d3, d4}
    Model = {m1, m2}
    ModelOf <- MCModelOf
    Borrower = {b1, b2, b3}
    Owner = owner
    NoDevice = none
INVARIANTS RefCountExact NoUseAfterFree PrimaryTracked
PROPERTIES LeaseSpec QueuedTakesOver
