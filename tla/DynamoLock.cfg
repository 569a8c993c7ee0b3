\* two instances, clocks a tick apart, half-second ticks, leases of two seconds
CONSTANTS
    i1 = i1
    i2 = i2
    Instances = {i1, i2}
    TicksPerSecond = 2
    LockDuration = 1
    LockPollEvery = 2
    Skew <- MCSkew
    MaxSkew = 1
    MaxLatency = 1
    MaxTime = 7
SPECIFICATION Spec
INVARIANTS TypeOK Exclusive
PROPERTIES Implements
