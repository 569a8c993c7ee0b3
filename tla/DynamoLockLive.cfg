\* time is bounded, so the property is asked of items left behind early enough
\* for their expiry to be seen before MaxTime
CONSTANTS
    i1 = i1
    i2 = i2
    Instances = {i1, i2}
    TicksPerSecond = 1
    LockDuration = 1
    LockPollEvery = 1
    Skew <- NoSkew
    MaxSkew = 0
    MaxLatency = 1
    MaxTime = 5
SPECIFICATION LiveSpec
PROPERTIES Reclaimed
