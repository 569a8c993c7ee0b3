CONSTANTS
    Requests = {r1, r2, r3}
    Listeners <- MCListeners
    Grace = 3
    Budget = 6
    MaxRequest = 3
SPECIFICATION FairSpec
INVARIANTS TypeOK NothingHalf ClosedLast KilledOnlyIfWedged
PROPERTIES Stops Unwinds
CHECK_DEADLOCK FALSE
