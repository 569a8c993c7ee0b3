\* one domain that is stored and asked for in two forms; 2 failures in a row, and
\* queries that can take longer than the interval
CONSTANTS
    foo = foo
    wwwFoo = wwwFoo
    Names = {foo, wwwFoo}
    Normalize <- MCNormalize
    Interval = 3
    MaxBusy = 4
    MaxFailures = 2
    MaxSince = 14
SPECIFICATION Spec
INVARIANTS TypeOK TakenBack TakenUp
