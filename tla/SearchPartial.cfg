\* the rows of a query are lost half way
CONSTANTS
    r1 = r1
    r2 = r2
    a1 = a1
    a2 = a2
    a3 = a3
    Requests = {r1, r2}
    Articles = {a1, a2, a3}
    Drafts = {a1}
    Chunks <- MCChunks
    Limit = 2
    CacheTTL = 2
    MaxRequest = 1
SPECIFICATION Spec
SYMMETRY Symmetry
INVARIANTS KeptInFull
