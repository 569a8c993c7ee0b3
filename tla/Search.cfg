\* two requests at once; a time to live longer than a request, and time for an
\* entry to be written late, recalled late and expire; an article too many for the
\* limit, of which the best comes and goes
CONSTANTS
    r1 = r1
    r2 = r2
    a1 = a1
    a2 = a2
    a3 = a3
    Requests = {r1, r2}
    Articles = {a1, a2, a3}
    Drafts = {a1}
    Chunks <- MCChunks
    Limit = 2
    CacheTTL = 2
    MaxRequest = 1
SPECIFICATION Spec
SYMMETRY Symmetry
INVARIANTS TypeOK NothingUnpublished BestFirst Recent OutageNotCached
