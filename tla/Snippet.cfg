CONSTANTS
    Letters <- MCLetters
    Lower <- MCLower
    Queries <- MCQueries
    Lengths = {5}
    Texts <- MCTexts
SPECIFICATION Spec
INVARIANTS TypeOK TextShown MarkedWhole HitShown WindowCut ExcerptCut
CHECK_DEADLOCK FALSE
