\* two binaries and two dumps, of which each run of a binary is built with one
CONSTANTS
    b1 = b1 b2 = b2
    old = old new = new
    Nobody = Nobody
    Binaries = {b1, b2}
    Dumps = {old, new}
    Found <- AnyDump
SPECIFICATION FairSpec
INVARIANTS TypeOK TemplatesWhole ScratchKept BuiltOnce TestUndisturbed
PROPERTIES Started
