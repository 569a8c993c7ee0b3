\* two instances, and two directories of which one's name begins the other's
CONSTANTS
    i1 = i1 i2 = i2
    issuer = issuer com = com au = au crt = crt pem = pem
    Pieces = {issuer, com, au, crt, pem, Slash}
    Slash = Slash
    Instances = {i1, i2}
    Keys <- MCKeys
    Paths <- MCPaths
SPECIFICATION Spec
SYMMETRY Symmetry
INVARIANTS TypeOK
PROPERTIES Implements OthersKept
