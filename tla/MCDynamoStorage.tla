--------------------------- MODULE MCDynamoStorage ---------------------------
\* Two of example.com's items and one of example.com.au's, all of one issuer.
EXTENDS DynamoStorage, TLC

CONSTANTS i1, i2, issuer, com, au, crt, pem

Item(domain, name) == <<issuer, Slash>> \o domain \o <<Slash, name>>

MCKeys == {Item(<<com>>, crt), Item(<<com>>, pem), Item(<<com, au>>, crt)}
MCPaths == MCKeys \cup {<<issuer>>, <<issuer, Slash, com>>, <<issuer, Slash, com, au>>}

Symmetry == Permutations(Instances)
=============================================================================
