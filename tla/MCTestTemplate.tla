--------------------------- MODULE MCTestTemplate ---------------------------
(* Values for the constants of TestTemplate that a cfg cannot write. *)
EXTENDS TestTemplate, TLC

CONSTANTS b1, b2, old, new

\* binaries of two worktrees, each of which can be switched to the other's dump
AnyDump == [b \in Binaries |-> Dumps]

\* for a run of invariants alone
Symmetry == Permutations(Binaries) \cup Permutations(Dumps)
=============================================================================
