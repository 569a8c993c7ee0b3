------------------------------ MODULE MCSearch ------------------------------
(* Values for the constants of Search that a cfg cannot write. *)
EXTENDS Search, TLC

CONSTANTS r1, r2, a1, a2, a3

\* One article matches as two chunks, of which the second comes between those of the
\* others: with all of them found there is one more than the limit.
MCChunks == <<a1, a2, a1, a3>>
Symmetry == Permutations({r1, r2})
=============================================================================
