---------------------------- MODULE MCDynamoLock ----------------------------
(* Values for the constants of DynamoLock that a cfg cannot write. *)
EXTENDS DynamoLock, TLC

\* one instance's clock is a tick ahead of the others'
MCSkew == [i \in Instances |-> IF i = CHOOSE j \in Instances : TRUE THEN 1 ELSE 0]
NoSkew == [i \in Instances |-> 0]
Symmetry == Permutations(Instances)
=============================================================================
