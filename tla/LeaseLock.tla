------------------------------ MODULE LeaseLock ------------------------------
(***************************************************************************)
(* What a lock with a lease promises, without the table, the clocks and    *)
(* the requests of DynamoLock.  A client that is granted the lock has it   *)
(* to itself until it is overdue, that is, has kept it longer than the     *)
(* lease; nothing tells it that it is.  A release that reaches the lock    *)
(* late or twice breaks the promise, for good: it may have released the    *)
(* lock of another client.                                                 *)
(***************************************************************************)
EXTENDS Naturals

CONSTANT Clients

VARIABLES
    holders,   \* the clients that have been granted the lock and work under it
    overdue,   \* those of them whose lease has run out
    broken     \* a release has been late or repeated

lockVars == <<holders, overdue, broken>>

LockTypeOK ==
    /\ holders \subseteq Clients
    /\ overdue \subseteq holders
    /\ broken \in BOOLEAN

LockInit == holders = {} /\ overdue = {} /\ broken = FALSE

\* the answer to a grant may itself take longer than the lease
Grant(c) ==
    /\ c \notin holders
    /\ holders \subseteq overdue \/ broken
    /\ holders' = holders \cup {c}
    /\ overdue' \in {overdue, overdue \cup {c}}
    /\ UNCHANGED broken

\* the client works under the lock no more: it unlocks it, or it is gone
Release(c) ==
    /\ c \in holders
    /\ holders' = holders \ {c}
    /\ overdue' = overdue \ {c}
    /\ UNCHANGED broken

\* time passes
Lapse ==
    /\ overdue' \in SUBSET holders
    /\ overdue \subseteq overdue'
    /\ UNCHANGED <<holders, broken>>

Break == broken' = TRUE /\ UNCHANGED <<holders, overdue>>

LockNext == (\E c \in Clients : Grant(c) \/ Release(c)) \/ Lapse \/ Break

LockSpec == LockInit /\ [][LockNext]_lockVars
=============================================================================
