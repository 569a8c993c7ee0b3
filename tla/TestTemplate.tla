---------------------------- MODULE TestTemplate ----------------------------
(***************************************************************************)
(* The test databases of testsuite/dbtemplate.go: test binaries, each a    *)
(* process of its own and possibly of another worktree, share a Postgres.  *)
(* Each makes sure there is a template built from its own test dump, drops *)
(* what earlier runs have left, and clones the template for each test.     *)
(* They keep out of each other's way with Postgres' advisory locks, which  *)
(* go when the connection that holds them does.                            *)
(***************************************************************************)
EXTENDS FiniteSets

CONSTANTS
    Binaries,
    Dumps,      \* the dumps, by the hash the template's name has of its content
    Found,      \* those a binary can be built with, one time or another
    Nobody

ASSUME BinariesAssumption ==
    /\ Found \in [Binaries -> SUBSET Dumps]
    /\ Nobody \notin Binaries \cup Dumps

VARIABLES
    dbs,        \* the databases there are
    restored,   \* those of them that hold a whole dump and the schema's extras
    excl,       \* who holds each advisory lock exclusively
    shared,     \* who holds each template's lock shared
    dump,       \* the dump each binary that runs was built with
    pc,         \* where each binary is
    todo        \* what each binary's sweep has yet to try

vars == <<dbs, restored, excl, shared, dump, pc, todo>>

Template(d) == <<"template", d>>
Scratch(d)  == <<"scratch", d>>
TestDB(b)   == <<"test", b>>      \* of the binary's current test

\* The tests' databases of all the runs that are gone: the names differ, but
\* nothing but a sweep has to do with one, and it takes them one by one.
Orphan == <<"orphan">>

Databases == {Template(d) : d \in Dumps} \cup {Scratch(d) : d \in Dumps}
                \cup {TestDB(b) : b \in Binaries} \cup {Orphan}

\* dbTemplateLockID, and the dbKey of every database
Creation == <<"creation">>
Keys == Databases \cup {Creation}

Building == {"checking", "claimingScratch", "creating", "restoring", "renaming",
             "releasingScratch", "claiming", "releasing"}

Stages == Building \cup {"off", "starting", "listing", "sweeping", "dropping", "ready",
                         "claimingTest", "cloning", "testing", "ending", "failed"}

TypeOK ==
    /\ dbs \subseteq Databases
    /\ restored \subseteq dbs
    /\ excl \in [Keys -> Binaries \cup {Nobody}]
    /\ shared \in [Dumps -> SUBSET Binaries]
    /\ dump \in [Binaries -> Dumps \cup {Nobody}]
    /\ pc \in [Binaries -> Stages]
    /\ todo \in [Binaries -> SUBSET Databases]

-----------------------------------------------------------------------------
Tpl(b) == Template(dump[b])
Wip(b) == Scratch(dump[b])

Free(k) == excl[k] = Nobody
Unshared(k) == \A d \in Dumps : k = Template(d) => shared[d] = {}

Goto(b, s) == pc' = [pc EXCEPT ![b] = s]
Take(b, k) == excl' = [excl EXCEPT ![k] = b]
Drop(ds) == dbs' = dbs \ ds /\ restored' = restored \ ds

LeakedConn(b) == UNCHANGED excl

\* the locks of the connection pinned for ensureTemplate: all that the binary
\* holds exclusively, but for the one of its test database
ReleaseConn(b) ==
    excl' = [k \in Keys |-> IF excl[k] = b /\ k # TestDB(b) THEN Nobody ELSE excl[k]]

Init ==
    /\ dbs = {} /\ restored = {}
    /\ excl = [k \in Keys |-> Nobody]
    /\ shared = [d \in Dumps |-> {}]
    /\ dump = [b \in Binaries |-> Nobody]
    /\ pc = [b \in Binaries |-> "off"]
    /\ todo = [b \in Binaries |-> {}]

-----------------------------------------------------------------------------
(* ensureTemplate *)

\* templateName: the dump can be another than when the binary last ran
Start(b) ==
    /\ pc[b] = "off" /\ Goto(b, "starting")
    /\ \E d \in Found[b] : dump' = [dump EXCEPT ![b] = d]
    /\ UNCHANGED <<dbs, restored, excl, shared, todo>>

UnlockedCreation(b) ==
    /\ pc[b] = "starting"
    /\ Take(b, Creation) /\ Goto(b, "checking")
    /\ UNCHANGED <<dbs, restored, shared, todo, dump>>

LockCreation(b) ==
    /\ pc[b] = "starting" /\ Free(Creation)
    /\ Take(b, Creation) /\ Goto(b, "checking")
    /\ UNCHANGED <<dbs, restored, shared, todo, dump>>

CheckTemplate(b) ==
    /\ pc[b] = "checking"
    /\ Goto(b, IF Tpl(b) \in dbs THEN "claiming" ELSE "claimingScratch")
    /\ UNCHANGED <<dbs, restored, excl, shared, todo, dump>>

UnclaimedScratch(b) ==
    /\ pc[b] = "claimingScratch" /\ Goto(b, "creating")
    /\ UNCHANGED <<dbs, restored, excl, shared, todo, dump>>

ClaimScratch(b) ==
    /\ pc[b] = "claimingScratch" /\ Free(Wip(b))
    /\ Take(b, Wip(b)) /\ Goto(b, "creating")
    /\ UNCHANGED <<dbs, restored, shared, todo, dump>>

CreateInPlace(b) ==
    /\ pc[b] = "creating"
    /\ dbs' = dbs \cup {Wip(b), Tpl(b)} /\ restored' = restored \ {Wip(b)}
    /\ Goto(b, "restoring")
    /\ UNCHANGED <<excl, shared, todo, dump>>

\* DROP DATABASE IF EXISTS, CREATE DATABASE
CreateScratch(b) ==
    /\ pc[b] = "creating"
    /\ dbs' = dbs \cup {Wip(b)} /\ restored' = restored \ {Wip(b)}
    /\ Goto(b, "restoring")
    /\ UNCHANGED <<excl, shared, todo, dump>>

\* restoreDump and applySchemaExtras
Restore(b) ==
    /\ pc[b] = "restoring" /\ Wip(b) \in dbs
    /\ restored' = restored \cup {Wip(b)}
    /\ Goto(b, "renaming")
    /\ UNCHANGED <<dbs, excl, shared, todo, dump>>

RenameAsCopy(b) ==
    /\ pc[b] = "renaming" /\ Wip(b) \in dbs
    /\ dbs' = (dbs \ {Wip(b)}) \cup {Tpl(b)}
    /\ restored' = restored \cup {Tpl(b)}
    /\ Goto(b, "releasingScratch")
    /\ UNCHANGED <<excl, shared, todo, dump>>

Rename(b) ==
    /\ pc[b] = "renaming" /\ Wip(b) \in dbs /\ Tpl(b) \notin dbs
    /\ dbs' = (dbs \ {Wip(b)}) \cup {Tpl(b)}
    /\ restored' = (restored \ {Wip(b)}) \cup {Tpl(b) : w \in restored \cap {Wip(b)}}
    /\ Goto(b, "releasingScratch")
    /\ UNCHANGED <<excl, shared, todo, dump>>

ReleaseScratch(b) ==
    /\ pc[b] = "releasingScratch"
    /\ excl' = [excl EXCEPT ![Wip(b)] = Nobody] /\ Goto(b, "claiming")
    /\ UNCHANGED <<dbs, restored, shared, todo, dump>>

\* the shared lock is the owner connection's, which lives as long as the binary
ClaimTemplate(b) ==
    /\ pc[b] = "claiming" /\ Free(Tpl(b))
    /\ shared' = [shared EXCEPT ![dump[b]] = @ \cup {b}] /\ Goto(b, "releasing")
    /\ UNCHANGED <<dbs, restored, excl, todo, dump>>

ReleaseCreation(b) ==
    /\ pc[b] = "releasing"
    /\ excl' = [excl EXCEPT ![Creation] = Nobody] /\ Goto(b, "listing")
    /\ UNCHANGED <<dbs, restored, shared, todo, dump>>

-----------------------------------------------------------------------------
(* sweepStale, which nothing serializes *)

ListDatabases(b) ==
    /\ pc[b] = "listing"
    /\ todo' = [todo EXCEPT ![b] = dbs] /\ Goto(b, "sweeping")
    /\ UNCHANGED <<dbs, restored, excl, shared, dump>>

\* pg_try_advisory_lock of the next candidate, got or not; in no order
TryCandidate(b) ==
    /\ pc[b] = "sweeping"
    /\ \E c \in todo[b] :
        IF Free(c) /\ Unshared(c)
        THEN Take(b, c) /\ Goto(b, "dropping") /\ UNCHANGED todo
        ELSE todo' = [todo EXCEPT ![b] = @ \ {c}] /\ UNCHANGED <<excl, pc>>
    /\ UNCHANGED <<dbs, restored, shared, dump>>

\* The candidate is dropped, or somebody has connected to it again and it is
\* not, which is no error here; the lock goes either way.
DropCandidate(b) ==
    /\ pc[b] = "dropping"
    /\ \E c \in todo[b] :
        /\ excl[c] = b
        /\ Drop({c}) \/ UNCHANGED <<dbs, restored>>
        /\ excl' = [excl EXCEPT ![c] = Nobody]
        /\ todo' = [todo EXCEPT ![b] = @ \ {c}]
    /\ Goto(b, "sweeping")
    /\ UNCHANGED <<shared, dump>>

\* conn goes back to the pool, with no lock left to leak
EndSweep(b) ==
    /\ pc[b] = "sweeping" /\ todo[b] = {}
    /\ ReleaseConn(b) /\ Goto(b, "ready")
    /\ UNCHANGED <<dbs, restored, shared, todo, dump>>

\* Any statement may fail, and ensureTemplate return its error: the locks of
\* conn go with it and every test of the binary fails.
EnsureFails(b) ==
    /\ pc[b] \in Building \cup {"starting", "listing", "sweeping"}
    /\ ReleaseConn(b) /\ Goto(b, "failed")
    /\ todo' = [todo EXCEPT ![b] = {}]
    /\ UNCHANGED <<dbs, restored, shared, dump>>

-----------------------------------------------------------------------------
(* createTestDB and dropTestDB *)

BeginTest(b) ==
    /\ pc[b] = "ready" /\ Goto(b, "claimingTest")
    /\ UNCHANGED <<dbs, restored, excl, shared, todo, dump>>

UnclaimedTest(b) ==
    /\ pc[b] = "claimingTest" /\ Goto(b, "cloning")
    /\ UNCHANGED <<dbs, restored, excl, shared, todo, dump>>

ClaimTest(b) ==
    /\ pc[b] = "claimingTest" /\ Free(TestDB(b))
    /\ Take(b, TestDB(b)) /\ Goto(b, "cloning")
    /\ UNCHANGED <<dbs, restored, shared, todo, dump>>

CloneTemplate(b) ==
    /\ pc[b] = "cloning" /\ Tpl(b) \in dbs
    /\ dbs' = dbs \cup {TestDB(b)}
    /\ restored' = IF Tpl(b) \in restored THEN restored \cup {TestDB(b)} ELSE restored \ {TestDB(b)}
    /\ Goto(b, "testing")
    /\ UNCHANGED <<excl, shared, todo, dump>>

\* there's no template to clone: the test fails, its lock is kept
CloneFails(b) ==
    /\ pc[b] = "cloning" /\ Tpl(b) \notin dbs
    /\ Goto(b, "failed")
    /\ UNCHANGED <<dbs, restored, excl, shared, todo, dump>>

DropTest(b) ==
    /\ pc[b] = "testing" /\ Drop({TestDB(b)}) /\ Goto(b, "ending")
    /\ UNCHANGED <<excl, shared, todo, dump>>

ReleaseTest(b) ==
    /\ pc[b] = "ending"
    /\ excl' = [excl EXCEPT ![TestDB(b)] = Nobody] /\ Goto(b, "ready")
    /\ UNCHANGED <<dbs, restored, shared, todo, dump>>

\* The binary ends or is killed, and its connections with it.  What it leaves
\* of a test has a name no later run of it uses.
Exit(b) ==
    /\ pc[b] # "off"
    /\ excl' = [k \in Keys |-> IF excl[k] = b THEN Nobody ELSE excl[k]]
    /\ shared' = [d \in Dumps |-> shared[d] \ {b}]
    /\ IF TestDB(b) \in dbs
       THEN /\ dbs' = (dbs \ {TestDB(b)}) \cup {Orphan}
            /\ restored' = restored \ {TestDB(b)}
       ELSE UNCHANGED <<dbs, restored>>
    /\ todo' = [todo EXCEPT ![b] = {}]
    /\ dump' = [dump EXCEPT ![b] = Nobody]
    /\ Goto(b, "off")

Ensure(b) ==
    \/ LockCreation(b)
    \/ CheckTemplate(b)
    \/ ClaimScratch(b)
    \/ CreateScratch(b)
    \/ Restore(b)
    \/ Rename(b)
    \/ ReleaseScratch(b)
    \/ ClaimTemplate(b)
    \/ ReleaseCreation(b)
    \/ ListDatabases(b)
    \/ TryCandidate(b)
    \/ DropCandidate(b)
    \/ EndSweep(b)

Run(b) ==
    \/ BeginTest(b)
    \/ ClaimTest(b)
    \/ CloneTemplate(b)
    \/ CloneFails(b)
    \/ DropTest(b)
    \/ ReleaseTest(b)

Next == \E b \in Binaries : Start(b) \/ Ensure(b) \/ EnsureFails(b) \/ Run(b) \/ Exit(b)

Spec == Init /\ [][Next]_vars

\* A binary goes on as long as it runs, and Postgres grants its locks in the
\* order they were asked for, so nobody who waits for one is passed for ever.
\* Strong, for one disjunct alone is enabled at a time, and for one that waits
\* for no lock it is no more than weak.
FairSpec == Spec /\ \A b \in Binaries : SF_vars(Ensure(b))

-----------------------------------------------------------------------------
\* A database under a template's name holds the whole dump, whoever died while
\* building it ("a run which dies midway doesn't leave behind a half-restored
\* database that later runs would take for a complete template", 128-129).
TemplatesWhole == \A d \in Dumps : Template(d) \in dbs => Template(d) \in restored

\* No two binaries build the same template, so the name is free when a finished
\* one gets it: "safe to call concurrently from multiple test binaries" (96-97).
BuiltOnce == \A b \in Binaries : pc[b] = "renaming" => Tpl(b) \notin dbs

\* Nobody's sweep drops the scratch database from under the restore (132-133).
ScratchKept ==
    \A b \in Binaries : pc[b] \in {"restoring", "renaming"} => Wip(b) \in dbs

\* While a test runs its database is there, whole, and nobody's sweep is about
\* to drop it: "databases in use by one binary have to be invisible to another's
\* sweep" (24-25).
TestUndisturbed ==
    \A b \in Binaries :
        pc[b] = "testing" =>
            /\ TestDB(b) \in restored
            /\ \A o \in Binaries \ {b} : excl[TestDB(b)] # o

\* Whatever the others do, and die of, a binary that starts is ready in the end,
\* unless a statement fails or it ends itself: nobody waits for ever.
Started ==
    \A b \in Binaries : pc[b] = "starting" ~> pc[b] \in {"ready", "failed", "off"}

\* "claim the template before releasing the creation lock, so there's no window in
\* which a binary using an older dump could sweep it out from under us" (159-160):
\* from the check or the rename on, the template is there.
NoWindow ==
    \A b \in Binaries : pc[b] \in {"releasingScratch", "claiming", "releasing"} => Tpl(b) \in dbs
=============================================================================
