------------------------- MODULE TestTemplateProofs -------------------------
(***************************************************************************)
(* What the run of TestTemplate checks for two binaries and two dumps, for *)
(* any of them: the locks keep the templates whole, the scratch databases  *)
(* of a restore and the databases of running tests where they are.         *)
(***************************************************************************)
EXTENDS TestTemplate, TLAPS

Step(b) == Start(b) \/ Ensure(b) \/ EnsureFails(b) \/ Run(b) \/ Exit(b)

\* What a binary holds where it is.
Locks(b) ==
    /\ pc[b] # "off" => dump[b] \in Dumps
    /\ pc[b] \in Building => excl[Creation] = b
    /\ pc[b] \in {"creating", "restoring", "renaming", "releasingScratch"} => excl[Wip(b)] = b
    /\ pc[b] \in {"cloning", "testing", "ending"} => excl[TestDB(b)] = b

\* What it has found there not to be, and made.
Made(b) ==
    /\ pc[b] \in {"claimingScratch", "creating", "restoring", "renaming"} => Tpl(b) \notin dbs
    /\ pc[b] \in {"restoring", "renaming"} => Wip(b) \in dbs
    /\ pc[b] = "renaming" => Wip(b) \in restored
    /\ pc[b] = "testing" => TestDB(b) \in restored

IInv == TypeOK /\ TemplatesWhole /\ \A b \in Binaries : Locks(b) /\ Made(b)

-----------------------------------------------------------------------------
\* The names of databases differ when what they are of does.
LEMMA Names ==
    ASSUME NEW d, NEW e
    PROVE  /\ Template(d) = Template(e) => d = e
           /\ Scratch(d) = Scratch(e) => d = e
           /\ TestDB(d) = TestDB(e) => d = e
           /\ Template(d) # Scratch(e) /\ Template(d) # TestDB(e) /\ Scratch(d) # TestDB(e)
           /\ Orphan # Template(d) /\ Orphan # Scratch(d) /\ Orphan # TestDB(d)
BY DEF Template, Scratch, TestDB, Orphan

LEMMA InKeys ==
    /\ Creation \in Keys
    /\ \A d \in Dumps : Template(d) \in Databases /\ Scratch(d) \in Databases
    /\ \A b \in Binaries : TestDB(b) \in Databases
    /\ Orphan \in Databases /\ Databases \subseteq Keys
BY DEF Keys, Databases

\* No lock is the creation lock and a database's.
LEMMA CreationApart == Creation \notin Databases
BY DEF Creation, Databases, Template, Scratch, TestDB, Orphan

LEMMA TypeKept ==
    ASSUME IInv, NEW b \in Binaries, Step(b)
    PROVE  TypeOK'
<1> USE DEF IInv, TypeOK, Goto
<1>0. dump[b] \in Dumps => Tpl(b) \in Databases /\ Wip(b) \in Databases
  BY InKeys DEF Tpl, Wip
<1>1. CASE Start(b)
  <2>1. PICK d \in Found[b] : dump' = [dump EXCEPT ![b] = d]
    BY <1>1 DEF Start
  <2>2. d \in Dumps
    BY BinariesAssumption
  <2> QED
    BY <1>1, <2>1, <2>2 DEF Start, Stages
<1>2. CASE LockCreation(b)
  BY <1>2, InKeys DEF LockCreation, Take, Stages, Building
<1>3. CASE CheckTemplate(b)
  BY <1>3 DEF CheckTemplate, Stages, Building
<1>4. CASE ClaimScratch(b)
  BY <1>4, <1>0, InKeys DEF ClaimScratch, Take, Stages, Building, Locks
<1>5. CASE CreateScratch(b)
  BY <1>5, <1>0 DEF CreateScratch, Stages, Building, Locks
<1>6. CASE Restore(b)
  BY <1>6 DEF Restore, Stages, Building
<1>7. CASE Rename(b)
  <2>1. Tpl(b) \in Databases
    BY <1>7, <1>0 DEF Rename, Locks
  <2>2. {Tpl(b) : w \in restored \cap {Wip(b)}} \subseteq {Tpl(b)}
    OBVIOUS
  <2>3. dbs' \subseteq Databases /\ restored' \subseteq dbs'
    BY <1>7, <2>1, <2>2 DEF Rename
  <2> QED
    BY <1>7, <2>3 DEF Rename, Stages, Building
<1>8. CASE ReleaseScratch(b)
  BY <1>8 DEF ReleaseScratch, Stages, Building
<1>9. CASE ClaimTemplate(b)
  BY <1>9 DEF ClaimTemplate, Stages, Building
<1>10. CASE ReleaseCreation(b)
  BY <1>10 DEF ReleaseCreation, Stages
<1>11. CASE ListDatabases(b)
  BY <1>11 DEF ListDatabases, Stages
<1>12. CASE TryCandidate(b)
  BY <1>12, InKeys DEF TryCandidate, Take, Stages
<1>13. CASE DropCandidate(b)
  <2>1. PICK c \in todo[b] : /\ excl' = [excl EXCEPT ![c] = Nobody]
                             /\ todo' = [todo EXCEPT ![b] = @ \ {c}]
    BY <1>13 DEF DropCandidate
  <2>2. dbs' \subseteq dbs /\ restored' \subseteq dbs'
    BY <1>13 DEF DropCandidate, Drop
  <2> QED
    BY <1>13, <2>1, <2>2 DEF DropCandidate, Stages
<1>14. CASE EndSweep(b)
  BY <1>14 DEF EndSweep, ReleaseConn, Stages
<1>15. CASE EnsureFails(b)
  BY <1>15 DEF EnsureFails, ReleaseConn, Stages
<1>16. CASE BeginTest(b) \/ ClaimTest(b)
  BY <1>16, InKeys DEF BeginTest, ClaimTest, Take, Stages
<1>17. CASE CloneTemplate(b)
  BY <1>17, InKeys DEF CloneTemplate, Stages
<1>18. CASE CloneFails(b)
  BY <1>18 DEF CloneFails, Stages
<1>19. CASE DropTest(b)
  BY <1>19 DEF DropTest, Drop, Stages
<1>20. CASE ReleaseTest(b)
  BY <1>20 DEF ReleaseTest, Stages
<1>21. CASE Exit(b)
  BY <1>21, InKeys DEF Exit, Stages
<1> QED
  BY <1>1, <1>2, <1>3, <1>4, <1>5, <1>6, <1>7, <1>8, <1>9, <1>10, <1>11, <1>12, <1>13, <1>14,
     <1>15, <1>16, <1>17, <1>18, <1>19, <1>20, <1>21 DEF Step, Ensure, Run

-----------------------------------------------------------------------------
\* A step of one binary leaves the others where they are, with the locks they have.
LEMMA OthersStay ==
    ASSUME IInv, NEW b \in Binaries, Step(b), NEW o \in Binaries \ {b}
    PROVE  /\ pc'[o] = pc[o] /\ dump'[o] = dump[o]
           /\ \A k \in Keys : excl[k] = o => excl'[k] = o
<1> USE BinariesAssumption DEF IInv, TypeOK, Goto
<1>1. CASE Start(b) \/ CheckTemplate(b) \/ CreateScratch(b) \/ Restore(b) \/ Rename(b)
           \/ ClaimTemplate(b) \/ ListDatabases(b)
  BY <1>1 DEF Start, CheckTemplate, CreateScratch, Restore, Rename, ClaimTemplate, ListDatabases
<1>2. CASE LockCreation(b) \/ ClaimScratch(b) \/ TryCandidate(b) \/ ClaimTest(b)
  BY <1>2 DEF LockCreation, ClaimScratch, TryCandidate, ClaimTest, Take, Free
<1>3. CASE ReleaseScratch(b)
  <2>1. excl[Wip(b)] = b
    BY <1>3 DEF ReleaseScratch, Locks
  <2> QED
    BY <1>3, <2>1 DEF ReleaseScratch
<1>4. CASE ReleaseCreation(b)
  <2>1. excl[Creation] = b
    BY <1>4 DEF ReleaseCreation, Locks, Building
  <2> QED
    BY <1>4, <2>1 DEF ReleaseCreation
<1>5. CASE DropCandidate(b)
  BY <1>5 DEF DropCandidate
<1>6. CASE EndSweep(b) \/ EnsureFails(b)
  BY <1>6 DEF EndSweep, EnsureFails, ReleaseConn
<1>7. CASE BeginTest(b) \/ CloneTemplate(b) \/ CloneFails(b) \/ DropTest(b)
  BY <1>7 DEF BeginTest, CloneTemplate, CloneFails, DropTest
<1>8. CASE ReleaseTest(b)
  <2>1. excl[TestDB(b)] = b
    BY <1>8 DEF ReleaseTest, Locks
  <2> QED
    BY <1>8, <2>1 DEF ReleaseTest
<1>9. CASE Exit(b)
  BY <1>9 DEF Exit
<1> QED
  BY <1>1, <1>2, <1>3, <1>4, <1>5, <1>6, <1>7, <1>8, <1>9 DEF Step, Ensure, Run

\* Nor does it touch the scratch database or the test's that another has locked.
LEMMA LockedStays ==
    ASSUME IInv, NEW b \in Binaries, Step(b), NEW o \in Binaries \ {b}, NEW k \in Databases,
           excl[k] = o, \/ k = TestDB(o)
                        \/ \E d \in Dumps : k = Scratch(d)
    PROVE  (k \in dbs' <=> k \in dbs) /\ (k \in restored' <=> k \in restored)
<1> USE DEF IInv, TypeOK
<1>1. CASE UNCHANGED <<dbs, restored>>
  BY <1>1
<1>2. CASE CreateScratch(b) \/ Restore(b)
  <2>1. k # Wip(b)
    BY <1>2 DEF CreateScratch, Restore, Locks
  <2> QED
    BY <1>2, <2>1 DEF CreateScratch, Restore
<1>3. CASE Rename(b)
  <2>1. k # Wip(b) /\ k # Tpl(b)
    BY <1>3, Names DEF Rename, Locks, Tpl
  <2> QED
    BY <1>3, <2>1 DEF Rename
<1>4. CASE DropCandidate(b)
  BY <1>4 DEF DropCandidate, Drop
<1>5. CASE CloneTemplate(b) \/ DropTest(b)
  <2>1. k # TestDB(b)
    BY <1>5 DEF CloneTemplate, DropTest, Locks
  <2> QED
    BY <1>5, <2>1 DEF CloneTemplate, DropTest, Drop
<1>6. CASE Exit(b)
  <2>1. k # TestDB(b) /\ k # Orphan
    BY Names
  <2> QED
    BY <1>6, <2>1 DEF Exit
<1> QED
  BY <1>1, <1>2, <1>3, <1>4, <1>5, <1>6 DEF Step, Start, Ensure, Run, EnsureFails,
     LockCreation, CheckTemplate, ClaimScratch, ReleaseScratch, ClaimTemplate, ReleaseCreation,
     ListDatabases, TryCandidate, EndSweep, BeginTest, ClaimTest, CloneFails, ReleaseTest

-----------------------------------------------------------------------------
\* The locks and the databases of the binaries that take no step are kept.
LEMMA OthersKept ==
    ASSUME IInv, NEW b \in Binaries, Step(b), NEW o \in Binaries \ {b}
    PROVE  Locks(o)' /\ Made(o)'
<1>1. /\ pc'[o] = pc[o] /\ dump'[o] = dump[o]
      /\ \A k \in Keys : excl[k] = o => excl'[k] = o
  BY OthersStay
<1>2. Tpl(o)' = Tpl(o) /\ Wip(o)' = Wip(o) /\ TestDB(o)' = TestDB(o)
  BY <1>1 DEF Tpl, Wip, TestDB
<1>3. pc[o] # "off" => Tpl(o) \in Databases /\ Wip(o) \in Databases
  BY InKeys DEF IInv, Locks, Tpl, Wip
<1>4. Locks(o)'
  BY <1>1, <1>2, <1>3, InKeys DEF IInv, Locks, Building
<1>5. pc[o] \in {"restoring", "renaming"} =>
        (Wip(o) \in dbs' <=> Wip(o) \in dbs) /\ (Wip(o) \in restored' <=> Wip(o) \in restored)
  BY <1>3, LockedStays DEF IInv, Locks, Wip
<1>6. pc[o] = "testing" => (TestDB(o) \in restored' <=> TestDB(o) \in restored)
  BY InKeys, LockedStays DEF IInv, Locks
<1>7. pc[o] \in {"claimingScratch", "creating", "restoring", "renaming"} => Tpl(o) \notin dbs'
  <2> SUFFICES ASSUME pc[o] \in {"claimingScratch", "creating", "restoring", "renaming"}
               PROVE  Tpl(o) \notin dbs'
    OBVIOUS
  <2>1. excl[Creation] = o /\ Tpl(o) \notin dbs
    BY DEF IInv, Locks, Made, Building
  <2>2. ~Rename(b)
    BY <2>1 DEF Rename, IInv, Locks, Building
  <2>3. Tpl(o) # Wip(b) /\ Tpl(o) # TestDB(b) /\ Tpl(o) # Orphan
    BY Names DEF Tpl, Wip
  <2>4. dbs' \subseteq dbs \cup {Wip(b), TestDB(b), Orphan}
    BY <2>2 DEF Step, Start, Ensure, Run, EnsureFails, LockCreation, CheckTemplate,
        ClaimScratch, CreateScratch, Restore, ReleaseScratch, ClaimTemplate, ReleaseCreation,
        ListDatabases, TryCandidate, DropCandidate, Drop, EndSweep, BeginTest, ClaimTest,
        CloneTemplate, CloneFails, DropTest, ReleaseTest, Exit
  <2> QED
    BY <2>1, <2>3, <2>4
<1>8. Made(o)'
  BY <1>1, <1>2, <1>5, <1>6, <1>7 DEF IInv, Made
<1> QED
  BY <1>4, <1>8

\* A binary takes the locks it needs before it comes to where it needs them, and
\* what it finds or makes is so by then.
LEMMA OwnKept ==
    ASSUME IInv, NEW b \in Binaries, Step(b)
    PROVE  Locks(b)' /\ Made(b)'
<1> USE DEF IInv, TypeOK, Goto
<1>1. pc[b] # "off" => dump[b] \in Dumps /\ Tpl(b) \in Databases /\ Wip(b) \in Databases
  BY InKeys DEF Locks, Tpl, Wip
<1>2. CASE Start(b)
  <2>1. PICK d \in Found[b] : dump' = [dump EXCEPT ![b] = d]
    BY <1>2 DEF Start
  <2>2. d \in Dumps
    BY BinariesAssumption
  <2> QED
    BY <1>2, <2>1, <2>2 DEF Start, Locks, Made, Building
<1>3. CASE Exit(b)
  BY <1>3 DEF Exit, Locks, Made, Building
<1>4. CASE Ensure(b) \/ Run(b) \/ EnsureFails(b)
  <2>1. dump' = dump /\ Tpl(b)' = Tpl(b) /\ Wip(b)' = Wip(b) /\ TestDB(b)' = TestDB(b)
    BY <1>4 DEF Ensure, Run, EnsureFails, LockCreation, CheckTemplate, ClaimScratch,
        CreateScratch, Restore, Rename, ReleaseScratch, ClaimTemplate, ReleaseCreation,
        ListDatabases, TryCandidate, DropCandidate, EndSweep, BeginTest, ClaimTest,
        CloneTemplate, CloneFails, DropTest, ReleaseTest, Tpl, Wip, TestDB
  <2>2. CASE LockCreation(b)
    BY <1>1, <2>1, <2>2, InKeys DEF LockCreation, Take, Locks, Made, Building
  <2>3. CASE CheckTemplate(b)
    BY <1>1, <2>1, <2>3 DEF CheckTemplate, Locks, Made, Building
  <2>4. CASE ClaimScratch(b)
    <3>1. Wip(b) # Creation /\ Wip(b) \in Keys
      BY <1>1, <2>4, InKeys, CreationApart DEF ClaimScratch
    <3> QED
      BY <1>1, <2>1, <2>4, <3>1 DEF ClaimScratch, Take, Locks, Made, Building
  <2>5. CASE CreateScratch(b)
    <3>1. Tpl(b) # Wip(b)
      BY Names DEF Tpl, Wip
    <3> QED
      BY <1>1, <2>1, <2>5, <3>1 DEF CreateScratch, Locks, Made, Building
  <2>6. CASE Restore(b)
    BY <1>1, <2>1, <2>6 DEF Restore, Locks, Made, Building
  <2>7. CASE Rename(b)
    BY <1>1, <2>1, <2>7 DEF Rename, Locks, Made, Building
  <2>8. CASE ReleaseScratch(b)
    <3>1. Wip(b) # Creation
      BY <1>1, <2>8, CreationApart DEF ReleaseScratch
    <3> QED
      BY <1>1, <2>1, <2>8, <3>1, InKeys DEF ReleaseScratch, Locks, Made, Building
  <2>9. CASE ClaimTemplate(b) \/ ReleaseCreation(b) \/ ListDatabases(b)
    BY <1>1, <2>1, <2>9 DEF ClaimTemplate, ReleaseCreation, ListDatabases, Locks, Made, Building
  <2>10. CASE TryCandidate(b) \/ DropCandidate(b)
    BY <1>1, <2>1, <2>10 DEF TryCandidate, DropCandidate, Locks, Made, Building
  <2>11. CASE EndSweep(b) \/ EnsureFails(b)
    BY <1>1, <2>1, <2>11 DEF EndSweep, EnsureFails, Locks, Made, Building
  <2>12. CASE BeginTest(b) \/ CloneFails(b)
    BY <1>1, <2>1, <2>12 DEF BeginTest, CloneFails, Locks, Made, Building
  <2>13. CASE ClaimTest(b)
    BY <1>1, <2>1, <2>13, InKeys DEF ClaimTest, Take, Locks, Made, Building
  <2>14. CASE CloneTemplate(b)
    <3>1. Tpl(b) \in restored
      BY <1>1, <2>14 DEF CloneTemplate, TemplatesWhole, Tpl
    <3> QED
      BY <1>1, <2>1, <2>14, <3>1 DEF CloneTemplate, Locks, Made, Building
  <2>15. CASE DropTest(b) \/ ReleaseTest(b)
    BY <1>1, <2>1, <2>15 DEF DropTest, ReleaseTest, Locks, Made, Building
  <2> QED
    BY <1>4, <2>2, <2>3, <2>4, <2>5, <2>6, <2>7, <2>8, <2>9, <2>10, <2>11, <2>12, <2>13,
       <2>14, <2>15 DEF Ensure, Run
<1> QED
  BY <1>2, <1>3, <1>4 DEF Step

\* A template comes whole, from a scratch database that is, and stays so.
LEMMA WholeKept ==
    ASSUME IInv, NEW b \in Binaries, Step(b)
    PROVE  TemplatesWhole'
<1> SUFFICES ASSUME NEW d \in Dumps, Template(d) \in dbs'
             PROVE  Template(d) \in restored'
  BY DEF TemplatesWhole
<1>1. Template(d) # Wip(b) /\ Template(d) # TestDB(b) /\ Template(d) # Orphan
  BY Names DEF Wip
<1>2. Template(d) \in dbs => Template(d) \in restored
  BY DEF IInv, TemplatesWhole
<1>3. CASE UNCHANGED <<dbs, restored>>
  BY <1>2, <1>3
<1>4. CASE CreateScratch(b) \/ Restore(b)
  BY <1>1, <1>2, <1>4 DEF CreateScratch, Restore
<1>5. CASE Rename(b)
  <2>1. Wip(b) \in restored
    BY <1>5 DEF Rename, IInv, Made
  <2>2. restored' = (restored \ {Wip(b)}) \cup {Tpl(b)}
    BY <1>5, <2>1 DEF Rename
  <2> QED
    BY <1>1, <1>2, <1>5, <2>2 DEF Rename
<1>6. CASE DropCandidate(b) \/ DropTest(b)
  BY <1>2, <1>6 DEF DropCandidate, DropTest, Drop
<1>7. CASE CloneTemplate(b)
  BY <1>1, <1>2, <1>7 DEF CloneTemplate
<1>8. CASE Exit(b)
  BY <1>1, <1>2, <1>8 DEF Exit
<1> QED
  BY <1>3, <1>4, <1>5, <1>6, <1>7, <1>8 DEF Step, Start, Ensure, Run, EnsureFails,
     LockCreation, CheckTemplate, ClaimScratch, ReleaseScratch, ClaimTemplate, ReleaseCreation,
     ListDatabases, TryCandidate, EndSweep, BeginTest, ClaimTest, CloneFails, ReleaseTest

LEMMA Inductive == Spec => []IInv
<1>1. Init => IInv
  BY DEF Init, IInv, TypeOK, TemplatesWhole, Locks, Made, Building, Stages
<1>2. IInv /\ [Next]_vars => IInv'
  <2> SUFFICES ASSUME IInv, [Next]_vars PROVE IInv'
    OBVIOUS
  <2>1. CASE Next
    <3>1. PICK b \in Binaries : Step(b)
      BY <2>1 DEF Next, Step
    <3>2. \A o \in Binaries : Locks(o)' /\ Made(o)'
      BY <3>1, OwnKept, OthersKept
    <3> QED
      BY <3>1, <3>2, TypeKept, WholeKept DEF IInv
  <2>2. CASE UNCHANGED vars
    BY <2>2 DEF vars, IInv, TypeOK, TemplatesWhole, Locks, Made, Tpl, Wip
  <2> QED
    BY <2>1, <2>2
<1> QED
  BY <1>1, <1>2, PTL DEF Spec

\* The type invariant of the test databases holds in every state.
THEOREM Typing == Spec => []TypeOK
<1>1. IInv => TypeOK
  BY DEF IInv
<1> QED
  BY <1>1, Inductive, PTL

\* Whoever dies while building it, a database under a template's name is whole.
THEOREM TemplatesWholeHolds == Spec => []TemplatesWhole
<1>1. IInv => TemplatesWhole
  BY DEF IInv
<1> QED
  BY <1>1, Inductive, PTL

\* A template is built by one binary at a time, however many want it.
THEOREM BuiltOnceHolds == Spec => []BuiltOnce
<1>1. IInv => BuiltOnce
  BY DEF IInv, Made, BuiltOnce
<1> QED
  BY <1>1, Inductive, PTL

\* The scratch database of a binary that restores its dump stays until it is done.
THEOREM ScratchKeptHolds == Spec => []ScratchKept
<1>1. IInv => ScratchKept
  BY DEF IInv, Made, ScratchKept
<1> QED
  BY <1>1, Inductive, PTL

\* No sweep drops or is about to drop the database of a test that runs.
THEOREM TestUndisturbedHolds == Spec => []TestUndisturbed
<1>1. IInv => TestUndisturbed
  BY DEF IInv, Locks, Made, TestUndisturbed
<1> QED
  BY <1>1, Inductive, PTL
=============================================================================
