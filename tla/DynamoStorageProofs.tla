------------------------ MODULE DynamoStorageProofs ------------------------
(***************************************************************************)
(* That the table keeps the promise of KeyStore, for any instances and any *)
(* keys: what the run of DynamoStorage checks on two instances and three   *)
(* keys.                                                                   *)
(***************************************************************************)
EXTENDS DynamoStorage, SequenceTheorems, WellFoundedInduction, TLAPS

USE DEF Looks

Calls == [op : Operations, path : Paths]

\* A call is at the stages of its operation alone.
Staged(i) ==
    /\ at[i] = "idle" => call[i] = NoCall /\ been[i] = {} /\ gone[i] = {}
    /\ at[i] # "idle" => call[i] \in Calls
    /\ at[i] = "getting" => call[i].op \in Looks \cup {"load"} /\ keys[i] = {}
    /\ at[i] = "scanning" => call[i].op \in Looks \cup {"delete", "list"}
    /\ at[i] = "putting" => call[i].op = "store" /\ call[i].path \in Keys
    /\ at[i] = "deleting" => call[i].op = "delete"

\* What is as it is has been as it is.
Seen(i) == at[i] # "idle" => items \subseteq been[i] /\ Paths \ items \subseteq gone[i]

\* What a scan has found has been there, and what it has passed over has not.
ScanSound(i) ==
    at[i] = "scanning" =>
        /\ left[i] \subseteq Under[call[i].path]
        /\ keys[i] \subseteq Under[call[i].path] \cap been[i]
        /\ Under[call[i].path] \ (left[i] \cup keys[i]) \subseteq gone[i]
        /\ call[i].op \in Looks => call[i].path \in gone[i]

\* What a call has yet to write is in its scope, and the rest of it is written.
WriteSound(i) ==
    /\ at[i] = "putting" =>
        keys[i] \subseteq {call[i].path} /\ {call[i].path} \ keys[i] \subseteq been[i]
    /\ at[i] = "deleting" =>
        /\ keys[i] \subseteq Under[call[i].path] \cup {call[i].path}
        /\ (Under[call[i].path] \cup {call[i].path}) \ keys[i] \subseteq gone[i]

IInv ==
    /\ TypeOK
    /\ \A i \in Instances : Staged(i) /\ Seen(i) /\ ScanSound(i) /\ WriteSound(i)

-----------------------------------------------------------------------------
LEMMA UnderType == Under \in [Paths -> SUBSET Keys]
BY DEF Under

\* Every set of naturals that isn't empty has a least one.
LEMMA Least ==
    ASSUME NEW S \in SUBSET Nat, S # {}
    PROVE  (CHOOSE n \in S : \A m \in S : n <= m) \in S
<1>1. PICK n \in S : \A m \in S : <<m, n>> \notin OpToRel(<, Nat)
  BY NatLessThanWellFounded, WFMin
<1>2. ASSUME NEW m \in S PROVE n <= m
  <2>1. <<m, n>> \in Nat \X Nat /\ <<m, n>>[1] = m /\ <<m, n>>[2] = n
    OBVIOUS
  <2>2. ~(<<m, n>>[1] < <<m, n>>[2])
    BY <1>1, <2>1, Zenon DEF OpToRel
  <2> QED
    BY <2>1, <2>2
<1> QED
  BY <1>2

\* A listing gives what can be asked for.
LEMMA ChildType ==
    ASSUME NEW path \in Paths, NEW key \in Keys
    PROVE  Child[path][key] \in Paths
<1> DEFINE slashes == {n \in Len(path) + 2 .. Len(key) : key[n] = Slash}
           first == CHOOSE n \in slashes : \A m \in slashes : n <= m
<1>1. Child[path][key] = IF slashes = {} THEN key ELSE SubSeq(key, 1, first - 1)
  BY DEF Child, ChildOf
<1>2. key \in Paths /\ key \in Seq(Pieces) /\ path \in Seq(Pieces)
  BY PathsAssumption
<1>3. CASE slashes = {}
  BY <1>1, <1>2, <1>3
<1>4. CASE slashes # {}
  <2>1. slashes \in SUBSET Nat
    BY <1>2
  <2>2. first \in slashes
    <3> HIDE DEF slashes
    <3> QED
      BY <1>4, <2>1, Least
  <2>3. first \in DOMAIN key /\ key[first] = Slash
    BY <1>2, <2>2
  <2> QED
    BY <1>1, <1>4, <2>3, PathsAssumption
<1> QED
  BY <1>3, <1>4

-----------------------------------------------------------------------------
\* A call begins with nothing found or written but what it is to write.
LEMMA BeginKeeps ==
    ASSUME IInv, NEW i \in Instances, NEW op \in Operations, NEW path \in Paths,
           NEW stage, NEW scan, NEW writes, Begin(i, op, path, stage, scan, writes),
           \/ stage = "putting" /\ op = "store" /\ path \in Keys /\ scan = {} /\ writes = {path}
           \/ stage = "getting" /\ op \in Looks \cup {"load"} /\ scan = {} /\ writes = {}
           \/ stage = "scanning" /\ op \in {"delete", "list"} /\ scan = Under[path] /\ writes = {}
    PROVE  IInv'
<1>1. scan \in SUBSET Keys /\ writes \in SUBSET Paths /\ stage \in Stages \ {"idle"}
  BY UnderType, PathsAssumption DEF Stages
<1>2. TypeOK'
  <2>1. [op |-> op, path |-> path] \in [op : Operations, path : Paths]
    OBVIOUS
  <2>2. NoReply \in [kind : Kinds, paths : SUBSET Paths]
    BY DEF NoReply, Kinds
  <2>3. TypeOK /\ items \in SUBSET Keys /\ Keys \subseteq Paths
    BY PathsAssumption DEF IInv, TypeOK
  <2> QED
    BY <1>1, <2>1, <2>2, <2>3 DEF TypeOK, Begin, Goto
<1>3. ASSUME NEW j \in Instances
      PROVE  Staged(j)' /\ Seen(j)' /\ ScanSound(j)' /\ WriteSound(j)'
  <2>1. CASE j # i
    <3>1. /\ at'[j] = at[j] /\ call'[j] = call[j] /\ left'[j] = left[j] /\ keys'[j] = keys[j]
          /\ been'[j] = been[j] /\ gone'[j] = gone[j] /\ items' = items
      BY <2>1 DEF IInv, TypeOK, Begin, Goto
    <3> QED
      BY <3>1 DEF IInv, Staged, Seen, ScanSound, WriteSound
  <2>2. CASE j = i
    <3>1. /\ at'[i] = stage /\ call'[i] = [op |-> op, path |-> path]
          /\ left'[i] = scan /\ keys'[i] = writes
          /\ been'[i] = items /\ gone'[i] = Paths \ items /\ items' = items
      BY DEF IInv, TypeOK, Begin, Goto
    <3>2. call'[i].op = op /\ call'[i].path = path /\ call'[i] \in Calls
      BY <3>1 DEF Calls
    <3>3. Staged(i)' /\ Seen(i)'
      BY <3>1, <3>2, <1>1 DEF Staged, Seen
    <3>4. WriteSound(i)'
      BY <3>1, <3>2 DEF WriteSound
    <3>5. ScanSound(i)'
      BY <3>1, <3>2 DEF ScanSound
    <3> QED
      BY <2>2, <3>3, <3>4, <3>5
  <2> QED
    BY <2>1, <2>2
<1> QED
  BY <1>2, <1>3 DEF IInv

\* A call that returns leaves the others as they are.
LEMMA ReturnKeeps ==
    ASSUME IInv, NEW i \in Instances, NEW kind \in Kinds, NEW paths \in SUBSET Paths,
           Return(i, kind, paths)
    PROVE  IInv'
<1>1. TypeOK'
  <2>1. [kind |-> kind, paths |-> paths] \in [kind : Kinds, paths : SUBSET Paths]
    OBVIOUS
  <2> QED
    BY <2>1 DEF IInv, TypeOK, Return, Goto, Stages
<1>2. ASSUME NEW j \in Instances
      PROVE  Staged(j)' /\ Seen(j)' /\ ScanSound(j)' /\ WriteSound(j)'
  <2>1. CASE j # i
    <3>1. /\ at'[j] = at[j] /\ call'[j] = call[j] /\ left'[j] = left[j] /\ keys'[j] = keys[j]
          /\ been'[j] = been[j] /\ gone'[j] = gone[j] /\ items' = items
      BY <2>1 DEF IInv, TypeOK, Return, Goto
    <3> QED
      BY <3>1 DEF IInv, Staged, Seen, ScanSound, WriteSound
  <2>2. CASE j = i
    <3>1. at'[i] = "idle" /\ call'[i] = NoCall /\ been'[i] = {} /\ gone'[i] = {}
      BY DEF IInv, TypeOK, Return, Goto
    <3> QED
      BY <2>2, <3>1 DEF Staged, Seen, ScanSound, WriteSound
  <2> QED
    BY <2>1, <2>2
<1> QED
  BY <1>1, <1>2 DEF IInv

\* The table changes under calls whose findings are history.
LEMMA WriteKeeps ==
    ASSUME IInv, NEW i \in Instances, NEW table \in SUBSET Keys, NEW key \in keys[i],
           at[i] \in {"putting", "deleting"}, Write(i, table, key),
           at[i] = "putting" => key \in table, at[i] = "deleting" => key \notin table
    PROVE  IInv'
<1>1. PICK lost \in {{}, {key}} : keys' = [keys EXCEPT ![i] = (@ \ {key}) \cup lost]
  BY DEF Write
<1>2. key \in Paths /\ lost \in SUBSET Paths
  BY DEF IInv, TypeOK
<1>3. TypeOK'
  <2>1. been' \in [Instances -> SUBSET Keys] /\ gone' \in [Instances -> SUBSET Paths]
    BY DEF IInv, TypeOK, Write
  <2>2. keys' \in [Instances -> SUBSET Paths]
    BY <1>1, <1>2 DEF IInv, TypeOK
  <2> QED
    BY <2>1, <2>2 DEF IInv, TypeOK, Write
<1>4. ASSUME NEW j \in Instances
      PROVE  Staged(j)' /\ Seen(j)' /\ ScanSound(j)' /\ WriteSound(j)'
  <2>1. /\ at'[j] = at[j] /\ call'[j] = call[j] /\ left'[j] = left[j] /\ items' = table
        /\ at[j] # "idle" => been'[j] = been[j] \cup table /\ gone'[j] = gone[j] \cup (Paths \ table)
        /\ at[j] = "idle" => been'[j] = {} /\ gone'[j] = {}
    BY DEF Write
  <2>2. j # i => keys'[j] = keys[j]
    BY <1>1 DEF IInv, TypeOK
  <2>3. keys'[i] = (keys[i] \ {key}) \cup lost
    BY <1>1 DEF IInv, TypeOK
  <2>4. Staged(j)' /\ Seen(j)'
    <3>1. at[j] = "getting" => keys'[j] = keys[j]
      BY <2>2
    <3> QED
      BY <2>1, <3>1 DEF IInv, Staged, Seen
  <2>5. ScanSound(j)'
    <3>1. CASE at[j] = "scanning"
      <4>1. j # i
        BY <3>1
      <4> QED
        BY <2>1, <2>2, <3>1, <4>1 DEF IInv, ScanSound
    <3> QED
      BY <2>1, <3>1 DEF ScanSound
  <2>6. WriteSound(j)'
    <3>1. CASE j # i
      BY <2>1, <2>2, <3>1 DEF IInv, WriteSound
    <3>2. CASE j = i
      <4>1. keys[i] \ {key} \subseteq keys'[i] /\ keys'[i] \subseteq keys[i]
        BY <2>3
      <4>2. key \in Paths
        BY <1>2
      <4> QED
        BY <2>1, <3>2, <4>1, <4>2 DEF IInv, WriteSound
    <3> QED
      BY <3>1, <3>2
  <2> QED
    BY <2>4, <2>5, <2>6
<1> QED
  BY <1>3, <1>4 DEF IInv

\* The steps that change neither the table nor what is asked for.
LEMMA ReadKeeps ==
    ASSUME IInv, NEW i \in Instances,
           \/ /\ Get(i) /\ call[i].op \in Looks /\ call[i].path \notin items
           \/ Scan(i)
           \/ BeginDeletes(i),
           UNCHANGED <<items, call, been, gone, reply>>
    PROVE  IInv'
<1>1. call[i] \in Calls /\ call[i].path \in Paths
  BY DEF IInv, Staged, Calls, Get, Scan, BeginDeletes, Scanned
<1>2. /\ at' = [at EXCEPT ![i] = at'[i]] /\ at'[i] \in Stages
      /\ left' = [left EXCEPT ![i] = left'[i]] /\ left'[i] \in SUBSET Keys
      /\ keys' = [keys EXCEPT ![i] = keys'[i]] /\ keys'[i] \in SUBSET Paths
  <2>1. CASE Get(i) /\ call[i].op \in Looks /\ call[i].path \notin items
    BY <1>1, <2>1, UnderType DEF Get, IInv, TypeOK, Goto, Stages
  <2>2. CASE Scan(i)
    BY <2>2, PathsAssumption DEF Scan, IInv, TypeOK
  <2>3. CASE BeginDeletes(i)
    BY <1>1, <2>3 DEF BeginDeletes, IInv, TypeOK, Goto, Stages
  <2> QED
    BY <2>1, <2>2, <2>3
<1>3. TypeOK'
  BY <1>2 DEF IInv, TypeOK
<1>4. ASSUME NEW j \in Instances
      PROVE  Staged(j)' /\ Seen(j)' /\ ScanSound(j)' /\ WriteSound(j)'
  <2>1. CASE j # i
    <3>1. at'[j] = at[j] /\ left'[j] = left[j] /\ keys'[j] = keys[j]
      BY <1>2, <2>1 DEF IInv, TypeOK
    <3> QED
      BY <3>1 DEF IInv, Staged, Seen, ScanSound, WriteSound
  <2>2. CASE j = i /\ Get(i) /\ call[i].op \in Looks /\ call[i].path \notin items
    <3>1. /\ at[i] = "getting" /\ at'[i] = "scanning" /\ left'[i] = Under[call[i].path]
          /\ keys'[i] = keys[i]
      BY <2>2 DEF Get, Return, IInv, TypeOK, Goto
    <3> QED
      BY <1>1, <2>2, <3>1 DEF IInv, Staged, Seen, ScanSound, WriteSound
  <2>3. CASE j = i /\ Scan(i)
    <3>1. PICK key \in left[i] :
            left'[i] = left[i] \ {key} /\ keys'[i] = keys[i] \cup ({key} \cap items)
      BY <2>3 DEF Scan, IInv, TypeOK
    <3>2. at[i] = "scanning" /\ at'[i] = "scanning" /\ key \in Paths
      BY <2>3, PathsAssumption DEF Scan, IInv, TypeOK
    <3> QED
      BY <2>3, <3>1, <3>2 DEF IInv, Staged, Seen, ScanSound, WriteSound
  <2>4. CASE j = i /\ BeginDeletes(i)
    <3>1. /\ at[i] = "scanning" /\ at'[i] = "deleting" /\ left[i] = {}
          /\ keys'[i] = keys[i] \cup {call[i].path} /\ call[i].op = "delete"
      BY <2>4 DEF BeginDeletes, Scanned, IInv, TypeOK, Goto
    <3> QED
      BY <1>1, <2>4, <3>1 DEF IInv, Staged, Seen, ScanSound, WriteSound
  <2> QED
    BY <2>1, <2>2, <2>3, <2>4
<1> QED
  BY <1>3, <1>4 DEF IInv

LEMMA StepKeeps ==
    ASSUME IInv, NEW i \in Instances,
           \/ Store(i) \/ Load(i) \/ Delete(i) \/ List(i) \/ Look(i)
           \/ Get(i) \/ Scan(i) \/ AnswerLook(i) \/ AnswerList(i)
           \/ BeginDeletes(i) \/ PutApplied(i) \/ DeleteApplied(i) \/ AnswerWrite(i)
           \/ Fail(i)
    PROVE  IInv'
<1>1. CASE Store(i)
  BY <1>1, BeginKeeps, PathsAssumption DEF Store, Operations
<1>2. CASE Load(i)
  BY <1>2, BeginKeeps, PathsAssumption DEF Load, Operations
<1>3. CASE Delete(i)
  BY <1>3, BeginKeeps DEF Delete, Operations
<1>4. CASE List(i)
  BY <1>4, BeginKeeps DEF List, Operations
<1>5. CASE Look(i)
  <2>1. PICK path \in Paths, op \in Looks : Begin(i, op, path, "getting", {}, {})
    BY <1>5 DEF Look
  <2> QED
    BY <2>1, BeginKeeps DEF Operations
<1>6. CASE Get(i)
  <2>1. CASE Return(i, "item", {}) \/ Return(i, "absent", {})
    BY <2>1, ReturnKeeps DEF Kinds
  <2>2. CASE /\ call[i].op \in Looks /\ call[i].path \notin items
             /\ UNCHANGED <<items, call, been, gone, reply>>
    BY <1>6, <2>2, ReadKeeps
  <2> QED
    BY <1>6, <2>1, <2>2 DEF Get
<1>7. CASE Scan(i)
  BY <1>7, ReadKeeps DEF Scan
<1>8. CASE AnswerLook(i)
  BY <1>8, ReturnKeeps DEF AnswerLook, Kinds
<1>9. CASE AnswerList(i)
  <2>1. keys[i] \in SUBSET Keys /\ call[i].path \in Paths
    BY <1>9, UnderType DEF AnswerList, Scanned, IInv, Staged, ScanSound, Calls
  <2>2. {Child[call[i].path][key] : key \in keys[i]} \in SUBSET Paths
    BY <2>1, ChildType
  <2>3. keys[i] \in SUBSET Paths
    BY <2>1, PathsAssumption
  <2> QED
    BY <1>9, <2>2, <2>3, ReturnKeeps DEF AnswerList, Kinds
<1>10. CASE BeginDeletes(i)
  BY <1>10, ReadKeeps DEF BeginDeletes
<1>11. CASE PutApplied(i)
  <2>1. PICK key \in keys[i] : Write(i, items \cup {key}, key)
    BY <1>11 DEF PutApplied
  <2>2. key \in Keys /\ items \cup {key} \in SUBSET Keys
    BY <1>11 DEF PutApplied, IInv, TypeOK, Staged, WriteSound
  <2> QED
    BY <1>11, <2>1, <2>2, WriteKeeps DEF PutApplied
<1>12. CASE DeleteApplied(i)
  <2>1. PICK key \in keys[i] : Write(i, items \ {key}, key)
    BY <1>12 DEF DeleteApplied
  <2>2. items \ {key} \in SUBSET Keys
    BY DEF IInv, TypeOK
  <2> QED
    BY <1>12, <2>1, <2>2, WriteKeeps DEF DeleteApplied
<1>13. CASE AnswerWrite(i)
  BY <1>13, ReturnKeeps DEF AnswerWrite, Kinds
<1>14. CASE Fail(i)
  BY <1>14, ReturnKeeps DEF Fail, Kinds
<1> QED
  BY <1>1, <1>2, <1>3, <1>4, <1>5, <1>6, <1>7, <1>8, <1>9, <1>10, <1>11, <1>12, <1>13, <1>14

LEMMA Inductive == Spec => []IInv
<1>1. Init => IInv
  <2> SUFFICES ASSUME Init PROVE IInv
    OBVIOUS
  <2>1. NoReply \in [kind : Kinds, paths : SUBSET Paths]
    BY DEF NoReply, Kinds
  <2>2. TypeOK
    BY <2>1 DEF Init, TypeOK, Stages
  <2> QED
    BY <2>2 DEF Init, IInv, Staged, Seen, ScanSound, WriteSound
<1>2. IInv /\ [Next]_vars => IInv'
  <2> SUFFICES ASSUME IInv, [Next]_vars PROVE IInv'
    OBVIOUS
  <2>1. CASE Next
    BY <2>1, StepKeeps DEF Next
  <2>2. CASE UNCHANGED vars
    BY <2>2 DEF vars, IInv, TypeOK, Staged, Seen, ScanSound, WriteSound
  <2> QED
    BY <2>1, <2>2
<1> QED
  BY <1>1, <1>2, PTL DEF Spec

\* The type invariant of the storage holds in every state.
THEOREM Typing == Spec => []TypeOK
<1>1. IInv => TypeOK
  BY DEF IInv
<1> QED
  BY <1>1, Inductive, PTL

-----------------------------------------------------------------------------
\* A call that is at some stage is one, and there is none at no stage.
LEMMA InCall ==
    ASSUME IInv, NEW i \in Instances
    PROVE  /\ at[i] = "idle" <=> call[i] = NoCall
           /\ at[i] # "idle" => call[i].op \in Operations /\ call[i].path \in Paths
BY DEF IInv, Staged, Calls, NoCall, Operations

LEMMA BeginAsks ==
    ASSUME IInv, NEW i \in Instances, NEW op \in Operations, NEW path \in Paths,
           NEW stage, NEW scan, NEW writes, Begin(i, op, path, stage, scan, writes)
    PROVE  Kept!Ask(i)
BY InCall DEF Begin, Kept!Ask, Kept!NoCall, NoCall, Kept!NoReply, NoReply, Kept!Operations, Operations

LEMMA ReturnTells ==
    ASSUME IInv, NEW i \in Instances, at[i] # "idle",
           NEW kind \in Kept!Answers, NEW paths \in SUBSET Paths,
           Return(i, kind, paths), Kept!MayTell(i, kind, paths)
    PROVE  Kept!Tell(i)
BY InCall DEF Return, Kept!Tell, Kept!NoCall, NoCall

LEMMA WriteBecomes ==
    ASSUME IInv, NEW i \in Instances, NEW table, NEW key, Write(i, table, key)
    PROVE  Kept!Become(table)
<1>1. \A j \in Instances : at[j] = "idle" <=> call[j] = NoCall
  BY InCall
<1> QED
  BY <1>1 DEF Write, Kept!Become, Kept!NoCall, NoCall

\* What is read of a key alone is how it is at that moment of the call.
LEMMA GetImplements ==
    ASSUME IInv, NEW i \in Instances, Get(i)
    PROVE  Kept!Tell(i) \/ UNCHANGED Kept!storeVars
<1>1. at[i] = "getting" /\ call[i].op \in Looks \cup {"load"} /\ call[i].path \in Paths
  BY InCall DEF Get, IInv, Staged
<1>2. items \subseteq been[i] /\ Paths \ items \subseteq gone[i]
  BY <1>1 DEF IInv, Seen
<1>3. CASE call[i].path \in items /\ Return(i, "item", {})
  BY <1>1, <1>2, <1>3, ReturnTells DEF Kept!Answers, Kept!MayTell
<1>4. CASE call[i].path \notin items /\ call[i].op = "load" /\ Return(i, "absent", {})
  BY <1>1, <1>2, <1>4, ReturnTells DEF Kept!Answers, Kept!MayTell
<1>5. CASE UNCHANGED <<items, call, keys, been, gone, reply>>
  BY <1>5 DEF Kept!storeVars
<1> QED
  BY <1>3, <1>4, <1>5 DEF Get

\* At the end of a scan what it has found is a listing.
LEMMA ScannedLists ==
    ASSUME IInv, NEW i \in Instances, Scanned(i)
    PROVE  /\ at[i] = "scanning" /\ call[i].path \in Paths /\ keys[i] \subseteq Keys
           /\ Kept!Listing(i, keys[i])
           /\ keys[i] = {} => Under[call[i].path] \subseteq gone[i]
<1>1. at[i] = "scanning" /\ left[i] = {} /\ call[i].path \in Paths
  BY InCall DEF Scanned
<1>2. /\ keys[i] \subseteq Under[call[i].path] \cap been[i]
      /\ Under[call[i].path] \ keys[i] \subseteq gone[i]
  BY <1>1 DEF IInv, ScanSound
<1>3. Under[call[i].path] \subseteq Keys
  BY <1>1, UnderType
<1> QED
  BY <1>1, <1>2, <1>3 DEF Kept!Listing

LEMMA LookImplements ==
    ASSUME IInv, NEW i \in Instances, AnswerLook(i)
    PROVE  Kept!Tell(i)
<1>1. Scanned(i) /\ call[i].op \in Looks
  BY DEF AnswerLook
<1>2. at[i] = "scanning" /\ Kept!Listing(i, keys[i]) /\ call[i].path \in gone[i]
  BY <1>1, ScannedLists DEF IInv, ScanSound
<1>3. CASE keys[i] = {}
  <2>1. Return(i, "absent", {}) /\ Under[call[i].path] \subseteq gone[i]
    BY <1>1, <1>3, ScannedLists DEF AnswerLook
  <2> QED
    BY <1>1, <1>2, <2>1, ReturnTells DEF Kept!Answers, Kept!MayTell, Kept!Scope
<1>4. CASE keys[i] # {}
  <2>1. Return(i, "directory", {}) /\ Under[call[i].path] \cap been[i] # {}
    BY <1>2, <1>4 DEF AnswerLook, Kept!Listing
  <2> QED
    BY <1>1, <1>2, <2>1, ReturnTells DEF Kept!Answers, Kept!MayTell
<1> QED
  BY <1>3, <1>4

LEMMA ListImplements ==
    ASSUME IInv, NEW i \in Instances, AnswerList(i)
    PROVE  Kept!Tell(i)
<1>1. Scanned(i) /\ call[i].op = "list"
  BY DEF AnswerList
<1>2. /\ at[i] = "scanning" /\ Kept!Listing(i, keys[i]) /\ call[i].path \in Paths
      /\ keys[i] \in SUBSET Keys
  BY <1>1, ScannedLists
<1>3. CASE Return(i, "keys", keys[i])
  <2>1. keys[i] \in SUBSET Paths /\ Kept!MayTell(i, "keys", keys[i])
    BY <1>1, <1>2, PathsAssumption DEF Kept!MayTell
  <2> QED
    BY <1>2, <1>3, <2>1, ReturnTells DEF Kept!Answers
<1>4. CASE Return(i, "children", {Child[call[i].path][key] : key \in keys[i]})
  <2> DEFINE children == {Child[call[i].path][key] : key \in keys[i]}
  <2>1. children \in SUBSET Paths
    BY <1>2, ChildType
  <2>2. Kept!MayTell(i, "children", children)
    BY <1>1, <1>2 DEF Kept!MayTell
  <2> HIDE DEF children
  <2> QED
    BY <1>2, <1>4, <2>1, <2>2, ReturnTells DEF Kept!Answers, children
<1> QED
  BY <1>3, <1>4 DEF AnswerList

\* When there is nothing left to write all of it has been written.
LEMMA WrittenImplements ==
    ASSUME IInv, NEW i \in Instances, AnswerWrite(i)
    PROVE  Kept!Tell(i)
<1>1. at[i] \in {"putting", "deleting"} /\ keys[i] = {} /\ Return(i, "done", {})
  BY DEF AnswerWrite
<1>2. Kept!MayTell(i, "done", {})
  BY <1>1 DEF Kept!MayTell, Kept!Scope, IInv, Staged, WriteSound
<1> QED
  BY <1>1, <1>2, ReturnTells DEF Kept!Answers

LEMMA StepImplements ==
    ASSUME IInv, NEW i \in Instances,
           \/ Store(i) \/ Load(i) \/ Delete(i) \/ List(i) \/ Look(i)
           \/ Get(i) \/ Scan(i) \/ AnswerLook(i) \/ AnswerList(i)
           \/ BeginDeletes(i) \/ PutApplied(i) \/ DeleteApplied(i) \/ AnswerWrite(i)
           \/ Fail(i)
    PROVE  Kept!StoreNext \/ UNCHANGED Kept!storeVars
<1>1. CASE Store(i) \/ Load(i) \/ Delete(i) \/ List(i) \/ Look(i)
  <2>1. Kept!Ask(i)
    BY <1>1, BeginAsks, PathsAssumption DEF Store, Load, Delete, List, Look, Operations
  <2> QED
    BY <2>1 DEF Kept!StoreNext
<1>2. CASE Get(i) \/ AnswerLook(i) \/ AnswerList(i) \/ AnswerWrite(i)
  BY <1>2, GetImplements, LookImplements, ListImplements, WrittenImplements DEF Kept!StoreNext
<1>3. CASE Scan(i) \/ BeginDeletes(i)
  BY <1>3 DEF Scan, BeginDeletes, Kept!storeVars
<1>4. CASE PutApplied(i)
  <2>1. PICK key \in keys[i] : Write(i, items \cup {key}, key)
    BY <1>4 DEF PutApplied
  <2>2. call[i].op = "store" /\ key = call[i].path
    BY <1>4 DEF PutApplied, IInv, Staged, WriteSound
  <2> QED
    BY <2>1, <2>2, WriteBecomes DEF Kept!Put, Kept!StoreNext
<1>5. CASE DeleteApplied(i)
  <2>1. PICK key \in keys[i] : Write(i, items \ {key}, key)
    BY <1>5 DEF DeleteApplied
  <2>2. call[i].op = "delete" /\ key \in Kept!Scope(call[i].path)
    BY <1>5 DEF DeleteApplied, IInv, Staged, WriteSound, Kept!Scope
  <2> QED
    BY <2>1, <2>2, WriteBecomes DEF Kept!Remove, Kept!StoreNext
<1>6. CASE Fail(i)
  <2>1. CASE call[i].op = "exists"
    <3>1. Return(i, "absent", {}) /\ Kept!MayTell(i, "absent", {})
      BY <1>6, <2>1 DEF Fail, Kept!MayTell
    <3> QED
      BY <1>6, <3>1, ReturnTells DEF Fail, Kept!Answers, Kept!StoreNext
  <2>2. CASE call[i].op # "exists"
    <3>1. Return(i, "error", {}) /\ Kept!MayTell(i, "error", {})
      BY <1>6, <2>2 DEF Fail, Kept!MayTell
    <3> QED
      BY <1>6, <3>1, ReturnTells DEF Fail, Kept!Answers, Kept!StoreNext
  <2> QED
    BY <2>1, <2>2
<1> QED
  BY <1>1, <1>2, <1>3, <1>4, <1>5, <1>6

\* The scans and the requests of the table keep the promise of KeyStore.
THEOREM StorageImplements == Spec => Implements
<1>1. Init => Kept!StoreInit
  BY DEF Init, Kept!StoreInit, Kept!NoCall, NoCall, Kept!NoReply, NoReply
<1>2. IInv /\ [Next]_vars => [Kept!StoreNext]_(Kept!storeVars)
  <2> SUFFICES ASSUME IInv, [Next]_vars PROVE Kept!StoreNext \/ UNCHANGED Kept!storeVars
    OBVIOUS
  <2>1. CASE Next
    BY <2>1, StepImplements DEF Next
  <2>2. CASE UNCHANGED vars
    BY <2>2 DEF vars, Kept!storeVars
  <2> QED
    BY <2>1, <2>2
<1> QED
  BY <1>1, <1>2, Inductive, PTL DEF Spec, Implements, Kept!StoreSpec

-----------------------------------------------------------------------------
\* Only a key in the directory begins with its path and a slash.
LEMMA UnderInside ==
    ASSUME NEW path \in Paths, NEW key \in Under[path]
    PROVE  key \in Keys /\ Inside(key, path)
<1> DEFINE prefix == Append(path, Slash)
<1>1. key \in Keys /\ IsPrefix(prefix, key)
  BY DEF Under
<1>2. path \in Seq(Pieces) /\ key \in Seq(Pieces) /\ Slash \in Pieces
  BY <1>1, PathsAssumption
<1>3. /\ prefix \in Seq(Pieces) /\ Len(prefix) = Len(path) + 1
      /\ \A n \in 1 .. Len(path) : prefix[n] = path[n]
      /\ prefix[Len(path) + 1] = Slash
  BY <1>2, AppendProperties
<1> HIDE DEF prefix
<1>4. Len(prefix) <= Len(key) /\ SubSeq(prefix, 1, Len(prefix)) = SubSeq(key, 1, Len(prefix))
  BY <1>1 DEF IsPrefix
<1>5. \A n \in 1 .. Len(prefix) : prefix[n] = key[n]
  <2> SUFFICES ASSUME NEW n \in 1 .. Len(prefix) PROVE prefix[n] = key[n]
    OBVIOUS
  <2>1. Len(prefix) \in Int /\ \A m \in 1 .. Len(prefix) : prefix[m] \in Pieces /\ key[m] \in Pieces
    BY <1>2, <1>3, <1>4
  <2>2. n \in 1 .. Len(prefix) - 1 + 1 /\ 1 + n - 1 = n
    BY <2>1
  <2>3. SubSeq(prefix, 1, Len(prefix))[n] = prefix[n]
    BY <2>1, <2>2, SubSeqProperties
  <2>4. SubSeq(key, 1, Len(prefix))[n] = key[n]
    BY <2>1, <2>2, SubSeqProperties
  <2> QED
    BY <1>4, <2>3, <2>4
<1>6. Len(path) \in Nat /\ Len(key) \in Nat
  BY <1>2
<1> QED
  BY <1>1, <1>3, <1>4, <1>5, <1>6 DEF Inside

\* Whatever is stored and deleted meanwhile, a key changes for a call on it alone,
\* or on a directory it is in.
THEOREM OthersKeptHolds == Spec => OthersKept
<1> DEFINE Asked(key) == \E i \in Instances :
            \/ key \in items' /\ call[i] = [op |-> "store", path |-> key]
            \/ /\ key \in items /\ call[i].op = "delete"
               /\ key = call[i].path \/ Inside(key, call[i].path)
           Others == \A key \in Keys : (key \in items) # (key \in items') => Asked(key)
<1>1. IInv /\ [Next]_vars => [Others]_vars
  <2> SUFFICES ASSUME IInv, Next, NEW key \in Keys, (key \in items) # (key \in items')
               PROVE  Asked(key)
    OBVIOUS
  <2>1. PICK i \in Instances : PutApplied(i) \/ DeleteApplied(i)
    BY DEF Next, Store, Load, Delete, List, Look, Begin, Get, Scan, AnswerLook, AnswerList,
        BeginDeletes, AnswerWrite, Fail, Return
  <2>2. CASE PutApplied(i)
    <3>1. PICK k \in keys[i] : items' = items \cup {k}
      BY <2>2 DEF PutApplied, Write
    <3>2. call[i] \in Calls /\ call[i].op = "store" /\ k = call[i].path
      BY <2>2, <3>1 DEF PutApplied, IInv, Staged, WriteSound
    <3>3. key = k /\ key \in items'
      BY <3>1
    <3>4. call[i] = [op |-> "store", path |-> key]
      BY <3>2, <3>3 DEF Calls
    <3> QED
      BY <3>3, <3>4
  <2>3. CASE DeleteApplied(i)
    <3>1. PICK k \in keys[i] : items' = items \ {k}
      BY <2>3 DEF DeleteApplied, Write
    <3>2. /\ call[i].op = "delete" /\ call[i].path \in Paths
          /\ k \in Under[call[i].path] \cup {call[i].path}
      BY <2>3, <3>1, InCall DEF DeleteApplied, IInv, Staged, WriteSound
    <3>3. key = k /\ key \in items
      BY <3>1
    <3>4. key = call[i].path \/ Inside(key, call[i].path)
      BY <3>2, <3>3, UnderInside
    <3> QED
      BY <3>2, <3>3, <3>4
  <2> QED
    BY <2>1, <2>2, <2>3
<1>2. [][Others]_vars => OthersKept
  BY DEF OthersKept
<1> HIDE DEF Others
<1> QED
  BY <1>1, <1>2, Inductive, PTL DEF Spec
=============================================================================
