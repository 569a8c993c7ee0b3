---------------------------- MODULE DynamoStorage ----------------------------
(***************************************************************************)
(* The operations of DynamoStorage in core/certs/storage.go, but for the   *)
(* locks of DynamoLock: what the instances of a deployment store in their  *)
(* table, an item to a key.  A directory is only what keys begin with, so  *)
(* an operation on one is a scan of the table and as many requests as it   *)
(* has keys, with those of others between them.                            *)
(*                                                                         *)
(* A key is the pieces of its text, Slash among them: example.com and      *)
(* example.com.au begin the same.                                          *)
(***************************************************************************)
EXTENDS Naturals, Sequences, SequencesExt

CONSTANTS
    Instances,
    Pieces,     \* what the text of a key is made of
    Slash,
    Keys,       \* those CertMagic stores under
    Paths       \* those it asks for: keys, and the directories they're in

ASSUME PathsAssumption ==
    /\ Slash \in Pieces
    /\ Keys \subseteq Paths /\ \A path \in Paths : path \in Seq(Pieces)
    /\ \A key \in Keys : \A n \in DOMAIN key : key[n] = Slash => SubSeq(key, 1, n - 1) \in Paths

VARIABLES
    items,      \* the keys there is an item at
    call,       \* what each instance is asking for
    at,         \* where it is with it
    left,       \* the keys its scan has yet to get to
    keys,       \* those it has found, or has yet to write
    been, gone, \* history: the keys that have been there, and that have not, during it
    reply       \* what it was last told

vars == <<items, call, at, left, keys, been, gone, reply>>

Operations == {"store", "load", "delete", "exists", "stat", "list"}
Looks == {"exists", "stat"}
NoCall == [op |-> "none", path |-> <<>>]
NoReply == [kind |-> "none", paths |-> {}]

Stages == {"idle", "getting", "scanning", "putting", "deleting"}
Kinds == {"none", "error", "done", "item", "directory", "absent", "keys", "children"}

TypeOK ==
    /\ items \subseteq Keys
    /\ call \in [Instances -> [op : Operations, path : Paths] \cup {NoCall}]
    /\ at \in [Instances -> Stages]
    /\ left \in [Instances -> SUBSET Keys] /\ keys \in [Instances -> SUBSET Paths]
    /\ been \in [Instances -> SUBSET Keys] /\ gone \in [Instances -> SUBSET Paths]
    /\ reply \in [Instances -> [kind : Kinds, paths : SUBSET Paths]]

-----------------------------------------------------------------------------
WithoutSlash == [path \in Paths |-> {key \in Keys : IsPrefix(path, key)}]

\* begins_with(#k, :prefix), the prefix being the path with a slash
Under == [path \in Paths |-> {key \in Keys : IsPrefix(Append(path, Slash), key)}]

RestOnly(path, key) == SubSeq(key, Len(path) + 2, Len(key))

\* the key's text up to its first slash after that of the path
ChildOf(path, key) ==
    LET slashes == {n \in Len(path) + 2 .. Len(key) : key[n] = Slash}
    IN  IF slashes = {} THEN key
        ELSE SubSeq(key, 1, (CHOOSE n \in slashes : \A m \in slashes : n <= m) - 1)

Child == [path \in Paths |-> [key \in Keys |-> ChildOf(path, key)]]

Goto(i, stage) == at' = [at EXCEPT ![i] = stage]

Init ==
    /\ items \in SUBSET Keys
    /\ call = [i \in Instances |-> NoCall] /\ at = [i \in Instances |-> "idle"]
    /\ left = [i \in Instances |-> {}] /\ keys = [i \in Instances |-> {}]
    /\ been = [i \in Instances |-> {}] /\ gone = [i \in Instances |-> {}]
    /\ reply = [i \in Instances |-> NoReply]

Begin(i, op, path, stage, scan, writes) ==
    /\ at[i] = "idle" /\ Goto(i, stage)
    /\ call' = [call EXCEPT ![i] = [op |-> op, path |-> path]]
    /\ left' = [left EXCEPT ![i] = scan] /\ keys' = [keys EXCEPT ![i] = writes]
    /\ been' = [been EXCEPT ![i] = items] /\ gone' = [gone EXCEPT ![i] = Paths \ items]
    /\ reply' = [reply EXCEPT ![i] = NoReply]
    /\ UNCHANGED items

Store(i)  == \E key \in Keys : Begin(i, "store", key, "putting", {}, {key})
Load(i)   == \E key \in Keys : Begin(i, "load", key, "getting", {}, {})
Delete(i) == \E path \in Paths : Begin(i, "delete", path, "scanning", Under[path], {})
List(i)   == \E path \in Paths : Begin(i, "list", path, "scanning", Under[path], {})

\* Exists and Stat, which make the same requests
Look(i)   == \E path \in Paths, op \in Looks : Begin(i, op, path, "getting", {}, {})

Return(i, kind, paths) ==
    /\ reply' = [reply EXCEPT ![i] = [kind |-> kind, paths |-> paths]]
    /\ Goto(i, "idle") /\ call' = [call EXCEPT ![i] = NoCall]
    /\ left' = [left EXCEPT ![i] = {}] /\ keys' = [keys EXCEPT ![i] = {}]
    /\ been' = [been EXCEPT ![i] = {}] /\ gone' = [gone EXCEPT ![i] = {}]
    /\ UNCHANGED items

\* get, which is a consistent read
Get(i) ==
    /\ at[i] = "getting"
    /\ LET path == call[i].path
       IN  \/ path \in items /\ Return(i, "item", {})
           \/ path \notin items /\ call[i].op = "load" /\ Return(i, "absent", {})
           \/ /\ path \notin items /\ call[i].op \in Looks
              /\ Goto(i, "scanning") /\ left' = [left EXCEPT ![i] = Under[path]]
              /\ UNCHANGED <<items, call, keys, been, gone, reply>>

OnlyFirstPage(i) ==
    /\ at[i] = "scanning"
    /\ left' = [left EXCEPT ![i] = {}]
    /\ \E page \in SUBSET left[i] : keys' = [keys EXCEPT ![i] = items \cap page]
    /\ UNCHANGED <<items, call, at, been, gone, reply>>

\* keysWithPrefix reads consistently too, but page after page is no snapshot: a
\* key is there or not when the scan gets to it, in an order of the table's.
Scan(i) ==
    /\ at[i] = "scanning"
    /\ \E key \in left[i] :
        /\ left' = [left EXCEPT ![i] = @ \ {key}]
        /\ keys' = [keys EXCEPT ![i] = @ \cup ({key} \cap items)]
    /\ UNCHANGED <<items, call, at, been, gone, reply>>

Scanned(i) == at[i] = "scanning" /\ left[i] = {}

AnswerLook(i) ==
    /\ Scanned(i) /\ call[i].op \in Looks
    /\ Return(i, IF keys[i] = {} THEN "absent" ELSE "directory", {})

\* all of them or, if it isn't recursive, the immediate children
AnswerList(i) ==
    /\ Scanned(i) /\ call[i].op = "list"
    /\ \/ Return(i, "keys", keys[i])
       \/ Return(i, "children", {Child[call[i].path][key] : key \in keys[i]})

\* append(keys, key)
BeginDeletes(i) ==
    /\ Scanned(i) /\ call[i].op = "delete"
    /\ Goto(i, "deleting") /\ keys' = [keys EXCEPT ![i] = @ \cup {call[i].path}]
    /\ UNCHANGED <<items, call, left, been, gone, reply>>

\* The table applies a request for the key, during every call there is; if its
\* answer is lost the SDK can send it again.
Write(i, table, key) ==
    /\ items' = table
    /\ been' = [j \in Instances |-> IF at[j] = "idle" THEN {} ELSE been[j] \cup table]
    /\ gone' = [j \in Instances |-> IF at[j] = "idle" THEN {} ELSE gone[j] \cup (Paths \ table)]
    /\ \E lost \in {{}, {key}} : keys' = [keys EXCEPT ![i] = (@ \ {key}) \cup lost]
    /\ UNCHANGED <<call, at, left, reply>>

PutApplied(i) ==
    /\ at[i] = "putting"
    /\ \E key \in keys[i] : Write(i, items \cup {key}, key)

\* in the scan's order, which is any, and the path itself last
DeleteApplied(i) ==
    /\ at[i] = "deleting"
    /\ \E key \in keys[i] :
        /\ key = call[i].path => keys[i] = {key}
        /\ Write(i, items \ {key}, key)

AnswerWrite(i) ==
    /\ at[i] \in {"putting", "deleting"} /\ keys[i] = {}
    /\ Return(i, "done", {})

\* A request fails, or its answer stays lost, or the instance dies: whatever was
\* asked for ends there.  Exists has no error to return: it says there's nothing.
Fail(i) ==
    /\ at[i] # "idle"
    /\ Return(i, IF call[i].op = "exists" THEN "absent" ELSE "error", {})

Next == \E i \in Instances :
    \/ Store(i) \/ Load(i) \/ Delete(i) \/ List(i) \/ Look(i)
    \/ Get(i) \/ Scan(i) \/ AnswerLook(i) \/ AnswerList(i)
    \/ BeginDeletes(i) \/ PutApplied(i) \/ DeleteApplied(i) \/ AnswerWrite(i)
    \/ Fail(i)

Spec == Init /\ [][Next]_vars

-----------------------------------------------------------------------------
\* The table keeps the promise of KeyStore: a listing has what stays there for as
\* long as it takes and nothing that never was, Stat finds what stays there, what
\* Exists finds is there, and a Delete that returns no error has removed all that was there before
\* it, whatever the others store and delete meanwhile (storage.go:68-139, 199-223).
Kept == INSTANCE KeyStore WITH
    Clients <- Instances,
    there <- items,
    Below <- Under,
    ChildIn <- Child

Implements == Kept!StoreSpec

\* the key is in the directory, or in one that's in it
Inside(key, path) ==
    /\ Len(key) > Len(path) /\ key[Len(path) + 1] = Slash
    /\ \A n \in 1 .. Len(path) : key[n] = path[n]

\* A step changes a key only for an instance that is storing it, or deleting it or
\* a directory it is in; a name that only begins the same is none (storage.go:69).
OthersKept ==
    [][\A key \in Keys : (key \in items) # (key \in items') =>
        \E i \in Instances :
            \/ key \in items' /\ call[i] = [op |-> "store", path |-> key]
            \/ /\ key \in items /\ call[i].op = "delete"
               /\ key = call[i].path \/ Inside(key, call[i].path)]_vars
=============================================================================
