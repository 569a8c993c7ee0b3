------------------------------ MODULE KeyStore ------------------------------
(***************************************************************************)
(* What the storage of certificates promises the instances that share it,  *)
(* without the table, its pages and its requests.  A call on a directory   *)
(* has no snapshot of it, but each key is told of as it was at some moment *)
(* of the call, and a call that succeeds has done what it was asked to.    *)
(***************************************************************************)
CONSTANTS
    Clients,
    Keys,       \* those things are stored under
    Paths,      \* those asked for: keys, and the directories they're in
    Below,      \* the keys in each directory, however deep
    ChildIn     \* what of a directory a key in it is, or is in

VARIABLES
    there,      \* the keys there are
    call,       \* what each client is asking for
    been,       \* the keys that have been there at some moment of its call, and
    gone,       \* those that at some moment of it have not
    reply       \* what it was last told

storeVars == <<there, call, been, gone, reply>>

Operations == {"store", "load", "delete", "exists", "stat", "list"}
Answers == {"error", "done", "item", "directory", "absent", "keys", "children"}
NoCall == [op |-> "none", path |-> <<>>]
NoReply == [kind |-> "none", paths |-> {}]

Scope(path) == Below[path] \cup {path}

StoreInit ==
    /\ there \in SUBSET Keys
    /\ call = [c \in Clients |-> NoCall]
    /\ been = [c \in Clients |-> {}] /\ gone = [c \in Clients |-> {}]
    /\ reply = [c \in Clients |-> NoReply]

Ask(c) ==
    /\ call[c] = NoCall
    /\ \E op \in Operations, path \in Paths : call' = [call EXCEPT ![c] = [op |-> op, path |-> path]]
    /\ been' = [been EXCEPT ![c] = there] /\ gone' = [gone EXCEPT ![c] = Paths \ there]
    /\ reply' = [reply EXCEPT ![c] = NoReply]
    /\ UNCHANGED there

\* What is there changes, during every call there is.
Become(keys) ==
    /\ there' = keys
    /\ been' = [c \in Clients |-> IF call[c] = NoCall THEN {} ELSE been[c] \cup keys]
    /\ gone' = [c \in Clients |-> IF call[c] = NoCall THEN {} ELSE gone[c] \cup (Paths \ keys)]
    /\ UNCHANGED <<call, reply>>

Put(c) == call[c].op = "store" /\ Become(there \cup {call[c].path})

Remove(c) ==
    /\ call[c].op = "delete"
    /\ \E key \in Scope(call[c].path) : Become(there \ {key})

\* every key that stayed there, and none that never was
Listing(c, keys) ==
    /\ Below[call[c].path] \ gone[c] \subseteq keys
    /\ keys \subseteq Below[call[c].path] \cap been[c]

MayTell(c, kind, paths) ==
    LET op == call[c].op
        path == call[c].path
    IN  \/ kind = "error"
        \/ kind = "done" /\ op = "store" /\ path \in been[c]
        \/ kind = "done" /\ op = "delete" /\ Scope(path) \subseteq gone[c]
        \/ kind = "item" /\ op \in {"load", "exists", "stat"} /\ path \in been[c]
        \/ kind = "absent" /\ op = "load" /\ path \in gone[c]
        \/ kind = "absent" /\ op = "stat" /\ Scope(path) \subseteq gone[c]
        \/ kind = "absent" /\ op = "exists"  \* of anything: it's told of an error too
        \/ /\ kind = "directory" /\ op \in {"exists", "stat"}
           /\ path \in gone[c] /\ Below[path] \cap been[c] # {}
        \/ kind = "keys" /\ op = "list" /\ Listing(c, paths)
        \/ /\ kind = "children" /\ op = "list"
           /\ \E keys \in SUBSET Keys :
                Listing(c, keys) /\ paths = {ChildIn[path][key] : key \in keys}

Tell(c) ==
    /\ call[c] # NoCall /\ call' = [call EXCEPT ![c] = NoCall]
    /\ been' = [been EXCEPT ![c] = {}] /\ gone' = [gone EXCEPT ![c] = {}]
    /\ \E kind \in Answers, paths \in SUBSET Paths :
        /\ reply' = [reply EXCEPT ![c] = [kind |-> kind, paths |-> paths]]
        /\ MayTell(c, kind, paths)
    /\ UNCHANGED there

StoreNext == \E c \in Clients : Ask(c) \/ Put(c) \/ Remove(c) \/ Tell(c)

StoreSpec == StoreInit /\ [][StoreNext]_storeVars
=============================================================================
