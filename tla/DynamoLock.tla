----------------------------- MODULE DynamoLock -----------------------------
(***************************************************************************)
(* DynamoStorage.Lock and Unlock of core/certs/storage.go: the lock item   *)
(* the instances of a deployment share in a DynamoDB table, taken with a   *)
(* conditional put, released with a delete, given an expiry.               *)
(*                                                                         *)
(* One name is modelled: the item of a name is written by the puts and     *)
(* deletes of that name alone, so the locks of two names never meet.       *)
(*                                                                         *)
(* Time is counted in ticks, TicksPerSecond of them to a second, because   *)
(* the code reads a fine clock and keeps whole seconds of it.  now is the  *)
(* true time, which no instance sees: instance i reads now + Skew[i].      *)
(***************************************************************************)
EXTENDS Integers

CONSTANTS
    Instances,       \* the instances of the deployment
    TicksPerSecond,
    LockDuration,    \* seconds a lock is given before it can be reclaimed
    LockPollEvery,   \* ticks between two attempts at a lock that is taken
    Skew,            \* how far ahead of the slowest clock an instance's is
    MaxSkew,         \* a bound on Skew
    MaxLatency,      \* ticks a put takes at most (used by LiveSpec alone)
    MaxTime          \* where the model's time ends

ASSUME InstancesAssumption == Instances # {}

ASSUME ClockAssumption ==
    /\ TicksPerSecond \in Nat \ {0}
    /\ LockDuration \in Nat
    /\ LockPollEvery \in Nat
    /\ MaxSkew \in Nat
    /\ Skew \in [Instances -> 0 .. MaxSkew]
    /\ MaxLatency \in Nat
    /\ MaxTime \in Nat

VARIABLES
    now,          \* the true time
    lock,         \* the lock's item in the table, or NoItem
    state,        \* where each instance is in Lock or Unlock
    read,         \* the time an instance's current attempt read from its clock
    wakeAt,       \* when an instance that waits tries again
    strayDelete   \* history: a late or a repeated delete has reached the table

vars == <<now, lock, state, read, wakeAt, strayDelete>>

NoItem == [expires |-> -1, owner |-> "none"]

\* storageItem as a lock uses it; who wrote it is not in the table, and only
\* the properties look at it
Items == [expires : Nat, owner : Instances]

States == {"idle",        \* neither holds the lock nor asks for it
           "putting",     \* its conditional put is on its way
           "waiting",     \* the put was refused, it waits for the next poll
           "holding",     \* Lock has returned
           "unlocking",   \* its delete is on its way
           "redeleting"}  \* its delete was applied, the answer was lost and
                          \* the SDK sends it again

TypeOK ==
    /\ now \in 0 .. MaxTime
    /\ lock \in Items \cup {NoItem}
    /\ state \in [Instances -> States]
    /\ read \in [Instances -> Nat]
    /\ wakeAt \in [Instances -> Nat]
    /\ strayDelete \in BOOLEAN

-----------------------------------------------------------------------------
Clock(i) == now + Skew[i]

\* time.Time.Unix
Unix(t) == t \div TicksPerSecond

BackdatedItem(i) == [expires |-> Unix(read[i]) - LockDuration, owner |-> i]

LockItem(i) == [expires |-> Unix(read[i]) + LockDuration, owner |-> i]

NeverReclaimedFree(i) == lock = NoItem
EagerFree(i) == lock = NoItem \/ lock.expires <= Unix(read[i])

\* attribute_not_exists(#k) OR #e < :now
Free(i) == lock = NoItem \/ lock.expires < Unix(read[i])

-----------------------------------------------------------------------------
Init ==
    /\ now = 0
    /\ lock = NoItem
    /\ state = [i \in Instances |-> "idle"]
    /\ read = [i \in Instances |-> 0]
    /\ wakeAt = [i \in Instances |-> 0]
    /\ strayDelete = FALSE

\* an attempt: the clock is read once, for the expiry and for the condition
Attempt(i) ==
    /\ state' = [state EXCEPT ![i] = "putting"]
    /\ read' = [read EXCEPT ![i] = Clock(i)]
    /\ UNCHANGED <<now, lock, wakeAt, strayDelete>>

Lock(i) == state[i] = "idle" /\ Attempt(i)

\* The table applies the put.  Lock returns nil; or the answer is lost, and it
\* returns the error or the SDK sends the same put again.
PutApplied(i) ==
    /\ state[i] = "putting"
    /\ Free(i)
    /\ lock' = LockItem(i)
    /\ \E s \in {"holding", "idle", "putting"} : state' = [state EXCEPT ![i] = s]
    /\ UNCHANGED <<now, read, wakeAt, strayDelete>>

\* ConditionalCheckFailedException: wait for lockPollEvery or the context
PutRefused(i) ==
    /\ state[i] = "putting"
    /\ ~Free(i)
    /\ state' = [state EXCEPT ![i] = "waiting"]
    /\ wakeAt' = [wakeAt EXCEPT ![i] = now + LockPollEvery]
    /\ UNCHANGED <<now, lock, read, strayDelete>>

\* any other error, the request never having been applied
PutFailed(i) ==
    /\ state[i] = "putting"
    /\ state' = [state EXCEPT ![i] = "idle"]
    /\ UNCHANGED <<now, lock, read, wakeAt, strayDelete>>

Poll(i) == state[i] = "waiting" /\ now >= wakeAt[i] /\ Attempt(i)

\* the context is done before the poll
GiveUp(i) ==
    /\ state[i] = "waiting"
    /\ state' = [state EXCEPT ![i] = "idle"]
    /\ UNCHANGED <<now, lock, read, wakeAt, strayDelete>>

Unlock(i) ==
    /\ state[i] = "holding"
    /\ state' = [state EXCEPT ![i] = "unlocking"]
    /\ UNCHANGED <<now, lock, read, wakeAt, strayDelete>>

-----------------------------------------------------------------------------
(***************************************************************************)
(* The lease of an attempt: whatever the clocks, no put may replace its    *)
(* item for this long after the attempt read the time.                     *)
(***************************************************************************)
Lease == LockDuration * TicksPerSecond - MaxSkew

Overdue(i) == now - (read[i] - Skew[i]) > Lease

\* The table applies the delete, which has no condition: whatever item is
\* there goes.  Unlock returns, or the answer is lost and the SDK repeats it.
DeleteApplied(i) ==
    /\ state[i] \in {"unlocking", "redeleting"}
    /\ lock' = NoItem
    /\ \E s \in {"idle", "redeleting"} : state' = [state EXCEPT ![i] = s]
    /\ strayDelete' = (strayDelete \/ state[i] = "redeleting" \/ Overdue(i))
    /\ UNCHANGED <<now, read, wakeAt>>

\* Unlock returns an error, the request never having been applied
DeleteFailed(i) ==
    /\ state[i] \in {"unlocking", "redeleting"}
    /\ state' = [state EXCEPT ![i] = "idle"]
    /\ UNCHANGED <<now, lock, read, wakeAt, strayDelete>>

\* The instance dies, and the one started in its place knows of no lock.  A
\* request on its way is one applied before this step, or never.
Crash(i) ==
    /\ state[i] # "idle"
    /\ state' = [state EXCEPT ![i] = "idle"]
    /\ UNCHANGED <<now, lock, read, wakeAt, strayDelete>>

Tick ==
    /\ now < MaxTime
    /\ now' = now + 1
    /\ UNCHANGED <<lock, state, read, wakeAt, strayDelete>>

Step(i) ==
    \/ Lock(i)
    \/ PutApplied(i)
    \/ PutRefused(i)
    \/ PutFailed(i)
    \/ Poll(i)
    \/ GiveUp(i)
    \/ Unlock(i)
    \/ DeleteApplied(i)
    \/ DeleteFailed(i)
    \/ Crash(i)

Next == Tick \/ \E i \in Instances : Step(i)

Spec == Init /\ [][Next]_vars

-----------------------------------------------------------------------------
(***************************************************************************)
(* Time for the liveness property: a put is answered within MaxLatency     *)
(* ticks and a timer fires when it is due, so time waits for neither.      *)
(***************************************************************************)
Urgent(i) ==
    \/ state[i] = "putting" /\ Clock(i) - read[i] >= MaxLatency
    \/ state[i] = "waiting" /\ now >= wakeAt[i]

TimelyTick == (\A i \in Instances : ~Urgent(i)) /\ Tick

PutAnswered(i) == PutApplied(i) \/ PutRefused(i) \/ PutFailed(i)

LiveSpec ==
    /\ Init
    /\ [][TimelyTick \/ \E i \in Instances : Step(i)]_vars
    /\ WF_vars(TimelyTick)
    /\ \A i \in Instances : WF_vars(PutAnswered(i)) /\ WF_vars(Poll(i))

-----------------------------------------------------------------------------
Holders == {i \in Instances : state[i] = "holding"}

\* Two instances hold the lock at once only if one of them has outlived its
\* lease, or if an Unlock that came late or that the SDK repeated has removed
\* an item that was not its caller's (Lock, storage.go:142-172, and Unlock,
\* 174-177, neither of which asks whose the item is).
Exclusive ==
    strayDelete \/ \A i, j \in Holders : i = j \/ Overdue(i) \/ Overdue(j)

\* DynamoLock keeps the promise of LeaseLock (what Lock and Unlock are for,
\* storage.go:23-24 and 141).
Leases == INSTANCE LeaseLock WITH
    Clients <- Instances,
    holders <- Holders,
    overdue <- {i \in Holders : Overdue(i)},
    broken  <- strayDelete

Implements == Leases!LockSpec

\* The two parts the proof of Exclusive adds to the type invariant: no attempt
\* has read a time its clock is yet to show, and a holder that is not overdue is
\* the writer of the item that is there.
ReadPast == \A i \in Instances : read[i] <= Clock(i)

OwnItem ==
    strayDelete \/ \A i \in Instances :
        state[i] \in {"holding", "unlocking"} => Overdue(i) \/ lock = LockItem(i)

\* An item whose writer no longer holds the lock
LeftBehind ==
    lock # NoItem /\ state[lock.owner] \notin {"holding", "unlocking", "redeleting"}

\* ticks after which an item written by now has expired on every clock and
\* been polled for
ReclaimWithin ==
    MaxSkew + (LockDuration + 1) * TicksPerSecond + LockPollEvery + MaxLatency

\* every expiry an item can have within the model's time
Expiries == 0 .. Unix(MaxTime + MaxSkew) + LockDuration

\* A lock left behind by a dead instance is reclaimable (storage.go:23-24): an
\* instance that goes on asking for it gets past that item, within the lease,
\* a second for the truncation, a poll and a put.
Reclaimed ==
    \A i \in Instances, e \in Expiries :
        (/\ LeftBehind /\ lock.expires = e
         /\ state[i] \in {"putting", "waiting"}
         /\ now + ReclaimWithin <= MaxTime)
            ~> (~LeftBehind \/ lock.expires # e \/ state[i] = "idle")
=============================================================================
