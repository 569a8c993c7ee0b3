--------------------------- MODULE DynamoLockProofs ---------------------------
(***************************************************************************)
(* The lock's exclusion, for any number of instances, any clocks whose     *)
(* skew is bounded, any lease and any fraction of a second: what the runs  *)
(* of DynamoLock check on two instances.                                   *)
(***************************************************************************)
EXTENDS DynamoLock, TLAPS

\* What Unix does to a time: whole seconds, none of them invented.
LEMMA UnixLemma ==
    ASSUME NEW t \in Nat
    PROVE  /\ Unix(t) \in Nat
           /\ TicksPerSecond * Unix(t) <= t
           /\ t < TicksPerSecond * Unix(t) + TicksPerSecond
<1>1. TicksPerSecond \in Nat /\ TicksPerSecond > 0
  BY ClockAssumption
<1> QED
  BY <1>1 DEF Unix

\* An expiry that has passed on a truncated clock has passed on the clock: no
\* part of a second of the lease is lost to the truncations.
LEMMA ExpiryLemma ==
    ASSUME NEW a \in Nat, NEW b \in Nat, Unix(a) + LockDuration < Unix(b)
    PROVE  a + LockDuration * TicksPerSecond < b
<1> DEFINE T == TicksPerSecond
           p == Unix(a)
           q == Unix(b)
           m == LockDuration
<1>1. T \in Nat /\ m \in Nat
  BY ClockAssumption
<1>2. p \in Nat /\ a < T * p + T
  BY UnixLemma
<1>3. q \in Nat /\ T * q <= b
  BY UnixLemma
<1>4. PICK d \in Nat : q = p + m + 1 + d
  <2>1. q - (p + m + 1) \in Nat
    BY <1>1, <1>2, <1>3
  <2> QED
    BY <2>1, <1>1, <1>2, <1>3
<1>5. T * q = T * p + m * T + T + T * d
  <2> HIDE DEF T, p, q, m
  <2> QED
    BY <1>1, <1>2, <1>3, <1>4
<1>6. T * d \in Nat /\ T * p \in Nat /\ m * T \in Nat
  <2> HIDE DEF T, p, q, m
  <2> QED
    BY <1>1, <1>2, <1>4
<1> HIDE DEF T, p, q, m
<1>7. a + m * T < b
  BY <1>1, <1>2, <1>3, <1>5, <1>6
<1> QED
  BY <1>7 DEF T, m

\* A put that finds another's item expired finds its writer overdue, however
\* far apart the two clocks are.
LEMMA ReclaimLemma ==
    ASSUME TypeOK, NEW i \in Instances, NEW j \in Instances,
           read[j] <= Clock(j),
           lock = LockItem(i), Free(j)
    PROVE  Overdue(i)
<1>1. /\ now \in Nat /\ MaxSkew \in Nat
      /\ Skew[i] \in Nat /\ Skew[j] \in Nat /\ Skew[j] <= MaxSkew
      /\ read[i] \in Nat /\ read[j] \in Nat
  BY ClockAssumption DEF TypeOK
<1>2. LockItem(i).expires \in Nat
  BY <1>1, UnixLemma, ClockAssumption DEF LockItem
<1>3. Unix(read[i]) + LockDuration < Unix(read[j])
  BY <1>2 DEF Free, LockItem, NoItem
<1>4. read[i] + LockDuration * TicksPerSecond < read[j]
  BY <1>1, <1>3, ExpiryLemma
<1>5. LockDuration * TicksPerSecond \in Nat
  BY ClockAssumption
<1> QED
  BY <1>1, <1>4, <1>5 DEF Overdue, Lease, Clock

-----------------------------------------------------------------------------
LEMMA InitTyping == Init => TypeOK
<1> SUFFICES ASSUME Init PROVE TypeOK
  OBVIOUS
<1>1. now \in 0 .. MaxTime
  BY ClockAssumption DEF Init
<1>2. /\ state \in [Instances -> States]
      /\ read \in [Instances -> Nat]
      /\ wakeAt \in [Instances -> Nat]
  BY DEF Init, States
<1> QED
  BY <1>1, <1>2 DEF Init, TypeOK

\* The type invariant of the lock holds in every state.
THEOREM Typing == Spec => []TypeOK
<1>1. Init => TypeOK
  BY InitTyping
<1>2. TypeOK /\ [Next]_vars => TypeOK'
  <2> SUFFICES ASSUME TypeOK, [Next]_vars
               PROVE  TypeOK'
    OBVIOUS
  <2> USE ClockAssumption
  <2>1. CASE Tick
    BY <2>1 DEF Tick, TypeOK
  <2>2. ASSUME NEW i \in Instances, Attempt(i) PROVE TypeOK'
    <3>1. Clock(i) \in Nat
      BY DEF Clock, TypeOK
    <3> QED
      BY <2>2, <3>1 DEF Attempt, TypeOK, States
  <2>3. ASSUME NEW i \in Instances, PutApplied(i) PROVE TypeOK'
    <3>1. LockItem(i) \in Items
      BY UnixLemma DEF LockItem, Items, TypeOK
    <3> QED
      BY <2>3, <3>1 DEF PutApplied, TypeOK, States
  <2>4. ASSUME NEW i \in Instances, PutRefused(i) PROVE TypeOK'
    <3>1. now + LockPollEvery \in Nat
      BY DEF TypeOK
    <3> QED
      BY <2>4, <3>1 DEF PutRefused, TypeOK, States
  <2>5. ASSUME NEW i \in Instances, DeleteApplied(i) PROVE TypeOK'
    <3>1. strayDelete' \in BOOLEAN
      BY <2>5 DEF DeleteApplied, TypeOK
    <3> QED
      BY <2>5, <3>1 DEF DeleteApplied, TypeOK, States
  <2>6. ASSUME NEW i \in Instances,
               PutFailed(i) \/ GiveUp(i) \/ Unlock(i) \/ DeleteFailed(i) \/ Crash(i)
        PROVE  TypeOK'
    BY <2>6 DEF PutFailed, GiveUp, Unlock, DeleteFailed, Crash, TypeOK, States
  <2>7. CASE UNCHANGED vars
    BY <2>7 DEF vars, TypeOK
  <2> QED
    BY <2>1, <2>2, <2>3, <2>4, <2>5, <2>6, <2>7 DEF Next, Step, Lock, Poll
<1> QED
  BY <1>1, <1>2, PTL DEF Spec

-----------------------------------------------------------------------------
(***************************************************************************)
(* Exclusive is not inductive: two holders are kept apart by the item, so  *)
(* the invariant ties a holder to it.  As long as no delete has strayed,   *)
(* an instance that holds the lock or is releasing it, and is not overdue, *)
(* is the writer of the item that is there.                                *)
(***************************************************************************)
IInv == TypeOK /\ ReadPast /\ OwnItem

LEMMA InitIInv == Init => IInv
<1> SUFFICES ASSUME Init PROVE IInv
  OBVIOUS
<1>1. TypeOK
  BY InitTyping
<1>2. ReadPast
  <2> SUFFICES ASSUME NEW i \in Instances PROVE read[i] <= Clock(i)
    BY DEF ReadPast
  <2>1. Skew[i] \in 0 .. MaxSkew /\ MaxSkew \in Nat
    BY ClockAssumption
  <2>2. read[i] = 0 /\ now = 0
    BY DEF Init
  <2> QED
    BY <2>1, <2>2 DEF Clock
<1>3. OwnItem
  BY DEF Init, OwnItem
<1> QED
  BY <1>1, <1>2, <1>3 DEF IInv

\* No clock goes back, so no attempt has read a time that is yet to come.
LEMMA ReadPastStep ==
    ASSUME TypeOK, ReadPast, [Next]_vars
    PROVE  ReadPast'
<1> USE ClockAssumption
<1>1. CASE Tick
  BY <1>1 DEF Tick, TypeOK, ReadPast, Clock
<1>2. ASSUME NEW i \in Instances, Attempt(i) PROVE ReadPast'
  <2>1. Clock(i) \in Nat /\ Clock(i)' = Clock(i)
    BY <1>2 DEF Attempt, Clock, TypeOK
  <2> QED
    BY <1>2, <2>1 DEF Attempt, TypeOK, ReadPast, Clock
<1>3. CASE UNCHANGED <<now, read>>
  BY <1>3 DEF ReadPast, Clock
<1> QED
  BY <1>1, <1>2, <1>3 DEF Next, Step, vars, Lock, Poll, PutApplied, PutRefused, PutFailed,
     GiveUp, Unlock, DeleteApplied, DeleteFailed, Crash

LEMMA OwnItemStep ==
    ASSUME IInv, [Next]_vars, ~strayDelete'
    PROVE  OwnItem'
<1> SUFFICES ASSUME NEW h \in Instances, state'[h] \in {"holding", "unlocking"}, ~Overdue(h)'
             PROVE  (lock = LockItem(h))'
  BY DEF OwnItem
<1> USE DEF IInv
<1>1. ~strayDelete
  BY DEF Next, Step, vars, Tick, Lock, Poll, Attempt, PutApplied, PutRefused, PutFailed,
     GiveUp, Unlock, DeleteApplied, DeleteFailed, Crash
<1>2. ASSUME now' \in {now, now + 1}, read'[h] = read[h]
      PROVE  ~Overdue(h) /\ LockItem(h)' = LockItem(h)
  BY <1>2, ClockAssumption DEF Overdue, Lease, LockItem, TypeOK
<1>3. ASSUME ~Overdue(h), state[h] \in {"holding", "unlocking"}
      PROVE  lock = LockItem(h)
  BY <1>1, <1>3 DEF OwnItem
<1>4. CASE Tick
  BY <1>2, <1>3, <1>4 DEF Tick
<1>5. ASSUME NEW i \in Instances, Attempt(i) PROVE (lock = LockItem(h))'
  <2>1. h # i
    BY <1>5 DEF Attempt, TypeOK
  <2> QED
    BY <1>2, <1>3, <1>5, <2>1 DEF Attempt, TypeOK
<1>6. ASSUME NEW i \in Instances, PutApplied(i) PROVE (lock = LockItem(h))'
  <2>1. ~Overdue(h) /\ LockItem(h)' = LockItem(h)
    BY <1>2, <1>6 DEF PutApplied
  <2>2. CASE h = i
    BY <1>6, <2>1, <2>2 DEF PutApplied
  <2>3. CASE h # i
    <3>1. lock = LockItem(h)
      BY <1>3, <1>6, <2>1, <2>3 DEF PutApplied, TypeOK
    <3>2. read[i] <= Clock(i)
      BY DEF ReadPast
    <3> QED
      BY <1>6, <2>1, <3>1, <3>2, ReclaimLemma DEF PutApplied
  <2> QED
    BY <2>2, <2>3
<1>7. ASSUME NEW i \in Instances, DeleteApplied(i) PROVE (lock = LockItem(h))'
  <2>1. h # i
    BY <1>7 DEF DeleteApplied, TypeOK
  <2>2. lock = LockItem(h)
    BY <1>2, <1>3, <1>7, <2>1 DEF DeleteApplied, TypeOK
  <2>3. state[i] = "unlocking" /\ ~Overdue(i)
    BY <1>7 DEF DeleteApplied
  <2>4. lock = LockItem(i)
    BY <1>1, <2>3 DEF OwnItem
  <2> QED
    BY <2>1, <2>2, <2>4 DEF LockItem
<1>8. ASSUME NEW i \in Instances, Unlock(i) PROVE (lock = LockItem(h))'
  <2>1. state[h] \in {"holding", "unlocking"}
    BY <1>8 DEF Unlock, TypeOK
  <2> QED
    BY <1>2, <1>3, <1>8, <2>1 DEF Unlock
<1>9. ASSUME NEW i \in Instances,
             PutRefused(i) \/ PutFailed(i) \/ GiveUp(i) \/ DeleteFailed(i) \/ Crash(i)
      PROVE  (lock = LockItem(h))'
  <2>1. /\ h # i /\ state'[h] = state[h]
        /\ now' = now /\ read' = read /\ lock' = lock
    BY <1>9 DEF PutRefused, PutFailed, GiveUp, DeleteFailed, Crash, TypeOK
  <2> QED
    BY <1>2, <1>3, <2>1
<1>10. CASE UNCHANGED vars
  BY <1>2, <1>3, <1>10 DEF vars
<1> QED
  BY <1>4, <1>5, <1>6, <1>7, <1>8, <1>9, <1>10 DEF Next, Step, Lock, Poll

LEMMA Invariance == Spec => []IInv
<1>1. IInv /\ TypeOK' /\ [Next]_vars => IInv'
  <2> SUFFICES ASSUME IInv, TypeOK', [Next]_vars
               PROVE  IInv'
    OBVIOUS
  <2>1. ReadPast'
    BY ReadPastStep DEF IInv
  <2>2. OwnItem'
    BY OwnItemStep DEF OwnItem
  <2> QED
    BY <2>1, <2>2 DEF IInv
<1> QED
  BY InitIInv, Typing, <1>1, PTL DEF Spec

\* Two instances hold the lock at once only if one of them has outlived its
\* lease or an Unlock came late or twice.
THEOREM Exclusion == Spec => []Exclusive
<1>1. IInv => Exclusive
  BY DEF IInv, OwnItem, Exclusive, Holders, LockItem
<1> QED
  BY Invariance, <1>1, PTL

-----------------------------------------------------------------------------
(***************************************************************************)
(* The refinement: a put that is applied and answered grants the lock, and *)
(* needs the invariant to show that it may; a tick lets leases lapse; an   *)
(* Unlock or a crash of a holder releases; a stray delete breaks.          *)
(***************************************************************************)
OverdueHolders == {i \in Holders : Overdue(i)}

\* A step that leaves the instances' states, readings and the time alone, or
\* moves only instances that hold nothing before or after it, is a stutter.
LEMMA SameHolders ==
    ASSUME now' = now,
           \A h \in Instances : (state'[h] = "holding") <=> (state[h] = "holding"),
           \A h \in Holders : read'[h] = read[h]
    PROVE  Holders' = Holders /\ OverdueHolders' = OverdueHolders
BY DEF Holders, OverdueHolders, Overdue

\* A holder that stops holding the lock, and nothing else happening, is a release.
LEMMA ReleaseStep ==
    ASSUME TypeOK, NEW i \in Instances, state[i] = "holding",
           NEW s \in {"idle", "unlocking"}, state' = [state EXCEPT ![i] = s],
           UNCHANGED <<now, read, strayDelete>>
    PROVE  Leases!Release(i)
<1>1. Holders' = Holders \ {i}
  BY DEF Holders, TypeOK
<1>2. OverdueHolders' = OverdueHolders \ {i}
  BY <1>1 DEF OverdueHolders, Overdue
<1> QED
  BY <1>1, <1>2 DEF Leases!Release, Holders, OverdueHolders

\* A put answered with success is a grant.
LEMMA GrantStep ==
    ASSUME IInv, NEW i \in Instances, PutApplied(i), state'[i] = "holding"
    PROVE  Leases!Grant(i)
<1> USE DEF IInv
<1>1. i \notin Holders
  BY DEF PutApplied, Holders
<1>2. ASSUME ~strayDelete, NEW h \in Holders PROVE Overdue(h)
  <2>1. Overdue(h) \/ lock = LockItem(h)
    BY <1>2 DEF OwnItem, Holders
  <2>2. read[i] <= Clock(i) /\ h \in Instances
    BY DEF ReadPast, Holders
  <2> QED
    BY <2>1, <2>2, ReclaimLemma DEF PutApplied
<1>3. Holders' = Holders \cup {i}
  BY DEF PutApplied, Holders, TypeOK
<1>4. \A h \in Instances : Overdue(h)' <=> Overdue(h)
  BY DEF PutApplied, Overdue
<1>5. OverdueHolders' \in {OverdueHolders, OverdueHolders \cup {i}}
  <2>1. Holders \subseteq Instances
    BY DEF Holders
  <2>2. CASE Overdue(i)
    BY <2>1, <2>2, <1>3, <1>4 DEF OverdueHolders
  <2>3. CASE ~Overdue(i)
    BY <2>1, <2>3, <1>3, <1>4 DEF OverdueHolders
  <2> QED
    BY <2>2, <2>3
<1>6. Holders \subseteq OverdueHolders \/ strayDelete
  BY <1>2 DEF OverdueHolders
<1>7. UNCHANGED strayDelete
  BY DEF PutApplied
<1> QED
  BY <1>1, <1>3, <1>5, <1>6, <1>7 DEF Leases!Grant, OverdueHolders

\* DynamoLock implements LeaseLock.
THEOREM Refinement == Spec => Implements
<1>1. Init => Leases!LockInit
  BY DEF Init, Leases!LockInit, Holders
<1>2. IInv /\ [Next]_vars => [Leases!LockNext]_(Leases!lockVars)
  <2> SUFFICES ASSUME IInv, [Next]_vars
               PROVE  Leases!LockNext \/ UNCHANGED Leases!lockVars
    OBVIOUS
  <2> USE DEF IInv
  <2>0. ASSUME Holders' = Holders /\ OverdueHolders' = OverdueHolders,
               strayDelete' \in {strayDelete, TRUE}
        PROVE  Leases!LockNext \/ UNCHANGED Leases!lockVars
    BY <2>0 DEF OverdueHolders, Leases!LockNext, Leases!Break, Leases!lockVars, TypeOK
  <2>1. CASE Tick
    <3>1. Holders' = Holders /\ strayDelete' = strayDelete
      BY <2>1 DEF Tick, Holders
    <3>2. ASSUME NEW h \in Instances, Overdue(h) PROVE Overdue(h)'
      <4>1. /\ now \in Nat /\ now' = now + 1 /\ read[h] \in Nat /\ read'[h] = read[h]
            /\ Skew[h] \in Nat /\ Lease \in Int
        BY <2>1, ClockAssumption DEF Tick, TypeOK, Lease
      <4> QED
        BY <3>2, <4>1, Lease' = Lease DEF Overdue, Lease
    <3>3. OverdueHolders \subseteq OverdueHolders' /\ OverdueHolders' \subseteq Holders
      BY <3>1, <3>2 DEF OverdueHolders, Holders
    <3> QED
      BY <3>1, <3>3 DEF Leases!LockNext, Leases!Lapse, OverdueHolders
  <2>2. ASSUME NEW i \in Instances, Attempt(i), state[i] # "holding"
        PROVE  Leases!LockNext \/ UNCHANGED Leases!lockVars
    <3>1. /\ now' = now /\ strayDelete' = strayDelete
          /\ \A h \in Instances : (state'[h] = "holding") <=> (state[h] = "holding")
          /\ \A h \in Holders : read'[h] = read[h]
      BY <2>2 DEF Attempt, TypeOK, Holders
    <3> QED
      BY <3>1, <2>0, SameHolders
  <2>3. ASSUME NEW i \in Instances, PutApplied(i)
        PROVE  Leases!LockNext \/ UNCHANGED Leases!lockVars
    <3>1. CASE state'[i] = "holding"
      BY <2>3, <3>1, GrantStep DEF Leases!LockNext
    <3>2. CASE state'[i] # "holding"
      <4>1. /\ now' = now /\ strayDelete' = strayDelete /\ read' = read
            /\ \A h \in Instances : (state'[h] = "holding") <=> (state[h] = "holding")
        BY <2>3, <3>2 DEF PutApplied, TypeOK
      <4> QED
        BY <4>1, <2>0, SameHolders
    <3> QED
      BY <3>1, <3>2
  <2>4. ASSUME NEW i \in Instances, Unlock(i) \/ Crash(i), state[i] = "holding"
        PROVE  Leases!LockNext \/ UNCHANGED Leases!lockVars
    BY <2>4, ReleaseStep DEF Unlock, Crash, Leases!LockNext
  <2>5. ASSUME NEW i \in Instances, state[i] # "holding",
               PutRefused(i) \/ PutFailed(i) \/ GiveUp(i) \/ DeleteApplied(i)
                  \/ DeleteFailed(i) \/ Crash(i)
        PROVE  Leases!LockNext \/ UNCHANGED Leases!lockVars
    <3>1. /\ now' = now /\ read' = read /\ strayDelete' \in {strayDelete, TRUE}
          /\ \A h \in Instances : (state'[h] = "holding") <=> (state[h] = "holding")
      BY <2>5 DEF PutRefused, PutFailed, GiveUp, DeleteApplied, DeleteFailed, Crash, TypeOK
    <3> QED
      BY <3>1, <2>0, SameHolders
  <2>6. CASE UNCHANGED vars
    BY <2>6, <2>0, SameHolders DEF vars
  <2>7. ASSUME NEW i \in Instances, Step(i)
        PROVE  Leases!LockNext \/ UNCHANGED Leases!lockVars
    BY <2>7, <2>2, <2>3, <2>4, <2>5 DEF Step, Lock, Poll, PutRefused, PutFailed, GiveUp,
       Unlock, DeleteApplied, DeleteFailed, Crash
  <2> QED
    BY <2>1, <2>6, <2>7 DEF Next
<1> QED
  BY Invariance, <1>1, <1>2, PTL DEF Spec, Implements, Leases!LockSpec
=============================================================================
