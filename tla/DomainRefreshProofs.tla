------------------------- MODULE DomainRefreshProofs -------------------------
(***************************************************************************)
(* How stale the set of verified domains can be, for any interval, queries *)
(* of any length, any number of failed refreshes and any names: what the   *)
(* run of DomainRefresh checks on one domain.                              *)
(***************************************************************************)
EXTENDS DomainRefresh, TLAPS

LEMMA NormalType ==
    ASSUME NEW names \in SUBSET Names
    PROVE  Normal(names) \in SUBSET Domains
BY DEF Normal, Domains

\* The type invariant of the manager holds in every state.
THEOREM Typing == Spec => []TypeOK
<1> USE NamesAssumption, TimesAssumption
<1>1. Init => TypeOK
  <2> SUFFICES ASSUME Init PROVE TypeOK
    OBVIOUS
  <2>1. loaded \in Loads
    BY DEF Init, NotLoaded, Loads
  <2>2. since \in [Domains -> Nat]
    BY DEF Init
  <2>3. next \in 1 .. Interval
    BY DEF Init
  <2>4. verified \subseteq Names /\ domains \subseteq Domains
    BY DEF Init
  <2> QED
    BY <2>1, <2>2, <2>3, <2>4 DEF Init, TypeOK, Phases
<1>2. TypeOK /\ [Next]_vars => TypeOK'
  <2> SUFFICES ASSUME TypeOK, [Next]_vars
               PROVE  TypeOK'
    OBVIOUS
  <2>1. CASE Query
    <3>1. PICK rows \in SUBSET verified :
            loaded' = [set |-> Normal(rows), lost |-> rows # verified, age |-> 0]
      BY <2>1 DEF Query
    <3>2. loaded' \in Loads
      BY <3>1, NormalType DEF Loads, TypeOK
    <3> QED
      BY <2>1, <3>2 DEF Query, TypeOK, Phases
  <2>2. CASE QueryFailed
    BY <2>2 DEF QueryFailed, TypeOK, Phases
  <2>3. CASE Store
    <3>1. NotLoaded \in Loads
      BY DEF NotLoaded, Loads
    <3>2. loaded.set \subseteq Domains /\ loaded.age \in Nat /\ loaded.lost \in BOOLEAN
      BY DEF TypeOK, Loads
    <3>3. next' \in 1 .. Interval
      BY <2>3 DEF Store, TypeOK
    <3> QED
      BY <2>3, <3>1, <3>2, <3>3 DEF Store, TypeOK, Phases, NewSet
  <2>4. CASE TakeTick
    BY <2>4 DEF TakeTick, TypeOK, Phases
  <2>5. CASE Tick
    <3>1. loaded' \in Loads
      BY <2>5 DEF Tick, TypeOK, Loads
    <3>2. since' \in [Domains -> Nat]
      BY <2>5 DEF Tick, TypeOK
    <3>3. ticked' \in BOOLEAN /\ next' \in 1 .. Interval
      <4>1. CASE pc \in {"starting", "startLoaded"}
        BY <2>5, <4>1 DEF Tick, TypeOK
      <4>2. CASE pc \notin {"starting", "startLoaded"}
        <5>1. next \in 1 .. Interval /\ Interval \in Nat \ {0} /\ ticked \in BOOLEAN
          BY DEF TypeOK
        <5>2. IF next = 1 THEN next' = Interval /\ ticked' = TRUE
                          ELSE next' = next - 1 /\ UNCHANGED ticked
          BY <2>5, <4>2 DEF Tick
        <5>3. CASE next = 1
          BY <5>1, <5>2, <5>3
        <5>4. CASE next # 1
          <6>1. next' = next - 1 /\ ticked' = ticked
            BY <5>2, <5>4
          <6> QED
            BY <5>1, <5>4, <6>1
        <5> QED
          BY <5>3, <5>4
      <4> QED
        BY <4>1, <4>2
    <3>4. busy' \in Nat /\ age' \in Nat
      BY <2>5 DEF Tick, TypeOK
    <3> QED
      BY <2>5, <3>1, <3>2, <3>3, <3>4 DEF Tick, TypeOK
  <2>6. ASSUME NEW n \in Names, Verify(n) \/ Unverify(n) PROVE TypeOK'
    <3>1. since' \in [Domains -> Nat] /\ verified' \subseteq Names
      BY <2>6 DEF Verify, Unverify, Become, TypeOK
    <3> QED
      BY <2>6, <3>1 DEF Verify, Unverify, Become, TypeOK
  <2>7. CASE UNCHANGED vars
    BY <2>7 DEF vars, TypeOK
  <2> QED
    BY <2>1, <2>2, <2>3, <2>4, <2>5, <2>6, <2>7 DEF Next
<1> QED
  BY <1>1, <1>2, PTL DEF Spec

-----------------------------------------------------------------------------
(***************************************************************************)
(* The invariant.  A set that was read a ticks ago is wrong about a domain *)
(* only if the domain has changed since; and the ticker keeps the set in   *)
(* use from getting old: Timing says what is left of the staleness allowed *)
(* until the next refresh.                                                 *)
(***************************************************************************)
Reflects(names, times, set, missing, a) ==
    \A d \in Domains :
        (\/ d \in set /\ d \notin Normal(names)
         \/ d \in Normal(names) /\ d \notin set /\ ~missing)
            => times[d] <= a

Serving == pc \in {"waiting", "querying", "loaded"}

InUse == IF Serving THEN Reflects(verified, since, domains, lost, age) ELSE domains = {}

BeingLoaded ==
    pc \in {"startLoaded", "loaded"} =>
        Reflects(verified, since, loaded.set, loaded.lost, loaded.age)

Timing ==
    /\ next \in 1 .. Interval
    /\ pc = "waiting" =>
        /\ ticked => age <= Staleness
        /\ ~ticked => age + next <= Staleness
    /\ pc \in {"querying", "loaded"} => age <= Staleness

IInv == TypeOK /\ InUse /\ BeingLoaded /\ Timing

LEMMA InitIInv == Init => InUse /\ BeingLoaded /\ Timing
BY TimesAssumption DEF Init, InUse, Serving, BeingLoaded, Timing

\* What a step does to the staleness: another failure allows for another interval,
\* and time that a refresh takes for itself.
LEMMA StalenessLemma ==
    ASSUME TypeOK
    PROVE  /\ Staleness \in Nat /\ Interval + busy <= Staleness
           /\ UNCHANGED <<failures, busy>> => Staleness' = Staleness
           /\ failures' = failures /\ busy' = busy + 1 => Staleness' = Staleness + 1
           /\ failures' = failures + 1 /\ busy' = busy => Staleness' = Staleness + Interval
           /\ failures' = 0 => Staleness' = Interval + busy'
<1> DEFINE f == failures
           b == busy
<1>1. f \in Nat /\ Interval \in Nat /\ b \in Nat
  BY TimesAssumption DEF TypeOK
<1>2. Interval * (f + 1) = Interval * f + Interval /\ Interval * f \in Nat
  <2> HIDE DEF f
  <2> QED
    BY <1>1
<1>3. Interval * ((f + 1) + 1) = Interval * (f + 1) + Interval
  <2> HIDE DEF f
  <2> QED
    BY <1>1
<1>4. Interval * (0 + 1) = Interval
  BY <1>1
<1> QED
  BY <1>1, <1>2, <1>3, <1>4 DEF Staleness

LEMMA TimingStep ==
    ASSUME TypeOK, Timing, [Next]_vars
    PROVE  Timing'
<1> DEFINE S == Staleness
<1>1. /\ Interval \in Nat /\ Interval > 0 /\ busy \in Nat
      /\ age \in Nat /\ next \in Nat /\ failures \in Nat
      /\ loaded.age \in Nat /\ ticked \in BOOLEAN
  BY TimesAssumption DEF TypeOK, Loads
<1>2. S \in Nat /\ Interval + busy <= S
  BY StalenessLemma
<1>3. CASE Query
  <2>1. S' = S
    BY <1>3, StalenessLemma DEF Query
  <2> QED
    BY <1>1, <1>2, <1>3, <2>1 DEF Query, Timing
<1>4. CASE QueryFailed
  <2>1. S' = S + Interval
    BY <1>4, StalenessLemma DEF QueryFailed
  <2> HIDE DEF S
  <2>2. pc' # "waiting" \/ age <= S
    BY <1>4 DEF QueryFailed, Timing, S
  <2>3. pc' \in {"waiting", "failed"} /\ age' = age /\ next' = next
    BY <1>4 DEF QueryFailed
  <2>4. next \in 1 .. Interval
    BY DEF Timing
  <2>5. pc' = "waiting" => age' <= S' /\ age' + next' <= S'
    BY <1>1, <1>2, <2>1, <2>2, <2>3, <2>4
  <2> QED
    BY <2>3, <2>4, <2>5 DEF Timing, S
<1>5. CASE Store
  <2>1. S' = Interval + busy'
    BY <1>5, StalenessLemma DEF Store
  <2> QED
    BY <1>1, <1>5, <2>1 DEF Store, Timing
<1>6. CASE TakeTick
  <2>1. S' = S
    BY <1>6, StalenessLemma DEF TakeTick
  <2> QED
    BY <1>1, <1>2, <1>6, <2>1 DEF TakeTick, Timing
<1>7. CASE Tick
  <2>1. CASE pc \in {"starting", "startLoaded"}
    BY <1>1, <1>7, <2>1 DEF Tick, Timing
  <2>2. CASE pc = "waiting"
    <3>1. S' = S
      BY <1>7, <2>2, StalenessLemma DEF Tick, Refreshing
    <3>2. ~ticked /\ age' = age + 1 /\ pc' = pc
      BY <1>7, <2>2 DEF Tick
    <3> QED
      BY <1>1, <1>2, <1>7, <2>2, <3>1, <3>2 DEF Tick, Timing
  <2>3. CASE pc \in {"querying", "loaded"}
    <3>1. S' = S + 1
      BY <1>7, <2>3, StalenessLemma DEF Tick, Refreshing
    <3>2. age' = age + 1 /\ pc' = pc /\ next' \in {Interval, next - 1} /\ (next = 1 => next' = Interval)
      BY <1>7, <2>3 DEF Tick
    <3>3. next' \in 1 .. Interval
      BY <1>1, <3>2 DEF Timing
    <3>4. age <= S
      BY <2>3 DEF Timing
    <3> HIDE DEF S
    <3>5. age' <= S'
      BY <1>1, <1>2, <3>1, <3>2, <3>4
    <3> QED
      BY <2>3, <3>2, <3>3, <3>5 DEF Timing, S
  <2> QED
    BY <1>7, <2>1, <2>2, <2>3 DEF Tick, TypeOK, Phases
<1>8. ASSUME NEW n \in Names, Verify(n) \/ Unverify(n) PROVE Timing'
  <2>1. S' = S
    BY <1>8, StalenessLemma DEF Verify, Unverify, Become
  <2> QED
    BY <1>1, <1>8, <2>1 DEF Verify, Unverify, Become, Timing
<1>9. CASE UNCHANGED vars
  BY <1>9 DEF vars, Timing, Staleness
<1> QED
  BY <1>3, <1>4, <1>5, <1>6, <1>7, <1>8, <1>9 DEF Next

\* What a set reflects it goes on reflecting: a tick makes the set a tick older
\* and a domain's time a tick longer at most,
LEMMA Aging ==
    ASSUME NEW names, NEW set, NEW missing, NEW a \in Nat,
           NEW s \in [Domains -> Nat], NEW t \in [Domains -> Nat],
           \A d \in Domains : t[d] <= s[d] + 1,
           Reflects(names, s, set, missing, a)
    PROVE  Reflects(names, t, set, missing, a + 1)
BY DEF Reflects

\* and a change of a domain starts its time again.
LEMMA Changing ==
    ASSUME NEW names, NEW now, NEW set, NEW missing, NEW a \in Nat,
           NEW s \in [Domains -> Nat], NEW t,
           t = [d \in Domains |-> IF d \in Normal(now) <=> d \in Normal(names)
                                  THEN s[d] ELSE 0],
           Reflects(names, s, set, missing, a)
    PROVE  Reflects(now, t, set, missing, a)
<1> SUFFICES ASSUME NEW d \in Domains,
                    \/ d \in set /\ d \notin Normal(now)
                    \/ d \in Normal(now) /\ d \notin set /\ ~missing
             PROVE  t[d] <= a
  BY DEF Reflects
<1>1. CASE d \in Normal(now) <=> d \in Normal(names)
  <2>1. t[d] = s[d]
    BY <1>1
  <2> QED
    BY <1>1, <2>1 DEF Reflects
<1>2. CASE ~(d \in Normal(now) <=> d \in Normal(names))
  <2>1. t[d] = 0
    BY <1>2
  <2> QED
    BY <2>1
<1> QED
  BY <1>1, <1>2

LEMMA ReflectsStep ==
    ASSUME TypeOK, InUse, BeingLoaded, [Next]_vars
    PROVE  InUse' /\ BeingLoaded'
<1>1. /\ age \in Nat /\ loaded.age \in Nat /\ since \in [Domains -> Nat]
      /\ pc \in Phases /\ domains \subseteq Domains
  BY DEF TypeOK, Loads
<1>2. CASE Query
  <2>1. PICK rows \in SUBSET verified :
          loaded' = [set |-> Normal(rows), lost |-> rows # verified, age |-> 0]
    BY <1>2 DEF Query
  <2>2. Normal(rows) \subseteq Normal(verified)
    BY DEF Normal
  <2>3. rows = verified \/ loaded'.lost
    BY <2>1
  <2>4. Reflects(verified, since, loaded'.set, loaded'.lost, 0)
    BY <2>1, <2>2, <2>3 DEF Reflects
  <2>5. loaded'.age = 0
    BY <2>1
  <2> QED
    BY <1>2, <2>4, <2>5 DEF Query, InUse, Serving, BeingLoaded
<1>3. CASE QueryFailed
  BY <1>3 DEF QueryFailed, InUse, Serving, BeingLoaded
<1>4. CASE Store
  BY <1>4 DEF Store, NewSet, InUse, Serving, BeingLoaded
<1>5. CASE TakeTick
  BY <1>5 DEF TakeTick, InUse, Serving, BeingLoaded
<1>6. CASE Tick
  <2>1. since' \in [Domains -> Nat] /\ \A d \in Domains : since'[d] <= since[d] + 1
    BY <1>1, <1>6 DEF Tick
  <2>2. InUse'
    <3>1. CASE Serving
      <4>1. age' = age + 1 /\ UNCHANGED <<verified, domains, pc, lost>>
        BY <1>6, <3>1 DEF Tick, Serving
      <4>2. Reflects(verified, since', domains, lost, age + 1)
        BY <1>1, <2>1, <3>1, Aging DEF InUse
      <4> QED
        BY <3>1, <4>1, <4>2 DEF InUse, Serving
    <3>2. CASE ~Serving
      BY <1>6, <3>2 DEF Tick, InUse, Serving
    <3> QED
      BY <3>1, <3>2
  <2>3. BeingLoaded'
    <3> SUFFICES ASSUME pc \in {"startLoaded", "loaded"}
                 PROVE  Reflects(verified', since', loaded'.set, loaded'.lost, loaded'.age)
      BY <1>6 DEF Tick, BeingLoaded
    <3>1. /\ loaded'.set = loaded.set /\ loaded'.lost = loaded.lost
          /\ loaded'.age = loaded.age + 1 /\ verified' = verified
      BY <1>6 DEF Tick, TypeOK, Loads
    <3>2. Reflects(verified, since', loaded.set, loaded.lost, loaded.age + 1)
      BY <1>1, <2>1, Aging DEF BeingLoaded
    <3> QED
      BY <3>1, <3>2
  <2> QED
    BY <2>2, <2>3
<1>7. ASSUME NEW n \in Names, Verify(n) \/ Unverify(n) PROVE InUse' /\ BeingLoaded'
  <2>1. Become(verified')
    BY <1>7 DEF Verify, Unverify, Become
  <2>2. \A set, missing : \A a \in Nat :
          Reflects(verified, since, set, missing, a)
              => Reflects(verified', since', set, missing, a)
    BY <1>1, <2>1, Changing DEF Become
  <2>3. UNCHANGED <<domains, pc, loaded, age, lost>>
    BY <2>1 DEF Become
  <2> QED
    BY <1>1, <2>2, <2>3 DEF InUse, Serving, BeingLoaded
<1>8. CASE UNCHANGED vars
  BY <1>8 DEF vars, InUse, Serving, BeingLoaded
<1> QED
  BY <1>2, <1>3, <1>4, <1>5, <1>6, <1>7, <1>8 DEF Next

LEMMA Invariance == Spec => []IInv
<1>1. Init => InUse /\ BeingLoaded /\ Timing
  BY InitIInv
<1>2. (TypeOK /\ InUse /\ BeingLoaded /\ Timing) /\ [Next]_vars
          => (InUse /\ BeingLoaded /\ Timing)'
  BY ReflectsStep, TimingStep
<1> QED
  BY <1>1, <1>2, Typing, PTL DEF Spec, IInv

\* The set in use is never older than the staleness allowed.
LEMMA AgeLemma ==
    ASSUME IInv, Serving
    PROVE  age <= Staleness /\ Staleness \in Nat
<1>1. Staleness \in Nat /\ age \in Nat /\ next \in Nat /\ ticked \in BOOLEAN
  BY StalenessLemma, TimesAssumption DEF IInv, TypeOK
<1>2. CASE pc = "waiting"
  BY <1>1, <1>2 DEF IInv, Timing
<1>3. CASE pc \in {"querying", "loaded"}
  BY <1>1, <1>3 DEF IInv, Timing
<1> QED
  BY <1>1, <1>2, <1>3 DEF Serving

\* However long refreshes take, however often they fail and whatever rows they lose, a
\* name that is still allowed was a verified site's within the staleness allowed, of
\* which the time that refreshes take, which the code doesn't limit, is a part.
THEOREM Withdrawal == Spec => []TakenBack
<1>1. IInv => TakenBack
  <2> SUFFICES ASSUME IInv, NEW n \in Names, Allowed(n), Normalize[n] \notin Normal(verified)
               PROVE  since[Normalize[n]] <= Staleness
    BY DEF TakenBack
  <2>1. Serving /\ Reflects(verified, since, domains, lost, age)
    BY DEF IInv, InUse, Allowed
  <2>2. Normalize[n] \in Domains /\ since[Normalize[n]] <= age
    BY <2>1, NamesAssumption DEF Reflects, Domains, Allowed
  <2>3. age <= Staleness /\ Staleness \in Nat
    BY <2>1, AgeLemma
  <2> QED
    BY <2>2, <2>3 DEF IInv, TypeOK
<1> QED
  BY <1>1, Invariance, PTL

\* A domain that has been a verified site's for longer than that, the time that
\* refreshes take counted in, is allowed, once Start has returned and unless the set
\* in use lost rows when it was read.
THEOREM Adoption == Spec => []TakenUp
<1>1. IInv => TakenUp
  <2> SUFFICES ASSUME IInv, Serving, NEW n \in Names,
                      Normalize[n] \in Normal(verified), ~Allowed(n), ~lost
               PROVE  since[Normalize[n]] <= Staleness
    BY DEF TakenUp, Serving
  <2>1. Reflects(verified, since, domains, lost, age)
    BY DEF IInv, InUse
  <2>2. Normalize[n] \in Domains /\ since[Normalize[n]] <= age
    BY <2>1, NamesAssumption DEF Reflects, Domains, Allowed
  <2>3. age <= Staleness /\ Staleness \in Nat
    BY AgeLemma
  <2> QED
    BY <2>2, <2>3 DEF IInv, TypeOK
<1> QED
  BY <1>1, Invariance, PTL
=============================================================================
