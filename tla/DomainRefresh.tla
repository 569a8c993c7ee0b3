--------------------------- MODULE DomainRefresh ---------------------------
(***************************************************************************)
(* The set of verified domains of core/certs/manager.go: Start loads it,   *)
(* a goroutine reloads it on a ticker, and every handshake asks it whether *)
(* a certificate may be obtained for the name it is for.  The platform     *)
(* verifies domains and takes them back at any time.                       *)
(*                                                                         *)
(* Time is kept as what has gone by and what is left: how long ago the set *)
(* in use was read, and the time to the ticker's next tick.                *)
(***************************************************************************)
EXTENDS Naturals

CONSTANTS
    Names,      \* what a site's domain is stored as, and a handshake can be for
    Normalize,  \* models.NormalizeDomain: the domain of a name
    Interval,   \* between two ticks of the ticker
    MaxBusy,    \* how long refreshes take in the model, of which the code limits none
    MaxFailures,\* how many refreshes in a row fail in the model at most
    MaxSince    \* where the model stops counting how long a domain has been as it is

ASSUME NamesAssumption == Normalize \in [Names -> Names]

ASSUME TimesAssumption ==
    Interval \in Nat \ {0} /\ MaxBusy \in Nat /\ MaxFailures \in Nat /\ MaxSince \in Nat

VARIABLES
    verified,   \* the domains of the verified sites, as they are stored
    domains,    \* the set the manager's pointer leads to
    pc,         \* where Start, and then the goroutine it starts, is
    loaded,     \* the set being loaded
    next,       \* the time to the ticker's next tick
    ticked,     \* the ticker's channel, which holds one tick at most
    age,        \* history: how long ago the set in use was read
    busy,       \* history: how long of that time was taken by refreshes
    failures,   \* history: how many refreshes in a row have failed since
    lost,       \* history: rows were lost when it was read
    since       \* history: how long each domain has been verified, or not been

vars == <<verified, domains, pc, loaded, next, ticked, age, busy, failures, lost, since>>

Domains == {Normalize[n] : n \in Names}

NotLoaded == [set |-> {}, lost |-> FALSE, age |-> 0]

Loads == [set : SUBSET Domains, lost : BOOLEAN, age : Nat]

Phases == {"starting", "startLoaded", "failed", "waiting", "querying", "loaded"}

TypeOK ==
    /\ verified \subseteq Names
    /\ domains \subseteq Domains
    /\ pc \in Phases
    /\ loaded \in Loads
    /\ next \in 1 .. Interval
    /\ ticked \in BOOLEAN
    /\ age \in Nat /\ busy \in Nat /\ failures \in Nat
    /\ lost \in BOOLEAN
    /\ since \in [Domains -> Nat]

-----------------------------------------------------------------------------
RawNames(names) == names

Normal(names) == {Normalize[n] : n \in names}

RawAllowed(name) == name \in domains

\* Manager.Allowed, which is what decide tells CertMagic
Allowed(name) == Normalize[name] \in domains

Refreshing == pc \in {"starting", "startLoaded", "querying", "loaded"}

Init ==
    /\ verified \in SUBSET Names
    /\ domains = {} /\ lost = FALSE /\ loaded = NotLoaded
    /\ pc = "starting"
    /\ next = Interval /\ ticked = FALSE
    /\ age = 0 /\ busy = 0 /\ failures = 0
    /\ since \in [Domains -> 0 .. MaxSince]

\* LoadVerifiedDomains: the rows are those of one moment.  It doesn't ask
\* rows.Err, so when the connection is lost while they are read, those that were
\* read are all there is and there is no error.
Query ==
    /\ pc \in {"starting", "querying"}
    /\ \E rows \in SUBSET verified :
        loaded' = [set |-> Normal(rows), lost |-> rows # verified, age |-> 0]
    /\ pc' = IF pc = "starting" THEN "startLoaded" ELSE "loaded"
    /\ UNCHANGED <<verified, domains, next, ticked, age, busy, failures, lost, since>>

\* The query fails.  Start returns the error; the goroutine logs it, and keeps
\* the set it has until the next tick.
QueryFailed ==
    /\ pc \in {"starting", "querying"}
    /\ failures < MaxFailures
    /\ pc' = IF pc = "starting" THEN "failed" ELSE "waiting"
    /\ failures' = failures + 1
    /\ UNCHANGED <<verified, domains, loaded, next, ticked, age, busy, lost, since>>

MergedSet == domains \cup loaded.set

\* the new map, which nothing but this refresh has put domains in
NewSet == loaded.set

\* The pointer is swapped.  Start goes on to start the ticker, from now.
Store ==
    /\ pc \in {"startLoaded", "loaded"}
    /\ domains' = NewSet
    /\ pc' = "waiting"
    /\ next' = IF pc = "startLoaded" THEN Interval ELSE next
    /\ age' = loaded.age /\ busy' = loaded.age /\ lost' = loaded.lost
    /\ loaded' = NotLoaded /\ failures' = 0
    /\ UNCHANGED <<verified, ticked, since>>

TakeTick ==
    /\ pc = "waiting" /\ ticked
    /\ ticked' = FALSE
    /\ pc' = "querying"
    /\ UNCHANGED <<verified, domains, loaded, next, age, busy, failures, lost, since>>

\* The platform, outside of this repository: no two sites have a domain verified
Become(now) ==
    /\ verified' = now
    /\ since' = [d \in Domains |-> IF d \in Normal(now) <=> d \in Normal(verified)
                                   THEN since[d] ELSE 0]
    /\ UNCHANGED <<domains, pc, loaded, next, ticked, age, busy, failures, lost>>

Verify(n) == n \notin verified /\ Become(verified \cup {n})

Unverify(n) == n \in verified /\ Become(verified \ {n})

\* Time passes, in a query as long as it takes; and the goroutine takes a tick when
\* there is one.  A tick nobody has taken when the next one comes is the only one.
Tick ==
    /\ pc # "failed"
    /\ Refreshing => busy < MaxBusy
    /\ ~(pc = "waiting" /\ ticked)
    /\ IF pc \in {"starting", "startLoaded"}
       THEN UNCHANGED <<next, ticked>>
       ELSE IF next = 1 THEN next' = Interval /\ ticked' = TRUE
                        ELSE next' = next - 1 /\ UNCHANGED ticked
    /\ busy' = IF Refreshing THEN busy + 1 ELSE busy
    /\ age' = IF pc \in {"starting", "startLoaded"} THEN 0 ELSE age + 1
    /\ loaded' = IF pc \in {"startLoaded", "loaded"} THEN [loaded EXCEPT !.age = @ + 1] ELSE loaded
    /\ since' = [d \in Domains |-> IF since[d] < MaxSince THEN since[d] + 1 ELSE since[d]]
    /\ UNCHANGED <<verified, domains, pc, failures, lost>>

Next ==
    \/ Query \/ QueryFailed \/ Store \/ TakeTick \/ Tick
    \/ \E n \in Names : Verify(n) \/ Unverify(n)

Spec == Init /\ [][Next]_vars

-----------------------------------------------------------------------------
\* How old the set in use can be: the time that refreshes have taken since it was
\* read, which nothing limits, and an interval from one to the next, once more for
\* each that has failed.
Staleness == Interval * (failures + 1) + busy

\* A name that is still allowed was a verified site's no longer ago than that,
\* as it is or in its www. form, lost rows or not: "nobody can make us ask a CA
\* for a name that isn't a site's" (manager.go:27-28).
TakenBack ==
    \A n \in Names :
        Allowed(n) /\ Normalize[n] \notin Normal(verified) => since[Normalize[n]] <= Staleness

\* Once Start has returned, a name that isn't allowed yet has been a verified
\* site's no longer than that, unless rows were lost when the set in use was read
\* (manager.go:95-119).
TakenUp ==
    \A n \in Names :
        (/\ Normalize[n] \in Normal(verified) /\ ~Allowed(n) /\ ~lost
         /\ pc \in {"waiting", "querying", "loaded"})
            => since[Normalize[n]] <= Staleness
=============================================================================
