---------------------------- MODULE SearchProofs ----------------------------
(***************************************************************************)
(* How old an answer can be, what is in it and in which order, for any     *)
(* requests, chunks, limits and times.                                     *)
(***************************************************************************)
EXTENDS Search, SequenceTheorems, WellFoundedInduction, TLAPS

\* a request, and an entry, have their fields, whatever their sequences hold
RequestFields ==
    {"pc", "canAsk", "keys", "ids", "matched", "full", "age", "since", "outage", "seen"}

EntryFields == {"ids", "ttl", "since", "matched", "full", "outage"}

FieldsOf(x) == x = [f \in RequestFields |-> x[f]]

EntryOf(x) == x = [f \in EntryFields |-> x[f]]

\* the stages of a request that has recalled nothing
Asked == {"reading", "asking", "matching", "writing"}

\* What has been recalled is at most an entry's life older than the request, and
\* what mailroom said in the course of it no older than it; a request that mailroom
\* fails is over.
Timely(r) ==
    /\ FieldsOf(req[r]) /\ req[r].age \in Nat /\ req[r].since \in Nat
    /\ InFlight(r) => req[r].age <= MaxRequest
    /\ req[r].pc \in Asked => req[r].since <= req[r].age
    /\ req[r].pc = "recalling" => req[r].since <= req[r].age + CacheTTL + MaxRequest
    /\ req[r].pc = "answered" => req[r].since <= CacheTTL + MaxRequest
    /\ InFlight(r) => req[r].outage = FALSE

\* What is left of an entry and how old its answer is make up no more than the
\* entry's life and a request.
Lasting ==
    /\ EntryOf(cache) /\ cache.ttl \in Nat /\ cache.since \in Nat
    /\ cache.ttl + cache.since <= CacheTTL + MaxRequest
    /\ cache.outage = FALSE

IInv == DOMAIN req = Requests /\ Lasting /\ \A r \in Requests : Timely(r)

-----------------------------------------------------------------------------
\* What an answer of some age is to a request that began a while ago.
LEMMA AnswerKeeps ==
    ASSUME IInv, NEW r \in Requests, NEW ids, NEW outage, Answer(r, ids, outage), Lasting',
           req[r].since <= req[r].age + CacheTTL + MaxRequest
    PROVE  IInv'
<1> DEFINE lag == IF req[r].since > req[r].age THEN req[r].since - req[r].age ELSE 0
           after == [Idle EXCEPT !.pc = "answered", !.ids = ids, !.since = lag,
                                 !.outage = outage, !.seen = req[r].seen]
<1>1. lag \in Nat /\ lag <= CacheTTL + MaxRequest
  BY BoundsAssumption DEF IInv, Timely
<1>2. req' = [req EXCEPT ![r] = after]
  BY DEF Answer
<1> HIDE DEF lag
<1>3. FieldsOf(after) /\ after.pc = "answered" /\ after.age = 0 /\ after.since = lag
  BY DEF FieldsOf, RequestFields, Idle
<1> HIDE DEF after
<1>4. ASSUME NEW o \in Requests PROVE Timely(o)'
  <2>1. req'[o] = IF o = r THEN after ELSE req[o]
    BY <1>2 DEF IInv
  <2> QED
    BY <1>1, <1>3, <2>1 DEF IInv, Timely, InFlight, Asked
<1> QED
  BY <1>2, <1>4 DEF IInv

\* A request goes on to another stage with what that may have.
LEMMA MoveKeeps ==
    ASSUME IInv, NEW r \in Requests, NEW after, req' = [req EXCEPT ![r] = after], UNCHANGED cache,
           FieldsOf(after), after.age \in Nat, after.since \in Nat, after.outage = FALSE,
           after.age <= MaxRequest, after.pc # "answered",
           after.pc \in Asked => after.since <= after.age,
           after.pc = "recalling" => after.since <= after.age + CacheTTL + MaxRequest
    PROVE  IInv'
<1>1. ASSUME NEW o \in Requests PROVE Timely(o)'
  <2>1. req'[o] = IF o = r THEN after ELSE req[o]
    BY DEF IInv
  <2> QED
    BY <2>1 DEF IInv, Timely, InFlight
<1> QED
  BY <1>1 DEF IInv, Lasting

LEMMA ServeKeeps ==
    ASSUME IInv, NEW r \in Requests, Serve(r)
    PROVE  IInv'
<1> USE BoundsAssumption
<1>0. FieldsOf(Idle) /\ Idle.pc = "idle" /\ Idle.age = 0 /\ Idle.since = 0 /\ Idle.outage = FALSE
  BY DEF FieldsOf, RequestFields, Idle
<1>1. CASE Begin(r)
  <2> DEFINE after == [Idle EXCEPT !.pc = "reading", !.canAsk = everIndexed, !.seen = readable]
  <2>1. /\ FieldsOf(after) /\ after.pc = "reading" /\ after.age = 0 /\ after.since = 0
        /\ after.outage = FALSE
    BY DEF FieldsOf, RequestFields, Idle
  <2>2. req' = [req EXCEPT ![r] = after] /\ UNCHANGED cache
    BY <1>1 DEF Begin
  <2> HIDE DEF after
  <2>3. /\ after.age \in Nat /\ after.since \in Nat /\ after.age <= MaxRequest
        /\ after.since <= after.age
    BY <2>1
  <2> QED
    BY <2>1, <2>2, <2>3, MoveKeeps
<1>2. CASE Recall(r)
  <2>1. CASE /\ cache.ttl > 0
             /\ req' = [req EXCEPT ![r].pc = "recalling", ![r].keys = cache.ids,
                                   ![r].since = cache.since, ![r].outage = cache.outage]
    <3> DEFINE after == [req[r] EXCEPT !.pc = "recalling", !.keys = cache.ids,
                                       !.since = cache.since, !.outage = cache.outage]
    <3>1. /\ FieldsOf(after) /\ after.pc = "recalling" /\ after.age = req[r].age
          /\ after.since = cache.since /\ after.outage = FALSE
      BY DEF FieldsOf, RequestFields, IInv, Timely, Lasting
    <3>2. req' = [req EXCEPT ![r] = after] /\ UNCHANGED cache
      BY <1>2, <2>1 DEF Recall
    <3>3. cache.since \in Nat /\ cache.since <= CacheTTL + MaxRequest
      BY <2>1 DEF IInv, Lasting
    <3>4. req[r].age \in Nat /\ req[r].age <= MaxRequest
      BY <1>2 DEF Recall, IInv, Timely, InFlight
    <3> HIDE DEF after
    <3>5. /\ after.age \in Nat /\ after.since \in Nat /\ after.age <= MaxRequest
          /\ after.since <= after.age + CacheTTL + MaxRequest
      BY <3>1, <3>3, <3>4
    <3> QED
      BY <3>1, <3>2, <3>5, MoveKeeps DEF Asked
  <2>2. CASE req' = [req EXCEPT ![r].pc = "asking"]
    <3> DEFINE after == [req[r] EXCEPT !.pc = "asking"]
    <3>1. /\ FieldsOf(after) /\ after.pc = "asking" /\ after.age = req[r].age
          /\ after.since = req[r].since /\ after.outage = FALSE
      BY <1>2 DEF Recall, FieldsOf, RequestFields, IInv, Timely, InFlight
    <3>2. req' = [req EXCEPT ![r] = after] /\ UNCHANGED cache
      BY <1>2, <2>2 DEF Recall
    <3>3. /\ req[r].age \in Nat /\ req[r].age <= MaxRequest
          /\ req[r].since \in Nat /\ req[r].since <= req[r].age
      BY <1>2 DEF Recall, IInv, Timely, InFlight, Asked
    <3> HIDE DEF after
    <3> QED
      BY <3>1, <3>2, <3>3, MoveKeeps DEF Asked
  <2> QED
    BY <1>2, <2>1, <2>2 DEF Recall
<1>3. CASE AnswerFromCache(r)
  <2>1. PICK found : Answer(r, InOrder(req[r].keys, found), req[r].outage)
    BY <1>3 DEF AnswerFromCache
  <2>2. req[r].since <= req[r].age + CacheTTL + MaxRequest
    BY <1>3 DEF AnswerFromCache, IInv, Timely
  <2>3. Lasting'
    BY <1>3 DEF AnswerFromCache, IInv, Lasting
  <2> QED
    BY <2>1, <2>2, <2>3, AnswerKeeps
<1>4. CASE Ask(r)
  <2> DEFINE keys == IF req[r].canAsk THEN Distinct(Hits(Limit * 3)) ELSE <<>>
             after == [req[r] EXCEPT !.pc = "matching", !.keys = keys, !.since = 0]
  <2>1. req' = [req EXCEPT ![r] = after] /\ UNCHANGED cache
    BY <1>4 DEF Ask
  <2> HIDE DEF keys
  <2>2. /\ FieldsOf(after) /\ after.pc = "matching" /\ after.age = req[r].age
        /\ after.since = 0 /\ after.outage = FALSE
    BY <1>4 DEF Ask, FieldsOf, RequestFields, IInv, Timely, InFlight
  <2>3. req[r].age \in Nat /\ req[r].age <= MaxRequest
    BY <1>4 DEF Ask, IInv, Timely, InFlight
  <2> HIDE DEF after
  <2>4. /\ after.age \in Nat /\ after.since \in Nat /\ after.age <= MaxRequest
        /\ after.since <= after.age
    BY <2>2, <2>3
  <2> QED
    BY <2>1, <2>2, <2>4, MoveKeeps
<1>5. CASE AskFailed(r)
  <2>1. Answer(r, <<>>, TRUE) /\ Lasting'
    BY <1>5 DEF AskFailed, IInv, Lasting
  <2>2. req[r].since <= req[r].age + CacheTTL + MaxRequest
    BY <1>5 DEF AskFailed, IInv, Timely, Asked
  <2> QED
    BY <2>1, <2>2, AnswerKeeps
<1>6. CASE Match(r)
  <2>1. PICK ids, matched, full :
          req' = [req EXCEPT ![r].pc = "writing", ![r].ids = ids, ![r].matched = matched,
                             ![r].full = full]
    BY <1>6 DEF Match
  <2> DEFINE after == [req[r] EXCEPT !.pc = "writing", !.ids = ids, !.matched = matched,
                                     !.full = full]
  <2>2. req' = [req EXCEPT ![r] = after] /\ UNCHANGED cache
    BY <1>6, <2>1 DEF Match
  <2>0. FieldsOf(req[r]) /\ req[r].outage = FALSE
    BY <1>6 DEF Match, IInv, Timely, InFlight
  <2>3. /\ FieldsOf(after) /\ after.pc = "writing" /\ after.age = req[r].age
        /\ after.since = req[r].since /\ after.outage = FALSE
    BY <2>0 DEF FieldsOf, RequestFields
  <2>4. /\ req[r].age \in Nat /\ req[r].age <= MaxRequest
        /\ req[r].since \in Nat /\ req[r].since <= req[r].age
    BY <1>6 DEF Match, IInv, Timely, InFlight, Asked
  <2> HIDE DEF after
  <2> QED
    BY <2>2, <2>3, <2>4, MoveKeeps
<1>7. CASE Write(r)
  <2>1. Answer(r, req[r].ids, req[r].outage)
    BY <1>7 DEF Write
  <2>2. /\ req[r].age \in Nat /\ req[r].age <= MaxRequest /\ req[r].outage = FALSE
        /\ req[r].since \in Nat /\ req[r].since <= req[r].age
    BY <1>7 DEF Write, IInv, Timely, InFlight, Asked
  <2>3. Lasting'
    BY <1>7, <2>2 DEF Write, Entry, IInv, Lasting, EntryOf, EntryFields
  <2> QED
    BY <2>1, <2>2, <2>3, AnswerKeeps
<1>8. CASE Fail(r)
  <2> DEFINE after == Idle
  <2>1. req' = [req EXCEPT ![r] = after] /\ UNCHANGED cache
    BY <1>8 DEF Fail
  <2>2. FieldsOf(after) /\ after.pc = "idle" /\ after.outage = FALSE
    BY <1>0
  <2>3. /\ after.age \in Nat /\ after.since \in Nat /\ after.age <= MaxRequest
        /\ after.since <= after.age
    BY <1>0
  <2> HIDE DEF after
  <2> QED
    BY <2>1, <2>2, <2>3, MoveKeeps
<1> QED
  BY <1>1, <1>2, <1>3, <1>4, <1>5, <1>6, <1>7, <1>8 DEF Serve

\* An article is published: the requests only remember it.
LEMMA PublishKeeps ==
    ASSUME IInv, NEW a \in Drafts, Publish(a)
    PROVE  IInv'
<1>1. ASSUME NEW o \in Requests PROVE Timely(o)'
  <2> DEFINE after == [req[o] EXCEPT !.seen = @ \cup {a}]
  <2>1. req'[o] = IF InFlight(o) THEN after ELSE req[o]
    BY DEF Publish
  <2>2. /\ FieldsOf(after) /\ after.pc = req[o].pc /\ after.age = req[o].age
        /\ after.since = req[o].since /\ after.outage = req[o].outage
    BY DEF FieldsOf, RequestFields, IInv, Timely
  <2> HIDE DEF after
  <2> QED
    BY <2>1, <2>2 DEF IInv, Timely, InFlight
<1> QED
  BY <1>1 DEF IInv, Lasting, Publish

\* Time goes by for what is kept and for every request alike.
LEMMA TickKeeps ==
    ASSUME IInv, Tick
    PROVE  IInv'
<1> USE BoundsAssumption
<1>1. Lasting'
  <2>1. CASE cache.ttl <= 1
    <3>1. cache' = NoEntry
      BY <2>1 DEF Tick
    <3>2. /\ EntryOf(NoEntry) /\ NoEntry.ttl = 0 /\ NoEntry.since = 0
          /\ NoEntry.outage = FALSE
      BY DEF NoEntry, EntryOf, EntryFields
    <3> QED
      BY <3>1, <3>2 DEF Lasting
  <2>2. CASE ~(cache.ttl <= 1)
    <3> DEFINE older == [cache EXCEPT !.ttl = @ - 1, !.since = @ + 1]
    <3>1. EntryOf(older) /\ older.ttl = cache.ttl - 1 /\ older.since = cache.since + 1
          /\ older.outage = cache.outage
      BY DEF IInv, Lasting, EntryOf, EntryFields
    <3>2. cache' = older
      BY <2>2 DEF Tick
    <3> HIDE DEF older
    <3> QED
      BY <2>2, <3>1, <3>2 DEF IInv, Lasting
  <2> QED
    BY <2>1, <2>2
<1>2. ASSUME NEW o \in Requests PROVE Timely(o)'
  <2> DEFINE waited == [req[o] EXCEPT !.age = @ + 1]
             older == [req[o] EXCEPT !.age = @ + 1, !.since = @ + 1]
  <2>1. CASE ~InFlight(o)
    <3>1. req'[o] = req[o]
      BY <2>1 DEF Tick, InFlight
    <3> QED
      BY <2>1, <3>1 DEF IInv, Timely, InFlight
  <2>2. CASE InFlight(o) /\ req[o].pc \in {"reading", "asking"}
    <3>1. req'[o] = waited
      BY <2>2 DEF Tick
    <3>2. /\ FieldsOf(waited) /\ waited.pc = req[o].pc /\ waited.age = req[o].age + 1
          /\ waited.since = req[o].since /\ waited.outage = req[o].outage
      BY DEF FieldsOf, RequestFields, IInv, Timely
    <3>3. req[o].age < MaxRequest
      BY <2>2 DEF Tick
    <3> HIDE DEF waited
    <3> QED
      BY <2>2, <3>1, <3>2, <3>3 DEF IInv, Timely, InFlight, Asked
  <2>3. CASE InFlight(o) /\ req[o].pc \notin {"reading", "asking"}
    <3>1. req'[o] = older
      BY <2>3 DEF Tick
    <3>2. /\ FieldsOf(older) /\ older.pc = req[o].pc /\ older.age = req[o].age + 1
          /\ older.since = req[o].since + 1 /\ older.outage = req[o].outage
      BY DEF FieldsOf, RequestFields, IInv, Timely
    <3>3. req[o].age < MaxRequest
      BY <2>3 DEF Tick
    <3> HIDE DEF older
    <3> QED
      BY <2>3, <3>1, <3>2, <3>3 DEF IInv, Timely, InFlight, Asked
  <2> QED
    BY <2>1, <2>2, <2>3
<1>3. DOMAIN req' = Requests
  BY DEF Tick
<1> QED
  BY <1>1, <1>2, <1>3 DEF IInv

LEMMA Inductive == IInv /\ [Next]_vars => IInv'
<1> SUFFICES ASSUME IInv, [Next]_vars PROVE IInv'
  OBVIOUS
<1>1. ASSUME NEW r \in Requests, Serve(r) PROVE IInv'
  BY <1>1, ServeKeeps
<1>2. ASSUME NEW a \in Drafts, Publish(a) PROVE IInv'
  BY <1>2, PublishKeeps
<1>3. ASSUME NEW a \in Drafts, Unpublish(a) PROVE IInv'
  BY <1>3 DEF Unpublish, IInv, Lasting, Timely, InFlight
<1>4. CASE Reindex
  BY <1>4 DEF Reindex, IInv, Lasting, Timely, InFlight
<1>5. CASE Tick
  BY <1>5, TickKeeps
<1>6. CASE UNCHANGED vars
  BY <1>6 DEF vars, IInv, Lasting, Timely, InFlight
<1> QED
  BY <1>1, <1>2, <1>3, <1>4, <1>5, <1>6 DEF Next

LEMMA Invariance == Spec => []IInv
<1>1. Init => IInv
  <2> SUFFICES ASSUME Init PROVE IInv
    OBVIOUS
  <2>1. Lasting
    BY BoundsAssumption DEF Init, NoEntry, Lasting, EntryOf, EntryFields
  <2>2. /\ FieldsOf(Idle) /\ Idle.pc = "idle" /\ Idle.age = 0 /\ Idle.since = 0
        /\ Idle.outage = FALSE
    BY DEF FieldsOf, RequestFields, Idle
  <2>3. ASSUME NEW o \in Requests PROVE req[o] = Idle
    BY DEF Init
  <2>4. ASSUME NEW o \in Requests PROVE Timely(o)
    BY <2>2, <2>3 DEF Timely, InFlight, Asked
  <2>5. DOMAIN req = Requests
    BY DEF Init
  <2> QED
    BY <2>1, <2>4, <2>5 DEF IInv
<1> QED
  BY <1>1, Inductive, PTL DEF Spec

\* However many requests there are and however their steps, the expiry of what is
\* kept and mailroom's failures fall, no answer is older than what is kept may be
\* and a request takes.
THEOREM RecentHolds == Spec => []Recent
<1>1. IInv => Recent
  BY DEF IInv, Timely, Recent, Answered
<1> QED
  BY <1>1, Invariance, PTL

\* What mailroom's failure left a request without is never kept for another.
THEOREM OutageNotCachedHolds == Spec => []OutageNotCached
<1>1. IInv => OutageNotCached
  BY DEF IInv, Lasting, Timely, InFlight, OutageNotCached
<1> QED
  BY <1>1, Invariance, PTL

-----------------------------------------------------------------------------
\* What the loops over keys and hits give.

\* Every set of naturals that isn't empty has a least one.
LEMMA Least ==
    ASSUME NEW S \in SUBSET Nat, S # {}
    PROVE  \E n \in S : \A m \in S : n <= m
<1>1. PICK n \in S : \A m \in S : <<m, n>> \notin OpToRel(<, Nat)
  BY NatLessThanWellFounded, WFMin
<1>2. ASSUME NEW m \in S PROVE n <= m
  <2>1. <<m, n>> \in Nat \X Nat /\ <<m, n>>[1] = m /\ <<m, n>>[2] = n
    OBVIOUS
  <2>2. ~(<<m, n>>[1] < <<m, n>>[2])
    BY <1>1, <2>1, Zenon DEF OpToRel
  <2> QED
    BY <2>1, <2>2
<1> QED
  BY <1>2

\* A loop's invariant that holds at first and after every pass holds after the last.
LEMMA Loop ==
    ASSUME NEW N \in Nat, NEW S, 0 \in S, \A n \in 0 .. N - 1 : n \in S => n + 1 \in S
    PROVE  \A n \in 0 .. N : n \in S
<1> SUFFICES ASSUME NEW bad \in 0 .. N, bad \notin S PROVE FALSE
  OBVIOUS
<1> DEFINE T == {n \in 0 .. N : n \notin S}
<1>1. PICK n \in T : \A m \in T : n <= m
  <2>1. T \in SUBSET Nat /\ T # {}
    OBVIOUS
  <2> HIDE DEF T
  <2> QED
    BY <2>1, Least
<1>2. n # 0 /\ n - 1 \in 0 .. N - 1 /\ n - 1 \in S
  BY <1>1
<1> QED
  BY <1>1, <1>2

\* The loop of UpTo does what it says.
LEMMA UpToDef ==
    ASSUME NEW s, Len(s) \in Nat, NEW places
    PROVE  /\ UpTo(s, places)[0] = <<>>
           /\ \A n \in 1 .. Len(s) :
                UpTo(s, places)[n] = IF n \in places THEN Append(UpTo(s, places)[n - 1], s[n])
                                     ELSE UpTo(s, places)[n - 1]
<1> DEFINE N == Len(s)
           Pass(g, n) == IF n = 0 THEN <<>>
                         ELSE IF n \in places THEN Append(g[n - 1], s[n]) ELSE g[n - 1]
           Runs(n) == \E g : g = [k \in 0 .. n |-> Pass(g, k)]
           S == {n \in 0 .. N : Runs(n)}
<1>0. N \in Nat
  OBVIOUS
<1> HIDE DEF N
<1>1. 0 \in S
  <2> DEFINE g == [k \in 0 .. 0 |-> <<>>]
  <2>1. g = [k \in 0 .. 0 |-> Pass(g, k)]
    OBVIOUS
  <2> HIDE DEF g
  <2>2. Runs(0)
    BY <2>1
  <2> HIDE DEF Runs
  <2> QED
    BY <1>0, <2>2
<1>2. ASSUME NEW n \in 0 .. N - 1, n \in S PROVE n + 1 \in S
  <2>0. n \in Nat /\ n + 1 \in 0 .. N
    BY <1>0
  <2>1. PICK g : g = [k \in 0 .. n |-> Pass(g, k)]
    BY <1>2
  <2> DEFINE h == [k \in 0 .. n + 1 |-> IF k <= n THEN g[k] ELSE Pass(g, n + 1)]
  <2>2. ASSUME NEW k \in 0 .. n + 1 PROVE h[k] = Pass(h, k)
    <3>1. CASE k <= n
      <4>1. k \in 0 .. n /\ h[k] = g[k]
        BY <2>0, <3>1
      <4>2. g[k] = Pass(g, k)
        <5> HIDE DEF Pass, h
        <5> QED
          BY <2>1, <4>1
      <4>3. k # 0 => h[k - 1] = g[k - 1]
        BY <2>0, <3>1
      <4> HIDE DEF h
      <4> QED
        BY <4>1, <4>2, <4>3
    <3>2. CASE k = n + 1
      <4>1. h[k] = Pass(g, k) /\ k # 0 /\ h[k - 1] = g[k - 1]
        BY <2>0, <3>2
      <4> HIDE DEF h
      <4> QED
        BY <4>1
    <3> QED
      BY <2>0, <3>1, <3>2
  <2>3. h = [k \in 0 .. n + 1 |-> Pass(h, k)]
    BY <2>2
  <2> HIDE DEF h
  <2>4. Runs(n + 1)
    BY <2>3
  <2> HIDE DEF Runs
  <2> QED
    BY <2>0, <2>4
<1>3. Runs(N)
  <2> HIDE DEF Runs
  <2>1. \A n \in 0 .. N : n \in S
    <3> HIDE DEF S
    <3> QED
      BY <1>0, <1>1, <1>2, Loop
  <2> QED
    BY <1>0, <2>1
<1>4. UpTo(s, places) = [k \in 0 .. N |-> Pass(UpTo(s, places), k)]
  BY <1>3 DEF UpTo, N
<1>5. \A n \in 0 .. N : UpTo(s, places)[n] = Pass(UpTo(s, places), n)
  <2> HIDE DEF Pass
  <2> QED
    BY <1>4
<1>6. 0 \in 0 .. N /\ \A n \in 1 .. N : n \in 0 .. N /\ n # 0
  BY <1>0
<1> QED
  BY <1>5, <1>6 DEF N

\* in rising order
Rising(f) == \A i, j \in DOMAIN f : i < j => f[i] < f[j]

\* What a loop has appended are the places so far, in order and each once.
LEMMA AtPlacesFacts ==
    ASSUME NEW A, NEW s \in Seq(A), NEW places \in SUBSET DOMAIN s
    PROVE  /\ AtPlaces(s, places) \in Seq(A)
           /\ Len(AtPlaces(s, places)) <= Len(s)
           /\ \E f \in Seq(places) :
                /\ Len(f) = Len(AtPlaces(s, places)) /\ Rising(f)
                /\ \A n \in places : \E k \in DOMAIN f : f[k] = n
                /\ \A k \in DOMAIN f : AtPlaces(s, places)[k] = s[f[k]]
<1> DEFINE N == Len(s)
           out(n) == UpTo(s, places)[n]
           Good(n) ==
             /\ out(n) \in Seq(A) /\ Len(out(n)) <= n
             /\ \E f \in Seq(places) :
                  /\ Len(f) = Len(out(n)) /\ Rising(f)
                  /\ \A k \in DOMAIN f : f[k] <= n /\ out(n)[k] = s[f[k]]
                  /\ \A m \in places : m <= n => \E k \in DOMAIN f : f[k] = m
           S == {n \in 0 .. N : Good(n)}
<1>0. N \in Nat /\ DOMAIN s = 1 .. N /\ \A n \in 1 .. N : s[n] \in A
  OBVIOUS
<1>1. 0 \in S
  <2>1. out(0) = <<>> /\ <<>> \in Seq(A) /\ <<>> \in Seq(places) /\ Len(<<>>) = 0
    BY <1>0, UpToDef
  <2>2. Good(0)
    <3>1. \A m \in places : ~(m <= 0)
      BY <1>0
    <3>2. Rising(<<>>) /\ DOMAIN <<>> = {}
      BY DEF Rising
    <3>3. \E f \in Seq(places) :
            /\ Len(f) = Len(out(0)) /\ Rising(f)
            /\ \A k \in DOMAIN f : f[k] <= 0 /\ out(0)[k] = s[f[k]]
            /\ \A m \in places : m <= 0 => \E k \in DOMAIN f : f[k] = m
      <4> HIDE DEF out
      <4> WITNESS <<>> \in Seq(places)
      <4> QED
        BY <2>1, <3>1, <3>2
    <3> HIDE DEF out
    <3> QED
      BY <2>1, <3>3
  <2> QED
    BY <1>0, <2>2
<1>2. ASSUME NEW n \in 0 .. N - 1, n \in S PROVE n + 1 \in S
  <2>1. out(n + 1) = IF n + 1 \in places THEN Append(out(n), s[n + 1]) ELSE out(n)
    <3>1. n + 1 \in 1 .. N /\ (n + 1) - 1 = n
      BY <1>0
    <3> QED
      BY <1>0, <3>1, UpToDef
  <2>2. out(n) \in Seq(A) /\ Len(out(n)) <= n
    BY <1>2
  <2>3. PICK f \in Seq(places) :
          /\ Len(f) = Len(out(n)) /\ Rising(f)
          /\ \A k \in DOMAIN f : f[k] <= n /\ out(n)[k] = s[f[k]]
          /\ \A m \in places : m <= n => \E k \in DOMAIN f : f[k] = m
    BY <1>2
  <2> HIDE DEF out
  <2>4. CASE n + 1 \notin places
    <3>1. out(n + 1) = out(n)
      BY <2>1, <2>4
    <3>2. \A m \in places : m <= n + 1 => m <= n
      BY <1>0, <2>4
    <3>3. \A k \in DOMAIN f : f[k] <= n + 1
      <4>1. \A k \in DOMAIN f : f[k] \in places /\ f[k] <= n
        BY <2>3
      <4> QED
        BY <1>0, <4>1
    <3> QED
      BY <1>0, <2>2, <2>3, <3>1, <3>2, <3>3
  <2>5. CASE n + 1 \in places
    <3> DEFINE g == Append(f, n + 1)
               L == Len(f)
    <3>1. out(n + 1) = Append(out(n), s[n + 1]) /\ s[n + 1] \in A
      BY <1>0, <2>1, <2>5
    <3>2. /\ g \in Seq(places) /\ Len(g) = L + 1 /\ L \in Nat /\ DOMAIN g = 1 .. L + 1
          /\ DOMAIN f = 1 .. L /\ g[L + 1] = n + 1
          /\ \A k \in 1 .. L : g[k] = f[k] /\ f[k] \in places
      BY <2>3, <2>5
    <3>3. /\ out(n + 1) \in Seq(A) /\ Len(out(n + 1)) = L + 1 /\ L <= n
          /\ out(n + 1)[L + 1] = s[n + 1] /\ \A k \in 1 .. L : out(n + 1)[k] = out(n)[k]
      <4>1. L = Len(out(n)) /\ L <= n
        BY <2>2, <2>3
      <4>2. ASSUME NEW t \in Seq(A), NEW x \in A
            PROVE  /\ Append(t, x) \in Seq(A) /\ Len(Append(t, x)) = Len(t) + 1
                   /\ Append(t, x)[Len(t) + 1] = x /\ \A k \in 1 .. Len(t) : Append(t, x)[k] = t[k]
        OBVIOUS
      <4>3. /\ Append(out(n), s[n + 1]) \in Seq(A) /\ Len(Append(out(n), s[n + 1])) = Len(out(n)) + 1
            /\ Append(out(n), s[n + 1])[Len(out(n)) + 1] = s[n + 1]
            /\ \A k \in 1 .. Len(out(n)) : Append(out(n), s[n + 1])[k] = out(n)[k]
        BY <2>2, <3>1, <4>2
      <4> HIDE DEF L
      <4> QED
        BY <3>1, <4>1, <4>3
    <3> HIDE DEF g, L
    <3>4. \A k \in 1 .. L : f[k] \in Nat /\ f[k] <= n
      <4>1. \A k \in 1 .. L : f[k] \in places /\ f[k] <= n
        BY <2>3, <3>2
      <4>2. places \subseteq Nat
        BY <1>0
      <4> QED
        BY <4>1, <4>2
    <3>5. Rising(g)
      <4> SUFFICES ASSUME NEW i \in DOMAIN g, NEW j \in DOMAIN g, i < j PROVE g[i] < g[j]
        BY DEF Rising
      <4>1. i \in 1 .. L /\ g[i] = f[i]
        BY <3>2
      <4>2. CASE j = L + 1
        <5>1. f[i] <= n /\ f[i] \in Nat
          BY <3>4, <4>1
        <5> QED
          BY <1>0, <3>2, <4>1, <4>2, <5>1
      <4>3. CASE j # L + 1
        <5>1. j \in 1 .. L /\ g[j] = f[j]
          BY <3>2, <4>3
        <5> QED
          BY <2>3, <3>2, <4>1, <5>1 DEF Rising
      <4> QED
        BY <4>2, <4>3
    <3>6. \A k \in DOMAIN g : g[k] <= n + 1 /\ out(n + 1)[k] = s[g[k]]
      BY <2>3, <3>2, <3>3, <3>4
    <3>7. \A m \in places : m <= n + 1 => \E k \in DOMAIN g : g[k] = m
      <4> SUFFICES ASSUME NEW m \in places, m <= n + 1 PROVE \E k \in DOMAIN g : g[k] = m
        OBVIOUS
      <4>1. CASE m = n + 1
        BY <3>2, <4>1
      <4>2. CASE m <= n
        <5>1. PICK k \in DOMAIN f : f[k] = m
          BY <2>3, <4>2
        <5>2. k \in DOMAIN g /\ g[k] = f[k]
          BY <3>2, <5>1
        <5> QED
          BY <5>1, <5>2
      <4> QED
        BY <1>0, <4>1, <4>2
    <3>8. Good(n + 1)
      <4>1. Len(out(n + 1)) <= n + 1 /\ Len(g) = Len(out(n + 1))
        BY <1>0, <3>2, <3>3
      <4> QED
        BY <3>2, <3>3, <3>5, <3>6, <3>7, <4>1
    <3> HIDE DEF Good
    <3> QED
      BY <1>0, <3>8
  <2> QED
    BY <2>4, <2>5
<1>3. N \in S
  <2>1. N \in Nat
    BY <1>0
  <2>2. \A n \in 0 .. N : n \in S
    <3> HIDE DEF S, N
    <3> QED
      BY <1>1, <1>2, <2>1, Loop
  <2> HIDE DEF S, N
  <2> QED
    BY <2>1, <2>2
<1>4. Good(N)
  BY <1>3
<1>5. \A m \in places : m <= N
  BY <1>0
<1> HIDE DEF N
<1> QED
  BY <1>4, <1>5 DEF AtPlaces, N

\* A sequence of some of the keys, in the order they come among the chunks.
Ranked(s) ==
    /\ s \in Seq(Articles)
    /\ \E f \in Seq(Firsts(Chunks)) :
        /\ Len(f) = Len(s) /\ Rising(f)
        /\ \A k \in DOMAIN f : s[k] = Chunks[f[k]]

LEMMA FirstsOnce ==
    ASSUME NEW n \in Firsts(Chunks), NEW m \in Firsts(Chunks), Chunks[n] = Chunks[m]
    PROVE  n = m
<1>1. n \in Nat /\ m \in Nat /\ n >= 1 /\ m >= 1
  BY ChunksAssumption DEF Firsts
<1>2. ~(n < m) /\ ~(m < n)
  BY <1>1 DEF Firsts
<1> QED
  BY <1>1, <1>2

\* The first of a ranked sequence are ranked.
LEMMA RankedTop ==
    ASSUME NEW s, Ranked(s), NEW n \in Nat
    PROVE  /\ Ranked(Top(s, n)) /\ Len(Top(s, n)) <= n
           /\ ToSet(Top(s, n)) \subseteq ToSet(s)
<1> DEFINE m == IF Len(s) < n THEN Len(s) ELSE n
<1>1. PICK f \in Seq(Firsts(Chunks)) : /\ Len(f) = Len(s) /\ Rising(f)
                                       /\ \A k \in DOMAIN f : s[k] = Chunks[f[k]]
  BY DEF Ranked
<1>2. s \in Seq(Articles) /\ Len(s) \in Nat
  BY DEF Ranked
<1>3. m \in 0 .. Len(s) /\ m <= n
  BY <1>2
<1>4. Top(s, n) = SubSeq(s, 1, m)
  BY DEF Top
<1> HIDE DEF m
<1>5. /\ Top(s, n) \in Seq(Articles) /\ Len(Top(s, n)) = m /\ DOMAIN Top(s, n) = 1 .. m
      /\ \A k \in 1 .. m : Top(s, n)[k] = s[k]
  BY <1>2, <1>3, <1>4
<1>6. /\ SubSeq(f, 1, m) \in Seq(Firsts(Chunks)) /\ Len(SubSeq(f, 1, m)) = m
      /\ DOMAIN SubSeq(f, 1, m) = 1 .. m /\ DOMAIN f = 1 .. Len(s)
      /\ \A k \in 1 .. m : SubSeq(f, 1, m)[k] = f[k]
  BY <1>1, <1>3
<1>7. 1 .. m \subseteq 1 .. Len(s) /\ DOMAIN s = 1 .. Len(s)
  BY <1>2, <1>3
<1>8. Rising(SubSeq(f, 1, m))
  BY <1>1, <1>6, <1>7 DEF Rising
<1>9. Ranked(Top(s, n))
  <2>1. \E g \in Seq(Firsts(Chunks)) :
          /\ Len(g) = Len(Top(s, n)) /\ Rising(g)
          /\ \A k \in DOMAIN g : Top(s, n)[k] = Chunks[g[k]]
    <3> SubSeq(f, 1, m) \in Seq(Firsts(Chunks))
      BY <1>6
    <3> WITNESS SubSeq(f, 1, m) \in Seq(Firsts(Chunks))
    <3>1. \A k \in 1 .. m : k \in DOMAIN f
      BY <1>6, <1>7
    <3> QED
      BY <1>1, <1>5, <1>6, <1>8, <3>1
  <2> QED
    BY <1>5, <2>1 DEF Ranked
<1>10. ToSet(Top(s, n)) \subseteq ToSet(s)
  BY <1>5, <1>7 DEF ToSet
<1> QED
  BY <1>3, <1>5, <1>9, <1>10

\* What is kept of the keys is as the keys were, and no more than they.
LEMMA InOrderFacts ==
    ASSUME NEW A, NEW s \in Seq(A), NEW found
    PROVE  /\ InOrder(s, found) \in Seq(A) /\ Len(InOrder(s, found)) <= Len(s)
           /\ ToSet(InOrder(s, found)) = ToSet(s) \cap found
           /\ \E f \in Seq(DOMAIN s) :
                /\ Len(f) = Len(InOrder(s, found)) /\ Rising(f)
                /\ \A k \in DOMAIN f : InOrder(s, found)[k] = s[f[k]]
                /\ \A n \in DOMAIN s : s[n] \in found => \E k \in DOMAIN f : f[k] = n
<1> DEFINE places == {n \in DOMAIN s : s[n] \in found}
           t == AtPlaces(s, places)
<1>1. InOrder(s, found) = t
  BY DEF InOrder
<1>2. places \in SUBSET DOMAIN s
  OBVIOUS
<1>3. t \in Seq(A) /\ Len(t) <= Len(s)
  BY <1>2, AtPlacesFacts
<1>4. PICK f \in Seq(places) :
        /\ Len(f) = Len(t) /\ Rising(f)
        /\ \A n \in places : \E k \in DOMAIN f : f[k] = n
        /\ \A k \in DOMAIN f : t[k] = s[f[k]]
  <2> HIDE DEF places
  <2> QED
    BY <1>2, AtPlacesFacts
<1> HIDE DEF t
<1>5. DOMAIN t = DOMAIN f /\ \A k \in DOMAIN f : f[k] \in places
  BY <1>3, <1>4
<1>6. f \in Seq(DOMAIN s)
  <2>1. DOMAIN f = 1 .. Len(f) /\ Len(f) \in Nat
    BY <1>4
  <2>2. f \in [1 .. Len(f) -> DOMAIN s]
    BY <1>4, <1>5, <2>1
  <2> HIDE DEF places
  <2> QED
    BY <2>1, <2>2
<1>7. ToSet(t) = ToSet(s) \cap found
  <2>1. ASSUME NEW k \in DOMAIN t PROVE t[k] \in ToSet(s) \cap found
    BY <1>4, <1>5 DEF ToSet
  <2>2. ASSUME NEW n \in DOMAIN s, s[n] \in found PROVE s[n] \in ToSet(t)
    <3>1. PICK k \in DOMAIN f : f[k] = n
      BY <1>4, <2>2
    <3> QED
      BY <1>4, <1>5, <3>1 DEF ToSet
  <2> QED
    BY <2>1, <2>2 DEF ToSet
<1> QED
  BY <1>1, <1>3, <1>4, <1>6, <1>7

LEMMA RankedInOrder ==
    ASSUME NEW s, Ranked(s), NEW found
    PROVE  Ranked(InOrder(s, found))
<1> DEFINE t == InOrder(s, found)
<1>1. PICK f \in Seq(Firsts(Chunks)) : /\ Len(f) = Len(s) /\ Rising(f)
                                       /\ \A k \in DOMAIN f : s[k] = Chunks[f[k]]
  BY DEF Ranked
<1>2. s \in Seq(Articles)
  BY DEF Ranked
<1>3. PICK g \in Seq(DOMAIN s) : /\ Len(g) = Len(t) /\ Rising(g)
                                 /\ \A k \in DOMAIN g : t[k] = s[g[k]]
  BY <1>2, InOrderFacts
<1>4. t \in Seq(Articles)
  BY <1>2, InOrderFacts
<1> HIDE DEF t
<1>5. /\ DOMAIN g = 1 .. Len(t) /\ Len(t) \in Nat /\ DOMAIN f = DOMAIN s
      /\ \A k \in DOMAIN g : g[k] \in DOMAIN f
      /\ \A k \in DOMAIN f : f[k] \in Firsts(Chunks)
  BY <1>1, <1>2, <1>3, <1>4
<1> DEFINE h == [k \in 1 .. Len(t) |-> f[g[k]]]
<1>6. h \in Seq(Firsts(Chunks)) /\ Len(h) = Len(t) /\ DOMAIN h = 1 .. Len(t)
  BY <1>5
<1>7. \A k \in DOMAIN h : h[k] = f[g[k]] /\ t[k] = Chunks[h[k]]
  BY <1>1, <1>3, <1>5
<1>8. Rising(h)
  BY <1>1, <1>3, <1>5, <1>6, <1>7 DEF Rising
<1> HIDE DEF h
<1>9. Ranked(t)
  BY <1>4, <1>6, <1>7, <1>8 DEF Ranked
<1> QED
  BY <1>9 DEF t

\* What mailroom answers with is a part of the chunks, and of each article it has in
\* it all there are up to some chunk.
LEMMA HitsFacts ==
    ASSUME NEW limit \in Nat
    PROVE  /\ Hits(limit) \in Seq(Articles)
           /\ \E f \in Seq(DOMAIN Chunks) :
                /\ Len(f) = Len(Hits(limit)) /\ Rising(f)
                /\ \A k \in DOMAIN f : Hits(limit)[k] = Chunks[f[k]]
                /\ \A k \in DOMAIN f, n \in DOMAIN Chunks :
                    n < f[k] /\ Chunks[n] = Chunks[f[k]] => \E j \in DOMAIN f : f[j] = n
<1> DEFINE all == InOrder(Chunks, indexed)
           m == IF Len(all) < limit THEN Len(all) ELSE limit
           hits == Hits(limit)
<1>0. Chunks \in Seq(Articles) /\ DOMAIN Chunks \subseteq Nat
  BY ChunksAssumption
<1>1. all \in Seq(Articles) /\ ToSet(all) = ToSet(Chunks) \cap indexed
  BY <1>0, InOrderFacts
<1>2. PICK g \in Seq(DOMAIN Chunks) :
        /\ Len(g) = Len(all) /\ Rising(g)
        /\ \A k \in DOMAIN g : all[k] = Chunks[g[k]]
        /\ \A n \in DOMAIN Chunks : Chunks[n] \in indexed => \E k \in DOMAIN g : g[k] = n
  BY <1>0, InOrderFacts
<1>3. hits = SubSeq(all, 1, m)
  BY DEF Hits, Top
<1> HIDE DEF all, hits
<1>4. m \in 0 .. Len(all) /\ Len(all) \in Nat
  BY <1>1
<1> HIDE DEF m
<1>5. /\ hits \in Seq(Articles) /\ Len(hits) = m /\ \A k \in 1 .. m : hits[k] = all[k]
  BY <1>1, <1>3, <1>4
<1> DEFINE f == SubSeq(g, 1, m)
<1>6. /\ f \in Seq(DOMAIN Chunks) /\ Len(f) = m /\ DOMAIN f = 1 .. m
      /\ \A k \in 1 .. m : f[k] = g[k]
      /\ DOMAIN g = 1 .. Len(all) /\ \A k \in DOMAIN g : g[k] \in DOMAIN Chunks
  BY <1>2, <1>4
<1> HIDE DEF f
<1>7. 1 .. m \subseteq 1 .. Len(all)
  BY <1>4
<1>8. Rising(f)
  BY <1>2, <1>6, <1>7 DEF Rising
<1>9. \A k \in DOMAIN f : hits[k] = Chunks[f[k]]
  BY <1>2, <1>5, <1>6, <1>7
<1>10. ASSUME NEW k \in DOMAIN f, NEW n \in DOMAIN Chunks, n < f[k], Chunks[n] = Chunks[f[k]]
       PROVE  \E j \in DOMAIN f : f[j] = n
  <2>1. k \in 1 .. Len(all) /\ f[k] = g[k] /\ all[k] = Chunks[g[k]]
    BY <1>2, <1>6, <1>7, <1>10
  <2>2. Chunks[n] \in indexed
    BY <1>1, <1>10, <2>1 DEF ToSet
  <2>3. PICK j \in DOMAIN g : g[j] = n
    BY <1>2, <2>2
  <2>4. ~(k <= j)
    <3> SUFFICES ASSUME k <= j PROVE FALSE
      OBVIOUS
    <3>1. g[k] <= g[j]
      <4>1. CASE k = j
        BY <1>0, <1>6, <4>1
      <4>2. CASE k # j
        <5>1. k < j
          BY <1>6, <2>1, <4>2
        <5> QED
          BY <1>0, <1>2, <1>6, <2>1, <5>1 DEF Rising
      <4> QED
        BY <4>1, <4>2
    <3> QED
      BY <1>0, <1>6, <1>10, <2>1, <2>3, <3>1
  <2>5. j \in 1 .. m /\ f[j] = g[j]
    BY <1>4, <1>6, <1>10, <2>4
  <2> QED
    BY <1>6, <2>3, <2>5
<1>11. /\ hits \in Seq(Articles)
       /\ \E h \in Seq(DOMAIN Chunks) :
                /\ Len(h) = Len(hits) /\ Rising(h)
                /\ \A k \in DOMAIN h : hits[k] = Chunks[h[k]]
                /\ \A k \in DOMAIN h, n \in DOMAIN Chunks :
                    n < h[k] /\ Chunks[n] = Chunks[h[k]] => \E j \in DOMAIN h : h[j] = n
  <2> f \in Seq(DOMAIN Chunks)
    BY <1>6
  <2>1. \E h \in Seq(DOMAIN Chunks) :
                /\ Len(h) = Len(hits) /\ Rising(h)
                /\ \A k \in DOMAIN h : hits[k] = Chunks[h[k]]
                /\ \A k \in DOMAIN h, n \in DOMAIN Chunks :
                    n < h[k] /\ Chunks[n] = Chunks[h[k]] => \E j \in DOMAIN h : h[j] = n
    <3> WITNESS f \in Seq(DOMAIN Chunks)
    <3> QED
      BY <1>5, <1>6, <1>8, <1>9, <1>10
  <2> QED
    BY <1>5, <2>1
<1> QED
  BY <1>11 DEF hits

\* What is distinct are the hits at the places where they come first.
LEMMA DistinctFacts ==
    ASSUME NEW hits \in Seq(Articles)
    PROVE  /\ Distinct(hits) \in Seq(Articles)
           /\ \E f \in Seq(Firsts(hits)) :
                /\ Len(f) = Len(Distinct(hits)) /\ Rising(f)
                /\ \A n \in Firsts(hits) : \E k \in DOMAIN f : f[k] = n
                /\ \A k \in DOMAIN f : Distinct(hits)[k] = hits[f[k]]
<1> DEFINE places == Firsts(hits)
<1>1. places \in SUBSET DOMAIN hits
  BY DEF Firsts
<1>2. Distinct(hits) = AtPlaces(hits, places)
  BY DEF Distinct
<1> HIDE DEF places
<1>3. /\ AtPlaces(hits, places) \in Seq(Articles)
      /\ \E f \in Seq(places) :
           /\ Len(f) = Len(AtPlaces(hits, places)) /\ Rising(f)
           /\ \A n \in places : \E k \in DOMAIN f : f[k] = n
           /\ \A k \in DOMAIN f : AtPlaces(hits, places)[k] = hits[f[k]]
  BY <1>1, AtPlacesFacts
<1> QED
  BY <1>2, <1>3 DEF places

\* The keys of hits are ranked when of each article the hits have the first chunk.
LEMMA RankedDistinct ==
    ASSUME NEW hits \in Seq(Articles), NEW f \in Seq(DOMAIN Chunks),
           Len(f) = Len(hits), Rising(f), \A k \in DOMAIN f : hits[k] = Chunks[f[k]],
           \A k \in DOMAIN f, n \in DOMAIN Chunks :
                n < f[k] /\ Chunks[n] = Chunks[f[k]] => \E j \in DOMAIN f : f[j] = n
    PROVE  Ranked(Distinct(hits)) /\ ToSet(Distinct(hits)) = ToSet(hits)
<1> DEFINE keys == Distinct(hits)
<1>0. /\ DOMAIN hits = 1 .. Len(hits) /\ DOMAIN f = DOMAIN hits /\ Len(hits) \in Nat
      /\ \A k \in DOMAIN f : f[k] \in DOMAIN Chunks /\ f[k] \in Nat /\ f[k] >= 1
      /\ DOMAIN Chunks = 1 .. Len(Chunks) /\ Len(Chunks) \in Nat
  BY ChunksAssumption
<1>1. Firsts(hits) \in SUBSET DOMAIN hits
  BY DEF Firsts
<1> HIDE DEF keys
<1>2. keys \in Seq(Articles)
  BY DistinctFacts DEF keys
<1>3. PICK g \in Seq(Firsts(hits)) :
        /\ Len(g) = Len(keys) /\ Rising(g)
        /\ \A n \in Firsts(hits) : \E k \in DOMAIN g : g[k] = n
        /\ \A k \in DOMAIN g : keys[k] = hits[g[k]]
  BY DistinctFacts DEF keys
<1>4. /\ DOMAIN g = 1 .. Len(keys) /\ Len(keys) \in Nat /\ DOMAIN keys = DOMAIN g
      /\ \A k \in DOMAIN g : g[k] \in Firsts(hits) /\ g[k] \in DOMAIN f
  BY <1>0, <1>1, <1>2, <1>3
<1>5. ASSUME NEW k \in Firsts(hits) PROVE f[k] \in Firsts(Chunks)
  <2>1. k \in DOMAIN f /\ f[k] \in DOMAIN Chunks /\ k \in Nat
    BY <1>0, <1>1
  <2>2. ASSUME NEW n \in 1 .. f[k] - 1, Chunks[n] = Chunks[f[k]] PROVE FALSE
    <3>1. n \in DOMAIN Chunks /\ n < f[k]
      BY <1>0, <2>1
    <3>2. PICK j \in DOMAIN f : f[j] = n
      BY <2>1, <2>2, <3>1
    <3>3. j < k
      <4>1. ~(k < j) /\ k # j
        BY <1>0, <2>1, <3>1, <3>2 DEF Rising
      <4> QED
        BY <1>0, <2>1, <4>1
    <3>4. hits[j] = hits[k] /\ j \in 1 .. k - 1
      BY <1>0, <2>1, <2>2, <3>2, <3>3
    <3> QED
      BY <3>4 DEF Firsts
  <2> QED
    BY <2>1, <2>2 DEF Firsts
<1> DEFINE h == [k \in 1 .. Len(keys) |-> f[g[k]]]
<1>6. h \in Seq(Firsts(Chunks)) /\ Len(h) = Len(keys) /\ DOMAIN h = DOMAIN g
  BY <1>4, <1>5
<1>7. \A k \in DOMAIN h : h[k] = f[g[k]] /\ keys[k] = Chunks[h[k]]
  BY <1>3, <1>4, <1>6
<1>8. Rising(h)
  BY <1>3, <1>4, <1>6, <1>7 DEF Rising
<1> HIDE DEF h
<1>9. Ranked(keys)
  BY <1>2, <1>6, <1>7, <1>8 DEF Ranked
<1>10. ASSUME NEW n \in DOMAIN hits PROVE hits[n] \in ToSet(keys)
  <2> DEFINE same == {m \in DOMAIN hits : hits[m] = hits[n]}
  <2>1. PICK m \in same : \A j \in same : m <= j
    <3>1. same \in SUBSET Nat /\ same # {}
      BY <1>0
    <3> HIDE DEF same
    <3> QED
      BY <3>1, Least
  <2>2. m \in Firsts(hits) /\ hits[m] = hits[n]
    <3>1. m \in DOMAIN hits /\ m \in Nat /\ hits[m] = hits[n]
      BY <1>0
    <3>2. ASSUME NEW j \in 1 .. m - 1, hits[j] = hits[m] PROVE FALSE
      <4>1. j \in same /\ j < m
        BY <1>0, <3>1, <3>2
      <4> QED
        BY <1>0, <2>1, <3>1, <4>1
    <3> QED
      BY <3>1, <3>2 DEF Firsts
  <2> QED
    BY <1>3, <1>4, <2>2 DEF ToSet
<1>11. ASSUME NEW k \in DOMAIN keys PROVE keys[k] \in ToSet(hits)
  BY <1>0, <1>3, <1>4 DEF ToSet
<1>12. ToSet(keys) = ToSet(hits)
  BY <1>10, <1>11 DEF ToSet
<1> QED
  BY <1>9, <1>12 DEF keys

\* What mailroom's answer is cut to and ordered by.
LEMMA RankedKeys ==
    ASSUME NEW limit \in Nat
    PROVE  Ranked(Distinct(Hits(limit)))
BY HitsFacts, RankedDistinct

\* Of two that are ranked, the first has a chunk before any of the second.
LEMMA RankedBefore ==
    ASSUME NEW s, Ranked(s), NEW i \in DOMAIN s, NEW j \in DOMAIN s, i < j
    PROVE  Before(s[i], s[j])
<1>1. PICK f \in Seq(Firsts(Chunks)) : /\ Len(f) = Len(s) /\ Rising(f)
                                       /\ \A k \in DOMAIN f : s[k] = Chunks[f[k]]
  BY DEF Ranked
<1>2. i \in DOMAIN f /\ j \in DOMAIN f
  BY <1>1 DEF Ranked
<1>3. /\ f[i] \in Firsts(Chunks) /\ f[j] \in Firsts(Chunks)
      /\ f[i] < f[j] /\ s[i] = Chunks[f[i]] /\ s[j] = Chunks[f[j]]
  BY <1>1, <1>2 DEF Rising
<1>4. /\ f[i] \in DOMAIN Chunks /\ f[i] \in Nat /\ f[j] \in Nat
      /\ \A m \in 1 .. f[j] - 1 : Chunks[m] # Chunks[f[j]]
  BY <1>3, ChunksAssumption DEF Firsts
<1>5. \A m \in 1 .. f[i] : m \in 1 .. f[j] - 1
  BY <1>3, <1>4
<1> QED
  BY <1>3, <1>4, <1>5 DEF Before

-----------------------------------------------------------------------------
Entries == [ids : Seq(Articles), ttl : 0 .. CacheTTL, since : Nat,
            matched : SUBSET Articles, full : Seq(Articles), outage : BOOLEAN]

\* Some articles are left out of a sequence but for the limit, and then none is better
\* than one it has.
Chosen(s, some) ==
    \A a \in some \ ToSet(s) : Len(s) = Limit /\ \A i \in DOMAIN s : Before(s[i], a)

\* The entry has what may be an answer.
Shelved ==
    /\ cache \in Entries /\ Ranked(cache.ids) /\ Len(cache.ids) <= Limit
    /\ Chosen(cache.full, cache.matched)

\* A request has keys and results in mailroom's order, and remembers all that was readable.
Told(x) ==
    /\ x \in Requested
    /\ Ranked(x.keys) /\ Ranked(x.ids) /\ Len(x.ids) <= Limit
    /\ Chosen(x.full, x.matched)
    /\ x.pc = "recalling" => Len(x.keys) <= Limit
    /\ x.pc \notin {"idle", "answered"} => readable \subseteq x.seen
    /\ ToSet(x.ids) \subseteq x.seen

RankedInv ==
    /\ readable \subseteq Articles /\ indexed \subseteq Articles /\ everIndexed \in BOOLEAN
    /\ Shelved
    /\ req \in [Requests -> Requested] /\ \A r \in Requests : Told(req[r])

LEMMA RankedEmpty == Ranked(<<>>) /\ <<>> \in Seq(Articles) /\ Len(<<>>) = 0 /\ ToSet(<<>>) = {}
<1>1. <<>> \in Seq(Articles) /\ <<>> \in Seq(Firsts(Chunks)) /\ Len(<<>>) = 0 /\ DOMAIN <<>> = {}
  OBVIOUS
<1>2. \E f \in Seq(Firsts(Chunks)) :
        /\ Len(f) = Len(<<>>) /\ Rising(f)
        /\ \A k \in DOMAIN f : <<>>[k] = Chunks[f[k]]
  <2> <<>> \in Seq(Firsts(Chunks))
    BY <1>1
  <2> WITNESS <<>> \in Seq(Firsts(Chunks))
  <2> QED
    BY <1>1 DEF Rising
<1>3. Ranked(<<>>)
  BY <1>1, <1>2 DEF Ranked
<1> QED
  BY <1>1, <1>3 DEF ToSet

\* The first of what is ranked, up to the limit, are the best of it.
LEMMA ChosenTop ==
    ASSUME NEW s, Ranked(s), NEW some \in SUBSET ToSet(s)
    PROVE  Chosen(Top(s, Limit), some)
<1> DEFINE t == Top(s, Limit)
           m == IF Len(s) < Limit THEN Len(s) ELSE Limit
<1>1. s \in Seq(Articles) /\ Len(s) \in Nat /\ DOMAIN s = 1 .. Len(s) /\ Limit \in Nat
  BY BoundsAssumption DEF Ranked
<1>2. /\ m \in 0 .. Len(s) /\ m \in Nat /\ m <= Len(s) /\ Len(s) \in Nat
      /\ (m = Len(s) \/ m = Limit)
  BY <1>1
<1>3. t = SubSeq(s, 1, m)
  BY DEF Top
<1> HIDE DEF m, t
<1>4. /\ t \in Seq(Articles) /\ Len(t) = m /\ DOMAIN t = 1 .. m
      /\ \A k \in 1 .. m : t[k] = s[k]
  <2>1. ASSUME NEW u \in Seq(Articles), NEW n \in 0 .. Len(u)
        PROVE  /\ SubSeq(u, 1, n) \in Seq(Articles) /\ Len(SubSeq(u, 1, n)) = n
               /\ DOMAIN SubSeq(u, 1, n) = 1 .. n
               /\ \A k \in 1 .. n : SubSeq(u, 1, n)[k] = u[k]
    OBVIOUS
  <2>2. /\ SubSeq(s, 1, m) \in Seq(Articles) /\ Len(SubSeq(s, 1, m)) = m
        /\ DOMAIN SubSeq(s, 1, m) = 1 .. m
        /\ \A k \in 1 .. m : SubSeq(s, 1, m)[k] = s[k]
    BY <1>1, <1>2, <2>1
  <2> QED
    BY <1>3, <2>2
<1>5. ASSUME NEW a \in some \ ToSet(t)
      PROVE  Len(t) = Limit /\ \A i \in DOMAIN t : Before(t[i], a)
  <2>1. PICK n \in DOMAIN s : s[n] = a
    BY <1>5 DEF ToSet
  <2>2. n \notin 1 .. m
    BY <1>4, <1>5, <2>1 DEF ToSet
  <2>3. n \in Nat /\ n <= Len(s) /\ m < n
    <3>1. n \in 1 .. Len(s) /\ Len(s) \in Nat
      BY <1>1, <2>1
    <3>2. m \in Nat
      BY <1>2
    <3> QED
      BY <2>2, <3>1, <3>2
  <2>4. Len(t) = Limit
    <3>1. m # Len(s)
      BY <2>3
    <3> QED
      BY <1>2, <1>4, <3>1
  <2>5. ASSUME NEW i \in DOMAIN t PROVE Before(t[i], a)
    <3>1. i \in DOMAIN s /\ i < n /\ t[i] = s[i]
      <4>1. i \in 1 .. m /\ t[i] = s[i]
        <5>1. DOMAIN t = 1 .. m
          BY <1>4
        <5> QED
          BY <1>4, <5>1
      <4>2. i \in 1 .. Len(s) /\ i < n
        <5>1. m \in Nat /\ Len(s) \in Nat /\ m <= Len(s)
          BY <1>2
        <5>2. n \in Nat /\ m < n /\ i \in 1 .. m
          BY <2>3, <4>1
        <5> QED
          BY <5>1, <5>2
      <4> QED
        BY <1>1, <4>1, <4>2
    <3>2. Before(s[i], s[n])
      BY <2>1, <3>1, RankedBefore
    <3> QED
      BY <2>1, <3>1, <3>2
  <2> QED
    BY <2>4, <2>5
<1> QED
  BY <1>5 DEF Chosen, t

\* The results of some of the keys, up to the limit.
LEMMA ResultsFacts ==
    ASSUME NEW keys, Ranked(keys), NEW found
    PROVE  /\ Ranked(Results(keys, found)) /\ Len(Results(keys, found)) <= Limit
           /\ ToSet(Results(keys, found)) \subseteq found
           /\ found \subseteq ToSet(keys) => Chosen(Results(keys, found), found)
<1> DEFINE s == InOrder(keys, found)
<1>0. keys \in Seq(Articles)
  BY DEF Ranked
<1>1. Ranked(s) /\ ToSet(s) = ToSet(keys) \cap found
  <2>1. Ranked(s)
    BY RankedInOrder
  <2>2. ToSet(s) = ToSet(keys) \cap found
    BY <1>0, InOrderFacts
  <2> QED
    BY <2>1, <2>2
<1> HIDE DEF s
<1>2. /\ Ranked(Top(s, Limit)) /\ Len(Top(s, Limit)) <= Limit
      /\ ToSet(Top(s, Limit)) \subseteq ToSet(s)
  BY <1>1, RankedTop, BoundsAssumption
<1>3. found \subseteq ToSet(keys) => Chosen(Top(s, Limit), found)
  BY <1>1, ChosenTop
<1> QED
  BY <1>1, <1>2, <1>3 DEF Results, s

LEMMA ChosenEmpty == Chosen(<<>>, {})
BY DEF Chosen

LEMMA IdleTold == Told(Idle)
BY RankedEmpty, ChosenEmpty, BoundsAssumption DEF Told, Idle, Requested, Stages

\* A request that goes on to what it may hold.
LEMMA ToldKeeps ==
    ASSUME RankedInv, NEW r \in Requests, NEW after, req' = [req EXCEPT ![r] = after],
           UNCHANGED <<readable, indexed, everIndexed>>, Told(after), Shelved'
    PROVE  RankedInv'
<1>1. after \in Requested
  BY DEF Told
<1>2. req' \in [Requests -> Requested]
  BY <1>1 DEF RankedInv
<1>3. ASSUME NEW o \in Requests PROVE Told(req[o])'
  <2>1. req'[o] = IF o = r THEN after ELSE req[o]
    BY DEF RankedInv
  <2>2. Told(req'[o])
    BY <2>1 DEF RankedInv
  <2> QED
    BY <2>2 DEF Told
<1> QED
  BY <1>2, <1>3 DEF RankedInv

LEMMA AnswerTold ==
    ASSUME RankedInv, NEW r \in Requests, NEW ids, NEW outage \in BOOLEAN,
           Answer(r, ids, outage), Shelved',
           UNCHANGED <<readable, indexed, everIndexed>>,
           Ranked(ids), Len(ids) <= Limit, ToSet(ids) \subseteq req[r].seen
    PROVE  RankedInv'
<1> DEFINE lag == IF req[r].since > req[r].age THEN req[r].since - req[r].age ELSE 0
           after == [Idle EXCEPT !.pc = "answered", !.ids = ids, !.since = lag,
                                 !.outage = outage, !.seen = req[r].seen]
<1>1. req[r] \in Requested
  BY DEF RankedInv
<1>2. lag \in Nat /\ req[r].seen \in SUBSET Articles
  BY <1>1 DEF Requested
<1>3. req' = [req EXCEPT ![r] = after]
  BY DEF Answer
<1> HIDE DEF lag
<1>4. ids \in Seq(Articles)
  BY DEF Ranked
<1>5. Told(after)
  <2>1. after \in Requested
    BY <1>2, <1>4, RankedEmpty DEF Idle, Requested, Stages
  <2>2. /\ after.pc = "answered" /\ after.ids = ids /\ after.keys = <<>>
        /\ after.matched = {} /\ after.full = <<>> /\ after.seen = req[r].seen
    BY DEF Idle
  <2> HIDE DEF after
  <2> QED
    BY <2>1, <2>2, RankedEmpty, ChosenEmpty DEF Told
<1> HIDE DEF after
<1> QED
  BY <1>3, <1>5, ToldKeeps

LEMMA ServeTold ==
    ASSUME RankedInv, NEW r \in Requests, Serve(r)
    PROVE  RankedInv'
<1> USE BoundsAssumption
<1>0. req[r] \in Requested /\ Told(req[r]) /\ Shelved
  BY DEF RankedInv
<1>1. CASE Begin(r)
  <2> DEFINE after == [Idle EXCEPT !.pc = "reading", !.canAsk = everIndexed, !.seen = readable]
  <2>1. req' = [req EXCEPT ![r] = after] /\ UNCHANGED <<readable, indexed, everIndexed, cache>>
    BY <1>1 DEF Begin
  <2>2. /\ after \in Requested /\ after.pc = "reading" /\ after.seen = readable
        /\ after.ids = <<>> /\ after.keys = <<>> /\ after.matched = {} /\ after.full = <<>>
    BY RankedEmpty DEF Idle, Requested, Stages, RankedInv
  <2> HIDE DEF after
  <2>3. Told(after)
    BY <2>2, RankedEmpty, ChosenEmpty DEF Told
  <2>4. Shelved'
    BY <1>0, <2>1 DEF Shelved
  <2> QED
    BY <2>1, <2>3, <2>4, ToldKeeps
<1>2. CASE Recall(r)
  <2>1. UNCHANGED <<readable, indexed, everIndexed, cache>> /\ req[r].pc = "reading"
    BY <1>2 DEF Recall
  <2>2. Shelved'
    BY <1>0, <2>1 DEF Shelved
  <2>3. CASE req' = [req EXCEPT ![r].pc = "recalling", ![r].keys = cache.ids,
                                ![r].since = cache.since, ![r].outage = cache.outage]
    <3> DEFINE after == [req[r] EXCEPT !.pc = "recalling", !.keys = cache.ids,
                                       !.since = cache.since, !.outage = cache.outage]
    <3>1. req' = [req EXCEPT ![r] = after]
      BY <2>3
    <3>2. /\ after \in Requested /\ after.pc = "recalling" /\ after.keys = cache.ids
          /\ after.ids = req[r].ids /\ after.seen = req[r].seen
          /\ after.matched = req[r].matched /\ after.full = req[r].full
      BY <1>0 DEF Requested, Stages, Shelved, Entries
    <3> HIDE DEF after
    <3>3. Told(after)
      BY <1>0, <2>1, <3>2 DEF Told, Shelved
    <3> QED
      BY <2>1, <2>2, <3>1, <3>3, ToldKeeps
  <2>4. CASE req' = [req EXCEPT ![r].pc = "asking"]
    <3> DEFINE after == [req[r] EXCEPT !.pc = "asking"]
    <3>1. req' = [req EXCEPT ![r] = after]
      BY <2>4
    <3>2. /\ after \in Requested /\ after.pc = "asking" /\ after.keys = req[r].keys
          /\ after.ids = req[r].ids /\ after.seen = req[r].seen
          /\ after.matched = req[r].matched /\ after.full = req[r].full
      BY <1>0 DEF Requested, Stages
    <3> HIDE DEF after
    <3>3. Told(after)
      BY <1>0, <2>1, <3>2 DEF Told
    <3> QED
      BY <2>1, <2>2, <3>1, <3>3, ToldKeeps
  <2> QED
    BY <1>2, <2>3, <2>4 DEF Recall
<1>3. CASE AnswerFromCache(r)
  <2>1. UNCHANGED <<readable, indexed, everIndexed, cache>> /\ req[r].pc = "recalling"
    BY <1>3 DEF AnswerFromCache
  <2>2. PICK found \in SUBSET readable :
          Answer(r, InOrder(req[r].keys, found), req[r].outage)
    BY <1>3 DEF AnswerFromCache, Rows
  <2>3. req[r].keys \in Seq(Articles) /\ Ranked(req[r].keys) /\ Len(req[r].keys) <= Limit
    BY <1>0, <2>1 DEF Told, Requested
  <2>4. readable \subseteq req[r].seen
    BY <1>0, <2>1 DEF Told
  <2>5. /\ Ranked(InOrder(req[r].keys, found)) /\ InOrder(req[r].keys, found) \in Seq(Articles)
        /\ Len(InOrder(req[r].keys, found)) <= Len(req[r].keys)
        /\ ToSet(InOrder(req[r].keys, found)) = ToSet(req[r].keys) \cap found
    BY <2>3, RankedInOrder, InOrderFacts
  <2>6. Len(InOrder(req[r].keys, found)) <= Limit
    <3>1. Len(req[r].keys) \in Nat /\ Len(InOrder(req[r].keys, found)) \in Nat
      BY <2>3, <2>5
    <3> QED
      BY <2>3, <2>5, <3>1
  <2>7. Shelved' /\ req[r].outage \in BOOLEAN
    BY <1>0, <2>1 DEF Shelved, Requested
  <2> QED
    BY <2>1, <2>2, <2>4, <2>5, <2>6, <2>7, AnswerTold
<1>4. CASE Ask(r)
  <2> DEFINE keys == IF req[r].canAsk THEN Distinct(Hits(Limit * 3)) ELSE <<>>
             after == [req[r] EXCEPT !.pc = "matching", !.keys = keys, !.since = 0]
  <2>1. /\ req' = [req EXCEPT ![r] = after] /\ UNCHANGED <<readable, indexed, everIndexed, cache>>
        /\ req[r].pc = "asking"
    BY <1>4 DEF Ask
  <2>2. Ranked(keys)
    <3>1. Limit * 3 \in Nat
      OBVIOUS
    <3>2. Ranked(Distinct(Hits(Limit * 3)))
      BY <3>1, RankedKeys
    <3> QED
      BY <3>2, RankedEmpty
  <2> HIDE DEF keys
  <2>3. keys \in Seq(Articles)
    BY <2>2 DEF Ranked
  <2>4. /\ after \in Requested /\ after.pc = "matching" /\ after.keys = keys
        /\ after.ids = req[r].ids /\ after.seen = req[r].seen
        /\ after.matched = req[r].matched /\ after.full = req[r].full
    BY <1>0, <2>3 DEF Requested, Stages
  <2> HIDE DEF after
  <2>5. Told(after)
    BY <1>0, <2>1, <2>2, <2>4 DEF Told
  <2>6. Shelved'
    BY <1>0, <2>1 DEF Shelved
  <2> QED
    BY <2>1, <2>5, <2>6, ToldKeeps
<1>5. CASE AskFailed(r)
  <2>1. Answer(r, <<>>, TRUE) /\ UNCHANGED <<readable, indexed, everIndexed, cache>>
    BY <1>5 DEF AskFailed
  <2>2. Shelved'
    BY <1>0, <2>1 DEF Shelved
  <2>3. /\ TRUE \in BOOLEAN /\ Ranked(<<>>) /\ Len(<<>>) <= Limit
        /\ ToSet(<<>>) \subseteq req[r].seen
    BY RankedEmpty
  <2> QED
    BY <2>1, <2>2, <2>3, AnswerTold
<1>6. CASE Match(r)
  <2> DEFINE keys == req[r].keys
             ok == readable \cap ToSet(keys)
  <2>1. UNCHANGED <<readable, indexed, everIndexed, cache>> /\ req[r].pc = "matching"
    BY <1>6 DEF Match
  <2>2. PICK found \in SUBSET readable :
          req' = [req EXCEPT ![r].pc = "writing", ![r].ids = Results(keys, found),
                             ![r].matched = ok, ![r].full = Results(keys, ok)]
    BY <1>6 DEF Match, Rows
  <2>3. /\ keys \in Seq(Articles) /\ Ranked(keys) /\ readable \subseteq req[r].seen
        /\ readable \subseteq Articles
    BY <1>0, <2>1 DEF Told, Requested, RankedInv
  <2>4. ok \subseteq ToSet(keys) /\ ok \in SUBSET Articles
    BY <2>3
  <2> HIDE DEF keys, ok
  <2> DEFINE ids == Results(keys, found)
             full == Results(keys, ok)
  <2>5. /\ Ranked(ids) /\ Len(ids) <= Limit /\ ToSet(ids) \subseteq req[r].seen
        /\ Ranked(full) /\ Chosen(full, ok)
    BY <2>3, <2>4, ResultsFacts
  <2>6. req' = [req EXCEPT ![r].pc = "writing", ![r].ids = ids, ![r].matched = ok,
                           ![r].full = full]
    BY <2>2
  <2> HIDE DEF ids, full
  <2>7. ids \in Seq(Articles) /\ full \in Seq(Articles)
    BY <2>5 DEF Ranked
  <2> DEFINE after == [req[r] EXCEPT !.pc = "writing", !.ids = ids, !.matched = ok,
                                     !.full = full]
  <2>8. req' = [req EXCEPT ![r] = after]
    BY <2>6
  <2>9. /\ after \in Requested /\ after.pc = "writing" /\ after.keys = req[r].keys
        /\ after.ids = ids /\ after.seen = req[r].seen
        /\ after.matched = ok /\ after.full = full
    BY <1>0, <2>4, <2>7 DEF Requested, Stages
  <2> HIDE DEF after
  <2>10. Told(after)
    BY <1>0, <2>1, <2>5, <2>9 DEF Told
  <2>11. Shelved'
    BY <1>0, <2>1 DEF Shelved
  <2> QED
    BY <2>1, <2>8, <2>10, <2>11, ToldKeeps
<1>7. CASE Write(r)
  <2>1. /\ Answer(r, req[r].ids, req[r].outage) /\ req[r].outage \in BOOLEAN
        /\ UNCHANGED <<readable, indexed, everIndexed>>
    BY <1>0, <1>7 DEF Write, Requested
  <2>2. /\ Entry(r) \in Entries /\ Entry(r).ids = req[r].ids
        /\ Entry(r).matched = req[r].matched /\ Entry(r).full = req[r].full
    BY <1>0 DEF Entry, Entries, Requested
  <2>3. Shelved'
    <3>1. CASE cache' = cache
      BY <1>0, <3>1 DEF Shelved
    <3>2. CASE cache' = Entry(r)
      BY <1>0, <2>2, <3>2 DEF Shelved, Told
    <3> QED
      BY <1>7, <3>1, <3>2 DEF Write
  <2> QED
    BY <1>0, <2>1, <2>3, AnswerTold DEF Told
<1>8. CASE Fail(r)
  <2>1. req' = [req EXCEPT ![r] = Idle] /\ UNCHANGED <<readable, indexed, everIndexed, cache>>
    BY <1>8 DEF Fail
  <2>2. Shelved'
    BY <1>0, <2>1 DEF Shelved
  <2> QED
    BY <2>1, <2>2, IdleTold, ToldKeeps
<1> QED
  BY <1>1, <1>2, <1>3, <1>4, <1>5, <1>6, <1>7, <1>8 DEF Serve

\* What the platform and time do to the requests leaves them what they hold.
LEMMA AroundTold ==
    ASSUME RankedInv,
           \/ \E a \in Drafts : Publish(a) \/ Unpublish(a)
           \/ Reindex \/ Tick \/ UNCHANGED vars
    PROVE  RankedInv'
<1> USE ChunksAssumption
<1>1. CASE \E a \in Drafts : Publish(a)
  <2>1. PICK a \in Drafts : Publish(a)
    BY <1>1
  <2>2. /\ readable' = readable \cup {a} /\ UNCHANGED <<indexed, everIndexed, cache>>
        /\ req' = [r \in Requests |-> IF InFlight(r) THEN [req[r] EXCEPT !.seen = @ \cup {a}]
                                                     ELSE req[r]]
    BY <2>1 DEF Publish
  <2>3. ASSUME NEW r \in Requests PROVE Told(req[r])' /\ req'[r] \in Requested
    <3> DEFINE after == [req[r] EXCEPT !.seen = @ \cup {a}]
    <3>1. req[r] \in Requested /\ Told(req[r])
      BY DEF RankedInv
    <3>2. /\ after \in Requested /\ after.pc = req[r].pc /\ after.keys = req[r].keys
          /\ after.ids = req[r].ids /\ after.seen = req[r].seen \cup {a}
          /\ after.matched = req[r].matched /\ after.full = req[r].full
      BY <3>1 DEF Requested
    <3>3. req'[r] = IF InFlight(r) THEN after ELSE req[r]
      BY <2>2
    <3> HIDE DEF after
    <3>4. CASE InFlight(r)
      BY <2>2, <3>1, <3>2, <3>3, <3>4 DEF Told, InFlight
    <3>5. CASE ~InFlight(r)
      BY <3>1, <3>3, <3>5 DEF Told, InFlight
    <3> QED
      BY <3>4, <3>5
  <2>4. req' \in [Requests -> Requested]
    BY <2>2, <2>3
  <2>5. Shelved'
    BY <2>2 DEF RankedInv, Shelved
  <2> QED
    BY <2>2, <2>3, <2>4, <2>5 DEF RankedInv
<1>2. CASE Tick
  <2>1. /\ UNCHANGED <<readable, indexed, everIndexed>>
        /\ cache' = IF cache.ttl <= 1 THEN NoEntry
                    ELSE [cache EXCEPT !.ttl = @ - 1, !.since = @ + 1]
    BY <1>2 DEF Tick
  <2>2. Shelved'
    <3>1. /\ cache \in Entries /\ Ranked(cache.ids) /\ Len(cache.ids) <= Limit
          /\ Chosen(cache.full, cache.matched)
      BY DEF RankedInv, Shelved
    <3>2. CASE cache' = NoEntry
      BY <3>2, RankedEmpty, ChosenEmpty, BoundsAssumption DEF Shelved, NoEntry, Entries
    <3>3. CASE cache.ttl > 1 /\ cache' = [cache EXCEPT !.ttl = @ - 1, !.since = @ + 1]
      <4> DEFINE older == [cache EXCEPT !.ttl = @ - 1, !.since = @ + 1]
      <4>1. cache.ttl - 1 \in 0 .. CacheTTL /\ cache.since + 1 \in Nat
        BY <3>1, <3>3, BoundsAssumption DEF Entries
      <4>2. /\ older \in Entries /\ older.ids = cache.ids
            /\ older.matched = cache.matched /\ older.full = cache.full
        BY <3>1, <4>1 DEF Entries
      <4>3. cache' = older
        BY <3>3
      <4> HIDE DEF older
      <4> QED
        BY <3>1, <4>2, <4>3 DEF Shelved
    <3> QED
      BY <2>1, <3>1, <3>2, <3>3, BoundsAssumption DEF Entries
  <2>3. ASSUME NEW r \in Requests PROVE Told(req[r])' /\ req'[r] \in Requested
    <3> DEFINE waited == [req[r] EXCEPT !.age = @ + 1]
               older == [req[r] EXCEPT !.age = @ + 1, !.since = @ + 1]
    <3>1. req[r] \in Requested /\ Told(req[r])
      BY DEF RankedInv
    <3>2. req'[r] \in {req[r], waited, older}
      BY <1>2 DEF Tick, InFlight
    <3>3. req[r].age + 1 \in Nat /\ req[r].since + 1 \in Nat
      BY <3>1 DEF Requested
    <3>4. /\ waited \in Requested /\ waited.pc = req[r].pc /\ waited.keys = req[r].keys
          /\ waited.ids = req[r].ids /\ waited.seen = req[r].seen
          /\ waited.matched = req[r].matched /\ waited.full = req[r].full
      BY <3>1, <3>3 DEF Requested
    <3>5. /\ older \in Requested /\ older.pc = req[r].pc /\ older.keys = req[r].keys
          /\ older.ids = req[r].ids /\ older.seen = req[r].seen
          /\ older.matched = req[r].matched /\ older.full = req[r].full
      BY <3>1, <3>3 DEF Requested
    <3> HIDE DEF waited, older
    <3>6. /\ req'[r] \in Requested /\ req'[r].pc = req[r].pc /\ req'[r].keys = req[r].keys
          /\ req'[r].ids = req[r].ids /\ req'[r].seen = req[r].seen
          /\ req'[r].matched = req[r].matched /\ req'[r].full = req[r].full
      BY <3>1, <3>2, <3>4, <3>5
    <3> QED
      BY <2>1, <3>1, <3>6 DEF Told
  <2>4. req' \in [Requests -> Requested]
    BY <1>2, <2>3 DEF Tick
  <2> QED
    BY <2>1, <2>2, <2>3, <2>4 DEF RankedInv
<1>3. CASE (\E a \in Drafts : Unpublish(a)) \/ Reindex \/ UNCHANGED vars
  <2>1. /\ req' = req /\ cache' = cache /\ readable' \subseteq readable
        /\ indexed' \in {indexed, readable} /\ everIndexed' \in {everIndexed, TRUE}
    BY <1>3 DEF Unpublish, Reindex, vars
  <2>2. ASSUME NEW r \in Requests PROVE Told(req[r])'
    <3>1. Told(req[r])
      BY DEF RankedInv
    <3> QED
      BY <2>1, <3>1 DEF Told
  <2>3. Shelved'
    BY <2>1 DEF RankedInv, Shelved
  <2> QED
    BY <2>1, <2>2, <2>3 DEF RankedInv
<1> QED
  BY <1>1, <1>2, <1>3

LEMMA RankedInvariance == Spec => []RankedInv
<1>1. Init => RankedInv
  <2> SUFFICES ASSUME Init PROVE RankedInv
    OBVIOUS
  <2>1. Shelved
    BY RankedEmpty, ChosenEmpty, BoundsAssumption DEF Init, NoEntry, Shelved, Entries
  <2>2. Idle \in Requested
    BY IdleTold DEF Told
  <2>3. \A r \in Requests : req[r] = Idle
    BY DEF Init
  <2> QED
    BY <2>1, <2>2, <2>3, IdleTold, ChunksAssumption DEF Init, RankedInv
<1>2. RankedInv /\ [Next]_vars => RankedInv'
  BY ServeTold, AroundTold DEF Next
<1> QED
  BY <1>1, <1>2, PTL DEF Spec

\* The type invariant of the searches holds in every state.
THEOREM Typing == Spec => []TypeOK
<1>1. RankedInv => TypeOK
  BY DEF RankedInv, TypeOK, Shelved, Entries
<1> QED
  BY <1>1, RankedInvariance, PTL

\* However the articles are published and unpublished between the steps of searches,
\* none answers with what was unpublished from before it began.
THEOREM NothingUnpublishedHolds == Spec => []NothingUnpublished
<1>1. RankedInv => NothingUnpublished
  BY DEF RankedInv, Told, NothingUnpublished
<1> QED
  BY <1>1, RankedInvariance, PTL

\* Whatever has been lost, cached or unpublished on the way, an answer has the best
\* first, each article once, and no more than the limit; and what it was cached with,
\* when nothing was lost, leaves out none that is better than one it has.
THEOREM BestFirstHolds == Spec => []BestFirst
<1>1. ASSUME RankedInv, NEW r \in Requests, Answered(r),
             NEW i \in DOMAIN req[r].ids, NEW j \in DOMAIN req[r].ids, i < j
      PROVE  Before(req[r].ids[i], req[r].ids[j])
  BY <1>1, RankedBefore DEF RankedInv, Told
<1>2. RankedInv => BestFirst
  BY <1>1 DEF RankedInv, Told, Shelved, Chosen, BestFirst
<1> QED
  BY <1>2, RankedInvariance, PTL
=============================================================================
