------------------------------- MODULE Search -------------------------------
(***************************************************************************)
(* search.Search of core/search/search.go: searches of one site, all of    *)
(* the same question, by requests that run at once, against                *)
(*   - the helpdesk's articles in the database, which the platform         *)
(*     publishes and unpublishes at any time,                              *)
(*   - mailroom's index of them, which follows when it follows,            *)
(*   - the answer kept in Valkey, which every instance shares.             *)
(* Another question, limit or site has a key of its own and shares nothing *)
(* with this one.                                                          *)
(***************************************************************************)
EXTENDS Naturals, Sequences, SequencesExt, FiniteSets

CONSTANTS
    Requests,
    Articles,
    Drafts,       \* those the platform publishes and unpublishes; the others stay published
    Chunks,       \* the chunks mailroom can match, best first, each by its article
    Limit,
    CacheTTL,
    MaxRequest    \* the time a request takes at most

ASSUME ChunksAssumption == Chunks \in Seq(Articles) /\ Drafts \subseteq Articles

ASSUME BoundsAssumption ==
    Limit \in Nat \ {0} /\ CacheTTL \in Nat \ {0} /\ MaxRequest \in Nat

VARIABLES
    readable,   \* the articles that are published in a published section
    indexed,    \* the articles mailroom's index has
    everIndexed,\* the source's last_indexed_on isn't null
    cache,      \* the answer in Valkey
    req         \* what each request is at and holds

vars == <<readable, indexed, everIndexed, cache, req>>

(***************************************************************************)
(* Time is kept as what is left of it or gone by: ttl is what the entry    *)
(* has left, age how long ago a request began.  since (how long ago the    *)
(* answer's writer asked), matched (the readable articles mailroom had for *)
(* it), full (the answer, had every row been read), outage (mailroom       *)
(* failed it) and seen (the articles readable at some time since the       *)
(* request began) are history.                                             *)
(***************************************************************************)
NoEntry == [ids |-> <<>>, ttl |-> 0, since |-> 0, matched |-> {}, full |-> <<>>,
            outage |-> FALSE]

Idle == [pc |-> "idle", canAsk |-> FALSE, keys |-> <<>>, ids |-> <<>>, matched |-> {},
         full |-> <<>>, age |-> 0, since |-> 0, outage |-> FALSE, seen |-> {}]

Stages == {"idle", "reading", "recalling", "asking", "matching", "writing", "answered"}

Requested == [pc : Stages, canAsk : BOOLEAN, keys : Seq(Articles), ids : Seq(Articles),
              matched : SUBSET Articles, full : Seq(Articles), age : Nat, since : Nat, outage : BOOLEAN,
              seen : SUBSET Articles]

TypeOK ==
    /\ readable \subseteq Articles
    /\ indexed \subseteq Articles
    /\ everIndexed \in BOOLEAN
    /\ cache.ids \in Seq(Articles) /\ cache.ttl \in 0 .. CacheTTL
    /\ req \in [Requests -> Requested]

-----------------------------------------------------------------------------
InFlight(r) == req[r].pc \notin {"idle", "answered"}

\* the first n of a sequence, or all of it
Top(s, n) == SubSeq(s, 1, IF Len(s) < n THEN Len(s) ELSE n)

\* a loop that appends what is at some places of a sequence, at each place in turn
UpTo(s, places) ==
    LET kept[n \in 0 .. Len(s)] ==
            IF n = 0 THEN <<>>
            ELSE IF n \in places THEN Append(kept[n - 1], s[n]) ELSE kept[n - 1]
    IN  kept

AtPlaces(s, places) == UpTo(s, places)[Len(s)]

\* those of some articles
InOrder(keys, found) == AtPlaces(keys, {n \in DOMAIN keys : keys[n] \in found})

Repeated(hits) == hits

\* where each of the hits comes first
Firsts(hits) == {n \in DOMAIN hits : \A m \in 1 .. n - 1 : hits[m] # hits[n]}

\* the keys of the hits, each once, in the order they first come
Distinct(hits) == AtPlaces(hits, Firsts(hits))

\* mailroom's answer: the best of the chunks it has indexed
Hits(limit) == Top(InOrder(Chunks, indexed), limit)

\* What a query for these rows gives its caller.  ScanJSONRows doesn't ask
\* rows.Err: when the connection is lost or the request canceled while the rows
\* are read, the ones read so far are all there is, and there is no error.
Rows(s) == SUBSET s

CutFirst(keys, found) == InOrder(Top(keys, Limit), found)

\* the articles of the keys that were found, cut to the limit
Results(keys, found) == Top(InOrder(keys, found), Limit)

EntryRoundedUp(r) ==
    [ids |-> req[r].ids, ttl |-> CacheTTL + 1, since |-> req[r].since,
     matched |-> req[r].matched, full |-> req[r].full, outage |-> req[r].outage]

Entry(r) ==
    [ids |-> req[r].ids, ttl |-> CacheTTL, since |-> req[r].since,
     matched |-> req[r].matched, full |-> req[r].full, outage |-> req[r].outage]

\* the request is over: what it answered, how long before it began the answer was
\* asked for, and whether mailroom failed whoever asked
Answer(r, ids, outage) ==
    LET lag == IF req[r].since > req[r].age THEN req[r].since - req[r].age ELSE 0
    IN  req' = [req EXCEPT ![r] = [Idle EXCEPT !.pc = "answered", !.ids = ids, !.since = lag,
                                               !.outage = outage, !.seen = req[r].seen]]

-----------------------------------------------------------------------------
Init ==
    /\ readable \in {(Articles \ Drafts) \cup some : some \in SUBSET Drafts}
    /\ indexed = {}
    /\ everIndexed = FALSE
    /\ cache = NoEntry
    /\ req = [r \in Requests |-> Idle]

\* the site, and with it last_indexed_on, is loaded before the search begins
Begin(r) ==
    /\ ~InFlight(r)
    /\ req' = [req EXCEPT ![r] = [Idle EXCEPT !.pc = "reading", !.canAsk = everIndexed,
                                              !.seen = readable]]
    /\ UNCHANGED <<readable, indexed, everIndexed, cache>>

\* readCache: an entry that hasn't expired, unless Valkey fails
Recall(r) ==
    /\ req[r].pc = "reading"
    /\ \/ /\ cache.ttl > 0
          /\ req' = [req EXCEPT ![r].pc = "recalling", ![r].keys = cache.ids,
                                ![r].since = cache.since, ![r].outage = cache.outage]
       \/ req' = [req EXCEPT ![r].pc = "asking"]
    /\ UNCHANGED <<readable, indexed, everIndexed, cache>>

UnfilteredFromCache(r) ==
    /\ req[r].pc = "recalling"
    /\ Answer(r, req[r].keys, req[r].outage)
    /\ UNCHANGED <<readable, indexed, everIndexed, cache>>

ProlongedFromCache(r) ==
    /\ req[r].pc = "recalling"
    /\ Answer(r, InOrder(req[r].keys, readable), req[r].outage)
    /\ cache' = [cache EXCEPT !.ttl = CacheTTL]
    /\ UNCHANGED <<readable, indexed, everIndexed>>

\* LoadReadableByID of what was cached, in the order it was cached
AnswerFromCache(r) ==
    /\ req[r].pc = "recalling"
    /\ \E found \in Rows(readable \cap ToSet(req[r].keys)) :
          Answer(r, InOrder(req[r].keys, found), req[r].outage)
    /\ UNCHANGED <<readable, indexed, everIndexed, cache>>

\* Mailroom is asked for more hits than there is room for, unless the helpdesk
\* was never indexed.
Ask(r) ==
    /\ req[r].pc = "asking"
    /\ LET keys == IF req[r].canAsk THEN Distinct(Hits(Limit * 3)) ELSE <<>>
       IN  req' = [req EXCEPT ![r].pc = "matching", ![r].keys = keys, ![r].since = 0]
    /\ UNCHANGED <<readable, indexed, everIndexed, cache>>

CachedFailure(r) ==
    /\ req[r].pc = "asking" /\ req[r].canAsk
    /\ req' = [req EXCEPT ![r].pc = "writing", ![r].since = 0, ![r].outage = TRUE]
    /\ UNCHANGED <<readable, indexed, everIndexed, cache>>

\* Mailroom fails: the answer has no results, and they aren't cached.
AskFailed(r) ==
    /\ req[r].pc = "asking" /\ req[r].canAsk
    /\ Answer(r, <<>>, TRUE)
    /\ UNCHANGED <<readable, indexed, everIndexed, cache>>

\* LoadReadableByUUID of the keys
Match(r) ==
    /\ req[r].pc = "matching"
    /\ LET keys == req[r].keys
           ok == readable \cap ToSet(keys)
       IN  \E found \in Rows(ok) :
             req' = [req EXCEPT ![r].pc = "writing",
                                ![r].ids = Results(keys, found),
                                ![r].matched = ok,
                                ![r].full = Results(keys, ok)]
    /\ UNCHANGED <<readable, indexed, everIndexed, cache>>

\* writeCache, which may fail, and the answer; neither waits for the context
Write(r) ==
    /\ req[r].pc = "writing"
    /\ cache' \in {cache, Entry(r)}
    /\ Answer(r, req[r].ids, req[r].outage)
    /\ UNCHANGED <<readable, indexed, everIndexed>>

\* A query fails outright, or the client goes away before one: the handler has
\* an error to answer with and Search nothing.
Fail(r) ==
    /\ req[r].pc \in {"reading", "recalling", "matching"}
    /\ req[r].pc = "matching" => req[r].keys # <<>>
    /\ req' = [req EXCEPT ![r] = Idle]
    /\ UNCHANGED <<readable, indexed, everIndexed, cache>>

\* The platform, outside of this repository
Publish(a) ==
    /\ a \notin readable
    /\ readable' = readable \cup {a}
    /\ req' = [r \in Requests |-> IF InFlight(r) THEN [req[r] EXCEPT !.seen = @ \cup {a}]
                                                 ELSE req[r]]
    /\ UNCHANGED <<indexed, everIndexed, cache>>

Unpublish(a) ==
    /\ a \in readable
    /\ readable' = readable \ {a}
    /\ UNCHANGED <<indexed, everIndexed, cache, req>>

Reindex ==
    /\ indexed' = readable
    /\ everIndexed' = TRUE
    /\ UNCHANGED <<readable, cache, req>>

\* A request is over within MaxRequest: the middleware's timeout cancels its
\* queries and its call of mailroom, and Valkey answers when it is asked.
Tick ==
    /\ \A r \in Requests : InFlight(r) => req[r].age < MaxRequest
    /\ cache' = IF cache.ttl <= 1 THEN NoEntry
                ELSE [cache EXCEPT !.ttl = @ - 1, !.since = @ + 1]
    /\ req' = [r \in Requests |->
                  CASE ~InFlight(r) -> req[r]
                    [] req[r].pc \in {"reading", "asking"} -> [req[r] EXCEPT !.age = @ + 1]
                    [] OTHER -> [req[r] EXCEPT !.age = @ + 1, !.since = @ + 1]]
    /\ UNCHANGED <<readable, indexed, everIndexed>>

Serve(r) ==
    \/ Begin(r)
    \/ Recall(r)
    \/ AnswerFromCache(r)
    \/ Ask(r)
    \/ AskFailed(r)
    \/ Match(r)
    \/ Write(r)
    \/ Fail(r)

Next ==
    \/ \E r \in Requests : Serve(r)
    \/ \E a \in Drafts : Publish(a) \/ Unpublish(a)
    \/ Reindex
    \/ Tick

Spec == Init /\ [][Next]_vars

-----------------------------------------------------------------------------
Answered(r) == req[r].pc = "answered"

\* An answer, cached or not, has no article that was unpublished from before the
\* request until after it: "less anything unpublished since" (search.go:42).
NothingUnpublished ==
    \A r \in Requests : Answered(r) => ToSet(req[r].ids) \subseteq req[r].seen

\* mailroom has a chunk of the one before any of the other
Before(a, b) == \E n \in DOMAIN Chunks : Chunks[n] = a /\ \A m \in 1 .. n : Chunks[m] # b

\* "returning the best first" (search.go:40): an answer has each article once, those
\* whose best chunk is better before the others and no more than the limit, whichever
\* of the two ways it was made; and unless rows were lost, what it was cached with
\* leaves out no article that mailroom had and is readable but for the limit, and
\* then none that is better than one it has (62-65, 92-116).
BestFirst ==
    /\ \A r \in Requests :
        Answered(r) =>
            /\ Len(req[r].ids) <= Limit
            /\ \A i, j \in DOMAIN req[r].ids : i < j => Before(req[r].ids[i], req[r].ids[j])
    /\ cache.ids = cache.full =>
        \A a \in cache.matched \ ToSet(cache.ids) :
            /\ Len(cache.ids) = Limit
            /\ \A i \in DOMAIN cache.ids : Before(cache.ids[i], a)

\* An answer is what mailroom said no longer ago than the cache's time to live
\* and the longest request, however often it is recalled and whichever of two
\* requests writes last: "within a few minutes" (search.go:41).
Recent ==
    \A r \in Requests :
        Answered(r) => req[r].since <= CacheTTL + MaxRequest

\* Only the request that mailroom fails is answered without results for it, "so the
\* search works again as soon as mailroom does" (search.go:84): neither what is kept
\* nor what was recalled before it expired is due to a failure.
OutageNotCached ==
    /\ ~cache.outage
    /\ \A r \in Requests : req[r].pc = "recalling" => ~req[r].outage

\* LoadReadableByUUID loads the readable articles among the given UUIDs
\* (article.go:165): what is kept as the answer is all of them, up to the limit.
KeptInFull == cache.ids = cache.full
=============================================================================
