# A verification of helpsites

TLA+ specifications of this repository, the TLC models that check them and the
theorems TLAPS proves about them. Line numbers are of the files under `src/`.

    tlc -config DynamoLock.cfg MCDynamoLock.tla     # a run, listed below
    tlapm DynamoLockProofs.tla                      # a module of proofs

## The system

helpsites is one process, run as several instances, that serves the public sites of
the helpdesks of another system (*the platform*). It writes almost nothing: the
platform owns the Postgres database it reads, and edits it at any time. What it keeps
is certificates in a DynamoDB table, answers of searches in Valkey and a set of domains
in memory. What is hard about it is therefore time and other actors: data that changes
between two reads, a set or an answer that is out of date, locks that run out, clocks
that differ, a start that fails and a shutdown that has to end.

| component | state it keeps | operations | where it is hard | what makes it correct |
|---|---|---|---|---|
| certificate locks (`core/certs/storage.go` 141-177) | an item for each lock in DynamoDB, with an expiry | `Lock`, `Unlock` | instances race, die, retry; clocks differ and are cut to seconds | one holder at a time within its lease; a dead holder's lock is got past |
| certificate storage (`storage.go` 48-139, 183-223) | an item for each key in DynamoDB | `Store`, `Load`, `Delete`, `Exists`, `List`, `Stat` | a directory is a scan in pages, its deletion a series of deletes | a listing has what was there throughout; a deletion is complete or an error |
| certificate manager (`core/certs/manager.go`) | the set of verified domains behind an atomic pointer; a ticker | `Start`, `Refresh`, `Allowed`/`decide`, `Stop` | the set is old; refreshes fail, are slow, lose rows | how old the set can be, both for domains taken back and for new ones |
| self-signed issuer, log bridge (`selfsigned.go`, `logging.go`) | a key | `Issue`; logging | nothing | |
| helpdesk content and sites (`core/models`) | none: each call is a query | the `Load...` functions, `RecordArticleView`, `GetRedirect` | rows lost without an error; articles under articles | what a query calls a page is one |
| search (`core/search`) | answers in Valkey, shared by the instances, for 5 minutes | `Search` | concurrent misses, unpublished articles, mailroom's failures | nothing unpublished, the order, how old an answer can be |
| snippets, plain text (`snippet.go`, `article.go` 267-343) | none | `MakeSnippet`, `PlainText`, `Excerpt` | positions counted in several units | the window is within bounds, the markup is ours |
| site pages (`web/site`) | none | `handleHome`, `handleSection`, `handleArticle`, `handleSitemap`, `handleSearch`, `handleNotFound` | two to five reads make a page | what is shown was readable; what is there is found; redirects settle and lead somewhere |
| server and middleware (`web`) | the three listeners | `Start`, `Stop`, `requireSite`, `redirectToSlash`, `handlePreview` | one time limit for three shutdowns; previews are rewritten requests | previews stay previews; sockets are closed |
| process (`cmd/service.go`) | which components are up | `startService`, `stop`, the watchdog | a start that fails half way; a shutdown that hangs | nothing half started; a signalled process ends |
| test databases (`testsuite/dbtemplate.go`) | databases and advisory locks in Postgres | `ensureTemplate`, `sweepStale`, `createTestDB`, `dropTestDB` | test binaries of several worktrees at once, each of which can be killed | nobody drops what another uses; templates are whole |
| templates, configuration, connections, page script | none that outlives a call | | | |

They interact by calls (pages call models and search, the manager calls models),
through Postgres and Valkey (with the platform and with other instances), by CertMagic
calling back (`decide`, the storage), and through the goroutines of `service.go`,
`manager.go` and `net/http`.

## The modules

    LeaseLock <--implements-- DynamoLock <----proofs---- DynamoLockProofs
    KeyStore <---implements-- DynamoStorage <----------- DynamoStorageProofs
                              Search <------------------ SearchProofs
                              TestTemplate <------------ TestTemplateProofs
                              DomainRefresh <----------- DomainRefreshProofs
                              HelpSite <---------------- HelpSiteProofs
                              Service <----------------- ServiceProofs
                              Snippet <----------------- SnippetProofs

Each has an `MC` module with the values a `.cfg` cannot write. A definition has the
name of what it translates where there is one; `PROJECT.json` has the lines of each.
Operators that stand just before the definition they resemble and are used nowhere
(`EagerFree` before `Free`) are its mutants: each is a plausible mistake that one of
the properties catches.

### LeaseLock and DynamoLock

`LeaseLock` is what the lock is for: a client that is granted it has it to itself until
it is *overdue*. It knows no table, no clock and no request. `DynamoLock` is the code.
`lock` is the item in the table; `state[i]` is where instance `i` is in `Lock` or
`Unlock`; `read[i]` is the time its attempt read, once, for both the expiry and the
condition (144-155). A put is sent by `Lock` or `Poll` and comes to the table in
`PutApplied` or `PutRefused`, any time later; its answer may be lost, and then `Lock`
returns an error or the SDK sends the same put again. `Unlock` is a delete without a
condition, which may be late or repeated. An instance can die anywhere.

`now` is the true time, which no instance sees: instance `i` reads `now + Skew[i]`.
Ticks are finer than the seconds the code keeps (`Unix`). The *lease* is what is left
of `lockDuration` when the clocks differ by at most `MaxSkew`. The history variable
`strayDelete` records that a delete was applied that came after its caller's lease or
for the second time; after one, no promise is made, and `Exclusive` says so rather than
have the model leave such deletes out. One name is modelled, as the locks of two names
write two items.

### KeyStore and DynamoStorage

`KeyStore` is what the storage of certificates can promise without a transaction: a call
on a directory has no snapshot of it, but tells of each key as it was at some moment of
the call (`been`, `gone`: the keys that have been there during it, and that have not), so
a listing has what stays there throughout and nothing that never was; `Stat` finds what
stays; what `Exists` finds has been there, and where it finds nothing that says nothing,
as it has no other way to tell of an error (`storage.go:84-91`); and a `Delete` that
returns no error has had each key of its directory away at some moment. It does not
promise that a directory is empty when its `Delete` returns, as another instance can have
stored into it.

`DynamoStorage` is the code. `items` is the table; `at[i]` is which request of its
operation an instance is at: `getting` (`get`), `scanning` (`keysWithPrefix`), `putting`,
`deleting`. A scan comes to one key after the other, in any order, and finds it or not as
the table is then (`Scan`); a deletion is a write for each key the scan had and, last, the
path itself (`DeleteApplied`). The answer to a write can be lost, and the SDK then sends
it again (`lost` of `Write`). Any operation can fail or end with its instance after any of
its requests (`Fail`), which leaves what it had done. A key is the sequence of its text's
pieces, `Slash` among them, so that `com` begins `com.au` but isn't its directory
(`Under`). `Exists` and `Stat` make the same requests and begin with one action (`Look`);
what tells them apart is what they answer when a request fails (`Fail`). Items have no
values here: what a `Load` returns is the item its one consistent read found.

### DomainRefresh

`domains` is the set behind the manager's pointer; `pc` is `Start` until it returns and
the goroutine's loop after it; `ticked` is the ticker's channel, which holds one tick.
`Query` reads the rows at one moment, `Store` swaps the pointer later. A query can fail,
in which case the set stays, or lose rows, which nothing notices. The platform verifies
domains and takes them back (`Verify`, `Unverify`). Time is kept as ages, which keeps the
model finite without a horizon: `age` of the set in use, `since` when each domain has been
as it is. A refresh takes as long as it takes (`Tick`), as the code gives it no limit
(`context.Background()`, `manager.go:114`), and `busy` is history: how long refreshes have
taken since the set in use was read. How old the set can be (`Staleness`) is an interval
for each refresh since, failed ones among them, and that time. While a refresh hangs the
set is as old as it likes, and nothing is claimed of it. `Normalize` is any function of
the names, such as dropping `www.`.

### Search

A request goes through `Recall` (the cache), `Ask` (mailroom), `Match` (the database) and
`Write` (the cache). `readable` is the platform's, `indexed` mailroom's, and they differ;
`cache` is shared. The answer carries as history how long ago it was asked for (`since`),
which articles mailroom had for it that were readable (`matched`), what it would have been
with every row (`full`) and whether it stands for a failure (`outage`, which `AskFailed`
sets). `Drafts` are the articles that the platform publishes and unpublishes. `BestFirst`
orders articles by their best chunk (`Before`), says that none is in an answer twice, and
that what is cached leaves out only what is worse than all it has, and that only when it
is full. `OutageNotCached` is about the others: the request that mailroom fails has its
empty answer, and neither the cache nor what another request recalls is due to it. All
requests ask the same question: another question has another key. The loops of the code
that append to a slice are `UpTo`, a recursive function of how far the loop has come. What
is shown of an article is in `Snippet`.

### Snippet

`MakeSnippet` and `Excerpt` are functions; the module has them as operators on sequences
of runes, step by step as in the code (`Start`, `Window`, `Escaped`, `Marked`; `Cut`,
`TrimRight`), and a state for each text, set of terms and length, with what is made of
them. What is written piece by piece is `Joined` of its pieces: an entity or a rune for
each rune of the window (`Escaped`), and then a rune with the marks before and after it
(`Marked`). `ReplaceAllString` goes from left to right, which is `FoundBefore`: where it
has found hits before each index, none of them within another. A text is any of `Texts`
that `PlainText` can leave (`Plain`: no space at either end and no two in a row); it can
have the letters of an entity, one that is written out, and an ellipsis of its own.
`ToLower` is for the lead as for the marks, where the code's `(?i)` also takes the few
letters for the same that have another's capital, such as the long s. One rune, `&`,
stands for those that HTML escapes, as its entity is the one with as many letters in a row
as a term has at least. The properties are stated on the result alone: `TextShown` decodes
it, `MarkedWhole` looks at each mark and at each place that is in none, `HitShown` says
for which texts the term that was searched for has to be seen, and `WindowCut` where the
text may be cut and that there is an ellipsis where it is, at either end, and nowhere
else.

### HelpSite

One visit to one site: an address is a sequence of slugs, with or without a slash at its
end, in a preview or not. `Route` has the routes in their order, the search page before a
section of the same name (`handlers.go:29`), whatever article has its slug (`SearchSlug`);
which articles that page finds is `Search`, and here any that are readable
(`LoadResults`). `AlwaysFound` says not only that an address there is a page at is
answered with one, but with which kind (`PageOf`). `req.at` is the query the request is
before; each is a read of the content of that moment, and the platform edits it in between
(`Publish` and its opposite, `Retitle`, `Refile`, `Enable`). A redirect is followed by
another request. `seen` is history: which pages were there at some and at all times of the
request. Initially the content is any that the platform can have, with slugs that are
unique (`unique_article_slugs`, `Slugged`), so one visit stands for every one. Every query
may lose rows (`Cut`). `Nesting` is whether there can be articles under articles that
aren't sections, which the tests of `core/models` have (`article_test.go:106-107`); what
holds only without them says so by `Nested`, and by `seen.flat` for all of a request.

### Service

`main` is where the main goroutine is in `startService`, `Service` and `stop`; `bound`
and `accepting` are the sockets and servers; `shutting` and `left` are `Server.Stop`'s
loop over a map; `manager` is the goroutine of the manager. Requests run on the
listeners for up to `MaxRequest`. `elapsed` counts from the signal. `Kill` is the
watchdog. `wedged` is history: how much of the shutdown was spent waiting for a refresh.

### TestTemplate

Test binaries, each built with some dump, which `Start` chooses from those it can be found
with (`Found`), as the dump is regenerated. `excl` and `shared` are Postgres' advisory
locks, by the database they are for; `pc[b]` is the statement a binary is before. The
locks of the connection of `ensureTemplate` and those of the owner connection are told
apart where it matters (`ReleaseConn`). A binary can die anywhere (`Exit`), which releases
its locks; any statement of `ensureTemplate` can fail (`EnsureFails`). A test's database
has a name of its own in each run, so one of a run that is gone is an `Orphan`.

## The runs

| run | module, cfg | expects | what it shows |
|---|---|---|---|
| lock | MCDynamoLock, DynamoLock | pass | `TypeOK`, `Exclusive`, `Implements` (refinement of LeaseLock) |
| lock_reclaimed | MCDynamoLock, DynamoLockLive | pass | `Reclaimed`: a dead holder's lock is got past within a bound |
| storage | MCDynamoStorage, DynamoStorage | pass | `TypeOK`, `Implements` (refinement of KeyStore), `OthersKept` (a step's keys are those of a call) |
| search | MCSearch, Search | pass | `TypeOK`, `NothingUnpublished`, `BestFirst`, `Recent`, `OutageNotCached`: the best two of three articles |
| search_partial | MCSearch, SearchPartial | violation | `KeptInFull`: half an answer is cached |
| snippet | MCSnippet, Snippet | pass | `TypeOK`, `TextShown`, `MarkedWhole`, `HitShown`, `WindowCut`, `ExcerptCut`: every text of the bounds |
| templates | MCTestTemplate, TestTemplate | pass | `TypeOK`, `TemplatesWhole`, `ScratchKept`, `BuiltOnce`, `TestUndisturbed`, and `Started`: nobody waits for ever; two binaries, any dumps |
| templates_window | MCTestTemplate, TestTemplateWindow | violation | `NoWindow`: there is a window |
| domains | MCDomainRefresh, DomainRefresh | pass | `TypeOK`, `TakenBack`, `TakenUp`, with refreshes longer than the interval |
| visit | MCHelpSite, HelpSite | pass | `TypeOK`, `OnlyReadable`, `AlwaysFound`, `ListsAll`, `ViewsAreReaders`, `LinksHold`, `Settles`: three articles, visits and previews, with and without nesting, an edit during the request |
| visit_links | MCHelpSite, HelpSiteLinks | violation | `RedirectsToPage`: it does not |
| service | MCService, Service | pass | `TypeOK`, `NothingHalf`, `ClosedLast`, `KilledOnlyIfWedged`, and `Stops`, `Unwinds`: a shutdown ends, and so does a failed start |

### What the violations say

The runs that expect a violation are disagreements between the code and its own words;
`PROJECT.json` quotes them under `findings`. `ScanJSONRows` does not ask `rows.Err`, so a
connection lost while rows are read makes a short result and no error, which becomes
everybody's answer to a search for five minutes. `LoadLinkTargets` lacks the condition
that `sqlSelectReadable` has, so with an article under an article an old address is
redirected for good to what is not found. The sweep of the test databases does not take
the creation lock, so the window its comment excludes is there, if it costs only a failed
test run.

More that the models show without a run of their own, as each follows from a line:

- `Lock` "waits if another instance holds it" (`storage.go:141`) only for `lockDuration`,
  as nothing renews the item; `Exclusive` is about holders within their lease.
- `LoadVerifiedDomains` has the same omission as `ScanJSONRows` (`site.go:131`): part of
  the verified domains becomes the set until the next refresh. `TakenUp` is about sets
  that lost no rows.
- `redirectToSlash` (`middleware.go:120-125`) takes a preview's path within the site for
  the whole one, so its redirect is without the preview's prefix: `WithSlash` has none,
  and `Follow` does not follow it.
- `MakeSnippet` marks terms in the escaped text (`snippet.go:68`), so a search for "amp"
  marks a part of `&amp;`, and the reader sees the entity taken apart. `TextShown` is about
  the other terms: no other entity has three letters or digits in a row, which is what a
  term has at least (`search.go:72`).
- The window's lead goes back to the start of a word however long the word is
  (`snippet.go:38-43`), so the hit can be past the window's end and not be shown:
  `HitShown` names the texts of which it is.
- The set of verified domains drops a stored `www.` (`manager.go:138`), and the site of a
  request is looked up by the stored text (`site.go:102`), as the domains are assumed to be
  stored without: one that isn't would get a certificate and no page. It's the platform
  that stores them.

### Bounds

- *lock*: two instances whose clocks are a tick apart, ticks of half a second, a lease
  of a second and a horizon `MaxTime` of seven ticks: an item is written, expires on one
  clock before the other, is replaced and expires again. Exclusion is between two
  instances, and the theorems are for any number of them.
- *lock_reclaimed*: the horizon is finite, so the property is asked of items left behind
  while there is time for them to be got past (`now + ReclaimWithin <= MaxTime`).
- *search*: two requests, the smallest number that race; four chunks of three articles
  with a limit of two, so that an article has a second chunk between those of the others,
  an answer has an order, and the limit cuts it where all three are found; of these one,
  the best, is published and unpublished (`Drafts`), so that the third moves up and down.
  A time to live of two and requests of one, so that an entry is written late, recalled
  late and expires.
- *domains*: one domain in two forms, an interval of three, refreshes that take up to four
  between two of them that succeed (`MaxBusy`), so that one can be longer than the
  interval and swallow ticks, up to two failures in a row (`MaxFailures`); `MaxSince` is
  beyond the largest staleness that allows, 3 * 3 + 4. `MaxBusy` bounds the model, not the
  code: the theorems are for any.
- *storage*: two instances, three keys in two directories of an issuer, of which one's
  name begins the other's, and the six paths there are of them: a scan has keys before and
  after another's write, a deletion has two items and the path, and a listing has children
  that are keys and children that are directories. The theorems are for any of them.
- *snippet*: every text of up to eight runes in two cases of a letter, spaces and the
  escaped rune; of up to six in the letters of an entity, its semicolon and the escaped
  rune, so that there is an entity written out; and of up to seven with an ellipsis of its
  own (`MCTexts`). Terms of one, two and none, with `amp` and with one that has its
  letters, and a length of five: the window can begin after the text does and end before
  it at once, and its quarter and half are not whole numbers. The terms of the code have
  three letters at least; the shorter ones here have none of an entity's
  (`TermsAssumption`), or they would be found in one. The theorems are for texts, terms
  and lengths of any size.
- *visit*: three articles, whose slugs are at first those of the mapping in one of two
  ways, in the second with the search page's among them (`Slugged`: all that tells
  articles apart at first is which of them the mapping has), and one more that an article
  can be given; one edit during each request (`MaxEdits`): that another takes a slug that
  was just given up needs two, and is the theorems', which are for any number; mappings to
  a page's own address, below an index and to the home page; up to three redirects in a
  row (`MaxHops`), one more than `Settles` allows. *visit_links* is of the site alone, as
  a preview makes the same reads.
- *service*: three listeners as in the code, three requests; a request can take all of
  `Grace`, and `Budget` is twice it, as 60 is to 30 seconds.
- *templates, templates_window*: two binaries and two dumps, any of which a binary is
  built with each time it starts (`AnyDump`); each starts, dies and starts again without
  limit.

The runs of `HelpSite`, `Snippet` and `Service` do not check for deadlock: a visit ends
with an answer, a text is shown and listed, and a process ends.

### Fairness

- `DynamoLock!LiveSpec`: a put is answered within `MaxLatency` and a timer fires when due
  (`time.After`, the SDK's time limits): time does not pass an overdue one, and polls and
  answers of instances that go on happen. Nothing is assumed of holders: they may die or
  never unlock.
- `TestTemplate!FairSpec`: a binary's next statement is run as long as it lives;
  strong fairness for the blocking locks because Postgres queues their waiters. Nothing
  makes a binary end, fail or run a test.
- `Service!FairSpec`: the main goroutine runs when it can, a request ends by its time
  limit, time goes by, and the manager's `select` comes to its stop channel when it is
  offered again and again, Go choosing among ready cases at random. A refresh is not
  assumed to end: it has no time limit in the code (`context.Background()`,
  `manager.go:114`), and `Stops` then rests on the watchdog. The unwinding of a failed start
  has none, and `Unwinds` says what that leaves: it ends unless a refresh never does.

## What is proved

For every value of the constants that satisfies the named assumptions of the module.

**DynamoLockProofs.** `Typing`; `Exclusion`, that is `Exclusive`; `Refinement`, that
`DynamoLock` implements `LeaseLock`. `Exclusive` is not inductive: it says nothing of
the item in the table. The invariant `IInv` adds `ReadPast` (no attempt has read a time
its clock is yet to show) and `OwnItem` (a holder that is not overdue wrote the item
that is there, unless a stray delete has been). The step that matters is
`PutApplied(j)`: its condition compares another instance's clock, read earlier, with the
expiry. `UnixLemma`, `ExpiryLemma` and `ReclaimLemma` turn "expires < now, in whole
seconds" into "the writer is overdue", whatever the clocks within `MaxSkew`. For the
refinement, `PutApplied` maps to `Grant` (or a stutter), leaving maps to `Release`,
`Tick` to `Lapse` and a stray delete to `Break`. Assumed: at least one instance, a
positive number of ticks to a second, skews within `MaxSkew`.

**DynamoStorageProofs.** `Typing`; `StorageImplements`, that `DynamoStorage` implements
`KeyStore`; `OthersKeptHolds`. What a call may tell at its end depends on all of its
requests, so the invariant says for each stage what they have shown so far: a scan has
found only keys that have been there, and what it has neither found nor left to come to
was away when it came to it (`ScanSound`); what a write has yet to do and what it has done
make up its scope (`WriteSound`); and what is there or not now is in the history of every
call (`Seen`), which is why a write extends all of them. The steps of the refinement are
then `Ask`, `Put`, `Remove`, `Tell` and stutters. Assumed: paths are sequences of pieces,
and what is before a slash of a key is a path.

**SearchProofs.** `RecentHolds` and `OutageNotCachedHolds` first. How old an answer is
depends on when its writer asked, how long that request took to write it and how long it
was kept. The invariant adds them up: what an entry has left and how long ago it was asked
for are at most a life and a request (`Lasting`), and a request that has recalled one is
that much older than itself at most, while one that has recalled nothing has asked within
its own age (`Timely`); and a request that mailroom fails is over, so that none under way,
and no entry, is due to a failure.

Then `Typing`, `NothingUnpublishedHolds` and `BestFirstHolds`. What an answer contains has
been through four lists: mailroom's hits, the keys each once, the rows that were found and
the first of them. The invariant is that each of these is *ranked*, that is, some of the
first places of an article among `Chunks`, in rising order, in a request as well as in the
cache (`Ranked`, `Told`, `Shelved`), that what is kept of those that matched is the best
of them (`Chosen`), and that what is answered was seen readable by the request that
answers it. `AtPlacesFacts` says of a loop that appends what it leaves: an increasing
sequence of the places it was to keep, all of them. It is proved from `Loop`, an invariant
of a loop as a set of naturals (`Least` gives the first that would not be in it), as the
library's induction takes an operator. Assumed: chunks are of articles, and a limit and a
time to live are positive.

**SnippetProofs.** `Typing`, `TextShownHolds`, `MarkedWholeHolds`, `HitShownHolds`,
`WindowCutHolds`, `ExcerptCutHolds`: every property that the run checks, for any texts,
lengths, and sets of terms of the kind that `Search` makes. The invariant (`IInv`) only
says that what is shown is what the functions make of what was asked; the work is in what
those functions give.

- *Loops.* `JoinedTo` and `FoundBefore` are recursive functions, whose equations come from
  `Loop` (`JoinedDef`, `FoundDef`). `JoinedFacts` says where each rune of each piece is of
  what is joined, and that nothing else is there; `JoinedApart` cuts it in two.
- *The window.* `StartFacts` and `WindowFacts`: it is a part of the text between what stands
  for the rest, it starts at or before the first hit, and it stops where the text does, at
  its length, or at a space past half of it.
- *What a reader sees.* Dropping marks undoes `Marked` and dropping what escapes undoes
  `Escaped` (`MarkedWithout`, `UnescapeFacts`), so a snippet decodes to the window's part
  of the text (`SeenFacts`). That needs entities to be where a rune was escaped and
  nowhere else, though a text can have all of an entity's runes: its ampersand has one of
  its own (`EntityWhole`), and one entity's runes are not in another (`EntityBegins`). An
  entity is taken apart only by a mark in it, so by a hit among its letters: with three
  letters at least or none of the entity's, a term that is one is `amp`
  (`EntityUnmarked`), which is the one the property leaves out.
- *The marks.* `FoundFacts`: what is found are hits, none begins within another, and every
  hit begins within one or is one. `MarkedPlaces` gives the place in the snippet of each
  rune and mark. A mark therefore has a found hit after it, the longest there (`MarkShows`,
  `MarkIsTerm`); and where letters of a term follow each other outside of marks, they follow
  each other in what was marked (`RunsOn`), so they are a hit, it begins within a found one,
  and then they were in a mark (`OutsideUnhit`).
- *The first hit.* The window has it whole under the property's conditions
  (`WindowReaches`); the first hit of the text is then the first of the window
  (`FirstInWindow`); and it is found in what is escaped, as a hit that began before it and
  reached into it would, going back letter by letter, never meet the end of an entity, and
  be an earlier hit of the window (`FirstEscapedHit`).

Assumed: a space, an ampersand, the ellipsis and the marks are no letters, lower case is a
function of letters that leaves the entity's, which are lower case, as they are; a term is
of letters, at least three or none of the entity's; and a length is more than two.

**TestTemplateProofs.** `Typing`, `TemplatesWholeHolds`, `BuiltOnceHolds`,
`ScratchKeptHolds`, `TestUndisturbedHolds`, for any number of binaries and dumps. The
invariant is who holds which lock where (`Locks`) and what a binary has found not to be
there, or has made, under them (`Made`); a sweep can only drop what it has locked. Assumed:
the dumps a binary is found with are dumps, and `Nobody` is no binary.

**HelpSiteProofs.** `Typing`, `OnlyReadableHolds`, `AlwaysFoundHolds`, `ListsAllHolds`,
`ViewsAreReadersHolds`, for any finite set of articles, any mapping and any number of
edits. The invariant ties what the request holds to the history of the content: what was
there throughout is there now and what is there now has been (`Witnessed`); the section
that was found still has its slug if any page in it was there throughout, as slugs are
unique (`SameSection`); what was listed before the last read has every section that stayed
(`SectionsListed`); and a request that goes on to what isn't found has no such page as its
address (`NotLost`). `LinksHoldHolds` and `SettlesHolds` have invariants of their own on
top of it. That links lead to pages says nothing of the requests that are under way:
`Linked` says that every address gathered so far was a page at some time, and `Within`
that the section that was found has, until the edit, the slug that was asked for, and that
what is in it was at an address under that slug, however the one edit falls. That
redirects settle needs what the request a redirect led to can still find: `Settling` says
that the content and the site are as they were at its start and that no rows are lost, so
that the second redirect in a row leads to a page, and a page is answered with itself.
Assumed: names are distinct and the mapping is of paths to articles or home.

**DomainRefreshProofs.** `Typing`; `Withdrawal`, that is `TakenBack`; `Adoption`, that is
`TakenUp`. Neither says where the time goes. The invariant relates, for the set in use
and for the one being loaded, each domain's `since` to the age of the read it comes
from (`InUse`, `BeingLoaded`), and bounds that age by the ticker: how much of the
interval is left, whether a tick waits, how long the refresh has run, how many have
failed (`Timing`). `StalenessLemma` and `AgeLemma` are the arithmetic. Assumed: an interval
is positive. Nothing is assumed of how long a query takes: the bound is in terms of it
(`busy`), as the code sets none, so what is proved is that nothing but the failures and the
queries' own time makes the set older than an interval.

**ServiceProofs.** `Typing`; `Unwound` (`NothingHalf`); `LastClosed` (`ClosedLast`);
`Wedged` (`KilledOnlyIfWedged`), for any number of listeners and requests and any limits
with `Grace < Budget`. The invariant says for each phase what is up and down (`Up`,
`Down`, `Failed`), that a request is on a server that was not yet left or the time is up
(`Served`), and where the time since the signal has gone (`Clock`).

Only model-checked: liveness (`Reclaimed`, `Started`, `Stops`, `Unwinds`), which is beyond
the prover. Every invariant and action property of the runs that pass, and both
refinements, is a theorem.

## What is not modelled

- CertMagic: obtaining, renewing and caching certificates, and its ACME account. It is a
  library, and the code only hands it the storage, the locks and `decide`; a model of two
  instances obtaining one certificate would be a model of CertMagic's steps, which are not
  in this repository. What it is handed is what is modelled.
- How a query is split into terms (`\W+`, for which a letter that isn't ASCII is none, so
  that words with one are split and mostly not marked), and the regular expressions that
  take markup out of HTML and markdown.
- The page script, whose state is the heading the browser has scrolled to.
- HEAD and other methods, static files and a section that has their name, addresses deeper
  than an article's, robots.txt, panics, the token of the internal
  listener, the host against the handshake's name: tests of a single request.
- Two sites at once in `HelpSite`: every query has the site's source as a parameter.
- Images, colors, templates, wording, logging; configuration, which a library validates.
- `HelpSite` has the content of the platform under the constraints the schema has; what
  the platform does otherwise is not in this repository.
- In `TestTemplate`, several tests of a binary at once, and a test whose statements fail
  for another reason than that there is no template.

## The plan

What was planned is here, in this order: `DynamoLock` (the only state the instances write
together), `Search` (the other state they share), `TestTemplate` (the densest concurrency
of the repository), `DomainRefresh`, `HelpSite` (everything a reader sees), `Service`;
then `DynamoStorage` with its abstract store, `Snippet`, the proofs of `DynamoStorage`,
`TestTemplate`, `HelpSite` and of how old `Search`'s answers are; and then those of what
the answers contain, of `HelpSite`'s links and redirects, and of `Snippet`.

What is left would come in this order:

1. The choice of the site by the handshake's name, the host and the verified domains, as
   a composition of `DomainRefresh` with the middleware: what a domain that is taken back
   between a handshake and its requests is answered with.
2. An abstract specification of the search, a reader's view of it without a cache and
   without mailroom's steps, that `Search` implements.
3. `LinksHold` for more than one edit: what a page links to was a page at the time of the
   read it comes from, which needs the history of each link.
