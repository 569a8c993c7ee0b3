------------------------------ MODULE HelpSite ------------------------------
(***************************************************************************)
(* A visit to a help site: the handlers of web/site, the middleware before *)
(* them and the queries of core/models they make, against a helpdesk the   *)
(* platform goes on editing.  Every query of a request is a read of its    *)
(* own, so what one page is made of can be from several moments.           *)
(*                                                                         *)
(* An address is the slugs between its slashes, whether it ends with a     *)
(* slash, and whether it's under the prefix of the platform's preview.  No *)
(* slug of the model is "static", which has files of its own, and none of  *)
(* its addresses is deeper than an article's.                              *)
(***************************************************************************)
EXTENDS Naturals, Sequences, SequencesExt, FiniteSets

CONSTANTS
    Articles,   \* the articles of the helpdesk, by uuid; one with no parent is a section
    None,       \* no article
    Slugs,
    SearchSlug, \* search, which has a page of its own and can be an article's slug too
    Slugged,    \* what slugs the articles can have at first
    Sitemap,    \* sitemap.xml, which is no slug
    Redirects,  \* the site's mapping of old addresses to articles, or home
    Home,       \* models.RedirectHome
    Nesting,    \* there are articles under articles that aren't sections
    Previews,   \* what a visit can be: of a preview, of the site, or either
    MaxEdits,   \* how many edits the platform makes in the model
    MaxHops     \* how many redirects in a row are followed in the model

Paths == BoundedSeq(Slugs, 2) \cup {<<Sitemap>>}

ASSUME NamesAssumption ==
    /\ IsFiniteSet(Articles) /\ None \notin Articles /\ Home \notin Articles
    /\ Sitemap \notin Slugs /\ SearchSlug \in Slugs

\* the index unique_article_slugs makes slugs unique
ASSUME SluggedAssumption == Slugged \subseteq Injection(Articles, Slugs)

ASSUME RedirectsAssumption ==
    \A path \in DOMAIN Redirects : path \in Paths /\ Redirects[path] \in Articles \cup {Home}

ASSUME BoundsAssumption ==
    Nesting \in BOOLEAN /\ Previews \subseteq BOOLEAN /\ MaxEdits \in Nat /\ MaxHops \in Nat

VARIABLES
    parent, slug, published,    \* of each article: published is is_active and status P
    available,  \* the site is enabled, verified and of a live helpdesk
    req,        \* the request being served
    reply,      \* what it was answered with
    viewed,     \* the rows it has added to the counts of views, by article
    seen,       \* history: what the content has been since it began
    edits,      \* history: how many edits there have been
    hops        \* history: how many redirects in a row led to it, all with the same content

content == <<parent, slug, published, available, edits>>
vars == <<content, req, reply, viewed, seen, hops>>

Stages == {"idle", "site", "sections", "popular", "readable", "results", "section", "articles",
           "article", "targets", "siblings", "view", "unfound", "answered"}

Kinds == {"none", "home", "section", "article", "sitemap", "search",
          "unavailable", "redirect", "notFound", "error"}

Blank == [at |-> "idle", path |-> <<>>, slash |-> TRUE, preview |-> FALSE,
          section |-> None, article |-> None, links |-> {}]

NoReply == [kind |-> "none", to |-> <<>>, slash |-> TRUE, prefix |-> FALSE,
            article |-> None, links |-> {}]

NoViews == [a \in Articles |-> 0]

TypeOK ==
    /\ parent \in [Articles -> Articles \cup {None}]
    /\ slug \in [Articles -> Slugs]
    /\ published \in [Articles -> BOOLEAN] /\ available \in BOOLEAN
    /\ req.at \in Stages /\ req.path \in Paths
    /\ req.section \in Articles \cup {None} /\ req.article \in Articles \cup {None}
    /\ req.links \subseteq Paths
    /\ reply.kind \in Kinds /\ reply.to \in Paths /\ reply.links \subseteq Paths
    /\ reply.slash \* every page's address ends with one (middleware.go:116)
    /\ viewed \in [Articles -> 0 .. 1]

-----------------------------------------------------------------------------
\* The queries, each as the rows it has of the content as it is.

\* sqlReadable: published in something published, which needn't be a section
Readable == {a \in Articles : /\ published[a] /\ parent[a] # None
                              /\ published[parent[a]]}

Unfiltered(section) == {a \in Articles : parent[a] = section}

\* sqlSelectArticles
Listed(section) == {a \in Readable : parent[a] = section}

Sections == {a \in Articles : published[a] /\ parent[a] = None}

EmptyToo == Sections

Fuller == {s \in Sections : Cardinality({a \in Articles : parent[a] = s /\ published[a]}) > 1}

\* sqlSelectSections, which counts what is published in each
NonEmpty == {s \in Sections : Cardinality({a \in Articles : parent[a] = s /\ published[a]}) > 0}

\* sqlSelectReadable: what is in a section
InSections == {a \in Readable : parent[parent[a]] = None}

TwoSlugs(a) == <<slug[parent[a]], slug[a]>>

\* the addresses there is a page at
Pages ==
    {<<>>} \cup UNION {{<<slug[parent[a]]>>, TwoSlugs(a)} :
                          a \in {r \in Readable : parent[parent[r]] = None}}

TargetsBySlug(rows) ==
    {[x \in rows \cup {parent[a] : a \in rows} |-> <<slug[x]>>]}

\* LoadLinkTargets: a row has the address of its article and of what that is in;
\* the address kept of one that is both is the later row's, and they're unordered
LinkTargets(rows) ==
    LET over == {parent[a] : a \in rows}
    IN  {[x \in rows \cup over |-> IF x \in rows \ late THEN TwoSlugs(x) ELSE <<slug[x]>>] :
            late \in SUBSET (rows \cap over)}

\* What a query for these rows gives its caller.  Neither ScanJSONRows nor
\* LoadLinkTargets asks rows.Err, so rows lost with the connection are just missing.
Rows(set) == SUBSET set

Cut(rows, set) ==
    /\ seen' = [seen EXCEPT !.cut = @ \/ rows # set]
    /\ hops' = IF rows # set THEN 0 ELSE hops

\* Site.GetRedirect: the path an old address leads to, in a set that is empty if
\* it leads nowhere
GetRedirect(path, targets) ==
    LET mapped == IF path \in DOMAIN Redirects THEN Redirects[path] ELSE None
    IN  CASE mapped = Home -> {<<>>}
          [] mapped \in DOMAIN targets -> {targets[mapped]}
          [] OTHER -> IF path # <<>> /\ \E old \in DOMAIN Redirects : IsStrictPrefix(path, old)
                      THEN {<<>>} ELSE {}

-----------------------------------------------------------------------------
Serving(stage) == req.at = stage

InFlight == req.at \notin {"idle", "answered"}

Answer(kind, answer) ==
    /\ req' = [Blank EXCEPT !.at = "answered", !.path = req.path, !.slash = req.slash,
                            !.preview = req.preview]
    /\ reply' = [answer EXCEPT !.kind = kind]

Answered(kind) == Serving("answered") /\ reply.kind = kind

Goto(stage) == req' = [req EXCEPT !.at = stage] /\ UNCHANGED reply

Nested == \E a \in Articles : parent[a] # None /\ parent[parent[a]] # None

\* no deeper than a section, its articles, and if there is nesting what is under those
Shaped(p) ==
    \A a \in Articles : p[a] # None /\ p[p[a]] # None => Nesting /\ p[p[p[a]]] = None

Unchanging ==
    [ever |-> Pages, always |-> Pages, readable |-> Readable,
     open |-> available, shut |-> ~available, edits |-> 0, cut |-> FALSE,
     flat |-> ~Nested]

Init ==
    /\ parent \in [Articles -> Articles \cup {None}] /\ Shaped(parent)
    /\ slug \in Slugged
    /\ published \in [Articles -> BOOLEAN] /\ available \in BOOLEAN
    /\ req = Blank /\ reply = NoReply /\ viewed = NoViews
    /\ seen = Unchanging /\ edits = 0 /\ hops = 0

Arrive(path, slash, preview) ==
    /\ req' = [Blank EXCEPT !.at = "site", !.path = path, !.slash = slash, !.preview = preview]
    /\ reply' = NoReply /\ viewed' = NoViews /\ seen' = Unchanging
    /\ UNCHANGED content

\* A reader asks for an address of the site, or the platform for one of a preview.
\* The content is anything when they do, so one such visit stands for them all.
Visit(path, slash, preview) ==
    /\ Serving("idle")
    /\ path = <<>> => slash \* there's always one at the root
    /\ Arrive(path, slash, preview)
    /\ hops' = 0

\* and goes where it was sent; what is sent out of a preview doesn't come here
Follow ==
    /\ Answered("redirect")
    /\ req.preview => reply.prefix
    /\ hops < MaxHops
    /\ Arrive(reply.to, reply.slash, req.preview)
    /\ hops' = hops + 1

MappedFirst(path, slash, preview) ==
    CASE path \in DOMAIN Redirects -> "unfound"
      [] path = <<Sitemap>> -> IF slash \/ preview THEN "unfound" ELSE "sections"
      [] path = <<>> -> "sections"
      [] path = <<SearchSlug>> -> "results"
      [] OTHER -> "section"

\* the routes, where search comes before a section of that name; sitemap.xml with a
\* slash is none of them
Route(path, slash, preview) ==
    CASE path = <<Sitemap>> -> IF slash \/ preview THEN "unfound" ELSE "sections"
      [] path = <<>> -> "sections"
      [] path = <<SearchSlug>> -> "results"
      [] OTHER -> "section"

SlashKept(path, slash) == [NoReply EXCEPT !.to = path, !.slash = slash]

\* redirectToSlash: the same path with a slash, which has no prefix
WithSlash(path, slash) == [NoReply EXCEPT !.to = path]

\* handlePreview needs there to be a site, requireSite one that's available
RefusesPreview(rows) == req.preview /\ rows = {}

RefusesVisit(rows) == ~req.preview /\ (rows = {} \/ ~available)

\* LoadSiteByUUID or LoadSiteByDomain; then redirectToSlash and the router
LoadSite ==
    /\ Serving("site")
    /\ \E rows \in Rows({"site"}) :
        /\ Cut(rows, {"site"})
        /\ CASE RefusesPreview(rows) -> Answer("notFound", NoReply)
             [] RefusesVisit(rows) -> Answer("unavailable", NoReply)
             [] OTHER -> IF ~req.slash /\ req.path \notin {<<>>, <<Sitemap>>}
                         THEN Answer("redirect", WithSlash(req.path, req.slash))
                         ELSE Goto(Route(req.path, req.slash, req.preview))
    /\ UNCHANGED <<content, viewed>>

\* handleHome and handleSitemap
LoadSections ==
    /\ Serving("sections")
    /\ \E rows \in Rows(NonEmpty) :
        /\ Cut(rows, NonEmpty)
        /\ req' = [req EXCEPT !.at = IF req.path = <<>> THEN "popular" ELSE "readable",
                              !.links = {<<slug[s]>> : s \in rows}]
    /\ UNCHANGED <<content, reply, viewed>>

\* LoadPopular: which of the readable articles have been read the most is the counts'
LoadPopular ==
    /\ Serving("popular")
    /\ \E rows \in SUBSET Readable :
        Answer("home", [NoReply EXCEPT !.links = req.links \cup {TwoSlugs(a) : a \in rows}])
    /\ UNCHANGED <<content, viewed, seen, hops>>

LoadReadable ==
    /\ Serving("readable")
    /\ \E rows \in Rows(InSections) :
        /\ Cut(rows, InSections)
        /\ Answer("sitemap", [NoReply EXCEPT
                    !.links = {<<>>} \cup req.links \cup {TwoSlugs(a) : a \in rows}])
    /\ UNCHANGED <<content, viewed>>

\* handleSearch: which of the readable articles the results are is module Search's
LoadResults ==
    /\ Serving("results")
    /\ \E rows \in SUBSET Readable :
        Answer("search", [NoReply EXCEPT !.links = {TwoSlugs(a) : a \in rows}])
    /\ UNCHANGED <<content, viewed, seen, hops>>

\* handleSection and handleArticle
LoadSection ==
    /\ Serving("section")
    /\ LET found == {s \in Sections : slug[s] = req.path[1]}
       IN  \E rows \in Rows(found) :
            /\ Cut(rows, found)
            /\ \/ rows = {} /\ Goto("unfound")
               \/ \E s \in rows :
                    /\ req' = [req EXCEPT !.at = IF Len(req.path) = 1 THEN "articles" ELSE "article",
                                          !.section = s]
                    /\ UNCHANGED reply
    /\ UNCHANGED <<content, viewed>>

LinksTo(rows) == {<<req.path[1], slug[a]>> : a \in rows}

LoadArticles ==
    /\ Serving("articles")
    /\ \E rows \in Rows(Listed(req.section)) :
        /\ Cut(rows, Listed(req.section))
        /\ \/ rows = {} /\ Goto("unfound")
           \/ rows # {} /\ Answer("section", [NoReply EXCEPT !.links = LinksTo(rows)])
    /\ UNCHANGED <<content, viewed>>

LoadArticle ==
    /\ Serving("article")
    /\ LET found == {a \in Listed(req.section) : slug[a] = req.path[2]}
       IN  \E rows \in Rows(found) :
            /\ Cut(rows, found)
            /\ \/ rows = {} /\ Goto("unfound")
               \/ \E a \in rows : /\ req' = [req EXCEPT !.at = "targets", !.article = a]
                                  /\ UNCHANGED reply
    /\ UNCHANGED <<content, viewed>>

\* LoadLinkTargets for the links of the body, which can be to any of them
LoadLinkTargets ==
    /\ Serving("targets")
    /\ \E rows \in Rows(Readable) :
        /\ Cut(rows, Readable)
        /\ \E targets \in LinkTargets(rows) :
            req' = [req EXCEPT !.at = "siblings",
                               !.links = {<<req.path[1]>>} \cup {targets[x] : x \in DOMAIN targets}]
    /\ UNCHANGED <<content, reply, viewed>>

ViewsOfPreviewsToo == TRUE

\* a preview isn't a reader's
IsReader == ~req.preview

\* LoadArticles for the sidebar
LoadSiblings ==
    /\ Serving("siblings")
    /\ \E rows \in Rows(Listed(req.section)) :
        /\ Cut(rows, Listed(req.section))
        /\ LET links == req.links \cup LinksTo(rows)
           IN  IF IsReader
               THEN req' = [req EXCEPT !.at = "view", !.links = links] /\ UNCHANGED reply
               ELSE Answer("article", [NoReply EXCEPT !.article = req.article, !.links = links])
    /\ UNCHANGED <<content, viewed>>

RecordArticleView ==
    /\ Serving("view")
    /\ viewed' = [viewed EXCEPT ![req.article] = @ + 1]
    /\ \/ Answer("article", [NoReply EXCEPT !.article = req.article, !.links = req.links])
       \/ Answer("error", NoReply) \* it was recorded, but its answer was lost
    /\ UNCHANGED <<content, seen, hops>>

\* handleNotFound
FindRedirect ==
    /\ Serving("unfound")
    /\ \E rows \in Rows(Readable) :
        /\ Cut(rows, Readable)
        /\ \E targets \in LinkTargets(rows) :
            LET found == GetRedirect(req.path, targets)
            IN  IF found = {} THEN Answer("notFound", NoReply)
                ELSE \E to \in found :
                        Answer("redirect", [NoReply EXCEPT !.to = to, !.prefix = req.preview])
    /\ UNCHANGED <<content, viewed>>

\* the query fails, or the request's time is up: wrap answers with a 500
ReadFailed ==
    /\ InFlight
    /\ Answer("error", NoReply)
    /\ UNCHANGED <<content, viewed, seen, hops>>

-----------------------------------------------------------------------------
\* The platform's edits, outside of this repository
Edited ==
    /\ InFlight \/ Answered("redirect")
    /\ edits < MaxEdits /\ edits' = edits + 1
    /\ hops' = 0
    /\ seen' = IF ~InFlight THEN seen
               ELSE [seen EXCEPT !.ever = @ \cup Pages', !.always = @ \cap Pages',
                                 !.readable = @ \cup Readable', !.edits = @ + 1,
                                 !.open = @ \/ available', !.shut = @ \/ ~available',
                                 !.flat = @ /\ ~Nested']
    /\ UNCHANGED <<req, reply, viewed>>

Publish(a) ==
    /\ published' = [published EXCEPT ![a] = ~@]
    /\ UNCHANGED <<parent, slug, available>>
    /\ Edited

Retitle(a, s) ==
    /\ \A b \in Articles : slug[b] # s
    /\ slug' = [slug EXCEPT ![a] = s]
    /\ UNCHANGED <<parent, published, available>>
    /\ Edited

Refile(a, p) ==
    /\ parent[a] # p
    /\ Shaped([parent EXCEPT ![a] = p])
    /\ parent' = [parent EXCEPT ![a] = p]
    /\ UNCHANGED <<slug, published, available>>
    /\ Edited

Enable ==
    /\ available' = ~available
    /\ UNCHANGED <<parent, slug, published>>
    /\ Edited

Next ==
    \/ \E path \in Paths, slash \in BOOLEAN, preview \in Previews : Visit(path, slash, preview)
    \/ Follow
    \/ LoadSite \/ LoadSections \/ LoadPopular \/ LoadReadable \/ LoadResults
    \/ LoadSection \/ LoadArticles \/ LoadArticle \/ LoadLinkTargets \/ LoadSiblings
    \/ RecordArticleView \/ FindRedirect \/ ReadFailed
    \/ \E a \in Articles : Publish(a) \/ \E s \in Slugs : Retitle(a, s)
    \/ \E a \in Articles, p \in Articles \cup {None} : Refile(a, p)
    \/ Enable

Spec == Init /\ [][Next]_vars

-----------------------------------------------------------------------------
ShowsPage == \E kind \in {"home", "section", "article", "sitemap", "search"} : Answered(kind)

\* what an address there is a page at shows
PageOf(path) ==
    CASE path = <<>> -> "home"
      [] path = <<SearchSlug>> -> "search"
      [] OTHER -> IF Len(path) = 1 THEN "section" ELSE "article"

\* An article is only shown if at some time during the request it was published
\* in something published, and outside of a preview the site available
\* (article.go:61-63, middleware.go:77-94): no two reads make up a page of what
\* was never readable.
OnlyReadable ==
    /\ Answered("article") => reply.article \in seen.readable
    /\ ShowsPage /\ ~req.preview => seen.open

\* What is a page for as long as the request takes is shown, and neither not found
\* nor redirected nor another kind of page, whatever else is edited meanwhile
\* (handlers.go:79-122), unless a query fails or loses rows or the site becomes
\* unavailable; but the search page is shown for a section of its name.
AlwaysFound ==
    (/\ Serving("answered") /\ ~Answered("error") /\ ~seen.cut
     /\ req.path \in seen.always /\ req.slash
     /\ req.preview \/ ~seen.shut)
        => Answered(PageOf(req.path))

\* The sitemap has every page there is for as long as the request takes, the home
\* page every section and a section's page every article in it (sitemap.go:54-100).
ListsAll ==
    ShowsPage /\ ~seen.cut =>
        \A page \in seen.always \ {<<>>} :
            (\/ reply.kind = "sitemap"
             \/ reply.kind = "home" /\ Len(page) = 1
             \/ reply.kind = "section" /\ Len(page) = 2 /\ page[1] = req.path[1])
                => page \in reply.links

\* Without nesting, and however the only edit during the request falls between its
\* reads, everything a page links to was a page at some time during it.
LinksHold ==
    ShowsPage /\ seen.edits <= 1 /\ seen.flat => reply.links \subseteq seen.ever

\* A reader who is shown an article is counted once, as a view of it, and nothing
\* else is: no page but an article's, no preview and no redirect (handlers.go:134-139).
ViewsAreReaders ==
    /\ Answered("article") =>
        viewed = IF req.preview THEN NoViews ELSE [NoViews EXCEPT ![reply.article] = 1]
    /\ Serving("answered") /\ ~Answered("article") /\ ~Answered("error") => viewed = NoViews
    /\ req.preview => viewed = NoViews

\* Without nesting, redirects settle: the one that adds a slash and the one the
\* mapping has are all there are in a row, while the content stays as it is and no
\* rows are lost (handlers.go:148-163).
Settles == ~Nested => hops <= 2

\* A redirect the mapping has leads to a page: LoadLinkTargets loads "where every
\* readable article and section on the site currently lives" (article.go:205).
RedirectsToPage ==
    Answered("redirect") /\ req.slash /\ seen.edits = 0 => reply.to \in Pages \cup seen.ever
=============================================================================
