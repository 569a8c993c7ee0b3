--------------------------- MODULE HelpSiteProofs ---------------------------
(***************************************************************************)
(* What the pages of a help site show, for any helpdesk and any number of  *)
(* edits between the reads of a request, where the run of HelpSite makes   *)
(* one: each page is of what was there, and what stays there is on it.     *)
(***************************************************************************)
EXTENDS HelpSite, SequenceTheorems, FiniteSetTheorems, TLAPS

Served == [at : Stages, path : Paths, slash : BOOLEAN, preview : BOOLEAN,
           section : Articles \cup {None}, article : Articles \cup {None}, links : SUBSET Paths]

Replies == [kind : Kinds, to : Paths, slash : BOOLEAN, prefix : BOOLEAN,
            article : Articles \cup {None}, links : SUBSET Paths]

Histories == [ever : SUBSET Paths, always : SUBSET Paths, readable : SUBSET Articles,
              open : BOOLEAN, shut : BOOLEAN, edits : Nat, cut : BOOLEAN, flat : BOOLEAN]

Typed ==
    /\ TypeOK
    /\ req \in Served /\ reply \in Replies /\ seen \in Histories /\ edits \in Nat
    /\ \A a, b \in Articles : slug[a] = slug[b] => a = b

\* What is as it is has been as it is.
Witnessed ==
    InFlight =>
        /\ Readable \subseteq seen.readable /\ seen.always \subseteq Pages
        /\ available => seen.open
        /\ ~available => seen.shut

InSite == {"sections", "popular", "readable", "results", "section", "articles", "article",
           "targets", "siblings", "view", "unfound"}

\* What a request has at each stage.
Placed ==
    /\ InFlight => viewed = NoViews
    /\ req.at \in InSite /\ ~req.preview => seen.open
    /\ req.at = "sections" => req.path \in {<<>>, <<Sitemap>>}
    /\ req.at = "popular" => req.path = <<>>
    /\ req.at = "readable" => req.path = <<Sitemap>>
    /\ req.at = "results" => req.path = <<SearchSlug>>
    /\ req.at \in {"section", "articles", "article", "targets", "siblings", "view"} =>
        req.path \notin {<<>>, <<Sitemap>>, <<SearchSlug>>}
    /\ req.at = "articles" => Len(req.path) = 1 /\ req.section \in Articles
    /\ req.at = "article" => Len(req.path) = 2 /\ req.section \in Articles
    /\ req.at \in {"targets", "siblings", "view"} =>
        Len(req.path) = 2 /\ req.article \in seen.readable
    /\ req.at = "view" => ~req.preview

\* What is at an address in it for as long as the request takes is in the section
\* that was found: another can't take its slug before it gives it up.
SameSection ==
    req.at \in {"articles", "article"} =>
        \A page \in seen.always : page # <<>> /\ page[1] = req.path[1] => slug[req.section] = req.path[1]

\* A page that is there all the time is not among what wasn't found.
NotLost ==
    req.at = "unfound" => ~(/\ ~seen.cut /\ req.path \in seen.always /\ req.slash
                            /\ req.preview \/ ~seen.shut)

\* The sections that are there all the time are listed by now.
SectionsListed ==
    req.at \in {"popular", "readable"} /\ ~seen.cut =>
        \A page \in seen.always : Len(page) = 1 => page \in req.links

IInv ==
    /\ Typed /\ Witnessed /\ Placed /\ SameSection /\ NotLost /\ SectionsListed
    /\ OnlyReadable /\ AlwaysFound /\ ListsAll /\ ViewsAreReaders

-----------------------------------------------------------------------------
LEMMA PathFacts ==
    /\ <<>> \in Paths /\ <<Sitemap>> \in Paths
    /\ \A s \in Slugs : <<s>> \in Paths
    /\ \A s, t \in Slugs : <<s, t>> \in Paths
    /\ \A path \in Paths \ {<<>>, <<Sitemap>>} :
        /\ path \in Seq(Slugs) /\ Len(path) \in {1, 2}
        /\ path[1] \in Slugs
        /\ Len(path) = 1 => path = <<path[1]>>
        /\ Len(path) = 2 => path = <<path[1], path[2]>> /\ path[2] \in Slugs
<1>1. /\ <<>> \in [1 .. 0 -> Slugs]
      /\ \A s \in Slugs : <<s>> \in [1 .. 1 -> Slugs]
      /\ \A s, t \in Slugs : <<s, t>> \in [1 .. 2 -> Slugs]
  OBVIOUS
<1>2. BoundedSeq(Slugs, 2) = [1 .. 0 -> Slugs] \cup [1 .. 1 -> Slugs] \cup [1 .. 2 -> Slugs]
  <2>1. 0 .. 2 = {0, 1, 2}
    OBVIOUS
  <2> QED
    BY <2>1 DEF BoundedSeq, SeqOf
<1>3. ASSUME NEW path \in Paths \ {<<>>, <<Sitemap>>}
      PROVE  /\ path \in Seq(Slugs) /\ Len(path) \in {1, 2}
             /\ path[1] \in Slugs
             /\ Len(path) = 1 => path = <<path[1]>>
             /\ Len(path) = 2 => path = <<path[1], path[2]>> /\ path[2] \in Slugs
  <2>1. CASE path \in [1 .. 0 -> Slugs]
    <3>1. path \in Seq(Slugs) /\ Len(path) = 0
      BY <2>1
    <3>2. path = <<>>
      BY <3>1
    <3> QED
      BY <3>2
  <2>2. CASE path \in [1 .. 1 -> Slugs]
    <3>1. PICK x \in Slugs : path = <<x>>
      BY <2>2
    <3> QED
      BY <3>1
  <2>3. CASE path \in [1 .. 2 -> Slugs]
    <3>1. PICK x \in Slugs, y \in Slugs : path = <<x, y>>
      BY <2>3
    <3> QED
      BY <3>1
  <2> QED
    BY <1>2, <2>1, <2>2, <2>3 DEF Paths
<1> QED
  BY <1>1, <1>2, <1>3 DEF Paths

\* A page is the home page, that of a section with something readable in it, or
\* that of what is.
LEMMA PageFacts ==
    ASSUME Typed
    PROVE  /\ Pages \subseteq Paths \ {<<Sitemap>>}
           /\ \A a \in Readable : a \in Articles /\ parent[a] \in Articles
           /\ \A page \in Pages \ {<<>>} : \E a \in Readable :
                /\ parent[parent[a]] = None /\ published[parent[a]]
                /\ page[1] = slug[parent[a]]
                /\ Len(page) = 2 => page = <<slug[parent[a]], slug[a]>>
           /\ \A page \in Pages : page = <<>> \/ Len(page) \in {1, 2}
<1>1. ASSUME NEW a \in Readable
      PROVE  /\ a \in Articles /\ parent[a] \in Articles /\ published[parent[a]]
             /\ slug[a] \in Slugs /\ slug[parent[a]] \in Slugs
  BY DEF Readable, Typed, TypeOK
<1>2. ASSUME NEW page \in Pages
      PROVE  \/ page = <<>>
             \/ \E a \in Readable :
                    /\ parent[parent[a]] = None
                    /\ page = <<slug[parent[a]]>> \/ page = <<slug[parent[a]], slug[a]>>
  BY DEF Pages, TwoSlugs
<1>3. ASSUME NEW page \in Pages
      PROVE  page \in Paths \ {<<Sitemap>>}
  BY <1>1, <1>2, PathFacts, NamesAssumption
<1>4. \A s, t \in Slugs : /\ <<s>>[1] = s /\ <<s, t>>[1] = s
                          /\ Len(<<s>>) = 1 /\ Len(<<s, t>>) = 2
  OBVIOUS
<1> QED
  BY <1>1, <1>2, <1>3, <1>4

LEMMA ContentKept ==
    ASSUME UNCHANGED content
    PROVE  /\ Pages' = Pages /\ Readable' = Readable
           /\ parent' = parent /\ slug' = slug /\ published' = published
           /\ available' = available /\ edits' = edits
<1>1. /\ parent' = parent /\ slug' = slug /\ published' = published
      /\ available' = available /\ edits' = edits
  BY DEF content
<1> QED
  BY <1>1 DEF Pages, Readable, TwoSlugs

\* Rows that are lost are all that a read adds to the history.
LEMMA CutKeeps ==
    ASSUME seen \in Histories, NEW rows, NEW set, Cut(rows, set)
    PROVE  /\ seen' \in Histories
           /\ seen'.ever = seen.ever /\ seen'.always = seen.always
           /\ seen'.readable = seen.readable
           /\ seen'.open = seen.open /\ seen'.shut = seen.shut
           /\ ~seen'.cut => ~seen.cut /\ rows = set
BY DEF Cut, Histories

LEMMA NoReplyType == NoReply \in Replies /\ Blank \in Served /\ NoViews \in [Articles -> 0 .. 1]
BY PathFacts DEF NoReply, Replies, Kinds, Blank, Served, Stages, NoViews

\* The history is as it was but for rows that are lost now.
SameHistory ==
    /\ seen' \in Histories
    /\ seen'.ever = seen.ever /\ seen'.always = seen.always /\ seen'.readable = seen.readable
    /\ seen'.open = seen.open /\ seen'.shut = seen.shut
    /\ ~seen'.cut => ~seen.cut

ThereAllTheTime ==
    req.path \in seen.always /\ req.slash /\ (req.preview \/ ~seen.shut)

\* What makes an answer one that may be given.
LEMMA AnswerKeeps ==
    ASSUME IInv, NEW kind \in Kinds, NEW answer \in Replies, Answer(kind, answer),
           UNCHANGED content, SameHistory, answer.slash, viewed' \in [Articles -> 0 .. 1],
           kind = "article" =>
               /\ answer.article \in seen.readable
               /\ viewed' = IF req.preview THEN NoViews ELSE [NoViews EXCEPT ![answer.article] = 1],
           kind \notin {"article", "error"} => viewed' = NoViews,
           req.preview => viewed' = NoViews,
           kind \in {"home", "section", "article", "sitemap", "search"} => req.preview \/ seen.open,
           kind # "error" => seen'.cut \/ ~ThereAllTheTime \/ kind = PageOf(req.path),
           kind \in {"home", "section", "sitemap"} /\ ~seen'.cut =>
               \A page \in seen.always \ {<<>>} :
                   (\/ kind = "sitemap"
                    \/ kind = "home" /\ Len(page) = 1
                    \/ kind = "section" /\ Len(page) = 2 /\ page[1] = req.path[1])
                       => page \in answer.links
    PROVE  IInv'
<1>1. /\ req' \in Served /\ req'.at = "answered" /\ req'.path = req.path
      /\ req'.slash = req.slash /\ req'.preview = req.preview
  BY NoReplyType DEF Answer, IInv, Typed, Served, Stages, Blank
<1>2. /\ reply' \in Replies /\ reply'.kind = kind /\ reply'.article = answer.article
      /\ reply'.links = answer.links /\ reply'.slash = answer.slash /\ reply'.to = answer.to
  BY DEF Answer, Replies
<1>3. Typed'
  <2>1. TypeOK'
    BY <1>1, <1>2, ContentKept DEF IInv, Typed, TypeOK, Served, Replies
  <2> QED
    BY <1>1, <1>2, <2>1, ContentKept DEF IInv, Typed, SameHistory
<1>4. Witnessed' /\ Placed' /\ SameSection' /\ NotLost' /\ SectionsListed'
  BY <1>1 DEF Witnessed, Placed, SameSection, NotLost, SectionsListed, InFlight, InSite
<1>5. OnlyReadable'
  BY <1>1, <1>2 DEF OnlyReadable, ShowsPage, Answered, Serving, SameHistory
<1>6. AlwaysFound'
  <2> SUFFICES ASSUME kind # "error", ~seen'.cut, ThereAllTheTime
               PROVE  kind = PageOf(req.path)
    BY <1>1, <1>2 DEF AlwaysFound, Answered, Serving, SameHistory, ThereAllTheTime, PageOf
  <2> QED
    OBVIOUS
<1>7. ListsAll'
  <2> SUFFICES ASSUME ShowsPage', ~seen'.cut, NEW page \in seen.always \ {<<>>},
                      \/ kind = "sitemap"
                      \/ kind = "home" /\ Len(page) = 1
                      \/ kind = "section" /\ Len(page) = 2 /\ page[1] = req.path[1]
               PROVE  page \in answer.links
    BY <1>1, <1>2 DEF ListsAll, SameHistory
  <2> QED
    OBVIOUS
<1>8. ViewsAreReaders'
  BY <1>1, <1>2 DEF ViewsAreReaders, Answered, Serving, NoViews
<1> QED
  BY <1>3, <1>4, <1>5, <1>6, <1>7, <1>8 DEF IInv

\* What makes a stage of a request one that it may go on with.
LEMMA MoveKeeps ==
    ASSUME IInv, InFlight, UNCHANGED <<content, viewed, reply>>, SameHistory,
           req' \in Served, req'.at \in InSite,
           req'.path = req.path, req'.slash = req.slash, req'.preview = req.preview,
           Placed', SameSection', NotLost', SectionsListed'
    PROVE  IInv'
<1>1. Typed'
  BY ContentKept DEF IInv, Typed, TypeOK, Served, SameHistory
<1>2. Witnessed'
  BY ContentKept DEF IInv, Witnessed, SameHistory, InFlight
<1>3. OnlyReadable' /\ AlwaysFound' /\ ListsAll' /\ ViewsAreReaders'
  <2>1. req'.at # "answered" /\ viewed' = NoViews
    BY DEF InSite, IInv, Placed
  <2> QED
    BY <2>1 DEF OnlyReadable, AlwaysFound, ListsAll, ViewsAreReaders, ShowsPage, Answered,
        Serving, NoViews
<1> QED
  BY <1>1, <1>2, <1>3 DEF IInv

LEMMA CutSame ==
    ASSUME IInv, NEW rows, NEW set, Cut(rows, set)
    PROVE  SameHistory /\ (~seen'.cut => rows = set)
BY CutKeeps DEF IInv, Typed, SameHistory

\* What is at no page's address is not there all the time.
LEMMA NoPageFacts ==
    ASSUME IInv, InFlight, req.path = <<Sitemap>>
    PROVE  ~ThereAllTheTime
<1>1. seen.always \subseteq Pages
  BY DEF IInv, Witnessed
<1> QED
  BY <1>1, PageFacts DEF ThereAllTheTime, IInv

-----------------------------------------------------------------------------
\* What a request has come to so far, by its stage.
LEMMA Here ==
    ASSUME IInv, InFlight
    PROVE  /\ viewed = NoViews /\ viewed \in [Articles -> 0 .. 1]
           /\ req.at \in InSite => req.preview \/ seen.open
           /\ Readable \subseteq seen.readable /\ seen.always \subseteq Pages
           /\ req.at \in Stages /\ req.path \in Paths /\ req.links \subseteq Paths
           /\ req.slash \in BOOLEAN /\ req.preview \in BOOLEAN
BY DEF IInv, Typed, TypeOK, Placed, Witnessed, Served

LEMMA ArriveKeeps ==
    ASSUME IInv, NEW path \in Paths, NEW slash \in BOOLEAN, NEW preview \in BOOLEAN,
           Arrive(path, slash, preview)
    PROVE  IInv'
<1>1. /\ req' \in Served /\ req'.at = "site" /\ req'.path = path
      /\ req'.slash = slash /\ req'.preview = preview
  BY NoReplyType DEF Arrive, Blank, Served, Stages
<1>2. /\ reply' = NoReply /\ viewed' = NoViews /\ reply'.kind = "none" /\ reply'.slash
      /\ reply' \in Replies
  BY NoReplyType DEF Arrive, NoReply
<1>3. UNCHANGED content
  BY DEF Arrive
<1>4. Readable \subseteq Articles /\ Pages \subseteq Paths
  BY PageFacts DEF IInv, Typed, TypeOK, Readable
<1>5. /\ seen' \in Histories
      /\ seen'.always = Pages /\ seen'.readable = Readable
      /\ seen'.open = available /\ seen'.shut = ~available
  BY <1>4 DEF Arrive, Unchanging, Histories, IInv, Typed, TypeOK
<1>6. Typed'
  BY <1>1, <1>2, <1>3, <1>5, ContentKept, NoReplyType
     DEF IInv, Typed, TypeOK, Served, Replies
<1>7. Witnessed'
  BY <1>3, <1>5, ContentKept DEF Witnessed
<1>8. Placed' /\ SameSection' /\ NotLost' /\ SectionsListed'
  BY <1>1, <1>2 DEF Placed, SameSection, NotLost, SectionsListed, InSite, NoViews
<1>9. OnlyReadable' /\ AlwaysFound' /\ ListsAll' /\ ViewsAreReaders'
  BY <1>1, <1>2 DEF OnlyReadable, AlwaysFound, ListsAll, ViewsAreReaders, ShowsPage, Answered,
     Serving, NoViews
<1> QED
  BY <1>6, <1>7, <1>8, <1>9 DEF IInv

LEMMA SiteKeeps == ASSUME IInv, LoadSite PROVE IInv'
<1>1. req.at = "site" /\ InFlight /\ UNCHANGED content /\ viewed' = viewed
  BY DEF LoadSite, Serving, InFlight
<1>2. PICK rows \in Rows({"site"}) :
        /\ Cut(rows, {"site"})
        /\ CASE RefusesPreview(rows) -> Answer("notFound", NoReply)
             [] RefusesVisit(rows) -> Answer("unavailable", NoReply)
             [] OTHER -> IF ~req.slash /\ req.path \notin {<<>>, <<Sitemap>>}
                         THEN Answer("redirect", WithSlash(req.path, req.slash))
                         ELSE Goto(Route(req.path, req.slash, req.preview))
  BY DEF LoadSite
<1>3. SameHistory /\ (~seen'.cut => rows = {"site"})
  BY <1>2, CutSame
<1>4. NoReply.slash /\ WithSlash(req.path, req.slash).slash
  BY DEF NoReply, WithSlash
<1>5. ~available => seen.shut
  BY <1>1 DEF IInv, Witnessed
<1>6. CASE RefusesPreview(rows)
  <2>1. Answer("notFound", NoReply)
    BY <1>2, <1>6 DEF RefusesPreview, RefusesVisit
  <2>2. rows # {"site"}
    BY <1>6 DEF RefusesPreview
  <2>3. seen'.cut
    BY <1>3, <2>2 DEF SameHistory
  <2> QED
    BY <1>1, <1>3, <1>4, <2>1, <2>3, AnswerKeeps, NoReplyType, Here DEF Kinds
<1>7. CASE ~RefusesPreview(rows) /\ RefusesVisit(rows)
  <2>1. Answer("unavailable", NoReply) /\ (seen'.cut \/ ~ThereAllTheTime)
    BY <1>2, <1>3, <1>5, <1>7 DEF RefusesVisit, ThereAllTheTime
  <2> QED
    BY <1>1, <1>3, <1>4, <2>1, AnswerKeeps, NoReplyType, Here DEF Kinds
<1>8. CASE /\ ~RefusesPreview(rows) /\ ~RefusesVisit(rows)
           /\ ~req.slash /\ req.path \notin {<<>>, <<Sitemap>>}
  <2>1. Answer("redirect", WithSlash(req.path, req.slash)) /\ ~ThereAllTheTime
    BY <1>2, <1>8 DEF ThereAllTheTime
  <2>2. WithSlash(req.path, req.slash) \in Replies
    BY <1>1, Here, NoReplyType DEF WithSlash, Replies
  <2> QED
    BY <1>1, <1>3, <1>4, <2>1, <2>2, AnswerKeeps, Here DEF Kinds
<1>9. CASE /\ ~RefusesPreview(rows) /\ ~RefusesVisit(rows)
           /\ req.slash \/ req.path \in {<<>>, <<Sitemap>>}
  <2>1. Goto(Route(req.path, req.slash, req.preview))
    BY <1>2, <1>9
  <2>2. Route(req.path, req.slash, req.preview) \in {"unfound", "sections", "results", "section"}
    BY DEF Route
  <2>3. /\ req' \in Served /\ req'.at = Route(req.path, req.slash, req.preview)
        /\ req'.path = req.path /\ req'.slash = req.slash /\ req'.preview = req.preview
        /\ reply' = reply
    BY <2>1, <2>2 DEF Goto, IInv, Typed, Served, Stages
  <2>4. req.preview \/ seen.open
    BY <1>1, <1>9 DEF RefusesVisit, IInv, Witnessed, Typed, TypeOK
  <2>5. Placed'
    BY <1>1, <1>3, <2>2, <2>3, <2>4, Here DEF Placed, Route, InFlight, SameHistory
  <2>6. SameSection' /\ SectionsListed'
    BY <2>2, <2>3 DEF SameSection, SectionsListed
  <2>7. NotLost'
    <3>1. req'.at = "unfound" => req.path = <<Sitemap>>
      BY <2>3 DEF Route
    <3>2. <<Sitemap>> \notin seen.always
      BY <1>1, Here, PageFacts DEF IInv
    <3> QED
      BY <1>3, <2>3, <3>1, <3>2 DEF NotLost, SameHistory
  <2> QED
    BY <1>1, <1>3, <2>2, <2>3, <2>5, <2>6, <2>7, MoveKeeps DEF InSite
<1> QED
  BY <1>6, <1>7, <1>8, <1>9

\* A section with a page is one of those that aren't empty.
LEMMA SectionListed ==
    ASSUME Typed, NEW page \in Pages, Len(page) = 1
    PROVE  \E s \in NonEmpty : page = <<slug[s]>>
<1>1. page # <<>> /\ page = <<page[1]>>
  BY PageFacts, PathFacts
<1>2. PICK a \in Readable : parent[parent[a]] = None /\ published[parent[a]]
                            /\ page[1] = slug[parent[a]]
  BY <1>1, PageFacts
<1>3. parent[a] \in Sections
  BY <1>2, PageFacts DEF Sections
<1> DEFINE in == {b \in Articles : parent[b] = parent[a] /\ published[b]}
<1>4. a \in in
  BY <1>2 DEF Readable
<1>5. IsFiniteSet(in)
  BY NamesAssumption, FS_Subset
<1>6. Cardinality(in) \in Nat /\ Cardinality(in) # 0
  <2> HIDE DEF in
  <2> QED
    BY <1>4, <1>5, FS_EmptySet, FS_CardinalityType
<1>7. Cardinality(in) > 0
  <2> HIDE DEF in
  <2> QED
    BY <1>6
<1>8. parent[a] \in NonEmpty
  BY <1>3, <1>7 DEF NonEmpty
<1> QED
  BY <1>1, <1>2, <1>8

LEMMA SectionsKeeps == ASSUME IInv, LoadSections PROVE IInv'
<1>1. req.at = "sections" /\ InFlight /\ UNCHANGED <<content, viewed, reply>>
  BY DEF LoadSections, Serving, InFlight
<1>2. PICK rows \in Rows(NonEmpty) :
        /\ Cut(rows, NonEmpty)
        /\ req' = [req EXCEPT !.at = IF req.path = <<>> THEN "popular" ELSE "readable",
                              !.links = {<<slug[s]>> : s \in rows}]
  BY <1>1 DEF LoadSections
<1>3. SameHistory /\ (~seen'.cut => rows = NonEmpty)
  BY <1>2, CutSame
<1>4. {<<slug[s]>> : s \in rows} \subseteq Paths
  <2>1. \A s \in rows : s \in Articles
    BY DEF Rows, NonEmpty, Sections
  <2> QED
    BY <2>1, PathFacts DEF IInv, Typed, TypeOK
<1>5. /\ req' \in Served /\ req'.at \in {"popular", "readable"}
      /\ req'.links = {<<slug[s]>> : s \in rows}
      /\ req'.path = req.path /\ req'.slash = req.slash /\ req'.preview = req.preview
  BY <1>2, <1>4 DEF IInv, Typed, Served, Stages
<1>6. Placed'
  <2>1. req'.at = IF req.path = <<>> THEN "popular" ELSE "readable"
    BY <1>2 DEF IInv, Typed, Served
  <2>2. req.path \in {<<>>, <<Sitemap>>}
    BY <1>1 DEF IInv, Placed
  <2> QED
    BY <1>1, <1>3, <1>5, <2>1, <2>2, Here DEF Placed, InSite, SameHistory
<1>7. SameSection' /\ NotLost'
  BY <1>5 DEF SameSection, NotLost
<1>8. SectionsListed'
  <2> SUFFICES ASSUME ~seen'.cut, NEW page \in seen.always, Len(page) = 1
               PROVE  page \in req'.links
    BY <1>3 DEF SectionsListed, SameHistory
  <2>1. page \in Pages
    BY <1>1, Here
  <2> QED
    BY <1>3, <1>5, <2>1, SectionListed DEF IInv
<1> QED
  BY <1>1, <1>3, <1>5, <1>6, <1>7, <1>8, MoveKeeps DEF InSite

\* the slugs in the addresses of what is readable
LEMMA SlugTypes ==
    ASSUME Typed
    PROVE  /\ \A a \in Articles : slug[a] \in Slugs
           /\ \A a \in Readable : slug[a] \in Slugs /\ slug[parent[a]] \in Slugs
           /\ \A a \in Readable : TwoSlugs(a) \in Paths
<1>1. \A a \in Readable : a \in Articles /\ parent[a] \in Articles
  BY PageFacts
<1> QED
  BY <1>1, PathFacts DEF Typed, TypeOK, TwoSlugs

LEMMA PopularKeeps == ASSUME IInv, LoadPopular PROVE IInv'
<1>1. /\ req.at = "popular" /\ InFlight /\ UNCHANGED <<content, viewed, seen>>
  BY DEF LoadPopular, Serving, InFlight
<1>2. PICK rows \in SUBSET Readable :
        Answer("home", [NoReply EXCEPT !.links = req.links \cup {TwoSlugs(a) : a \in rows}])
  BY DEF LoadPopular
<1> DEFINE links == req.links \cup {TwoSlugs(a) : a \in rows}
           answer == [NoReply EXCEPT !.links = links]
<1>3. links \subseteq Paths /\ req.links \subseteq links
  BY <1>1, Here, SlugTypes DEF IInv
<1> HIDE DEF links
<1>4. answer \in Replies /\ answer.slash /\ answer.links = links
  BY <1>3, NoReplyType DEF Replies, NoReply
<1>5. SameHistory
  BY <1>1 DEF SameHistory, IInv, Typed
<1>6. ~seen'.cut => \A page \in seen.always \ {<<>>} : Len(page) = 1 => page \in answer.links
  BY <1>1, <1>3, <1>4 DEF IInv, SectionsListed
<1>7. Answer("home", answer)
  BY <1>2 DEF links
<1>8. PageOf(req.path) = "home"
  BY <1>1 DEF IInv, Placed, PageOf
<1> HIDE DEF answer
<1> QED
  BY <1>1, <1>4, <1>5, <1>6, <1>7, <1>8, AnswerKeeps, Here DEF Kinds, InSite

LEMMA ResultsKeeps == ASSUME IInv, LoadResults PROVE IInv'
<1>1. /\ req.at = "results" /\ InFlight /\ UNCHANGED <<content, viewed, seen>>
  BY DEF LoadResults, Serving, InFlight
<1>2. PICK rows \in SUBSET Readable :
        Answer("search", [NoReply EXCEPT !.links = {TwoSlugs(a) : a \in rows}])
  BY DEF LoadResults
<1> DEFINE links == {TwoSlugs(a) : a \in rows}
           answer == [NoReply EXCEPT !.links = links]
<1>3. links \subseteq Paths
  BY SlugTypes DEF IInv
<1> HIDE DEF links
<1>4. answer \in Replies /\ answer.slash
  BY <1>3, NoReplyType DEF Replies, NoReply
<1>5. SameHistory
  BY <1>1 DEF SameHistory, IInv, Typed
<1>6. Answer("search", answer)
  BY <1>2 DEF links
<1>7. PageOf(req.path) = "search"
  <2>1. <<SearchSlug>> # <<>>
    OBVIOUS
  <2> QED
    BY <1>1, <2>1 DEF IInv, Placed, PageOf
<1> HIDE DEF answer
<1> QED
  BY <1>1, <1>4, <1>5, <1>6, <1>7, AnswerKeeps, Here DEF Kinds, InSite

LEMMA ReadableKeeps == ASSUME IInv, LoadReadable PROVE IInv'
<1>1. req.at = "readable" /\ InFlight /\ UNCHANGED <<content, viewed>>
  BY DEF LoadReadable, Serving, InFlight
<1>2. PICK rows \in Rows(InSections) :
        /\ Cut(rows, InSections)
        /\ Answer("sitemap", [NoReply EXCEPT
                    !.links = {<<>>} \cup req.links \cup {TwoSlugs(a) : a \in rows}])
  BY DEF LoadReadable
<1> DEFINE links == {<<>>} \cup req.links \cup {TwoSlugs(a) : a \in rows}
           answer == [NoReply EXCEPT !.links = links]
<1>3. SameHistory /\ (~seen'.cut => rows = InSections)
  BY <1>2, CutSame
<1>4. rows \subseteq Readable
  BY DEF Rows, InSections
<1>5. links \subseteq Paths
  BY <1>1, <1>4, Here, SlugTypes, PathFacts DEF IInv
<1>6. ~seen'.cut => \A page \in seen.always : page \in links
  <2> SUFFICES ASSUME ~seen'.cut, NEW page \in seen.always
               PROVE  page \in links
    OBVIOUS
  <2>1. page \in Pages /\ (Len(page) = 1 => page \in req.links)
    BY <1>1, <1>3, Here DEF IInv, SectionsListed, SameHistory
  <2>2. CASE page # <<>> /\ Len(page) = 2
    <3>1. PICK a \in Readable : parent[parent[a]] = None /\ page = TwoSlugs(a)
      BY <2>1, <2>2, PageFacts DEF IInv, TwoSlugs
    <3>2. a \in InSections
      BY <3>1 DEF InSections
    <3> QED
      BY <1>3, <3>1, <3>2
  <2> QED
    BY <2>1, <2>2, PageFacts DEF IInv
<1> HIDE DEF links
<1>7. answer \in Replies /\ answer.slash /\ answer.links = links
  BY <1>5, NoReplyType DEF Replies, NoReply
<1>8. Answer("sitemap", answer)
  BY <1>2 DEF links
<1>9. ~ThereAllTheTime
  BY <1>1, NoPageFacts DEF IInv, Placed
<1> HIDE DEF answer
<1> QED
  BY <1>1, <1>3, <1>6, <1>7, <1>8, <1>9, AnswerKeeps, Here DEF Kinds, InSite

-----------------------------------------------------------------------------
LEMMA SectionKeeps == ASSUME IInv, LoadSection PROVE IInv'
<1> DEFINE found == {s \in Sections : slug[s] = req.path[1]}
<1>1. req.at = "section" /\ InFlight /\ UNCHANGED <<content, viewed, reply>>
  BY DEF LoadSection, Serving, InFlight, Goto
<1>2. PICK rows \in Rows(found) :
        /\ Cut(rows, found)
        /\ \/ rows = {} /\ Goto("unfound")
           \/ \E s \in rows :
                /\ req' = [req EXCEPT !.at = IF Len(req.path) = 1 THEN "articles" ELSE "article",
                                      !.section = s]
                /\ UNCHANGED reply
  BY DEF LoadSection
<1>3. SameHistory /\ (~seen'.cut => rows = found)
  BY <1>2, CutSame
<1>4. req.path \notin {<<>>, <<Sitemap>>, <<SearchSlug>>} /\ req.path \in Paths
  BY <1>1, Here DEF IInv, Placed
<1>5. CASE rows = {} /\ Goto("unfound")
  <2>1. /\ req' \in Served /\ req'.at = "unfound"
        /\ req'.path = req.path /\ req'.slash = req.slash /\ req'.preview = req.preview
    BY <1>5 DEF Goto, IInv, Typed, Served, Stages
  <2>2. ~seen'.cut => req.path \notin seen.always
    <3> SUFFICES ASSUME ~seen'.cut, req.path \in seen.always PROVE FALSE
      OBVIOUS
    <3>1. PICK a \in Readable : /\ parent[parent[a]] = None /\ published[parent[a]]
                                /\ req.path[1] = slug[parent[a]]
      BY <1>1, <1>4, Here, PageFacts DEF IInv
    <3>2. parent[a] \in found
      BY <3>1, PageFacts DEF Sections, IInv
    <3> QED
      BY <1>3, <1>5, <3>2
  <2>3. Placed' /\ SameSection' /\ SectionsListed'
    BY <1>1, <1>3, <2>1, Here DEF Placed, InSite, SameSection, SectionsListed, SameHistory
  <2>4. NotLost'
    BY <1>3, <2>1, <2>2 DEF NotLost, SameHistory
  <2> QED
    BY <1>1, <1>3, <2>1, <2>3, <2>4, MoveKeeps DEF InSite
<1>6. CASE \E s \in rows :
              req' = [req EXCEPT !.at = IF Len(req.path) = 1 THEN "articles" ELSE "article",
                                 !.section = s]
  <2>1. PICK s \in rows :
              req' = [req EXCEPT !.at = IF Len(req.path) = 1 THEN "articles" ELSE "article",
                                 !.section = s]
    BY <1>6
  <2>2. s \in Articles /\ slug[s] = req.path[1]
    BY DEF Rows, Sections
  <2>3. /\ req' \in Served /\ req'.section = s
        /\ req'.at = IF Len(req.path) = 1 THEN "articles" ELSE "article"
        /\ req'.path = req.path /\ req'.slash = req.slash /\ req'.preview = req.preview
    BY <2>1, <2>2 DEF IInv, Typed, Served, Stages
  <2>4. Len(req.path) \in {1, 2}
    BY <1>4, PathFacts
  <2>5. Placed'
    BY <1>1, <1>3, <1>4, <2>2, <2>3, <2>4, Here DEF Placed, InSite, SameHistory
  <2>6. SameSection'
    BY <1>1, <2>2, <2>3, ContentKept DEF SameSection
  <2>7. NotLost' /\ SectionsListed'
    BY <2>3 DEF NotLost, SectionsListed
  <2> QED
    BY <1>1, <1>3, <2>3, <2>5, <2>6, <2>7, MoveKeeps DEF InSite
<1> QED
  BY <1>2, <1>5, <1>6

\* What is on a page that is there all the time is among what is listed in the
\* section that was found.
LEMMA InSection ==
    ASSUME IInv, req.at \in {"articles", "article"}, NEW page \in seen.always,
           page # <<>>, page[1] = req.path[1]
    PROVE  \E a \in Listed(req.section) : Len(page) = 2 => page = <<req.path[1], slug[a]>>
<1>1. page \in Pages /\ req.section \in Articles
  BY Here DEF InFlight, IInv, Placed
<1>2. PICK a \in Readable : /\ parent[parent[a]] = None /\ page[1] = slug[parent[a]]
                            /\ Len(page) = 2 => page = <<slug[parent[a]], slug[a]>>
  BY <1>1, PageFacts DEF IInv
<1>3. slug[req.section] = req.path[1] /\ parent[a] \in Articles
  BY PageFacts DEF IInv, SameSection
<1>4. parent[a] = req.section
  BY <1>1, <1>2, <1>3 DEF IInv, Typed
<1> QED
  BY <1>2, <1>4 DEF Listed

\* the addresses in the section that was asked for
LEMMA LinkTypes ==
    ASSUME Typed, req.path \notin {<<>>, <<Sitemap>>}, NEW rows \in SUBSET Readable
    PROVE  LinksTo(rows) \subseteq Paths /\ <<req.path[1]>> \in Paths
<1>1. req.path[1] \in Slugs
  BY PathFacts DEF Typed, TypeOK
<1> QED
  BY <1>1, SlugTypes, PathFacts DEF LinksTo

LEMMA ArticlesKeeps == ASSUME IInv, LoadArticles PROVE IInv'
<1>1. req.at = "articles" /\ InFlight /\ UNCHANGED <<content, viewed>>
  BY DEF LoadArticles, Serving, InFlight
<1>2. PICK rows \in Rows(Listed(req.section)) :
        /\ Cut(rows, Listed(req.section))
        /\ \/ rows = {} /\ Goto("unfound")
           \/ rows # {} /\ Answer("section", [NoReply EXCEPT !.links = LinksTo(rows)])
  BY DEF LoadArticles
<1>3. SameHistory /\ (~seen'.cut => rows = Listed(req.section))
  BY <1>2, CutSame
<1>4. req.path \notin {<<>>, <<Sitemap>>, <<SearchSlug>>} /\ Len(req.path) = 1
  BY <1>1 DEF IInv, Placed
<1>5. CASE rows = {} /\ Goto("unfound")
  <2>1. /\ req' \in Served /\ req'.at = "unfound" /\ reply' = reply
        /\ req'.path = req.path /\ req'.slash = req.slash /\ req'.preview = req.preview
    BY <1>5 DEF Goto, IInv, Typed, Served, Stages
  <2>2. ~seen'.cut => req.path \notin seen.always
    BY <1>1, <1>3, <1>4, <1>5, InSection
  <2>3. Placed' /\ SameSection' /\ SectionsListed'
    BY <1>1, <1>3, <2>1, Here DEF Placed, InSite, SameSection, SectionsListed, SameHistory
  <2>4. NotLost'
    BY <1>3, <2>1, <2>2 DEF NotLost, SameHistory
  <2> QED
    BY <1>1, <1>3, <2>1, <2>3, <2>4, MoveKeeps DEF InSite
<1>6. CASE Answer("section", [NoReply EXCEPT !.links = LinksTo(rows)])
  <2> DEFINE answer == [NoReply EXCEPT !.links = LinksTo(rows)]
  <2>1. LinksTo(rows) \subseteq Paths
    BY <1>4, LinkTypes DEF IInv, Rows, Listed
  <2>2. answer \in Replies /\ answer.slash /\ answer.links = LinksTo(rows)
    BY <2>1, NoReplyType DEF Replies, NoReply
  <2>3. ASSUME ~seen'.cut, NEW page \in seen.always \ {<<>>},
               Len(page) = 2, page[1] = req.path[1]
        PROVE  page \in LinksTo(rows)
    BY <1>1, <1>3, <2>3, InSection DEF LinksTo
  <2>4. Answer("section", answer)
    BY <1>6
  <2>5. PageOf(req.path) = "section"
    BY <1>4 DEF PageOf
  <2> HIDE DEF answer
  <2> QED
    BY <1>1, <1>3, <2>2, <2>3, <2>4, <2>5, AnswerKeeps, Here DEF Kinds, InSite
<1> QED
  BY <1>2, <1>5, <1>6

LEMMA ArticleKeeps == ASSUME IInv, LoadArticle PROVE IInv'
<1> DEFINE found == {a \in Listed(req.section) : slug[a] = req.path[2]}
<1>1. req.at = "article" /\ InFlight /\ UNCHANGED <<content, viewed, reply>>
  BY DEF LoadArticle, Serving, InFlight, Goto
<1>2. PICK rows \in Rows(found) :
        /\ Cut(rows, found)
        /\ \/ rows = {} /\ Goto("unfound")
           \/ \E a \in rows : req' = [req EXCEPT !.at = "targets", !.article = a]
  BY DEF LoadArticle
<1>3. SameHistory /\ (~seen'.cut => rows = found)
  BY <1>2, CutSame
<1>4. req.path \notin {<<>>, <<Sitemap>>, <<SearchSlug>>} /\ Len(req.path) = 2
  BY <1>1 DEF IInv, Placed
<1>5. CASE rows = {} /\ Goto("unfound")
  <2>1. /\ req' \in Served /\ req'.at = "unfound"
        /\ req'.path = req.path /\ req'.slash = req.slash /\ req'.preview = req.preview
    BY <1>5 DEF Goto, IInv, Typed, Served, Stages
  <2>2. ~seen'.cut => req.path \notin seen.always
    <3> SUFFICES ASSUME ~seen'.cut, req.path \in seen.always PROVE FALSE
      OBVIOUS
    <3>1. PICK a \in Listed(req.section) : req.path = <<req.path[1], slug[a]>>
      BY <1>1, <1>4, InSection
    <3>2. a \in found
      BY <3>1
    <3> QED
      BY <1>3, <1>5, <3>2
  <2>3. Placed' /\ SameSection' /\ SectionsListed'
    BY <1>1, <1>3, <2>1, Here DEF Placed, InSite, SameSection, SectionsListed, SameHistory
  <2>4. NotLost'
    BY <1>3, <2>1, <2>2 DEF NotLost, SameHistory
  <2> QED
    BY <1>1, <1>3, <2>1, <2>3, <2>4, MoveKeeps DEF InSite
<1>6. CASE \E a \in rows : req' = [req EXCEPT !.at = "targets", !.article = a]
  <2>1. PICK a \in rows : req' = [req EXCEPT !.at = "targets", !.article = a]
    BY <1>6
  <2>2. a \in Articles /\ a \in seen.readable
    BY <1>1, Here DEF Rows, Listed, Readable
  <2>3. /\ req' \in Served /\ req'.article = a /\ req'.at = "targets"
        /\ req'.path = req.path /\ req'.slash = req.slash /\ req'.preview = req.preview
    BY <2>1, <2>2 DEF IInv, Typed, Served, Stages
  <2>4. Placed'
    BY <1>1, <1>3, <1>4, <2>2, <2>3, Here DEF Placed, InSite, SameHistory
  <2>5. SameSection' /\ NotLost' /\ SectionsListed'
    BY <2>3 DEF SameSection, NotLost, SectionsListed
  <2> QED
    BY <1>1, <1>3, <2>3, <2>4, <2>5, MoveKeeps DEF InSite
<1> QED
  BY <1>2, <1>5, <1>6

LEMMA TargetTypes ==
    ASSUME Typed, NEW rows \in SUBSET Readable, NEW targets \in LinkTargets(rows),
           NEW x \in DOMAIN targets
    PROVE  targets[x] \in Paths
<1> DEFINE over == {parent[a] : a \in rows}
<1>1. PICK late \in SUBSET (rows \cap over) :
        targets = [y \in rows \cup over |-> IF y \in rows \ late THEN TwoSlugs(y) ELSE <<slug[y]>>]
  BY DEF LinkTargets
<1>2. x \in rows \cup over
  BY <1>1
<1>3. x \in Articles
  BY <1>2, PageFacts
<1>4. (targets[x] = TwoSlugs(x) /\ x \in Readable) \/ targets[x] = <<slug[x]>>
  BY <1>1, <1>2
<1> QED
  BY <1>3, <1>4, SlugTypes, PathFacts

LEMMA TargetsKeeps == ASSUME IInv, LoadLinkTargets PROVE IInv'
<1>1. req.at = "targets" /\ InFlight /\ UNCHANGED <<content, viewed, reply>>
  BY DEF LoadLinkTargets, Serving, InFlight
<1>2. PICK rows \in Rows(Readable) :
        /\ Cut(rows, Readable)
        /\ \E targets \in LinkTargets(rows) :
            req' = [req EXCEPT !.at = "siblings",
                               !.links = {<<req.path[1]>>} \cup {targets[x] : x \in DOMAIN targets}]
  BY <1>1 DEF LoadLinkTargets
<1>3. PICK targets \in LinkTargets(rows) :
            req' = [req EXCEPT !.at = "siblings",
                               !.links = {<<req.path[1]>>} \cup {targets[x] : x \in DOMAIN targets}]
  BY <1>2
<1>4. SameHistory
  BY <1>2, CutSame
<1>5. req.path \notin {<<>>, <<Sitemap>>, <<SearchSlug>>}
  BY <1>1, Here DEF IInv, Placed
<1>6. <<req.path[1]>> \in Paths
  BY <1>5, LinkTypes DEF IInv
<1>7. {targets[x] : x \in DOMAIN targets} \subseteq Paths
  BY TargetTypes DEF IInv, Rows
<1>8. /\ req' \in Served /\ req'.article = req.article /\ req'.at = "siblings"
      /\ req'.path = req.path /\ req'.slash = req.slash /\ req'.preview = req.preview
  BY <1>3, <1>6, <1>7 DEF IInv, Typed, Served, Stages
<1>9. Placed'
  BY <1>1, <1>4, <1>8, Here DEF Placed, InSite, SameHistory, IInv
<1>10. SameSection' /\ NotLost' /\ SectionsListed'
  BY <1>8 DEF SameSection, NotLost, SectionsListed
<1> QED
  BY <1>1, <1>4, <1>8, <1>9, <1>10, MoveKeeps DEF InSite

LEMMA SiblingsKeeps == ASSUME IInv, LoadSiblings PROVE IInv'
<1>1. req.at = "siblings" /\ InFlight /\ UNCHANGED <<content, viewed>>
  BY DEF LoadSiblings, Serving, InFlight
<1>2. PICK rows \in Rows(Listed(req.section)) :
        /\ Cut(rows, Listed(req.section))
        /\ IF IsReader
           THEN req' = [req EXCEPT !.at = "view", !.links = @ \cup LinksTo(rows)] /\ UNCHANGED reply
           ELSE Answer("article", [NoReply EXCEPT !.article = req.article,
                                                  !.links = req.links \cup LinksTo(rows)])
  BY DEF LoadSiblings
<1>3. SameHistory
  BY <1>2, CutSame
<1>4. /\ req.path \notin {<<>>, <<Sitemap>>, <<SearchSlug>>} /\ Len(req.path) = 2
      /\ req.article \in seen.readable /\ req.article \in Articles
  BY <1>1, Here DEF IInv, Placed, Typed, Histories
<1> DEFINE links == req.links \cup LinksTo(rows)
<1>5. links \subseteq Paths
  <2>1. req.path \notin {<<>>, <<Sitemap>>}
    BY <1>4
  <2>2. rows \in SUBSET Readable
    BY DEF Rows, Listed
  <2>3. LinksTo(rows) \subseteq Paths
    BY <2>1, <2>2, LinkTypes DEF IInv
  <2> QED
    BY <1>1, <2>3, Here
<1> HIDE DEF links
<1>6. CASE IsReader
  <2>1. /\ req' \in Served /\ req'.article = req.article /\ req'.at = "view"
        /\ req'.path = req.path /\ req'.slash = req.slash /\ req'.preview = req.preview
        /\ reply' = reply
    <3>1. req' = [req EXCEPT !.at = "view", !.links = links] /\ reply' = reply
      BY <1>2, <1>6 DEF links
    <3> QED
      BY <1>5, <3>1 DEF IInv, Typed, Served, Stages
  <2>2. Placed'
    BY <1>1, <1>3, <1>4, <1>6, <2>1, Here DEF Placed, InSite, SameHistory, IsReader
  <2>3. SameSection' /\ NotLost' /\ SectionsListed'
    BY <2>1 DEF SameSection, NotLost, SectionsListed
  <2> QED
    BY <1>1, <1>3, <2>1, <2>2, <2>3, MoveKeeps DEF InSite
<1>7. CASE ~IsReader
  <2> DEFINE answer == [NoReply EXCEPT !.article = req.article, !.links = links]
  <2>1. answer \in Replies /\ answer.slash /\ answer.article = req.article
    BY <1>4, <1>5, NoReplyType DEF Replies, NoReply
  <2>2. Answer("article", answer)
    BY <1>2, <1>7 DEF links
  <2>3. PageOf(req.path) = "article"
    <3>1. req.path # <<>> /\ req.path # <<SearchSlug>>
      BY <1>4
    <3>2. Len(req.path) # 1
      BY <1>4
    <3> QED
      BY <3>1, <3>2 DEF PageOf
  <2> HIDE DEF answer
  <2> QED
    BY <1>1, <1>3, <1>4, <1>7, <2>1, <2>2, <2>3, AnswerKeeps, Here DEF Kinds, InSite, IsReader
<1> QED
  BY <1>6, <1>7

LEMMA ViewKeeps == ASSUME IInv, RecordArticleView PROVE IInv'
<1>1. /\ req.at = "view" /\ InFlight /\ UNCHANGED <<content, seen>>
      /\ viewed' = [viewed EXCEPT ![req.article] = @ + 1]
  BY DEF RecordArticleView, Serving, InFlight
<1>2. SameHistory
  BY <1>1 DEF SameHistory, IInv, Typed
<1>3. /\ req.article \in seen.readable /\ req.article \in Articles /\ ~req.preview
      /\ viewed = NoViews
  BY <1>1, Here DEF IInv, Placed, Typed, Histories
<1>4. /\ viewed' = [NoViews EXCEPT ![req.article] = 1]
      /\ viewed' \in [Articles -> 0 .. 1]
  <2>1. NoViews[req.article] + 1 = 1
    BY <1>3 DEF NoViews
  <2>2. viewed' = [NoViews EXCEPT ![req.article] = 1]
    BY <1>1, <1>3, <2>1
  <2> QED
    BY <1>3, <2>2, NoReplyType
<1>5. CASE Answer("article", [NoReply EXCEPT !.article = req.article, !.links = req.links])
  <2> DEFINE answer == [NoReply EXCEPT !.article = req.article, !.links = req.links]
  <2>1. answer \in Replies /\ answer.slash /\ answer.article = req.article
    BY <1>1, <1>3, Here, NoReplyType DEF Replies, NoReply
  <2>2. Answer("article", answer)
    BY <1>5
  <2>3. PageOf(req.path) = "article"
    BY <1>1 DEF IInv, Placed, PageOf
  <2> HIDE DEF answer
  <2> QED
    BY <1>1, <1>2, <1>3, <1>4, <2>1, <2>2, <2>3, AnswerKeeps, Here DEF Kinds, InSite
<1>6. CASE Answer("error", NoReply)
  <2>1. NoReply.slash
    BY DEF NoReply
  <2> QED
    BY <1>1, <1>2, <1>3, <1>4, <1>6, <2>1, AnswerKeeps, NoReplyType DEF Kinds
<1> QED
  BY <1>5, <1>6 DEF RecordArticleView

LEMMA FailedKeeps == ASSUME IInv, ReadFailed PROVE IInv'
<1>1. InFlight /\ Answer("error", NoReply) /\ UNCHANGED <<content, viewed, seen>> /\ NoReply.slash
  BY DEF ReadFailed, NoReply
<1>2. SameHistory
  BY <1>1 DEF SameHistory, IInv, Typed
<1> QED
  BY <1>1, <1>2, AnswerKeeps, NoReplyType, Here DEF Kinds

LEMMA RedirectTypes ==
    ASSUME Typed, NEW rows \in SUBSET Readable, NEW targets \in LinkTargets(rows), NEW path
    PROVE  GetRedirect(path, targets) \subseteq Paths
BY TargetTypes, PathFacts DEF GetRedirect

LEMMA RedirectKeeps == ASSUME IInv, FindRedirect PROVE IInv'
<1>1. req.at = "unfound" /\ InFlight /\ UNCHANGED <<content, viewed>>
  BY DEF FindRedirect, Serving, InFlight
<1>2. PICK rows \in Rows(Readable) :
        /\ Cut(rows, Readable)
        /\ \E targets \in LinkTargets(rows) :
            LET found == GetRedirect(req.path, targets)
            IN  IF found = {} THEN Answer("notFound", NoReply)
                ELSE \E to \in found :
                        Answer("redirect", [NoReply EXCEPT !.to = to, !.prefix = req.preview])
  BY DEF FindRedirect
<1>3. SameHistory
  BY <1>2, CutSame
<1>4. seen'.cut \/ ~ThereAllTheTime
  BY <1>1, <1>3 DEF IInv, NotLost, SameHistory, ThereAllTheTime
<1>5. CASE Answer("notFound", NoReply)
  <2>1. NoReply.slash
    BY DEF NoReply
  <2> QED
    BY <1>1, <1>3, <1>4, <1>5, <2>1, AnswerKeeps, NoReplyType, Here DEF Kinds
<1>6. ASSUME NEW to \in Paths, Answer("redirect", [NoReply EXCEPT !.to = to, !.prefix = req.preview])
      PROVE  IInv'
  <2> DEFINE answer == [NoReply EXCEPT !.to = to, !.prefix = req.preview]
  <2>1. answer \in Replies /\ answer.slash
    BY <1>1, Here, NoReplyType DEF Replies, NoReply
  <2>2. Answer("redirect", answer)
    BY <1>6
  <2> HIDE DEF answer
  <2> QED
    BY <1>1, <1>3, <1>4, <2>1, <2>2, AnswerKeeps, Here DEF Kinds
<1> QED
  BY <1>2, <1>5, <1>6, RedirectTypes DEF IInv, Rows

-----------------------------------------------------------------------------
\* An edit changes what there is, and what has been with it.
LEMMA EditKeeps ==
    ASSUME IInv, Edited, parent' \in [Articles -> Articles \cup {None}],
           slug' \in [Articles -> Slugs], published' \in [Articles -> BOOLEAN],
           available' \in BOOLEAN, \A a, b \in Articles : slug'[a] = slug'[b] => a = b,
           \/ slug' = slug
           \/ \E a \in Articles : \A b \in Articles \ {a} : slug'[b] = slug[b]
    PROVE  IInv'
<1>1. UNCHANGED <<req, reply, viewed>> /\ edits' = edits + 1
  BY DEF Edited
<1>2. CASE ~InFlight
  <2>1. seen' = seen
    BY <1>2 DEF Edited
  <2>2. req.at \in {"idle", "answered"}
    BY <1>2 DEF InFlight
  <2>3. Typed'
    BY <1>1, <2>1 DEF IInv, Typed, TypeOK
  <2>4. Witnessed' /\ Placed' /\ SameSection' /\ NotLost' /\ SectionsListed'
    BY <1>1, <2>2 DEF Witnessed, InFlight, Placed, InSite, SameSection, NotLost, SectionsListed
  <2>5. OnlyReadable' /\ AlwaysFound' /\ ListsAll' /\ ViewsAreReaders'
    BY <1>1, <2>1 DEF IInv, OnlyReadable, AlwaysFound, ListsAll, ViewsAreReaders, ShowsPage,
        Answered, Serving
  <2> QED
    BY <2>3, <2>4, <2>5 DEF IInv
<1>3. CASE InFlight
  <2>1. seen' = [seen EXCEPT !.ever = @ \cup Pages', !.always = @ \cap Pages',
                             !.readable = @ \cup Readable', !.edits = @ + 1,
                             !.open = @ \/ available', !.shut = @ \/ ~available',
                             !.flat = @ /\ ~Nested']
    BY <1>3 DEF Edited
  <2>2. TypeOK' /\ req' \in Served /\ reply' \in Replies /\ edits' \in Nat
    BY <1>1 DEF IInv, Typed, TypeOK
  <2>3. Readable' \subseteq Articles
    BY DEF Readable
  <2>4. \A a \in Readable' : /\ slug'[a] \in Slugs /\ parent'[a] \in Articles
                             /\ slug'[parent'[a]] \in Slugs
    BY DEF Readable
  <2>5. Pages' \subseteq Paths
    BY <2>4, PathFacts DEF Pages, TwoSlugs
  <2>6. /\ seen' \in Histories
        /\ seen'.always = seen.always \cap Pages' /\ seen'.readable = seen.readable \cup Readable'
        /\ seen'.open = (seen.open \/ available') /\ seen'.shut = (seen.shut \/ ~available')
        /\ seen'.cut = seen.cut
    <3>1. /\ seen.open \in BOOLEAN /\ seen.shut \in BOOLEAN /\ seen.flat \in BOOLEAN
          /\ seen.cut \in BOOLEAN /\ seen.edits + 1 \in Nat
          /\ seen.ever \subseteq Paths /\ seen.always \subseteq Paths
          /\ seen.readable \subseteq Articles
      BY DEF IInv, Typed, Histories
    <3>2. seen' = [ever |-> seen.ever \cup Pages', always |-> seen.always \cap Pages',
                   readable |-> seen.readable \cup Readable',
                   open |-> seen.open \/ available', shut |-> seen.shut \/ ~available',
                   edits |-> seen.edits + 1, cut |-> seen.cut, flat |-> seen.flat /\ ~Nested']
      BY <2>1 DEF IInv, Typed, Histories
    <3>3. /\ (seen.open \/ available') \in BOOLEAN /\ (seen.shut \/ ~available') \in BOOLEAN
          /\ (seen.flat /\ ~Nested') \in BOOLEAN
      OBVIOUS
    <3>4. seen' \in Histories
      BY <2>3, <2>5, <3>1, <3>2, <3>3 DEF Histories
    <3> QED
      BY <3>2, <3>4
  <2>7. Typed'
    BY <2>2, <2>6 DEF Typed
  <2>8. Witnessed'
    BY <2>6 DEF Witnessed
  <2>9. Placed' /\ NotLost' /\ SectionsListed'
    BY <1>1, <1>3, <2>6 DEF IInv, Typed, Histories, Placed, NotLost, SectionsListed, InFlight
  <2>10. SameSection'
    <3> SUFFICES ASSUME req.at \in {"articles", "article"}, NEW page \in seen'.always,
                        page # <<>>, page[1] = req.path[1]
                 PROVE  slug'[req.section] = req.path[1]
      BY <1>1 DEF SameSection
    <3>1. page \in seen.always /\ page \in Pages'
      BY <2>6
    <3>2. slug[req.section] = req.path[1] /\ req.section \in Articles
      BY <3>1 DEF IInv, SameSection, Placed
    <3>3. PICK a \in Readable' : page[1] = slug'[parent'[a]]
      <4>1. \A s, t \in Slugs : <<s>>[1] = s /\ <<s, t>>[1] = s
        OBVIOUS
      <4>2. PICK a \in Readable' : \/ page = <<slug'[parent'[a]]>>
                                   \/ page = <<slug'[parent'[a]], slug'[a]>>
        BY <3>1 DEF Pages, TwoSlugs
      <4> QED
        BY <2>4, <4>1, <4>2
    <3>4. parent'[a] \in Articles /\ slug'[parent'[a]] = req.path[1]
      BY <2>4, <3>3
    <3>5. CASE slug' = slug
      BY <3>2, <3>5
    <3>6. CASE \E b \in Articles : \A c \in Articles \ {b} : slug'[c] = slug[c]
      <4>1. PICK b \in Articles : \A c \in Articles \ {b} : slug'[c] = slug[c]
        BY <3>6
      <4>2. CASE req.section # b
        BY <3>2, <4>1, <4>2
      <4>3. CASE req.section = b
        \* whoever has the slug now had it before, unless it is the section itself
        <5>1. parent'[a] # b => slug[parent'[a]] = slug[b]
          BY <3>2, <3>4, <4>1, <4>3
        <5> QED
          BY <3>4, <4>3, <5>1 DEF IInv, Typed
      <4> QED
        BY <4>2, <4>3
    <3> QED
      BY <3>5, <3>6
  <2>11. OnlyReadable' /\ AlwaysFound' /\ ListsAll' /\ ViewsAreReaders'
    <3>1. req'.at # "answered" /\ viewed' = NoViews
      BY <1>1, <1>3, Here DEF InFlight
    <3> QED
      BY <3>1 DEF OnlyReadable, AlwaysFound, ListsAll, ViewsAreReaders, ShowsPage, PageOf,
          Answered, Serving, NoViews
  <2> QED
    BY <2>7, <2>8, <2>9, <2>10, <2>11 DEF IInv
<1> QED
  BY <1>2, <1>3

LEMMA EditsKeep ==
    ASSUME IInv,
           \/ \E a \in Articles : Publish(a) \/ \E s \in Slugs : Retitle(a, s)
           \/ \E a \in Articles, p \in Articles \cup {None} : Refile(a, p)
           \/ Enable
    PROVE  IInv'
<1> USE DEF IInv, Typed, TypeOK
<1>1. CASE \E a \in Articles : Publish(a)
  BY <1>1, EditKeeps DEF Publish
<1>2. CASE \E a \in Articles, s \in Slugs : Retitle(a, s)
  <2>1. PICK a \in Articles, s \in Slugs : Retitle(a, s)
    BY <1>2
  <2>2. /\ slug' = [slug EXCEPT ![a] = s] /\ \A b \in Articles : slug[b] # s
        /\ UNCHANGED <<parent, published, available>> /\ Edited
    BY <2>1 DEF Retitle
  <2>3. \A b, c \in Articles : slug'[b] = slug'[c] => b = c
    BY <2>2
  <2> QED
    BY <2>2, <2>3, EditKeeps
<1>3. CASE \E a \in Articles, p \in Articles \cup {None} : Refile(a, p)
  BY <1>3, EditKeeps DEF Refile
<1>4. CASE Enable
  BY <1>4, EditKeeps DEF Enable
<1> QED
  BY <1>1, <1>2, <1>3, <1>4

-----------------------------------------------------------------------------
LEMMA InitKeeps == Init => IInv
<1> SUFFICES ASSUME Init PROVE IInv
  OBVIOUS
<1>1. /\ parent \in [Articles -> Articles \cup {None}] /\ slug \in [Articles -> Slugs]
      /\ published \in [Articles -> BOOLEAN] /\ available \in BOOLEAN
      /\ \A a, b \in Articles : slug[a] = slug[b] => a = b
  BY SluggedAssumption DEF Init, Injection, IsInjective
<1>2. Readable \subseteq Articles
  BY DEF Readable
<1>3. \A a \in Readable : slug[a] \in Slugs /\ parent[a] \in Articles /\ slug[parent[a]] \in Slugs
  BY <1>1 DEF Readable
<1>4. Pages \subseteq Paths
  BY <1>3, PathFacts DEF Pages, TwoSlugs
<1>5. seen \in Histories /\ seen.readable = Readable
  BY <1>1, <1>2, <1>4 DEF Init, Unchanging, Histories
<1>6. /\ req \in Served /\ reply \in Replies /\ req.at = "idle" /\ reply.kind = "none" /\ reply.slash
      /\ viewed = NoViews /\ edits = 0
  BY NoReplyType DEF Init, Blank, NoReply
<1>7. Typed
  BY <1>1, <1>5, <1>6, NoReplyType DEF Typed, TypeOK, Served, Replies
<1> QED
  BY <1>6, <1>7 DEF IInv, Witnessed, InFlight, Placed, InSite, SameSection, NotLost, SectionsListed,
     OnlyReadable, AlwaysFound, ListsAll, ViewsAreReaders, ShowsPage, Answered, Serving

LEMMA Inductive == Spec => []IInv
<1>1. IInv /\ [Next]_vars => IInv'
  <2> SUFFICES ASSUME IInv, [Next]_vars PROVE IInv'
    OBVIOUS
  <2>1. CASE \E path \in Paths, slash \in BOOLEAN, preview \in Previews : Visit(path, slash, preview)
    BY <2>1, ArriveKeeps, BoundsAssumption DEF Visit
  <2>2. CASE Follow
    <3>1. Arrive(reply.to, reply.slash, req.preview)
      BY <2>2 DEF Follow
    <3>2. reply.to \in Paths /\ reply.slash \in BOOLEAN /\ req.preview \in BOOLEAN
      BY DEF IInv, Typed, Replies, Served
    <3> QED
      BY <3>1, <3>2, ArriveKeeps
  <2>3. CASE \/ \E a \in Articles : Publish(a) \/ \E s \in Slugs : Retitle(a, s)
             \/ \E a \in Articles, p \in Articles \cup {None} : Refile(a, p)
             \/ Enable
    BY <2>3, EditsKeep
  <2>4. CASE UNCHANGED vars
    <3>1. UNCHANGED content /\ UNCHANGED <<req, reply, viewed, seen>>
      BY <2>4 DEF vars
    <3> QED
      BY <3>1, ContentKept DEF IInv, Typed, TypeOK, Witnessed, InFlight, Placed, SameSection,
         NotLost, SectionsListed, OnlyReadable, AlwaysFound, ListsAll, ViewsAreReaders,
         ShowsPage, Answered, Serving, NoViews
  <2> QED
    BY <2>1, <2>2, <2>3, <2>4, SiteKeeps, SectionsKeeps, PopularKeeps, ReadableKeeps,
       ResultsKeeps, SectionKeeps, ArticlesKeeps, ArticleKeeps, TargetsKeeps, SiblingsKeeps, ViewKeeps,
       RedirectKeeps, FailedKeeps DEF Next
<1> QED
  BY <1>1, InitKeeps, PTL DEF Spec

-----------------------------------------------------------------------------
\* What links to pages: every address a page has so far was one, unless an edit fell
\* between the reads and another has followed it.
Linked ==
    InFlight =>
        /\ Pages \subseteq seen.ever
        /\ seen.flat => ~Nested
        /\ seen.flat /\ seen.edits <= 1 => req.links \subseteq seen.ever

\* The section that was found has the slug that was asked for until an edit; what is
\* in it was at an address under that slug while the edit is the only one.
Within ==
    req.at \in {"articles", "article", "targets", "siblings"} =>
        /\ req.section \in Articles
        /\ seen.edits = 0 => slug[req.section] = req.path[1]
        /\ seen.flat /\ seen.edits <= 1 =>
            /\ \A a \in Listed(req.section) :
                <<req.path[1]>> \in seen.ever /\ <<req.path[1], slug[a]>> \in seen.ever
            /\ req.at = "targets" => <<req.path[1]>> \in seen.ever

LInv == Linked /\ Within /\ LinksHold

\* Without nesting, what is readable is a page, and so is what it is in.
LEMMA FlatPages ==
    ASSUME Typed, ~Nested
    PROVE  /\ \A a \in Readable : /\ parent[parent[a]] = None
                                  /\ TwoSlugs(a) \in Pages /\ <<slug[parent[a]]>> \in Pages
           /\ <<>> \in Pages
<1>1. ASSUME NEW a \in Readable
      PROVE  a \in Articles /\ parent[a] # None /\ parent[parent[a]] = None
  <2>1. a \in Articles /\ parent[a] # None
    BY DEF Readable
  <2> QED
    BY <2>1 DEF Nested
<1> QED
  BY <1>1 DEF Pages

\* A section that isn't empty has a page.
LEMMA NonEmptyPages ==
    ASSUME Typed, NEW s \in NonEmpty
    PROVE  s \in Articles /\ <<slug[s]>> \in Pages
<1> DEFINE in == {a \in Articles : parent[a] = s /\ published[a]}
<1>1. s \in Articles /\ published[s] /\ parent[s] = None /\ Cardinality(in) > 0
  BY DEF NonEmpty, Sections
<1>2. in # {}
  <2> HIDE DEF in
  <2> QED
    BY <1>1, FS_EmptySet
<1>3. PICK a \in Articles : parent[a] = s /\ published[a]
  BY <1>2
<1>4. a \in Readable /\ parent[parent[a]] = None
  BY <1>1, <1>3, NamesAssumption DEF Readable
<1>5. <<slug[parent[a]]>> \in Pages
  BY <1>4 DEF Pages
<1> QED
  BY <1>1, <1>3, <1>5

\* Without nesting, the addresses LoadLinkTargets has are of pages, whatever rows
\* there are of what is readable.
LEMMA TargetPages ==
    ASSUME Typed, ~Nested, NEW rows \in SUBSET Readable, NEW targets \in LinkTargets(rows),
           NEW x \in DOMAIN targets
    PROVE  targets[x] \in Pages
<1> DEFINE over == {parent[a] : a \in rows}
<1>1. PICK late \in SUBSET (rows \cap over) :
        targets = [y \in rows \cup over |-> IF y \in rows \ late THEN TwoSlugs(y) ELSE <<slug[y]>>]
  BY DEF LinkTargets
<1>2. x \in rows \cup over
  BY <1>1
<1>3. CASE x \in rows \ late
  <2>1. targets[x] = TwoSlugs(x) /\ x \in Readable
    BY <1>1, <1>3
  <2> QED
    BY <2>1, FlatPages
<1>4. CASE x \notin rows \ late
  <2>1. x \in over
    BY <1>2, <1>4
  <2>2. PICK a \in rows : x = parent[a]
    BY <2>1
  <2>3. targets[x] = <<slug[parent[a]]>> /\ a \in Readable
    BY <1>1, <1>2, <1>4, <2>2
  <2> QED
    BY <2>3, FlatPages
<1> QED
  BY <1>3, <1>4

\* What the history has of links is as it was.
SamePages == seen'.ever = seen.ever /\ seen'.flat = seen.flat /\ seen'.edits = seen.edits

LEMMA CutPages ==
    ASSUME IInv, NEW rows, NEW set, Cut(rows, set)
    PROVE  SamePages
BY DEF Cut, SamePages, IInv, Typed, Histories

\* What was a page, as far as that can be told.
Good(links) == seen.flat /\ seen.edits <= 1 => links \subseteq seen.ever

LEMMA AnswerLinks ==
    ASSUME IInv, LInv, NEW kind, NEW answer \in Replies, Answer(kind, answer), SamePages,
           kind \in {"home", "section", "article", "sitemap", "search"} => Good(answer.links)
    PROVE  LInv'
<1>1. req'.at = "answered"
  BY DEF Answer, Blank
<1>2. reply'.kind = kind /\ reply'.links = answer.links
  BY DEF Answer, Replies
<1>3. Linked' /\ Within'
  BY <1>1 DEF Linked, Within, InFlight
<1>4. LinksHold'
  BY <1>1, <1>2 DEF LinksHold, ShowsPage, Answered, Serving, SamePages, Good
<1> QED
  BY <1>3, <1>4 DEF LInv

LEMMA MoveLinks ==
    ASSUME IInv, LInv, InFlight, UNCHANGED content, SamePages, req'.at # "answered",
           Good(req'.links), Within'
    PROVE  LInv'
<1>1. Pages' = Pages /\ Nested' = Nested
  BY ContentKept DEF Nested
<1>2. Linked'
  BY <1>1 DEF LInv, Linked, InFlight, SamePages, Good
<1>3. LinksHold'
  BY DEF LinksHold, ShowsPage, Answered, Serving
<1> QED
  BY <1>2, <1>3 DEF LInv

\* What of the content a stage can rely on for its links.
LEMMA Known ==
    ASSUME IInv, LInv, InFlight
    PROVE  /\ Typed /\ Pages \subseteq seen.ever /\ seen.edits \in Nat
           /\ seen.flat => ~Nested
           /\ Good(req.links)
BY DEF IInv, LInv, Linked, Good, Typed, Histories

LEMMA SiteLinks == ASSUME IInv, LInv, LoadSite PROVE LInv'
<1>1. req.at = "site" /\ InFlight /\ UNCHANGED content
  BY DEF LoadSite, Serving, InFlight
<1>2. PICK rows \in Rows({"site"}) :
        /\ Cut(rows, {"site"})
        /\ CASE RefusesPreview(rows) -> Answer("notFound", NoReply)
             [] RefusesVisit(rows) -> Answer("unavailable", NoReply)
             [] OTHER -> IF ~req.slash /\ req.path \notin {<<>>, <<Sitemap>>}
                         THEN Answer("redirect", WithSlash(req.path, req.slash))
                         ELSE Goto(Route(req.path, req.slash, req.preview))
  BY DEF LoadSite
<1>3. SamePages
  BY <1>2, CutPages
<1>4. WithSlash(req.path, req.slash) \in Replies
  BY <1>1, Here, NoReplyType DEF WithSlash, Replies
<1>5. CASE \/ Answer("notFound", NoReply) \/ Answer("unavailable", NoReply)
           \/ Answer("redirect", WithSlash(req.path, req.slash))
  BY <1>3, <1>4, <1>5, AnswerLinks, NoReplyType
<1>6. CASE Goto(Route(req.path, req.slash, req.preview))
  <2>1. /\ req'.at \in {"unfound", "sections", "results", "section"} /\ req'.links = req.links
    BY <1>6 DEF Goto, Route, IInv, Typed, Served
  <2>2. Within'
    BY <2>1 DEF Within
  <2> QED
    BY <1>1, <1>3, <2>1, <2>2, MoveLinks, Known
<1> QED
  BY <1>2, <1>5, <1>6

LEMMA SectionsLinks == ASSUME IInv, LInv, LoadSections PROVE LInv'
<1>1. req.at = "sections" /\ InFlight /\ UNCHANGED content
  BY DEF LoadSections, Serving, InFlight
<1>2. PICK rows \in Rows(NonEmpty) :
        /\ Cut(rows, NonEmpty)
        /\ req' = [req EXCEPT !.at = IF req.path = <<>> THEN "popular" ELSE "readable",
                              !.links = {<<slug[s]>> : s \in rows}]
  BY DEF LoadSections
<1>3. SamePages
  BY <1>2, CutPages
<1>4. req'.at \in {"popular", "readable"} /\ req'.links = {<<slug[s]>> : s \in rows}
  BY <1>2 DEF IInv, Typed, Served
<1>5. Good(req'.links)
  <2>1. rows \subseteq NonEmpty
    BY DEF Rows
  <2> QED
    BY <1>1, <1>4, <2>1, Known, NonEmptyPages DEF Good
<1>6. Within'
  BY <1>4 DEF Within
<1> QED
  BY <1>1, <1>3, <1>4, <1>5, <1>6, MoveLinks

LEMMA PopularLinks == ASSUME IInv, LInv, LoadPopular PROVE LInv'
<1>1. req.at = "popular" /\ InFlight /\ seen' = seen
  BY DEF LoadPopular, Serving, InFlight
<1>2. PICK rows \in SUBSET Readable :
        Answer("home", [NoReply EXCEPT !.links = req.links \cup {TwoSlugs(a) : a \in rows}])
  BY DEF LoadPopular
<1> DEFINE links == req.links \cup {TwoSlugs(a) : a \in rows}
           answer == [NoReply EXCEPT !.links = links]
<1>3. Good(links)
  BY <1>1, Known, FlatPages DEF Good
<1>4. links \subseteq Paths
  BY <1>1, Here, Known, SlugTypes
<1> HIDE DEF links
<1>5. answer \in Replies /\ answer.links = links
  BY <1>4, NoReplyType DEF Replies
<1>6. Answer("home", answer)
  BY <1>2 DEF links
<1> HIDE DEF answer
<1>7. SamePages
  BY <1>1 DEF SamePages
<1> QED
  BY <1>3, <1>5, <1>6, <1>7, AnswerLinks

LEMMA ResultsLinks == ASSUME IInv, LInv, LoadResults PROVE LInv'
<1>1. req.at = "results" /\ InFlight /\ seen' = seen
  BY DEF LoadResults, Serving, InFlight
<1>2. PICK rows \in SUBSET Readable :
        Answer("search", [NoReply EXCEPT !.links = {TwoSlugs(a) : a \in rows}])
  BY DEF LoadResults
<1> DEFINE links == {TwoSlugs(a) : a \in rows}
           answer == [NoReply EXCEPT !.links = links]
<1>3. Good(links)
  BY <1>1, Known, FlatPages DEF Good
<1>4. links \subseteq Paths
  BY <1>1, Known, SlugTypes
<1> HIDE DEF links
<1>5. answer \in Replies /\ answer.links = links
  BY <1>4, NoReplyType DEF Replies
<1>6. Answer("search", answer)
  BY <1>2 DEF links
<1> HIDE DEF answer
<1>7. SamePages
  BY <1>1 DEF SamePages
<1> QED
  BY <1>3, <1>5, <1>6, <1>7, AnswerLinks

LEMMA ReadableLinks == ASSUME IInv, LInv, LoadReadable PROVE LInv'
<1>1. req.at = "readable" /\ InFlight
  BY DEF LoadReadable, Serving, InFlight
<1>2. PICK rows \in Rows(InSections) :
        /\ Cut(rows, InSections)
        /\ Answer("sitemap", [NoReply EXCEPT
                    !.links = {<<>>} \cup req.links \cup {TwoSlugs(a) : a \in rows}])
  BY DEF LoadReadable
<1> DEFINE links == {<<>>} \cup req.links \cup {TwoSlugs(a) : a \in rows}
           answer == [NoReply EXCEPT !.links = links]
<1>3. rows \subseteq Readable
  BY DEF Rows, InSections
<1>4. Good(links)
  BY <1>1, <1>3, Known, FlatPages DEF Good
<1>5. links \subseteq Paths
  BY <1>1, <1>3, Here, Known, SlugTypes, PathFacts
<1> HIDE DEF links
<1>6. answer \in Replies /\ answer.links = links
  BY <1>5, NoReplyType DEF Replies
<1>7. Answer("sitemap", answer)
  BY <1>2 DEF links
<1> HIDE DEF answer
<1> QED
  BY <1>2, <1>4, <1>6, <1>7, AnswerLinks, CutPages

LEMMA SectionLinks == ASSUME IInv, LInv, LoadSection PROVE LInv'
<1> DEFINE found == {s \in Sections : slug[s] = req.path[1]}
<1>1. req.at = "section" /\ InFlight /\ UNCHANGED content
  BY DEF LoadSection, Serving, InFlight
<1>2. PICK rows \in Rows(found) :
        /\ Cut(rows, found)
        /\ \/ rows = {} /\ Goto("unfound")
           \/ \E s \in rows :
                /\ req' = [req EXCEPT !.at = IF Len(req.path) = 1 THEN "articles" ELSE "article",
                                      !.section = s]
                /\ UNCHANGED reply
  BY DEF LoadSection
<1>3. SamePages
  BY <1>2, CutPages
<1>4. CASE Goto("unfound")
  <2>1. req'.at = "unfound" /\ req'.links = req.links
    BY <1>4 DEF Goto, IInv, Typed, Served
  <2>2. Within'
    BY <2>1 DEF Within
  <2> QED
    BY <1>1, <1>3, <2>1, <2>2, MoveLinks, Known
<1>5. CASE \E s \in rows :
              req' = [req EXCEPT !.at = IF Len(req.path) = 1 THEN "articles" ELSE "article",
                                 !.section = s]
  <2>1. PICK s \in rows :
              req' = [req EXCEPT !.at = IF Len(req.path) = 1 THEN "articles" ELSE "article",
                                 !.section = s]
    BY <1>5
  <2>2. s \in Articles /\ slug[s] = req.path[1]
    BY DEF Rows, Sections
  <2>3. /\ req'.at \in {"articles", "article"} /\ req'.section = s
        /\ req'.path = req.path /\ req'.links = req.links
    BY <2>1 DEF IInv, Typed, Served
  <2>4. seen.flat => \A a \in Listed(s) : <<slug[s]>> \in seen.ever /\ <<slug[s], slug[a]>> \in seen.ever
    <3> SUFFICES ASSUME seen.flat, NEW a \in Listed(s)
                 PROVE  <<slug[s]>> \in seen.ever /\ <<slug[s], slug[a]>> \in seen.ever
      OBVIOUS
    <3>1. a \in Readable /\ parent[a] = s
      BY DEF Listed
    <3> QED
      BY <1>1, <3>1, Known, FlatPages DEF TwoSlugs
  <2>5. Listed(s)' = Listed(s) /\ slug' = slug
    BY <1>1, ContentKept DEF Listed
  <2>6. Within'
    BY <1>3, <2>2, <2>3, <2>4, <2>5 DEF Within, SamePages
  <2> QED
    BY <1>1, <1>3, <2>3, <2>6, MoveLinks, Known
<1> QED
  BY <1>2, <1>4, <1>5

\* where the articles of the section that was found are
LEMMA SectionPages ==
    ASSUME IInv, LInv, req.at \in {"articles", "article", "siblings"},
           NEW rows \in SUBSET Listed(req.section)
    PROVE  /\ Good(LinksTo(rows))
           /\ rows # {} => Good({<<req.path[1]>>})
           /\ LinksTo(rows) \subseteq Paths
<1>1. Good(LinksTo(rows)) /\ (rows # {} => Good({<<req.path[1]>>}))
  BY DEF LInv, Within, Good, LinksTo
<1>2. rows \in SUBSET Readable /\ Typed /\ req.path \notin {<<>>, <<Sitemap>>}
  BY DEF Listed, IInv, Placed
<1> QED
  BY <1>1, <1>2, LinkTypes

LEMMA ArticlesLinks == ASSUME IInv, LInv, LoadArticles PROVE LInv'
<1>1. req.at = "articles" /\ InFlight /\ UNCHANGED content
  BY DEF LoadArticles, Serving, InFlight
<1>2. PICK rows \in Rows(Listed(req.section)) :
        /\ Cut(rows, Listed(req.section))
        /\ \/ rows = {} /\ Goto("unfound")
           \/ rows # {} /\ Answer("section", [NoReply EXCEPT !.links = LinksTo(rows)])
  BY DEF LoadArticles
<1>3. SamePages
  BY <1>2, CutPages
<1>4. Good(LinksTo(rows)) /\ LinksTo(rows) \subseteq Paths
  BY <1>1, SectionPages DEF Rows
<1>5. CASE Goto("unfound")
  <2>1. req'.at = "unfound" /\ req'.links = req.links
    BY <1>5 DEF Goto, IInv, Typed, Served
  <2>2. Within'
    BY <2>1 DEF Within
  <2> QED
    BY <1>1, <1>3, <2>1, <2>2, MoveLinks, Known
<1>6. CASE Answer("section", [NoReply EXCEPT !.links = LinksTo(rows)])
  <2> DEFINE answer == [NoReply EXCEPT !.links = LinksTo(rows)]
  <2>1. answer \in Replies /\ answer.links = LinksTo(rows)
    BY <1>4, NoReplyType DEF Replies
  <2>2. Answer("section", answer)
    BY <1>6
  <2> HIDE DEF answer
  <2> QED
    BY <1>3, <1>4, <2>1, <2>2, AnswerLinks
<1> QED
  BY <1>2, <1>5, <1>6

LEMMA ArticleLinks == ASSUME IInv, LInv, LoadArticle PROVE LInv'
<1> DEFINE found == {a \in Listed(req.section) : slug[a] = req.path[2]}
<1>1. req.at = "article" /\ InFlight /\ UNCHANGED content
  BY DEF LoadArticle, Serving, InFlight
<1>2. PICK rows \in Rows(found) :
        /\ Cut(rows, found)
        /\ \/ rows = {} /\ Goto("unfound")
           \/ \E a \in rows : req' = [req EXCEPT !.at = "targets", !.article = a]
  BY DEF LoadArticle
<1>3. SamePages
  BY <1>2, CutPages
<1>4. CASE Goto("unfound")
  <2>1. req'.at = "unfound" /\ req'.links = req.links
    BY <1>4 DEF Goto, IInv, Typed, Served
  <2>2. Within'
    BY <2>1 DEF Within
  <2> QED
    BY <1>1, <1>3, <2>1, <2>2, MoveLinks, Known
<1>5. CASE \E a \in rows : req' = [req EXCEPT !.at = "targets", !.article = a]
  <2>1. /\ req'.at = "targets" /\ req'.section = req.section
        /\ req'.path = req.path /\ req'.links = req.links
    BY <1>5 DEF IInv, Typed, Served
  <2>2. Good({<<req.path[1]>>})
    BY <1>1, <1>5, SectionPages DEF Rows
  <2>3. Listed(req.section)' = {b \in Readable : parent[b] = req'.section} /\ slug' = slug
    BY <1>1, ContentKept DEF Listed
  <2>4. Within'
    BY <1>1, <1>3, <2>1, <2>2, <2>3 DEF LInv, Within, SamePages, Good, Listed
  <2> QED
    BY <1>1, <1>3, <2>1, <2>4, MoveLinks, Known
<1> QED
  BY <1>2, <1>4, <1>5

LEMMA TargetsLinks == ASSUME IInv, LInv, LoadLinkTargets PROVE LInv'
<1>1. req.at = "targets" /\ InFlight /\ UNCHANGED content
  BY DEF LoadLinkTargets, Serving, InFlight
<1>2. PICK rows \in Rows(Readable) :
        /\ Cut(rows, Readable)
        /\ \E targets \in LinkTargets(rows) :
            req' = [req EXCEPT !.at = "siblings",
                               !.links = {<<req.path[1]>>} \cup {targets[x] : x \in DOMAIN targets}]
  BY DEF LoadLinkTargets
<1>3. PICK targets \in LinkTargets(rows) :
            req' = [req EXCEPT !.at = "siblings",
                               !.links = {<<req.path[1]>>} \cup {targets[x] : x \in DOMAIN targets}]
  BY <1>2
<1>4. SamePages
  BY <1>2, CutPages
<1>5. /\ req'.at = "siblings" /\ req'.section = req.section /\ req'.path = req.path
      /\ req'.links = {<<req.path[1]>>} \cup {targets[x] : x \in DOMAIN targets}
  BY <1>3 DEF IInv, Typed, Served
<1>6. Good(req'.links)
  <2> SUFFICES ASSUME seen.flat, seen.edits <= 1 PROVE req'.links \subseteq seen.ever
    BY DEF Good
  <2>1. <<req.path[1]>> \in seen.ever
    BY <1>1 DEF LInv, Within
  <2>2. \A x \in DOMAIN targets : targets[x] \in Pages
    BY <1>1, Known, TargetPages DEF Rows
  <2> QED
    BY <1>1, <1>5, <2>1, <2>2, Known
<1>7. Listed(req.section)' = {b \in Readable : parent[b] = req'.section} /\ slug' = slug
  BY <1>1, ContentKept DEF Listed
<1>8. Within'
  BY <1>1, <1>4, <1>5, <1>7 DEF LInv, Within, SamePages, Listed
<1> QED
  BY <1>1, <1>4, <1>5, <1>6, <1>8, MoveLinks

LEMMA SiblingsLinks == ASSUME IInv, LInv, LoadSiblings PROVE LInv'
<1>1. req.at = "siblings" /\ InFlight /\ UNCHANGED content
  BY DEF LoadSiblings, Serving, InFlight
<1> DEFINE Links(rows) == req.links \cup LinksTo(rows)
<1>2. PICK rows \in Rows(Listed(req.section)) :
        /\ Cut(rows, Listed(req.section))
        /\ \/ req' = [req EXCEPT !.at = "view", !.links = Links(rows)]
           \/ Answer("article", [NoReply EXCEPT !.article = req.article, !.links = Links(rows)])
  BY DEF LoadSiblings
<1> DEFINE links == Links(rows)
<1>3. SamePages
  BY <1>2, CutPages
<1>4. Good(links) /\ links \subseteq Paths
  <2>1. Good(LinksTo(rows)) /\ LinksTo(rows) \subseteq Paths
    BY <1>1, SectionPages DEF Rows
  <2> QED
    BY <1>1, <2>1, Here, Known DEF Good
<1>5. \/ req' = [req EXCEPT !.at = "view", !.links = links]
      \/ Answer("article", [NoReply EXCEPT !.article = req.article, !.links = links])
  BY <1>2
<1> HIDE DEF links
<1>6. CASE req' = [req EXCEPT !.at = "view", !.links = links]
  <2>1. req'.at = "view" /\ req'.links = links
    BY <1>6 DEF IInv, Typed, Served
  <2>2. Within'
    BY <2>1 DEF Within
  <2> QED
    BY <1>1, <1>3, <1>4, <2>1, <2>2, MoveLinks
<1>7. CASE Answer("article", [NoReply EXCEPT !.article = req.article, !.links = links])
  <2> DEFINE answer == [NoReply EXCEPT !.article = req.article, !.links = links]
  <2>1. req.article \in Articles \cup {None}
    BY DEF IInv, Typed, Served
  <2>2. answer \in Replies /\ answer.links = links
    BY <1>4, <2>1, NoReplyType DEF Replies
  <2>3. Answer("article", answer)
    BY <1>7
  <2> HIDE DEF answer
  <2> QED
    BY <1>3, <1>4, <2>2, <2>3, AnswerLinks
<1> QED
  BY <1>5, <1>6, <1>7

LEMMA ViewLinks == ASSUME IInv, LInv, RecordArticleView PROVE LInv'
<1>1. InFlight /\ seen' = seen
  BY DEF RecordArticleView, Serving, InFlight
<1>2. SamePages
  BY <1>1 DEF SamePages
<1>3. CASE Answer("article", [NoReply EXCEPT !.article = req.article, !.links = req.links])
  <2> DEFINE answer == [NoReply EXCEPT !.article = req.article, !.links = req.links]
  <2>1. req.article \in Articles \cup {None} /\ req.links \subseteq Paths
    BY DEF IInv, Typed, Served
  <2>2. answer \in Replies /\ answer.links = req.links
    BY <2>1, NoReplyType DEF Replies
  <2>3. Answer("article", answer)
    BY <1>3
  <2> HIDE DEF answer
  <2> QED
    BY <1>1, <1>2, <2>2, <2>3, AnswerLinks, Known
<1>4. CASE Answer("error", NoReply)
  BY <1>2, <1>4, AnswerLinks, NoReplyType
<1> QED
  BY <1>3, <1>4 DEF RecordArticleView

LEMMA RedirectLinks == ASSUME IInv, LInv, FindRedirect \/ ReadFailed PROVE LInv'
<1>1. SamePages
  BY CutPages DEF FindRedirect, ReadFailed, SamePages
<1>2. req'.at = "answered"
  BY DEF FindRedirect, ReadFailed, Answer, Blank
<1>3. reply'.kind \in {"notFound", "redirect", "error"}
  <2>1. CASE ReadFailed
    BY <2>1 DEF ReadFailed, Answer, NoReply
  <2>2. CASE FindRedirect
    BY <2>2 DEF FindRedirect, Answer, NoReply
  <2> QED
    BY <2>1, <2>2
<1>4. Linked' /\ Within' /\ LinksHold'
  BY <1>2, <1>3 DEF Linked, Within, InFlight, LinksHold, ShowsPage, Answered, Serving
<1> QED
  BY <1>4 DEF LInv

\* An edit of the section that was found can only be of one thing: what is in it was a
\* page under its slug before.
LEMMA EditLinks ==
    ASSUME IInv, IInv', LInv, Edited,
           \/ slug' = slug
           \/ /\ UNCHANGED <<parent, published>>
              /\ \E a \in Articles : \A b \in Articles \ {a} : slug'[b] = slug[b]
    PROVE  LInv'
<1>1. UNCHANGED <<req, reply>>
  BY DEF Edited
<1>2. CASE ~InFlight
  <2>1. seen' = seen /\ req.at \in {"idle", "answered"}
    BY <1>2 DEF Edited, InFlight
  <2> QED
    BY <1>1, <2>1 DEF LInv, Linked, InFlight, Within, LinksHold, ShowsPage, Answered, Serving
<1>3. CASE InFlight
  <2>1. /\ seen'.ever = seen.ever \cup Pages' /\ seen'.edits = seen.edits + 1
        /\ seen'.flat => seen.flat /\ ~Nested'
    BY <1>3 DEF Edited, IInv, Typed, Histories
  <2>2. /\ Typed /\ Pages \subseteq seen.ever /\ seen.edits \in Nat
        /\ (seen.flat => ~Nested) /\ Good(req.links)
    BY <1>3, Known
  <2>3. Linked'
    BY <1>1, <2>1, <2>2 DEF Linked, Good
  <2>4. LinksHold'
    BY <1>1, <1>3 DEF LinksHold, ShowsPage, Answered, Serving, InFlight
  <2>5. Within'
    <3> SUFFICES ASSUME req.at \in {"articles", "article", "targets", "siblings"}
                 PROVE  Within'
      BY <1>1 DEF Within
    <3>1. req.section \in Articles /\ seen'.edits # 0
      BY <2>1, <2>2 DEF LInv, Within
    <3>2. ASSUME seen'.flat, seen'.edits <= 1, NEW a \in Listed(req.section)'
          PROVE  <<req.path[1]>> \in seen'.ever /\ <<req.path[1], slug'[a]>> \in seen'.ever
      <4>1. seen.edits = 0 /\ seen.flat /\ ~Nested /\ ~Nested' /\ slug[req.section] = req.path[1]
        BY <2>1, <2>2, <3>2 DEF LInv, Within
      <4>2. a \in Readable' /\ parent'[a] = req.section /\ a \in Articles
        BY <1>1 DEF Listed, Readable
      <4>3. CASE slug'[req.section] = req.path[1]
        <5>1. parent'[parent'[a]] = None
          BY <4>1, <4>2 DEF Nested, Readable
        <5>2. <<slug'[parent'[a]]>> \in Pages' /\ <<slug'[parent'[a]], slug'[a]>> \in Pages'
          BY <4>2, <5>1 DEF Pages, TwoSlugs
        <5> QED
          BY <2>1, <4>2, <4>3, <5>2
      <4>4. CASE slug'[req.section] # req.path[1]
        <5>1. /\ parent' = parent /\ published' = published
              /\ \A b \in Articles \ {req.section} : slug'[b] = slug[b]
          BY <3>1, <4>1, <4>4
        <5>2. a \in Readable /\ parent[a] = req.section
          BY <4>2, <5>1 DEF Readable
        <5>3. a # req.section
          BY <4>1, <4>2, <5>2, NamesAssumption DEF Nested
        <5>4. TwoSlugs(a) \in Pages /\ <<slug[parent[a]]>> \in Pages
          BY <2>2, <4>1, <5>2, FlatPages
        <5> QED
          BY <2>1, <2>2, <4>1, <4>2, <5>1, <5>2, <5>3, <5>4 DEF TwoSlugs
      <4> QED
        BY <4>3, <4>4
    <3>3. seen'.flat /\ seen'.edits <= 1 /\ req.at = "targets" => <<req.path[1]>> \in seen'.ever
      BY <2>1, <2>2 DEF LInv, Within
    <3> QED
      BY <1>1, <3>1, <3>2, <3>3 DEF Within
  <2> QED
    BY <2>3, <2>4, <2>5 DEF LInv
<1> QED
  BY <1>2, <1>3

LEMMA EditsLink ==
    ASSUME IInv, IInv', LInv,
           \/ \E a \in Articles : Publish(a) \/ \E s \in Slugs : Retitle(a, s)
           \/ \E a \in Articles, p \in Articles \cup {None} : Refile(a, p)
           \/ Enable
    PROVE  LInv'
<1>1. CASE \E a \in Articles : Publish(a)
  BY <1>1, EditLinks DEF Publish
<1>2. CASE \E a \in Articles, s \in Slugs : Retitle(a, s)
  BY <1>2, EditLinks DEF Retitle, IInv, Typed, TypeOK
<1>3. CASE \E a \in Articles, p \in Articles \cup {None} : Refile(a, p)
  BY <1>3, EditLinks DEF Refile
<1>4. CASE Enable
  BY <1>4, EditLinks DEF Enable
<1> QED
  BY <1>1, <1>2, <1>3, <1>4

LEMMA ArriveLinks ==
    ASSUME IInv, NEW path, NEW slash, NEW preview, Arrive(path, slash, preview)
    PROVE  LInv'
<1>1. req'.at = "site" /\ req'.links = {}
  BY DEF Arrive, Blank
<1>2. Pages' = Pages /\ Nested' = Nested
  BY ContentKept DEF Arrive, Nested
<1>3. seen'.ever = Pages /\ seen'.flat = ~Nested
  BY DEF Arrive, Unchanging
<1> QED
  BY <1>1, <1>2, <1>3 DEF LInv, Linked, Within, LinksHold, ShowsPage, Answered, Serving

LEMMA LinksInductive == Spec => []LInv
<1>1. Init => LInv
  BY DEF Init, Blank, LInv, Linked, InFlight, Within, LinksHold, ShowsPage, Answered, Serving
<1>2. IInv /\ IInv' /\ LInv /\ [Next]_vars => LInv'
  <2> SUFFICES ASSUME IInv, IInv', LInv, [Next]_vars PROVE LInv'
    OBVIOUS
  <2>1. CASE \E path \in Paths, slash \in BOOLEAN, preview \in Previews : Visit(path, slash, preview)
    BY <2>1, ArriveLinks DEF Visit
  <2>2. CASE Follow
    BY <2>2, ArriveLinks DEF Follow
  <2>3. CASE \/ \E a \in Articles : Publish(a) \/ \E s \in Slugs : Retitle(a, s)
             \/ \E a \in Articles, p \in Articles \cup {None} : Refile(a, p)
             \/ Enable
    BY <2>3, EditsLink
  <2>4. CASE UNCHANGED vars
    <3>1. UNCHANGED content /\ UNCHANGED <<req, reply, seen>>
      BY <2>4 DEF vars
    <3>2. /\ Pages' = Pages /\ Nested' = Nested /\ slug' = slug
          /\ Listed(req.section)' = Listed(req.section)
      BY <3>1, ContentKept DEF Nested, Listed
    <3>3. Linked' /\ LinksHold'
      BY <3>1, <3>2 DEF LInv, Linked, InFlight, LinksHold, ShowsPage, Answered, Serving
    <3>4. Within'
      BY <3>1, <3>2 DEF LInv, Within
    <3> QED
      BY <3>3, <3>4 DEF LInv
  <2> QED
    BY <2>1, <2>2, <2>3, <2>4, SiteLinks, SectionsLinks, PopularLinks, ReadableLinks,
       ResultsLinks, SectionLinks, ArticlesLinks, ArticleLinks, TargetsLinks, SiblingsLinks, ViewLinks,
       RedirectLinks DEF Next
<1> QED
  BY <1>1, <1>2, Inductive, PTL DEF Spec

-----------------------------------------------------------------------------
\* A request a redirect led to has all that was there, and of what is there still: a
\* second in a row leads to a page, and a page doesn't lead on.
Settling ==
    /\ hops \in Nat
    /\ hops > 0 =>
        /\ req.slash /\ ~seen.cut
        /\ seen.always = Pages /\ seen.shut = ~available
        /\ req.at \in InSite => req.preview \/ available
        /\ ~Nested /\ Answered("redirect") => hops = 1 /\ reply.to \in Pages
        /\ ~Nested => hops = 1 \/ (hops = 2 /\ req.path \in Pages)

\* Without nesting, a redirect of the mapping is to a page, whatever rows it was found in.
LEMMA RedirectPages ==
    ASSUME Typed, ~Nested, NEW rows \in SUBSET Readable, NEW targets \in LinkTargets(rows), NEW path
    PROVE  GetRedirect(path, targets) \subseteq Pages
BY TargetPages, FlatPages DEF GetRedirect

\* A query that loses no rows leaves the redirects in a row as they are.
LEMMA CutSettles ==
    ASSUME IInv, Settling, NEW rows, NEW set, Cut(rows, set)
    PROVE  /\ hops' \in Nat
           /\ hops' > 0 => /\ hops' = hops /\ hops > 0 /\ ~seen'.cut /\ rows = set
                           /\ seen'.always = seen.always /\ seen'.shut = seen.shut
<1>1. /\ hops' = IF rows # set THEN 0 ELSE hops
      /\ seen' = [seen EXCEPT !.cut = @ \/ rows # set]
  BY DEF Cut
<1>2. hops \in Nat /\ hops' \in Nat
  BY <1>1 DEF Settling
<1>3. ASSUME hops' > 0
      PROVE  hops' = hops /\ rows = set /\ ~seen.cut
  BY <1>1, <1>3 DEF Settling
<1>4. ASSUME hops' > 0
      PROVE  ~seen'.cut
  <2>1. seen'.cut = (seen.cut \/ rows # set)
    BY <1>1 DEF IInv, Typed, Histories
  <2> QED
    BY <1>3, <1>4, <2>1
<1> QED
  BY <1>2, <1>3, <1>4, CutKeeps DEF IInv, Typed

\* The steps of a request that have no redirect.
LEMMA StepSettles ==
    ASSUME IInv, Settling, UNCHANGED content, hops' \in Nat,
           hops' > 0 => /\ hops' = hops /\ hops > 0 /\ ~seen'.cut
                        /\ seen'.always = seen.always /\ seen'.shut = seen.shut,
           req'.slash = req.slash, req'.preview = req.preview, req'.path = req.path,
           hops' > 0 /\ req'.at \in InSite => req.preview \/ available,
           hops' > 0 /\ ~Nested /\ Answered("redirect")' => hops' = 1 /\ reply'.to \in Pages
    PROVE  Settling'
<1>1. Pages' = Pages /\ Nested' = Nested /\ available' = available
  BY ContentKept DEF Nested
<1> QED
  BY <1>1 DEF Settling

LEMMA SiteSettles == ASSUME IInv, Settling, LoadSite PROVE Settling'
<1>1. req.at = "site" /\ UNCHANGED content
  BY DEF LoadSite, Serving
<1>2. PICK rows \in Rows({"site"}) :
        /\ Cut(rows, {"site"})
        /\ CASE RefusesPreview(rows) -> Answer("notFound", NoReply)
             [] RefusesVisit(rows) -> Answer("unavailable", NoReply)
             [] OTHER -> IF ~req.slash /\ req.path \notin {<<>>, <<Sitemap>>}
                         THEN Answer("redirect", WithSlash(req.path, req.slash))
                         ELSE Goto(Route(req.path, req.slash, req.preview))
  BY DEF LoadSite
<1>3. CASE Answer("notFound", NoReply) \/ Answer("unavailable", NoReply)
  <2>1. /\ req'.at = "answered" /\ reply'.kind \in {"notFound", "unavailable"}
        /\ req'.slash = req.slash /\ req'.preview = req.preview /\ req'.path = req.path
    BY <1>3 DEF Answer, Blank, NoReply
  <2> QED
    BY <1>1, <1>2, <2>1, CutSettles, StepSettles DEF Answered, Serving, InSite
<1>4. CASE ~req.slash /\ Answer("redirect", WithSlash(req.path, req.slash))
  <2>1. req'.slash = req.slash /\ req'.preview = req.preview /\ req'.path = req.path
    BY <1>4 DEF Answer, Blank
  <2>2. hops' = 0
    BY <1>2, <1>4, CutSettles DEF Settling
  <2> QED
    BY <2>2 DEF Settling
<1>5. CASE ~RefusesVisit(rows) /\ Goto(Route(req.path, req.slash, req.preview))
  <2>1. /\ req'.slash = req.slash /\ req'.preview = req.preview /\ req'.path = req.path
        /\ req'.at \in {"unfound", "sections", "results", "section"}
    BY <1>5 DEF Goto, Route, IInv, Typed, Served
  <2>2. req.preview \/ available
    BY <1>5 DEF RefusesVisit
  <2> QED
    BY <1>1, <1>2, <2>1, <2>2, CutSettles, StepSettles DEF Answered, Serving
<1> QED
  BY <1>2, <1>3, <1>4, <1>5

\* The queries between the site's and the answer to what was not found.
LEMMA ReadSettles ==
    ASSUME IInv, Settling,
           \/ LoadSections \/ LoadPopular \/ LoadReadable \/ LoadResults
           \/ LoadSection \/ LoadArticles \/ LoadArticle \/ LoadLinkTargets \/ LoadSiblings \/ RecordArticleView
    PROVE  Settling'
<1>1. req.at \in InSite /\ UNCHANGED content
  BY DEF InSite, LoadSections, LoadPopular, LoadReadable, LoadResults, LoadSection, LoadArticles,
     LoadArticle, LoadLinkTargets, LoadSiblings, RecordArticleView, Serving
<1>2. \/ UNCHANGED <<seen, hops>>
      \/ \E rows, set : Cut(rows, set)
  BY DEF LoadSections, LoadPopular, LoadReadable, LoadResults, LoadSection, LoadArticles,
     LoadArticle, LoadLinkTargets, LoadSiblings, RecordArticleView
<1>3. /\ hops' \in Nat
      /\ hops' > 0 => /\ hops' = hops /\ hops > 0 /\ ~seen'.cut
                      /\ seen'.always = seen.always /\ seen'.shut = seen.shut
  BY <1>2, CutSettles DEF Settling
<1>4. \/ \E kind \in {"home", "section", "article", "sitemap", "search", "error"} :
            \E answer : Answer(kind, answer)
      \/ /\ req'.at \in InSite /\ req'.slash = req.slash
         /\ req'.preview = req.preview /\ req'.path = req.path
  <2>1. CASE LoadSections
    BY <2>1 DEF LoadSections, InSite, IInv, Typed, Served
  <2>2. CASE LoadPopular \/ LoadReadable \/ LoadResults \/ RecordArticleView
    BY <2>2 DEF LoadPopular, LoadReadable, LoadResults, RecordArticleView
  <2>3. CASE LoadSection
    BY <2>3 DEF LoadSection, Goto, InSite, IInv, Typed, Served
  <2>4. CASE LoadArticles
    BY <2>4 DEF LoadArticles, Goto, InSite, IInv, Typed, Served
  <2>5. CASE LoadArticle
    BY <2>5 DEF LoadArticle, Goto, InSite, IInv, Typed, Served
  <2>6. CASE LoadLinkTargets
    BY <2>6 DEF LoadLinkTargets, InSite, IInv, Typed, Served
  <2>7. CASE LoadSiblings
    BY <2>7 DEF LoadSiblings, InSite, IInv, Typed, Served
  <2> QED
    BY <2>1, <2>2, <2>3, <2>4, <2>5, <2>6, <2>7
<1>5. /\ req'.slash = req.slash /\ req'.preview = req.preview /\ req'.path = req.path
      /\ ~Answered("redirect")'
  <2>1. ASSUME NEW kind \in {"home", "section", "article", "sitemap", "search", "error"}, NEW answer,
               Answer(kind, answer)
        PROVE  /\ req'.slash = req.slash /\ req'.preview = req.preview /\ req'.path = req.path
               /\ reply'.kind # "redirect" \/ reply'.kind = kind
    BY <2>1 DEF Answer, Blank
  <2> QED
    BY <1>4, <2>1 DEF Answered, Serving, InSite, Answer
<1>6. hops' > 0 => req.preview \/ available
  BY <1>1, <1>3 DEF Settling
<1> QED
  BY <1>1, <1>3, <1>5, <1>6, StepSettles

LEMMA RedirectSettles == ASSUME IInv, Settling, FindRedirect PROVE Settling'
<1>1. req.at = "unfound" /\ UNCHANGED content
  BY DEF FindRedirect, Serving
<1>2. PICK rows \in Rows(Readable) :
        /\ Cut(rows, Readable)
        /\ \E targets \in LinkTargets(rows) :
            LET found == GetRedirect(req.path, targets)
            IN  IF found = {} THEN Answer("notFound", NoReply)
                ELSE \E to \in found :
                        Answer("redirect", [NoReply EXCEPT !.to = to, !.prefix = req.preview])
  BY DEF FindRedirect
<1>3. /\ req'.at = "answered" /\ req'.slash = req.slash /\ req'.preview = req.preview
      /\ req'.path = req.path
  BY <1>2 DEF Answer, Blank
<1>4. ~Nested /\ reply'.kind = "redirect" => reply'.to \in Pages
  <2> SUFFICES ASSUME ~Nested, reply'.kind = "redirect" PROVE reply'.to \in Pages
    OBVIOUS
  <2>1. PICK targets \in LinkTargets(rows) : \E to \in GetRedirect(req.path, targets) :
          Answer("redirect", [NoReply EXCEPT !.to = to, !.prefix = req.preview])
    BY <1>2 DEF Answer, NoReply
  <2>2. PICK to \in GetRedirect(req.path, targets) :
          Answer("redirect", [NoReply EXCEPT !.to = to, !.prefix = req.preview])
    BY <2>1
  <2>3. to \in Pages
    BY RedirectPages DEF IInv, Rows
  <2> QED
    BY <2>2, <2>3 DEF Answer, NoReply
<1>5. hops' > 0 /\ ~Nested => hops' = 1
  <2>1. CASE hops' > 0 /\ ~Nested /\ hops = 2
    <3>1. /\ ~seen.cut /\ req.slash /\ req.path \in seen.always
          /\ seen.shut = ~available /\ (req.preview \/ available)
      <4>1. hops > 0 /\ hops # 1 /\ ~Nested
        BY <2>1
      <4>2. /\ ~seen.cut /\ req.slash /\ seen.always = Pages /\ seen.shut = ~available
            /\ req.path \in Pages
        BY <4>1 DEF Settling
      <4>3. req.at \in InSite
        BY <1>1 DEF InSite
      <4>4. req.preview \/ available
        BY <4>1, <4>3 DEF Settling
      <4> QED
        BY <4>2, <4>4
    <3>2. req.preview \/ ~seen.shut
      BY <3>1
    <3>3. FALSE
      BY <1>1, <3>1, <3>2 DEF IInv, NotLost
    <3> QED
      BY <3>3
  <2> QED
    BY <1>2, <2>1, CutSettles DEF Settling
<1> QED
  BY <1>1, <1>2, <1>3, <1>4, <1>5, CutSettles, StepSettles DEF Answered, Serving, InSite

LEMMA FollowSettles == ASSUME IInv, Settling, Follow PROVE Settling'
<1>1. Answered("redirect") /\ hops' = hops + 1 /\ Arrive(reply.to, reply.slash, req.preview)
  BY DEF Follow
<1>2. req'.at = "site" /\ req'.slash = reply.slash /\ req'.path = reply.to
  BY <1>1 DEF Arrive, Blank
<1>3. UNCHANGED content /\ Pages' = Pages /\ Nested' = Nested /\ available' = available
  BY <1>1, ContentKept DEF Arrive, Nested
<1>4. ~seen'.cut /\ seen'.always = Pages /\ seen'.shut = ~available /\ reply.slash
  BY <1>1 DEF Arrive, Unchanging, IInv, Typed, TypeOK
<1>5. hops \in Nat /\ (~Nested => hops = 0 \/ (hops = 1 /\ reply.to \in Pages))
  BY <1>1 DEF Settling
<1> QED
  BY <1>1, <1>2, <1>3, <1>4, <1>5 DEF Settling, Answered, Serving, InSite

LEMMA SettlesInductive == Spec => []Settling
<1>1. Init => Settling
  BY DEF Init, Settling
<1>2. IInv /\ Settling /\ [Next]_vars => Settling'
  <2> SUFFICES ASSUME IInv, Settling, [Next]_vars PROVE Settling'
    OBVIOUS
  <2>1. CASE \E path \in Paths, slash \in BOOLEAN, preview \in Previews : Visit(path, slash, preview)
    BY <2>1 DEF Visit, Settling
  <2>2. CASE \/ \E a \in Articles : Publish(a) \/ \E s \in Slugs : Retitle(a, s)
             \/ \E a \in Articles, p \in Articles \cup {None} : Refile(a, p)
             \/ Enable
    <3>1. hops' = 0
      BY <2>2 DEF Publish, Retitle, Refile, Enable, Edited
    <3> QED
      BY <3>1 DEF Settling
  <2>3. CASE ReadFailed
    <3>1. /\ UNCHANGED <<content, seen, hops>> /\ reply'.kind = "error" /\ req'.at = "answered"
          /\ req'.slash = req.slash /\ req'.preview = req.preview /\ req'.path = req.path
      BY <2>3 DEF ReadFailed, Answer, NoReply, Blank
    <3> QED
      BY <3>1, StepSettles DEF Answered, Serving, InSite, Settling
  <2>4. CASE UNCHANGED vars
    <3>1. UNCHANGED content /\ UNCHANGED <<req, reply, seen, hops>>
      BY <2>4 DEF vars
    <3>2. Pages' = Pages /\ Nested' = Nested /\ available' = available
      BY <3>1, ContentKept DEF Nested
    <3> QED
      BY <3>1, <3>2 DEF Settling, Answered, Serving
  <2> QED
    BY <2>1, <2>2, <2>3, <2>4, SiteSettles, ReadSettles, RedirectSettles, FollowSettles DEF Next
<1> QED
  BY <1>1, <1>2, Inductive, PTL DEF Spec

-----------------------------------------------------------------------------
\* The type invariant of a visit holds in every state.
THEOREM Typing == Spec => []TypeOK
<1>1. IInv => TypeOK
  BY DEF IInv, Typed
<1> QED
  BY <1>1, Inductive, PTL

\* However the helpdesk is edited between the reads of a request, it shows no article
\* but what was published at some time during it, and of an available site.
THEOREM OnlyReadableHolds == Spec => []OnlyReadable
<1>1. IInv => OnlyReadable
  BY DEF IInv
<1> QED
  BY <1>1, Inductive, PTL

\* However else it is edited meanwhile, what stays a page is found.
THEOREM AlwaysFoundHolds == Spec => []AlwaysFound
<1>1. IInv => AlwaysFound
  BY DEF IInv
<1> QED
  BY <1>1, Inductive, PTL

\* And it is listed where it belongs.
THEOREM ListsAllHolds == Spec => []ListsAll
<1>1. IInv => ListsAll
  BY DEF IInv
<1> QED
  BY <1>1, Inductive, PTL

\* Only readers are counted, each once for the article that was shown.
THEOREM ViewsAreReadersHolds == Spec => []ViewsAreReaders
<1>1. IInv => ViewsAreReaders
  BY DEF IInv
<1> QED
  BY <1>1, Inductive, PTL

\* What a page links to was a page at some time during the request, however one edit
\* falls between its reads, for as long as no article is under an article.
THEOREM LinksHoldHolds == Spec => []LinksHold
<1>1. LInv => LinksHold
  BY DEF LInv
<1> QED
  BY <1>1, LinksInductive, PTL

\* And two redirects in a row, of a helpdesk that stays as it is, are all there are.
THEOREM SettlesHolds == Spec => []Settles
<1>1. Settling => Settles
  BY DEF Settling, Settles
<1> QED
  BY <1>1, SettlesInductive, PTL
=============================================================================
