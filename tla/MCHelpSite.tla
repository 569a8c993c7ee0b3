----------------------------- MODULE MCHelpSite -----------------------------
\* A helpdesk of three articles, and a mapping of the old site: an old address that
\* is one of a page's now too, one of a page under an index, and one of the home page.
EXTENDS HelpSite, TLC

CONSTANTS a1, a2, a3, s1, s2, s3

MCRedirects ==
    <<s1, s2>> :> a2 @@ <<s3, s1>> :> a1 @@ <<s3>> :> Home

\* All that tells the articles apart at first is which of them the mapping has: with
\* the first of these an old address leads to the article that has its slug now, with
\* the second to another, and one's slug is that of the search page, which with the
\* first is a slug an article can be given.
MCSlugged == {
    a1 :> s1 @@ a2 :> s2 @@ a3 :> s3,
    a1 :> s2 @@ a2 :> SearchSlug @@ a3 :> s1}
=============================================================================
