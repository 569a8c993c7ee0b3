CONSTANTS
    a1 = a1 a2 = a2 a3 = a3
    s1 = s1 s2 = s2 s3 = s3
    Articles = {a1, a2, a3}
    Slugs = {s1, s2, s3, search}
    SearchSlug = search
    Slugged <- MCSlugged
    None = None
    Sitemap = Sitemap
    Home = Home
    Redirects <- MCRedirects
    Nesting = TRUE
    Previews = {FALSE}
    MaxEdits = 1
    MaxHops = 3
SPECIFICATION Spec
INVARIANTS RedirectsToPage
CHECK_DEADLOCK FALSE
