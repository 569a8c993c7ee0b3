------------------------------- MODULE Snippet -------------------------------
(***************************************************************************)
(* How an article found by a search, or listed by its section, is shown:   *)
(* MakeSnippet of core/search/snippet.go and Excerpt of                    *)
(* core/models/article.go, functions of a plain text.                      *)
(*                                                                         *)
(* A text is a sequence of runes, in which the code's index n is n + 1.    *)
(* One rune stands for those that HTML escapes, for no other's entity has  *)
(* as many letters in a row as a term has at least.                        *)
(***************************************************************************)
EXTENDS Integers, Sequences, SequencesExt, FiniteSetsExt

CONSTANTS
    Letters,    \* of words
    Lower,      \* unicode.ToLower
    Queries,    \* the sets of terms that are searched for, in lower case
    Lengths,    \* how long a snippet or an excerpt can be asked to be
    Texts       \* what there is to make them of

Amp == "&"
Space == " "
Ellipsis == "..."
Mark == "<mark>"
EndMark == "</mark>"

Entity == <<"&", "a", "m", "p", ";">>
EntityLetters == {Entity[n] : n \in 2 .. 4}

Runes == Letters \cup {Space, Amp, ";", Ellipsis}

ASSUME TextsAssumption == Texts \subseteq Seq(Runes)

ASSUME RunesAssumption ==
    /\ Letters \cap {Space, Amp, Ellipsis, Mark, EndMark, ";"} = {}
    /\ EntityLetters \subseteq Letters
    /\ Lower \in [Letters -> Letters] /\ \A r \in EntityLetters : Lower[r] = r

Terms == UNION Queries

\* A term has three letters at least (search.go:72), of which the entity has no more;
\* the shorter ones, which make the model small, have none of the entity's.
ASSUME TermsAssumption ==
    \A term \in Terms :
        /\ term \in Seq(Letters) /\ term # <<>>
        /\ Len(term) >= 3 \/ \A n \in DOMAIN term : term[n] \notin EntityLetters

\* that is, 200 for a snippet and 160 for an excerpt
ASSUME LengthsAssumption == \A len \in Lengths : len \in Nat /\ len > 2

VARIABLES
    text, terms, length,    \* what is asked for
    snippet, excerpt        \* what is made of it

vars == <<text, terms, length, snippet, excerpt>>

-----------------------------------------------------------------------------
ToLower(r) == IF r \in Letters THEN Lower[r] ELSE r

\* the term, which is in lower case, is at the index
At(runes, term, index) ==
    /\ index + Len(term) <= Len(runes)
    /\ \A n \in 1 .. Len(term) : ToLower(runes[index + n]) = term[n]

Hit(runes, ts, index) == \E term \in ts : At(runes, term, index)

\* indexRunes of every term: where there's one
Hits(runes, ts) == {index \in 0 .. Len(runes) : Hit(runes, ts, index)}

Spaces(runes) == {index \in 0 .. Len(runes) - 1 : runes[index + 1] = Space}

LeadOnly(runes, first, len) == Max({0, first - len \div 4})

\* a quarter of the length before the first hit, and back to a word's start
Lead(runes, first, len) ==
    LET lead == Max({0, first - len \div 4})
        before == {s \in Spaces(runes) : s < lead}
    IN  IF before = {} THEN lead ELSE Max(before) + 1

Start(runes, ts, len) ==
    IF Hits(runes, ts) = {} THEN 0 ELSE Lead(runes, Min(Hits(runes, ts)), len)

AnySpace(window, len) == Spaces(window)

\* the spaces past halfway
LateSpaces(window, len) == {s \in Spaces(window) : s > len \div 2}

\* what is left of a window that doesn't end with the text
Trim(window, len) ==
    IF LateSpaces(window, len) = {} THEN window
    ELSE SubSeq(window, 1, Max(LateSpaces(window, len)))

SilentWindow(runes, ts, len) ==
    LET start == Start(runes, ts, len)
        end == Min({Len(runes), start + len})
        window == SubSeq(runes, start + 1, end)
    IN  (IF start > 0 THEN <<Ellipsis>> ELSE <<>>)
            \o (IF end < Len(runes) THEN Trim(window, len) ELSE window)

Window(runes, ts, len) ==
    LET start == Start(runes, ts, len)
        end == Min({Len(runes), start + len})
        window == SubSeq(runes, start + 1, end)
    IN  (IF start > 0 THEN <<Ellipsis>> ELSE <<>>)
            \o (IF end < Len(runes) THEN Append(Trim(window, len), Ellipsis) ELSE window)

Unescaped(runes) == runes

\* sequences one after the other, up to each of them
JoinedTo(pieces) ==
    LET upTo[n \in 0 .. Len(pieces)] == IF n = 0 THEN <<>> ELSE upTo[n - 1] \o pieces[n]
    IN  upTo

Joined(pieces) == JoinedTo(pieces)[Len(pieces)]

EscapedByNumber(runes) ==
    Joined([n \in DOMAIN runes |-> IF runes[n] = Amp THEN <<"&", "#", "38", ";">> ELSE <<runes[n]>>])

\* html.EscapeString
Escaped(runes) == Joined([n \in DOMAIN runes |-> IF runes[n] = Amp THEN Entity ELSE <<runes[n]>>])

Shortest(runes, ts, index) == Min({Len(term) : term \in {t \in ts : At(runes, t, index)}})

\* the terms are tried longest first
Longest(runes, ts, index) == Max({Len(term) : term \in {t \in ts : At(runes, t, index)}})

\* where the hit ends that is at the index
Past(runes, ts, index) == index + Longest(runes, ts, index)

\* ReplaceAllString finds hits from left to right, each past those before it: where it
\* has found them before each index
FoundBefore(runes, ts) ==
    LET found[n \in 0 .. Len(runes)] ==
            IF n = 0 THEN {}
            ELSE LET before == found[n - 1]
                 IN  IF Hit(runes, ts, n - 1) /\ \A index \in before : Past(runes, ts, index) < n
                     THEN before \cup {n - 1} ELSE before
    IN  found

Found(runes, ts) == FoundBefore(runes, ts)[Len(runes)]

Marked(runes, ts) ==
    LET starts == Found(runes, ts)
        ends == {Past(runes, ts, index) : index \in starts}
    IN  Joined([n \in DOMAIN runes |->
                   (IF n - 1 \in starts THEN <<Mark>> ELSE <<>>)
                       \o <<runes[n]>> \o (IF n \in ends THEN <<EndMark>> ELSE <<>>)])

MakeSnippet(runes, ts, len) == Marked(Escaped(Window(runes, ts, len)), ts)

CutAnywhere(runes, len) == len

\* where Excerpt cuts a text that is too long: at the last space past halfway
Cut(runes, len) ==
    LET spaces == {s \in Spaces(runes) : len \div 2 < s /\ s < len}
    IN  IF spaces = {} THEN len ELSE Max(spaces)

\* strings.TrimRight
TrimRight(runes) == SubSeq(runes, 1, Max({0} \cup {n \in DOMAIN runes : runes[n] # Space}))

Excerpt(runes, len) ==
    IF Len(runes) <= len THEN runes
    ELSE Append(TrimRight(SubSeq(runes, 1, Cut(runes, len))), Ellipsis)

-----------------------------------------------------------------------------
NotYet == <<"not yet">>

\* what is left of markup: no space at either end, nor two in a row
Plain(runes) ==
    \A n \in DOMAIN runes : runes[n] = Space =>
        n \in 2 .. Len(runes) - 1 /\ runes[n + 1] # Space

Init ==
    /\ text \in {t \in Texts : Plain(t)}
    /\ terms \in Queries /\ length \in Lengths
    /\ snippet = NotYet /\ excerpt = NotYet

ShowResult ==
    /\ snippet = NotYet /\ snippet' = MakeSnippet(text, terms, length)
    /\ UNCHANGED <<text, terms, length, excerpt>>

ListArticle ==
    /\ snippet # NotYet /\ excerpt = NotYet /\ excerpt' = Excerpt(text, length)
    /\ UNCHANGED <<text, terms, length, snippet>>

Next == ShowResult \/ ListArticle

Spec == Init /\ [][Next]_vars

TypeOK ==
    /\ text \in Seq(Runes) /\ terms \in Queries /\ length \in Lengths
    /\ snippet = NotYet \/ snippet \in Seq(Runes \cup {Mark, EndMark})
    /\ excerpt = NotYet \/ excerpt \in Seq(Runes)

-----------------------------------------------------------------------------
Made == snippet # NotYet

Without(runes, out) ==
    Joined([n \in DOMAIN runes |-> IF runes[n] \in out THEN <<>> ELSE <<runes[n]>>])

Unmarked(runes) == Without(runes, {Mark, EndMark})

\* what escapes a rune is at n
EntityAt(runes, n) == n + 4 <= Len(runes) /\ SubSeq(runes, n, n + 4) = Entity

\* in what escapes a rune, after its beginning
InEntity(runes, n) == \E m \in DOMAIN runes : m < n /\ n <= m + 4 /\ EntityAt(runes, m)

Unescape(runes) ==
    Joined([n \in DOMAIN runes |-> IF InEntity(runes, n) THEN <<>> ELSE <<runes[n]>>])

\* as a reader sees it
Decoded(runes) == Unescape(Unmarked(runes))

Dots(some) == IF some THEN <<Ellipsis>> ELSE <<>>

\* a part of the text, with what stands for the rest of it
Dotted(start, stop) == Dots(start > 0) \o SubSeq(text, start + 1, stop) \o Dots(stop < Len(text))

\* "the text is escaped and only our own <mark>s are markup" (snippet.go:12-14):
\* what escapes a rune is whole, and what a reader sees is a part of the text no
\* longer than was asked for.  The exception is the one term an entity has in it.
TextShown ==
    Made /\ <<"a", "m", "p">> \notin terms =>
        /\ \A n \in DOMAIN snippet : snippet[n] = Amp => EntityAt(snippet, n)
        /\ LET seen == Decoded(snippet)
           IN  \E start \in 0 .. Len(text) : \E stop \in start .. Len(text) :
                    seen = Dotted(start, stop) /\ stop <= start + length

\* where the snippet is neither a mark nor in one
Outside(n) ==
    \A m \in 1 .. n : snippet[m] = Mark => \E k \in m .. n : snippet[k] = EndMark

\* "longest first so that a term that contains another is marked whole" (61): a
\* mark is a term, and the longest there is where it begins; no term is left out.
MarkedWhole ==
    Made => \A n \in 0 .. Len(snippet) :
        LET rest == SubSeq(snippet, n + 1, Len(snippet))
        IN  /\ n > 0 /\ snippet[n] = Mark =>
                \E term \in terms :
                    /\ At(rest, term, 0) /\ rest[Len(term) + 1] = EndMark
                    /\ \A longer \in terms : At(Unmarked(rest), longer, 0) => Len(longer) <= Len(term)
            /\ Outside(n) => \A term \in terms : ~At(rest, term, 0)

\* "a window of the given plain text around the first of the given terms it
\* contains" (12): the term is shown whole, unless it begins past the first half of
\* the window, or ends past it.  The window starts with the word a quarter of the
\* length before the term, which can be as long as the text.
HitShown ==
    Made /\ Hits(text, terms) # {} =>
        LET first == Min(Hits(text, terms))
            lead == first - length \div 4
        IN  \A term \in {t \in terms : At(text, t, first)} :
                LET Within(start) ==
                        first - start <= length \div 2 + 1 /\ first + Len(term) - start <= length
                IN  (\/ Within(0)
                     \/ \E s \in Spaces(text) : s < lead /\ Within(s + 1)
                     \/ Within(lead) /\ \A s \in Spaces(text) : s >= lead)
                    => \E n \in DOMAIN snippet :
                        snippet[n] = Mark /\ At(SubSeq(snippet, n + 1, Len(snippet)), term, 0)

\* A snippet starts with a word, unless the text has no word that starts before it
\* does (38-43), and ends with one where the window has a space past halfway (49-51);
\* and it says where it has left something out of the text, at either end, and
\* nowhere else (52-57).
WindowCut ==
    Made =>
        LET seen == Decoded(snippet)
        IN  \E start \in 0 .. Len(text) : \E stop \in start .. Len(text) :
                /\ seen = Dotted(start, stop)
                /\ start > 0 => text[start] = Space \/ \A s \in Spaces(text) : s >= start
                /\ stop < Len(text) =>
                    IF \E s \in Spaces(text) : start + length \div 2 < s /\ s < start + length
                    THEN text[stop + 1] = Space /\ stop > start + length \div 2
                    ELSE stop = start + length

\* "cut on a word boundary where there's one past halfway" (article.go:329), and
\* otherwise as long as it can be.
ExcerptCut ==
    excerpt # NotYet /\ excerpt # text =>
        LET cut == Len(excerpt) - 1
        IN  /\ Len(text) > length /\ cut <= length
            /\ excerpt = Append(SubSeq(text, 1, cut), Ellipsis)
            /\ IF \E s \in Spaces(text) : length \div 2 < s /\ s < length
               THEN cut > length \div 2 /\ text[cut + 1] = Space
               ELSE cut = length
=============================================================================
