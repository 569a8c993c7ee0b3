------------------------------ MODULE MCSnippet ------------------------------
\* Words of one letter, which has two cases, and of those of the entity; texts of
\* each, and of what is in the entity or stands for what is left out.
EXTENDS Snippet, TLC

MCLetters == {"w", "W", "a", "m", "p"}
MCLower == [r \in MCLetters |-> IF r = "W" THEN "w" ELSE r]
MCQueries == {
    {}, {<<"w", "w">>}, {<<"w">>, <<"w", "w">>},
    {<<"w">>, <<"a", "m", "p">>}, {<<"w">>, <<"m", "p", "m">>}}
MCTexts ==
    BoundedSeq({"w", "W", Space, Amp}, 8)
        \cup BoundedSeq({"a", "m", "p", ";", Amp}, 6) \cup BoundedSeq({"w", Space, Ellipsis}, 7)
=============================================================================
