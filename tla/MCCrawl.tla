------------------------------ MODULE MCCrawl ------------------------------
(* Four entries, three of this year, two of them one decision; a fifth may *)
(* be published while a crawl pages through them.                          *)
EXTENDS Crawl, TLC

MCIds == 1..5

MCNumberOf == <<"1/2024", "1/2024", None, "7/2013", "2/2024">>

MCTagOf == <<"b24", "b24", "b24", "b13", "b24">>

\* 2013 has a second tag without decisions, and one tag has no year.
MCTagRows == {<<"b24", 2024>>, <<"b13", 2013>>, <<"empty13", 2013>>, <<"undated", None>>}

MCSpecs ==
    {[word |-> "current", parts |-> {}], [word |-> "all", parts |-> {}],
     [word |-> "years", parts |-> {<<2013, 2013>>, <<2023, 2024>>}],
     [word |-> "years", parts |-> {<<1998, 1999>>}],
     [word |-> "years", parts |-> {<<2024, 2013>>}]}

MCListings == {<<2, 2, 3, 1, 0>>, <<2, 3, 2, 1, 0>>}

MCSymmetry == Permutations(Crawlers)
=============================================================================
