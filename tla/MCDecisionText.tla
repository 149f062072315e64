--------------------------- MODULE MCDecisionText ---------------------------
(***************************************************************************)
(* A decision written in three ways, each rich in one thing: "fields" in   *)
(* orders of the trailer and in fields of the appended decision, "cites"   *)
(* in citations and provisions, "lengths" in sentences around the budget.  *)
(***************************************************************************)
EXTENDS DecisionText

L(kind, where, words, cites) ==
    [kind |-> kind, words |-> words, part |-> where, cites |-> cites]
Id(form, year, n) == <<"id", form, year, n>>
Prov(chapter, first, last) == <<"provision", chapter, first, last>>
Case(year, n) == <<"case", year, n>>
Decision(year, n) == <<"decision", year, n>>
Run(n) == <<"run", n>>
Stop == <<".">>
And == <<"och">>
ON == <<"ON">>
Beslut == <<"beslut">>

Opening == <<L("header", "head", <<<<"namnd">>>>, {}), L("date", "head", <<<<"day">>>>, {}),
             L("prose", "head", <<<<"category">>>>, {})>>

\* A title line instead of the category, and a date that is none.
OddOpening == <<L("date", "head", <<<<"bad">>>>, {}),
                L("prose", "head", <<Beslut, Id("YN", 2021, 1), Stop>>, {Decision(2021, 1)})>>

Heading(words) == L("heading", "holding", words, {})
Subject == L("subject", "trailer", <<<<"k1">>, Stop, <<"k2">>>>, {})
Wrapped == L("prose", "trailer", <<<<"k3">>, Stop>>, {})
Matter == L("matter", "trailer", <<ON, Id("YN", 2020, 39), <<",">>, ON, Id("YN", 2020, 36)>>, {})
Number == L("number", "trailer", <<Id("NY", 2021, 1)>>, {})
Label == L("label", "appendix", <<<<"A">>>>, {})
Rule == L("rule", "trailer", <<>>, {})

Lines(reasons, holding, trailer, appendix) ==
    [reasons |-> reasons, holding |-> holding, trailer |-> trailer, appendix |-> appendix]
Most(reasons, holding, trailer, appendix) ==
    [reasons |-> reasons, holding |-> holding, trailer |-> trailer, appendix |-> appendix]

Fields ==
    [head |-> OddOpening, pages |-> 3 .. 7,
     most |-> Most(1, 1, 4, 2),
     lines |-> Lines(
        {L("prose", "reasons", <<<<"rejects">>, ON, Id("YNNN", 2020, 36), Stop>>, {Case(2020, 36)})},
        {Heading(<<<<"grants">>>>)},
        {Subject, Wrapped, Matter, Number, Rule},
        {Label,
         L("subject", "appendix", <<<<"k9">>, Stop>>, {}),
         L("matter", "appendix", <<<<"DK">>, Id("YNNN", 2019, 7)>>, {}),
         L("number", "appendix", <<Id("NY", 2019, 40)>>, {}),
         L("date", "appendix", <<<<"otherday">>>>, {}),
         L("heading", "appendix", <<<<"grants">>, <<"dismisses">>>>, {})})]

Cites ==
    [head |-> Opening, pages |-> {4},
     most |-> Most(2, 2, 2, 2),
     lines |-> Lines(
        {L("prose", "reasons", <<Beslut, Id("NY", 2011, 13), And, Id("YN", 2022, 15), Stop>>,
           {Decision(2011, 13), Decision(2022, 15)}),
         L("prose", "reasons", <<ON, Id("YNNN", 2020, 37), <<",">>, Id("YN", 2019, 4)>>,
           {Case(2020, 37), Case(2019, 4)}),
         L("prose", "reasons", <<Id("NY", 2018, 3), Prov(47, 0, 0), Prov(57, 9, 19), Stop>>, {}),
         L("prose", "reasons", <<ON, Id("YN", 2020, 39), Prov(47, 2, 2)>>, {Case(2020, 39)})},
        {Heading(<<>>),
         L("prose", "holding", <<Prov(47, 1, 3), <<"role", "biskop">>>>, {}),
         L("prose", "holding", <<Prov(57, 8, 8), <<"named", <<"Motpart", "Y", "stift">>>>>>, {}),
         L("prose", "holding", <<Prov(57, 9, 18)>>, {})},
        {Subject, Matter, Number},
        {Label,
         L("prose", "appendix", <<Beslut, Id("NY", 2017, 5), Prov(57, 8, 19)>>, {}),
         L("prose", "appendix", <<Prov(47, 1, 1), Prov(46, 0, 0), <<"role", "biskop">>>>, {})})]

Sentences(where) ==
    {L("prose", where, <<Run(6), Stop, Run(1), Stop>>, {}),
     L("prose", where, <<Run(10), Stop>>, {}),
     L("prose", where, <<Run(4)>>, {}),
     L("prose", where, <<Run(12), Stop, Run(1), Stop>>, {})}

Lengths ==
    [head |-> Opening, pages |-> {3, 4},
     most |-> Most(3, 0, 1, 3),
     lines |-> Lines(Sentences("reasons"), {}, {Matter}, {Label} \union Sentences("appendix"))]

\* The last of them is another decision's.
TheHeadlines == {None, <<<<"title">>>>, <<Beslut, Id("YN", 2021, 1), <<"title">>>>,
                 <<Beslut, Id("YN", 2019, 40), <<"title">>>>}

Answer(case, date) == [case |-> case, decision |-> None, date |-> <<date>>, outcome |-> None,
                       category |-> <<<<"guess">>>>]
\* A number of another registry, the decision's own, and the appended one's.
TheAnswers == {None, Answer(<<<<"DK">>, Id("YNNN", 2019, 7)>>, <<"bad">>),
              Answer(<<ON, Id("YN", 2020, 39)>>, <<"day">>),
              Answer(<<Id("YNNN", 2019, 7)>>, <<"otherday">>)}

NoFinding == [entities |-> {}, references |-> {}]

TheFindings ==
    {NoFinding,
     [entities |-> {[name |-> <<"keyword", <<<<"k8">>>>>>, relevance |-> "PRIMARY"],
                    [name |-> <<"role", "biskop">>, relevance |-> "PRIMARY"]},
      references |-> {<<"spelled", "ON 2020/37">>}]}

\* Too small, the smallest that holds a sentence, larger, and none reported.
TheWindows == {6, 16, 28, 1000}

TheSummaries == {<<Run(2), Stop>>, <<Run(1), Stop, Run(2), Stop>>, <<Run(1), Run(1), Run(1), Stop>>}
\* What is beside the point of a template takes one value in it.
Meeting(headlines, answers, strategies, findings, windows, summaries) ==
    [headlines |-> headlines, answers |-> answers, strategies |-> strategies,
     findings |-> findings, windows |-> windows, summaries |-> summaries]

MCTemplates ==
    [fields |-> Fields @@ Meeting(TheHeadlines, TheAnswers, {"rules"}, {NoFinding}, {28}, {<<>>}),
     cites |-> Cites @@ Meeting({None}, {None}, {"rules", "fallback", "model"}, TheFindings,
                                {28}, {<<>>}),
     lengths |-> Lengths @@ Meeting({None}, {None}, {"rules"}, {NoFinding}, TheWindows,
                                    TheSummaries)]
=============================================================================
