---------------------------- MODULE MCChatAgent ----------------------------
(* A corpus of two decisions, and a database of two tables. *)
EXTENDS ChatAgent

MCDecisions == {"x", "y"}

MCChunksOf == [x |-> <<"x1", "x2">>, y |-> <<"y1">>]

MCOutcomes == {<<[doc |-> "x", chunks |-> <<"x1">>]>>,
               <<[doc |-> "y", chunks |-> <<"y1">>], [doc |-> "x", chunks |-> <<"x2">>]>>}

MCIndexLists == {<<>>, <<9, 2, 2, 1>>}

MCHandleLists == {<<>>, <<<<"c", 9>>, <<"c", 2>>, <<"c", 1>>>>}

Column(freeText, selectable) == [freeText |-> freeText, selectable |-> selectable]

MCSemanticModel ==
    [documents |-> [category |-> Column(TRUE, TRUE), raw_text |-> Column(FALSE, FALSE)],
     chunks |-> [section |-> Column(FALSE, TRUE)]]

MCOrmTables ==
    [documents |-> {"category", "raw_text"}, chunks |-> {"section"}, tasks |-> {"status"}]

Statement(words, returns, tests) ==
    [count |-> 1, head |-> "select", words |-> words, star |-> FALSE,
     returns |-> returns, tests |-> tests, ctes |-> {}, tables |-> {"documents"}]

MCTally == Statement({}, {"category"}, {})
MCFilter == Statement({}, {}, {"category"})
MCUpdate == Statement({"update"}, {}, {})

MCStatements == {MCTally, MCFilter, MCUpdate}

MCExamples == {[sql |-> MCFilter, grounding |-> {<<"documents", "category">>}]}
=============================================================================
