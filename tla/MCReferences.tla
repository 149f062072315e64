---------------------------- MODULE MCReferences ----------------------------
(***************************************************************************)
(* A corpus of three decisions.  d1 and d2 are two rulings in one matter,  *)
(* so both carry its arendenummer "m"; d2 and d3 have a beslutsnummer of   *)
(* their own.  d3 cites the matter and d2's ruling, d1 cites d3's, and d2  *)
(* quotes its own number, as decisions do in their headers.  Metadata may  *)
(* misread d2's number as d3's, and correct itself on the second run, or   *)
(* get it right and then wrong.                                            *)
(***************************************************************************)
EXTENDS References

MCDocs == {"d1", "d2", "d3"}

MCIdents == {"m", "b2", "b3"}

MCColumn == [i \in MCIdents |-> IF i = "m" THEN "case_number" ELSE "decision_number"]

MCAnswers == [d \in MCDocs |-> CASE d = "d1" -> {"m"}
                                 [] d = "d2" -> {"m", "b2", "b3"}
                                 [] d = "d3" -> {"b3"}]

MCCites == [d \in MCDocs |-> CASE d = "d1" -> {"b3"}
                               [] d = "d2" -> {"b2"}
                               [] d = "d3" -> {"m", "b2"}]

MCRank == [d \in MCDocs |-> CASE d = "d1" -> 2 [] d = "d2" -> 1 [] d = "d3" -> 3]

\* d2 and d3 are extracted twice.
MCRuns == [d \in MCDocs |-> IF d = "d1" THEN 1 ELSE 2]
=============================================================================
