------------------------------ MODULE MCSearch ------------------------------
(* Two decisions of a passage and an appendix each. *)
EXTENDS Search

MCDocs == {1, 2}

MCLabels == {<<"keyword", 1>>, <<"keyword", 2>>, <<"role", 1>>}

MCNormal == [q \in {"jav", "Jav ", "sekretess", "opartiskhet", ""} |->
                CASE q = "Jav " -> "jav" [] q = "" -> None [] OTHER -> q]

MCVariants == {<<>>, <<"Jav ", "", "opartiskhet", "opartiskhet">>}

MCPassages == MCDocs \X Sections

Scores(b1, a1, b2, a2) ==
    [p \in MCPassages |-> CASE p = <<1, "body">> -> b1 [] p = <<1, "appendix">> -> a1
                          [] p = <<2, "body">> -> b2 [] p = <<2, "appendix">> -> a2]

MCSimilarity ==
    [q \in DOMAIN MCNormal |->
        CASE q = "jav" -> Scores(2, 2, 1, 0) [] OTHER -> Scores(0, 1, 0, 0)]

MCTextRank ==
    [q \in DOMAIN MCNormal |->
        CASE q = "jav" -> Scores(1, 0, 1, 2)
          [] q = "sekretess" -> Scores(0, 0, 0, 1)
          [] OTHER -> Scores(2, 1, 1, 0)]
=============================================================================
