------------------------------ MODULE SqlAgent ------------------------------
(***************************************************************************)
(* The text-to-SQL agent: the semantic model it is held to, the guard a    *)
(* statement has to pass, the tools of its loop and the result it leaves.  *)
(* A run is a record, so that the caller can hold one for each question.   *)
(*                                                                         *)
(* A statement is what the guard can tell of it once comments and literals *)
(* are blanked: how many statements it holds, its head, the words in it,   *)
(* the tables it reads, the columns it returns and those it tests.         *)
(***************************************************************************)
EXTENDS Naturals, Sequences, FiniteSets, FiniteSetsExt

CONSTANTS
    SemanticModel,     \* table -> column -> [freeText, selectable]
    OrmTables,         \* table -> its columns, as the models declare them
    Examples,          \* the worked statements shown to the model
    Statements,        \* what the model may ask to run
    SqlIterations,     \* sql_agent_max_iterations
    NoStatement

NeverExposed == {"sessions", "tasks", "alembic_version"}

Forbidden == {"insert", "update", "delete", "set", "pg_read_file"}

ExposedTables == DOMAIN SemanticModel

ExposedColumns ==
    UNION {{<<t, c>> : c \in DOMAIN SemanticModel[t]} : t \in ExposedTables}

\* Bare names: a column is blocked on whatever table it sits.
BlockedColumns ==
    {tc[2] : tc \in {tc \in ExposedColumns : ~SemanticModel[tc[1]][tc[2]].selectable}}

GroundingRequired ==
    {tc \in ExposedColumns : SemanticModel[tc[1]][tc[2]].freeText}

\* The message would differ; what matters is whether the statement runs.
CheckSql(s) ==
    /\ s.count = 1
    /\ s.head \in {"select", "with"}
    /\ s.words \intersect Forbidden = {}
    /\ ~s.star
    /\ (s.returns \union s.tests) \intersect BlockedColumns = {}
    /\ s.tables \subseteq ExposedTables \union s.ctes

\* Columns are matched by name alone, wherever a value is tested.
PredicateColumns(s) == {tc \in GroundingRequired : tc[2] \in s.tests}

\* What startup refuses to go on without: the file and the models describe the
\* same tables, and no example is one the agent could not run.
CheckSemanticModel ==
    /\ ExposedTables \intersect NeverExposed = {}
    /\ \A t \in ExposedTables :
          t \in DOMAIN OrmTables /\ DOMAIN SemanticModel[t] = OrmTables[t]
    /\ \A e \in Examples : CheckSql(e.sql) /\ PredicateColumns(e.sql) \subseteq e.grounding

ASSUME SemanticModelHolds == CheckSemanticModel

(***************************************************************************)
(* One run of the loop.                                                    *)
(***************************************************************************)
\* `rows` stands for the statement the last rows came from.
NewRun == [grounded |-> {}, attempts |-> <<>>, rows |-> NoStatement, iterations |-> 0]

\* The values of a column are read, or the column is one that cannot be.
ListColumnValues(run, tc) ==
    IF tc \in GroundingRequired /\ tc[2] \notin BlockedColumns
    THEN [run EXCEPT !.grounded = @ \union {tc}]
    ELSE run

Refuses(run, s) == ~CheckSql(s) \/ ~(PredicateColumns(s) \subseteq run.grounded)

\* `executes` is Postgres's verdict on a statement that got that far.
RunSql(run, s, executes) ==
    LET ok == ~Refuses(run, s) /\ executes
    IN  [run EXCEPT !.attempts = Append(@, [sql |-> s, ok |-> ok]),
                    !.rows = IF ok THEN s ELSE @]

Iterated(run) == [run EXCEPT !.iterations = @ + 1]

\* The runs one iteration of the loop may leave.  Noting an assumption, and a
\* call the loop refuses, leave it as it was.
Iterations(run) ==
    IF run.iterations >= SqlIterations THEN {}
    ELSE {Iterated(run)}
         \union {Iterated(ListColumnValues(run, tc)) : tc \in ExposedColumns}
         \union {Iterated(RunSql(run, s, executes)) :
                    s \in Statements, executes \in BOOLEAN}

\* However the loop ended, the last successful query is the answer.
Result(run) ==
    LET successful == {i \in DOMAIN run.attempts : run.attempts[i].ok}
        answered == successful # {} /\ run.rows # NoStatement
    IN  [answered |-> answered,
         sql |-> IF answered THEN run.attempts[Max(successful)].sql ELSE NoStatement,
         rows |-> IF answered THEN run.rows ELSE NoStatement]

Attempts == [sql : Statements, ok : BOOLEAN]

Runs ==
    [grounded : SUBSET ExposedColumns, attempts : Seq(Attempts),
     rows : Statements \union {NoStatement}, iterations : Nat]

Results ==
    [answered : BOOLEAN, sql : Statements \union {NoStatement},
     rows : Statements \union {NoStatement}]
=============================================================================
