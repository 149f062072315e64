-------------------------- MODULE AgentConversation --------------------------
(***************************************************************************)
(* Agent mode between one browser tab and the API: the hook that holds the *)
(* conversation on screen (features/agent/useAgentConversation.ts), the    *)
(* query cache its transcripts are restored from (api/queries.ts), and the *)
(* chat route that streams a turn and then stores it (api/routes/chat.py). *)
(*                                                                         *)
(* A turn is the number of the question it answers.  Conversations that    *)
(* are there from the start hold one turn, named like themselves.  What    *)
(* React does at one event (the handler, the render, its effects) is one   *)
(* step; requests, frames and replies are under way for any time.          *)
(***************************************************************************)
EXTENDS FiniteSets, Naturals, Sequences

CONSTANTS
    Sessions,    \* ids the server has given or will give to conversations
    Stored,      \* those that hold a turn from an earlier visit
    None,        \* no conversation: the route /agent, a null session_id
    MaxAsks,     \* questions asked
    MaxVisits    \* times the user opens another conversation or a new one

ASSUME ConversationAssumption ==
    /\ Stored \subseteq Sessions
    /\ None \notin Sessions
    /\ Sessions \intersect (1 .. MaxAsks) = {}
    /\ MaxAsks \in Nat
    /\ Cardinality(Sessions \ Stored) >= MaxAsks
    /\ MaxVisits \in Nat

Asked == 1 .. MaxAsks

Turns == Asked \union Stored

Routes == Sessions \union {None}

VARIABLES
    \* the server
    created,  \* conversations that have a row
    history,  \* the turns stored with each
    writes,   \* the history a question's open UPDATE will leave when it commits
    turn,     \* how far the server is with each question, and where it stores it
    wire,     \* frames sent and not read, of each question's stream
    \* the hook
    route,    \* routeSessionId
    shown,    \* the last route the hook acted on
    own,      \* ownStarted
    sid,      \* sessionId, sent with the next question
    screen,   \* the turns on screen
    reading,  \* questions whose stream the tab reads
    holder,   \* the question whose controller `abort` holds, 0 if none
    \* the query cache
    cache,    \* the transcript held for each conversation
    fetch,    \* the request for it, if one is under way
    \* bookkeeping
    from,     \* the route each question was asked on
    visits,
    hasty     \* a route was left while a turn was open, or a question asked
              \* while a transcript was being fetched

serverVars == <<created, history, writes>>
hookVars == <<route, shown, own, sid>>
queryVars == <<cache, fetch>>
vars == <<created, history, writes, turn, wire, route, shown, own, sid, screen, reading,
          holder, cache, fetch, from, visits, hasty>>

\* An append is open, and holds its row, from "appended" until it is "over".
Stages == {"unasked", "opening", "answering", "told", "appended", "closed", "over"}

Statuses == {"streaming", "done", "error", "aborted"}

Frames == {"done", "error", "end"}

NotCached == [held |-> FALSE, turns |-> {}, stale |-> FALSE]

Idle == [at |-> "idle", turns |-> {}]

TypeOK ==
    /\ created \in SUBSET Sessions
    /\ history \in [Sessions -> SUBSET Turns]
    /\ writes \in [Asked -> SUBSET Turns]
    /\ turn \in [Asked -> [at : Stages, to : Routes, in : Routes]]
    /\ wire \in [Asked -> Seq(Frames)]
    /\ {route, shown, own, sid} \subseteq Routes
    /\ screen \subseteq [of : Turns, live : BOOLEAN, status : Statuses]
    /\ reading \in SUBSET Asked
    /\ holder \in reading \union {0}
    /\ cache \in [Sessions -> [held : BOOLEAN, turns : SUBSET Turns, stale : BOOLEAN]]
    /\ fetch \in [Sessions -> [at : {"idle", "sent", "answered"}, turns : SUBSET Turns]]
    /\ from \in [Asked -> Routes]
    /\ visits \in 0 .. MaxVisits
    /\ hasty \in BOOLEAN

Init ==
    /\ created = Stored
    /\ history = [s \in Sessions |-> IF s \in Stored THEN {s} ELSE {}]
    /\ writes = [n \in Asked |-> {}]
    /\ turn = [n \in Asked |-> [at |-> "unasked", to |-> None, in |-> None]]
    /\ wire = [n \in Asked |-> <<>>]
    /\ route = None /\ shown = None /\ own = None /\ sid = None
    /\ screen = {}
    /\ reading = {}
    /\ holder = 0
    /\ cache = [s \in Sessions |-> NotCached]
    /\ fetch = [s \in Sessions |-> Idle]
    /\ from = [n \in Asked |-> None]
    /\ visits = 0
    /\ hasty = FALSE

(***************************************************************************)
(* What the hook renders.                                                  *)
(***************************************************************************)
\* Variant: a conversation started here is read back like any other.
RestoreAlways(r, started) == r

\* The conversation whose transcript is wanted: the route's, unless it was
\* started here and is on screen already.
Restore(r, started) == IF r = started THEN None ELSE r

Restored(turns) == {[of |-> t, live |-> FALSE, status |-> "done"] : t \in turns}

RestoredTurns(s) == Restored(cache[s].turns)

\* Variant: another conversation is opened beside the turns on screen.
KeepScreen(r) ==
    /\ shown' = r
    /\ own' = IF r = own THEN own ELSE None
    /\ sid' = r
    /\ screen' = screen \union (IF r # None /\ cache[r].held THEN RestoredTurns(r) ELSE {})

\* Variant: the next question still goes to the conversation that was left.
KeepSession(r) ==
    /\ shown' = r
    /\ own' = IF r = own THEN own ELSE None
    /\ sid' = sid
    /\ screen' = IF r # None /\ cache[r].held THEN RestoredTurns(r) ELSE {}

\* The route effect, and then the restore effect, of a render with route r: a
\* change of route clears the screen, unless it names what was started here.
EnterRoute(r) ==
    IF r = shown \/ (r # None /\ r = own)
    THEN /\ UNCHANGED <<own, sid, screen>>
         /\ shown' = r
    ELSE /\ shown' = r
         /\ own' = None
         /\ sid' = r
         /\ screen' = IF r # None /\ cache[r].held THEN RestoredTurns(r) ELSE {}

\* Enabling a transcript query fetches it when it is missing or invalidated.
Wanted(r) ==
    fetch' = IF r # None /\ (~cache[r].held \/ cache[r].stale) /\ fetch[r] = Idle
             THEN [fetch EXCEPT ![r].at = "sent"] ELSE fetch

(***************************************************************************)
(* What the user does.                                                     *)
(***************************************************************************)
\* A row of the rail, or "Nytt samtal".
Visit(r) ==
    /\ visits < MaxVisits
    /\ r # route
    /\ r \in Sessions => history[r] # {}
    /\ visits' = visits + 1
    /\ route' = r
    /\ EnterRoute(r)
    /\ Wanted(Restore(r, own'))
    /\ hasty' = (hasty \/ reading # {})
    /\ UNCHANGED <<serverVars, turn, wire, reading, holder, cache, from>>

\* The composer is closed while a turn is open; the examples a new conversation
\* offers are not.
MayAsk == holder = 0 \/ (route = None /\ screen = {})

Loading(r) == r # None /\ fetch[r] # Idle

Ask(n) ==
    /\ turn[n].at = "unasked"
    /\ \A i \in 1 .. n - 1 : turn[i].at # "unasked"
    /\ MayAsk
    /\ turn' = [turn EXCEPT ![n] = [@ EXCEPT !.at = "opening", !.to = sid]]
    /\ from' = [from EXCEPT ![n] = route]
    /\ screen' = screen \union {[of |-> n, live |-> TRUE, status |-> "streaming"]}
    /\ reading' = reading \union {n}
    /\ holder' = n
    /\ hasty' = (hasty \/ Loading(Restore(route, own)) \/ reading # {})
    /\ UNCHANGED <<serverVars, wire, hookVars, queryVars, visits>>

Settle(n, status, which) ==
    {IF t.of = n /\ t.live /\ t.status \in which THEN [t EXCEPT !.status = status] ELSE t :
        t \in screen}

\* Variant: only a stream that was read to its end gives the composer back.
ReleaseAtEnd(n, status, which) ==
    /\ reading' = reading \ {n}
    /\ holder' = IF holder = n /\ which # Statuses THEN 0 ELSE holder
    /\ screen' = Settle(n, status, which)

\* The reader's finally clause, and what becomes of a turn in one of the given
\* states.
Release(n, status, which) ==
    /\ reading' = reading \ {n}
    /\ holder' = IF holder = n THEN 0 ELSE holder
    /\ screen' = Settle(n, status, which)

\* Stopping marks the turn, finished or not, and leaves the server to notice.
Stop ==
    /\ holder # 0
    /\ Release(holder, "aborted", Statuses)
    /\ UNCHANGED <<serverVars, turn, wire, hookVars, queryVars, from, visits, hasty>>

(***************************************************************************)
(* What the API does.                                                      *)
(***************************************************************************)
At(n, stage) == turn[n].at = stage

\* The session is found, or created, and committed before the stream opens.
Open(n) ==
    /\ At(n, "opening")
    /\ \E s \in Sessions :
          /\ IF turn[n].to \in created THEN s = turn[n].to ELSE s \notin created
          /\ created' = created \union {s}
          /\ turn' = [turn EXCEPT ![n] = [@ EXCEPT !.at = "answering", !.in = s]]
    /\ UNCHANGED <<history, writes, wire, hookVars, screen, reading, holder,
                   queryVars, from, visits, hasty>>

\* done goes out before the turn is stored.
Tell(n) ==
    /\ At(n, "answering")
    /\ turn' = [turn EXCEPT ![n].at = "told"]
    /\ wire' = [wire EXCEPT ![n] = Append(@, "done")]
    /\ UNCHANGED <<serverVars, hookVars, screen, reading, holder, queryVars, from,
                   visits, hasty>>

HoldsRow(n) == At(n, "appended") \/ At(n, "closed")

\* Variant: the history is read, and written back when no other append is open.
AppendToWhatWasRead(n) ==
    /\ At(n, "told")
    /\ turn' = [turn EXCEPT ![n].at = "appended"]
    /\ writes' = [writes EXCEPT ![n] = history[turn[n].in] \union {n}]
    /\ UNCHANGED <<created, history, wire, hookVars, screen, reading, holder,
                   queryVars, from, visits, hasty>>

\* One UPDATE appends to the row.  It waits for another that has not committed,
\* and then sees what that one wrote; its own holds the row until it commits.
AppendTurn(n) ==
    /\ At(n, "told")
    /\ \A m \in Asked : HoldsRow(m) => turn[m].in # turn[n].in
    /\ turn' = [turn EXCEPT ![n].at = "appended"]
    /\ writes' = [writes EXCEPT ![n] = history[turn[n].in] \union {n}]
    /\ UNCHANGED <<created, history, wire, hookVars, screen, reading, holder,
                   queryVars, from, visits, hasty>>

\* The stream ends before the request's transaction commits.
Finish(n) ==
    /\ At(n, "appended")
    /\ turn' = [turn EXCEPT ![n].at = "closed"]
    /\ wire' = [wire EXCEPT ![n] = Append(@, "end")]
    /\ UNCHANGED <<serverVars, hookVars, screen, reading, holder, queryVars, from,
                   visits, hasty>>

\* The request's session commits when the response is over.
Store(n) ==
    /\ At(n, "closed")
    /\ history' = [history EXCEPT ![turn[n].in] = writes[n]]
    /\ turn' = [turn EXCEPT ![n].at = "over"]
    /\ UNCHANGED <<created, writes, wire, hookVars, screen, reading, holder,
                   queryVars, from, visits, hasty>>

\* Before done the agent reports an error or the process dies; after it the
\* UPDATE raises, which the route logs and swallows, the commit fails, or the
\* server notices that the tab has gone.  What was appended is rolled back.
GiveUp(n) ==
    /\ At(n, "answering") \/ At(n, "told") \/ HoldsRow(n)
    /\ turn' = [turn EXCEPT ![n].at = "over"]
    /\ wire' = [wire EXCEPT ![n] = @ \o
                  (IF At(n, "answering") THEN <<"error", "end">>
                   ELSE IF At(n, "closed") THEN <<>> ELSE <<"end">>)]
    /\ UNCHANGED <<serverVars, hookVars, screen, reading, holder, queryVars, from,
                   visits, hasty>>

\* GET /api/sessions/{id}, when the server reads the row.
Answer(s) ==
    /\ fetch[s].at = "sent"
    /\ fetch' = [fetch EXCEPT ![s] = [at |-> "answered", turns |-> history[s]]]
    /\ UNCHANGED <<serverVars, turn, wire, hookVars, screen, reading, holder, cache,
                   from, visits, hasty>>

(***************************************************************************)
(* What arrives in the tab.                                                *)
(***************************************************************************)
\* The request is refused, or never reached the server.
Unopened(n) ==
    /\ At(n, "opening")
    /\ n \in reading
    /\ turn' = [turn EXCEPT ![n].at = "over"]
    /\ Release(n, "error", Statuses)
    /\ UNCHANGED <<serverVars, wire, hookVars, queryVars, from, visits, hasty>>

\* The connection breaks before the stream's end is read.
Break(n) ==
    /\ n \in reading
    /\ ~At(n, "opening")
    /\ Release(n, "error", Statuses)
    /\ UNCHANGED <<serverVars, turn, wire, hookVars, queryVars, from, visits, hasty>>

\* The effect of the render in which a transcript changed.
Receive(s) ==
    /\ fetch[s].at = "answered"
    /\ cache' = [cache EXCEPT ![s] = [held |-> TRUE, turns |-> fetch[s].turns,
                                      stale |-> FALSE]]
    /\ fetch' = [fetch EXCEPT ![s] = Idle]
    /\ screen' = IF Restore(route, own) = s
                    /\ (~cache[s].held \/ cache[s].turns # fetch[s].turns)
                 THEN Restored(fetch[s].turns)
                 ELSE screen
    /\ UNCHANGED <<serverVars, turn, wire, hookVars, reading, holder, from, visits,
                   hasty>>

Arrives(n, frame) == n \in reading /\ wire[n] # <<>> /\ Head(wire[n]) = frame

\* Invalidating the list's key invalidates every transcript, whose keys it is a
\* prefix of; the one the last render wanted is fetched again at once, and the
\* one the next render wants when it is enabled.
Invalidate(before, after) ==
    LET stale == [s \in Sessions |-> [cache[s] EXCEPT !.stale = cache[s].held]]
        again == {s \in {before} \intersect Sessions : cache[s].held}
                 \union {s \in {after} \intersect Sessions : fetch[s] = Idle}
    IN  /\ cache' = stale
        /\ fetch' = [s \in Sessions |->
                        IF s \in again THEN [at |-> "sent", turns |-> {}] ELSE fetch[s]]

\* done names the conversation: a question that started one takes the tab to it.
HearDone(n) ==
    LET s == turn[n].in
        r == IF turn[n].to = None THEN s ELSE route
    IN  /\ Arrives(n, "done")
        /\ wire' = [wire EXCEPT ![n] = Tail(@)]
        /\ own' = s
        /\ sid' = s
        /\ route' = r
        /\ shown' = r
        /\ Invalidate(Restore(route, own), Restore(r, s))
        /\ screen' = IF Restore(r, s) # None /\ Restore(r, s) # Restore(route, own)
                        /\ cache[r].held
                     THEN RestoredTurns(r) ELSE Settle(n, "done", Statuses)
        /\ UNCHANGED <<serverVars, turn, reading, holder, from, visits, hasty>>

HearError(n) ==
    /\ Arrives(n, "error")
    /\ wire' = [wire EXCEPT ![n] = Tail(@)]
    /\ screen' = Settle(n, "error", Statuses)
    /\ UNCHANGED <<serverVars, turn, hookVars, reading, holder, queryVars, from,
                   visits, hasty>>

\* A stream that ends without done or error was cut off.
HearEnd(n) ==
    /\ Arrives(n, "end")
    /\ wire' = [wire EXCEPT ![n] = Tail(@)]
    /\ Release(n, "aborted", {"streaming"})
    /\ UNCHANGED <<serverVars, turn, hookVars, queryVars, from, visits, hasty>>

Serve(n) == Open(n) \/ Tell(n) \/ AppendTurn(n) \/ Finish(n) \/ Store(n) \/ GiveUp(n)

Hear(n) == HearDone(n) \/ HearError(n) \/ HearEnd(n)

Next ==
    \/ \E r \in Routes : Visit(r)
    \/ \E n \in Asked : Ask(n) \/ Serve(n) \/ Unopened(n) \/ Break(n) \/ Hear(n)
    \/ Stop
    \/ \E s \in Sessions : Answer(s) \/ Receive(s)

Spec == Init /\ [][Next]_vars

\* Requests are served, replies and frames arrive; the user need not do anything.
FairSpec ==
    /\ Spec
    /\ \A n \in Asked : WF_vars(Serve(n)) /\ WF_vars(Hear(n))
    /\ \A s \in Sessions : WF_vars(Answer(s)) /\ WF_vars(Receive(s))

(***************************************************************************)
(* Properties.                                                             *)
(***************************************************************************)
\* The conversation a turn on screen was stored with, or will be.
HomeOf(t) == IF t.of \in Asked THEN turn[t.of].in ELSE t.of

\* Where the user waits for answers and transcripts, every finished turn on
\* screen is one of the conversation the address names.
ScreenIsRoute ==
    ~hasty => \A t \in screen : t.status = "done" => HomeOf(t) = route

\* A question goes to the conversation whose address it was asked under; where
\* that is nobody's, to a new one.
AskedWhereShown == \A n \in Asked : turn[n].at # "unasked" => turn[n].to = from[n]

\* The same for a user who waits.
PatientlyAskedWhereShown == ~hasty => AskedWhereShown

\* "A conversation this hook started is already on screen; re-reading it ... would
\* duplicate every turn": a live turn, with its sources, gives way to no transcript;
\* only a visit elsewhere takes it off the screen.
LiveTurnsStay ==
    [][~hasty' /\ visits' = visits =>
        \A t \in screen : t.live => \E u \in screen' : u.live /\ u.of = t.of]_vars

\* "Two turns arriving at once both survive" (repositories/session.py:111): what a
\* commit leaves of a history, read when its UPDATE ran, holds every turn that has
\* been committed to it by then, those of requests that were appending at once.
StoredTurnsSurvive ==
    [][\A s \in Sessions : history[s] \subseteq history'[s]]_vars

\* The composer is always given back.
ComposerReturns == []<>(holder = 0)

\* "A turn is appended once and never edited, so a transcript already fetched
\* cannot go stale" (api/queries.ts:174): for a user who waits, once every question
\* is on screen with its answer and no stream is open, a transcript held as fresh
\* is the conversation's.
TranscriptsAreCurrent ==
    /\ ~hasty
    /\ reading = {}
    /\ \A n \in Asked :
          \/ At(n, "unasked")
          \/ At(n, "over") /\ \E t \in screen : t.of = n /\ t.status = "done"
    => \A s \in Sessions :
           cache[s].held /\ ~cache[s].stale /\ fetch[s] = Idle =>
               cache[s].turns = history[s]
=============================================================================
