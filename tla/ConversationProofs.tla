------------------------- MODULE ConversationProofs -------------------------
(***************************************************************************)
(* Theorems about AgentConversation: for any number of conversations,      *)
(* questions and visits, and every order of requests, frames and replies.  *)
(***************************************************************************)
EXTENDS AgentConversation, SequenceTheorems, TLAPS

(***************************************************************************)
(* The inductive invariant.                                                *)
(***************************************************************************)
Known == created \union {None}

\* A question is stored with the conversation it was sent to, or with one that
\* was created for it; nothing is heard of it before.
PlacesAgree ==
    /\ \A s \in Sessions : history[s] # {} => s \in created
    /\ \A n \in Asked :
          /\ turn[n].to \in Known /\ turn[n].in \in Known
          /\ turn[n].at \in {"unasked", "opening"} => turn[n].in = None
          /\ turn[n].at \in {"answering", "told", "appended", "closed"} => turn[n].in # None
          /\ wire[n] # <<>> => turn[n].in # None
          /\ turn[n].to # None /\ turn[n].in # None => turn[n].in = turn[n].to

\* One append at a time holds the row of a conversation, and will leave in it what
\* was committed to it and the turn it stores.
AppendsInTurn ==
    /\ \A n \in Asked : HoldsRow(n) => writes[n] = history[turn[n].in] \union {n}
    /\ \A m, n \in Asked :
          HoldsRow(m) /\ HoldsRow(n) /\ turn[m].in = turn[n].in => m = n

\* The conversation of a turn.
Home(t) == IF t \in Asked THEN turn[t].in ELSE t

\* A turn is read only in its own conversation.
TurnsAtHome ==
    \A s \in Sessions : \A t \in history[s] \union cache[s].turns \union fetch[s].turns :
        Home(t) = s

\* What is done was stored, or will be.
DoneHasHome == \A t \in screen : t.status = "done" => Home(t.of) # None

HookKnows == {route, own, sid} \subseteq Known

\* Nothing the hook holds names another conversation than the address.
HookAgrees ==
    ~hasty =>
        /\ sid = route /\ shown = route /\ own \in {None, route}
        /\ \A m, n \in reading : m = n
        /\ \A n \in reading :
              turn[n].to = route \/ (turn[n].to = None /\ turn[n].in = route)

\* No transcript is under way that would replace a turn asked here.
LiveIsSafe ==
    ~hasty => \A t \in screen : t.live => ~Loading(Restore(route, own))

Inductive ==
    /\ TypeOK
    /\ PlacesAgree
    /\ TurnsAtHome
    /\ DoneHasHome
    /\ HookKnows
    /\ HookAgrees
    /\ LiveIsSafe
    /\ ScreenIsRoute
    /\ PatientlyAskedWhereShown

(***************************************************************************)
(* Types.                                                                  *)
(***************************************************************************)
TurnRecords == [at : Stages, to : Routes, in : Routes]

ScreenRecords == [of : Turns, live : BOOLEAN, status : Statuses]

CacheRecords == [held : BOOLEAN, turns : SUBSET Turns, stale : BOOLEAN]

FetchRecords == [at : {"idle", "sent", "answered"}, turns : SUBSET Turns]

\* The server moves a question on.
LEMMA TurnUpdate ==
    ASSUME TypeOK, NEW n \in Asked, NEW r \in TurnRecords, turn' = [turn EXCEPT ![n] = r]
    PROVE  /\ turn' \in [Asked -> TurnRecords]
           /\ turn'[n] = r
           /\ \A m \in Asked \ {n} : turn'[m] = turn[m]
  <1>1. turn \in [Asked -> TurnRecords]
    BY DEF TypeOK, TurnRecords
  <1> HIDE DEF TurnRecords
  <1> QED  BY <1>1

\* A question that only comes to another stage.
LEMMA StageUpdate ==
    ASSUME TypeOK, NEW n \in Asked, NEW stage \in Stages, turn' = [turn EXCEPT ![n].at = stage]
    PROVE  /\ turn' \in [Asked -> TurnRecords]
           /\ turn'[n].at = stage /\ turn'[n].to = turn[n].to /\ turn'[n].in = turn[n].in
           /\ \A m \in Asked \ {n} : turn'[m] = turn[m]
  <1> DEFINE r == [turn[n] EXCEPT !.at = stage]
  <1>1. turn[n] \in TurnRecords
    BY DEF TypeOK, TurnRecords
  <1>2. r \in TurnRecords /\ r.at = stage /\ r.to = turn[n].to /\ r.in = turn[n].in
    BY <1>1 DEF TurnRecords
  <1>3. turn' = [turn EXCEPT ![n] = r]
    OBVIOUS
  <1> HIDE DEF r
  <1> QED  BY <1>2, <1>3, TurnUpdate

\* A turn that is settled stays on the screen as what it is.
LEMMA SettleEffect ==
    ASSUME TypeOK, NEW n, NEW status \in Statuses, NEW which
    PROVE  /\ Settle(n, status, which) \subseteq ScreenRecords
           /\ \A t \in screen : \E u \in Settle(n, status, which) :
                 u.of = t.of /\ u.live = t.live
           /\ \A u \in Settle(n, status, which) : \E t \in screen :
                 /\ u.of = t.of /\ u.live = t.live
                 /\ u.status = t.status \/ (u.status = status /\ t.of = n)
  <1> DEFINE To(t) == IF t.of = n /\ t.live /\ t.status \in which
                      THEN [t EXCEPT !.status = status] ELSE t
  <1>1. ASSUME NEW t \in screen
        PROVE  /\ To(t) \in ScreenRecords /\ To(t).of = t.of /\ To(t).live = t.live
               /\ To(t).status = t.status \/ (To(t).status = status /\ t.of = n)
    <2>1. t \in ScreenRecords
      BY DEF TypeOK, ScreenRecords
    <2> QED  BY <2>1 DEF ScreenRecords
  <1>2. Settle(n, status, which) = {To(t) : t \in screen}
    BY DEF Settle
  <1> HIDE DEF To
  <1> QED  BY <1>1, <1>2

LEMMA RestoredEffect ==
    ASSUME NEW turns \in SUBSET Turns
    PROVE  /\ Restored(turns) \subseteq ScreenRecords
           /\ \A u \in Restored(turns) : u.of \in turns /\ ~u.live
  <1>1. ASSUME NEW u \in Restored(turns)
        PROVE  u \in ScreenRecords /\ u.of \in turns /\ ~u.live
    <2>1. PICK t \in turns : u = [of |-> t, live |-> FALSE, status |-> "done"]
      BY DEF Restored
    <2>2. t \in Turns
      OBVIOUS
    <2> QED  BY <2>1, <2>2 DEF ScreenRecords, Statuses
  <1> QED  BY <1>1

\* What the screen shows after a change of route.
LEMMA EnterRouteEffect ==
    ASSUME TypeOK, NEW r \in Routes, EnterRoute(r)
    PROVE  /\ {shown', own', sid'} \subseteq Routes
           /\ screen' \subseteq ScreenRecords
           /\ shown' = r /\ own' \in {own, None} /\ sid' \in {sid, r}
           /\ \/ (r = shown \/ (r # None /\ r = own)) /\ UNCHANGED <<own, sid, screen>>
              \/ /\ own' = None /\ sid' = r
                 /\ \A u \in screen' : r \in Sessions /\ u.of \in cache[r].turns /\ ~u.live
  <1>1. /\ {shown, own, sid} \subseteq Routes /\ None \in Routes
        /\ screen \subseteq ScreenRecords
    BY DEF TypeOK, ScreenRecords, Routes
  <1>2. CASE r = shown \/ (r # None /\ r = own)
    BY <1>1, <1>2 DEF EnterRoute
  <1>3. CASE ~(r = shown \/ (r # None /\ r = own))
    <2>1. /\ shown' = r /\ own' = None /\ sid' = r
          /\ screen' = IF r # None /\ cache[r].held THEN RestoredTurns(r) ELSE {}
      BY <1>3 DEF EnterRoute
    <2>2. ASSUME r # None
          PROVE  r \in Sessions /\ cache[r].turns \in SUBSET Turns
      BY <2>2 DEF TypeOK, Routes
    <2> QED  BY <1>1, <2>1, <2>2, RestoredEffect DEF RestoredTurns
  <1> QED  BY <1>2, <1>3

LEMMA WantedEffect ==
    ASSUME TypeOK, NEW r \in Routes, Wanted(r)
    PROVE  /\ fetch' \in [Sessions -> FetchRecords]
           /\ \A s \in Sessions : fetch'[s].turns = fetch[s].turns
           /\ \A s \in Sessions \ {r} : fetch'[s] = fetch[s]
  <1>1. fetch \in [Sessions -> FetchRecords]
    BY DEF TypeOK, FetchRecords
  <1>2. CASE fetch' = fetch
    BY <1>1, <1>2
  <1>3. CASE r # None /\ fetch' = [fetch EXCEPT ![r].at = "sent"]
    <2>1. r \in Sessions /\ fetch[r] \in FetchRecords
      BY <1>1, <1>3 DEF Routes
    <2> DEFINE f == [fetch[r] EXCEPT !.at = "sent"]
    <2>2. f \in FetchRecords /\ f.turns = fetch[r].turns
      BY <2>1 DEF FetchRecords
    <2>3. fetch' = [fetch EXCEPT ![r] = f]
      BY <1>3
    <2> HIDE DEF f, FetchRecords
    <2> QED  BY <1>1, <2>1, <2>2, <2>3
  <1> QED  BY <1>2, <1>3 DEF Wanted

\* Invalidating holds on to the transcripts there are.
LEMMA InvalidateEffect ==
    ASSUME TypeOK, NEW before, NEW after, Invalidate(before, after)
    PROVE  /\ cache' \in [Sessions -> CacheRecords] /\ fetch' \in [Sessions -> FetchRecords]
           /\ \A s \in Sessions :
                 /\ cache'[s].turns = cache[s].turns
                 /\ fetch'[s].turns \subseteq fetch[s].turns
  <1>1. ASSUME NEW s \in Sessions
        PROVE  LET r == [cache[s] EXCEPT !.stale = cache[s].held]
               IN  r \in CacheRecords /\ r.turns = cache[s].turns
    <2>1. cache[s] \in CacheRecords
      BY DEF TypeOK, CacheRecords
    <2> QED  BY <2>1 DEF CacheRecords
  <1>2. /\ cache' = [s \in Sessions |-> [cache[s] EXCEPT !.stale = cache[s].held]]
        /\ \E again : fetch' = [s \in Sessions |->
              IF s \in again THEN [at |-> "sent", turns |-> {}] ELSE fetch[s]]
    BY DEF Invalidate
  <1>3. /\ [at |-> "sent", turns |-> {}] \in FetchRecords
        /\ \A s \in Sessions : fetch[s] \in FetchRecords
    BY DEF TypeOK, FetchRecords
  <1>4. /\ cache' \in [Sessions -> CacheRecords]
        /\ \A s \in Sessions : cache'[s].turns = cache[s].turns
    <2> HIDE DEF CacheRecords
    <2> QED  BY <1>1, <1>2
  <1>5. /\ fetch' \in [Sessions -> FetchRecords]
        /\ \A s \in Sessions : fetch'[s].turns \subseteq fetch[s].turns
    <2> HIDE DEF FetchRecords
    <2> QED  BY <1>2, <1>3
  <1> QED  BY <1>4, <1>5

(***************************************************************************)
(* The server.                                                             *)
(***************************************************************************)
\* What the hook, the cache and the tab hold.
tabVars == <<route, shown, own, sid, screen, reading, holder, cache, fetch, from, visits, hasty>>

\* Frames sent of a question that has its conversation.
LEMMA WireUpdate ==
    ASSUME TypeOK, NEW n \in Asked, NEW frames \in Seq(Frames), wire' = [wire EXCEPT ![n] = frames]
    PROVE  /\ wire' \in [Asked -> Seq(Frames)]
           /\ wire'[n] = frames
           /\ \A m \in Asked \ {n} : wire'[m] = wire[m]
  BY DEF TypeOK

\* What a step of the server leaves as it was.
ServerKeeps ==
    /\ TypeOK' /\ PlacesAgree' /\ created \subseteq created'
    /\ UNCHANGED tabVars
    /\ \A n \in Asked :
          /\ turn'[n].to = turn[n].to
          /\ turn[n].in # None => turn'[n].in = turn[n].in
          /\ turn'[n].at = "unasked" <=> turn[n].at = "unasked"
    /\ \A s \in Sessions : \A t \in history'[s] :
          t \in history[s] \/ (t \in Asked /\ turn[t].in = s)

\* A question gets another stage, and frames are sent of it.
LEMMA StageKeeps ==
    ASSUME TypeOK, PlacesAgree, NEW n \in Asked, NEW stage \in Stages,
           turn[n].at \in {"answering", "told", "appended", "closed"}, stage \notin {"unasked", "opening"},
           turn' = [turn EXCEPT ![n].at = stage],
           NEW frames \in Seq(Frames), wire' = [wire EXCEPT ![n] = frames],
           writes' \in [Asked -> SUBSET Turns], UNCHANGED <<created, history, tabVars>>
    PROVE  ServerKeeps
  <1>1. /\ turn' \in [Asked -> TurnRecords]
        /\ turn'[n].at = stage /\ turn'[n].to = turn[n].to /\ turn'[n].in = turn[n].in
        /\ \A m \in Asked \ {n} : turn'[m] = turn[m]
    BY StageUpdate
  <1>2. /\ wire' \in [Asked -> Seq(Frames)]
        /\ \A m \in Asked \ {n} : wire'[m] = wire[m]
    BY WireUpdate
  <1>3. TypeOK'
    BY <1>1, <1>2 DEF TypeOK, TurnRecords, tabVars
  <1>4. turn[n].in # None
    BY DEF PlacesAgree
  <1>5. PlacesAgree'
    <2>1. \A s \in Sessions : history'[s] # {} => s \in created'
      BY DEF PlacesAgree
    <2>2. \A m \in Asked :
             /\ turn'[m].to \in created \union {None} /\ turn'[m].in \in created \union {None}
             /\ turn'[m].at \in {"unasked", "opening"} => turn'[m].in = None
             /\ turn'[m].at \in {"answering", "told", "appended", "closed"} => turn'[m].in # None
             /\ wire'[m] # <<>> => turn'[m].in # None
             /\ turn'[m].to # None /\ turn'[m].in # None => turn'[m].in = turn'[m].to
      BY <1>1, <1>2, <1>4 DEF PlacesAgree, Known
    <2> QED  BY <2>1, <2>2 DEF PlacesAgree, Known
  <1>6. \A m \in Asked :
           /\ turn'[m].to = turn[m].to /\ turn'[m].in = turn[m].in
           /\ turn'[m].at = "unasked" <=> turn[m].at = "unasked"
    BY <1>1
  <1> QED  BY <1>3, <1>5, <1>6 DEF ServerKeeps

LEMMA OpenKeeps ==
    ASSUME TypeOK, PlacesAgree, NEW n \in Asked, Open(n)
    PROVE  ServerKeeps
  <1>1. PICK s \in Sessions :
           /\ IF turn[n].to \in created THEN s = turn[n].to ELSE s \notin created
           /\ created' = created \union {s}
           /\ turn' = [turn EXCEPT ![n] = [@ EXCEPT !.at = "answering", !.in = s]]
    BY DEF Open
  <1>2. /\ turn[n].at = "opening" /\ turn[n].in = None /\ turn[n] \in TurnRecords
        /\ UNCHANGED <<history, writes, wire, tabVars>>
    BY DEF Open, At, PlacesAgree, TypeOK, TurnRecords, tabVars, hookVars, queryVars
  <1> DEFINE r == [turn[n] EXCEPT !.at = "answering", !.in = s]
  <1>3. r \in TurnRecords /\ r.at = "answering" /\ r.in = s /\ r.to = turn[n].to
    BY <1>2 DEF TurnRecords, Stages, Routes
  <1>4. turn' = [turn EXCEPT ![n] = r]
    BY <1>1
  <1> HIDE DEF r
  <1>5. /\ turn' \in [Asked -> TurnRecords] /\ turn'[n] = r
        /\ \A m \in Asked \ {n} : turn'[m] = turn[m]
    BY <1>3, <1>4, TurnUpdate
  <1>6. TypeOK'
    BY <1>1, <1>2, <1>5 DEF TypeOK, TurnRecords, tabVars
  <1>7. PlacesAgree'
    <2>1. \A q \in Sessions : history'[q] # {} => q \in created'
      BY <1>1, <1>2 DEF PlacesAgree
    <2>2. s # None /\ turn[n].to \in created \union {None}
      BY ConversationAssumption DEF PlacesAgree, Known
    <2>3. turn[n].to # None => s = turn[n].to
      BY <1>1, <2>2
    <2>4. \A m \in Asked :
             /\ turn'[m].to \in created' \union {None} /\ turn'[m].in \in created' \union {None}
             /\ turn'[m].at \in {"unasked", "opening"} => turn'[m].in = None
             /\ turn'[m].at \in {"answering", "told", "appended", "closed"} => turn'[m].in # None
             /\ wire'[m] # <<>> => turn'[m].in # None
             /\ turn'[m].to # None /\ turn'[m].in # None => turn'[m].in = turn'[m].to
      BY <1>1, <1>2, <1>3, <1>5, <2>2, <2>3 DEF PlacesAgree, Known
    <2> QED  BY <2>1, <2>4 DEF PlacesAgree, Known
  <1>8. \A m \in Asked :
           /\ turn'[m].to = turn[m].to
           /\ turn[m].in # None => turn'[m].in = turn[m].in
           /\ turn'[m].at = "unasked" <=> turn[m].at = "unasked"
    BY <1>2, <1>3, <1>5
  <1> QED  BY <1>1, <1>2, <1>6, <1>7, <1>8 DEF ServerKeeps

LEMMA StoreKeeps ==
    ASSUME TypeOK, PlacesAgree, AppendsInTurn, NEW n \in Asked, Store(n)
    PROVE  ServerKeeps
  <1>1. /\ turn[n].at = "closed" /\ turn[n].in # None /\ turn[n].in \in created
        /\ turn[n].in \in Sessions
        /\ history' = [history EXCEPT ![turn[n].in] = history[turn[n].in] \union {n}]
        /\ turn' = [turn EXCEPT ![n].at = "over"]
        /\ UNCHANGED <<created, writes, wire, tabVars>>
    BY DEF Store, AppendsInTurn, HoldsRow, At, PlacesAgree, Known, TypeOK, tabVars, hookVars, queryVars
  <1>2. /\ turn' \in [Asked -> TurnRecords]
        /\ turn'[n].at = "over" /\ turn'[n].to = turn[n].to /\ turn'[n].in = turn[n].in
        /\ \A m \in Asked \ {n} : turn'[m] = turn[m]
    BY <1>1, StageUpdate DEF Stages
  <1>3. /\ history' \in [Sessions -> SUBSET Turns]
        /\ history'[turn[n].in] = history[turn[n].in] \union {n}
        /\ \A s \in Sessions \ {turn[n].in} : history'[s] = history[s]
    BY <1>1 DEF TypeOK, Turns
  <1>4. TypeOK'
    BY <1>1, <1>2, <1>3 DEF TypeOK, TurnRecords, tabVars
  <1>5. PlacesAgree'
    <2>1. \A s \in Sessions : history'[s] # {} => s \in created'
      BY <1>1, <1>3 DEF PlacesAgree
    <2>2. \A m \in Asked :
             /\ turn'[m].to \in created \union {None} /\ turn'[m].in \in created \union {None}
             /\ turn'[m].at \in {"unasked", "opening"} => turn'[m].in = None
             /\ turn'[m].at \in {"answering", "told", "appended", "closed"} => turn'[m].in # None
             /\ wire'[m] # <<>> => turn'[m].in # None
             /\ turn'[m].to # None /\ turn'[m].in # None => turn'[m].in = turn'[m].to
      BY <1>1, <1>2 DEF PlacesAgree, Known
    <2> QED  BY <1>1, <2>1, <2>2 DEF PlacesAgree, Known
  <1>6. \A m \in Asked :
           /\ turn'[m].to = turn[m].to /\ turn'[m].in = turn[m].in
           /\ turn'[m].at = "unasked" <=> turn[m].at = "unasked"
    BY <1>1, <1>2
  <1>7. \A s \in Sessions : \A t \in history'[s] :
           t \in history[s] \/ (t \in Asked /\ turn[t].in = s)
    BY <1>3
  <1> QED  BY <1>1, <1>4, <1>5, <1>6, <1>7 DEF ServerKeeps

LEMMA ServeKeeps ==
    ASSUME TypeOK, PlacesAgree, AppendsInTurn, NEW n \in Asked, Serve(n)
    PROVE  ServerKeeps
  <1>1. wire[n] \in Seq(Frames) /\ {"done", "error", "end"} \subseteq Frames
    BY DEF TypeOK, Frames
  <1>2. CASE Tell(n)
    <2>1. Append(wire[n], "done") \in Seq(Frames)
      BY <1>1, AppendProperties
    <2>2. /\ turn[n].at = "answering" /\ turn' = [turn EXCEPT ![n].at = "told"]
          /\ wire' = [wire EXCEPT ![n] = Append(wire[n], "done")]
          /\ UNCHANGED <<created, history, writes, tabVars>>
      BY <1>2 DEF Tell, At, serverVars, hookVars, queryVars, tabVars
    <2> QED  BY <2>1, <2>2, StageKeeps DEF Stages, TypeOK
  <1>3. CASE Finish(n)
    <2>1. Append(wire[n], "end") \in Seq(Frames)
      BY <1>1, AppendProperties
    <2>2. /\ turn[n].at = "appended" /\ turn' = [turn EXCEPT ![n].at = "closed"]
          /\ wire' = [wire EXCEPT ![n] = Append(wire[n], "end")]
          /\ UNCHANGED <<created, history, writes, tabVars>>
      BY <1>3 DEF Finish, At, serverVars, hookVars, queryVars, tabVars
    <2> QED  BY <2>1, <2>2, StageKeeps DEF Stages, TypeOK
  <1>4. CASE GiveUp(n)
    <2> DEFINE last == IF At(n, "answering") THEN <<"error", "end">>
                       ELSE IF At(n, "closed") THEN <<>> ELSE <<"end">>
    <2>1. wire[n] \o last \in Seq(Frames)
      <3>1. last \in Seq(Frames)
        BY <1>1
      <3> QED  BY <1>1, <3>1, ConcatProperties
    <2>2. /\ turn[n].at \in {"answering", "told", "appended", "closed"}
          /\ turn' = [turn EXCEPT ![n].at = "over"]
          /\ wire' = [wire EXCEPT ![n] = wire[n] \o last]
          /\ UNCHANGED <<created, history, writes, tabVars>>
      BY <1>4 DEF GiveUp, HoldsRow, At, serverVars, hookVars, queryVars, tabVars
    <2> QED  BY <2>1, <2>2, StageKeeps DEF Stages, TypeOK
  <1>5. CASE AppendTurn(n)
    <2>1. /\ turn[n].at = "told" /\ turn' = [turn EXCEPT ![n].at = "appended"]
          /\ writes' = [writes EXCEPT ![n] = history[turn[n].in] \union {n}]
          /\ wire' = wire /\ UNCHANGED <<created, history, tabVars>>
      BY <1>5 DEF AppendTurn, At, hookVars, queryVars, tabVars
    <2>2. turn[n].in \in Sessions
      BY <2>1 DEF PlacesAgree, Known, TypeOK
    <2>3. history[turn[n].in] \union {n} \in SUBSET Turns
      BY <2>2 DEF TypeOK, Turns
    <2>4. writes' \in [Asked -> SUBSET Turns]
      BY <2>1, <2>3 DEF TypeOK
    <2>5. wire' = [wire EXCEPT ![n] = wire[n]]
      BY <2>1 DEF TypeOK
    <2> QED  BY <1>1, <2>1, <2>4, <2>5, StageKeeps DEF Stages
  <1> QED  BY <1>2, <1>3, <1>4, <1>5, OpenKeeps, StoreKeeps DEF Serve

\* Whatever the server does meanwhile, the tab stays in order.
LEMMA ServingKeeps ==
    ASSUME Inductive, AppendsInTurn, NEW n \in Asked, Serve(n)
    PROVE  Inductive'
  <1>1. ServerKeeps
    BY ServeKeeps DEF Inductive
  <1>2. TypeOK' /\ PlacesAgree' /\ UNCHANGED tabVars /\ created \subseteq created'
    BY <1>1 DEF ServerKeeps
  <1>3. \A t : Home(t) # None => Home(t)' = Home(t)
    BY <1>1 DEF ServerKeeps, Home
  <1>4. None \notin Sessions
    BY ConversationAssumption
  <1>5. TurnsAtHome'
    <2> SUFFICES ASSUME NEW s \in Sessions,
                        NEW t \in history'[s] \union cache'[s].turns \union fetch'[s].turns
                 PROVE  Home(t)' = s
      BY DEF TurnsAtHome
    <2>1. /\ t \in history[s] \union cache[s].turns \union fetch[s].turns
          \/ (t \in Asked /\ turn[t].in = s)
      BY <1>1, <1>2 DEF ServerKeeps, tabVars
    <2>2. Home(t) = s
      BY <2>1 DEF Inductive, TurnsAtHome, Home
    <2> QED  BY <1>3, <1>4, <2>2
  <1>6. DoneHasHome' /\ ScreenIsRoute'
    <2>1. \A t \in screen : t.status = "done" =>
             Home(t.of)' = Home(t.of) /\ Home(t.of) # None
      BY <1>3 DEF Inductive, DoneHasHome
    <2>2. DoneHasHome'
      BY <1>2, <2>1 DEF DoneHasHome, tabVars
    <2>3. ScreenIsRoute'
      BY <1>2, <2>1 DEF Inductive, ScreenIsRoute, HomeOf, Home, tabVars
    <2> QED  BY <2>2, <2>3
  <1>7. HookKnows'
    BY <1>2 DEF Inductive, HookKnows, Known, tabVars
  <1>8. HookAgrees'
    <2>1. reading \subseteq Asked
      BY DEF Inductive, TypeOK
    <2>2. \A m \in reading :
             /\ turn'[m].to = turn[m].to
             /\ turn[m].in # None => turn'[m].in = turn[m].in
      BY <1>1, <2>1 DEF ServerKeeps
    <2> QED  BY <1>2, <2>2 DEF Inductive, HookAgrees, tabVars
  <1>9. LiveIsSafe'
    BY <1>2 DEF Inductive, LiveIsSafe, Loading, Restore, tabVars
  <1>10. PatientlyAskedWhereShown'
    BY <1>1, <1>2 DEF Inductive, PatientlyAskedWhereShown, AskedWhereShown, ServerKeeps, tabVars
  <1> QED  BY <1>2, <1>5, <1>6, <1>7, <1>8, <1>9, <1>10 DEF Inductive

(***************************************************************************)
(* What arrives in the tab, but for a done frame.                          *)
(***************************************************************************)
\* A stream that is read no more, or that reported an error, finishes no turn.
LEMMA SettlingKeeps ==
    ASSUME Inductive, NEW n, NEW status \in Statuses \ {"done"}, NEW which,
           screen' = Settle(n, status, which), reading' \subseteq reading,
           holder' \in reading' \union {0},
           turn' \in [Asked -> TurnRecords], wire' \in [Asked -> Seq(Frames)],
           \A m \in Asked :
              /\ turn'[m].to = turn[m].to /\ turn'[m].in = turn[m].in
              /\ turn'[m].at = turn[m].at \/ turn'[m].at = "over"
              /\ turn'[m].at = "unasked" <=> turn[m].at = "unasked"
              /\ wire'[m] # <<>> => wire[m] # <<>>,
           UNCHANGED <<created, history, writes, hookVars, queryVars, from, visits, hasty>>
    PROVE  Inductive'
  <1>1. /\ UNCHANGED <<created, history, writes, route, shown, own, sid, cache, fetch,
                       from, visits, hasty>>
        /\ TypeOK
    BY DEF hookVars, queryVars, Inductive
  <1>2. /\ screen' \subseteq ScreenRecords
        /\ \A u \in screen' : \E t \in screen :
              /\ u.of = t.of /\ u.live = t.live
              /\ u.status = t.status \/ u.status = status
    BY <1>1, SettleEffect
  <1>3. TypeOK'
    BY <1>1, <1>2 DEF TypeOK, TurnRecords, ScreenRecords
  <1>4. PlacesAgree'
    <2>1. \A s \in Sessions : history'[s] # {} => s \in created'
      BY <1>1 DEF Inductive, PlacesAgree
    <2>2. \A m \in Asked :
             /\ turn'[m].to \in created \union {None} /\ turn'[m].in \in created \union {None}
             /\ turn'[m].at \in {"unasked", "opening"} => turn'[m].in = None
             /\ turn'[m].at \in {"answering", "told", "appended", "closed"} => turn'[m].in # None
             /\ wire'[m] # <<>> => turn'[m].in # None
             /\ turn'[m].to # None /\ turn'[m].in # None => turn'[m].in = turn'[m].to
      BY DEF Inductive, PlacesAgree, Known
    <2> QED  BY <1>1, <2>1, <2>2 DEF PlacesAgree, Known
  <1>5. \A t : Home(t)' = Home(t)
    BY DEF Home
  <1>6. TurnsAtHome'
    <2> SUFFICES ASSUME NEW s \in Sessions,
                        NEW t \in history'[s] \union cache'[s].turns \union fetch'[s].turns
                 PROVE  Home(t)' = s
      BY DEF TurnsAtHome
    <2> QED  BY <1>1, <1>5 DEF Inductive, TurnsAtHome
  <1>7. DoneHasHome' /\ ScreenIsRoute'
    <2>1. \A u \in screen' : u.status = "done" =>
             \E t \in screen : t.status = "done" /\ u.of = t.of
      BY <1>2
    <2>2. \A t \in screen : t.status = "done" => Home(t.of)' # None
      BY <1>5 DEF Inductive, DoneHasHome
    <2>3. ~hasty => \A t \in screen : t.status = "done" => Home(t.of)' = route
      BY <1>5 DEF Inductive, ScreenIsRoute, HomeOf, Home
    <2>4. DoneHasHome'
      BY <2>1, <2>2 DEF DoneHasHome
    <2>5. ScreenIsRoute'
      BY <1>1, <2>1, <2>3 DEF ScreenIsRoute, HomeOf, Home
    <2> QED  BY <2>4, <2>5
  <1>8. HookKnows'
    BY <1>1 DEF Inductive, HookKnows, Known
  <1>9. HookAgrees'
    <2>1. reading' \subseteq Asked
      BY <1>1 DEF TypeOK
    <2> QED  BY <1>1, <2>1 DEF Inductive, HookAgrees
  <1>10. LiveIsSafe'
    BY <1>1, <1>2 DEF Inductive, LiveIsSafe, Loading, Restore
  <1>11. PatientlyAskedWhereShown'
    BY <1>1 DEF Inductive, PatientlyAskedWhereShown, AskedWhereShown
  <1> QED  BY <1>3, <1>4, <1>6, <1>7, <1>8, <1>9, <1>10, <1>11 DEF Inductive

\* Of a question whose stream is read no more.
LEMMA ReleaseKeeps ==
    ASSUME Inductive, NEW n \in reading, NEW status \in Statuses \ {"done"}, NEW which,
           Release(n, status, which),
           turn' \in [Asked -> TurnRecords], wire' \in [Asked -> Seq(Frames)],
           \A m \in Asked :
              /\ turn'[m].to = turn[m].to /\ turn'[m].in = turn[m].in
              /\ turn'[m].at = turn[m].at \/ turn'[m].at = "over"
              /\ turn'[m].at = "unasked" <=> turn[m].at = "unasked"
              /\ wire'[m] # <<>> => wire[m] # <<>>,
           UNCHANGED <<created, history, writes, hookVars, queryVars, from, visits, hasty>>
    PROVE  Inductive'
  <1>1. holder \in reading \union {0} /\ reading \subseteq Asked
    BY DEF Inductive, TypeOK
  <1>2. /\ reading' = reading \ {n} /\ screen' = Settle(n, status, which)
        /\ holder' = IF holder = n THEN 0 ELSE holder
    BY DEF Release
  <1>3. reading' \subseteq reading /\ holder' \in reading' \union {0}
    BY <1>1, <1>2
  <1> QED  BY <1>2, <1>3, SettlingKeeps

\* A frame that was read.
LEMMA ReadFrame ==
    ASSUME TypeOK, NEW n \in Asked, wire[n] # <<>>, wire' = [wire EXCEPT ![n] = Tail(@)]
    PROVE  /\ wire' \in [Asked -> Seq(Frames)]
           /\ \A m \in Asked : wire'[m] # <<>> => wire[m] # <<>>
  <1>1. Tail(wire[n]) \in Seq(Frames)
    <2>1. wire[n] \in Seq(Frames)
      BY DEF TypeOK
    <2> QED  BY <2>1, HeadTailProperties
  <1>2. /\ wire' \in [Asked -> Seq(Frames)]
        /\ \A m \in Asked \ {n} : wire'[m] = wire[m]
    BY <1>1, WireUpdate
  <1> QED  BY <1>2

LEMMA ArrivalKeeps ==
    ASSUME Inductive, NEW n \in Asked,
           Unopened(n) \/ Break(n) \/ HearError(n) \/ HearEnd(n)
    PROVE  Inductive'
  <1>0. TypeOK /\ turn \in [Asked -> TurnRecords] /\ wire \in [Asked -> Seq(Frames)]
    BY DEF Inductive, TypeOK, TurnRecords
  <1>1. CASE Unopened(n)
    <2>1. /\ turn[n].at = "opening" /\ n \in reading /\ turn' = [turn EXCEPT ![n].at = "over"]
          /\ Release(n, "error", Statuses)
          /\ UNCHANGED <<created, history, writes, wire, hookVars, queryVars,
                         from, visits, hasty>>
      BY <1>1 DEF Unopened, At, serverVars
    <2>2. /\ turn' \in [Asked -> TurnRecords]
          /\ turn'[n].at = "over" /\ turn'[n].to = turn[n].to /\ turn'[n].in = turn[n].in
          /\ \A m \in Asked \ {n} : turn'[m] = turn[m]
      BY <1>0, <2>1, StageUpdate DEF Stages
    <2>3. \A m \in Asked :
             /\ turn'[m].to = turn[m].to /\ turn'[m].in = turn[m].in
             /\ turn'[m].at = turn[m].at \/ turn'[m].at = "over"
             /\ turn'[m].at = "unasked" <=> turn[m].at = "unasked"
             /\ wire'[m] # <<>> => wire[m] # <<>>
      BY <2>1, <2>2
    <2> QED  BY <1>0, <2>1, <2>2, <2>3, ReleaseKeeps DEF Statuses
  <1>2. CASE Break(n)
    <2>1. /\ n \in reading /\ Release(n, "error", Statuses)
          /\ UNCHANGED <<created, history, writes, turn, wire, hookVars, queryVars,
                         from, visits, hasty>>
      BY <1>2 DEF Break, serverVars
    <2>2. \A m \in Asked : turn'[m] = turn[m] /\ wire'[m] = wire[m]
      BY <2>1
    <2> QED  BY <1>0, <2>1, <2>2, ReleaseKeeps DEF Statuses
  <1>3. CASE HearError(n)
    <2>1. /\ wire[n] # <<>> /\ wire' = [wire EXCEPT ![n] = Tail(@)]
          /\ screen' = Settle(n, "error", Statuses)
          /\ UNCHANGED <<created, history, writes, turn, reading, holder>>
          /\ UNCHANGED <<hookVars, queryVars, from, visits, hasty>>
      BY <1>3 DEF HearError, Arrives, serverVars
    <2>2. /\ wire' \in [Asked -> Seq(Frames)]
          /\ \A m \in Asked : wire'[m] # <<>> => wire[m] # <<>>
      BY <1>0, <2>1, ReadFrame
    <2>3. holder' \in reading' \union {0}
      BY <1>0, <2>1 DEF TypeOK
    <2>4. \A m \in Asked : turn'[m] = turn[m]
      BY <2>1
    <2> QED  BY <1>0, <2>1, <2>2, <2>3, <2>4, SettlingKeeps DEF Statuses
  <1>4. CASE HearEnd(n)
    <2>1. /\ wire[n] # <<>> /\ wire' = [wire EXCEPT ![n] = Tail(@)] /\ n \in reading
          /\ Release(n, "aborted", {"streaming"})
          /\ UNCHANGED <<created, history, writes, turn, hookVars, queryVars,
                         from, visits, hasty>>
      BY <1>4 DEF HearEnd, Arrives, serverVars
    <2>2. /\ wire' \in [Asked -> Seq(Frames)]
          /\ \A m \in Asked : wire'[m] # <<>> => wire[m] # <<>>
      BY <1>0, <2>1, ReadFrame
    <2>3. \A m \in Asked : turn'[m] = turn[m]
      BY <2>1
    <2> QED  BY <1>0, <2>1, <2>2, <2>3, ReleaseKeeps DEF Statuses
  <1> QED  BY <1>1, <1>2, <1>3, <1>4

LEMMA StopKeeps ==
    ASSUME Inductive, Stop
    PROVE  Inductive'
  <1>1. /\ holder \in reading /\ Release(holder, "aborted", Statuses)
        /\ UNCHANGED <<created, history, writes, turn, wire, hookVars, queryVars,
                       from, visits, hasty>>
    BY DEF Stop, Inductive, TypeOK, serverVars
  <1>2. turn \in [Asked -> TurnRecords] /\ wire \in [Asked -> Seq(Frames)]
    BY DEF Inductive, TypeOK, TurnRecords
  <1>3. \A m \in Asked : turn'[m] = turn[m] /\ wire'[m] = wire[m]
    BY <1>1
  <1> QED  BY <1>1, <1>2, <1>3, ReleaseKeeps DEF Statuses

(***************************************************************************)
(* Opening another conversation, asking, and hearing that it is done.      *)
(***************************************************************************)
LEMMA VisitKeeps ==
    ASSUME Inductive, NEW r \in Routes, Visit(r)
    PROVE  Inductive'
  <1>1. /\ TypeOK /\ visits < MaxVisits /\ r # route /\ visits' = visits + 1 /\ route' = r
        /\ r \in Sessions => history[r] # {}
        /\ EnterRoute(r) /\ Wanted(Restore(r, own')) /\ hasty' = (hasty \/ reading # {})
        /\ UNCHANGED <<created, history, writes, turn, wire, reading, holder, cache, from>>
    BY DEF Visit, Inductive, serverVars
  <1>2. /\ {shown', own', sid'} \subseteq Routes
        /\ screen' \subseteq ScreenRecords
        /\ shown' = r /\ own' \in {own, None} /\ sid' \in {sid, r}
        /\ \/ (r = shown \/ (r # None /\ r = own)) /\ UNCHANGED <<own, sid, screen>>
           \/ /\ own' = None /\ sid' = r
              /\ \A u \in screen' : r \in Sessions /\ u.of \in cache[r].turns /\ ~u.live
    BY <1>1, EnterRouteEffect
  <1>3. /\ fetch' \in [Sessions -> FetchRecords]
        /\ \A s \in Sessions : fetch'[s].turns = fetch[s].turns
    <2>1. Restore(r, own') \in Routes
      BY DEF Restore, Routes
    <2> QED  BY <1>1, <2>1, WantedEffect
  <1>4. TypeOK'
    <2>1. visits' \in 0 .. MaxVisits /\ hasty' \in BOOLEAN
      BY <1>1, ConversationAssumption DEF TypeOK
    <2> QED  BY <1>1, <1>2, <1>3, <2>1 DEF TypeOK, ScreenRecords, FetchRecords
  <1>5. PlacesAgree'
    BY <1>1 DEF Inductive, PlacesAgree, Known
  <1>6. \A t : Home(t)' = Home(t)
    BY <1>1 DEF Home
  <1>7. TurnsAtHome'
    <2> SUFFICES ASSUME NEW s \in Sessions,
                        NEW t \in history'[s] \union cache'[s].turns \union fetch'[s].turns
                 PROVE  Home(t)' = s
      BY DEF TurnsAtHome
    <2> QED  BY <1>1, <1>3, <1>6 DEF Inductive, TurnsAtHome
  <1>8. DoneHasHome'
    <2>1. \A t \in screen : t.status = "done" => Home(t.of)' # None
      BY <1>6 DEF Inductive, DoneHasHome
    <2>2. \A u : r \in Sessions /\ u \in cache[r].turns => Home(u)' # None
      BY <1>6, ConversationAssumption DEF Inductive, TurnsAtHome
    <2> QED  BY <1>2, <2>1, <2>2 DEF DoneHasHome
  <1>9. HookKnows'
    <2>1. r \in Known
      BY <1>1 DEF Inductive, PlacesAgree, Known, Routes
    <2>2. {own', sid'} \subseteq Known
      BY <1>2, <2>1 DEF Inductive, HookKnows, Known
    <2> QED  BY <1>1, <2>1, <2>2 DEF HookKnows, Known
  <1>10. ASSUME ~hasty'
         PROVE  /\ ~hasty /\ reading' = {} /\ own' = None /\ sid' = r
                /\ \A u \in screen' : ~u.live /\ Home(u.of)' = r
    <2>1. ~hasty /\ reading' = {} /\ shown = route /\ own \in {None, route}
      BY <1>1, <1>10 DEF Inductive, HookAgrees
    <2>2. /\ own' = None /\ sid' = r
          /\ \A u \in screen' : r \in Sessions /\ u.of \in cache[r].turns /\ ~u.live
      BY <1>1, <1>2, <2>1
    <2>3. \A u : r \in Sessions /\ u \in cache[r].turns => Home(u)' = r
      BY <1>6 DEF Inductive, TurnsAtHome
    <2> QED  BY <2>1, <2>2, <2>3
  <1>11. HookAgrees'
    BY <1>1, <1>2, <1>10 DEF HookAgrees
  <1>12. LiveIsSafe' /\ ScreenIsRoute'
    BY <1>1, <1>10 DEF LiveIsSafe, ScreenIsRoute, HomeOf, Home
  <1>13. PatientlyAskedWhereShown'
    BY <1>1 DEF Inductive, PatientlyAskedWhereShown, AskedWhereShown
  <1> QED  BY <1>4, <1>5, <1>7, <1>8, <1>9, <1>11, <1>12, <1>13 DEF Inductive

LEMMA AskKeeps ==
    ASSUME Inductive, NEW n \in Asked, Ask(n)
    PROVE  Inductive'
  <1> DEFINE asked == [of |-> n, live |-> TRUE, status |-> "streaming"]
             q == [turn[n] EXCEPT !.at = "opening", !.to = sid]
  <1>1. /\ TypeOK /\ turn[n].at = "unasked" /\ turn' = [turn EXCEPT ![n] = q]
        /\ from' = [from EXCEPT ![n] = route] /\ screen' = screen \union {asked}
        /\ reading' = reading \union {n} /\ holder' = n
        /\ hasty' = (hasty \/ Loading(Restore(route, own)) \/ reading # {})
        /\ UNCHANGED <<created, history, writes, wire, route, shown, own, sid, cache, fetch, visits>>
    BY DEF Ask, Inductive, serverVars, hookVars, queryVars
  <1>2. turn[n].in = None /\ wire[n] = <<>> /\ sid \in Known
    BY <1>1 DEF Inductive, PlacesAgree, HookKnows
  <1>3. q \in TurnRecords /\ q.at = "opening" /\ q.to = sid /\ q.in = None
    <2>1. turn[n] \in TurnRecords /\ sid \in Routes /\ "opening" \in Stages
      BY <1>1 DEF TypeOK, TurnRecords, Stages
    <2> QED  BY <1>2, <2>1 DEF TurnRecords
  <1> HIDE DEF q
  <1>4. /\ turn' \in [Asked -> TurnRecords] /\ turn'[n] = q
        /\ \A m \in Asked \ {n} : turn'[m] = turn[m]
    BY <1>1, <1>3, TurnUpdate
  <1>5. TypeOK'
    <2>1. asked \in ScreenRecords
      BY DEF ScreenRecords, Turns, Statuses
    <2>2. screen' \subseteq ScreenRecords
      <3> HIDE DEF asked
      <3> QED  BY <1>1, <2>1 DEF TypeOK, ScreenRecords
    <2>3. from' \in [Asked -> Routes] /\ hasty' \in BOOLEAN
      BY <1>1 DEF TypeOK
    <2> HIDE DEF asked
    <2> QED  BY <1>1, <1>4, <2>2, <2>3 DEF TypeOK, TurnRecords, ScreenRecords
  <1>6. PlacesAgree'
    <2>1. \A s \in Sessions : history'[s] # {} => s \in created'
      BY <1>1 DEF Inductive, PlacesAgree
    <2>2. \A m \in Asked :
             /\ turn'[m].to \in created \union {None} /\ turn'[m].in \in created \union {None}
             /\ turn'[m].at \in {"unasked", "opening"} => turn'[m].in = None
             /\ turn'[m].at \in {"answering", "told", "appended", "closed"} => turn'[m].in # None
             /\ wire[m] # <<>> => turn'[m].in # None
             /\ turn'[m].to # None /\ turn'[m].in # None => turn'[m].in = turn'[m].to
      BY <1>2, <1>3, <1>4 DEF Inductive, PlacesAgree, Known
    <2> QED  BY <1>1, <2>1, <2>2 DEF PlacesAgree, Known
  <1>7. \A t : Home(t)' = Home(t)
    BY <1>2, <1>3, <1>4 DEF Home
  <1>8. TurnsAtHome'
    <2> SUFFICES ASSUME NEW s \in Sessions,
                        NEW t \in history'[s] \union cache'[s].turns \union fetch'[s].turns
                 PROVE  Home(t)' = s
      BY DEF TurnsAtHome
    <2> QED  BY <1>1, <1>7 DEF Inductive, TurnsAtHome
  <1>9. DoneHasHome' /\ ScreenIsRoute'
    <2>1. \A u \in screen' : u.status = "done" => u \in screen
      BY <1>1
    <2>2. \A t \in screen : t.status = "done" => Home(t.of)' # None
      BY <1>7 DEF Inductive, DoneHasHome
    <2>3. ~hasty => \A t \in screen : t.status = "done" => Home(t.of)' = route
      BY <1>7 DEF Inductive, ScreenIsRoute, HomeOf, Home
    <2>4. DoneHasHome'
      BY <2>1, <2>2 DEF DoneHasHome
    <2>5. ScreenIsRoute'
      BY <1>1, <2>1, <2>3 DEF ScreenIsRoute, HomeOf, Home
    <2> QED  BY <2>4, <2>5
  <1>10. HookKnows'
    BY <1>1 DEF Inductive, HookKnows, Known
  <1>11. ASSUME ~hasty'
         PROVE  ~hasty /\ reading' = {n} /\ turn'[n].to = route /\ sid = route
    BY <1>1, <1>3, <1>4, <1>11 DEF Inductive, HookAgrees
  <1>12. HookAgrees'
    BY <1>1, <1>11 DEF Inductive, HookAgrees
  <1>13. LiveIsSafe'
    BY <1>1 DEF LiveIsSafe, Loading, Restore
  <1>14. PatientlyAskedWhereShown'
    <2>1. /\ from'[n] = route
          /\ \A m \in Asked \ {n} : from'[m] = from[m]
      BY <1>1 DEF TypeOK
    <2> QED  BY <1>4, <1>11, <2>1 DEF Inductive, PatientlyAskedWhereShown, AskedWhereShown
  <1> QED  BY <1>5, <1>6, <1>8, <1>9, <1>10, <1>12, <1>13, <1>14 DEF Inductive

\* What a done frame does to the tab of a user who waits: all of it names the
\* conversation the question is stored with, and no transcript is restored.
LEMMA HearDoneEffect ==
    ASSUME Inductive, NEW n \in Asked, HearDone(n)
    PROVE  /\ turn[n].in \in created /\ turn[n].in # None
           /\ own' = turn[n].in /\ sid' = turn[n].in /\ shown' = route'
           /\ route' \in {route, turn[n].in}
           /\ \/ /\ route' \in Sessions
                 /\ \A u \in screen' : u.of \in cache[route'].turns /\ ~u.live
                 /\ hasty
              \/ screen' = Settle(n, "done", Statuses)
           /\ ~hasty => /\ route' = turn[n].in
                        /\ turn[n].to = route \/ (turn[n].to = None /\ route' = route)
                        /\ route = None \/ route' = route
  <1> DEFINE s == turn[n].in
             r == IF turn[n].to = None THEN s ELSE route
  <1>1. /\ n \in reading /\ wire[n] # <<>>
        /\ own' = s /\ sid' = s /\ route' = r /\ shown' = r
        /\ screen' = IF Restore(r, s) # None /\ Restore(r, s) # Restore(route, own)
                        /\ cache[r].held
                     THEN RestoredTurns(r) ELSE Settle(n, "done", Statuses)
    BY DEF HearDone, Arrives
  <1>2. s # None /\ s \in created /\ created \subseteq Sessions
    BY <1>1 DEF Inductive, PlacesAgree, Known, TypeOK
  <1>3. turn[n].to # None => s = turn[n].to
    BY <1>2 DEF Inductive, PlacesAgree
  <1>4. ASSUME ~hasty
        PROVE  /\ r = s
               /\ turn[n].to = route \/ (turn[n].to = None /\ r = route)
               /\ route = None \/ r = route
    <2>1. turn[n].to = route \/ (turn[n].to = None /\ turn[n].in = route)
      BY <1>1, <1>4 DEF Inductive, HookAgrees
    <2> QED  BY <1>3, <2>1
  <1>5. ASSUME Restore(r, s) # None, screen' = RestoredTurns(r)
        PROVE  /\ route' \in Sessions
               /\ \A u \in screen' : u.of \in cache[route'].turns /\ ~u.live
               /\ hasty
    <2>1. r # s /\ r # None
      BY <1>5 DEF Restore
    <2>2. r \in Sessions
      BY <2>1 DEF Inductive, TypeOK, Routes
    <2>3. cache[r].turns \in SUBSET Turns
      BY <2>2 DEF Inductive, TypeOK
    <2>4. \A u \in screen' : u.of \in cache[r].turns /\ ~u.live
      BY <1>5, <2>3, RestoredEffect DEF RestoredTurns
    <2>5. hasty
      BY <1>4, <2>1
    <2> QED  BY <1>1, <2>2, <2>4, <2>5
  <1>6. \/ Restore(r, s) # None /\ screen' = RestoredTurns(r)
        \/ screen' = Settle(n, "done", Statuses)
    BY <1>1
  <1> HIDE DEF r, s
  <1>7. r \in {route, s}
    BY DEF r
  <1> QED  BY <1>1, <1>2, <1>4, <1>5, <1>6, <1>7 DEF s

LEMMA HearDoneKeeps ==
    ASSUME Inductive, NEW n \in Asked, HearDone(n)
    PROVE  Inductive'
  <1>1. /\ TypeOK /\ n \in reading /\ wire[n] # <<>> /\ wire' = [wire EXCEPT ![n] = Tail(@)]
        /\ \E before, after : Invalidate(before, after)
        /\ UNCHANGED <<created, history, writes, turn, reading, holder, from, visits, hasty>>
    BY DEF HearDone, Arrives, Inductive, serverVars
  <1>2. /\ turn[n].in \in created /\ turn[n].in # None
        /\ own' = turn[n].in /\ sid' = turn[n].in /\ shown' = route'
        /\ route' \in {route, turn[n].in}
        /\ \/ /\ route' \in Sessions
              /\ \A u \in screen' : u.of \in cache[route'].turns /\ ~u.live
              /\ hasty
           \/ screen' = Settle(n, "done", Statuses)
        /\ ~hasty => /\ route' = turn[n].in
                     /\ turn[n].to = route \/ (turn[n].to = None /\ route' = route)
                     /\ route = None \/ route' = route
    BY HearDoneEffect
  <1>3. /\ cache' \in [Sessions -> CacheRecords] /\ fetch' \in [Sessions -> FetchRecords]
        /\ \A s \in Sessions :
              /\ cache'[s].turns = cache[s].turns
              /\ fetch'[s].turns \subseteq fetch[s].turns
    BY <1>1, InvalidateEffect
  <1>4. /\ Settle(n, "done", Statuses) \subseteq ScreenRecords
        /\ \A u \in Settle(n, "done", Statuses) : \E t \in screen :
              /\ u.of = t.of /\ u.live = t.live
              /\ u.status = t.status \/ (u.status = "done" /\ t.of = n)
    BY <1>1, SettleEffect DEF Statuses
  <1>5. /\ wire' \in [Asked -> Seq(Frames)]
        /\ \A m \in Asked : wire'[m] # <<>> => wire[m] # <<>>
    BY <1>1, ReadFrame
  <1>6. TypeOK'
    <2>1. created \subseteq Sessions /\ {route', shown', own', sid'} \subseteq Routes
      BY <1>1, <1>2 DEF TypeOK, Routes
    <2>2. screen' \subseteq ScreenRecords
      <3>1. CASE screen' = Settle(n, "done", Statuses)
        BY <1>4, <3>1
      <3>2. CASE screen' # Settle(n, "done", Statuses)
        <4>1. \E r \in Sessions : screen' = RestoredTurns(r)
          <5>1. PICK r, s : /\ route' = r /\ screen' = IF Restore(r, s) # None
                                            /\ Restore(r, s) # Restore(route, own)
                                            /\ cache[r].held
                                         THEN RestoredTurns(r) ELSE Settle(n, "done", Statuses)
            BY DEF HearDone
          <5> QED  BY <1>2, <3>2, <5>1
        <4>2. \A r \in Sessions : cache[r].turns \in SUBSET Turns
          BY <1>1 DEF TypeOK
        <4> QED  BY <4>1, <4>2, RestoredEffect DEF RestoredTurns
      <3> QED  BY <3>1, <3>2
    <2> QED  BY <1>1, <1>3, <1>5, <2>1, <2>2 DEF TypeOK, ScreenRecords, CacheRecords, FetchRecords
  <1>7. PlacesAgree'
    <2>1. \A s \in Sessions : history'[s] # {} => s \in created'
      BY <1>1 DEF Inductive, PlacesAgree
    <2>2. \A m \in Asked :
             /\ turn[m].to \in created \union {None} /\ turn[m].in \in created \union {None}
             /\ turn[m].at \in {"unasked", "opening"} => turn[m].in = None
             /\ turn[m].at \in {"answering", "told", "appended", "closed"} => turn[m].in # None
             /\ wire'[m] # <<>> => turn[m].in # None
             /\ turn[m].to # None /\ turn[m].in # None => turn[m].in = turn[m].to
      BY <1>5 DEF Inductive, PlacesAgree, Known
    <2> QED  BY <1>1, <2>1, <2>2 DEF PlacesAgree, Known
  <1>8. \A t : Home(t)' = Home(t)
    BY <1>1 DEF Home
  <1>9. TurnsAtHome'
    <2> SUFFICES ASSUME NEW s \in Sessions,
                        NEW t \in history'[s] \union cache'[s].turns \union fetch'[s].turns
                 PROVE  Home(t)' = s
      BY DEF TurnsAtHome
    <2> QED  BY <1>1, <1>3, <1>8 DEF Inductive, TurnsAtHome
  <1>10. Home(n) = turn[n].in
    BY DEF Home
  <1>11. DoneHasHome'
    <2>1. CASE /\ route' \in Sessions
               /\ \A u \in screen' : u.of \in cache[route'].turns
      <3>1. \A s \in Sessions : \A u \in cache[s].turns : Home(u)' # None
        BY <1>8, ConversationAssumption DEF Inductive, TurnsAtHome
      <3> QED  BY <2>1, <3>1 DEF DoneHasHome
    <2>2. CASE screen' = Settle(n, "done", Statuses)
      <3>1. \A t \in screen : t.status = "done" \/ t.of = n => Home(t.of)' # None
        BY <1>2, <1>8, <1>10 DEF Inductive, DoneHasHome
      <3>2. \A u \in screen' : u.status = "done" =>
               \E t \in screen : u.of = t.of /\ (t.status = "done" \/ t.of = n)
        BY <1>4, <2>2
      <3> QED  BY <3>1, <3>2 DEF DoneHasHome
    <2> QED  BY <1>2, <2>1, <2>2
  <1>12. HookKnows'
    BY <1>1, <1>2 DEF Inductive, HookKnows, Known
  <1>13. HookAgrees'
    <2> SUFFICES ASSUME ~hasty
                 PROVE  /\ sid' = route' /\ shown' = route' /\ own' \in {None, route'}
                        /\ \A m, k \in reading : m = k
                        /\ \A m \in reading :
                              turn[m].to = route' \/ (turn[m].to = None /\ turn[m].in = route')
      BY <1>1 DEF HookAgrees
    <2>1. \A m, k \in reading : m = k
      BY DEF Inductive, HookAgrees
    <2>2. turn[n].to = route' \/ (turn[n].to = None /\ turn[n].in = route')
      BY <1>2
    <2> QED  BY <1>1, <1>2, <2>1, <2>2
  <1>14. LiveIsSafe'
    <2>1. ~hasty => Restore(route', own') = None
      BY <1>2 DEF Restore
    <2> QED  BY <1>1, <2>1 DEF LiveIsSafe, Loading, Restore
  <1>15. ScreenIsRoute'
    <2> SUFFICES ASSUME ~hasty, NEW u \in screen', u.status = "done"
                 PROVE  Home(u.of)' = route'
      BY <1>1 DEF ScreenIsRoute, HomeOf, Home
    <2>1. PICK t \in screen : u.of = t.of /\ (t.status = "done" \/ t.of = n)
      BY <1>2, <1>4
    <2>2. CASE t.of = n
      BY <1>2, <1>8, <1>10, <2>1, <2>2
    <2>3. CASE t.status = "done"
      <3>1. Home(t.of) = route /\ Home(t.of) # None
        BY <2>3 DEF Inductive, ScreenIsRoute, HomeOf, Home, DoneHasHome
      <3> QED  BY <1>2, <1>8, <2>1, <3>1
    <2> QED  BY <2>1, <2>2, <2>3
  <1>16. PatientlyAskedWhereShown'
    BY <1>1 DEF Inductive, PatientlyAskedWhereShown, AskedWhereShown
  <1> QED  BY <1>6, <1>7, <1>9, <1>11, <1>12, <1>13, <1>14, <1>15, <1>16 DEF Inductive

(***************************************************************************)
(* Transcripts.                                                            *)
(***************************************************************************)
\* What a step on transcripts leaves as it was.
cacheApart == <<created, history, writes, turn, wire, route, shown, own, sid, reading, holder,
                from, visits, hasty>>

LEMMA TranscriptKeeps ==
    ASSUME Inductive, NEW s \in Sessions, UNCHANGED cacheApart,
           cache' \in [Sessions -> CacheRecords], fetch' \in [Sessions -> FetchRecords],
           \A q \in Sessions :
              cache'[q].turns \union fetch'[q].turns \subseteq
                 history[q] \union cache[q].turns \union fetch[q].turns,
           \A q \in Sessions : fetch'[q] # Idle => fetch[q] # Idle,
           \/ screen' = screen
           \/ screen' = Restored(fetch[s].turns) /\ s = Restore(route, own)
    PROVE  Inductive'
  <1>1. /\ TypeOK
        /\ UNCHANGED <<created, history, writes, turn, wire, route, shown, own, sid, reading, holder,
                       from, visits, hasty>>
    BY DEF Inductive, cacheApart
  <1>2. /\ Restored(fetch[s].turns) \subseteq ScreenRecords
        /\ \A u \in Restored(fetch[s].turns) : u.of \in fetch[s].turns /\ ~u.live
    BY <1>1, RestoredEffect DEF TypeOK
  <1>3. TypeOK'
    <2>1. screen' \subseteq ScreenRecords
      BY <1>1, <1>2 DEF TypeOK, ScreenRecords
    <2> QED  BY <1>1, <2>1 DEF TypeOK, ScreenRecords, CacheRecords, FetchRecords
  <1>4. PlacesAgree' /\ HookKnows' /\ HookAgrees'
    BY <1>1 DEF Inductive, PlacesAgree, HookKnows, HookAgrees, Known
  <1>5. \A t : Home(t)' = Home(t)
    BY <1>1 DEF Home
  <1>6. TurnsAtHome'
    <2> SUFFICES ASSUME NEW q \in Sessions,
                        NEW t \in history'[q] \union cache'[q].turns \union fetch'[q].turns
                 PROVE  Home(t)' = q
      BY DEF TurnsAtHome
    <2>1. t \in history[q] \union cache[q].turns \union fetch[q].turns
      BY <1>1
    <2> QED  BY <1>5, <2>1 DEF Inductive, TurnsAtHome
  <1>7. \A u \in fetch[s].turns : Home(u)' = s /\ s # None
    BY <1>5, ConversationAssumption DEF Inductive, TurnsAtHome
  <1>8. DoneHasHome'
    <2>1. \A t \in screen : t.status = "done" => Home(t.of)' # None
      BY <1>5 DEF Inductive, DoneHasHome
    <2> QED  BY <1>2, <1>7, <2>1 DEF DoneHasHome
  <1>9. ScreenIsRoute'
    <2> SUFFICES ASSUME ~hasty, NEW u \in screen', u.status = "done"
                 PROVE  Home(u.of)' = route
      BY <1>1 DEF ScreenIsRoute, HomeOf, Home
    <2>1. CASE screen' = screen
      BY <1>5, <2>1 DEF Inductive, ScreenIsRoute, HomeOf, Home
    <2>2. CASE screen' = Restored(fetch[s].turns) /\ s = Restore(route, own)
      <3>1. s = route
        BY <2>2, ConversationAssumption DEF Restore
      <3> QED  BY <1>2, <1>7, <2>2, <3>1
    <2> QED  BY <2>1, <2>2
  <1>10. LiveIsSafe'
    <2> SUFFICES ASSUME ~hasty, NEW u \in screen', u.live, Loading(Restore(route, own))'
                 PROVE  FALSE
      BY <1>1 DEF LiveIsSafe
    <2> DEFINE w == Restore(route, own)
    <2>1. u \in screen
      BY <1>2
    <2>2. w # None /\ fetch'[w] # Idle
      BY <1>1 DEF Loading, Restore
    <2>3. w \in Sessions
      BY <1>1, <2>2 DEF TypeOK, Routes, Restore
    <2>4. Loading(w)
      BY <2>2, <2>3 DEF Loading
    <2> QED  BY <2>1, <2>4 DEF Inductive, LiveIsSafe
  <1>11. PatientlyAskedWhereShown'
    BY <1>1 DEF Inductive, PatientlyAskedWhereShown, AskedWhereShown
  <1> QED  BY <1>3, <1>4, <1>6, <1>8, <1>9, <1>10, <1>11 DEF Inductive

LEMMA AnswerKeeps ==
    ASSUME Inductive, NEW s \in Sessions, Answer(s)
    PROVE  Inductive'
  <1> DEFINE f == [at |-> "answered", turns |-> history[s]]
  <1>1. /\ fetch[s].at = "sent" /\ fetch' = [fetch EXCEPT ![s] = f]
        /\ UNCHANGED <<cacheApart, screen, cache>>
    BY DEF Answer, cacheApart, serverVars, hookVars
  <1>2. /\ f \in FetchRecords /\ f.turns = history[s]
        /\ fetch \in [Sessions -> FetchRecords] /\ cache \in [Sessions -> CacheRecords]
    BY DEF Inductive, TypeOK, FetchRecords, CacheRecords
  <1>3. fetch[s] # Idle
    BY <1>1 DEF Idle
  <1> HIDE DEF f
  <1>4. /\ fetch' \in [Sessions -> FetchRecords] /\ fetch'[s] = f
        /\ \A q \in Sessions \ {s} : fetch'[q] = fetch[q]
    <2> HIDE DEF FetchRecords
    <2> QED  BY <1>1, <1>2
  <1>5. \A q \in Sessions :
           cache'[q].turns \union fetch'[q].turns \subseteq
              history[q] \union cache[q].turns \union fetch[q].turns
    BY <1>1, <1>2, <1>4
  <1>6. \A q \in Sessions : fetch'[q] # Idle => fetch[q] # Idle
    BY <1>3, <1>4
  <1> QED  BY <1>1, <1>2, <1>4, <1>5, <1>6, TranscriptKeeps

LEMMA ReceiveKeeps ==
    ASSUME Inductive, NEW s \in Sessions, Receive(s)
    PROVE  Inductive'
  <1> DEFINE c == [held |-> TRUE, turns |-> fetch[s].turns, stale |-> FALSE]
  <1>1. /\ cache' = [cache EXCEPT ![s] = c] /\ fetch' = [fetch EXCEPT ![s] = Idle]
        /\ UNCHANGED cacheApart
    BY DEF Receive, cacheApart, serverVars, hookVars
  <1>2. \/ screen' = screen
        \/ screen' = Restored(fetch[s].turns) /\ s = Restore(route, own)
    BY DEF Receive
  <1>3. fetch \in [Sessions -> FetchRecords] /\ cache \in [Sessions -> CacheRecords]
    BY DEF Inductive, TypeOK, FetchRecords, CacheRecords
  <1>4. /\ c \in CacheRecords /\ c.turns = fetch[s].turns
        /\ Idle \in FetchRecords /\ Idle.turns = {}
    BY <1>3 DEF FetchRecords, CacheRecords, Idle
  <1> HIDE DEF c, Idle
  <1>5. /\ fetch' \in [Sessions -> FetchRecords] /\ fetch'[s] = Idle
        /\ \A q \in Sessions \ {s} : fetch'[q] = fetch[q]
        /\ cache' \in [Sessions -> CacheRecords] /\ cache'[s] = c
        /\ \A q \in Sessions \ {s} : cache'[q] = cache[q]
    <2> HIDE DEF FetchRecords, CacheRecords
    <2> QED  BY <1>1, <1>3, <1>4
  <1>6. \A q \in Sessions :
           cache'[q].turns \union fetch'[q].turns \subseteq
              history[q] \union cache[q].turns \union fetch[q].turns
    BY <1>4, <1>5
  <1>7. \A q \in Sessions : fetch'[q] # Idle => fetch[q] # Idle
    BY <1>5
  <1> QED  BY <1>1, <1>2, <1>5, <1>6, <1>7, TranscriptKeeps

(***************************************************************************)
(* Theorems.                                                               *)
(***************************************************************************)
LEMMA InitInductive ==
    Init => Inductive
  <1> SUFFICES ASSUME Init
               PROVE  Inductive
    OBVIOUS
  <1>1. /\ None \in Routes /\ Stored \subseteq Sessions /\ Stored \subseteq Turns
        /\ MaxVisits \in Nat /\ <<>> \in Seq(Frames)
    BY ConversationAssumption DEF Routes, Turns
  <1>2. \A n \in Asked : turn[n] = [at |-> "unasked", to |-> None, in |-> None]
    BY DEF Init
  <1>3. TypeOK
    <2>1. turn \in [Asked -> [at : Stages, to : Routes, in : Routes]]
      BY <1>1 DEF Init, Stages
    <2>2. history \in [Sessions -> SUBSET Turns]
      BY <1>1 DEF Init
    <2>3. /\ cache \in [Sessions -> [held : BOOLEAN, turns : SUBSET Turns, stale : BOOLEAN]]
          /\ fetch \in [Sessions -> [at : {"idle", "sent", "answered"}, turns : SUBSET Turns]]
      BY DEF Init, NotCached, Idle
    <2>4. wire \in [Asked -> Seq(Frames)] /\ from \in [Asked -> Routes]
      BY <1>1 DEF Init
    <2>5. /\ created \in SUBSET Sessions /\ screen = {} /\ reading \in SUBSET Asked
          /\ holder \in reading \union {0} /\ hasty \in BOOLEAN
      BY <1>1 DEF Init
    <2>6. {route, shown, own, sid} \subseteq Routes
      BY <1>1 DEF Init
    <2>8. writes \in [Asked -> SUBSET Turns]
      BY DEF Init
    <2>7. visits \in 0 .. MaxVisits
      BY <1>1 DEF Init
    <2> QED  BY <2>1, <2>2, <2>3, <2>4, <2>5, <2>6, <2>7, <2>8 DEF TypeOK
  <1>4. PlacesAgree
    <2>1. \A s \in Sessions : history[s] # {} => s \in created
      BY DEF Init
    <2> QED  BY <1>2, <2>1 DEF Init, PlacesAgree, Known
  <1>5. TurnsAtHome
    <2>1. \A s \in Sessions : /\ cache[s].turns = {} /\ fetch[s].turns = {}
                              /\ \A t \in history[s] : t = s
      BY DEF Init, NotCached, Idle
    <2>2. \A s \in Sessions : s \notin Asked
      BY ConversationAssumption DEF Asked
    <2> QED  BY <2>1, <2>2 DEF TurnsAtHome, Home
  <1>6. DoneHasHome /\ ScreenIsRoute /\ LiveIsSafe
    BY DEF Init, DoneHasHome, ScreenIsRoute, LiveIsSafe
  <1>7. HookKnows /\ HookAgrees
    BY DEF Init, HookKnows, HookAgrees, Known
  <1>8. PatientlyAskedWhereShown
    BY <1>2 DEF PatientlyAskedWhereShown, AskedWhereShown
  <1> QED  BY <1>3, <1>4, <1>5, <1>6, <1>7, <1>8 DEF Inductive

(***************************************************************************)
(* Appends.                                                                *)
(***************************************************************************)
\* An append stays alone with its row while no history changes.
LEMMA HoldersStand ==
    ASSUME AppendsInTurn, history' = history,
           \A n \in Asked : HoldsRow(n)' =>
              HoldsRow(n) /\ turn'[n].in = turn[n].in /\ writes'[n] = writes[n]
    PROVE  AppendsInTurn'
  <1>1. \A n \in Asked : HoldsRow(n)' => writes'[n] = history'[turn'[n].in] \union {n}
    BY DEF AppendsInTurn
  <1>2. \A m, n \in Asked :
           HoldsRow(m)' /\ HoldsRow(n)' /\ turn'[m].in = turn'[n].in => m = n
    BY DEF AppendsInTurn
  <1> QED  BY <1>1, <1>2 DEF AppendsInTurn

\* An UPDATE that starts finds no other append at its conversation's row.
LEMMA AppendTurnStaysInTurn ==
    ASSUME TypeOK, AppendsInTurn, NEW n \in Asked, AppendTurn(n)
    PROVE  AppendsInTurn'
  <1>1. /\ turn'[n].at = "appended" /\ turn'[n].in = turn[n].in
        /\ writes'[n] = history[turn[n].in] \union {n} /\ history' = history
        /\ \A m \in Asked \ {n} : turn'[m] = turn[m] /\ writes'[m] = writes[m]
    <2>1. turn' = [turn EXCEPT ![n].at = "appended"] /\ "appended" \in Stages
      BY DEF AppendTurn, Stages
    <2> QED  BY <2>1, StageUpdate DEF AppendTurn, TypeOK
  <1>2. \A m \in Asked : HoldsRow(m) => turn[m].in # turn[n].in
    BY DEF AppendTurn
  <1>3. \A m \in Asked \ {n} : HoldsRow(m)' <=> HoldsRow(m)
    BY <1>1 DEF HoldsRow, At
  <1> QED  BY <1>1, <1>2, <1>3 DEF AppendsInTurn

\* What commits changes no history that another append has read.
LEMMA StoreStaysInTurn ==
    ASSUME TypeOK, AppendsInTurn, NEW n \in Asked, Store(n)
    PROVE  AppendsInTurn'
  <1>1. /\ turn'[n].at = "over" /\ HoldsRow(n) /\ writes' = writes
        /\ \A m \in Asked \ {n} : turn'[m] = turn[m]
        /\ \A s \in Sessions \ {turn[n].in} : history'[s] = history[s]
    <2>1. turn' = [turn EXCEPT ![n].at = "over"] /\ "over" \in Stages
      BY DEF Store, Stages
    <2> QED  BY <2>1, StageUpdate DEF Store, HoldsRow, At, TypeOK
  <1>2. \A m \in Asked : HoldsRow(m)' => m # n /\ HoldsRow(m)
    BY <1>1 DEF HoldsRow, At
  <1>3. \A m \in Asked : HoldsRow(m)' => turn[m].in # turn[n].in
    BY <1>1, <1>2 DEF AppendsInTurn
  <1>4. \A m \in Asked : HoldsRow(m)' => history'[turn[m].in] = history[turn[m].in]
    <2>1. history' = [history EXCEPT ![turn[n].in] = writes[n]]
      BY DEF Store
    <2> QED  BY <1>3, <2>1 DEF TypeOK
  <1> QED  BY <1>1, <1>2, <1>4 DEF AppendsInTurn

LEMMA AppendsStep ==
    ASSUME TypeOK, AppendsInTurn, [Next]_vars
    PROVE  AppendsInTurn'
  <1>1. ASSUME UNCHANGED <<turn, history, writes>>
        PROVE  AppendsInTurn'
    BY <1>1, HoldersStand DEF HoldsRow, At
  <1>2. ASSUME NEW n \in Asked, NEW stage \in Stages, UNCHANGED <<history, writes>>,
               turn' = [turn EXCEPT ![n].at = stage],
               stage \in {"appended", "closed"} => HoldsRow(n)
        PROVE  AppendsInTurn'
    <2>1. /\ turn'[n].at = stage /\ turn'[n].in = turn[n].in
          /\ \A m \in Asked \ {n} : turn'[m] = turn[m]
      BY <1>2, StageUpdate
    <2> QED  BY <1>2, <2>1, HoldersStand DEF HoldsRow, At
  <1>3. ASSUME NEW n \in Asked, Ask(n) \/ Open(n)
        PROVE  AppendsInTurn'
    <2>1. UNCHANGED <<history, writes>>
      BY <1>3 DEF Ask, Open, serverVars
    <2>2. CASE Ask(n)
      <3>1. turn' = [turn EXCEPT ![n] = [@ EXCEPT !.at = "opening", !.to = sid]]
        BY <2>2 DEF Ask
      <3>2. /\ turn'[n].at = "opening"
            /\ \A m \in Asked \ {n} : turn'[m] = turn[m]
        BY <3>1 DEF TypeOK
      <3> QED  BY <2>1, <3>2, HoldersStand DEF HoldsRow, At
    <2>3. CASE Open(n)
      <3>1. PICK s \in Sessions :
               turn' = [turn EXCEPT ![n] = [@ EXCEPT !.at = "answering", !.in = s]]
        BY <2>3 DEF Open
      <3>2. /\ turn'[n].at = "answering"
            /\ \A m \in Asked \ {n} : turn'[m] = turn[m]
        BY <3>1 DEF TypeOK
      <3> QED  BY <2>1, <3>2, HoldersStand DEF HoldsRow, At
    <2> QED  BY <1>3, <2>2, <2>3
  <1>4. ASSUME NEW n \in Asked, Tell(n) \/ Finish(n) \/ GiveUp(n) \/ Unopened(n)
        PROVE  AppendsInTurn'
    <2>1. UNCHANGED <<history, writes>>
      BY <1>4 DEF Tell, Finish, GiveUp, Unopened, serverVars
    <2>2. \E stage \in Stages : /\ turn' = [turn EXCEPT ![n].at = stage]
                                /\ stage \in {"appended", "closed"} => HoldsRow(n)
      BY <1>4 DEF Tell, Finish, GiveUp, Unopened, HoldsRow, At, Stages
    <2> QED  BY <1>2, <2>1, <2>2
  <1>5. ASSUME NEW n \in Asked, Break(n) \/ Hear(n)
        PROVE  UNCHANGED <<turn, history, writes>>
    BY <1>5 DEF Break, Hear, HearDone, HearError, HearEnd, serverVars
  <1>6. ASSUME NEW n \in Asked, Ask(n) \/ Serve(n) \/ Unopened(n) \/ Break(n) \/ Hear(n)
        PROVE  AppendsInTurn'
    BY Zenon, <1>1, <1>3, <1>4, <1>5, <1>6, AppendTurnStaysInTurn, StoreStaysInTurn DEF Serve
  <1>7. ASSUME NEW r \in Routes, Visit(r)
        PROVE  UNCHANGED <<turn, history, writes>>
    BY <1>7 DEF Visit, serverVars
  <1>8. ASSUME NEW s \in Sessions, Answer(s) \/ Receive(s)
        PROVE  UNCHANGED <<turn, history, writes>>
    BY <1>8 DEF Answer, Receive, serverVars
  <1>9. CASE Stop
    BY <1>1, <1>9 DEF Stop, serverVars
  <1>10. CASE UNCHANGED vars
    BY <1>1, <1>10 DEF vars
  <1> QED  BY Zenon, <1>1, <1>6, <1>7, <1>8, <1>9, <1>10 DEF Next

LEMMA StepInductive ==
    Inductive /\ AppendsInTurn /\ [Next]_vars => Inductive' /\ AppendsInTurn'
  <1> SUFFICES ASSUME Inductive, AppendsInTurn, [Next]_vars
               PROVE  Inductive'
    BY AppendsStep DEF Inductive
  <1>1. CASE UNCHANGED vars
    BY <1>1 DEF vars, Inductive, TypeOK, PlacesAgree, TurnsAtHome, DoneHasHome, HookKnows,
                HookAgrees, LiveIsSafe, ScreenIsRoute, PatientlyAskedWhereShown, AskedWhereShown,
                Known, Home, HomeOf, Loading, Restore
  <1>2. ASSUME NEW r \in Routes, Visit(r)
        PROVE  Inductive'
    BY <1>2, VisitKeeps
  <1>3. ASSUME NEW n \in Asked, Ask(n) \/ Serve(n) \/ Unopened(n) \/ Break(n) \/ Hear(n)
        PROVE  Inductive'
    BY Zenon, <1>3, AskKeeps, ServingKeeps, ArrivalKeeps, HearDoneKeeps DEF Hear
  <1>4. CASE Stop
    BY <1>4, StopKeeps
  <1>5. ASSUME NEW s \in Sessions, Answer(s) \/ Receive(s)
        PROVE  Inductive'
    BY <1>5, AnswerKeeps, ReceiveKeeps
  <1> QED  BY Zenon, <1>1, <1>2, <1>3, <1>4, <1>5 DEF Next

\* The inductive invariant holds of every state of the tab and the server, and
\* appends to one conversation wait for each other.
THEOREM InductiveHolds == Spec => [](Inductive /\ AppendsInTurn)
  <1>1. Init => AppendsInTurn
    BY DEF Init, AppendsInTurn, HoldsRow, At
  <1> QED  BY <1>1, InitInductive, StepInductive, PTL DEF Spec

\* The types of what the server, the hook and the query cache hold.
THEOREM TypeCorrect == Spec => []TypeOK
  <1>1. Inductive => TypeOK
    BY DEF Inductive
  <1> QED  BY <1>1, InductiveHolds, PTL

\* Whatever order requests, frames and transcripts arrive in, a user who waits sees
\* no finished turn of another conversation than the one in the address.
THEOREM ScreenShowsTheRoute == Spec => []ScreenIsRoute
  <1>1. Inductive => ScreenIsRoute
    BY DEF Inductive
  <1> QED  BY <1>1, InductiveHolds, PTL

\* A user who waits asks every question in the conversation on screen.
THEOREM QuestionsGoWhereShown == Spec => []PatientlyAskedWhereShown
  <1>1. Inductive => PatientlyAskedWhereShown
    BY DEF Inductive
  <1> QED  BY <1>1, InductiveHolds, PTL

\* No commit takes a turn out of a history: what an append read when it took the
\* row is still what the row holds when it commits.
THEOREM HistoriesGrow == Spec => StoredTurnsSurvive
  <1>1. Inductive /\ AppendsInTurn /\ [Next]_vars =>
           [\A s \in Sessions : history[s] \subseteq history'[s]]_vars
    <2> SUFFICES ASSUME Inductive, AppendsInTurn, Next
                 PROVE  \A s \in Sessions : history[s] \subseteq history'[s]
      BY DEF vars
    <2>1. ASSUME NEW n \in Asked, Store(n)
          PROVE  \A s \in Sessions : history[s] \subseteq history'[s]
      <3>1. history \in [Sessions -> SUBSET Turns]
        BY DEF Inductive, TypeOK
      <3>2. history' = [history EXCEPT ![turn[n].in] = writes[n]]
        BY <2>1 DEF Store
      <3>3. writes[n] = history[turn[n].in] \union {n}
        BY <2>1 DEF Store, AppendsInTurn, HoldsRow
      <3> QED  BY <3>1, <3>2, <3>3
    <2>2. CASE UNCHANGED history
      BY <2>2
    <2>3. UNCHANGED history \/ \E n \in Asked : Store(n)
      BY Zenon DEF Next, Visit, Ask, Serve, Open, Tell, AppendTurn, Finish, GiveUp, Unopened,
                   Break, Hear, HearDone, HearError, HearEnd, Stop, Answer, Receive, serverVars
    <2> QED  BY <2>1, <2>2, <2>3
  <1> QED  BY <1>1, InductiveHolds, PTL DEF Spec, StoredTurnsSurvive

\* No transcript that arrives, and no frame, takes the turn of a user who waits
\* off the screen.
THEOREM LiveTurnsRemain == Spec => LiveTurnsStay
  <1> DEFINE Stay == ~hasty' /\ visits' = visits =>
                        \A t \in screen : t.live => \E u \in screen' : u.live /\ u.of = t.of
  <1>1. Inductive /\ [Next]_vars => [Stay]_vars
    <2> SUFFICES ASSUME Inductive, Next, ~hasty', visits' = visits
                 PROVE  \A t \in screen : t.live => \E u \in screen' : u.live /\ u.of = t.of
      BY DEF vars
    <2>1. CASE screen \subseteq screen'
      BY <2>1
    <2>2. CASE \E n, status, which : status \in Statuses /\ screen' = Settle(n, status, which)
      BY <2>2, SettleEffect DEF Inductive
    <2>3. ASSUME NEW r \in Routes, Visit(r)
          PROVE  FALSE
      BY <2>3 DEF Visit, Inductive, TypeOK
    <2>4. ASSUME NEW s \in Sessions, Receive(s)
          PROVE  screen' = screen \/ \A t \in screen : ~t.live
      <3>1. fetch[s] # Idle /\ ~hasty
        BY <2>4 DEF Receive, Idle
      <3>2. CASE Restore(route, own) = s
        <4>1. Loading(Restore(route, own))
          BY <3>1, <3>2, ConversationAssumption DEF Loading
        <4> QED  BY <3>1, <4>1 DEF Inductive, LiveIsSafe
      <3>3. CASE Restore(route, own) # s
        BY <2>4, <3>3 DEF Receive
      <3> QED  BY <3>2, <3>3
    <2>5. ASSUME NEW n \in Asked, HearDone(n)
          PROVE  screen' = Settle(n, "done", Statuses)
      <3>1. ~hasty
        BY <2>5 DEF HearDone
      <3> QED  BY <2>5, <3>1, HearDoneEffect
    <2>6. ASSUME NEW n \in Asked, Ask(n) \/ Serve(n) \/ Unopened(n) \/ Break(n) \/ Hear(n)
          PROVE  \/ screen \subseteq screen'
                 \/ \E m, status, which : status \in Statuses /\ screen' = Settle(m, status, which)
      <3>1. {"done", "error", "aborted"} \subseteq Statuses
        BY DEF Statuses
      <3>2. CASE Ask(n)
        BY <3>2 DEF Ask
      <3>3. CASE Serve(n)
        BY Zenon, <3>3 DEF Serve, Open, Tell, AppendTurn, Finish, Store, GiveUp
      <3>4. CASE Unopened(n) \/ Break(n) \/ HearEnd(n)
        BY <3>1, <3>4 DEF Unopened, Break, HearEnd, Release
      <3>5. CASE HearError(n)
        BY <3>1, <3>5 DEF HearError
      <3>6. CASE HearDone(n)
        BY <2>5, <3>1, <3>6
      <3> QED  BY <2>6, <3>2, <3>3, <3>4, <3>5, <3>6 DEF Hear
    <2>7. CASE Stop
      <3>1. screen' = Settle(holder, "aborted", Statuses) /\ "aborted" \in Statuses
        BY <2>7 DEF Stop, Release, Statuses
      <3> QED  BY <2>2, <3>1
    <2>8. ASSUME NEW s \in Sessions, Answer(s)
          PROVE  screen' = screen
      BY <2>8 DEF Answer
    <2> QED  BY <2>1, <2>2, <2>3, <2>4, <2>6, <2>7, <2>8 DEF Next
  <1> QED  BY <1>1, InductiveHolds, PTL DEF Spec, LiveTurnsStay
=============================================================================
