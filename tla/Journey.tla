------------------------------- MODULE Journey -------------------------------
(***************************************************************************)
(* Nexus: the journey of one account, kept by the server with a revision,  *)
(* and the tabs that edit it.  The tabs of one browser share its session   *)
(* cookie and its local storage, where each keeps its draft.  A journey is *)
(* the set of the edits it holds.                                          *)
(***************************************************************************)
EXTENDS Naturals, Sequences, FiniteSets

CONSTANTS
    Tabs, Browsers,
    BrowserOf,      \* the browser of each tab
    EditsOf,        \* bound: the edits made in each tab, each once
    Full,           \* browsers whose local storage takes no more
    MaxRevision,    \* bound: the revision users may still replace by theirs
    MaxUpsets       \* bound: in all, edits undone, requests that get no answer
                    \* in time, sessions that end, logouts and pages closed

ASSUME JourneyAssumption ==
    /\ BrowserOf \in [Tabs -> Browsers]
    /\ Full \subseteq Browsers
    /\ DOMAIN EditsOf = Tabs
    /\ {MaxRevision, MaxUpsets} \subseteq Nat

VARIABLES
    server,     \* users.journey and users.revision
    sessions,   \* the sessions alive
    late,       \* writes nobody waits for that may still reach the server
    cookie,     \* of each browser: its session
    draft,      \* of each browser: the draft of the account
    tab,        \* of each tab: the state of useJourney
    awaiting,   \* of each tab: the request its `await` is at
    events,     \* of each tab: storage events to come
    upsets,
    made, withdrawn, givenUp, atRisk \* history, sets of edits

account == <<server, sessions, late>>
client  == <<cookie, draft, tab, awaiting, events>>
history == <<made, withdrawn, givenUp, atRisk>>
vars    == <<account, client, upsets, history>>

NoSession == 0
NoDraft == [journey |-> {}, revision |-> 0, stamp |-> 0]
Nothing == [op |-> "none"]

\* A page that was just opened.
Fresh ==
    [open |-> TRUE, user |-> FALSE, loaded |-> FALSE, pending |-> FALSE, conflict |-> FALSE,
     expired |-> FALSE, journey |-> {}, revision |-> 0, csrf |-> NoSession,
     draftRaw |-> NoDraft, undo |-> {}]

Closed == [Fresh EXCEPT !.open = FALSE]

\* A page that has read the empty journey of a new account.
Started == [Fresh EXCEPT !.user = TRUE, !.loaded = TRUE, !.csrf = 1]

\* Each browser is in its session, with some of its pages open.
Init ==
    /\ server = [journey |-> {}, revision |-> 0]
    /\ sessions = {1} /\ late = {}
    /\ cookie = [b \in Browsers |-> 1]
    /\ draft = [b \in Browsers |-> NoDraft]
    /\ tab \in [Tabs -> {Closed, Started}]
    /\ awaiting = [t \in Tabs |-> Nothing]
    /\ events = [t \in Tabs |-> <<>>]
    /\ upsets = 0
    /\ made = {} /\ withdrawn = {} /\ givenUp = {} /\ atRisk = {}

Idle(t) == awaiting[t].op = "none"

\* Not all of MaxUpsets has happened.
Calm == upsets + Cardinality(withdrawn) < MaxUpsets

canEdit(t) ==
    /\ tab[t].user /\ tab[t].loaded /\ Idle(t)
    /\ ~ tab[t].conflict /\ ~ tab[t].expired

-----------------------------------------------------------------------------
(***************************************************************************)
(* What a tab and its browser's draft d become: records [tab, draft].      *)
(***************************************************************************)

With(s, d) == [tab |-> s, draft |-> d]

\* A name for something new, which nothing else has.
NewName(used) == CHOOSE n \in 1..(Cardinality(used) + 1) : n \notin used

\* updatedAt tells a draft from every other that is still known somewhere.
Stamps ==
    {draft[b].stamp : b \in Browsers} \cup {tab[t].draftRaw.stamp : t \in Tabs}
    \cup UNION {{events[t][i].stamp : i \in DOMAIN events[t]} : t \in Tabs}

\* saveDraft: not over the draft of another tab, and only if there is room.
Saved(s, d, room) ==
    IF d # s.draftRaw THEN With([s EXCEPT !.conflict = TRUE], d)
    ELSE IF ~ room THEN With(s, d)
    ELSE LET raw == [journey |-> s.journey, revision |-> s.revision, stamp |-> NewName(Stamps)]
         IN  With([s EXCEPT !.draftRaw = raw], raw)

\* clearDraft
Cleared(s, d) ==
    IF d = s.draftRaw THEN With([s EXCEPT !.draftRaw = NoDraft], NoDraft)
    ELSE With([s EXCEPT !.draftRaw = NoDraft, !.conflict = @ \/ d # NoDraft], d)

\* applySnapshot
Applied(s, snapshot) ==
    [s EXCEPT !.journey = snapshot.journey, !.revision = snapshot.revision]

\* load: a draft the server does not have is pending again.
Loaded(s, d, snapshot) ==
    LET read == [Applied(s, snapshot) EXCEPT !.loaded = TRUE, !.draftRaw = d]
    IN  IF d = NoDraft THEN With(read, d)
        ELSE IF d.journey = snapshot.journey THEN Cleared(read, d)
        ELSE With([read EXCEPT !.journey = d.journey, !.revision = d.revision, !.pending = TRUE,
                               !.conflict = d.revision # snapshot.revision], d)

\* authenticate, after the load: the previous state of a tab that had pending
\* edits comes back.
Renewed(r, previous, room) ==
    IF \A p \in previous : p.journey = r.tab.journey THEN r
    ELSE LET p == CHOOSE p \in previous : TRUE
         IN  Saved([r.tab EXCEPT !.journey = p.journey, !.revision = p.revision, !.pending = TRUE,
                                 !.conflict = @ \/ p.revision # r.tab.revision],
                   r.draft, room)

HasRoom(t) == BrowserOf[t] \notin Full

\* The tab t is now r.tab and the draft r.draft. A draft that changes is news
\* to the other tabs of the browser.
Commit(t, r) ==
    LET b == BrowserOf[t]
        told == {u \in Tabs \ {t} : BrowserOf[u] = b /\ tab[u].open /\ r.draft # draft[b]}
    IN  /\ tab' = [tab EXCEPT ![t] = r.tab]
        /\ draft' = [draft EXCEPT ![b] = r.draft]
        /\ events' = [u \in Tabs |-> IF u \in told THEN Append(events[u], r.draft) ELSE events[u]]

SetTab(t, s) == Commit(t, With(s, draft[BrowserOf[t]]))

-----------------------------------------------------------------------------
(***************************************************************************)
(* Requests.  One is served as it is sent, since nothing its sender knows  *)
(* changes in between; its answer takes its time.                          *)
(***************************************************************************)

Writes == {"put", "choose"}

\* What the request carries of the tab's state s, with its browser's session.
Request(op, s, session) ==
    [op |-> op, session |-> session, csrf |-> s.csrf, journey |-> s.journey, revision |-> s.revision]

\* current, and the WHERE clause of update_journey. A login needs no session.
Refusal(q) ==
    IF q.op = "login" THEN 200
    ELSE IF q.session \notin sessions THEN 401
    ELSE IF q.op \in Writes \cup {"logout"} /\ q.csrf # q.session THEN 403
    ELSE IF q.op \in Writes /\ q.revision # server.revision THEN 409
    ELSE 200

NewSession ==
    NewName(sessions \cup {cookie[b] : b \in Browsers} \cup {tab[t].csrf : t \in Tabs}
            \cup {awaiting[t].session : t \in {u \in Tabs : ~ Idle(u)}} \cup {q.session : q \in late})

\* update_journey, logout, login, and the handlers that only read.
Perform(q) ==
    LET written == q.op \in Writes /\ Refusal(q) = 200
    IN  /\ server' = IF written THEN [journey |-> q.journey, revision |-> q.revision + 1] ELSE server
        /\ givenUp' = IF written /\ q.op = "choose"
                      THEN givenUp \cup (server.journey \ q.journey) ELSE givenUp
        /\ sessions' = IF q.op = "login" THEN sessions \cup {NewSession}
                       ELSE IF q.op = "logout" /\ Refusal(q) = 200 THEN sessions \ {q.session}
                       ELSE sessions

Answered(q, previous) ==
    [op |-> q.op, code |-> Refusal(q), server |-> server',
     session |-> IF q.op = "login" THEN NewSession ELSE q.session, previous |-> previous]

Unanswered(q, previous) ==
    [op |-> q.op, code |-> 0, session |-> q.session, previous |-> previous]

Await(t, answer) == awaiting' = [awaiting EXCEPT ![t] = answer]

\* The answer comes; or AbortSignal.timeout strikes first: the request was
\* lost, or its answer, or a write will be carried out when nobody waits.
Send(t, q, previous) ==
    \/ /\ Perform(q) /\ UNCHANGED late
       /\ upsets' = IF q.op = "logout" THEN upsets + 1 ELSE upsets
       /\ Await(t, Answered(q, previous))
    \/ /\ Calm /\ upsets' = upsets + 1
       /\ \/ Perform(q) /\ UNCHANGED late
          \/ UNCHANGED <<server, sessions, givenUp, late>>
          \/ /\ q.op \in Writes /\ late' = late \cup {q}
             /\ UNCHANGED <<server, sessions, givenUp>>
       /\ Await(t, Unanswered(q, previous))

Ask(t, op, s) == Send(t, Request(op, s, cookie[BrowserOf[t]]), {})

requests == <<server, sessions, late, upsets, givenUp>>

Finish(t) == awaiting' = [awaiting EXCEPT ![t] = Nothing] /\ UNCHANGED requests

ServeLate(q) ==
    /\ Perform(q) /\ late' = late \ {q}
    /\ UNCHANGED <<client, upsets, made, withdrawn, atRisk>>

\* A session reaches its age, or the password was changed elsewhere.
EndSession(session) ==
    /\ Calm /\ upsets' = upsets + 1
    /\ sessions' = sessions \ {session}
    /\ UNCHANGED <<server, late, client, history>>

-----------------------------------------------------------------------------
(***************************************************************************)
(* What the user and the timers start.  A handler runs up to its `await`.  *)
(***************************************************************************)

others == <<cookie, made, withdrawn, atRisk>>

\* change and the sync it ends with, for the state s of the tab.
SaveAndSend(t, s) ==
    LET r == Saved(s, draft[BrowserOf[t]], HasRoom(t))
    IN  /\ Commit(t, r)
        /\ IF r.tab.conflict THEN Finish(t) ELSE Ask(t, "put", r.tab)

Change(t, e) ==
    /\ canEdit(t) /\ e \in EditsOf[t] \ made
    /\ SaveAndSend(t, [tab[t] EXCEPT !.journey = @ \cup {e}, !.pending = TRUE,
                                     !.undo = {[journey |-> tab[t].journey, edit |-> e]}])
    /\ made' = made \cup {e}
    /\ UNCHANGED <<cookie, withdrawn, atRisk>>

\* The journey before the last change comes back.
Undo(t) ==
    /\ canEdit(t) /\ Calm
    /\ \E u \in tab[t].undo :
        /\ SaveAndSend(t, [tab[t] EXCEPT !.journey = u.journey, !.pending = TRUE, !.undo = {}])
        /\ withdrawn' = withdrawn \cup {u.edit}
    /\ UNCHANGED <<cookie, made, atRisk>>

\* A handler that only sends a request, for the tab's state as it is.
Start(t, op) == Ask(t, op, tab[t]) /\ UNCHANGED <<draft, tab, events, others>>

\* sync: the timer, a click, or the end of a handler.
MaySync(t) == tab[t].user /\ Idle(t) /\ ~ tab[t].conflict

\* A reading that brings no news is left out: it only takes time.
HasNews(t) ==
    \/ ~ tab[t].loaded
    \/ server.revision # tab[t].revision
    \/ cookie[BrowserOf[t]] \notin sessions

Sync(t) ==
    /\ MaySync(t)
    /\ \/ tab[t].pending /\ Start(t, "put")
       \/ /\ ~ tab[t].pending
          /\ HasNews(t)
          /\ Start(t, "get")

\* The account gate is there when nobody is in or the session has expired.
Login(t) ==
    /\ tab[t].open /\ Idle(t) /\ (~ tab[t].user \/ tab[t].expired)
    /\ Send(t, Request("login", tab[t], NoSession),
            IF tab[t].user /\ tab[t].pending
            THEN {[journey |-> tab[t].journey, revision |-> tab[t].revision]} ELSE {})
    /\ UNCHANGED <<draft, tab, events, others>>

\* resolveConflict, for the version of this device or for the server's.
Resolve(t, op) ==
    /\ tab[t].user /\ tab[t].conflict /\ Idle(t) /\ ~ tab[t].expired
    /\ op = "mine" => server.revision <= MaxRevision
    /\ Start(t, op)

Logout(t) ==
    /\ tab[t].user /\ Idle(t) /\ ~ tab[t].pending /\ ~ tab[t].conflict /\ ~ tab[t].expired
    /\ Calm
    /\ Start(t, "logout")

\* A page is opened: boot asks who is in.
Boot(t) ==
    /\ ~ tab[t].open
    /\ tab' = [tab EXCEPT ![t] = Fresh]
    /\ Ask(t, "session", Fresh)
    /\ UNCHANGED <<draft, events, others>>

\* boot again, offered while nobody is in; of no use without a session.
Retry(t) ==
    /\ tab[t].open /\ ~ tab[t].user /\ Idle(t)
    /\ cookie[BrowserOf[t]] \in sessions
    /\ Start(t, "session")

\* The page warns of what is pending or in conflict, and is not closed then.
Close(t) ==
    /\ tab[t].open /\ Idle(t) /\ ~ tab[t].pending /\ ~ tab[t].conflict
    /\ Calm /\ upsets' = upsets + 1
    /\ tab' = [tab EXCEPT ![t] = Closed]
    /\ events' = [events EXCEPT ![t] = <<>>]
    /\ UNCHANGED <<account, cookie, draft, awaiting, history>>

\* storageChanged
StorageChanged(t) ==
    /\ events[t] # <<>>
    /\ events' = [events EXCEPT ![t] = Tail(@)]
    /\ LET foreign == tab[t].user /\ Head(events[t]) # tab[t].draftRaw
       IN  /\ tab' = [tab EXCEPT ![t].conflict = @ \/ (foreign /\ tab[t].pending)]
           /\ IF foreign /\ ~ tab[t].pending /\ MaySync(t) /\ HasNews(t) THEN Ask(t, "get", tab[t])
              ELSE UNCHANGED <<awaiting, requests>>
    /\ UNCHANGED <<draft, others>>

-----------------------------------------------------------------------------
(***************************************************************************)
(* The handlers when the answer a is there.                                *)
(***************************************************************************)

Received(t, op) == awaiting[t].op = op

\* The error of a request of sync.
Failed(s, code) == [s EXCEPT !.conflict = @ \/ code = 409, !.expired = @ \/ code = 401]

\* Bug: a write that was refused is not tried again.
ReceivePutOnce(t) ==
    /\ Received(t, "put") /\ Finish(t)
    /\ LET a == awaiting[t]
           s == [tab[t] EXCEPT !.pending = FALSE]
       IN  Commit(t, Cleared(IF a.code = 200 THEN [s EXCEPT !.revision = a.server.revision] ELSE s,
                             draft[BrowserOf[t]]))
    /\ UNCHANGED others

ReceivePut(t) ==
    /\ Received(t, "put") /\ Finish(t)
    /\ LET a == awaiting[t]
       IN  IF a.code = 200
           THEN Commit(t, Cleared([tab[t] EXCEPT !.revision = a.server.revision, !.pending = FALSE],
                                  draft[BrowserOf[t]]))
           ELSE SetTab(t, Failed(tab[t], a.code))
    /\ UNCHANGED others

\* Bug: the last change can still be undone.
RefreshedWithUndo(s, snapshot) ==
    IF snapshot.revision = s.revision THEN s ELSE Applied(s, snapshot)

Refreshed(s, snapshot) ==
    IF snapshot.revision = s.revision THEN s
    ELSE [Applied(s, snapshot) EXCEPT !.undo = {}]

\* A page that could not load before does so now.
ReceiveGet(t) ==
    /\ Received(t, "get")
    /\ LET a == awaiting[t]
       IN  IF a.code = 200 /\ ~ tab[t].loaded
           THEN Ask(t, "reload", tab[t]) /\ SetTab(t, tab[t])
           ELSE /\ Finish(t)
                /\ SetTab(t, IF a.code = 200 THEN Refreshed(tab[t], a.server)
                             ELSE Failed(tab[t], a.code))
    /\ UNCHANGED others

ReceiveReload(t) ==
    /\ Received(t, "reload") /\ Finish(t)
    /\ LET a == awaiting[t]
       IN  IF a.code = 200 THEN Commit(t, Loaded(tab[t], draft[BrowserOf[t]], a.server))
           ELSE SetTab(t, Failed(tab[t], a.code))
    /\ UNCHANGED others

\* boot knows who is in, and loads.
ReceiveSession(t) ==
    /\ Received(t, "session")
    /\ LET a == awaiting[t]
           s == [tab[t] EXCEPT !.user = TRUE, !.csrf = a.session]
       IN  IF a.code = 200 THEN SetTab(t, s) /\ Ask(t, "load", s)
           ELSE SetTab(t, tab[t]) /\ Finish(t)
    /\ UNCHANGED others

\* authenticate: the browser has the new cookie, the tab starts anew and loads.
ReceiveLogin(t) ==
    /\ Received(t, "login")
    /\ LET a == awaiting[t]
           s == [tab[t] EXCEPT !.user = TRUE, !.csrf = a.session, !.expired = FALSE,
                               !.pending = FALSE, !.conflict = FALSE, !.undo = {}, !.loaded = FALSE]
       IN  IF a.code = 200
           THEN /\ cookie' = [cookie EXCEPT ![BrowserOf[t]] = a.session]
                /\ SetTab(t, s)
                /\ Send(t, Request("load", s, a.session), a.previous)
           ELSE SetTab(t, tab[t]) /\ Finish(t) /\ UNCHANGED cookie
    /\ UNCHANGED <<made, withdrawn, atRisk>>

\* The end of boot and of authenticate. When the load fails, what was pending
\* before a renewal is in the memory of the page, and nothing says so.
ReceiveLoad(t) ==
    /\ Received(t, "load") /\ Finish(t)
    /\ LET a == awaiting[t]
       IN  IF a.code = 200
           THEN /\ Commit(t, Renewed(Loaded(tab[t], draft[BrowserOf[t]], a.server),
                                     a.previous, HasRoom(t)))
                /\ UNCHANGED atRisk
           ELSE /\ SetTab(t, tab[t])
                /\ atRisk' = atRisk \cup UNION {p.journey : p \in a.previous}
    /\ UNCHANGED <<cookie, made, withdrawn>>

\* The end of resolveConflict: the draft is removed whose ever it is.
Resolved(t, s) ==
    /\ Commit(t, With([s EXCEPT !.draftRaw = NoDraft, !.conflict = FALSE, !.pending = FALSE,
                                !.undo = {}], NoDraft))
    /\ givenUp' = givenUp \cup ((draft[BrowserOf[t]].journey \cup tab[t].journey) \ s.journey)
    /\ awaiting' = [awaiting EXCEPT ![t] = Nothing]
    /\ UNCHANGED <<account, upsets>>

ReceiveTheirs(t) ==
    /\ Received(t, "theirs")
    /\ IF awaiting[t].code = 200 THEN Resolved(t, Applied(tab[t], awaiting[t].server))
       ELSE SetTab(t, tab[t]) /\ Finish(t)
    /\ UNCHANGED others

ReceiveMine(t) ==
    /\ Received(t, "mine")
    /\ IF awaiting[t].code = 200
       THEN Ask(t, "choose", [tab[t] EXCEPT !.revision = awaiting[t].server.revision])
       ELSE Finish(t)
    /\ SetTab(t, tab[t])
    /\ UNCHANGED others

ReceiveChoose(t) ==
    /\ Received(t, "choose")
    /\ IF awaiting[t].code = 200
       THEN Resolved(t, [tab[t] EXCEPT !.revision = awaiting[t].server.revision])
       ELSE SetTab(t, tab[t]) /\ Finish(t)
    /\ UNCHANGED others

ReceiveLogout(t) ==
    /\ Received(t, "logout") /\ Finish(t)
    /\ IF awaiting[t].code = 200
       THEN LET r == Cleared(tab[t], draft[BrowserOf[t]])
            IN  /\ Commit(t, With([r.tab EXCEPT !.user = FALSE, !.loaded = FALSE, !.journey = {},
                                                !.undo = {}, !.csrf = NoSession], r.draft))
                /\ cookie' = [cookie EXCEPT ![BrowserOf[t]] = NoSession]
       ELSE SetTab(t, tab[t]) /\ UNCHANGED cookie
    /\ UNCHANGED <<made, withdrawn, atRisk>>

Receive(t) ==
    \/ ReceivePut(t) \/ ReceiveGet(t) \/ ReceiveReload(t)
    \/ ReceiveSession(t) \/ ReceiveLogin(t) \/ ReceiveLoad(t)
    \/ ReceiveTheirs(t) \/ ReceiveMine(t) \/ ReceiveChoose(t) \/ ReceiveLogout(t)

Next ==
    \/ \E t \in Tabs :
        \/ \E e \in EditsOf[t] : Change(t, e)
        \/ Undo(t) \/ Sync(t) \/ Login(t) \/ Logout(t)
        \/ \E op \in {"theirs", "mine"} : Resolve(t, op)
        \/ Boot(t) \/ Retry(t) \/ Close(t) \/ StorageChanged(t) \/ Receive(t)
    \/ \E q \in late : ServeLate(q)
    \/ \E session \in sessions : EndSession(session)

Spec == Init /\ [][Next]_vars

-----------------------------------------------------------------------------
(***************************************************************************)
(* Properties.                                                             *)
(***************************************************************************)

\* The edit is somewhere its user can get it back from: on the server, in a
\* page, in a draft, or under way.
Kept(e) ==
    \/ e \in server.journey
    \/ \E t \in Tabs : e \in tab[t].journey
    \/ \E b \in Browsers : e \in draft[b].journey

\* No edit is lost that its user has not undone or given up in a conflict,
\* whatever two tabs, a lost answer or an expired session do to it. The one
\* exception is what RenewalKeepsDraft is about.
EditsKept == \A e \in made \ (withdrawn \cup givenUp \cup atRisk) : Kept(e)

\* The comment on authenticate: renewing the session keeps the draft in memory
\* even when the local storage is full.
RenewalKeepsDraft == \A e \in atRisk \ (withdrawn \cup givenUp) : Kept(e)

\* Writes do not replace what they have not read: an edit leaves the server
\* only if the user who made it undid it, or somebody chose so in a conflict.
SavedEditsStay ==
    [][server.journey \ server'.journey \subseteq withdrawn' \cup givenUp']_vars
=============================================================================
