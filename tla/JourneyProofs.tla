---------------------------- MODULE JourneyProofs ----------------------------
(***************************************************************************)
(* Nothing is written over what it has not read: an edit leaves the server *)
(* only when its user undid it or gave it up in a conflict.                *)
(***************************************************************************)
EXTENDS Journey, TLAPS

Excused == withdrawn \cup givenUp

\* A journey j that goes with revision r: to write it over the server's sv of
\* that revision loses nothing but what is in x.
Sound(sv, x, j, r) ==
    /\ r \in Nat /\ r <= sv.revision
    /\ r = sv.revision => sv.journey \ j \subseteq x

TabFields == {"open", "user", "loaded", "pending", "conflict", "expired", "journey", "revision",
              "csrf", "draftRaw", "undo"}

\* A tab that has loaded holds a journey that goes with its revision; what an
\* undo would bring back lacks one edit of it.
TabFine(sv, x, s) ==
    /\ DOMAIN s = TabFields
    /\ s.pending => s.loaded
    /\ s.loaded => s.user /\ Sound(sv, x, s.journey, s.revision)
    /\ ~ s.loaded => s.undo = {}
    /\ \A u \in s.undo : s.journey = u.journey \cup {u.edit}

DraftFine(sv, x, d) == d # NoDraft => Sound(sv, x, d.journey, d.revision)

\* The answer a tab in state s waits for: of a read, a journey and its revision;
\* of a write, the revision that what was written, and is still in the tab, got.
AnswerFine(sv, x, s, a) ==
    a.op # "none" =>
        /\ a.code = 200 => Sound(sv, x, a.server.journey, a.server.revision)
        /\ a.code = 200 /\ a.op \in Writes => a.server.journey = s.journey
        /\ a.op \in {"session", "load", "reload"} => ~ s.loaded
        /\ a.op \in {"get", "load", "reload"} => s.user
        /\ a.op = "logout" => ~ s.pending
        /\ \A p \in a.previous : Sound(sv, x, p.journey, p.revision)

\* A tab in state s may send the request op for the journey j.
Fits(op, j, s) ==
    /\ op # "none"
    /\ op \in Writes => j = s.journey
    /\ op \in {"session", "load", "reload"} => ~ s.loaded
    /\ op \in {"get", "load", "reload"} => s.user
    /\ op = "logout" => ~ s.pending

LateFine(sv, x, q) ==
    q.op \in Writes /\ (q.op = "put" => Sound(sv, x, q.journey, q.revision))

Shapes ==
    /\ DOMAIN tab = Tabs /\ DOMAIN awaiting = Tabs /\ DOMAIN draft = Browsers
    /\ server.revision \in Nat

ReadInv ==
    /\ Shapes
    /\ \A t \in Tabs : TabFine(server, Excused, tab[t])
    /\ \A b \in Browsers : DraftFine(server, Excused, draft[b])
    /\ \A t \in Tabs : AnswerFine(server, Excused, tab[t], awaiting[t])
    /\ \A q \in late : LateFine(server, Excused, q)

-----------------------------------------------------------------------------
\* What one write may do to the account: nothing, or a new revision; and what is
\* no longer on the server has been undone or given up.
Advances ==
    /\ server'.revision \in Nat
    /\ server' = server \/ server'.revision = server.revision + 1
    /\ Excused \subseteq Excused'
    /\ server.journey \ server'.journey \subseteq Excused'

\* What was right to write before is right still, or no longer accepted.
LEMMA SoundStill ==
    ASSUME server.revision \in Nat, Advances, NEW x, x \subseteq Excused', NEW j, NEW r,
           Sound(server, x, j, r)
    PROVE  Sound(server', Excused', j, r)
<1>1. r \in Nat /\ r <= server.revision
  BY DEF Sound
<1>2. CASE server' = server
  BY <1>2 DEF Sound
<1>3. CASE server'.revision = server.revision + 1
  BY <1>1, <1>3 DEF Sound
<1> QED  BY <1>2, <1>3 DEF Advances

LEMMA TabStill ==
    ASSUME server.revision \in Nat, Advances, NEW x, x \subseteq Excused',
           NEW s, TabFine(server, x, s)
    PROVE  TabFine(server', Excused', s)
BY SoundStill DEF TabFine

LEMMA DraftStill ==
    ASSUME server.revision \in Nat, Advances, NEW x, x \subseteq Excused',
           NEW d, DraftFine(server, x, d)
    PROVE  DraftFine(server', Excused', d)
BY SoundStill DEF DraftFine

LEMMA AnswerStill ==
    ASSUME server.revision \in Nat, Advances, NEW x, x \subseteq Excused',
           NEW s, NEW a, AnswerFine(server, x, s, a)
    PROVE  AnswerFine(server', Excused', s, a)
BY SoundStill DEF AnswerFine

LEMMA LateStill ==
    ASSUME server.revision \in Nat, Advances, NEW x, x \subseteq Excused',
           NEW q, LateFine(server, x, q)
    PROVE  LateFine(server', Excused', q)
BY SoundStill DEF LateFine

\* A request is performed: a write that is accepted replaces what it has read,
\* or what its user gives up.
LEMMA Performs ==
    ASSUME server.revision \in Nat, withdrawn \subseteq withdrawn', NEW q, Perform(q),
           q.op = "put" => Sound(server, withdrawn' \cup givenUp, q.journey, q.revision)
    PROVE  /\ Advances
           /\ Refusal(q) = 200 /\ q.op \in Writes => server'.journey = q.journey
<1>1. CASE q.op \in Writes /\ Refusal(q) = 200
  <2>1. q.revision = server.revision
    BY <1>1 DEF Refusal, Writes
  <2>2. server' = [journey |-> q.journey, revision |-> q.revision + 1]
    BY <1>1 DEF Perform
  <2>3. CASE q.op = "choose"
    <3>1. givenUp' = givenUp \cup (server.journey \ q.journey)
      BY <1>1, <2>3 DEF Perform
    <3> QED  BY <2>1, <2>2, <3>1 DEF Advances, Excused
  <2>4. CASE q.op = "put"
    <3>1. givenUp' = givenUp
      BY <2>4 DEF Perform
    <3>2. server.journey \ q.journey \subseteq withdrawn' \cup givenUp
      BY <2>1, <2>4 DEF Sound
    <3> QED  BY <2>1, <2>2, <3>1, <3>2 DEF Advances, Excused
  <2> QED  BY <1>1, <2>3, <2>4 DEF Writes
<1>2. CASE ~ (q.op \in Writes /\ Refusal(q) = 200)
  <2>1. server' = server /\ givenUp' = givenUp
    BY <1>2 DEF Perform
  <2> QED  BY <1>2, <2>1 DEF Advances, Excused
<1> QED  BY <1>1, <1>2

\* Whatever becomes of a request, it advances the account or leaves it.
LEMMA SendAdvances ==
    ASSUME server.revision \in Nat, withdrawn \subseteq withdrawn',
           NEW t, NEW q, NEW previous, Send(t, q, previous),
           q.op = "put" => Sound(server, withdrawn' \cup givenUp, q.journey, q.revision)
    PROVE  Advances /\ givenUp \subseteq givenUp'
<1>1. CASE Perform(q)
  <2>1. givenUp \subseteq givenUp'
    BY <1>1 DEF Perform
  <2> QED  BY <1>1, <2>1, Performs
<1>2. CASE UNCHANGED <<server, givenUp>>
  BY <1>2 DEF Advances, Excused
<1> QED  BY <1>1, <1>2 DEF Send

\* The request q is served, lost, or left to be served later; what the tab in
\* state s then waits for is in order.
LEMMA Sends ==
    ASSUME server.revision \in Nat, withdrawn \subseteq withdrawn',
           NEW t \in Tabs, DOMAIN awaiting = Tabs, NEW q, NEW previous, Send(t, q, previous),
           q.op = "put" => Sound(server, withdrawn' \cup givenUp, q.journey, q.revision),
           NEW s, Fits(q.op, q.journey, s),
           \A p \in previous : Sound(server', Excused', p.journey, p.revision)
    PROVE  /\ Advances
           /\ DOMAIN awaiting' = Tabs /\ \A u \in Tabs \ {t} : awaiting'[u] = awaiting[u]
           /\ AnswerFine(server', Excused', s, awaiting'[t])
           /\ \A l \in late' : l \in late \/ (l = q /\ q.op \in Writes)
<1> DEFINE lost == Unanswered(q, previous)
<1>1. CASE Perform(q) /\ UNCHANGED late /\ Await(t, Answered(q, previous))
  <2>1. Advances /\ (Refusal(q) = 200 /\ q.op \in Writes => server'.journey = q.journey)
    BY <1>1, Performs
  <2> DEFINE a == Answered(q, previous)
  <2>2. /\ a.op = q.op /\ a.code = Refusal(q) /\ a.server = server' /\ a.previous = previous
    BY DEF Answered
  <2>3. Sound(server', Excused', server'.journey, server'.revision)
    BY <2>1 DEF Sound, Advances
  <2>4. AnswerFine(server', Excused', s, a)
    <3> HIDE DEF a
    <3> QED  BY <2>1, <2>2, <2>3 DEF AnswerFine, Fits
  <2>5. /\ DOMAIN awaiting' = Tabs /\ \A u \in Tabs \ {t} : awaiting'[u] = awaiting[u]
        /\ awaiting'[t] = a
    BY <1>1 DEF Await
  <2> HIDE DEF a
  <2> QED  BY <1>1, <2>1, <2>4, <2>5
<1>2. ASSUME Advances, Await(t, lost)
      PROVE  /\ DOMAIN awaiting' = Tabs /\ \A u \in Tabs \ {t} : awaiting'[u] = awaiting[u]
             /\ AnswerFine(server', Excused', s, awaiting'[t])
  <2>1. lost.op = q.op /\ lost.code = 0 /\ lost.previous = previous
    BY DEF Unanswered
  <2>2. AnswerFine(server', Excused', s, lost)
    <3> HIDE DEF lost
    <3> QED  BY <2>1 DEF AnswerFine, Fits
  <2>3. /\ DOMAIN awaiting' = Tabs /\ \A u \in Tabs \ {t} : awaiting'[u] = awaiting[u]
        /\ awaiting'[t] = lost
    BY <1>2 DEF Await
  <2> HIDE DEF lost
  <2> QED  BY <2>2, <2>3
<1>3. CASE Perform(q) /\ UNCHANGED late /\ Await(t, lost)
  BY <1>2, <1>3, Performs
<1>4. CASE /\ UNCHANGED <<server, sessions, givenUp>> /\ Await(t, lost)
           /\ late' = late \/ (q.op \in Writes /\ late' = late \cup {q})
  <2>1. Advances
    BY <1>4 DEF Advances, Excused
  <2> QED  BY <1>2, <1>4, <2>1
<1> QED  BY <1>1, <1>3, <1>4 DEF Send

-----------------------------------------------------------------------------
(***************************************************************************)
(* What a tab and its draft become.                                        *)
(***************************************************************************)
LEMMA SavedFine ==
    ASSUME NEW sv, NEW x, NEW s, TabFine(sv, x, s), s.loaded,
           NEW d, DraftFine(sv, x, d), NEW room
    PROVE  /\ TabFine(sv, x, Saved(s, d, room).tab)
           /\ DraftFine(sv, x, Saved(s, d, room).draft)
           /\ Saved(s, d, room).tab.journey = s.journey
           /\ Saved(s, d, room).tab.revision = s.revision
           /\ Saved(s, d, room).tab.loaded
<1> DEFINE raw == [journey |-> s.journey, revision |-> s.revision, stamp |-> NewName(Stamps)]
<1>1. DraftFine(sv, x, raw)
  BY DEF DraftFine, TabFine
<1> HIDE DEF raw
<1>2. CASE d # s.draftRaw
  <2>1. Saved(s, d, room) = [tab |-> [s EXCEPT !.conflict = TRUE], draft |-> d]
    BY <1>2 DEF Saved, With
  <2> QED  BY <2>1 DEF TabFine, TabFields
<1>3. CASE d = s.draftRaw /\ ~ room
  <2>1. Saved(s, d, room) = [tab |-> s, draft |-> d]
    BY <1>3 DEF Saved, With
  <2> QED  BY <2>1
<1>4. CASE d = s.draftRaw /\ room
  <2>1. Saved(s, d, room) = [tab |-> [s EXCEPT !.draftRaw = raw], draft |-> raw]
    BY <1>4 DEF Saved, With, raw
  <2> QED  BY <1>1, <2>1 DEF TabFine, TabFields
<1> QED  BY <1>2, <1>3, <1>4

LEMMA ClearedFine ==
    ASSUME NEW sv, NEW x, NEW s, TabFine(sv, x, s), NEW d, DraftFine(sv, x, d)
    PROVE  /\ TabFine(sv, x, Cleared(s, d).tab)
           /\ DraftFine(sv, x, Cleared(s, d).draft)
           /\ Cleared(s, d).tab.loaded <=> s.loaded
           /\ Cleared(s, d).tab.pending <=> s.pending
           /\ Cleared(s, d).tab.undo = s.undo
<1>1. CASE d = s.draftRaw
  <2>1. Cleared(s, d) = [tab |-> [s EXCEPT !.draftRaw = NoDraft], draft |-> NoDraft]
    BY <1>1 DEF Cleared, With
  <2> QED  BY <2>1 DEF TabFine, TabFields, DraftFine
<1>2. CASE d # s.draftRaw
  <2>1. PICK c : Cleared(s, d) = [tab |-> [s EXCEPT !.draftRaw = NoDraft, !.conflict = c], draft |-> d]
    BY <1>2 DEF Cleared, With
  <2> DEFINE n == [s EXCEPT !.draftRaw = NoDraft, !.conflict = c]
  <2>2. /\ DOMAIN n = TabFields /\ (n.loaded <=> s.loaded) /\ (n.pending <=> s.pending)
        /\ (n.user <=> s.user) /\ n.undo = s.undo
        /\ n.journey = s.journey /\ n.revision = s.revision
    BY DEF TabFine, TabFields
  <2>3. Cleared(s, d).tab = n /\ Cleared(s, d).draft = d
    BY <2>1
  <2> HIDE DEF n
  <2>4. TabFine(sv, x, n)
    BY <2>2 DEF TabFine
  <2>5. TabFine(sv, x, Cleared(s, d).tab) /\ DraftFine(sv, x, Cleared(s, d).draft)
    BY <2>3, <2>4
  <2> QED  BY <2>2, <2>3, <2>5
<1> QED  BY <1>1, <1>2

\* What the server answered is taken as it is.
LEMMA AppliedFine ==
    ASSUME NEW sv, NEW x, NEW s, DOMAIN s = TabFields, s.user, s.undo = {},
           NEW snapshot, Sound(sv, x, snapshot.journey, snapshot.revision)
    PROVE  TabFine(sv, x, [Applied(s, snapshot) EXCEPT !.loaded = TRUE])
BY DEF TabFine, TabFields, Applied

LEMMA LoadedFine ==
    ASSUME NEW sv, NEW x, NEW s, TabFine(sv, x, s), s.user, ~ s.loaded,
           NEW d, DraftFine(sv, x, d),
           NEW snapshot, Sound(sv, x, snapshot.journey, snapshot.revision)
    PROVE  /\ TabFine(sv, x, Loaded(s, d, snapshot).tab)
           /\ DraftFine(sv, x, Loaded(s, d, snapshot).draft)
           /\ Loaded(s, d, snapshot).tab.loaded
           /\ Loaded(s, d, snapshot).tab.undo = {}
<1> DEFINE read == [Applied(s, snapshot) EXCEPT !.loaded = TRUE, !.draftRaw = d]
<1>1. TabFine(sv, x, read) /\ read.loaded /\ read.undo = {}
  BY DEF TabFine, TabFields, Applied
<1>2. CASE d = NoDraft
  <2>1. Loaded(s, d, snapshot) = [tab |-> read, draft |-> d]
    BY <1>2 DEF Loaded, With
  <2> HIDE DEF read
  <2> QED  BY <1>1, <2>1
<1>3. CASE d # NoDraft /\ d.journey = snapshot.journey
  <2>1. Loaded(s, d, snapshot) = Cleared(read, d)
    BY <1>3 DEF Loaded
  <2> HIDE DEF read
  <2>2. /\ TabFine(sv, x, Cleared(read, d).tab) /\ DraftFine(sv, x, Cleared(read, d).draft)
    BY <1>1, ClearedFine
  <2>3. /\ Cleared(read, d).tab.loaded <=> read.loaded
        /\ Cleared(read, d).tab.undo = read.undo
    <3>1. TabFine(sv, x, read)
      BY <1>1
    <3>2. Cleared(read, d).tab.undo = read.undo
      BY <3>1, ClearedFine
    <3>3. Cleared(read, d).tab.loaded <=> read.loaded
      BY <3>1, ClearedFine
    <3> QED  BY <3>2, <3>3
  <2>4. Cleared(read, d).tab.loaded
    BY <1>1, <2>3
  <2>5. Cleared(read, d).tab.undo = {}
    BY <1>1, <2>3
  <2> QED  BY <2>1, <2>2, <2>4, <2>5
<1>4. CASE d # NoDraft /\ d.journey # snapshot.journey
  <2>1. Loaded(s, d, snapshot) =
          [tab |-> [read EXCEPT !.journey = d.journey, !.revision = d.revision, !.pending = TRUE,
                                !.conflict = d.revision # snapshot.revision],
           draft |-> d]
    BY <1>4 DEF Loaded, With
  <2> DEFINE n == Loaded(s, d, snapshot).tab
  <2>2. Sound(sv, x, d.journey, d.revision)
    BY <1>4 DEF DraftFine
  <2>3. /\ DOMAIN n = TabFields /\ n.loaded /\ (n.user <=> read.user) /\ n.undo = read.undo
        /\ n.journey = d.journey /\ n.revision = d.revision
    <3> DEFINE c == d.revision # snapshot.revision
               changed == [read EXCEPT !.journey = d.journey, !.revision = d.revision,
                                       !.pending = TRUE, !.conflict = c]
    <3>1. n = changed
      BY <2>1
    <3>2. DOMAIN read = TabFields
      BY <1>1 DEF TabFine
    <3> HIDE DEF read, n, c
    <3>3. DOMAIN changed = TabFields /\ changed.undo = read.undo
      BY <3>2 DEF TabFields
    <3>4. changed.journey = d.journey /\ changed.revision = d.revision
      BY <3>2 DEF TabFields
    <3>5. changed.loaded <=> read.loaded
      BY <3>2 DEF TabFields
    <3>6. changed.user <=> read.user
      BY <3>2 DEF TabFields
    <3> HIDE DEF changed
    <3> QED  BY <1>1, <3>1, <3>3, <3>4, <3>5, <3>6
  <2>4. Loaded(s, d, snapshot).draft = d
    <3> HIDE DEF read
    <3> QED  BY <2>1
  <2>5. TabFine(sv, x, n)
    <3> HIDE DEF read, n
    <3> QED  BY <1>1, <2>2, <2>3 DEF TabFine
  <2> HIDE DEF read
  <2>6. n.undo = {}
    BY <1>1, <2>3
  <2> QED  BY <2>3, <2>4, <2>5, <2>6
<1> QED  BY <1>2, <1>3, <1>4

LEMMA RenewedFine ==
    ASSUME NEW sv, NEW x, NEW r, TabFine(sv, x, r.tab), DraftFine(sv, x, r.draft),
           r.tab.loaded, r.tab.undo = {},
           NEW previous, \A p \in previous : Sound(sv, x, p.journey, p.revision), NEW room
    PROVE  /\ TabFine(sv, x, Renewed(r, previous, room).tab)
           /\ DraftFine(sv, x, Renewed(r, previous, room).draft)
<1>1. CASE \A p \in previous : p.journey = r.tab.journey
  BY <1>1 DEF Renewed
<1>2. CASE ~ \A p \in previous : p.journey = r.tab.journey
  <2> DEFINE p == CHOOSE p \in previous : TRUE
             s == [r.tab EXCEPT !.journey = p.journey, !.revision = p.revision, !.pending = TRUE,
                                !.conflict = @ \/ p.revision # r.tab.revision]
  <2>1. Renewed(r, previous, room) = Saved(s, r.draft, room)
    BY <1>2 DEF Renewed
  <2>2. Sound(sv, x, p.journey, p.revision)
    BY <1>2
  <2> HIDE DEF p
  <2>3. TabFine(sv, x, s) /\ s.loaded
    BY <2>2 DEF TabFine, TabFields
  <2> HIDE DEF s
  <2> QED  BY <2>1, <2>3, SavedFine
<1> QED  BY <1>1, <1>2

-----------------------------------------------------------------------------
\* One tab moves: it and its browser's draft change, and what it waits for.
LEMMA Moves ==
    ASSUME ReadInv, Advances, NEW t \in Tabs,
           DOMAIN tab' = Tabs, \A u \in Tabs \ {t} : tab'[u] = tab[u],
           TabFine(server', Excused', tab'[t]),
           DOMAIN draft' = Browsers,
           \A b \in Browsers : draft'[b] = draft[b] \/ DraftFine(server', Excused', draft'[b]),
           DOMAIN awaiting' = Tabs, \A u \in Tabs \ {t} : awaiting'[u] = awaiting[u],
           AnswerFine(server', Excused', tab'[t], awaiting'[t]),
           \A q \in late' : q \in late \/ LateFine(server', Excused', q)
    PROVE  ReadInv'
<1>0. server.revision \in Nat /\ server'.revision \in Nat /\ Excused \subseteq Excused'
  BY DEF ReadInv, Shapes, Advances
<1>1. Shapes'
  BY <1>0 DEF Shapes
<1>2. \A u \in Tabs : TabFine(server', Excused', tab'[u])
  BY <1>0, TabStill DEF ReadInv
<1>3. \A b \in Browsers : DraftFine(server', Excused', draft'[b])
  BY <1>0, DraftStill DEF ReadInv
<1>4. \A u \in Tabs : AnswerFine(server', Excused', tab'[u], awaiting'[u])
  BY <1>0, AnswerStill DEF ReadInv
<1>5. \A q \in late' : LateFine(server', Excused', q)
  BY <1>0, LateStill DEF ReadInv
<1> QED  BY <1>1, <1>2, <1>3, <1>4, <1>5 DEF ReadInv

\* Commit, with what it leaves alone.
LEMMA Commits ==
    ASSUME ReadInv, NEW t \in Tabs, NEW r, Commit(t, r)
    PROVE  /\ DOMAIN tab' = Tabs /\ tab'[t] = r.tab
           /\ \A u \in Tabs \ {t} : tab'[u] = tab[u]
           /\ DOMAIN draft' = Browsers
           /\ \A b \in Browsers : draft'[b] = draft[b] \/ draft'[b] = r.draft
BY JourneyAssumption DEF Commit, ReadInv, Shapes

\* A handler that ends with nothing to wait for.
LEMMA FinishMoves ==
    ASSUME ReadInv, withdrawn \subseteq withdrawn', NEW t \in Tabs, NEW r,
           Commit(t, r), UNCHANGED <<server, late>>, givenUp \subseteq givenUp',
           awaiting' = [awaiting EXCEPT ![t] = Nothing],
           NEW x, x \subseteq Excused', TabFine(server, x, r.tab), DraftFine(server, x, r.draft)
    PROVE  ReadInv' /\ Advances
<1>0. server.revision \in Nat /\ DOMAIN awaiting = Tabs
  BY DEF ReadInv, Shapes
<1>1. UNCHANGED <<server, late>> /\ awaiting' = [awaiting EXCEPT ![t] = Nothing]
  OBVIOUS
<1>2. Advances
  BY <1>0, <1>1 DEF Advances, Excused
<1>3. AnswerFine(server', Excused', tab'[t], awaiting'[t])
  BY <1>0, <1>1 DEF AnswerFine, Nothing
<1>4. TabFine(server', Excused', r.tab) /\ DraftFine(server', Excused', r.draft)
  BY <1>0, <1>2, TabStill, DraftStill
<1>5. DOMAIN awaiting' = Tabs /\ \A u \in Tabs \ {t} : awaiting'[u] = awaiting[u]
  BY <1>0, <1>1
<1>6. ReadInv'
  BY <1>1, <1>2, <1>3, <1>4, <1>5, Commits, Moves
<1> QED  BY <1>2, <1>6

\* A tab, in its new state, that sends a request.
LEMMA SendMoves ==
    ASSUME ReadInv, withdrawn \subseteq withdrawn', NEW t \in Tabs,
           NEW q, NEW previous, Send(t, q, previous),
           NEW x, x = withdrawn' \cup givenUp,
           q.op = "put" => Sound(server, x, q.journey, q.revision),
           NEW s, s = tab'[t], TabFine(server, x, s), Fits(q.op, q.journey, s),
           \A p \in previous : Sound(server, x, p.journey, p.revision),
           DOMAIN tab' = Tabs, \A u \in Tabs \ {t} : tab'[u] = tab[u],
           DOMAIN draft' = Browsers,
           \A b \in Browsers : draft'[b] = draft[b] \/ DraftFine(server, x, draft'[b])
    PROVE  ReadInv' /\ Advances
<1>0. server.revision \in Nat /\ DOMAIN awaiting = Tabs
  BY DEF ReadInv, Shapes
<1>1. Advances /\ givenUp \subseteq givenUp'
  BY <1>0, SendAdvances
<1>2. x \subseteq Excused'
  BY <1>1 DEF Excused
<1>3. \A p \in previous : Sound(server', Excused', p.journey, p.revision)
  BY <1>0, <1>1, <1>2, SoundStill
<1>4. /\ DOMAIN awaiting' = Tabs /\ \A u \in Tabs \ {t} : awaiting'[u] = awaiting[u]
      /\ AnswerFine(server', Excused', s, awaiting'[t])
  BY <1>0, <1>3, Sends
<1>5. \A l \in late' : l \in late \/ LateFine(server', Excused', l)
  <2>1. \A l \in late' : l \in late \/ (l = q /\ q.op \in Writes)
    BY <1>0, <1>3, Sends
  <2>2. q.op \in Writes => LateFine(server, x, q)
    BY DEF LateFine
  <2> QED  BY <1>0, <1>1, <1>2, <2>1, <2>2, LateStill
<1>6. TabFine(server', Excused', tab'[t])
  BY <1>0, <1>1, <1>2, TabStill
<1>7. \A b \in Browsers : draft'[b] = draft[b] \/ DraftFine(server', Excused', draft'[b])
  BY <1>0, <1>1, <1>2, DraftStill
<1>8. AnswerFine(server', Excused', tab'[t], awaiting'[t])
  BY <1>4
<1>9. ReadInv'
  BY <1>1, <1>4, <1>5, <1>6, <1>7, <1>8, Moves
<1> QED  BY <1>1, <1>9

\* Nothing of the pages moves.
LEMMA Stays ==
    ASSUME ReadInv, Advances, UNCHANGED <<tab, draft, awaiting>>, late' \subseteq late
    PROVE  ReadInv'
<1>0. server.revision \in Nat /\ server'.revision \in Nat /\ Excused \subseteq Excused'
  BY DEF ReadInv, Shapes, Advances
<1>1. Shapes'
  BY <1>0 DEF ReadInv, Shapes
<1>2. \A u \in Tabs : TabFine(server', Excused', tab'[u])
  BY <1>0, TabStill DEF ReadInv
<1>3. \A b \in Browsers : DraftFine(server', Excused', draft'[b])
  BY <1>0, DraftStill DEF ReadInv
<1>4. \A u \in Tabs : AnswerFine(server', Excused', tab'[u], awaiting'[u])
  BY <1>0, AnswerStill DEF ReadInv
<1>5. \A q \in late' : LateFine(server', Excused', q)
  BY <1>0, LateStill DEF ReadInv
<1> QED  BY <1>1, <1>2, <1>3, <1>4, <1>5 DEF ReadInv

\* A tab, in its new state, that sends a request of its own state s.
LEMMA AskMoves ==
    ASSUME ReadInv, withdrawn \subseteq withdrawn', NEW t \in Tabs,
           NEW op, NEW s, Ask(t, op, s), NEW x, x = withdrawn' \cup givenUp,
           op = "put" => Sound(server, x, s.journey, s.revision),
           NEW n, n = tab'[t], TabFine(server, x, n), Fits(op, s.journey, n),
           DOMAIN tab' = Tabs, \A u \in Tabs \ {t} : tab'[u] = tab[u],
           DOMAIN draft' = Browsers,
           \A b \in Browsers : draft'[b] = draft[b] \/ DraftFine(server, x, draft'[b])
    PROVE  ReadInv' /\ Advances
<1> DEFINE q == Request(op, s, cookie[BrowserOf[t]])
<1>1. q.op = op /\ q.journey = s.journey /\ q.revision = s.revision
  BY DEF Request
<1>2. Send(t, q, {})
  BY DEF Ask
<1> HIDE DEF q
<1>3. q.op = "put" => Sound(server, x, q.journey, q.revision)
  BY <1>1
<1>4. Fits(q.op, q.journey, n)
  BY <1>1
<1>5. \A p \in {} : Sound(server, x, p.journey, p.revision)
  OBVIOUS
<1> QED  BY <1>2, <1>3, <1>4, <1>5, SendMoves

\* The same, with the tabs and the drafts as they are.
LEMMA StartMoves ==
    ASSUME ReadInv, UNCHANGED withdrawn, NEW t \in Tabs, 
           NEW op, Start(t, op), op = "put" => tab[t].pending,
           Fits(op, tab[t].journey, tab[t])
    PROVE  ReadInv' /\ Advances
<1>1. Ask(t, op, tab[t]) /\ UNCHANGED <<tab, draft>>
  BY DEF Start
<1>2. TabFine(server, Excused, tab[t]) /\ DOMAIN tab = Tabs /\ DOMAIN draft = Browsers
  BY DEF ReadInv, Shapes
<1>3. op = "put" => Sound(server, Excused, tab[t].journey, tab[t].revision)
  BY <1>2 DEF TabFine, Writes
<1>4. Excused = withdrawn' \cup givenUp
  BY DEF Excused
<1> QED  BY <1>1, <1>2, <1>3, <1>4, AskMoves

\* change and undo: what is saved in the draft is then sent.
LEMMA SaveAndSends ==
    ASSUME ReadInv, withdrawn \subseteq withdrawn', NEW t \in Tabs,
           NEW s, SaveAndSend(t, s), s.loaded,
           TabFine(server, withdrawn' \cup givenUp, s)
    PROVE  ReadInv' /\ Advances
<1> DEFINE x == withdrawn' \cup givenUp
           d == draft[BrowserOf[t]]
           r == Saved(s, d, HasRoom(t))
<1>1. DraftFine(server, x, d)
  <2>1. DraftFine(server, Excused, d)
    BY JourneyAssumption DEF ReadInv
  <2> QED  BY <2>1 DEF DraftFine, Sound, Excused
<1>2. Commit(t, r) /\ (IF r.tab.conflict THEN Finish(t) ELSE Ask(t, "put", r.tab))
  BY DEF SaveAndSend
<1> HIDE DEF d
<1>3. TabFine(server, x, r.tab) /\ DraftFine(server, x, r.draft) /\ r.tab.loaded
  BY <1>1, SavedFine
<1> HIDE DEF r
<1>4. CASE r.tab.conflict
  <2>1. /\ UNCHANGED <<server, late>> /\ givenUp' = givenUp
        /\ awaiting' = [awaiting EXCEPT ![t] = Nothing]
    BY <1>2, <1>4 DEF Finish, requests
  <2>2. x \subseteq Excused'
    BY <2>1 DEF Excused
  <2> HIDE DEF x
  <2> QED  BY <1>2, <1>3, <2>1, <2>2, FinishMoves
<1>5. CASE ~ r.tab.conflict
  <2>1. /\ DOMAIN tab' = Tabs /\ tab'[t] = r.tab
        /\ \A u \in Tabs \ {t} : tab'[u] = tab[u]
        /\ DOMAIN draft' = Browsers
        /\ \A b \in Browsers : draft'[b] = draft[b] \/ draft'[b] = r.draft
    BY <1>2, Commits
  <2>2. Ask(t, "put", r.tab)
    BY <1>2, <1>5
  <2>3. Sound(server, x, r.tab.journey, r.tab.revision)
    BY <1>3 DEF TabFine
  <2>4. x = withdrawn' \cup givenUp
    OBVIOUS
  <2>5. Fits("put", r.tab.journey, r.tab)
    BY DEF Fits
  <2> HIDE DEF x
  <2> QED  BY <1>3, <2>1, <2>2, <2>3, <2>4, <2>5, AskMoves
<1> QED  BY <1>4, <1>5

-----------------------------------------------------------------------------
\* A tab's state that differs in what the invariant does not speak of.
LEMMA TabLike ==
    ASSUME NEW sv, NEW x, NEW s, TabFine(sv, x, s), NEW n, DOMAIN n = DOMAIN s,
           n.pending <=> s.pending, n.loaded <=> s.loaded, n.user <=> s.user,
           n.journey = s.journey, n.revision = s.revision, n.undo = s.undo
    PROVE  TabFine(sv, x, n)
BY DEF TabFine

\* A handler that ends, in the tab's new state and with the draft as it is or new.
LEMMA EndMoves ==
    ASSUME ReadInv, UNCHANGED withdrawn, NEW t \in Tabs, NEW r, Commit(t, r), Finish(t),
           TabFine(server, Excused, r.tab), DraftFine(server, Excused, r.draft)
    PROVE  ReadInv' /\ Advances
<1>1. /\ UNCHANGED <<server, late>> /\ givenUp' = givenUp
      /\ awaiting' = [awaiting EXCEPT ![t] = Nothing]
  BY DEF Finish, requests
<1>2. Excused \subseteq Excused'
  BY <1>1 DEF Excused
<1> QED  BY <1>1, <1>2, FinishMoves

LEMMA EndTab ==
    ASSUME ReadInv, UNCHANGED withdrawn, NEW t \in Tabs, NEW s, SetTab(t, s), Finish(t),
           TabFine(server, Excused, s)
    PROVE  ReadInv' /\ Advances
<1> DEFINE r == With(s, draft[BrowserOf[t]])
<1>1. Commit(t, r) /\ r.tab = s /\ r.draft = draft[BrowserOf[t]]
  BY DEF SetTab, With
<1>2. DraftFine(server, Excused, draft[BrowserOf[t]])
  BY JourneyAssumption DEF ReadInv
<1> HIDE DEF r
<1> QED  BY <1>1, <1>2, EndMoves

LEMMA FailedFine ==
    ASSUME NEW sv, NEW x, NEW s, TabFine(sv, x, s), NEW code
    PROVE  TabFine(sv, x, Failed(s, code))
<1> DEFINE c == s.conflict \/ code = 409
           e == s.expired \/ code = 401
           n == [s EXCEPT !.conflict = c, !.expired = e]
<1>1. Failed(s, code) = n
  BY DEF Failed
<1> HIDE DEF c, e
<1>2. /\ DOMAIN n = DOMAIN s /\ (n.pending <=> s.pending) /\ (n.loaded <=> s.loaded)
      /\ (n.user <=> s.user)
      /\ n.journey = s.journey /\ n.revision = s.revision /\ n.undo = s.undo
  BY DEF TabFine, TabFields
<1> HIDE DEF n
<1>3. TabFine(sv, x, n)
  BY <1>2, TabLike
<1> QED  BY <1>1, <1>3

LEMMA ChangeReads ==
    ASSUME ReadInv, NEW t \in Tabs, NEW e, Change(t, e)
    PROVE  ReadInv' /\ Advances
<1> DEFINE s == [tab[t] EXCEPT !.journey = @ \cup {e}, !.pending = TRUE,
                              !.undo = {[journey |-> tab[t].journey, edit |-> e]}]
<1>1. SaveAndSend(t, s) /\ UNCHANGED withdrawn /\ tab[t].loaded
  BY DEF Change, canEdit
<1>2. TabFine(server, Excused, tab[t])
  BY DEF ReadInv
<1>3. s.loaded /\ TabFine(server, Excused, s)
  BY <1>1, <1>2 DEF TabFine, TabFields, Sound
<1>4. Excused = withdrawn' \cup givenUp
  BY <1>1 DEF Excused
<1> HIDE DEF s
<1> QED  BY <1>1, <1>3, <1>4, SaveAndSends

LEMMA UndoReads ==
    ASSUME ReadInv, NEW t \in Tabs, Undo(t)
    PROVE  ReadInv' /\ Advances
<1>1. PICK u \in tab[t].undo :
        /\ SaveAndSend(t, [tab[t] EXCEPT !.journey = u.journey, !.pending = TRUE, !.undo = {}])
        /\ withdrawn' = withdrawn \cup {u.edit}
  BY DEF Undo
<1> DEFINE s == [tab[t] EXCEPT !.journey = u.journey, !.pending = TRUE, !.undo = {}]
<1>2. tab[t].loaded /\ TabFine(server, Excused, tab[t])
  BY DEF Undo, canEdit, ReadInv
<1>3. tab[t].journey = u.journey \cup {u.edit}
  BY <1>2 DEF TabFine
<1>4. s.loaded /\ TabFine(server, withdrawn' \cup givenUp, s)
  BY <1>1, <1>2, <1>3 DEF TabFine, TabFields, Sound, Excused
<1>5. SaveAndSend(t, s)
  BY <1>1
<1> HIDE DEF s
<1> QED  BY <1>1, <1>4, <1>5, SaveAndSends

\* sync, resolveConflict, logout and boot again.
LEMMA StartReads ==
    ASSUME ReadInv, NEW t \in Tabs,
           \/ Sync(t) \/ Logout(t) \/ Retry(t)
           \/ \E op \in {"theirs", "mine"} : Resolve(t, op)
    PROVE  ReadInv' /\ Advances
<1>1. TabFine(server, Excused, tab[t])
  BY DEF ReadInv
<1>2. PICK op : /\ Start(t, op) /\ (op = "put" => tab[t].pending)
                /\ Fits(op, tab[t].journey, tab[t])
  <2>1. CASE Sync(t)
    BY <2>1 DEF Sync, MaySync, Fits
  <2>2. CASE Logout(t)
    BY <2>2 DEF Logout, Fits, Writes
  <2>3. CASE Retry(t)
    BY <1>1, <2>3 DEF Retry, Fits, Writes, TabFine
  <2>4. CASE \E op \in {"theirs", "mine"} : Resolve(t, op)
    BY <2>4 DEF Resolve, Fits, Writes
  <2> QED  BY <2>1, <2>2, <2>3, <2>4
<1>3. UNCHANGED withdrawn
  BY <1>2 DEF Start, others
<1> QED  BY <1>2, <1>3, StartMoves

LEMMA LoginReads ==
    ASSUME ReadInv, NEW t \in Tabs, Login(t)
    PROVE  ReadInv' /\ Advances
<1> DEFINE q == Request("login", tab[t], NoSession)
           previous == IF tab[t].user /\ tab[t].pending
                       THEN {[journey |-> tab[t].journey, revision |-> tab[t].revision]} ELSE {}
<1>1. Send(t, q, previous) /\ UNCHANGED <<tab, draft, withdrawn>>
  BY DEF Login, others
<1>2. q.op = "login"
  BY DEF Request
<1>3. /\ TabFine(server, Excused, tab[t])
      /\ DOMAIN tab = Tabs /\ DOMAIN draft = Browsers
  BY DEF ReadInv, Shapes
<1>4. \A p \in previous : Sound(server, Excused, p.journey, p.revision)
  BY <1>3 DEF TabFine
<1>5. Fits(q.op, q.journey, tab[t])
  BY <1>2 DEF Fits, Writes
<1>6. Excused = withdrawn' \cup givenUp
  BY <1>1 DEF Excused
<1> HIDE DEF q, previous
<1> QED  BY <1>1, <1>2, <1>3, <1>4, <1>5, <1>6, SendMoves

LEMMA BootReads ==
    ASSUME ReadInv, NEW t \in Tabs, Boot(t)
    PROVE  ReadInv' /\ Advances
<1>1. /\ tab' = [tab EXCEPT ![t] = Fresh] /\ Ask(t, "session", Fresh)
      /\ UNCHANGED <<draft, withdrawn>>
  BY DEF Boot, others
<1>2. TabFine(server, Excused, Fresh)
  BY DEF TabFine, TabFields, Fresh
<1>3. Fits("session", Fresh.journey, Fresh)
  BY DEF Fits, Fresh, Writes
<1>4. Excused = withdrawn' \cup givenUp
  BY <1>1 DEF Excused
<1>5. /\ DOMAIN tab' = Tabs /\ tab'[t] = Fresh /\ DOMAIN draft = Browsers
      /\ \A u \in Tabs \ {t} : tab'[u] = tab[u]
  BY <1>1 DEF ReadInv, Shapes
<1> QED  BY <1>1, <1>2, <1>3, <1>4, <1>5, AskMoves

LEMMA CloseReads ==
    ASSUME ReadInv, NEW t \in Tabs, Close(t)
    PROVE  ReadInv' /\ Advances
<1>1. /\ tab' = [tab EXCEPT ![t] = Closed] /\ awaiting[t].op = "none"
      /\ UNCHANGED <<server, late, draft, awaiting, withdrawn, givenUp>>
  BY DEF Close, Idle, account, history
<1>2. Advances
  BY <1>1 DEF Advances, Excused, ReadInv, Shapes
<1>3. TabFine(server', Excused', Closed)
  BY DEF TabFine, TabFields, Closed, Fresh
<1>4. /\ DOMAIN tab' = Tabs /\ tab'[t] = Closed /\ DOMAIN draft = Browsers
      /\ DOMAIN awaiting = Tabs /\ \A u \in Tabs \ {t} : tab'[u] = tab[u]
  BY <1>1 DEF ReadInv, Shapes
<1>5. AnswerFine(server', Excused', tab'[t], awaiting'[t])
  BY <1>1 DEF AnswerFine
<1>6. ReadInv'
  BY <1>1, <1>2, <1>3, <1>4, <1>5, Moves
<1> QED  BY <1>2, <1>6

\* The tab's state s is set and a request of it sent, nothing undone.
LEMMA SetAndAsk ==
    ASSUME ReadInv, UNCHANGED withdrawn, NEW t \in Tabs, NEW n, SetTab(t, n),
           TabFine(server, Excused, n),
           NEW q, NEW previous, Send(t, q, previous), q.op # "put",
           Fits(q.op, q.journey, n),
           \A p \in previous : Sound(server, Excused, p.journey, p.revision)
    PROVE  ReadInv' /\ Advances
<1> DEFINE r == With(n, draft[BrowserOf[t]])
<1>1. Commit(t, r) /\ r.tab = n /\ r.draft = draft[BrowserOf[t]]
  BY DEF SetTab, With
<1>2. DraftFine(server, Excused, draft[BrowserOf[t]])
  BY JourneyAssumption DEF ReadInv
<1> HIDE DEF r
<1>3. /\ DOMAIN tab' = Tabs /\ tab'[t] = n
      /\ \A u \in Tabs \ {t} : tab'[u] = tab[u]
      /\ DOMAIN draft' = Browsers
      /\ \A b \in Browsers : draft'[b] = draft[b] \/ draft'[b] = r.draft
  BY <1>1, Commits
<1>4. \A b \in Browsers : draft'[b] = draft[b] \/ DraftFine(server, Excused, draft'[b])
  BY <1>1, <1>2, <1>3
<1>5. Excused = withdrawn' \cup givenUp
  BY DEF Excused
<1> QED  BY <1>3, <1>4, <1>5, SendMoves

LEMMA SetAndAskOwn ==
    ASSUME ReadInv, UNCHANGED withdrawn, NEW t \in Tabs, NEW n, SetTab(t, n),
           TabFine(server, Excused, n),
           NEW op, NEW s, Ask(t, op, s), op # "put", Fits(op, s.journey, n)
    PROVE  ReadInv' /\ Advances
<1> DEFINE q == Request(op, s, cookie[BrowserOf[t]])
<1>1. q.op = op /\ q.journey = s.journey
  BY DEF Request
<1>2. Send(t, q, {})
  BY DEF Ask
<1> HIDE DEF q
<1> QED  BY <1>1, <1>2, SetAndAsk

LEMMA ReceivePutReads ==
    ASSUME ReadInv, NEW t \in Tabs, ReceivePut(t)
    PROVE  ReadInv' /\ Advances
<1> DEFINE a == awaiting[t]
           d == draft[BrowserOf[t]]
           s == [tab[t] EXCEPT !.revision = a.server.revision, !.pending = FALSE]
<1>1. a.op = "put" /\ Finish(t) /\ UNCHANGED withdrawn
  BY DEF ReceivePut, Received, others
<1>2. /\ TabFine(server, Excused, tab[t]) /\ AnswerFine(server, Excused, tab[t], a)
      /\ DraftFine(server, Excused, d)
  BY JourneyAssumption DEF ReadInv
<1>3. CASE a.code = 200
  <2>1. Commit(t, Cleared(s, d))
    BY <1>3 DEF ReceivePut
  <2>2. Sound(server, Excused, tab[t].journey, a.server.revision)
    BY <1>1, <1>2, <1>3 DEF AnswerFine, Writes
  <2>3. TabFine(server, Excused, s)
    <3>1. /\ DOMAIN s = TabFields /\ s.undo = tab[t].undo /\ ~ s.pending
          /\ s.journey = tab[t].journey /\ s.revision = a.server.revision
      BY <1>2 DEF TabFine, TabFields
    <3>2. (s.loaded <=> tab[t].loaded) /\ (s.user <=> tab[t].user)
      BY <1>2 DEF TabFine, TabFields
    <3> HIDE DEF s, a
    <3> QED  BY <1>2, <2>2, <3>1, <3>2 DEF TabFine
  <2> HIDE DEF s, d
  <2>4. /\ TabFine(server, Excused, Cleared(s, d).tab)
        /\ DraftFine(server, Excused, Cleared(s, d).draft)
    BY <1>2, <2>3, ClearedFine
  <2> QED  BY <1>1, <2>1, <2>4, EndMoves
<1>4. CASE a.code # 200
  <2>1. SetTab(t, Failed(tab[t], a.code))
    BY <1>4 DEF ReceivePut
  <2>2. TabFine(server, Excused, Failed(tab[t], a.code))
    BY <1>2, FailedFine
  <2> HIDE DEF a
  <2> QED  BY <1>1, <2>1, <2>2, EndTab
<1> QED  BY <1>3, <1>4

LEMMA ReceiveGetReads ==
    ASSUME ReadInv, NEW t \in Tabs, ReceiveGet(t)
    PROVE  ReadInv' /\ Advances
<1> DEFINE a == awaiting[t]
<1>1. a.op = "get" /\ UNCHANGED withdrawn
  BY DEF ReceiveGet, Received, others
<1>2. /\ TabFine(server, Excused, tab[t]) /\ AnswerFine(server, Excused, tab[t], a)
  BY DEF ReadInv
<1>3. CASE a.code = 200 /\ ~ tab[t].loaded
  <2>1. Ask(t, "reload", tab[t]) /\ SetTab(t, tab[t])
    BY <1>3 DEF ReceiveGet
  <2>2. Fits("reload", tab[t].journey, tab[t])
    BY <1>1, <1>2, <1>3 DEF Fits, AnswerFine, Writes
  <2> QED  BY <1>1, <1>2, <2>1, <2>2, SetAndAskOwn
<1>4. CASE a.code = 200 /\ tab[t].loaded
  <2>1. Finish(t) /\ SetTab(t, Refreshed(tab[t], a.server))
    BY <1>4 DEF ReceiveGet
  <2>2. Sound(server, Excused, a.server.journey, a.server.revision)
    BY <1>1, <1>2, <1>4 DEF AnswerFine
  <2>3. TabFine(server, Excused, Refreshed(tab[t], a.server))
    <3>1. CASE a.server.revision = tab[t].revision
      BY <1>2, <3>1 DEF Refreshed
    <3>2. CASE a.server.revision # tab[t].revision
      BY <1>2, <2>2, <3>2 DEF Refreshed, Applied, TabFine, TabFields
    <3> QED  BY <3>1, <3>2
  <2> HIDE DEF a
  <2> QED  BY <1>1, <2>1, <2>3, EndTab
<1>5. CASE a.code # 200
  <2>1. Finish(t) /\ SetTab(t, Failed(tab[t], a.code))
    BY <1>5 DEF ReceiveGet
  <2>2. TabFine(server, Excused, Failed(tab[t], a.code))
    BY <1>2, FailedFine
  <2> HIDE DEF a
  <2> QED  BY <1>1, <2>1, <2>2, EndTab
<1> QED  BY <1>3, <1>4, <1>5

LEMMA ReceiveReloadReads ==
    ASSUME ReadInv, NEW t \in Tabs, ReceiveReload(t)
    PROVE  ReadInv' /\ Advances
<1> DEFINE a == awaiting[t]
           d == draft[BrowserOf[t]]
<1>1. a.op = "reload" /\ Finish(t) /\ UNCHANGED withdrawn
  BY DEF ReceiveReload, Received, others
<1>2. /\ TabFine(server, Excused, tab[t]) /\ AnswerFine(server, Excused, tab[t], a)
      /\ DraftFine(server, Excused, d)
  BY JourneyAssumption DEF ReadInv
<1>3. CASE a.code = 200
  <2>1. Commit(t, Loaded(tab[t], d, a.server))
    BY <1>3 DEF ReceiveReload
  <2>2. /\ Sound(server, Excused, a.server.journey, a.server.revision)
        /\ tab[t].user /\ ~ tab[t].loaded
    BY <1>1, <1>2, <1>3 DEF AnswerFine
  <2> HIDE DEF d, a
  <2>3. /\ TabFine(server, Excused, Loaded(tab[t], d, a.server).tab)
        /\ DraftFine(server, Excused, Loaded(tab[t], d, a.server).draft)
    BY <1>2, <2>2, LoadedFine
  <2> QED  BY <1>1, <2>1, <2>3, EndMoves
<1>4. CASE a.code # 200
  <2>1. SetTab(t, Failed(tab[t], a.code))
    BY <1>4 DEF ReceiveReload
  <2>2. TabFine(server, Excused, Failed(tab[t], a.code))
    BY <1>2, FailedFine
  <2> HIDE DEF a
  <2> QED  BY <1>1, <2>1, <2>2, EndTab
<1> QED  BY <1>3, <1>4

LEMMA ReceiveSessionReads ==
    ASSUME ReadInv, NEW t \in Tabs, ReceiveSession(t)
    PROVE  ReadInv' /\ Advances
<1> DEFINE a == awaiting[t]
           s == [tab[t] EXCEPT !.user = TRUE, !.csrf = a.session]
<1>1. a.op = "session" /\ UNCHANGED withdrawn
  BY DEF ReceiveSession, Received, others
<1>2. /\ TabFine(server, Excused, tab[t]) /\ AnswerFine(server, Excused, tab[t], a)
  BY DEF ReadInv
<1>3. CASE a.code = 200
  <2>1. SetTab(t, s) /\ Ask(t, "load", s)
    BY <1>3 DEF ReceiveSession
  <2>2. ~ tab[t].loaded
    BY <1>1, <1>2 DEF AnswerFine
  <2>3. TabFine(server, Excused, s) /\ s.user /\ ~ s.loaded
    BY <1>2, <2>2 DEF TabFine, TabFields
  <2>4. Fits("load", s.journey, s)
    BY <2>3 DEF Fits, Writes
  <2> HIDE DEF s
  <2> QED  BY <1>1, <2>1, <2>3, <2>4, SetAndAskOwn
<1>4. CASE a.code # 200
  <2>1. SetTab(t, tab[t]) /\ Finish(t)
    BY <1>4 DEF ReceiveSession
  <2> QED  BY <1>1, <1>2, <2>1, EndTab
<1> QED  BY <1>3, <1>4

LEMMA ReceiveLoginReads ==
    ASSUME ReadInv, NEW t \in Tabs, ReceiveLogin(t)
    PROVE  ReadInv' /\ Advances
<1> DEFINE a == awaiting[t]
           s == [tab[t] EXCEPT !.user = TRUE, !.csrf = a.session, !.expired = FALSE,
                               !.pending = FALSE, !.conflict = FALSE, !.undo = {}, !.loaded = FALSE]
           q == Request("load", s, a.session)
<1>1. a.op = "login" /\ UNCHANGED withdrawn
  BY DEF ReceiveLogin, Received
<1>2. /\ TabFine(server, Excused, tab[t]) /\ AnswerFine(server, Excused, tab[t], a)
  BY DEF ReadInv
<1>3. CASE a.code = 200
  <2>1. SetTab(t, s) /\ Send(t, q, a.previous)
    BY <1>3 DEF ReceiveLogin
  <2>2. TabFine(server, Excused, s) /\ s.user /\ ~ s.loaded
    BY <1>2 DEF TabFine, TabFields
  <2>3. q.op = "load" /\ Fits(q.op, q.journey, s)
    <3>1. q.op = "load"
      BY DEF Request
    <3> HIDE DEF s, q
    <3> QED  BY <2>2, <3>1 DEF Fits, Writes
  <2>4. \A p \in a.previous : Sound(server, Excused, p.journey, p.revision)
    BY <1>1, <1>2 DEF AnswerFine
  <2> HIDE DEF s, q
  <2> QED  BY <1>1, <2>1, <2>2, <2>3, <2>4, SetAndAsk
<1>4. CASE a.code # 200
  <2>1. SetTab(t, tab[t]) /\ Finish(t)
    BY <1>4 DEF ReceiveLogin
  <2> QED  BY <1>1, <1>2, <2>1, EndTab
<1> QED  BY <1>3, <1>4

LEMMA ReceiveLoadReads ==
    ASSUME ReadInv, NEW t \in Tabs, ReceiveLoad(t)
    PROVE  ReadInv' /\ Advances
<1> DEFINE a == awaiting[t]
           d == draft[BrowserOf[t]]
           r == Loaded(tab[t], d, a.server)
<1>1. a.op = "load" /\ Finish(t) /\ UNCHANGED withdrawn
  BY DEF ReceiveLoad, Received
<1>2. /\ TabFine(server, Excused, tab[t]) /\ AnswerFine(server, Excused, tab[t], a)
      /\ DraftFine(server, Excused, d)
  BY JourneyAssumption DEF ReadInv
<1>3. CASE a.code = 200
  <2>1. Commit(t, Renewed(r, a.previous, HasRoom(t)))
    BY <1>3 DEF ReceiveLoad
  <2>2. /\ Sound(server, Excused, a.server.journey, a.server.revision)
        /\ tab[t].user /\ ~ tab[t].loaded
        /\ \A p \in a.previous : Sound(server, Excused, p.journey, p.revision)
    BY <1>1, <1>2, <1>3 DEF AnswerFine
  <2> HIDE DEF d, a
  <2>3. /\ TabFine(server, Excused, r.tab) /\ DraftFine(server, Excused, r.draft)
        /\ r.tab.loaded /\ r.tab.undo = {}
    BY <1>2, <2>2, LoadedFine
  <2> HIDE DEF r
  <2>4. /\ TabFine(server, Excused, Renewed(r, a.previous, HasRoom(t)).tab)
        /\ DraftFine(server, Excused, Renewed(r, a.previous, HasRoom(t)).draft)
    BY <2>2, <2>3, RenewedFine
  <2> QED  BY <1>1, <2>1, <2>4, EndMoves
<1>4. CASE a.code # 200
  <2>1. SetTab(t, tab[t])
    BY <1>4 DEF ReceiveLoad
  <2> QED  BY <1>1, <1>2, <2>1, EndTab
<1> QED  BY <1>3, <1>4

\* The end of resolveConflict, with a state whose journey goes with its revision.
LEMMA ResolvedReads ==
    ASSUME ReadInv, UNCHANGED withdrawn, NEW t \in Tabs, NEW s, Resolved(t, s),
           DOMAIN s = TabFields,
           s.loaded => s.user /\ Sound(server, Excused, s.journey, s.revision)
    PROVE  ReadInv' /\ Advances
<1> DEFINE n == [s EXCEPT !.draftRaw = NoDraft, !.conflict = FALSE, !.pending = FALSE,
                          !.undo = {}]
           r == With(n, NoDraft)
<1>1. /\ Commit(t, r) /\ UNCHANGED <<server, late>> /\ givenUp \subseteq givenUp'
      /\ awaiting' = [awaiting EXCEPT ![t] = Nothing]
  BY DEF Resolved, account
<1>2. Excused \subseteq Excused'
  BY <1>1 DEF Excused
<1>3. TabFine(server, Excused, n)
  BY DEF TabFine, TabFields
<1>4. r.tab = n /\ DraftFine(server, Excused, r.draft)
  BY DEF With, DraftFine
<1> HIDE DEF n, r
<1> QED  BY <1>1, <1>2, <1>3, <1>4, FinishMoves

LEMMA ReceiveTheirsReads ==
    ASSUME ReadInv, NEW t \in Tabs, ReceiveTheirs(t)
    PROVE  ReadInv' /\ Advances
<1> DEFINE a == awaiting[t]
           s == Applied(tab[t], a.server)
<1>1. a.op = "theirs" /\ UNCHANGED withdrawn
  BY DEF ReceiveTheirs, Received, others
<1>2. /\ TabFine(server, Excused, tab[t]) /\ AnswerFine(server, Excused, tab[t], a)
  BY DEF ReadInv
<1>3. CASE a.code = 200
  <2>1. Resolved(t, s)
    BY <1>3 DEF ReceiveTheirs
  <2>2. Sound(server, Excused, a.server.journey, a.server.revision)
    BY <1>1, <1>2, <1>3 DEF AnswerFine
  <2>3. DOMAIN s = TabFields /\ (s.loaded => s.user)
    BY <1>2 DEF TabFine, TabFields, Applied
  <2>4. s.journey = a.server.journey /\ s.revision = a.server.revision
    BY <1>2 DEF TabFine, TabFields, Applied
  <2> HIDE DEF s, a
  <2> QED  BY <1>1, <2>1, <2>2, <2>3, <2>4, ResolvedReads
<1>4. CASE a.code # 200
  <2>1. SetTab(t, tab[t]) /\ Finish(t)
    BY <1>4 DEF ReceiveTheirs
  <2> QED  BY <1>1, <1>2, <2>1, EndTab
<1> QED  BY <1>3, <1>4

LEMMA ReceiveMineReads ==
    ASSUME ReadInv, NEW t \in Tabs, ReceiveMine(t)
    PROVE  ReadInv' /\ Advances
<1> DEFINE a == awaiting[t]
           s == [tab[t] EXCEPT !.revision = a.server.revision]
<1>1. a.op = "mine" /\ UNCHANGED withdrawn /\ SetTab(t, tab[t])
  BY DEF ReceiveMine, Received, others
<1>2. TabFine(server, Excused, tab[t])
  BY DEF ReadInv
<1>3. CASE a.code = 200
  <2>1. Ask(t, "choose", s)
    BY <1>3 DEF ReceiveMine
  <2>2. s.journey = tab[t].journey
    BY <1>2 DEF TabFine, TabFields
  <2> HIDE DEF s
  <2>3. Fits("choose", s.journey, tab[t])
    BY <2>2 DEF Fits
  <2> QED  BY <1>1, <1>2, <2>1, <2>3, SetAndAskOwn
<1>4. CASE a.code # 200
  <2>1. Finish(t)
    BY <1>4 DEF ReceiveMine
  <2> QED  BY <1>1, <1>2, <2>1, EndTab
<1> QED  BY <1>3, <1>4

LEMMA ReceiveChooseReads ==
    ASSUME ReadInv, NEW t \in Tabs, ReceiveChoose(t)
    PROVE  ReadInv' /\ Advances
<1> DEFINE a == awaiting[t]
           s == [tab[t] EXCEPT !.revision = a.server.revision]
<1>1. a.op = "choose" /\ UNCHANGED withdrawn
  BY DEF ReceiveChoose, Received, others
<1>2. /\ TabFine(server, Excused, tab[t]) /\ AnswerFine(server, Excused, tab[t], a)
  BY DEF ReadInv
<1>3. CASE a.code = 200
  <2>1. Resolved(t, s)
    BY <1>3 DEF ReceiveChoose
  <2>2. Sound(server, Excused, tab[t].journey, a.server.revision)
    BY <1>1, <1>2, <1>3 DEF AnswerFine, Writes
  <2>3. /\ DOMAIN s = TabFields /\ (s.loaded => s.user)
        /\ s.journey = tab[t].journey /\ s.revision = a.server.revision
    BY <1>2 DEF TabFine, TabFields
  <2> HIDE DEF s, a
  <2> QED  BY <1>1, <2>1, <2>2, <2>3, ResolvedReads
<1>4. CASE a.code # 200
  <2>1. SetTab(t, tab[t]) /\ Finish(t)
    BY <1>4 DEF ReceiveChoose
  <2> QED  BY <1>1, <1>2, <2>1, EndTab
<1> QED  BY <1>3, <1>4

LEMMA ReceiveLogoutReads ==
    ASSUME ReadInv, NEW t \in Tabs, ReceiveLogout(t)
    PROVE  ReadInv' /\ Advances
<1> DEFINE a == awaiting[t]
           d == draft[BrowserOf[t]]
           c == Cleared(tab[t], d)
           s == [c.tab EXCEPT !.user = FALSE, !.loaded = FALSE, !.journey = {},
                              !.undo = {}, !.csrf = NoSession]
           r == With(s, c.draft)
<1>1. a.op = "logout" /\ UNCHANGED withdrawn /\ Finish(t)
  BY DEF ReceiveLogout, Received
<1>2. /\ TabFine(server, Excused, tab[t]) /\ AnswerFine(server, Excused, tab[t], a)
      /\ DraftFine(server, Excused, d)
  BY JourneyAssumption DEF ReadInv
<1>3. CASE a.code = 200
  <2>1. Commit(t, r) /\ r.tab = s /\ r.draft = c.draft
    BY <1>3 DEF ReceiveLogout, With
  <2>2. ~ tab[t].pending
    BY <1>1, <1>2 DEF AnswerFine
  <2> HIDE DEF d, a, r
  <2>3. /\ TabFine(server, Excused, c.tab) /\ DraftFine(server, Excused, c.draft)
        /\ c.tab.pending <=> tab[t].pending
    BY <1>2, ClearedFine
  <2> HIDE DEF c
  <2>4. /\ DOMAIN s = TabFields /\ ~ s.loaded /\ s.undo = {}
        /\ (s.pending <=> c.tab.pending)
    BY <2>3 DEF TabFine, TabFields
  <2> HIDE DEF s
  <2>5. TabFine(server, Excused, s)
    BY <2>2, <2>3, <2>4 DEF TabFine
  <2> QED  BY <1>1, <2>1, <2>3, <2>5, EndMoves
<1>4. CASE a.code # 200
  <2>1. SetTab(t, tab[t])
    BY <1>4 DEF ReceiveLogout
  <2> QED  BY <1>1, <1>2, <2>1, EndTab
<1> QED  BY <1>3, <1>4

\* storageChanged: another tab's draft is a conflict, or a reason to read.
LEMMA StorageChangedReads ==
    ASSUME ReadInv, NEW t \in Tabs, StorageChanged(t)
    PROVE  ReadInv' /\ Advances
<1> DEFINE foreign == tab[t].user /\ Head(events[t]) # tab[t].draftRaw
           c == tab[t].conflict \/ (foreign /\ tab[t].pending)
           s == [tab[t] EXCEPT !.conflict = c]
<1>1. /\ tab' = [tab EXCEPT ![t] = s] /\ UNCHANGED <<draft, withdrawn>>
      /\ \/ tab[t].user /\ Ask(t, "get", tab[t])
         \/ UNCHANGED <<awaiting, server, late, givenUp>>
  <2>1. tab' = [tab EXCEPT ![t].conflict = c] /\ UNCHANGED <<draft, withdrawn>>
    BY DEF StorageChanged, others
  <2>2. \/ tab[t].user /\ Ask(t, "get", tab[t])
        \/ UNCHANGED <<awaiting, server, late, givenUp>>
    BY DEF StorageChanged, requests, MaySync
  <2> QED  BY <2>1, <2>2
<1> HIDE DEF c
<1>2. /\ TabFine(server, Excused, tab[t]) /\ AnswerFine(server, Excused, tab[t], awaiting[t])
      /\ DOMAIN tab = Tabs /\ DOMAIN draft = Browsers /\ DOMAIN awaiting = Tabs
      /\ server.revision \in Nat
  BY DEF ReadInv, Shapes
<1>3. /\ DOMAIN s = DOMAIN tab[t] /\ (s.pending <=> tab[t].pending)
      /\ (s.loaded <=> tab[t].loaded) /\ (s.user <=> tab[t].user)
      /\ s.journey = tab[t].journey /\ s.revision = tab[t].revision /\ s.undo = tab[t].undo
  BY <1>2 DEF TabFine, TabFields
<1> HIDE DEF s
<1>4. TabFine(server, Excused, s)
  BY <1>2, <1>3, TabLike
<1>5. DOMAIN tab' = Tabs /\ tab'[t] = s /\ \A u \in Tabs \ {t} : tab'[u] = tab[u]
  BY <1>1, <1>2
<1>6. CASE tab[t].user /\ Ask(t, "get", tab[t])
  <2>1. Fits("get", tab[t].journey, s)
    BY <1>3, <1>6 DEF Fits, Writes
  <2>2. Excused = withdrawn' \cup givenUp
    BY <1>1 DEF Excused
  <2> QED  BY <1>1, <1>2, <1>4, <1>5, <1>6, <2>1, <2>2, AskMoves
<1>7. CASE UNCHANGED <<awaiting, server, late, givenUp>>
  <2>1. Advances
    BY <1>1, <1>2, <1>7 DEF Advances, Excused
  <2>2. TabFine(server', Excused', tab'[t])
    BY <1>1, <1>4, <1>5, <1>7 DEF Excused
  <2>3. AnswerFine(server', Excused', tab'[t], awaiting'[t])
    BY <1>1, <1>2, <1>3, <1>5, <1>7 DEF AnswerFine, Excused
  <2>4. ReadInv'
    BY <1>1, <1>2, <1>5, <1>7, <2>1, <2>2, <2>3, Moves
  <2> QED  BY <2>1, <2>4
<1> QED  BY <1>1, <1>6, <1>7

-----------------------------------------------------------------------------
LEMMA ReadInit == Init => ReadInv
<1> SUFFICES ASSUME Init PROVE ReadInv
  OBVIOUS
<1>1. Shapes
  BY DEF Init, Shapes
<1>2. \A t \in Tabs : TabFine(server, Excused, tab[t])
  <2>1. TabFine(server, Excused, Closed)
    BY DEF TabFine, TabFields, Closed, Fresh
  <2>2. TabFine(server, Excused, Started)
    BY DEF Init, Sound, TabFine, TabFields, Started, Fresh
  <2> QED  BY <2>1, <2>2 DEF Init
<1>3. \A b \in Browsers : DraftFine(server, Excused, draft[b])
  BY DEF Init, DraftFine
<1>4. \A t \in Tabs : AnswerFine(server, Excused, tab[t], awaiting[t])
  BY DEF Init, AnswerFine, Nothing
<1>5. \A q \in late : LateFine(server, Excused, q)
  BY DEF Init
<1> QED  BY <1>1, <1>2, <1>3, <1>4, <1>5 DEF ReadInv

LEMMA ReadStep == ReadInv /\ Next => ReadInv' /\ Advances
<1> SUFFICES ASSUME ReadInv, Next PROVE ReadInv' /\ Advances
  OBVIOUS
<1>1. ASSUME NEW t \in Tabs, NEW e \in EditsOf[t], Change(t, e)
      PROVE  ReadInv' /\ Advances
  BY <1>1, ChangeReads
<1>2. ASSUME NEW t \in Tabs, Undo(t)
      PROVE  ReadInv' /\ Advances
  BY <1>2, UndoReads
<1>3. ASSUME NEW t \in Tabs,
             \/ Sync(t) \/ Logout(t) \/ Retry(t)
             \/ \E op \in {"theirs", "mine"} : Resolve(t, op)
      PROVE  ReadInv' /\ Advances
  BY <1>3, StartReads
<1>4. ASSUME NEW t \in Tabs, Login(t) \/ Boot(t) \/ Close(t) \/ StorageChanged(t)
      PROVE  ReadInv' /\ Advances
  BY <1>4, LoginReads, BootReads, CloseReads, StorageChangedReads
<1>5. ASSUME NEW t \in Tabs, Receive(t)
      PROVE  ReadInv' /\ Advances
  <2>1. CASE ReceivePut(t) \/ ReceiveGet(t) \/ ReceiveReload(t)
    BY <2>1, ReceivePutReads, ReceiveGetReads, ReceiveReloadReads
  <2>2. CASE ReceiveSession(t) \/ ReceiveLogin(t) \/ ReceiveLoad(t)
    BY <2>2, ReceiveSessionReads, ReceiveLoginReads, ReceiveLoadReads
  <2>3. CASE ReceiveTheirs(t) \/ ReceiveMine(t)
    BY <2>3, ReceiveTheirsReads, ReceiveMineReads
  <2>4. CASE ReceiveChoose(t) \/ ReceiveLogout(t)
    BY <2>4, ReceiveChooseReads, ReceiveLogoutReads
  <2> QED  BY <1>5, <2>1, <2>2, <2>3, <2>4 DEF Receive
<1>6. ASSUME NEW q \in late, ServeLate(q)
      PROVE  ReadInv' /\ Advances
  <2>1. /\ Perform(q) /\ late' \subseteq late
        /\ UNCHANGED <<tab, draft, awaiting, withdrawn>>
    BY <1>6 DEF ServeLate, client
  <2>2. server.revision \in Nat
        /\ (q.op = "put" => Sound(server, withdrawn' \cup givenUp, q.journey, q.revision))
    BY <2>1 DEF ReadInv, Shapes, LateFine, Excused
  <2>3. Advances
    BY <2>1, <2>2, Performs
  <2> QED  BY <2>1, <2>3, Stays
<1>7. ASSUME NEW session \in sessions, EndSession(session)
      PROVE  ReadInv' /\ Advances
  <2>1. UNCHANGED <<server, late, tab, draft, awaiting, withdrawn, givenUp>>
    BY <1>7 DEF EndSession, client, history
  <2>2. Advances
    BY <2>1 DEF Advances, Excused, ReadInv, Shapes
  <2> QED  BY <2>1, <2>2, Stays
<1> QED  BY <1>1, <1>2, <1>3, <1>4, <1>5, <1>6, <1>7 DEF Next

\* A step that changes nothing.
LEMMA ReadStays == ReadInv /\ UNCHANGED vars => ReadInv'
<1> SUFFICES ASSUME ReadInv, UNCHANGED vars PROVE ReadInv'
  OBVIOUS
<1>1. UNCHANGED <<server, late, tab, draft, awaiting, withdrawn, givenUp>>
  BY DEF vars, account, client, history
<1>2. Advances
  BY <1>1 DEF Advances, Excused, ReadInv, Shapes
<1> QED  BY <1>1, <1>2, Stays

\* Journey's SavedEditsStay, for every number of tabs and browsers: whatever the
\* answers that are lost, the writes that arrive late and the sessions that
\* end, useJourney and update_journey never replace an edit a tab has not read,
\* unless somebody chose so in a conflict.
THEOREM NothingOverwrittenUnread == Spec => SavedEditsStay
<1>1. ReadInv /\ [Next]_vars => ReadInv'
  BY ReadStep, ReadStays
<1>2. ReadInv /\ [Next]_vars =>
        [server.journey \ server'.journey \subseteq withdrawn' \cup givenUp']_vars
  BY ReadStep DEF Advances, Excused
<1> QED  BY ReadInit, <1>1, <1>2, PTL DEF Spec, SavedEditsStay

-----------------------------------------------------------------------------
(***************************************************************************)
(* No edit is lost: one the server does not have is held by a page, as     *)
(* pending or in the memory of a renewal, and never by a draft alone.      *)
(***************************************************************************)

Orderly(s, a) ==
    /\ s.user => s.open
    /\ ~ s.open => a.op = "none"
    /\ a.op = "get" => ~ s.pending
    /\ a.op = "login" /\ s.pending => a.previous # {}
    /\ a.op \in {"login", "load"} => \A p \in a.previous : p.journey = s.journey

\* What was read is on the server, or has been undone or given up since.
Known(sv, x, a) ==
    a.op # "none" => (a.code = 200 => a.server.journey \subseteq sv.journey \cup x)

Holds(s, a, e) ==
    e \in s.journey /\ (s.pending \/ (a.op = "load" /\ a.previous # {}))

Held(e) == e \in server.journey \/ \E t \in Tabs : Holds(tab[t], awaiting[t], e)

HeldInv ==
    /\ \A t \in Tabs : Orderly(tab[t], awaiting[t]) /\ Known(server, Excused, awaiting[t])
    /\ \A e \in made \ (Excused \cup atRisk) : Held(e)

\* The edits that tab t answers for: what it held, and what is new.
Charge(t, e) == e \in made => Holds(tab[t], awaiting[t], e)

\* One tab moves, and what it answered for is on the server or held by it still.
LEMMA HeldMoves ==
    ASSUME HeldInv, Advances, NEW t \in Tabs,
           \A u \in Tabs \ {t} : tab'[u] = tab[u], \A u \in Tabs \ {t} : awaiting'[u] = awaiting[u],
           NEW s, s = tab'[t], NEW a, a = awaiting'[t],
           Orderly(s, a), Known(server', Excused', a), atRisk \subseteq atRisk',
           \A e \in made' \ (Excused' \cup atRisk') :
               Charge(t, e) => e \in server'.journey \/ Holds(s, a, e)
    PROVE  HeldInv'
<1>1. /\ Excused \subseteq Excused'
      /\ server.journey \subseteq server'.journey \cup Excused'
  BY DEF Advances
<1>2. \A u \in Tabs : Orderly(tab'[u], awaiting'[u]) /\ Known(server', Excused', awaiting'[u])
  BY <1>1 DEF HeldInv, Known
<1>3. ASSUME NEW e \in made' \ (Excused' \cup atRisk')
      PROVE  e \in server'.journey \/ \E u \in Tabs : Holds(tab'[u], awaiting'[u], e)
  <2>1. CASE Charge(t, e)
    BY <2>1
  <2>2. CASE ~ Charge(t, e)
    <3>1. e \in made \ (Excused \cup atRisk) /\ ~ Holds(tab[t], awaiting[t], e)
      BY <1>1, <2>2 DEF Charge
    <3>2. e \in server.journey \/ \E u \in Tabs \ {t} : Holds(tab[u], awaiting[u], e)
      BY <3>1 DEF HeldInv, Held
    <3> QED  BY <1>1, <3>2
  <2> QED  BY <2>1, <2>2
<1> QED  BY <1>2, <1>3 DEF HeldInv, Held

\* Nothing of the pages moves.
LEMMA HeldStays ==
    ASSUME HeldInv, Advances, UNCHANGED <<tab, awaiting, made, atRisk>>
    PROVE  HeldInv'
BY DEF HeldInv, Held, Known, Advances

\* What a request leaves the tab to wait for.
LEMMA SendAwaits ==
    ASSUME NEW t \in Tabs, DOMAIN awaiting = Tabs, NEW q, NEW previous, Send(t, q, previous)
    PROVE  /\ \A u \in Tabs \ {t} : awaiting'[u] = awaiting[u]
           /\ awaiting'[t].op = q.op /\ awaiting'[t].previous = previous
           /\ awaiting'[t].code = 200 => awaiting'[t].server = server'
<1>1. PICK a \in {Answered(q, previous), Unanswered(q, previous)} :
        awaiting' = [awaiting EXCEPT ![t] = a]
  BY DEF Send, Await
<1>2. /\ a.op = q.op /\ a.previous = previous
      /\ a.code = 200 => a.server = server'
  BY DEF Answered, Unanswered
<1> QED  BY <1>1, <1>2

LEMMA AskHeld ==
    ASSUME ReadInv, HeldInv, Advances, NEW t \in Tabs,
           \A u \in Tabs \ {t} : tab'[u] = tab[u], NEW s, s = tab'[t],
           NEW q, NEW previous, Send(t, q, previous),
           s.open, q.op = "get" => ~ s.pending,
           q.op = "login" /\ s.pending => previous # {},
           q.op \in {"login", "load"} => \A p \in previous : p.journey = s.journey,
           atRisk \subseteq atRisk',
           \A e \in made' \ (Excused' \cup atRisk') : Charge(t, e) =>
               e \in s.journey /\ (s.pending \/ (q.op = "load" /\ previous # {}))
    PROVE  HeldInv'
<1> DEFINE a == awaiting'[t]
<1>1. /\ \A u \in Tabs \ {t} : awaiting'[u] = awaiting[u]
      /\ a.op = q.op /\ a.previous = previous
      /\ a.code = 200 => a.server = server'
  BY SendAwaits DEF ReadInv, Shapes
<1>2. a = awaiting'[t]
  OBVIOUS
<1> HIDE DEF a
<1>3. Orderly(s, a) /\ Known(server', Excused', a)
  BY <1>1 DEF Orderly, Known
<1>4. \A e \in made' \ (Excused' \cup atRisk') : Charge(t, e) => Holds(s, a, e)
  BY <1>1 DEF Holds
<1> QED  BY <1>1, <1>2, <1>3, <1>4, HeldMoves

LEMMA EndHeld ==
    ASSUME ReadInv, HeldInv, Advances, NEW t \in Tabs, NEW r, Commit(t, r),
           awaiting' = [awaiting EXCEPT ![t] = Nothing],
           r.tab.user => r.tab.open, atRisk \subseteq atRisk',
           \A e \in made' \ (Excused' \cup atRisk') : Charge(t, e) =>
               e \in server'.journey \/ (e \in r.tab.journey /\ r.tab.pending)
    PROVE  HeldInv'
<1>1. tab'[t] = r.tab /\ \A u \in Tabs \ {t} : tab'[u] = tab[u]
  BY Commits
<1>2. /\ awaiting'[t] = Nothing /\ DOMAIN awaiting = Tabs
      /\ \A u \in Tabs \ {t} : awaiting'[u] = awaiting[u]
  BY DEF ReadInv, Shapes
<1>3. Orderly(r.tab, Nothing) /\ Known(server', Excused', Nothing)
  BY DEF Orderly, Known, Nothing
<1>4. \A e \in made' \ (Excused' \cup atRisk') : Charge(t, e) =>
        e \in server'.journey \/ Holds(r.tab, Nothing, e)
  BY DEF Holds
<1> QED  BY <1>1, <1>2, <1>3, <1>4, HeldMoves

\* A handler that ends with the journey as it was, and as pending as it was.
LEMMA EndTabHeld ==
    ASSUME ReadInv, HeldInv, Advances, NEW t \in Tabs, NEW s, SetTab(t, s), Finish(t),
           UNCHANGED made, atRisk \subseteq atRisk', s.user => s.open,
           awaiting[t].op = "load" => UNION {p.journey : p \in awaiting[t].previous} \subseteq atRisk',
           s.journey = tab[t].journey, s.pending <=> tab[t].pending
    PROVE  HeldInv'
<1> DEFINE r == With(s, draft[BrowserOf[t]])
<1>1. Commit(t, r) /\ r.tab = s
  BY DEF SetTab, With
<1>2. awaiting' = [awaiting EXCEPT ![t] = Nothing]
  BY DEF Finish
<1>3. ASSUME NEW e \in made' \ (Excused' \cup atRisk'), Charge(t, e)
      PROVE  e \in s.journey /\ s.pending
  <2>1. Holds(tab[t], awaiting[t], e)
    BY <1>3 DEF Charge
  <2>2. CASE tab[t].pending
    BY <2>1, <2>2 DEF Holds
  <2>3. CASE awaiting[t].op = "load" /\ awaiting[t].previous # {}
    <3>1. PICK p \in awaiting[t].previous : p.journey = tab[t].journey
      BY <2>3 DEF HeldInv, Orderly
    <3>2. e \in UNION {o.journey : o \in awaiting[t].previous}
      BY <2>1, <3>1 DEF Holds
    <3> QED  BY <1>3, <2>3, <3>2
  <2> QED  BY <2>1, <2>2, <2>3 DEF Holds
<1> HIDE DEF r
<1>4. \A e \in made' \ (Excused' \cup atRisk') : Charge(t, e) => e \in r.tab.journey /\ r.tab.pending
  BY <1>1, <1>3
<1> QED  BY <1>1, <1>2, <1>4, EndHeld

\* The fields that saving and clearing a draft leave alone.
LEMMA SavedSame ==
    ASSUME NEW s, DOMAIN s = TabFields, NEW d, NEW room
    PROVE  /\ Saved(s, d, room).tab.journey = s.journey
           /\ Saved(s, d, room).tab.pending <=> s.pending
           /\ Saved(s, d, room).tab.user <=> s.user
           /\ Saved(s, d, room).tab.open <=> s.open
<1> DEFINE raw == [journey |-> s.journey, revision |-> s.revision, stamp |-> NewName(Stamps)]
<1> HIDE DEF raw
<1>1. CASE d # s.draftRaw
  <2>1. Saved(s, d, room) = [tab |-> [s EXCEPT !.conflict = TRUE], draft |-> d]
    BY <1>1 DEF Saved, With
  <2> QED  BY <2>1 DEF TabFields
<1>2. CASE d = s.draftRaw /\ ~ room
  <2>1. Saved(s, d, room) = [tab |-> s, draft |-> d]
    BY <1>2 DEF Saved, With
  <2> QED  BY <2>1
<1>3. CASE d = s.draftRaw /\ room
  <2>1. Saved(s, d, room) = [tab |-> [s EXCEPT !.draftRaw = raw], draft |-> raw]
    BY <1>3 DEF Saved, With, raw
  <2> QED  BY <2>1 DEF TabFields
<1> QED  BY <1>1, <1>2, <1>3

LEMMA ClearedSame ==
    ASSUME NEW s, DOMAIN s = TabFields, NEW d
    PROVE  /\ DOMAIN Cleared(s, d).tab = TabFields
           /\ Cleared(s, d).tab.journey = s.journey
           /\ Cleared(s, d).tab.pending <=> s.pending
           /\ Cleared(s, d).tab.user <=> s.user
           /\ Cleared(s, d).tab.open <=> s.open
<1>1. CASE d = s.draftRaw
  <2>1. Cleared(s, d) = [tab |-> [s EXCEPT !.draftRaw = NoDraft], draft |-> NoDraft]
    BY <1>1 DEF Cleared, With
  <2> QED  BY <2>1 DEF TabFields
<1>2. CASE d # s.draftRaw
  <2>1. PICK c : Cleared(s, d) = [tab |-> [s EXCEPT !.draftRaw = NoDraft, !.conflict = c], draft |-> d]
    BY <1>2 DEF Cleared, With
  <2> DEFINE n == [s EXCEPT !.draftRaw = NoDraft, !.conflict = c]
  <2>2. /\ DOMAIN n = TabFields /\ n.journey = s.journey
        /\ n.pending <=> s.pending
        /\ n.user <=> s.user
        /\ n.open <=> s.open
    BY DEF TabFields
  <2>3. Cleared(s, d).tab = n
    BY <2>1
  <2> HIDE DEF n
  <2> QED  BY <2>2, <2>3
<1> QED  BY <1>1, <1>2

\* What a load leaves in the page is on the server or pending.
LEMMA LoadedHolds ==
    ASSUME NEW s, DOMAIN s = TabFields, NEW d, NEW snapshot
    PROVE  /\ DOMAIN Loaded(s, d, snapshot).tab = TabFields
           /\ Loaded(s, d, snapshot).tab.user <=> s.user
           /\ Loaded(s, d, snapshot).tab.open <=> s.open
           /\ Loaded(s, d, snapshot).tab.pending
              \/ Loaded(s, d, snapshot).tab.journey = snapshot.journey
<1> DEFINE read == [Applied(s, snapshot) EXCEPT !.loaded = TRUE, !.draftRaw = d]
<1>1. /\ DOMAIN read = TabFields /\ read.journey = snapshot.journey
      /\ read.user <=> s.user
      /\ read.open <=> s.open
  BY DEF TabFields, Applied
<1>2. CASE d = NoDraft
  <2>1. Loaded(s, d, snapshot) = [tab |-> read, draft |-> d]
    BY <1>2 DEF Loaded, With
  <2> HIDE DEF read
  <2> QED  BY <1>1, <2>1
<1>3. CASE d # NoDraft /\ d.journey = snapshot.journey
  <2>1. Loaded(s, d, snapshot) = Cleared(read, d)
    BY <1>3 DEF Loaded
  <2> HIDE DEF read
  <2>2. DOMAIN read = TabFields
    BY <1>1
  <2>3. /\ DOMAIN Cleared(read, d).tab = TabFields
        /\ Cleared(read, d).tab.journey = read.journey
        /\ Cleared(read, d).tab.user <=> read.user
        /\ Cleared(read, d).tab.open <=> read.open
    BY <2>2, ClearedSame
  <2> QED  BY <1>1, <2>1, <2>3
<1>4. CASE d # NoDraft /\ d.journey # snapshot.journey
  <2> DEFINE c == d.revision # snapshot.revision
             n == [read EXCEPT !.journey = d.journey, !.revision = d.revision,
                               !.pending = TRUE, !.conflict = c]
  <2>1. Loaded(s, d, snapshot).tab = n
    BY <1>4 DEF Loaded, With
  <2> HIDE DEF read, c
  <2>2. /\ DOMAIN n = TabFields /\ n.pending
        /\ n.user <=> read.user
        /\ n.open <=> read.open
    BY <1>1 DEF TabFields
  <2> HIDE DEF n
  <2> QED  BY <1>1, <2>1, <2>2
<1> QED  BY <1>2, <1>3, <1>4

\* The journey j that the renewal kept is in the page again.
LEMMA RenewedHolds ==
    ASSUME NEW r, DOMAIN r.tab = TabFields, r.tab.user => r.tab.open,
           NEW previous, \A p, o \in previous : p.journey = o.journey, NEW room
    PROVE  /\ Renewed(r, previous, room).tab.user => Renewed(r, previous, room).tab.open
           /\ \A p \in previous : Renewed(r, previous, room).tab.journey = p.journey
           /\ previous # {} => Renewed(r, previous, room).tab.pending \/ Renewed(r, previous, room) = r
<1>1. CASE \A p \in previous : p.journey = r.tab.journey
  BY <1>1 DEF Renewed
<1>2. CASE ~ \A p \in previous : p.journey = r.tab.journey
  <2> DEFINE p == CHOOSE p \in previous : TRUE
             c == r.tab.conflict \/ p.revision # r.tab.revision
             n == [r.tab EXCEPT !.journey = p.journey, !.revision = p.revision, !.pending = TRUE,
                                !.conflict = c]
  <2>1. Renewed(r, previous, room) = Saved(n, r.draft, room)
    BY <1>2 DEF Renewed
  <2>2. \A o \in previous : p.journey = o.journey
    BY <1>2
  <2> HIDE DEF p, c
  <2>3. /\ DOMAIN n = TabFields /\ n.journey = p.journey /\ n.pending
        /\ n.user <=> r.tab.user
        /\ n.open <=> r.tab.open
    BY DEF TabFields
  <2> HIDE DEF n
  <2>4. /\ Saved(n, r.draft, room).tab.journey = n.journey
        /\ Saved(n, r.draft, room).tab.pending <=> n.pending
        /\ Saved(n, r.draft, room).tab.user <=> n.user
        /\ Saved(n, r.draft, room).tab.open <=> n.open
    BY <2>3, SavedSame
  <2> QED  BY <2>1, <2>2, <2>3, <2>4
<1> QED  BY <1>1, <1>2

LEMMA SaveAndSendHeld ==
    ASSUME ReadInv, HeldInv, Advances, NEW t \in Tabs, NEW s, SaveAndSend(t, s),
           DOMAIN s = TabFields, s.pending, s.open, UNCHANGED atRisk,
           \A e \in made' \ (Excused' \cup atRisk') : Charge(t, e) => e \in s.journey
    PROVE  HeldInv'
<1> DEFINE r == Saved(s, draft[BrowserOf[t]], HasRoom(t))
<1>1. Commit(t, r) /\ (IF r.tab.conflict THEN Finish(t) ELSE Ask(t, "put", r.tab))
  BY DEF SaveAndSend
<1>2. r.tab.journey = s.journey /\ r.tab.pending /\ r.tab.open
  BY SavedSame
<1> HIDE DEF r
<1>3. CASE r.tab.conflict
  <2>1. awaiting' = [awaiting EXCEPT ![t] = Nothing]
    BY <1>1, <1>3 DEF Finish
  <2> QED  BY <1>1, <1>2, <2>1, EndHeld
<1>4. CASE ~ r.tab.conflict
  <2> DEFINE q == Request("put", r.tab, cookie[BrowserOf[t]])
  <2>1. tab'[t] = r.tab /\ \A u \in Tabs \ {t} : tab'[u] = tab[u]
    BY <1>1, Commits
  <2>2. Send(t, q, {}) /\ q.op = "put"
    BY <1>1, <1>4 DEF Ask, Request
  <2> HIDE DEF q
  <2> QED  BY <1>2, <2>1, <2>2, AskHeld
<1> QED  BY <1>3, <1>4

LEMMA ChangeHeld ==
    ASSUME ReadInv, HeldInv, NEW t \in Tabs, NEW e, Change(t, e)
    PROVE  HeldInv'
<1> DEFINE s == [tab[t] EXCEPT !.journey = @ \cup {e}, !.pending = TRUE,
                              !.undo = {[journey |-> tab[t].journey, edit |-> e]}]
<1>1. /\ SaveAndSend(t, s) /\ made' = made \cup {e} /\ UNCHANGED atRisk
      /\ tab[t].user /\ Advances
  BY ChangeReads DEF Change, canEdit
<1>2. TabFine(server, Excused, tab[t]) /\ Orderly(tab[t], awaiting[t])
  BY DEF ReadInv, HeldInv
<1>3. /\ DOMAIN s = TabFields /\ s.pending /\ s.open
      /\ s.journey = tab[t].journey \cup {e}
  BY <1>1, <1>2 DEF TabFine, TabFields, Orderly
<1>4. \A o \in made' \ (Excused' \cup atRisk') : Charge(t, o) => o \in s.journey
  BY <1>1, <1>3 DEF Charge, Holds
<1> HIDE DEF s
<1> QED  BY <1>1, <1>3, <1>4, SaveAndSendHeld

LEMMA UndoHeld ==
    ASSUME ReadInv, HeldInv, NEW t \in Tabs, Undo(t)
    PROVE  HeldInv'
<1>1. PICK u \in tab[t].undo :
        /\ SaveAndSend(t, [tab[t] EXCEPT !.journey = u.journey, !.pending = TRUE, !.undo = {}])
        /\ withdrawn' = withdrawn \cup {u.edit}
  BY DEF Undo
<1> DEFINE s == [tab[t] EXCEPT !.journey = u.journey, !.pending = TRUE, !.undo = {}]
<1>2. SaveAndSend(t, s) /\ UNCHANGED <<made, atRisk>> /\ tab[t].user /\ Advances
  BY <1>1, UndoReads DEF Undo, canEdit
<1>3. TabFine(server, Excused, tab[t]) /\ Orderly(tab[t], awaiting[t])
  BY DEF ReadInv, HeldInv
<1>4. DOMAIN s = TabFields /\ s.pending /\ s.open /\ s.journey = u.journey
  BY <1>2, <1>3 DEF TabFine, TabFields, Orderly
<1>5. tab[t].journey = u.journey \cup {u.edit} /\ u.edit \in Excused'
  BY <1>1, <1>3 DEF TabFine, Excused
<1>6. \A o \in made' \ (Excused' \cup atRisk') : Charge(t, o) => o \in s.journey
  BY <1>2, <1>4, <1>5 DEF Charge, Holds
<1> HIDE DEF s
<1> QED  BY <1>2, <1>4, <1>6, SaveAndSendHeld

\* A handler that only sends a request: what the tab holds is pending.
LEMMA StartHeld ==
    ASSUME ReadInv, HeldInv, Advances, NEW t \in Tabs,
           NEW q, NEW previous, Send(t, q, previous), UNCHANGED <<tab, made, atRisk>>,
           Idle(t), tab[t].open, q.op = "get" => ~ tab[t].pending,
           q.op = "login" /\ tab[t].pending => previous # {}, q.op # "load",
           \A p \in previous : p.journey = tab[t].journey
    PROVE  HeldInv'
<1>1. \A e \in made' \ (Excused' \cup atRisk') : Charge(t, e) =>
        e \in tab[t].journey /\ (tab[t].pending \/ (q.op = "load" /\ previous # {}))
  BY DEF Charge, Holds, Idle
<1>2. tab'[t] = tab[t] /\ \A u \in Tabs \ {t} : tab'[u] = tab[u]
  OBVIOUS
<1> QED  BY <1>1, <1>2, AskHeld

LEMMA StartsHeld ==
    ASSUME ReadInv, HeldInv, NEW t \in Tabs,
           \/ Sync(t) \/ Logout(t) \/ Retry(t)
           \/ \E op \in {"theirs", "mine"} : Resolve(t, op)
    PROVE  HeldInv'
<1>1. Orderly(tab[t], awaiting[t])
  BY DEF HeldInv
<1>2. PICK op : /\ Start(t, op) /\ Idle(t) /\ tab[t].open /\ op \notin {"load", "login"}
                /\ op = "get" => ~ tab[t].pending
  <2>1. CASE Sync(t)
    BY <1>1, <2>1 DEF Sync, MaySync, Orderly
  <2>2. CASE Logout(t)
    BY <1>1, <2>2 DEF Logout, Orderly
  <2>3. CASE Retry(t)
    BY <2>3 DEF Retry
  <2>4. CASE \E op \in {"theirs", "mine"} : Resolve(t, op)
    BY <1>1, <2>4 DEF Resolve, Orderly
  <2> QED  BY <2>1, <2>2, <2>3, <2>4
<1> DEFINE q == Request(op, tab[t], cookie[BrowserOf[t]])
<1>3. Send(t, q, {}) /\ UNCHANGED <<tab, made, atRisk>> /\ q.op = op
  BY <1>2 DEF Start, Ask, others, Request
<1>4. Advances
  BY StartReads
<1> HIDE DEF q
<1> QED  BY <1>2, <1>3, <1>4, StartHeld

LEMMA LoginHeld ==
    ASSUME ReadInv, HeldInv, NEW t \in Tabs, Login(t)
    PROVE  HeldInv'
<1> DEFINE q == Request("login", tab[t], NoSession)
           previous == IF tab[t].user /\ tab[t].pending
                       THEN {[journey |-> tab[t].journey, revision |-> tab[t].revision]} ELSE {}
<1>1. /\ Send(t, q, previous) /\ UNCHANGED <<tab, made, atRisk>> /\ Idle(t) /\ tab[t].open
      /\ q.op = "login"
  BY DEF Login, others, Request
<1>2. TabFine(server, Excused, tab[t])
  BY DEF ReadInv
<1>3. tab[t].pending => previous # {}
  BY <1>2 DEF TabFine
<1>4. \A p \in previous : p.journey = tab[t].journey
  OBVIOUS
<1>5. Advances
  BY LoginReads
<1> HIDE DEF q, previous
<1> QED  BY <1>1, <1>3, <1>4, <1>5, StartHeld

LEMMA BootHeld ==
    ASSUME ReadInv, HeldInv, NEW t \in Tabs, Boot(t)
    PROVE  HeldInv'
<1> DEFINE q == Request("session", Fresh, cookie[BrowserOf[t]])
<1>1. /\ tab' = [tab EXCEPT ![t] = Fresh] /\ Send(t, q, {}) /\ q.op = "session"
      /\ UNCHANGED <<made, atRisk>> /\ ~ tab[t].open
  BY DEF Boot, others, Ask, Request
<1>2. DOMAIN tab = Tabs /\ TabFine(server, Excused, tab[t]) /\ Orderly(tab[t], awaiting[t])
  BY DEF ReadInv, Shapes, HeldInv
<1>3. \A e : ~ Holds(tab[t], awaiting[t], e)
  BY <1>1, <1>2 DEF Holds, Orderly, TabFine
<1>4. \A e \in made' \ (Excused' \cup atRisk') : ~ Charge(t, e)
  BY <1>1, <1>3 DEF Charge
<1>5. tab'[t] = Fresh /\ Fresh.open /\ \A u \in Tabs \ {t} : tab'[u] = tab[u]
  BY <1>1, <1>2 DEF Fresh
<1>6. Advances
  BY BootReads
<1> HIDE DEF q
<1> QED  BY <1>1, <1>4, <1>5, <1>6, AskHeld

LEMMA CloseHeld ==
    ASSUME ReadInv, HeldInv, NEW t \in Tabs, Close(t)
    PROVE  HeldInv'
<1>1. /\ tab' = [tab EXCEPT ![t] = Closed] /\ awaiting[t].op = "none" /\ ~ tab[t].pending
      /\ UNCHANGED <<awaiting, made, atRisk>>
  BY DEF Close, Idle, account, history
<1>2. tab'[t] = Closed /\ \A u \in Tabs \ {t} : tab'[u] = tab[u]
  BY <1>1 DEF ReadInv, Shapes
<1>3. Orderly(Closed, awaiting'[t]) /\ Known(server', Excused', awaiting'[t])
  BY <1>1 DEF Orderly, Known, Closed, Fresh
<1>4. \A e \in made' \ (Excused' \cup atRisk') : ~ Charge(t, e)
  BY <1>1 DEF Charge, Holds
<1>5. Advances
  BY CloseReads
<1> QED  BY <1>1, <1>2, <1>3, <1>4, <1>5, HeldMoves

\* What a receiving tab knows of itself and of its answer.
LEMMA Receiving ==
    ASSUME ReadInv, HeldInv, NEW t \in Tabs, NEW op, op # "none", Received(t, op)
    PROVE  /\ DOMAIN tab[t] = TabFields /\ awaiting[t].op = op
           /\ tab[t].open
           /\ tab[t].pending => tab[t].loaded
           /\ op \in {"session", "load", "reload"} => ~ tab[t].loaded
           /\ op \in {"get", "reload", "logout"} => ~ tab[t].pending
           /\ awaiting[t].code = 200 => awaiting[t].server.journey \subseteq server.journey \cup Excused
           /\ op \in Writes => (awaiting[t].code = 200 => awaiting[t].server.journey = tab[t].journey)
<1>1. /\ TabFine(server, Excused, tab[t]) /\ AnswerFine(server, Excused, tab[t], awaiting[t])
      /\ Orderly(tab[t], awaiting[t]) /\ Known(server, Excused, awaiting[t])
  BY DEF ReadInv, HeldInv
<1>2. awaiting[t].op = op
  BY DEF Received
<1>3. tab[t].open
  BY <1>1, <1>2 DEF Orderly
<1>4. DOMAIN tab[t] = TabFields /\ (tab[t].pending => tab[t].loaded)
  BY <1>1 DEF TabFine
<1>5. op \in {"session", "load", "reload"} => ~ tab[t].loaded
  BY <1>1, <1>2 DEF AnswerFine
<1>6. op \in {"get", "reload", "logout"} => ~ tab[t].pending
  BY <1>1, <1>2, <1>4, <1>5 DEF AnswerFine, Orderly
<1>7. awaiting[t].code = 200 => awaiting[t].server.journey \subseteq server.journey \cup Excused
  BY <1>1, <1>2 DEF Known
<1>8. op \in Writes => (awaiting[t].code = 200 => awaiting[t].server.journey = tab[t].journey)
  BY <1>1, <1>2 DEF AnswerFine
<1> QED  BY <1>2, <1>3, <1>4, <1>5, <1>6, <1>7, <1>8

LEMMA FailedSame ==
    ASSUME NEW s, DOMAIN s = TabFields, NEW code
    PROVE  /\ Failed(s, code).journey = s.journey
           /\ Failed(s, code).pending <=> s.pending
           /\ Failed(s, code).user <=> s.user
           /\ Failed(s, code).open <=> s.open
<1> DEFINE c == s.conflict \/ code = 409
           e == s.expired \/ code = 401
           n == [s EXCEPT !.conflict = c, !.expired = e]
<1>1. Failed(s, code) = n
  BY DEF Failed
<1> HIDE DEF c, e
<1>2. /\ n.journey = s.journey
      /\ n.pending <=> s.pending
      /\ n.user <=> s.user
      /\ n.open <=> s.open
  BY DEF TabFields
<1> HIDE DEF n
<1> QED  BY <1>1, <1>2

\* A request that failed changes nothing of what the tab holds.
LEMMA FailedHeld ==
    ASSUME ReadInv, HeldInv, Advances, NEW t \in Tabs, NEW op, op \notin {"none", "load"},
           Received(t, op), Finish(t), UNCHANGED <<made, atRisk>>,
           SetTab(t, tab[t]) \/ \E code : SetTab(t, Failed(tab[t], code))
    PROVE  HeldInv'
<1>1. DOMAIN tab[t] = TabFields /\ tab[t].open /\ awaiting[t].op # "load"
  BY Receiving
<1>2. CASE SetTab(t, tab[t])
  BY <1>1, <1>2, EndTabHeld
<1>3. ASSUME NEW code, SetTab(t, Failed(tab[t], code))
      PROVE  HeldInv'
  <2> DEFINE n == Failed(tab[t], code)
  <2>1. /\ n.journey = tab[t].journey /\ n.open
        /\ n.pending <=> tab[t].pending
    BY <1>1, FailedSame
  <2>2. SetTab(t, n)
    BY <1>3
  <2> HIDE DEF n
  <2> QED  BY <1>1, <2>1, <2>2, EndTabHeld
<1> QED  BY <1>2, <1>3

LEMMA ReceivePutHeld ==
    ASSUME ReadInv, HeldInv, NEW t \in Tabs, ReceivePut(t)
    PROVE  HeldInv'
<1> DEFINE a == awaiting[t]
           d == draft[BrowserOf[t]]
           s == [tab[t] EXCEPT !.revision = a.server.revision, !.pending = FALSE]
<1>1. /\ Received(t, "put") /\ Finish(t) /\ UNCHANGED <<made, atRisk, withdrawn>> /\ Advances
  BY ReceivePutReads DEF ReceivePut, others
<1>2. DOMAIN tab[t] = TabFields /\ tab[t].open /\ a.op = "put"
  BY <1>1, Receiving
<1>3. CASE a.code = 200
  <2>1. Commit(t, Cleared(s, d))
    BY <1>3 DEF ReceivePut
  <2>2. tab[t].journey \subseteq server.journey \cup Excused
    BY <1>1, <1>3, Receiving DEF Writes
  <2>3. DOMAIN s = TabFields /\ (s.open <=> tab[t].open)
    BY <1>2 DEF TabFields
  <2>4. UNCHANGED <<server, givenUp>> /\ awaiting' = [awaiting EXCEPT ![t] = Nothing]
    BY <1>1 DEF Finish, requests
  <2> HIDE DEF s, d
  <2>5. Cleared(s, d).tab.open
    BY <1>2, <2>3, ClearedSame
  <2>6. \A e \in made' \ (Excused' \cup atRisk') : Charge(t, e) => e \in server'.journey
    BY <1>1, <2>2, <2>4 DEF Charge, Holds, Excused
  <2> HIDE DEF a
  <2> QED  BY <1>1, <2>1, <2>4, <2>5, <2>6, EndHeld
<1>4. CASE a.code # 200
  <2>1. SetTab(t, Failed(tab[t], a.code))
    BY <1>4 DEF ReceivePut
  <2> HIDE DEF a
  <2> QED  BY <1>1, <2>1, FailedHeld
<1> QED  BY <1>3, <1>4

\* A tab with nothing pending, and no renewal under way, holds nothing.
LEMMA HoldsNothing ==
    ASSUME NEW t \in Tabs, ~ tab[t].pending, awaiting[t].op # "load", UNCHANGED made
    PROVE  \A e \in made' : ~ Charge(t, e)
BY DEF Charge, Holds

LEMMA ReceiveGetHeld ==
    ASSUME ReadInv, HeldInv, NEW t \in Tabs, ReceiveGet(t)
    PROVE  HeldInv'
<1> DEFINE a == awaiting[t]
<1>1. /\ Received(t, "get") /\ UNCHANGED <<made, atRisk, withdrawn>> /\ Advances
  BY ReceiveGetReads DEF ReceiveGet, others
<1>2. DOMAIN tab[t] = TabFields /\ tab[t].open /\ ~ tab[t].pending /\ a.op = "get"
  BY <1>1, Receiving
<1>3. \A e \in made' : ~ Charge(t, e)
  BY <1>1, <1>2, HoldsNothing
<1>4. CASE a.code = 200 /\ ~ tab[t].loaded
  <2> DEFINE q == Request("reload", tab[t], cookie[BrowserOf[t]])
             r == With(tab[t], draft[BrowserOf[t]])
  <2>1. Send(t, q, {}) /\ q.op = "reload" /\ Commit(t, r) /\ r.tab = tab[t]
    BY <1>4 DEF ReceiveGet, Ask, Request, SetTab, With
  <2> HIDE DEF q, r
  <2>2. tab'[t] = tab[t] /\ \A u \in Tabs \ {t} : tab'[u] = tab[u]
    BY <2>1, Commits
  <2> QED  BY <1>1, <1>2, <1>3, <2>1, <2>2, AskHeld
<1>5. CASE a.code = 200 /\ tab[t].loaded
  <2> DEFINE n == Refreshed(tab[t], a.server)
             r == With(n, draft[BrowserOf[t]])
  <2>1. Finish(t) /\ Commit(t, r) /\ r.tab = n
    BY <1>5 DEF ReceiveGet, SetTab, With
  <2>2. n.open <=> tab[t].open
    BY <1>2 DEF Refreshed, Applied, TabFields
  <2> HIDE DEF r, n
  <2>3. awaiting' = [awaiting EXCEPT ![t] = Nothing]
    BY <2>1 DEF Finish
  <2> QED  BY <1>1, <1>2, <1>3, <2>1, <2>2, <2>3, EndHeld
<1>6. CASE a.code # 200
  <2>1. Finish(t) /\ SetTab(t, Failed(tab[t], a.code))
    BY <1>6 DEF ReceiveGet
  <2> HIDE DEF a
  <2> QED  BY <1>1, <2>1, FailedHeld
<1> QED  BY <1>4, <1>5, <1>6

LEMMA ReceiveReloadHeld ==
    ASSUME ReadInv, HeldInv, NEW t \in Tabs, ReceiveReload(t)
    PROVE  HeldInv'
<1> DEFINE a == awaiting[t]
           d == draft[BrowserOf[t]]
           r == Loaded(tab[t], d, a.server)
<1>1. /\ Received(t, "reload") /\ Finish(t) /\ UNCHANGED <<made, atRisk>> /\ Advances
  BY ReceiveReloadReads DEF ReceiveReload, others
<1>2. DOMAIN tab[t] = TabFields /\ tab[t].open /\ ~ tab[t].pending /\ a.op = "reload"
  BY <1>1, Receiving
<1>3. \A e \in made' : ~ Charge(t, e)
  BY <1>1, <1>2, HoldsNothing
<1>4. CASE a.code = 200
  <2>1. Commit(t, r) /\ awaiting' = [awaiting EXCEPT ![t] = Nothing]
    BY <1>1, <1>4 DEF ReceiveReload, Finish
  <2> HIDE DEF a, d
  <2>2. r.tab.open
    BY <1>2, LoadedHolds
  <2> HIDE DEF r
  <2> QED  BY <1>1, <1>3, <2>1, <2>2, EndHeld
<1>5. CASE a.code # 200
  <2>1. SetTab(t, Failed(tab[t], a.code))
    BY <1>5 DEF ReceiveReload
  <2> HIDE DEF a
  <2> QED  BY <1>1, <2>1, FailedHeld
<1> QED  BY <1>4, <1>5

LEMMA ReceiveSessionHeld ==
    ASSUME ReadInv, HeldInv, NEW t \in Tabs, ReceiveSession(t)
    PROVE  HeldInv'
<1> DEFINE a == awaiting[t]
           s == [tab[t] EXCEPT !.user = TRUE, !.csrf = a.session]
<1>1. /\ Received(t, "session") /\ UNCHANGED <<made, atRisk>> /\ Advances
  BY ReceiveSessionReads DEF ReceiveSession, others
<1>2. DOMAIN tab[t] = TabFields /\ tab[t].open /\ ~ tab[t].pending /\ a.op = "session"
  BY <1>1, Receiving
<1>3. \A e \in made' : ~ Charge(t, e)
  BY <1>1, <1>2, HoldsNothing
<1>4. CASE a.code = 200
  <2> DEFINE q == Request("load", s, cookie[BrowserOf[t]])
             r == With(s, draft[BrowserOf[t]])
  <2>1. Send(t, q, {}) /\ q.op = "load" /\ Commit(t, r) /\ r.tab = s
    BY <1>4 DEF ReceiveSession, Ask, Request, SetTab, With
  <2>2. s.open <=> tab[t].open
    BY <1>2 DEF TabFields
  <2> HIDE DEF q, r, s
  <2>3. tab'[t] = s /\ \A u \in Tabs \ {t} : tab'[u] = tab[u]
    BY <2>1, Commits
  <2> QED  BY <1>1, <1>2, <1>3, <2>1, <2>2, <2>3, AskHeld
<1>5. CASE a.code # 200
  <2>1. SetTab(t, tab[t]) /\ Finish(t)
    BY <1>5 DEF ReceiveSession
  <2> QED  BY <1>1, <2>1, FailedHeld
<1> QED  BY <1>4, <1>5

\* The tab starts anew, and what was pending goes on with the request.
LEMMA ReceiveLoginHeld ==
    ASSUME ReadInv, HeldInv, NEW t \in Tabs, ReceiveLogin(t)
    PROVE  HeldInv'
<1> DEFINE a == awaiting[t]
           s == [tab[t] EXCEPT !.user = TRUE, !.csrf = a.session, !.expired = FALSE,
                               !.pending = FALSE, !.conflict = FALSE, !.undo = {}, !.loaded = FALSE]
           q == Request("load", s, a.session)
<1>1. /\ Received(t, "login") /\ UNCHANGED <<made, atRisk>> /\ Advances
  BY ReceiveLoginReads DEF ReceiveLogin
<1>2. DOMAIN tab[t] = TabFields /\ tab[t].open /\ a.op = "login"
  BY <1>1, Receiving
<1>3. CASE a.code = 200
  <2> DEFINE r == With(s, draft[BrowserOf[t]])
  <2>1. Send(t, q, a.previous) /\ q.op = "load" /\ Commit(t, r) /\ r.tab = s
    BY <1>3 DEF ReceiveLogin, Request, SetTab, With
  <2>2. (s.open <=> tab[t].open) /\ s.journey = tab[t].journey
    BY <1>2 DEF TabFields
  <2>3. /\ tab[t].pending => a.previous # {}
        /\ \A p \in a.previous : p.journey = s.journey
    BY <1>2, <2>2 DEF HeldInv, Orderly
  <2>4. \A e \in made' \ (Excused' \cup atRisk') : Charge(t, e) =>
          e \in s.journey /\ a.previous # {}
    BY <1>1, <1>2, <2>2, <2>3 DEF Charge, Holds
  <2> HIDE DEF q, r, s
  <2>5. tab'[t] = s /\ \A u \in Tabs \ {t} : tab'[u] = tab[u]
    BY <2>1, Commits
  <2> HIDE DEF a
  <2> QED  BY <1>1, <1>2, <2>1, <2>2, <2>3, <2>4, <2>5, AskHeld
<1>4. CASE a.code # 200
  <2>1. SetTab(t, tab[t]) /\ Finish(t)
    BY <1>4 DEF ReceiveLogin
  <2> QED  BY <1>1, <2>1, FailedHeld
<1> QED  BY <1>3, <1>4

\* The load of a renewal puts back what was pending before, or nothing is known
\* to say that it is still there.
LEMMA ReceiveLoadHeld ==
    ASSUME ReadInv, HeldInv, NEW t \in Tabs, ReceiveLoad(t)
    PROVE  HeldInv'
<1> DEFINE a == awaiting[t]
           d == draft[BrowserOf[t]]
           l == Loaded(tab[t], d, a.server)
           r == Renewed(l, a.previous, HasRoom(t))
<1>1. /\ Received(t, "load") /\ Finish(t) /\ UNCHANGED <<made, withdrawn>> /\ Advances
      /\ UNCHANGED <<server, givenUp>> /\ awaiting' = [awaiting EXCEPT ![t] = Nothing]
  BY ReceiveLoadReads DEF ReceiveLoad, Finish, requests
<1>2. DOMAIN tab[t] = TabFields /\ tab[t].open /\ ~ tab[t].pending /\ a.op = "load"
  BY <1>1, Receiving
<1>3. CASE a.code = 200
  <2>1. Commit(t, r) /\ UNCHANGED atRisk
    BY <1>3 DEF ReceiveLoad
  <2>2. a.server.journey \subseteq server.journey \cup Excused
    BY <1>1, <1>3, Receiving
  <2>3. \A p \in a.previous : p.journey = tab[t].journey
    BY <1>2 DEF HeldInv, Orderly
  <2>4. ASSUME NEW e \in made' \ (Excused' \cup atRisk'), Charge(t, e)
        PROVE  e \in tab[t].journey /\ a.previous # {} /\ e \notin Excused
    BY <1>1, <1>2, <2>4 DEF Charge, Holds, Excused
  <2> HIDE DEF a, d
  <2>5. /\ DOMAIN l.tab = TabFields /\ (l.tab.open <=> tab[t].open)
        /\ l.tab.pending \/ l.tab.journey = a.server.journey
    BY <1>2, LoadedHolds
  <2> HIDE DEF l
  <2>6. /\ r.tab.user => r.tab.open
        /\ a.previous # {} => r.tab.journey = tab[t].journey /\ (r.tab.pending \/ r = l)
    <3>1. l.tab.user => l.tab.open
      BY <1>2, <2>5
    <3>2. \A p, o \in a.previous : p.journey = o.journey
      BY <2>3
    <3> QED  BY <2>3, <2>5, <3>1, <3>2, RenewedHolds
  <2> HIDE DEF r
  <2>7. \A e \in made' \ (Excused' \cup atRisk') : Charge(t, e) =>
          e \in server'.journey \/ (e \in r.tab.journey /\ r.tab.pending)
    BY <1>1, <2>2, <2>4, <2>5, <2>6
  <2> QED  BY <1>1, <2>1, <2>6, <2>7, EndHeld
<1>4. CASE a.code # 200
  <2>1. SetTab(t, tab[t]) /\ atRisk' = atRisk \cup UNION {p.journey : p \in a.previous}
    BY <1>4 DEF ReceiveLoad
  <2> QED  BY <1>1, <1>2, <2>1, EndTabHeld
<1> QED  BY <1>3, <1>4

\* The end of resolveConflict: what the tab held is what it takes over, which the
\* server has, or is given up.
LEMMA ResolvedHeld ==
    ASSUME ReadInv, HeldInv, Advances, UNCHANGED <<made, atRisk, withdrawn>>, NEW t \in Tabs,
           awaiting[t].op # "load", tab[t].open, NEW s, Resolved(t, s), DOMAIN s = TabFields,
           s.open <=> tab[t].open, s.journey \subseteq server.journey \cup Excused
    PROVE  HeldInv'
<1> DEFINE n == [s EXCEPT !.draftRaw = NoDraft, !.conflict = FALSE, !.pending = FALSE,
                          !.undo = {}]
           r == With(n, NoDraft)
<1>1. /\ Commit(t, r) /\ UNCHANGED server /\ awaiting' = [awaiting EXCEPT ![t] = Nothing]
      /\ tab[t].journey \ s.journey \subseteq givenUp' /\ givenUp \subseteq givenUp'
  BY DEF Resolved, account
<1>2. n.open <=> tab[t].open
  BY DEF TabFields
<1>3. r.tab = n
  BY DEF With
<1>4. \A e \in made' \ (Excused' \cup atRisk') : Charge(t, e) => e \in server'.journey
  BY <1>1 DEF Charge, Holds, Excused
<1> HIDE DEF n, r
<1> QED  BY <1>1, <1>2, <1>3, <1>4, EndHeld

LEMMA ReceiveTheirsHeld ==
    ASSUME ReadInv, HeldInv, NEW t \in Tabs, ReceiveTheirs(t)
    PROVE  HeldInv'
<1> DEFINE a == awaiting[t]
           s == Applied(tab[t], a.server)
<1>1. /\ Received(t, "theirs") /\ UNCHANGED <<made, atRisk, withdrawn>> /\ Advances
  BY ReceiveTheirsReads DEF ReceiveTheirs, others
<1>2. DOMAIN tab[t] = TabFields /\ tab[t].open /\ a.op = "theirs"
  BY <1>1, Receiving
<1>3. CASE a.code = 200
  <2>1. Resolved(t, s)
    BY <1>3 DEF ReceiveTheirs
  <2>2. a.server.journey \subseteq server.journey \cup Excused
    BY <1>1, <1>3, Receiving
  <2>3. DOMAIN s = TabFields /\ s.journey = a.server.journey /\ (s.open <=> tab[t].open)
    BY <1>2 DEF TabFields, Applied
  <2> HIDE DEF s
  <2> QED  BY <1>1, <1>2, <2>1, <2>2, <2>3, ResolvedHeld
<1>4. CASE a.code # 200
  <2>1. SetTab(t, tab[t]) /\ Finish(t)
    BY <1>4 DEF ReceiveTheirs
  <2> QED  BY <1>1, <2>1, FailedHeld
<1> QED  BY <1>3, <1>4

LEMMA ReceiveMineHeld ==
    ASSUME ReadInv, HeldInv, NEW t \in Tabs, ReceiveMine(t)
    PROVE  HeldInv'
<1> DEFINE a == awaiting[t]
           s == [tab[t] EXCEPT !.revision = a.server.revision]
           q == Request("choose", s, cookie[BrowserOf[t]])
           r == With(tab[t], draft[BrowserOf[t]])
<1>1. /\ Received(t, "mine") /\ SetTab(t, tab[t]) /\ UNCHANGED <<made, atRisk, withdrawn>>
      /\ Commit(t, r) /\ r.tab = tab[t] /\ Advances
  BY ReceiveMineReads DEF ReceiveMine, others, SetTab, With
<1>2. DOMAIN tab[t] = TabFields /\ tab[t].open /\ a.op = "mine"
  BY <1>1, Receiving
<1>3. CASE a.code = 200
  <2>1. Send(t, q, {}) /\ q.op = "choose"
    BY <1>3 DEF ReceiveMine, Ask, Request
  <2> HIDE DEF q, r
  <2>2. tab'[t] = tab[t] /\ \A u \in Tabs \ {t} : tab'[u] = tab[u]
    BY <1>1, Commits
  <2>3. \A e \in made' \ (Excused' \cup atRisk') : Charge(t, e) =>
          e \in tab[t].journey /\ tab[t].pending
    BY <1>1, <1>2 DEF Charge, Holds
  <2> QED  BY <1>1, <1>2, <2>1, <2>2, <2>3, AskHeld
<1>4. CASE a.code # 200
  <2>1. Finish(t)
    BY <1>4 DEF ReceiveMine
  <2> QED  BY <1>1, <2>1, FailedHeld
<1> QED  BY <1>3, <1>4

LEMMA ReceiveChooseHeld ==
    ASSUME ReadInv, HeldInv, NEW t \in Tabs, ReceiveChoose(t)
    PROVE  HeldInv'
<1> DEFINE a == awaiting[t]
           s == [tab[t] EXCEPT !.revision = a.server.revision]
<1>1. /\ Received(t, "choose") /\ UNCHANGED <<made, atRisk, withdrawn>> /\ Advances
  BY ReceiveChooseReads DEF ReceiveChoose, others
<1>2. DOMAIN tab[t] = TabFields /\ tab[t].open /\ a.op = "choose"
  BY <1>1, Receiving
<1>3. CASE a.code = 200
  <2>1. Resolved(t, s)
    BY <1>3 DEF ReceiveChoose
  <2>2. tab[t].journey \subseteq server.journey \cup Excused
    BY <1>1, <1>3, Receiving DEF Writes
  <2>3. DOMAIN s = TabFields /\ s.journey = tab[t].journey /\ (s.open <=> tab[t].open)
    BY <1>2 DEF TabFields
  <2> HIDE DEF s
  <2> QED  BY <1>1, <1>2, <2>1, <2>2, <2>3, ResolvedHeld
<1>4. CASE a.code # 200
  <2>1. SetTab(t, tab[t]) /\ Finish(t)
    BY <1>4 DEF ReceiveChoose
  <2> QED  BY <1>1, <2>1, FailedHeld
<1> QED  BY <1>3, <1>4

LEMMA ReceiveLogoutHeld ==
    ASSUME ReadInv, HeldInv, NEW t \in Tabs, ReceiveLogout(t)
    PROVE  HeldInv'
<1> DEFINE a == awaiting[t]
           c == Cleared(tab[t], draft[BrowserOf[t]])
           s == [c.tab EXCEPT !.user = FALSE, !.loaded = FALSE, !.journey = {},
                              !.undo = {}, !.csrf = NoSession]
           r == With(s, c.draft)
<1>1. /\ Received(t, "logout") /\ UNCHANGED <<made, atRisk>> /\ Finish(t)
      /\ awaiting' = [awaiting EXCEPT ![t] = Nothing] /\ Advances
  BY ReceiveLogoutReads DEF ReceiveLogout, Finish
<1>2. DOMAIN tab[t] = TabFields /\ ~ tab[t].pending /\ a.op = "logout"
  BY <1>1, Receiving
<1>3. CASE a.code = 200
  <2>1. Commit(t, r) /\ r.tab = s
    BY <1>3 DEF ReceiveLogout, With
  <2>2. \A e \in made' : ~ Charge(t, e)
    BY <1>1, <1>2, HoldsNothing
  <2>3. DOMAIN c.tab = TabFields
    BY <1>2, ClearedSame
  <2>4. ~ s.user
    BY <2>3 DEF TabFields
  <2> HIDE DEF r, s
  <2> QED  BY <1>1, <2>1, <2>2, <2>4, EndHeld
<1>4. CASE a.code # 200
  <2>1. SetTab(t, tab[t])
    BY <1>4 DEF ReceiveLogout
  <2> QED  BY <1>1, <2>1, FailedHeld
<1> QED  BY <1>3, <1>4

LEMMA StorageChangedHeld ==
    ASSUME ReadInv, HeldInv, NEW t \in Tabs, StorageChanged(t)
    PROVE  HeldInv'
<1> DEFINE foreign == tab[t].user /\ Head(events[t]) # tab[t].draftRaw
           c == tab[t].conflict \/ (foreign /\ tab[t].pending)
           s == [tab[t] EXCEPT !.conflict = c]
           q == Request("get", tab[t], cookie[BrowserOf[t]])
<1>1. /\ tab' = [tab EXCEPT ![t] = s] /\ UNCHANGED <<made, atRisk>>
      /\ \/ tab[t].user /\ ~ tab[t].pending /\ Idle(t) /\ Send(t, q, {})
         \/ UNCHANGED awaiting
  <2>1. tab' = [tab EXCEPT ![t].conflict = c] /\ UNCHANGED <<made, atRisk>>
    BY DEF StorageChanged, others
  <2>2. \/ tab[t].user /\ ~ tab[t].pending /\ Idle(t) /\ Send(t, q, {})
        \/ UNCHANGED awaiting
    BY DEF StorageChanged, requests, MaySync, Ask
  <2> QED  BY <2>1, <2>2
<1> HIDE DEF c
<1>2. /\ TabFine(server, Excused, tab[t]) /\ DOMAIN tab = Tabs
      /\ Orderly(tab[t], awaiting[t]) /\ Known(server, Excused, awaiting[t])
      /\ q.op = "get" /\ Advances
  BY StorageChangedReads DEF ReadInv, Shapes, HeldInv, Request
<1>3. /\ s.pending <=> tab[t].pending
      /\ s.user <=> tab[t].user
      /\ s.open <=> tab[t].open
      /\ s.journey = tab[t].journey
  BY <1>2 DEF TabFine, TabFields
<1> HIDE DEF s, q
<1>4. tab'[t] = s /\ \A u \in Tabs \ {t} : tab'[u] = tab[u]
  BY <1>1, <1>2
<1>5. CASE tab[t].user /\ ~ tab[t].pending /\ Idle(t) /\ Send(t, q, {})
  <2>1. \A e \in made' : ~ Charge(t, e)
    BY <1>1, <1>5, HoldsNothing DEF Idle
  <2>2. s.open /\ ~ s.pending
    BY <1>2, <1>3, <1>5 DEF Orderly
  <2> QED  BY <1>1, <1>2, <1>4, <1>5, <2>1, <2>2, AskHeld
<1>6. CASE UNCHANGED awaiting
  <2> DEFINE a == awaiting[t]
  <2>1. a = awaiting'[t] /\ \A u \in Tabs \ {t} : awaiting'[u] = awaiting[u]
    BY <1>6
  <2>2. Orderly(s, a) /\ Known(server', Excused', a)
    BY <1>2, <1>3 DEF Orderly, Known, Advances
  <2>3. \A e \in made' \ (Excused' \cup atRisk') : Charge(t, e) => Holds(s, a, e)
    BY <1>1, <1>3 DEF Charge, Holds
  <2> HIDE DEF a
  <2> QED  BY <1>1, <1>2, <1>4, <2>1, <2>2, <2>3, HeldMoves
<1> QED  BY <1>1, <1>5, <1>6

-----------------------------------------------------------------------------
LEMMA HeldInit == Init => HeldInv
<1> SUFFICES ASSUME Init PROVE HeldInv
  OBVIOUS
<1>1. \A t \in Tabs : Orderly(tab[t], awaiting[t]) /\ Known(server, Excused, awaiting[t])
  <2>1. Orderly(Closed, Nothing) /\ Orderly(Started, Nothing)
    BY DEF Orderly, Nothing, Closed, Started, Fresh
  <2>2. Known(server, Excused, Nothing)
    BY DEF Known, Nothing
  <2> QED  BY <2>1, <2>2 DEF Init
<1> QED  BY <1>1 DEF HeldInv, Init

LEMMA HeldStep == ReadInv /\ HeldInv /\ [Next]_vars => HeldInv'
<1> SUFFICES ASSUME ReadInv, HeldInv, [Next]_vars PROVE HeldInv'
  OBVIOUS
<1>1. ASSUME NEW t \in Tabs, NEW e \in EditsOf[t], Change(t, e)
      PROVE  HeldInv'
  BY <1>1, ChangeHeld
<1>2. ASSUME NEW t \in Tabs, Undo(t)
      PROVE  HeldInv'
  BY <1>2, UndoHeld
<1>3. ASSUME NEW t \in Tabs,
             \/ Sync(t) \/ Logout(t) \/ Retry(t)
             \/ \E op \in {"theirs", "mine"} : Resolve(t, op)
      PROVE  HeldInv'
  BY <1>3, StartsHeld
<1>4. ASSUME NEW t \in Tabs, Login(t) \/ Boot(t) \/ Close(t) \/ StorageChanged(t)
      PROVE  HeldInv'
  BY <1>4, LoginHeld, BootHeld, CloseHeld, StorageChangedHeld
<1>5. ASSUME NEW t \in Tabs, Receive(t)
      PROVE  HeldInv'
  <2>1. CASE ReceivePut(t) \/ ReceiveGet(t) \/ ReceiveReload(t)
    BY <2>1, ReceivePutHeld, ReceiveGetHeld, ReceiveReloadHeld
  <2>2. CASE ReceiveSession(t) \/ ReceiveLogin(t) \/ ReceiveLoad(t)
    BY <2>2, ReceiveSessionHeld, ReceiveLoginHeld, ReceiveLoadHeld
  <2>3. CASE ReceiveTheirs(t) \/ ReceiveMine(t)
    BY <2>3, ReceiveTheirsHeld, ReceiveMineHeld
  <2>4. CASE ReceiveChoose(t) \/ ReceiveLogout(t)
    BY <2>4, ReceiveChooseHeld, ReceiveLogoutHeld
  <2> QED  BY <1>5, <2>1, <2>2, <2>3, <2>4 DEF Receive
<1>6. ASSUME NEW q \in late, ServeLate(q)
      PROVE  HeldInv'
  <2>1. UNCHANGED <<tab, awaiting, made, atRisk>>
    BY <1>6 DEF ServeLate, client
  <2>2. Next
    BY <1>6 DEF Next
  <2> QED  BY <2>1, <2>2, ReadStep, HeldStays
<1>7. ASSUME NEW session \in sessions, EndSession(session)
      PROVE  HeldInv'
  <2>1. UNCHANGED <<tab, awaiting, made, atRisk>>
    BY <1>7 DEF EndSession, client, history
  <2>2. Next
    BY <1>7 DEF Next
  <2> QED  BY <2>1, <2>2, ReadStep, HeldStays
<1>8. CASE UNCHANGED vars
  <2>1. UNCHANGED <<server, tab, awaiting, made, withdrawn, givenUp, atRisk>>
    BY <1>8 DEF vars, account, client, history
  <2>2. Advances
    BY <2>1 DEF Advances, Excused, ReadInv, Shapes
  <2> QED  BY <2>1, <2>2, HeldStays
<1> QED  BY <1>1, <1>2, <1>3, <1>4, <1>5, <1>6, <1>7, <1>8 DEF Next

\* Journey's EditsKept, for every number of tabs and browsers: an edit that is not
\* undone, given up or at risk in a renewal is on the server or in a page that
\* knows it as pending, whatever answers are lost and sessions end. The drafts
\* of useJourney are not needed for it as long as the pages live.
THEOREM NoEditLost == Spec => []EditsKept
<1>1. ReadInv /\ [Next]_vars => ReadInv'
  BY ReadStep, ReadStays
<1>2. HeldInv => EditsKept
  BY DEF HeldInv, EditsKept, Held, Holds, Kept, Excused
<1> QED  BY ReadInit, HeldInit, <1>1, <1>2, HeldStep, PTL DEF Spec

=============================================================================
