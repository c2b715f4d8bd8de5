-------------------------- MODULE DashboardProofs --------------------------
(* Theorems about the dashboard page, for any number of rows and requests,   *)
(* with their proofs.  TLC checks one row only.                              *)
(* A page with its handlers and requests is a value [p, o, f]; what a        *)
(* handler does is a chain of operators on such values, so that there is one *)
(* lemma for each operator, and one for the effects that follow (Becomes).   *)
EXTENDS Dashboard, TLAPS

PageRecord ==
  [loading : BOOLEAN, blocking : BOOLEAN, asked : BOOLEAN, syncing : BOOLEAN,
   needs : BOOLEAN, queue : SUBSET Job, jobs : SUBSET Job,
   tracking : Job \union {None}, cancellable : BOOLEAN]
OpRecord ==
  [do : {"none", "sync", "learn", "cancelTracked", "cancelSync", "cleanup", "approval", "mail"},
   phase : {"idle", "sent", "served", "refresh"},
   rows : SUBSET Job, follows : BOOLEAN, closure : BOOLEAN]
Seen == [open : SUBSET Job, queue : SUBSET Job, needs : BOOLEAN]
Kind == {"bootstrap", "jobs", "status", "detail"}
Asker == Slot \union {"page", "poll"}
Get == [kind : Kind, by : Asker, of : Job \union {None}, current : BOOLEAN, seen : Seen]
State == [p : PageRecord, o : [Slot -> OpRecord], f : SUBSET Get]

RowsFit ==
  /\ rows \in [open : SUBSET Job, ended : SUBSET Job, auto : SUBSET Job,
               synced : SUBSET Provider]
  /\ rows.open \intersect rows.ended = {}

\* Handlers await the status or the page's data, never the jobs or a detail.
AsksFit(f) == \A r \in f : r.by \in Slot => r.kind \in {"status", "bootstrap"}

\* A handler that awaits a refresh has one request under way, and the answer to
\* a request resumes only a handler that still awaits it.
Once(f) == \A r, q \in f : r.by \in Slot /\ r.by = q.by => r = q
Awaited(s) ==
  /\ \A x \in Slot : s.o[x].phase = "refresh" => \E r \in s.f : r.by = x
  /\ \A r \in s.f : r.by \in Slot => s.o[r.by].phase = "refresh"

\* The first sync's handler was made before the page believed to be syncing,
\* and an answer to it names a row.
FirstFits(s) ==
  /\ ~ s.p.asked => s.o["initial"] = Idle
  /\ ~ s.o["initial"].closure
  /\ s.o["initial"].phase # "idle" => s.o["initial"].do = "sync"
  /\ s.o["initial"].phase = "served" => s.o["initial"].rows # {}

\* Until its answer is handled the first sync waits for it; from then on the
\* page follows a row.
SyncsFor(s, gone) ==
  s.p.syncing /\ ~ gone =>
    s.o["initial"].phase \in {"sent", "served"} \/ s.p.tracking # None

Loading(s) == \E r \in s.f : r.kind = "bootstrap" /\ r.current
Clearing(s) == \E x \in Slot : s.o[x] # Idle /\ (~ s.o[x].closure \/ x = "mail")
BlockedFor(s, gone) ==
  s.p.blocking /\ ~ gone =>
    s.p.tracking # None \/ (Loading(s) /\ ~ s.p.syncing) \/ Clearing(s)

Fit(s, gone) ==
  /\ s \in State /\ AsksFit(s.f) /\ Once(s.f) /\ Awaited(s) /\ FirstFits(s)
  /\ SyncsFor(s, gone) /\ BlockedFor(s, gone)

\* The inductive invariant.
PageInv == RowsFit /\ letGo \in BOOLEAN /\ Fit(Now, letGo)

\* The requests that handlers await are still under way in g, and by may await
\* one more.
Adds(f, g, by) ==
  /\ AsksFit(f) => AsksFit(g)
  /\ Once(f) /\ (by \in Slot => \A r \in f : r.by # by) => Once(g)
  /\ \A r \in f : r.by \in Slot => \E q \in g : q.by = r.by
  /\ \A q \in g : q.by \in Slot => q.by = by \/ \E r \in f : r.by = q.by
Kept(f, g) == Adds(f, g, "page")

----------------------------------------------------------------------------
\* The operators that handlers are made of.
LEMMA ViewFits == ASSUME RowsFit PROVE View \in Seen
BY DEF RowsFit, View, Seen

LEMMA PartFits ==
  ASSUME NEW v \in Seen, NEW kind \in Kind, NEW j \in Job \union {None}
  PROVE  Part(kind, j, v) \in Seen
BY DEF Part, Seen, Kind

LEMMA AskAdds ==
  ASSUME RowsFit, NEW s \in State, NEW kind \in Kind, NEW by \in Asker,
         NEW j \in Job \union {None}, by \in Slot => kind \in {"status", "bootstrap"}
  PROVE  /\ Ask(s, kind, by, j) \in State
         /\ Ask(s, kind, by, j).p = s.p /\ Ask(s, kind, by, j).o = s.o
         /\ s.f \subseteq Ask(s, kind, by, j).f
         /\ Adds(s.f, Ask(s, kind, by, j).f, by)
         /\ \E r \in Ask(s, kind, by, j).f : r.kind = kind /\ r.by = by /\ r.current
<1> DEFINE r0 == [kind |-> kind, by |-> by, of |-> j, current |-> TRUE,
                  seen |-> Part(kind, j, View)]
<1>1. r0 \in Get
  BY ViewFits, PartFits DEF Get
<1>2. r0.kind = kind /\ r0.by = by /\ r0.current
  OBVIOUS
<1> HIDE DEF r0
<1>3. Ask(s, kind, by, j) = [s EXCEPT !.f = @ \union {r0}]
  BY DEF Ask, r0
<1>4. /\ Ask(s, kind, by, j) \in State
      /\ Ask(s, kind, by, j).p = s.p /\ Ask(s, kind, by, j).o = s.o
      /\ Ask(s, kind, by, j).f = s.f \union {r0}
  BY <1>1, <1>3 DEF State
<1>5. Adds(s.f, s.f \union {r0}, by)
  BY <1>2 DEF Adds, AsksFit, Once
<1> QED BY <1>2, <1>4, <1>5

LEMMA OutdatedKeeps ==
  ASSUME NEW s \in State, NEW kind \in Kind
  PROVE  /\ Outdated(s, kind) \in State
         /\ Outdated(s, kind).p = s.p /\ Outdated(s, kind).o = s.o
         /\ Kept(s.f, Outdated(s, kind).f)
         /\ \A r \in s.f : r.kind # kind => r \in Outdated(s, kind).f
<1> DEFINE old == {r \in s.f : r.kind = kind}
           kept == {r \in old : kind = "detail" \/ r.by \in Slot}
           late == {[r EXCEPT !.current = FALSE] : r \in kept}
<1>0. s.f \subseteq Get
  BY DEF State
<1>1. /\ Outdated(s, kind) = [s EXCEPT !.f = (@ \ old) \union late]
  BY DEF Outdated
<1>2. ASSUME NEW r \in kept
      PROVE  /\ [r EXCEPT !.current = FALSE] \in Get
             /\ [r EXCEPT !.current = FALSE].by = r.by
             /\ [r EXCEPT !.current = FALSE].kind = r.kind
  BY <1>0 DEF Get
<1>3. late \subseteq Get
  BY <1>2
<1>4. \A q \in late : \E r \in s.f : q.by = r.by /\ q.kind = r.kind
  BY <1>2
<1>5. \A r \in old : r.by \in Slot => \E q \in late : q.by = r.by
  BY <1>2
<1>o. Once(s.f) => Once((s.f \ old) \union late)
  <2> SUFFICES ASSUME Once(s.f), NEW r \in (s.f \ old) \union late,
                      NEW q \in (s.f \ old) \union late, r.by \in Slot, r.by = q.by
               PROVE  r = q
    BY DEF Once
  <2>1. CASE r \in late /\ q \in late
    <3>1. PICK z \in kept : r = [z EXCEPT !.current = FALSE]
      BY <2>1
    <3>2. PICK w \in kept : q = [w EXCEPT !.current = FALSE]
      BY <2>1
    <3>3. z.by = w.by /\ z \in s.f /\ w \in s.f
      BY <1>2, <3>1, <3>2
    <3>4. z = w
      BY <1>2, <3>1, <3>2, <3>3 DEF Once
    <3> QED BY <3>1, <3>2, <3>4
  <2>2. CASE r \notin late /\ q \notin late
    BY <2>2 DEF Once
  <2>3. CASE r \in late /\ q \notin late
    <3>1. PICK z \in kept : r = [z EXCEPT !.current = FALSE]
      BY <2>3
    <3>2. z.by = q.by /\ z \in s.f /\ q \in s.f /\ z # q
      BY <1>2, <2>3, <3>1
    <3> QED BY <3>2 DEF Once
  <2>4. CASE r \notin late /\ q \in late
    <3>1. PICK z \in kept : q = [z EXCEPT !.current = FALSE]
      BY <2>4
    <3>2. z.by = r.by /\ z \in s.f /\ r \in s.f /\ z # r
      BY <1>2, <2>4, <3>1
    <3> QED BY <3>2 DEF Once
  <2> QED BY <2>1, <2>2, <2>3, <2>4
<1>6. old \subseteq s.f /\ \A r \in s.f : r.kind # kind => r \notin old
  OBVIOUS
<1> HIDE DEF old, kept, late
<1>7. /\ Outdated(s, kind) \in State
      /\ Outdated(s, kind).p = s.p /\ Outdated(s, kind).o = s.o
      /\ Outdated(s, kind).f = (s.f \ old) \union late
  BY <1>0, <1>1, <1>3 DEF State
<1>8. Kept(s.f, (s.f \ old) \union late)
  BY <1>4, <1>5, <1>o DEF Kept, Adds, AsksFit
<1> QED BY <1>6, <1>7, <1>8

LEMMA AddsOn ==
  ASSUME NEW f, NEW g, NEW h, NEW a, NEW b, NEW by,
         Adds(f, g, a), Adds(g, h, b), <<a, b>> \in {<<"page", by>>, <<by, "page">>}
  PROVE  Adds(f, h, by)
<1>0. "page" \notin Slot /\ ((a = "page" /\ b = by) \/ (a = by /\ b = "page"))
  BY DEF Slot
<1>1. AsksFit(f) => AsksFit(h)
  BY DEF Adds
<1>2. ASSUME NEW r \in f, r.by \in Slot PROVE \E q \in h : q.by = r.by
  <2>1. PICK q \in g : q.by = r.by
    BY <1>2 DEF Adds
  <2> QED BY <1>2, <2>1 DEF Adds
<1>3. ASSUME NEW q \in h, q.by \in Slot PROVE q.by = by \/ \E r \in f : r.by = q.by
  <2>1. q.by = b \/ \E r \in g : r.by = q.by
    BY <1>3 DEF Adds
  <2> QED BY <1>0, <1>3, <2>1 DEF Adds, Slot
<1>4. ASSUME Once(f), by \in Slot => \A r \in f : r.by # by PROVE Once(h)
  BY <1>0, <1>4 DEF Adds, Slot
<1> QED BY <1>1, <1>2, <1>3, <1>4 DEF Adds

\* Who no handler is adds nothing that a handler awaits.
LEMMA PollIsPage ==
  ASSUME NEW f, NEW g, NEW by, by \notin Slot, Adds(f, g, by)
  PROVE  Kept(f, g)
BY DEF Adds, Kept, Slot

LEMMA KeptAwaited ==
  ASSUME NEW s, NEW t, Kept(s.f, t.f), Awaited(s), Once(s.f), t.o = s.o
  PROVE  Awaited(t) /\ Once(t.f)
<1>1. ASSUME NEW x \in Slot, t.o[x].phase = "refresh" PROVE \E q \in t.f : q.by = x
  <2>1. PICK r \in s.f : r.by = x
    BY <1>1 DEF Awaited
  <2> QED BY <2>1 DEF Kept, Adds
<1>2. ASSUME NEW q \in t.f, q.by \in Slot PROVE t.o[q.by].phase = "refresh"
  BY <1>2 DEF Awaited, Kept, Adds, Slot
<1>3. Once(t.f)
  BY DEF Kept, Adds, Slot
<1> QED BY <1>1, <1>2, <1>3 DEF Awaited

LEMMA RefreshAllAsks ==
  ASSUME RowsFit, NEW s \in State, NEW by \in Slot \union {"page"}
  PROVE  /\ RefreshAll(s, by) \in State
         /\ RefreshAll(s, by).p = s.p /\ RefreshAll(s, by).o = s.o
         /\ Adds(s.f, RefreshAll(s, by).f, by)
         /\ Loading(RefreshAll(s, by))
         /\ \E r \in RefreshAll(s, by).f : r.by = by
<1> DEFINE a == Outdated(s, "bootstrap")
           b == Outdated(a, "jobs")
           c == Ask(b, "bootstrap", by, None)
           d == Ask(c, "jobs", "page", None)
<1>0. RefreshAll(s, by) = d
  BY DEF RefreshAll
<1>k. by \in Asker /\ "page" \in Asker /\ "page" \notin Slot /\ {"bootstrap", "jobs"} \subseteq Kind
  BY DEF Asker, Kind, Slot
<1>1. a \in State /\ a.p = s.p /\ a.o = s.o /\ Kept(s.f, a.f)
  BY <1>k, OutdatedKeeps
<1> HIDE DEF a
<1>2. b \in State /\ b.p = s.p /\ b.o = s.o /\ Kept(a.f, b.f)
  BY <1>k, <1>1, OutdatedKeeps
<1> HIDE DEF b
<1>3. /\ c \in State /\ c.p = s.p /\ c.o = s.o /\ Adds(b.f, c.f, by)
      /\ \E r \in c.f : r.kind = "bootstrap" /\ r.by = by /\ r.current
  BY <1>k, <1>2, AskAdds
<1> HIDE DEF c
<1>4. d \in State /\ d.p = s.p /\ d.o = s.o /\ Kept(c.f, d.f) /\ c.f \subseteq d.f
  BY <1>k, <1>3, AskAdds, PollIsPage
<1> HIDE DEF d
<1>5. Adds(s.f, c.f, by)
  BY <1>1, <1>2, <1>3, AddsOn DEF Kept
<1>6. Adds(s.f, d.f, by)
  BY <1>4, <1>5, AddsOn DEF Kept
<1> QED BY <1>0, <1>3, <1>4, <1>6 DEF Loading

LEMMA FollowTurns ==
  ASSUME NEW s \in State, NEW j \in Job \union {None}
  PROVE  /\ Follow(s, j) \in State
         /\ Follow(s, j).p = [s.p EXCEPT !.tracking = j]
         /\ Follow(s, j).o = s.o
         /\ Kept(s.f, Follow(s, j).f)
         /\ Loading(s) => Loading(Follow(s, j))
<1>0. s.p \in PageRecord
  BY DEF State
<1>1. CASE s.p.tracking = j
  <2>1. s.p = [s.p EXCEPT !.tracking = j]
    BY <1>0, <1>1 DEF PageRecord
  <2>2. Kept(s.f, s.f)
    BY DEF Kept, Adds
  <2> QED BY <1>1, <2>1, <2>2 DEF Follow
<1>2. CASE s.p.tracking # j
  <2> DEFINE a == Outdated(s, "detail")
  <2>1. /\ a \in State /\ a.p = s.p /\ a.o = s.o /\ Kept(s.f, a.f)
        /\ \A r \in s.f : r.kind # "detail" => r \in a.f
    BY OutdatedKeeps DEF Kind
  <2>2. Follow(s, j) = [a EXCEPT !.p.tracking = j]
    BY <1>2 DEF Follow
  <2> HIDE DEF a
  <2>3. [s.p EXCEPT !.tracking = j] \in PageRecord
    BY <1>0 DEF PageRecord
  <2>4. /\ Follow(s, j).p = [s.p EXCEPT !.tracking = j] /\ Follow(s, j).o = s.o
        /\ Follow(s, j).f = a.f /\ Follow(s, j) \in State
    BY <2>1, <2>2, <2>3 DEF State
  <2>5. Loading(s) => Loading(Follow(s, j))
    BY <2>1, <2>4 DEF Loading
  <2> QED BY <2>1, <2>4, <2>5
<1> QED BY <1>1, <1>2

----------------------------------------------------------------------------
\* The effects that follow every change keep whatever the page waits for.
LEMMA PickFits ==
  ASSUME NEW s, NEW gone \in BOOLEAN, Fit(s, gone), NEW t \in Pick(s)
  PROVE  Fit(t, gone)
<1>1. CASE t = s
  BY <1>1 DEF Fit
<1>2. ASSUME NEW j \in s.p.jobs, t = Follow(s, j)
      PROVE  Fit(t, gone)
  <2>1. s \in State /\ s.p \in PageRecord /\ j \in Job /\ j # None
    BY DashboardAssumption DEF Fit, State, PageRecord
  <2>2. /\ t \in State /\ t.p = [s.p EXCEPT !.tracking = j] /\ t.o = s.o
        /\ Kept(s.f, t.f)
    BY <1>2, <2>1, FollowTurns
  <2>3. t.p.tracking # None
    BY <2>1, <2>2 DEF PageRecord
  <2> QED BY <2>2, <2>3, KeptAwaited DEF Fit, Kept, Adds, FirstFits, SyncsFor, BlockedFor, PageRecord, State
<1> QED BY <1>1, <1>2 DEF Pick

LEMMA InitialSyncFits ==
  ASSUME NEW s, NEW gone \in BOOLEAN, Fit(s, gone)
  PROVE  Fit(InitialSync(s), gone)
<1> DEFINE t == InitialSync(s)
           first == [Idle EXCEPT !.do = "sync", !.phase = "sent"]
           shown == [s.p EXCEPT !.asked = TRUE, !.syncing = TRUE, !.blocking = TRUE,
                                !.cancellable = FALSE]
<1>0. s \in State /\ s.p \in PageRecord /\ s.o \in [Slot -> OpRecord] /\ "initial" \in Slot
  BY DEF Fit, State, Slot
<1>1. CASE t = s
  BY <1>1 DEF Fit
<1>2. CASE t # s
  <2>1. t = [s EXCEPT !.p.asked = TRUE, !.p.syncing = TRUE, !.p.blocking = TRUE,
                      !.p.cancellable = FALSE, !.o["initial"] = first]
    BY <1>2 DEF InitialSync
  <2>2. /\ first \in OpRecord /\ first.phase = "sent" /\ first.do = "sync"
        /\ ~ first.closure /\ first # Idle
    BY DEF Idle, OpRecord
  <2> HIDE DEF first
  <2>3. /\ shown \in PageRecord
        /\ shown.syncing /\ shown.blocking /\ shown.tracking = s.p.tracking
    BY <1>0 DEF PageRecord
  <2>4. t = [p |-> shown, o |-> [s.o EXCEPT !["initial"] = first], f |-> s.f]
    BY <1>0, <2>1 DEF State, PageRecord
  <2> HIDE DEF t, shown
  <2>5. t.p = shown /\ t.o = [s.o EXCEPT !["initial"] = first] /\ t.f = s.f
    BY <2>4
  <2>6. t \in State
    BY <1>0, <2>2, <2>3, <2>4 DEF State
  <2>7. t.o["initial"] = first /\ \A x \in Slot \ {"initial"} : t.o[x] = s.o[x]
    BY <1>0, <2>5
  <2>8. s.o["initial"].phase = "idle"
    BY <1>2 DEF InitialSync, Fit, FirstFits, Idle, t
  <2>9. shown.asked
    BY <1>0 DEF shown, PageRecord
  <2>a. AsksFit(t.f) /\ Once(t.f) /\ Awaited(t) /\ FirstFits(t)
    BY <2>2, <2>5, <2>7, <2>8, <2>9 DEF Fit, Awaited, FirstFits
  <2>b. SyncsFor(t, gone) /\ BlockedFor(t, gone)
    BY <1>0, <2>2, <2>7 DEF SyncsFor, BlockedFor, Clearing
  <2> QED BY <2>6, <2>a, <2>b DEF Fit, t
<1> QED BY <1>1, <1>2

\* A request that no handler awaits disturbs nothing.
LEMMA AskFits ==
  ASSUME RowsFit, NEW s, NEW gone \in BOOLEAN, Fit(s, gone), NEW kind \in Kind,
         NEW by \in {"page", "poll"}, NEW j \in Job \union {None}
  PROVE  Fit(Ask(s, kind, by, j), gone)
<1> DEFINE t == Ask(s, kind, by, j)
<1>1. s \in State /\ by \in Asker /\ by \notin Slot
  BY DEF Fit, Asker, Slot
<1>2. t \in State /\ t.p = s.p /\ t.o = s.o /\ Kept(s.f, t.f) /\ s.f \subseteq t.f
  BY <1>1, AskAdds, PollIsPage
<1> HIDE DEF t
<1>3. /\ AsksFit(t.f) /\ Once(t.f) /\ Awaited(t) /\ FirstFits(t)
      /\ SyncsFor(t, gone) /\ BlockedFor(t, gone)
  BY <1>2, KeptAwaited DEF Fit, Kept, Adds, FirstFits, SyncsFor, BlockedFor, Loading, Clearing
<1> QED BY <1>2, <1>3 DEF Fit, t

LEMMA StartPollFits ==
  ASSUME RowsFit, NEW s, NEW gone \in BOOLEAN, Fit(s, gone)
  PROVE  Fit(StartPoll(s), gone)
<1>1. s.p.tracking \in Job \union {None} /\ "detail" \in Kind
  BY DEF Fit, State, PageRecord, Kind
<1> QED BY <1>1, AskFits DEF StartPoll

\* A handler that leaves the page fit leaves it fit after the effects.  The
\* requests of the effects see the rows before the step: no handler of the
\* page changes them in the same step.
LEMMA BecomesFit ==
  ASSUME RowsFit, UNCHANGED rows, letGo' \in BOOLEAN,
         NEW s, Fit(s, letGo'), Becomes(s)
  PROVE  PageInv'
<1>1. PICK t \in Pick(s) : LET u == StartPoll(InitialSync(t)) IN
        page' = u.p /\ op' = u.o /\ flight' = u.f
  BY DEF Becomes
<1> DEFINE u == StartPoll(InitialSync(t))
<1>2. Fit(u, letGo')
  BY PickFits, InitialSyncFits, StartPollFits
<1>3. page' = u.p /\ op' = u.o /\ flight' = u.f
  BY <1>1
<1> HIDE DEF u
<1>4. Now' = u
  BY <1>2, <1>3 DEF Now, Fit, State
<1>5. RowsFit'
  BY DEF RowsFit, Provider
<1> QED BY <1>2, <1>4, <1>5 DEF PageInv

----------------------------------------------------------------------------
\* Steps.
LEMMA Opened ==
  /\ Now.p = page /\ Now.o = op /\ Now.f = flight
  /\ PageInv => /\ Now \in State /\ page \in PageRecord /\ op \in [Slot -> OpRecord]
                /\ flight \in SUBSET Get /\ rows.open \subseteq Job
BY DEF Now, PageInv, RowsFit, Fit, State

\* Rows change, and a handler may have been served.
LEMMA ServerFits ==
  ASSUME PageInv, RowsFit', UNCHANGED <<page, flight, letGo>>, op' \in [Slot -> OpRecord],
         \A x \in Slot : /\ op'[x].closure = op[x].closure /\ op'[x].do = op[x].do
                         /\ op'[x].phase = op[x].phase \/ (op[x].phase = "sent" /\ op'[x].phase = "served")
                         /\ op'[x] = Idle <=> op[x] = Idle
                         /\ x = "initial" /\ op'[x].phase = "served" => op'[x].rows # {}
  PROVE  PageInv'
<1> DEFINE s == Now
           t == [p |-> page, o |-> op', f |-> flight]
<1>1. Now' = t /\ s.p = t.p /\ s.f = t.f /\ s.o = op /\ t.o = op' /\ t.p = page /\ t.f = flight
  BY DEF Now
<1>2. Fit(s, letGo) /\ "initial" \in Slot
  BY DEF PageInv, Slot
<1>3. t \in State
  BY <1>1, Opened DEF State
<1> HIDE DEF s, t
<1>4. \A x \in Slot : /\ t.o[x].closure = s.o[x].closure /\ t.o[x].do = s.o[x].do
                      /\ t.o[x].phase = "refresh" <=> s.o[x].phase = "refresh"
                      /\ t.o[x] = Idle <=> s.o[x] = Idle
                      /\ s.o[x].phase \in {"sent", "served"} => t.o[x].phase \in {"sent", "served"}
                      /\ s.o[x].phase = "idle" => t.o[x].phase = "idle"
  BY <1>1
<1>5. AsksFit(t.f) /\ Once(t.f) /\ Awaited(t)
  BY <1>1, <1>2, <1>4 DEF Fit, Awaited
<1>6. FirstFits(t)
  BY <1>1, <1>2, <1>4 DEF Fit, FirstFits
<1>7. SyncsFor(t, letGo)
  BY <1>1, <1>2, <1>4 DEF Fit, SyncsFor
<1>8. BlockedFor(t, letGo)
  BY <1>1, <1>2, <1>4 DEF Fit, BlockedFor, Loading, Clearing
<1> QED BY <1>1, <1>3, <1>5, <1>6, <1>7, <1>8 DEF PageInv, Fit

LEMMA RowsChangeFits ==
  ASSUME PageInv, NEW j \in Job, Create(j) \/ End(j)
  PROVE  PageInv'
<1>1. RowsFit'
  <2>1. CASE Create(j)
    BY <2>1 DEF PageInv, RowsFit, Create, Fresh, Provider
  <2>2. CASE End(j)
    <3>1. PICK done \in {{}, {ProviderOf[j]}} :
            rows' = [rows EXCEPT !.open = @ \ {j}, !.ended = @ \union {j},
                                 !.synced = @ \union done]
      BY <2>2 DEF End
    <3>2. done \subseteq Provider
      BY DEF Provider
    <3> HIDE DEF Provider
    <3>3. Provider' = Provider
      BY DEF Provider
    <3> QED BY <3>1, <3>2, <3>3 DEF PageInv, RowsFit
  <2> QED BY <2>1, <2>2
<1>2. UNCHANGED <<page, op, flight, letGo>>
  BY DEF Create, End
<1>3. \A x \in Slot : x = "initial" /\ op[x].phase = "served" => op[x].rows # {}
  BY Opened DEF PageInv, Fit, FirstFits
<1> QED BY <1>1, <1>2, <1>3, ServerFits, Opened

LEMMA ServeFits ==
  ASSUME PageInv, NEW x \in Slot, ServePost(x)
  PROVE  PageInv'
<1>0. /\ op \in [Slot -> OpRecord] /\ op[x].phase = "sent" /\ UNCHANGED <<page, flight, letGo>>
      /\ op[x] \in OpRecord /\ RowsFit /\ Provider' = Provider
  BY Opened DEF ServePost, PageInv, Provider
<1>1. \A y \in Slot : y = "initial" /\ op[y].phase = "served" => op[y].rows # {}
  BY Opened DEF PageInv, Fit, FirstFits
<1>i. op["initial"].phase # "idle" => op["initial"].do = "sync"
  BY Opened DEF PageInv, Fit, FirstFits
<1>2. ASSUME NEW j \in Job, Requested(x, j) PROVE PageInv'
  <2> DEFINE o == [op[x] EXCEPT !.phase = "served", !.rows = {j}]
  <2>1. op' = [op EXCEPT ![x] = o]
    BY <1>0, <1>2 DEF Requested
  <2>i. o \in OpRecord /\ op[x] # Idle
    <3>1. {j} \in SUBSET Job
      OBVIOUS
    <3>2. [op[x] EXCEPT !.phase = "served"] \in OpRecord
      BY <1>0 DEF OpRecord
    <3>3. o = [[op[x] EXCEPT !.phase = "served"] EXCEPT !.rows = {j}]
      OBVIOUS
    <3> HIDE DEF o
    <3>4. o \in OpRecord
      BY <3>1, <3>2, <3>3 DEF OpRecord
    <3>5. op[x] # Idle
      BY <1>0 DEF Idle
    <3> QED BY <3>4, <3>5
  <2>f. /\ o.phase = "served" /\ o.rows = {j} /\ o.closure = op[x].closure
        /\ o.do = op[x].do
    BY <1>0 DEF OpRecord
  <2>2. /\ o \in OpRecord /\ o.phase = "served" /\ o.rows # {} /\ o # Idle /\ op[x] # Idle
        /\ o.closure = op[x].closure /\ o.do = op[x].do
    BY <2>i, <2>f DEF Idle
  <2> HIDE DEF o
  <2>3. RowsFit'
    BY <1>0, <1>2 DEF RowsFit, Requested, Fresh
  <2>4. op' \in [Slot -> OpRecord] /\ op'[x] = o /\ \A y \in Slot \ {x} : op'[y] = op[y]
    BY <1>0, <2>1, <2>2
  <2> QED BY <1>0, <1>1, <2>2, <2>3, <2>4, ServerFits
<1>3. ASSUME NEW gone \in SUBSET op[x].rows, Cancelled(x, gone) PROVE PageInv'
  <2> DEFINE o == [op[x] EXCEPT !.phase = "served"]
  <2>1. op' = [op EXCEPT ![x] = o]
    BY <1>0, <1>3 DEF Cancelled
  <2>2. /\ o \in OpRecord /\ o.phase = "served" /\ o # Idle /\ op[x] # Idle
        /\ o.closure = op[x].closure /\ o.do = op[x].do
    BY <1>0 DEF OpRecord, Idle
  <2> HIDE DEF o
  <2>3. RowsFit'
    BY <1>0, <1>3 DEF RowsFit, Cancelled, OpRecord
  <2>4. op' \in [Slot -> OpRecord] /\ op'[x] = o /\ \A y \in Slot \ {x} : op'[y] = op[y]
    BY <1>0, <2>1, <2>2
  <2>5. x # "initial"
    BY <1>0, <1>3, <1>i DEF Cancelled
  <2> QED BY <1>0, <1>1, <2>2, <2>3, <2>4, <2>5, ServerFits
<1>4. CASE Saved(x) /\ UNCHANGED <<page, flight, letGo>>
  <2> DEFINE o == [op[x] EXCEPT !.phase = "served"]
  <2>1. op' = [op EXCEPT ![x] = o] /\ rows' = rows
    BY <1>0, <1>4 DEF Saved
  <2>2. /\ o \in OpRecord /\ o.phase = "served" /\ o # Idle /\ op[x] # Idle
        /\ o.closure = op[x].closure /\ o.do = op[x].do
    BY <1>0 DEF OpRecord, Idle
  <2> HIDE DEF o
  <2>3. RowsFit'
    BY <1>0, <2>1 DEF RowsFit
  <2>4. op' \in [Slot -> OpRecord] /\ op'[x] = o /\ \A y \in Slot \ {x} : op'[y] = op[y]
    BY <1>0, <2>1, <2>2
  <2>5. x # "initial"
    BY <1>0, <1>4, <1>i DEF Saved
  <2> QED BY <1>0, <1>1, <2>2, <2>3, <2>4, <2>5, ServerFits
<1> QED BY <1>0, <1>2, <1>3, <1>4 DEF ServePost

\* The state that a handler makes of Now, if the server is left alone.
LEMMA HandlerFits ==
  ASSUME PageInv, UNCHANGED rows, NEW s, Becomes(s), letGo' \in BOOLEAN,
         s \in State, AsksFit(s.f), Once(s.f), Awaited(s), FirstFits(s),
         SyncsFor(s, letGo'), BlockedFor(s, letGo')
  PROVE  PageInv'
BY BecomesFit DEF PageInv, Fit

LEMMA StartFits ==
  ASSUME PageInv, NEW slot \in Slot \ {"initial"}, NEW do, NEW targets \in SUBSET Job,
         NEW follows \in BOOLEAN, Start(slot, do, targets, follows),
         do \in {"sync", "learn", "cancelTracked", "cancelSync", "cleanup", "approval", "mail"}
  PROVE  PageInv'
<1> DEFINE o == [do |-> do, phase |-> "sent", rows |-> targets,
                 follows |-> follows, closure |-> page.syncing]
           q == [page EXCEPT !.blocking = TRUE, !.cancellable = @ /\ slot # "action"]
           t == [Now EXCEPT !.p.blocking = TRUE, !.p.cancellable = @ /\ slot # "action",
                            !.o[slot] = o]
           O == [op EXCEPT ![slot] = o]
<1>0. /\ page \in PageRecord /\ op \in [Slot -> OpRecord] /\ flight \in SUBSET Get
      /\ op[slot] = Idle /\ UNCHANGED <<rows, letGo>> /\ letGo \in BOOLEAN
      /\ Fit(Now, letGo) /\ "initial" \in Slot
  BY Opened DEF Start, PageInv, Slot
<1>1. Becomes(t)
  BY DEF Start
<1>e. t = [Now EXCEPT !.p = q, !.o = O]
  BY <1>0, Opened DEF State
<1>2. /\ q \in PageRecord /\ q.syncing = page.syncing /\ q.tracking = page.tracking
      /\ q.asked = page.asked
  BY <1>0 DEF PageRecord
<1>3. /\ o \in OpRecord /\ o # Idle /\ o.phase = "sent" /\ o.closure = page.syncing
  BY <1>0 DEF OpRecord, Idle, PageRecord
<1> HIDE DEF o, q, t
<1>f. O \in [Slot -> OpRecord] /\ O[slot] = o /\ \A x \in Slot \ {slot} : O[x] = op[x]
  BY <1>0, <1>3
<1> HIDE DEF O
<1>4. /\ t \in State /\ t.p = q /\ t.o[slot] = o /\ t.f = flight
      /\ \A x \in Slot \ {slot} : t.o[x] = op[x]
  <2>1. Now \in State /\ q \in PageRecord
    BY <1>2, Opened
  <2>2. t \in State /\ t.p = q /\ t.o = O /\ t.f = Now.f
    BY <1>e, <1>f, <2>1 DEF State
  <2> QED BY <1>f, <2>2, Opened
<1>5. AsksFit(t.f) /\ Once(t.f) /\ Awaited(t)
  BY <1>0, <1>3, <1>4, Opened DEF Fit, Awaited, Idle
<1>6. FirstFits(t) /\ SyncsFor(t, letGo)
  BY <1>0, <1>2, <1>4, Opened DEF Fit, FirstFits, SyncsFor
<1>7. BlockedFor(t, letGo)
  <2>1. CASE page.syncing
    BY <1>0, <1>2, <1>4, <2>1, Opened DEF Fit, FirstFits, SyncsFor, BlockedFor, Clearing, Idle
  <2>2. CASE ~ page.syncing
    BY <1>3, <1>4, <2>2 DEF BlockedFor, Clearing
  <2> QED BY <2>1, <2>2
<1> QED BY <1>0, <1>1, <1>4, <1>5, <1>6, <1>7, HandlerFits

\* The end of a handler.
LEMMA FinallyEnds ==
  ASSUME NEW s \in State, NEW x \in Slot
  PROVE  LET u == Finally(s, x) IN
         /\ u \in State /\ u.f = s.f
         /\ u.p.tracking = s.p.tracking /\ u.p.syncing = s.p.syncing
         /\ u.p.asked = s.p.asked
         /\ u.p.blocking => s.p.blocking /\ s.o[x].closure /\ x # "mail"
         /\ u.o[x] = Idle /\ \A y \in Slot \ {x} : u.o[y] = s.o[y]
<1> DEFINE q == [s.p EXCEPT !.blocking = @ /\ s.o[x].closure /\ x # "mail"]
           O == [s.o EXCEPT ![x] = Idle]
           u == Finally(s, x)
<1>0. s.p \in PageRecord /\ s.o \in [Slot -> OpRecord] /\ s.o[x] \in OpRecord
  BY DEF State
<1>1. u = [s EXCEPT !.p = q, !.o = O]
  BY DEF Finally, State
<1>2. /\ q \in PageRecord
      /\ q.tracking = s.p.tracking /\ q.syncing = s.p.syncing /\ q.asked = s.p.asked
      /\ q.blocking => s.p.blocking /\ s.o[x].closure /\ x # "mail"
  BY <1>0 DEF PageRecord, OpRecord
<1>3. Idle \in OpRecord
  BY DEF Idle, OpRecord
<1>4. O \in [Slot -> OpRecord] /\ O[x] = Idle /\ \A y \in Slot \ {x} : O[y] = s.o[y]
  BY <1>0, <1>3
<1> HIDE DEF q, O, u
<1>5. u \in State /\ u.p = q /\ u.o = O /\ u.f = s.f
  BY <1>1, <1>2, <1>4 DEF State
<1>6. /\ u \in State /\ u.f = s.f
      /\ u.p.tracking = s.p.tracking /\ u.p.syncing = s.p.syncing
      /\ u.p.asked = s.p.asked
      /\ u.p.blocking => s.p.blocking /\ s.o[x].closure /\ x # "mail"
      /\ u.o[x] = Idle /\ \A y \in Slot \ {x} : u.o[y] = s.o[y]
  BY <1>2, <1>4, <1>5
<1> QED BY <1>6 DEF u

\* A handler ends before it awaits anything, whatever happens to the belief to
\* be syncing except that nothing sets it.
LEMMA FailureFits ==
  ASSUME PageInv, NEW x \in Slot, op[x].phase \in {"sent", "served"},
         NEW s \in State, s.o = op, s.f = flight, s.p.tracking = page.tracking,
         s.p.asked = page.asked, s.p.blocking => page.blocking,
         s.p.syncing => page.syncing, x = "initial" => ~ s.p.syncing
  PROVE  Fit(Finally(s, x), letGo)
<1> DEFINE u == Finally(s, x)
<1>0. /\ Fit(Now, letGo) /\ "initial" \in Slot /\ op \in [Slot -> OpRecord]
      /\ Idle.phase = "idle" /\ ~ Idle.closure
  BY Opened DEF PageInv, Slot, Idle
<1>1. /\ u \in State /\ u.f = flight
      /\ u.p.tracking = page.tracking /\ u.p.syncing = s.p.syncing /\ u.p.asked = page.asked
      /\ u.p.blocking => page.blocking /\ op[x].closure /\ x # "mail"
      /\ u.o[x] = Idle /\ \A y \in Slot \ {x} : u.o[y] = op[y]
  BY FinallyEnds
<1> HIDE DEF u
<1>2. AsksFit(u.f) /\ Once(u.f) /\ Awaited(u)
  BY <1>0, <1>1, Opened DEF Fit, Awaited
<1>3. FirstFits(u)
  BY <1>0, <1>1, Opened DEF Fit, FirstFits
<1>4. SyncsFor(u, letGo)
  BY <1>0, <1>1, Opened DEF Fit, SyncsFor
<1>5. BlockedFor(u, letGo)
  BY <1>0, <1>1, Opened DEF Fit, BlockedFor, Loading, Clearing
<1>6. Fit(u, letGo)
  BY <1>1, <1>2, <1>3, <1>4, <1>5 DEF Fit
<1> QED BY <1>6 DEF u

\* An answer is taken, whatever it shows, and whoever awaited it goes on.
LEMMA AnswerFits ==
  ASSUME PageInv, NEW r \in flight,
         NEW s \in State, s.o = op, s.f = flight \ {r}, s.p.tracking = page.tracking,
         s.p.asked = page.asked, s.p.syncing = page.syncing, s.p.blocking => page.blocking,
         r.kind = "bootstrap" /\ r.current => (s.p.blocking => page.syncing)
  PROVE  Fit(Resume(s, r), letGo)
<1> DEFINE u == Resume(s, r)
           x == r.by
<1>0. /\ Fit(Now, letGo) /\ "initial" \in Slot /\ op \in [Slot -> OpRecord]
      /\ Idle.phase = "idle" /\ ~ Idle.closure
      /\ AsksFit(flight) /\ Once(flight) /\ Awaited(Now)
  BY Opened DEF PageInv, Fit, Slot, Idle
<1>1. CASE x \notin Slot
  <2>1. u = s
    BY <1>1 DEF Resume
  <2> HIDE DEF u
  <2>2. AsksFit(u.f) /\ Once(u.f) /\ Awaited(u)
    BY <1>0, <1>1, <2>1, Opened DEF Awaited, AsksFit, Once
  <2>3. FirstFits(u) /\ SyncsFor(u, letGo)
    BY <1>0, <2>1, Opened DEF Fit, FirstFits, SyncsFor
  <2>4. BlockedFor(u, letGo)
    BY <1>0, <2>1, Opened DEF Fit, BlockedFor, Loading, Clearing
  <2> QED BY <2>1, <2>2, <2>3, <2>4 DEF Fit, u
<1>2. CASE x \in Slot
  <2>1. /\ u \in State /\ u.f = flight \ {r}
        /\ u.p.tracking = page.tracking /\ u.p.syncing = page.syncing /\ u.p.asked = page.asked
        /\ u.p.blocking => s.p.blocking /\ op[x].closure /\ x # "mail"
        /\ u.o[x] = Idle /\ \A y \in Slot \ {x} : u.o[y] = op[y]
    BY <1>2, FinallyEnds DEF Resume
  <2> HIDE DEF u
  <2>2. op[x].phase = "refresh"
    BY <1>0, <1>2, Opened DEF Awaited
  <2>3. AsksFit(u.f) /\ Once(u.f)
    BY <1>0, <2>1 DEF AsksFit, Once
  <2>4. Awaited(u)
    <3>1. \A q \in u.f : q.by \in Slot => q.by # x
      BY <1>0, <1>2, <2>1 DEF Once
    <3>2. \A y \in Slot : u.o[y].phase = "refresh" => \E q \in u.f : q.by = y
      BY <1>0, <2>1, Opened DEF Awaited
    <3>3. \A q \in u.f : q.by \in Slot => u.o[q.by].phase = "refresh"
      BY <1>0, <2>1, <3>1, Opened DEF Awaited
    <3> QED BY <3>2, <3>3 DEF Awaited
  <2>5. FirstFits(u)
    BY <1>0, <2>1, Opened DEF Fit, FirstFits
  <2>6. SyncsFor(u, letGo)
    BY <1>0, <2>1, <2>2, Opened DEF Fit, SyncsFor
  <2>7. BlockedFor(u, letGo)
    BY <1>0, <2>1, Opened DEF Fit, BlockedFor, Loading, Clearing
  <2>8. Fit(u, letGo)
    BY <2>1, <2>3, <2>4, <2>5, <2>6, <2>7 DEF Fit
  <2> QED BY <2>8 DEF u
<1> QED BY <1>1, <1>2

LEMMA ViewsFit ==
  ASSUME PageInv, NEW r \in flight, NEW v \in Views(r)
  PROVE  v \in Seen
<1> DEFINE w == Part(r.kind, r.of, View)
<1>1. r \in Get /\ RowsFit
  BY Opened DEF PageInv
<1>2. r.seen \in Seen /\ w \in Seen
  BY <1>1, ViewFits, PartFits DEF Get
<1> HIDE DEF w
<1>3. [w EXCEPT !.open = {}] \in Seen /\ [w EXCEPT !.queue = {}] \in Seen
      /\ [w EXCEPT !.needs = FALSE] \in Seen
  BY <1>2 DEF Seen
<1>4. Views(r) \subseteq {r.seen, w, [w EXCEPT !.open = {}], [w EXCEPT !.queue = {}],
                          [w EXCEPT !.needs = FALSE]}
  BY DEF Views, w
<1> QED BY <1>2, <1>3, <1>4

LEMMA TakenFits ==
  ASSUME PageInv, NEW r \in flight
  PROVE  /\ Taken(r) \in State /\ Taken(r).p = page /\ Taken(r).o = op
         /\ Taken(r).f = flight \ {r}
BY Opened DEF Taken, State

\* What an answer makes of the page, before anyone goes on.
StatusTaken(r, v) ==
  [Taken(r) EXCEPT !.p.needs = v.needs, !.p.queue = v.queue, !.p.jobs = v.open]
BootstrapTaken(r, v) ==
  [Taken(r) EXCEPT !.p.needs = v.needs, !.p.queue = v.queue]

LEMMA StatusFits ==
  ASSUME PageInv, NEW r \in flight, NEW v \in Seen,
         NEW s, s = StatusTaken(r, v)
  PROVE  /\ s \in State /\ s.o = op /\ s.f = flight \ {r} /\ s.p.tracking = page.tracking
         /\ s.p.asked = page.asked /\ s.p.syncing = page.syncing
         /\ s.p.blocking = page.blocking
<1> DEFINE q == [page EXCEPT !.needs = v.needs, !.queue = v.queue, !.jobs = v.open]
<1>0. page \in PageRecord /\ v.needs \in BOOLEAN /\ v.queue \in SUBSET Job /\ v.open \in SUBSET Job
  BY Opened DEF Seen
<1>1. s = [Taken(r) EXCEPT !.p = q]
  BY TakenFits DEF State, StatusTaken, BootstrapTaken
<1>2. /\ q \in PageRecord /\ q.tracking = page.tracking /\ q.asked = page.asked
      /\ q.syncing = page.syncing /\ q.blocking = page.blocking
  BY <1>0 DEF PageRecord
<1> HIDE DEF q
<1>3. s \in State /\ s.o = op /\ s.f = flight \ {r} /\ s.p = q
  BY <1>1, <1>2, TakenFits DEF State
<1> QED BY <1>2, <1>3

LEMMA BootstrapFits ==
  ASSUME PageInv, NEW r \in flight, NEW v \in Seen,
         NEW s, s = BootstrapTaken(r, v)
  PROVE  /\ s \in State /\ s.o = op /\ s.f = flight \ {r} /\ s.p.tracking = page.tracking
         /\ s.p.asked = page.asked /\ s.p.syncing = page.syncing
         /\ s.p.blocking = page.blocking
<1> DEFINE q == [page EXCEPT !.needs = v.needs, !.queue = v.queue]
<1>0. page \in PageRecord /\ v.needs \in BOOLEAN /\ v.queue \in SUBSET Job
  BY Opened DEF Seen
<1>1. s = [Taken(r) EXCEPT !.p = q]
  BY TakenFits DEF State, StatusTaken, BootstrapTaken
<1>2. /\ q \in PageRecord /\ q.tracking = page.tracking /\ q.asked = page.asked
      /\ q.syncing = page.syncing /\ q.blocking = page.blocking
  BY <1>0 DEF PageRecord
<1> HIDE DEF q
<1>3. s \in State /\ s.o = op /\ s.f = flight \ {r} /\ s.p = q
  BY <1>1, <1>2, TakenFits DEF State
<1> QED BY <1>2, <1>3

LEMMA LoadedFits ==
  ASSUME NEW s \in State
  PROVE  /\ Loaded(s) \in State /\ Loaded(s).o = s.o /\ Loaded(s).f = s.f
         /\ Loaded(s).p.tracking = s.p.tracking /\ Loaded(s).p.asked = s.p.asked
         /\ Loaded(s).p.syncing = s.p.syncing
         /\ Loaded(s).p.blocking => s.p.blocking /\ s.p.syncing
<1> DEFINE q == [s.p EXCEPT !.loading = FALSE, !.blocking = @ /\ s.p.syncing]
<1>0. s.p \in PageRecord
  BY DEF State
<1>1. Loaded(s) = [s EXCEPT !.p = q]
  BY DEF Loaded, State
<1>2. /\ q \in PageRecord /\ q.tracking = s.p.tracking /\ q.asked = s.p.asked
      /\ q.syncing = s.p.syncing
      /\ q.blocking => s.p.blocking /\ s.p.syncing
  BY <1>0 DEF PageRecord
<1> DEFINE u == Loaded(s)
<1> HIDE DEF q, u
<1>3. u = [s EXCEPT !.p = q]
  BY <1>1 DEF u
<1>4. u \in State /\ u.o = s.o /\ u.f = s.f /\ u.p = q
  BY <1>2, <1>3 DEF State
<1>5. /\ u \in State /\ u.o = s.o /\ u.f = s.f /\ u.p.tracking = s.p.tracking
      /\ u.p.asked = s.p.asked /\ u.p.syncing = s.p.syncing
      /\ u.p.blocking => s.p.blocking /\ s.p.syncing
  BY <1>2, <1>4
<1> QED BY <1>5 DEF u

\* A request that no handler awaits is taken.
LEMMA DroppedFits ==
  ASSUME PageInv, NEW r \in flight, r.kind \in {"jobs", "detail"},
         NEW s \in State, s.o = op, s.f = flight \ {r}, s.p.tracking = page.tracking,
         s.p.asked = page.asked, s.p.syncing = page.syncing, s.p.blocking => page.blocking
  PROVE  Fit(s, letGo)
<1>1. r.by \notin Slot
  BY Opened DEF PageInv, Fit, AsksFit
<1>2. Resume(s, r) = s
  BY <1>1 DEF Resume
<1>3. Fit(Resume(s, r), letGo)
  BY AnswerFits
<1> QED BY <1>2, <1>3

LEMMA AnsweredFits ==
  ASSUME PageInv, NEW r \in flight, GetAnswered(r)
  PROVE  PageInv'
<1>1. PICK v \in Views(r) : Answered(r, v)
  BY DEF GetAnswered
<1>2. /\ v \in Seen /\ UNCHANGED <<rows, letGo>> /\ RowsFit /\ letGo' \in BOOLEAN
      /\ r \in Get /\ Fit(Now, letGo)
  BY <1>1, ViewsFit, Opened DEF Answered, PageInv
<1>3. CASE r.kind = "status"
  <2> DEFINE s == StatusTaken(r, v)
  <2>1. Becomes(Resume(s, r))
    BY <1>1, <1>3 DEF Answered, StatusAnswered, StatusTaken
  <2>2. Fit(Resume(s, r), letGo)
    <3>1. /\ s \in State /\ s.o = op /\ s.f = flight \ {r} /\ s.p.tracking = page.tracking
          /\ s.p.asked = page.asked /\ s.p.syncing = page.syncing
          /\ s.p.blocking = page.blocking
      BY <1>2, StatusFits
    <3> HIDE DEF s
    <3> QED BY <1>3, <3>1, AnswerFits
  <2> QED BY <1>2, <2>1, <2>2, BecomesFit
<1>4. CASE r.kind = "jobs"
  <2> DEFINE s == [Taken(r) EXCEPT !.p.jobs = v.open]
             q == [page EXCEPT !.jobs = v.open]
  <2>1. Becomes(s)
    BY <1>1, <1>4 DEF Answered, JobsAnswered
  <2>2. s = [Taken(r) EXCEPT !.p = q]
    BY TakenFits DEF State
  <2>3. /\ q \in PageRecord /\ q.tracking = page.tracking /\ q.asked = page.asked
        /\ q.syncing = page.syncing /\ q.blocking = page.blocking
    BY <1>2, Opened DEF PageRecord, Seen
  <2> HIDE DEF q, s
  <2>4. s \in State /\ s.o = op /\ s.f = flight \ {r} /\ s.p = q
    BY <2>2, <2>3, TakenFits DEF State
  <2>5. Fit(s, letGo)
    BY <1>4, <2>3, <2>4, DroppedFits
  <2> QED BY <1>2, <2>1, <2>5, BecomesFit
<1>5. CASE r.kind = "bootstrap" /\ r.current
  <2> DEFINE t == BootstrapTaken(r, v)
             s == Loaded(t)
  <2>1. Becomes(Resume(s, r))
    BY <1>1, <1>5 DEF Answered, BootstrapAnswered, BootstrapTaken
  <2>2. /\ t \in State /\ t.o = op /\ t.f = flight \ {r} /\ t.p.tracking = page.tracking
        /\ t.p.asked = page.asked /\ t.p.syncing = page.syncing
        /\ t.p.blocking = page.blocking
    BY <1>2, BootstrapFits
  <2> HIDE DEF t
  <2>3. /\ s \in State /\ s.o = op /\ s.f = flight \ {r} /\ s.p.tracking = page.tracking
        /\ s.p.asked = page.asked /\ s.p.syncing = page.syncing
        /\ s.p.blocking => page.blocking /\ page.syncing
    BY <2>2, LoadedFits
  <2> HIDE DEF s
  <2>4. Fit(Resume(s, r), letGo)
    BY <2>3, AnswerFits
  <2> QED BY <1>2, <2>1, <2>4, BecomesFit
<1>6. CASE r.kind = "bootstrap" /\ ~ r.current
  <2>1. Becomes(Resume(Taken(r), r))
    BY <1>1, <1>6 DEF Answered, BootstrapAnswered
  <2>2. Fit(Resume(Taken(r), r), letGo)
    BY <1>6, TakenFits, AnswerFits
  <2> QED BY <1>2, <2>1, <2>2, BecomesFit
<1>7. CASE r.kind = "detail"
  <2> DEFINE over == r.of \notin v.open
             s == [Taken(r) EXCEPT !.p.cancellable = ~ over]
             q == [page EXCEPT !.cancellable = ~ over]
  <2>1. s = [Taken(r) EXCEPT !.p = q]
    BY TakenFits DEF State
  <2>2. /\ q \in PageRecord /\ q.tracking = page.tracking /\ q.asked = page.asked
        /\ q.syncing = page.syncing /\ q.blocking = page.blocking
    BY Opened DEF PageRecord
  <2>b. Becomes(IF over
                THEN RefreshAll([Follow(s, None) EXCEPT !.p.syncing = FALSE,
                                                        !.p.blocking = FALSE], "page")
                ELSE s)
    BY <1>1, <1>7 DEF Answered, DetailAnswered
  <2> HIDE DEF q, s
  <2>3. s \in State /\ s.o = op /\ s.f = flight \ {r} /\ s.p = q
    BY <2>1, <2>2, TakenFits DEF State
  <2>4. Fit(s, letGo)
    BY <1>7, <2>2, <2>3, DroppedFits
  <2>5. CASE ~ over
    <3>1. Becomes(s)
      BY <2>5, <2>b
    <3> QED BY <1>2, <2>4, <3>1, BecomesFit
  <2>6. CASE over
    <3> DEFINE a == Follow(s, None)
               b == [a EXCEPT !.p.syncing = FALSE, !.p.blocking = FALSE]
               h == [a.p EXCEPT !.syncing = FALSE, !.blocking = FALSE]
               c == RefreshAll(b, "page")
    <3>1. a \in State /\ a.o = s.o /\ a.p = [s.p EXCEPT !.tracking = None] /\ Kept(s.f, a.f)
      BY <2>3, FollowTurns
    <3> HIDE DEF a
    <3>2. b = [a EXCEPT !.p = h]
      BY <3>1 DEF State
    <3>3. h \in PageRecord /\ h.asked = a.p.asked /\ ~ h.syncing /\ ~ h.blocking
      BY <3>1 DEF PageRecord, State
    <3> HIDE DEF b, h
    <3>4. b \in State /\ b.p = h /\ b.o = a.o /\ b.f = a.f
      BY <3>1, <3>2, <3>3 DEF State
    <3>5. c \in State /\ c.p = b.p /\ c.o = b.o /\ Kept(b.f, c.f)
      BY <1>2, <3>4, RefreshAllAsks DEF Kept
    <3>6. Becomes(c)
      BY <2>6, <2>b DEF a, b, c
    <3> HIDE DEF c
    <3>7. AsksFit(c.f) /\ Once(c.f) /\ Awaited(c)
      <4>1. Kept(s.f, c.f)
        BY <3>1, <3>4, <3>5, AddsOn DEF Kept
      <4> QED BY <2>4, <3>1, <3>4, <3>5, <4>1, KeptAwaited DEF Fit, Kept, Adds
    <3>8. a.p.asked = s.p.asked
      BY <2>3, <3>1 DEF PageRecord, State
    <3>9. FirstFits(c) /\ SyncsFor(c, letGo) /\ BlockedFor(c, letGo)
      BY <2>4, <3>1, <3>3, <3>4, <3>5, <3>8 DEF Fit, FirstFits, SyncsFor, BlockedFor
    <3>0. Fit(c, letGo)
      BY <3>5, <3>7, <3>9 DEF Fit
    <3> QED BY <1>2, <3>6, <3>0, BecomesFit
  <2> QED BY <2>5, <2>6
<1> QED BY <1>2, <1>3, <1>4, <1>5, <1>6, <1>7 DEF Get, Kind

LEMMA LostFits ==
  ASSUME PageInv, NEW r \in flight, GetFailed(r)
  PROVE  PageInv'
<1>1. /\ UNCHANGED <<rows, letGo>> /\ RowsFit /\ letGo' \in BOOLEAN /\ Taken(r) \in State
  BY TakenFits DEF GetFailed, PageInv
<1>2. CASE Becomes(Resume(Taken(r), r)) /\ (r.kind = "status" \/ ~ r.current)
  <2>1. Fit(Resume(Taken(r), r), letGo)
    BY <1>2, TakenFits, AnswerFits
  <2> QED BY <1>1, <1>2, <2>1, BecomesFit
<1>3. CASE Becomes(Resume(Loaded(Taken(r)), r)) /\ r.kind = "bootstrap"
  <2> DEFINE s == Loaded(Taken(r))
  <2>1. /\ s \in State /\ s.o = op /\ s.f = flight \ {r} /\ s.p.tracking = page.tracking
        /\ s.p.asked = page.asked /\ s.p.syncing = page.syncing
        /\ s.p.blocking => page.blocking /\ page.syncing
    BY <1>1, TakenFits, LoadedFits
  <2> HIDE DEF s
  <2>2. Fit(Resume(s, r), letGo)
    BY <2>1, AnswerFits
  <2>3. Becomes(Resume(s, r))
    BY <1>3 DEF s
  <2> QED BY <1>1, <2>2, <2>3, BecomesFit
<1>4. CASE r.kind \in {"jobs", "detail"}
  <2>1. Fit(Taken(r), letGo)
    BY <1>4, TakenFits, DroppedFits
  <2>2. CASE Becomes(Taken(r))
    BY <1>1, <2>1, <2>2, BecomesFit
  <2>3. CASE Becomes(Ask(Taken(r), "status", "poll", None))
    <3>1. "status" \in Kind /\ None \in Job \union {None} /\ letGo \in BOOLEAN
      BY DEF Kind, PageInv
    <3>2. Fit(Ask(Taken(r), "status", "poll", None), letGo)
      BY <1>1, <2>1, <3>1, AskFits
    <3> QED BY <1>1, <2>3, <3>2, BecomesFit
  <2> QED BY <1>4, <2>2, <2>3 DEF GetFailed
<1> QED BY <1>2, <1>3, <1>4 DEF GetFailed

LEMMA PostFailedFits ==
  ASSUME PageInv, NEW x \in Slot, PostFailed(x)
  PROVE  PageInv'
<1> DEFINE q == [page EXCEPT !.syncing = @ /\ op[x].do \notin {"sync", "learn"}]
           s == [Now EXCEPT !.p.syncing = @ /\ op[x].do \notin {"sync", "learn"}]
<1>0. /\ UNCHANGED <<rows, letGo>> /\ RowsFit /\ letGo' \in BOOLEAN
      /\ op[x].phase \in {"sent", "served"} /\ Fit(Now, letGo) /\ page \in PageRecord
  BY Opened DEF PostFailed, PageInv
<1>1. Becomes(Finally(s, x))
  BY DEF PostFailed
<1>2. s = [Now EXCEPT !.p = q]
  BY Opened DEF State
<1>3. x = "initial" => op[x].do = "sync"
  BY <1>0, Opened DEF Fit, FirstFits
<1>4. /\ q \in PageRecord /\ q.tracking = page.tracking /\ q.asked = page.asked
      /\ q.blocking = page.blocking
      /\ q.syncing => page.syncing
      /\ x = "initial" => ~ q.syncing
  BY <1>0, <1>3 DEF PageRecord
<1> HIDE DEF s, q
<1>5. s \in State /\ s.p = q /\ s.o = op /\ s.f = flight
  BY <1>2, <1>4, Opened DEF State
<1>6. Fit(Finally(s, x), letGo)
  BY <1>0, <1>4, <1>5, FailureFits
<1> QED BY <1>0, <1>1, <1>6, BecomesFit

LEMMA TimerFits ==
  ASSUME PageInv, StatusTimer
  PROVE  PageInv'
<1>1. /\ UNCHANGED <<rows, letGo>> /\ RowsFit /\ letGo' \in BOOLEAN /\ letGo \in BOOLEAN
      /\ Fit(Now, letGo) /\ "status" \in Kind /\ None \in Job \union {None}
  BY DEF StatusTimer, PageInv, Kind
<1>2. Becomes(Ask(Now, "status", "page", None))
  BY DEF StatusTimer, RefreshStatus
<1>3. Fit(Ask(Now, "status", "page", None), letGo)
  BY <1>1, AskFits
<1> QED BY <1>1, <1>2, <1>3, BecomesFit

\* A served handler goes on with its answer: z follows what the answer names, or
\* nothing when it let go, and x awaits a request that was not there.
LEMMA GoesOn ==
  ASSUME PageInv, NEW x \in Slot, op[x].phase = "served", NEW gone \in BOOLEAN, letGo => gone,
         NEW z \in State, z.p.syncing = page.syncing, z.p.asked = page.asked,
         z.p.blocking = page.blocking,
         z.o[x] # Idle, z.o[x].phase = "refresh", z.o[x].closure = op[x].closure,
         z.o[x].do = op[x].do, \A y \in Slot \ {x} : z.o[y] = op[y],
         Adds(flight, z.f, x), \E r \in z.f : r.by = x,
         \/ gone
         \/ page.tracking # None => z.p.tracking # None
         \/ ~ page.syncing /\ Loading(z),
         x # "initial" \/ z.p.tracking # None,
         Loading(Now) => Loading(z)
  PROVE  Fit(z, gone)
<1>0. /\ Fit(Now, letGo) /\ "initial" \in Slot /\ op \in [Slot -> OpRecord]
      /\ AsksFit(flight) /\ Once(flight) /\ Awaited(Now) /\ op[x] # Idle
  BY Opened DEF PageInv, Fit, Slot, Idle
<1>1. \A r \in flight : r.by # x
  BY <1>0, Opened DEF Awaited
<1>2. AsksFit(z.f) /\ Once(z.f)
  BY <1>0, <1>1 DEF Adds
<1>3. Awaited(z)
  <2>1. ASSUME NEW y \in Slot, z.o[y].phase = "refresh" PROVE \E q \in z.f : q.by = y
    <3>1. CASE y = x
      BY <3>1
    <3>2. CASE y # x
      <4>1. PICK r \in flight : r.by = y
        BY <1>0, <2>1, <3>2, Opened DEF Awaited
      <4> QED BY <4>1 DEF Adds
    <3> QED BY <3>1, <3>2
  <2>2. ASSUME NEW q \in z.f, q.by \in Slot PROVE z.o[q.by].phase = "refresh"
    <3>1. CASE q.by = x
      BY <3>1
    <3>2. CASE q.by # x
      <4>1. PICK r \in flight : r.by = q.by
        BY <2>2, <3>2 DEF Adds
      <4> QED BY <1>0, <2>2, <3>2, <4>1, Opened DEF Awaited
    <3> QED BY <3>1, <3>2
  <2> QED BY <2>1, <2>2 DEF Awaited
<1>4. FirstFits(z)
  BY <1>0, Opened DEF Fit, FirstFits
<1>5. SyncsFor(z, gone)
  BY <1>0, Opened DEF Fit, SyncsFor
<1>6. BlockedFor(z, gone)
  BY <1>0, Opened DEF Fit, BlockedFor, Clearing
<1> QED BY <1>2, <1>3, <1>4, <1>5, <1>6 DEF Fit

LEMMA PostAnsweredFits ==
  ASSUME PageInv, NEW x \in Slot, PostAnswered(x)
  PROVE  PageInv'
<1> DEFINE do == op[x].do
           drops == do = "cancelSync" /\ op[x].follows
           names == do \in {"sync", "learn", "approval"} /\ op[x].rows # {}
           t == [Now EXCEPT !.o[x].phase = "refresh", !.o[x].rows = {}]
           w == [op[x] EXCEPT !.phase = "refresh", !.rows = {}]
           O == [op EXCEPT ![x] = w]
           n == CHOOSE j \in op[x].rows : TRUE
           a == IF names THEN Follow(t, n)
                ELSE IF drops THEN [Follow(t, None) EXCEPT !.p.cancellable = FALSE] ELSE t
           z == IF do \in {"cancelSync", "mail"} THEN RefreshAll(a, x) ELSE RefreshStatus(a, x)
           gone == letGo \/ (drops /\ page.syncing)
<1>0. /\ UNCHANGED rows /\ RowsFit /\ op[x].phase = "served" /\ Fit(Now, letGo)
      /\ page \in PageRecord /\ op \in [Slot -> OpRecord] /\ op[x] \in OpRecord
      /\ Now \in State /\ letGo \in BOOLEAN
  BY Opened DEF PostAnswered, PageInv
<1>1. Becomes(z) /\ letGo' = gone
  BY DEF PostAnswered
<1>2. /\ w \in OpRecord /\ w # Idle /\ w.phase = "refresh"
      /\ w.closure = op[x].closure /\ w.do = do
  <2>1. w \in OpRecord /\ w.phase = "refresh"
    BY <1>0 DEF OpRecord
  <2>2. w.closure = op[x].closure /\ w.do = do
    BY <1>0 DEF OpRecord
  <2> QED BY <2>1, <2>2 DEF Idle
<1>3. t = [Now EXCEPT !.o = O]
  BY <1>0, Opened DEF State
<1> HIDE DEF w
<1>4. O \in [Slot -> OpRecord] /\ O[x] = w /\ \A y \in Slot \ {x} : O[y] = op[y]
  BY <1>0, <1>2
<1> HIDE DEF O, t
<1>5. t \in State /\ t.p = page /\ t.o = O /\ t.f = flight
  BY <1>0, <1>3, <1>4, Opened DEF State
<1>6. gone \in BOOLEAN /\ (letGo => gone)
  BY <1>0
<1>7. names => n \in Job /\ n # None
  BY <1>0, DashboardAssumption DEF OpRecord
<1>8. x = "initial" => names
  BY <1>0, Opened DEF Fit, FirstFits
<1>9. Kept(flight, flight)
  BY DEF Kept, Adds
<1> HIDE DEF n
<1>a. /\ a \in State /\ a.o = O /\ Kept(flight, a.f)
      /\ a.p.syncing = page.syncing /\ a.p.asked = page.asked /\ a.p.blocking = page.blocking
      /\ a.p.tracking = IF names THEN n ELSE IF drops THEN None ELSE page.tracking
      /\ Loading(Now) => Loading(a)
  <2>1. Loading(Now) => Loading(t)
    BY <1>5, Opened DEF Loading
  <2>2. CASE names
    <3> DEFINE f == Follow(t, n)
    <3>1. /\ f \in State /\ f.p = [page EXCEPT !.tracking = n] /\ f.o = O
          /\ Kept(flight, f.f)
          /\ Loading(t) => Loading(f)
      BY <1>5, <1>7, <2>2, FollowTurns
    <3>2. a = f
      BY <2>2
    <3> HIDE DEF f, a
    <3> QED BY <1>0, <2>1, <2>2, <3>1, <3>2 DEF PageRecord
  <2>3. CASE ~ names /\ drops
    <3> DEFINE f == Follow(t, None)
               q == [f.p EXCEPT !.cancellable = FALSE]
    <3>1. /\ f \in State /\ f.p = [page EXCEPT !.tracking = None] /\ f.o = O
          /\ Kept(flight, f.f)
          /\ Loading(t) => Loading(f)
      BY <1>5, FollowTurns
    <3>2. a = [f EXCEPT !.p.cancellable = FALSE]
      BY <2>3
    <3> HIDE DEF f, a
    <3>3. /\ q \in PageRecord /\ q.syncing = page.syncing /\ q.asked = page.asked
          /\ q.blocking = page.blocking /\ q.tracking = None
      BY <1>0, <3>1 DEF PageRecord
    <3>4. a = [f EXCEPT !.p = q]
      BY <3>1, <3>2 DEF State
    <3> HIDE DEF q
    <3>5. a \in State /\ a.o = O /\ a.p = q /\ a.f = f.f
      BY <3>1, <3>3, <3>4 DEF State
    <3>6. Loading(f) => Loading(a)
      BY <3>5 DEF Loading
    <3> QED BY <2>1, <2>3, <3>1, <3>3, <3>5, <3>6
  <2>4. CASE ~ names /\ ~ drops
    <3>1. a = t
      BY <2>4
    <3> HIDE DEF a
    <3> QED BY <1>5, <1>9, <2>1, <2>4, <3>1
  <2> QED BY <2>2, <2>3, <2>4
<1> HIDE DEF a
<1>b. /\ z \in State /\ z.p = a.p /\ z.o = O /\ Adds(a.f, z.f, x)
      /\ \E r \in z.f : r.by = x
      /\ Loading(a) => Loading(z)
      /\ drops => Loading(z)
  <2>1. CASE do \in {"cancelSync", "mail"}
    <3>1. z = RefreshAll(a, x)
      BY <2>1
    <3> HIDE DEF z
    <3> QED BY <1>0, <1>a, <3>1, RefreshAllAsks
  <2>2. CASE do \notin {"cancelSync", "mail"}
    <3>1. z = Ask(a, "status", x, None) /\ ~ drops
      BY <2>2 DEF RefreshStatus
    <3>2. "status" \in Kind /\ x \in Asker /\ None \in Job \union {None}
      BY DEF Kind, Asker
    <3> HIDE DEF z
    <3>3. /\ z \in State /\ z.p = a.p /\ z.o = a.o /\ a.f \subseteq z.f /\ Adds(a.f, z.f, x)
          /\ \E r \in z.f : r.kind = "status" /\ r.by = x /\ r.current
      BY <1>0, <1>a, <3>1, <3>2, AskAdds
    <3> QED BY <1>a, <3>1, <3>3 DEF Loading
  <2> QED BY <2>1, <2>2
<1> HIDE DEF z
<1>c. Adds(flight, z.f, x)
  BY <1>a, <1>b, AddsOn DEF Kept
<1>d. names => ~ drops
  OBVIOUS
<1>e. \/ gone
      \/ page.tracking # None => z.p.tracking # None
      \/ ~ page.syncing /\ Loading(z)
  BY <1>0, <1>7, <1>a, <1>b, <1>d DEF PageRecord
<1>f. x # "initial" \/ z.p.tracking # None
  BY <1>7, <1>8, <1>a, <1>b
<1> HIDE DEF gone, names, drops
<1>g. z.o[x] # Idle /\ z.o[x].phase = "refresh" /\ z.o[x].closure = op[x].closure
      /\ z.o[x].do = op[x].do /\ \A y \in Slot \ {x} : z.o[y] = op[y]
  BY <1>2, <1>4, <1>b
<1>h. Fit(z, gone)
  BY <1>0, <1>6, <1>a, <1>b, <1>c, <1>e, <1>f, <1>g, GoesOn
<1> QED BY <1>0, <1>1, <1>6, <1>h, BecomesFit

----------------------------------------------------------------------------
LEMMA InitFits == Init => PageInv
<1> SUFFICES ASSUME Init PROVE PageInv
  OBVIOUS
<1> DEFINE s == [p |-> page, o |-> op, f |-> {}]
           z == RefreshAll(s, "page")
<1>1. RowsFit
  <2> HIDE DEF Provider
  <2>1. rows.ended = {} /\ rows.open \in {{}} \union {{j} : j \in Job}
    BY DEF Init
  <2> QED BY <2>1 DEF Init, RowsFit
<1>2. page \in PageRecord /\ Idle \in OpRecord /\ page.tracking = None
  BY DEF Init, PageRecord, Idle, OpRecord
<1>3. op \in [Slot -> OpRecord] /\ \A x \in Slot : op[x] = Idle
  BY <1>2 DEF Init
<1>4. s \in State
  BY <1>2, <1>3 DEF State
<1>5. z \in State /\ z.p = page /\ z.o = op /\ Adds({}, z.f, "page") /\ Loading(z)
  BY <1>1, <1>4, RefreshAllAsks
<1>6. flight = z.f
  BY DEF Init
<1>7. ~ page.syncing /\ ~ page.asked /\ letGo = FALSE
  BY DEF Init
<1> HIDE DEF z
<1>8. AsksFit(flight) /\ Once(flight) /\ \A r \in flight : r.by \notin Slot
  BY <1>5, <1>6 DEF Adds, AsksFit, Once, Slot
<1>9. Now \in State /\ Loading(Now)
  BY <1>2, <1>3, <1>5, <1>6, Opened DEF State, Now, Loading
<1>10. Awaited(Now) /\ FirstFits(Now)
  BY <1>3, <1>8, Opened DEF Awaited, FirstFits, Slot, Idle
<1>11. SyncsFor(Now, letGo) /\ BlockedFor(Now, letGo)
  BY <1>7, <1>9, Opened DEF SyncsFor, BlockedFor
<1> QED BY <1>1, <1>7, <1>8, <1>9, <1>10, <1>11, Opened DEF PageInv, Fit

\* Whatever a click starts.
LEMMA ClickFits ==
  ASSUME PageInv,
         RequestSync \/ RequestLearn \/ CancelTracked \/ CancelSync \/ CleanUp \/ Approve
           \/ AutoConfirm \/ SaveMail
  PROVE  PageInv'
<1>1. {"action", "cancel", "cleanup", "approval", "mail"} \subseteq Slot \ {"initial"}
  BY DEF Slot
<1>2. page \in PageRecord /\ {} \in SUBSET Job /\ FALSE \in BOOLEAN
  BY Opened
<1>3. CASE RequestSync
  BY <1>1, <1>2, <1>3, StartFits DEF RequestSync, Click
<1>4. CASE RequestLearn
  BY <1>1, <1>2, <1>4, StartFits DEF RequestLearn, Click
<1>5. CASE CancelTracked
  <2>1. {page.tracking} \in SUBSET Job
    BY <1>2, <1>5 DEF CancelTracked, PageRecord
  <2> QED BY <1>1, <1>2, <1>5, <2>1, StartFits DEF CancelTracked, Click
<1>6. CASE CancelSync
  <2>1. PICK j \in page.jobs \ rows.auto :
          Click("cancel", "cancelSync", {j}, page.tracking = j)
    BY <1>6 DEF CancelSync
  <2>2. {j} \in SUBSET Job /\ (page.tracking = j) \in BOOLEAN
    BY <1>2 DEF PageRecord
  <2>3. Start("cancel", "cancelSync", {j}, page.tracking = j)
    BY <2>1 DEF Click
  <2> QED BY <1>1, <2>2, <2>3, StartFits
<1>7. CASE CleanUp
  <2>1. page.queue \in SUBSET Job
    BY <1>2 DEF PageRecord
  <2> QED BY <1>1, <1>2, <1>7, <2>1, StartFits DEF CleanUp, Click
<1>8. CASE Approve
  BY <1>1, <1>2, <1>8, StartFits DEF Approve, Click
<1>9. CASE AutoConfirm
  BY <1>1, <1>2, <1>9, StartFits DEF AutoConfirm
<1>10. CASE SaveMail
  BY <1>1, <1>2, <1>10, StartFits DEF SaveMail, Click
<1> QED BY <1>3, <1>4, <1>5, <1>6, <1>7, <1>8, <1>9, <1>10

LEMMA Stutters ==
  ASSUME PageInv, UNCHANGED vars
  PROVE  PageInv'
<1>1. Now' = Now /\ RowsFit' /\ letGo' = letGo
  BY DEF vars, Now, PageInv, RowsFit, Provider
<1> QED BY <1>1 DEF PageInv

LEMMA StepFits ==
  ASSUME PageInv, [Next]_vars
  PROVE  PageInv'
<1>1. ASSUME NEW j \in Job, Create(j) \/ End(j) PROVE PageInv'
  BY <1>1, RowsChangeFits
<1>2. ASSUME NEW x \in Slot, ServePost(x) PROVE PageInv'
  BY <1>2, ServeFits
<1>3. ASSUME NEW x \in Slot, PostAnswered(x) PROVE PageInv'
  BY <1>3, PostAnsweredFits
<1>4. ASSUME NEW x \in Slot, PostFailed(x) PROVE PageInv'
  BY <1>4, PostFailedFits
<1>5. ASSUME NEW r \in flight, GetAnswered(r) PROVE PageInv'
  BY <1>5, AnsweredFits
<1>6. ASSUME NEW r \in flight, GetFailed(r) PROVE PageInv'
  BY <1>6, LostFits
<1> QED BY <1>1, <1>2, <1>3, <1>4, <1>5, <1>6, ClickFits, TimerFits, Stutters DEF Next

LEMMA PageInvHolds == Spec => []PageInv
BY InitFits, StepFits, PTL DEF Spec

\* The variables keep their types, and no row that has ended is opened again,
\* whatever pages, schedules and handlers ask for.
THEOREM TypesCorrect == Spec => []TypeOK
<1>1. PageInv => TypeOK
  <2> SUFFICES ASSUME PageInv PROVE TypeOK
    OBVIOUS
  <2>1. page \in PageRecord /\ op \in [Slot -> OpRecord] /\ flight \in SUBSET Get
    BY Opened
  <2>2. RowsFit /\ letGo \in BOOLEAN
    BY DEF PageInv
  <2> QED BY <2>1, <2>2 DEF TypeOK, RowsFit, PageRecord, OpRecord, Get, Kind, Asker, Seen
<1> QED BY <1>1, PageInvHolds, PTL

\* The dialog that blocks the page (blockingMessage of dashboard-client.tsx)
\* never stays for nothing, for any number of rows, handlers and requests and
\* any order of their answers.
THEOREM BlockedPageWaits == Spec => []BlockedForAReason
<1>1. PageInv => BlockedForAReason
  BY Opened DEF PageInv, Fit, BlockedFor, BlockedForAReason, Loading, Clearing
<1> QED BY <1>1, PageInvHolds, PTL

\* A page that believes the first sync to be under way (bootstrapSyncing) asked
\* for it or follows a row.
THEOREM SyncingPageWaits == Spec => []SyncingForAReason
<1>1. PageInv => SyncingForAReason
  BY Opened DEF PageInv, Fit, SyncsFor, SyncingForAReason, Idle
<1> QED BY <1>1, PageInvHolds, PTL

\* A handler in its refresh is resumed by exactly one answer, although requests
\* are replaced (isCurrentRequest of dashboard-client.tsx) while it waits.
THEOREM HandlersAwaitOneAnswer == Spec => []OneAnswerEach
<1>1. PageInv => OneAnswerEach
  <2> SUFFICES ASSUME PageInv, NEW x \in Slot
               PROVE  IF op[x].phase = "refresh"
                      THEN \E r \in flight : \A q \in flight : q.by = x <=> q = r
                      ELSE \A q \in flight : q.by # x
    BY DEF OneAnswerEach
  <2>1. Once(flight) /\ Awaited(Now)
    BY Opened DEF PageInv, Fit
  <2>2. CASE op[x].phase = "refresh"
    <3>1. PICK r \in flight : r.by = x
      BY <2>1, <2>2, Opened DEF Awaited
    <3> QED BY <2>1, <2>2, <3>1 DEF Once
  <2>3. CASE op[x].phase # "refresh"
    BY <2>1, <2>3, Opened DEF Awaited
  <2> QED BY <2>2, <2>3
<1> QED BY <1>1, PageInvHolds, PTL
=============================================================================
