------------------------------ MODULE Dashboard ------------------------------
(* One open dashboard page: the rows it shows, the row it follows, the       *)
(* dialog that blocks it, and the first sync, which it asks for by itself.   *)
(* The page is one thread, but every await lets other handlers run: an       *)
(* answer is as old as its request or newer, and comes in any order or not   *)
(* at all.                                                                   *)
EXTENDS Naturals, FiniteSets

CONSTANTS
  Job,          \* the rows of this user that there may be
  ProviderOf,   \* the portal each of them is for
  MaxFlight,    \* bound: requests to which a timer may add one more
  MaxHandlers,  \* bound: handlers to which a click may add one more
  None

ASSUME DashboardAssumption ==
  /\ None \notin Job /\ DOMAIN ProviderOf = Job
  /\ MaxFlight \in Nat /\ MaxHandlers \in Nat

VARIABLES
  rows,    \* server: the rows that are open, those that are terminal, the ones
           \* for learning, and the providers with a SYNC that succeeded
  page,    \* the state and the refs of DashboardClient
  op,      \* the handlers under way
  flight,  \* the GET requests under way whose answers still count
  letGo    \* history: the page itself let go of the row of the first sync

vars == <<rows, page, op, flight, letGo>>

Provider == {ProviderOf[j] : j \in Job}

\* What the page starts by itself, and the flags that admit one handler each:
\* actionSubmitting, cancelSubmitting, syncQueueCleanupSubmitting,
\* approvalSubmitting and mailSaving.
Slot == {"initial", "action", "cancel", "cleanup", "approval", "mail"}
Idle == [do |-> "none", phase |-> "idle", rows |-> {}, follows |-> FALSE,
         closure |-> FALSE]

\* What the server would answer now: the rows still open, those of them that
\* are in the sync queue, and whether some provider was never synced.
View == [open |-> rows.open, queue |-> rows.open \ rows.auto,
         needs |-> rows.synced # Provider]

\* Types, and that no row is open that has ended: whatever the page asks for, a
\* terminal row is not made again (its id stays terminal).
TypeOK ==
  /\ rows.open \intersect rows.ended = {}
  /\ rows \in [open : SUBSET Job, ended : SUBSET Job, auto : SUBSET Job,
               synced : SUBSET Provider]
  /\ page \in [loading : BOOLEAN, blocking : BOOLEAN, asked : BOOLEAN,
               syncing : BOOLEAN, needs : BOOLEAN, queue : SUBSET Job,
               jobs : SUBSET Job, tracking : Job \union {None},
               cancellable : BOOLEAN]
  /\ op \in [Slot -> [do : {"none", "sync", "learn", "cancelTracked", "cancelSync",
                            "cleanup", "approval", "mail"},
                      phase : {"idle", "sent", "served", "refresh"},
                      rows : SUBSET Job, follows : BOOLEAN, closure : BOOLEAN]]
  /\ flight \subseteq
       [kind : {"bootstrap", "jobs", "status", "detail"},
        by : Slot \union {"page", "poll"}, of : Job \union {None},
        current : BOOLEAN,
        seen : [open : SUBSET Job, queue : SUBSET Job, needs : BOOLEAN]]
  /\ letGo \in BOOLEAN

----------------------------------------------------------------------------
\* The page, the handlers and the requests, as a handler changes them together.
Now == [p |-> page, o |-> op, f |-> flight]

\* As much of a view as the answer to a request holds.
Part(kind, j, v) ==
  [open |-> CASE kind = "detail" -> v.open \intersect {j}
              [] kind = "bootstrap" -> {}
              [] OTHER -> v.open,
   queue |-> IF kind \in {"bootstrap", "status"} THEN v.queue ELSE {},
   needs |-> v.needs /\ kind \in {"bootstrap", "status"}]

Ask(s, kind, by, j) ==
  [s EXCEPT !.f = @ \union {[kind |-> kind, by |-> by, of |-> j, current |-> TRUE,
                             seen |-> Part(kind, j, View)]}]

\* Mutant: a request that was replaced resumes nobody.
OutdatedForAll(s, kind) == [s EXCEPT !.f = {r \in @ : r.kind # kind}]

\* A later request of the kind makes the answers of those before it count for
\* nothing, except to the handler that awaits one.
Outdated(s, kind) ==
  LET old == {r \in s.f : r.kind = kind}
      kept == {r \in old : kind = "detail" \/ r.by \in Slot}
  IN [s EXCEPT !.f = (@ \ old) \union {[r EXCEPT !.current = FALSE] : r \in kept}]

RefreshStatus(s, by) == Ask(s, "status", by, None)
RefreshAll(s, by) ==
  Ask(Ask(Outdated(Outdated(s, "bootstrap"), "jobs"), "bootstrap", by, None),
      "jobs", "page", None)

\* setTrackingJobId: a change ends the loop that polls the row before.
Follow(s, j) ==
  IF s.p.tracking = j THEN s
  ELSE [Outdated(s, "detail") EXCEPT !.p.tracking = j]

\* finally: a handler goes by the bootstrapSyncing it closed over; saveMail does not.
Finally(s, slot) ==
  [s EXCEPT !.p.blocking = @ /\ s.o[slot].closure /\ slot # "mail",
            !.o[slot] = Idle]

----------------------------------------------------------------------------
\* The effects that run after a change of state, in the order of the file.
Pick(s) ==
  IF s.p.tracking # None \/ s.p.jobs = {} THEN {s} ELSE {Follow(s, j) : j \in s.p.jobs}

\* The first sync is asked for once per page, by a handler that was made
\* before bootstrapSyncing was set.
InitialSync(s) ==
  IF s.p.needs /\ ~ s.p.loading /\ s.p.queue = {} /\ ~ s.p.asked
  THEN [s EXCEPT !.p.asked = TRUE, !.p.syncing = TRUE, !.p.blocking = TRUE,
                 !.p.cancellable = FALSE,
                 !.o["initial"] = [Idle EXCEPT !.do = "sync", !.phase = "sent"]]
  ELSE s

\* poll: it asks at once and goes on asking, some seconds after each answer.
\* The wait is part of the next request here.
Polling(s) == \E r \in s.f : r.by = "poll" /\ r.current
StartPoll(s) ==
  IF s.p.tracking = None \/ Polling(s) THEN s ELSE Ask(s, "detail", "poll", s.p.tracking)

Becomes(s) ==
  \E t \in Pick(s) : LET u == StartPoll(InitialSync(t)) IN
    page' = u.p /\ op' = u.o /\ flight' = u.f

Init ==
  /\ rows \in [open : {{}} \union {{j} : j \in Job}, ended : {{}},
               auto : SUBSET Job, synced : {{}, Provider}]
  /\ page = [loading |-> TRUE, blocking |-> TRUE, asked |-> FALSE, syncing |-> FALSE,
             needs |-> FALSE, queue |-> {}, jobs |-> {}, tracking |-> None,
             cancellable |-> FALSE]
  /\ op = [s \in Slot |-> Idle]
  /\ flight = RefreshAll([p |-> page, o |-> op, f |-> {}], "page").f
  /\ letGo = FALSE

----------------------------------------------------------------------------
\* The rest of the system: other pages and the schedule make rows, workers end them.
\* Mutant: a terminal row is taken for one that was never made.
NotOpen(j) ==
  /\ j \notin rows.open
  /\ \A k \in rows.open \ rows.auto : j \notin rows.auto => ProviderOf[k] # ProviderOf[j]

Fresh(j) ==
  /\ j \notin rows.open \union rows.ended
  /\ \A k \in rows.open \ rows.auto : j \notin rows.auto => ProviderOf[k] # ProviderOf[j]

Create(j) ==
  /\ Fresh(j)
  /\ rows' = [rows EXCEPT !.open = @ \union {j}]
  /\ UNCHANGED <<page, op, flight, letGo>>

End(j) ==
  /\ j \in rows.open
  /\ \E done \in {{}, {ProviderOf[j]}} :
       /\ j \in rows.auto => done = {}
       /\ rows' = [rows EXCEPT !.open = @ \ {j}, !.ended = @ \union {j},
                               !.synced = @ \union done]
  /\ UNCHANGED <<page, op, flight, letGo>>

----------------------------------------------------------------------------
\* A handler starts, with its dialog.
Start(slot, do, targets, follows) ==
  /\ op[slot] = Idle
  /\ Cardinality({s \in Slot : op[s] # Idle}) < MaxHandlers
  /\ Becomes([Now EXCEPT
       !.p.blocking = TRUE,
       !.p.cancellable = @ /\ slot # "action",
       !.o[slot] = [do |-> do, phase |-> "sent", rows |-> targets,
                    follows |-> follows, closure |-> page.syncing]])
  /\ UNCHANGED <<rows, letGo>>

\* What a click starts.  The dialog that blocks the page lets none through.
Click(slot, do, targets, follows) ==
  ~ page.blocking /\ Start(slot, do, targets, follows)

RequestSync == Click("action", "sync", {}, FALSE)
RequestLearn == Click("action", "learn", {}, FALSE)
CancelTracked ==
  /\ page.tracking # None /\ page.cancellable
  /\ Click("cancel", "cancelTracked", {page.tracking}, FALSE)
\* Whether the row is the one followed is decided by what the handler closed over.
CancelSync ==
  \E j \in page.jobs \ rows.auto :
    Click("cancel", "cancelSync", {j}, page.tracking = j)
CleanUp == page.queue # {} /\ Click("cleanup", "cleanup", page.queue, FALSE)
Approve == Click("approval", "approval", {}, FALSE)
\* Five seconds after a method without a code was chosen, dialog or not.
AutoConfirm == page.blocking /\ Start("approval", "approval", {}, FALSE)
SaveMail == Click("mail", "mail", {}, FALSE)

\* The server serves the request of a handler; of the rows to clean up it may
\* fail to cancel some.  A confirmed approval names the row that learns.
Requested(s, j) ==
  /\ CASE op[s].do = "sync" -> j \notin rows.auto /\ (j \in rows.open \/ Fresh(j))
       [] op[s].do = "learn" -> j \in rows.auto /\ (j \in rows.open \/ Fresh(j))
       [] op[s].do = "approval" -> j \in rows.auto \intersect rows.open
       [] OTHER -> FALSE
  /\ rows' = [rows EXCEPT !.open = @ \union {j}]
  /\ op' = [op EXCEPT ![s].phase = "served", ![s].rows = {j}]

Cancelled(s, gone) ==
  /\ op[s].do \in {"cancelTracked", "cancelSync", "cleanup"}
  /\ op[s].do # "cleanup" => gone = op[s].rows
  /\ rows' = [rows EXCEPT !.open = @ \ gone, !.ended = @ \union gone]
  /\ op' = [op EXCEPT ![s].phase = "served"]

\* No row: settings, an approval, or a sync with a portal the account is not in.
Saved(s) ==
  /\ op[s].do \in {"approval", "mail"} \/ (s = "action" /\ op[s].do = "sync")
  /\ op' = [op EXCEPT ![s].phase = "served"]
  /\ UNCHANGED rows

ServePost(s) ==
  /\ op[s].phase = "sent"
  /\ \/ \E j \in Job : Requested(s, j)
     \/ \E gone \in SUBSET op[s].rows : Cancelled(s, gone)
     \/ Saved(s)
  /\ UNCHANGED <<page, flight, letGo>>

\* The handler goes on with the answer, and awaits a refresh of the page.
PostAnswered(s) ==
  /\ op[s].phase = "served"
  /\ LET do == op[s].do
         drops == do = "cancelSync" /\ op[s].follows
         t == [Now EXCEPT !.o[s].phase = "refresh", !.o[s].rows = {}]
         followed == IF do \in {"sync", "learn", "approval"} /\ op[s].rows # {}
                     THEN Follow(t, CHOOSE j \in op[s].rows : TRUE)
                     ELSE IF drops
                     THEN [Follow(t, None) EXCEPT !.p.cancellable = FALSE] ELSE t
     IN /\ Becomes(IF do \in {"cancelSync", "mail"} THEN RefreshAll(followed, s)
                   ELSE RefreshStatus(followed, s))
        /\ letGo' = (letGo \/ (drops /\ page.syncing))
  /\ UNCHANGED rows

\* Mutant: the catch of runAction leaves bootstrapSyncing alone.
FailedQuietly(s) ==
  /\ op[s].phase \in {"sent", "served"} /\ op[s].do # "cleanup"
  /\ Becomes(Finally(Now, s))
  /\ UNCHANGED <<rows, letGo>>

\* The request or its answer is lost, or the server refuses.
PostFailed(s) ==
  /\ op[s].phase \in {"sent", "served"} /\ op[s].do # "cleanup"
  /\ Becomes(Finally([Now EXCEPT !.p.syncing = @ /\ op[s].do \notin {"sync", "learn"}], s))
  /\ UNCHANGED <<rows, letGo>>

----------------------------------------------------------------------------
\* The timer for the status runs whatever else happens; one request of
\* it at a time is modelled.
StatusTimer ==
  /\ Cardinality(flight) < MaxFlight
  /\ \A r \in flight : r.kind = "status" => r.by # "page"
  /\ Becomes(RefreshStatus(Now, "page")) /\ UNCHANGED <<rows, letGo>>

----------------------------------------------------------------------------
\* Answers to GET requests.
Taken(r) == [Now EXCEPT !.f = @ \ {r}]

\* Whoever awaited the request goes on.
Resume(s, r) == IF r.by \in Slot THEN Finally(s, r.by) ELSE s

StatusAnswered(r, v) ==
  Becomes(Resume([Taken(r) EXCEPT !.p.needs = v.needs, !.p.queue = v.queue,
                                  !.p.jobs = v.open], r))

JobsAnswered(r, v) == Becomes([Taken(r) EXCEPT !.p.jobs = v.open])

Loaded(s) == [s EXCEPT !.p.loading = FALSE, !.p.blocking = @ /\ s.p.syncing]

BootstrapAnswered(r, v) ==
  Becomes(Resume(IF r.current
                 THEN Loaded([Taken(r) EXCEPT !.p.needs = v.needs, !.p.queue = v.queue])
                 ELSE Taken(r), r))

\* poll: a loop that was stopped still handles the answer it waits for.
DetailAnswered(r, v) ==
  LET over == r.of \notin v.open
      s == [Taken(r) EXCEPT !.p.cancellable = ~ over]
  IN Becomes(
       IF over
       THEN RefreshAll([Follow(s, None) EXCEPT !.p.syncing = FALSE, !.p.blocking = FALSE],
                       "page")
       ELSE s)

Answered(r, v) ==
  /\ CASE r.kind = "status" -> StatusAnswered(r, v)
       [] r.kind = "jobs" -> JobsAnswered(r, v)
       [] r.kind = "bootstrap" -> BootstrapAnswered(r, v)
       [] r.kind = "detail" -> DetailAnswered(r, v)
  /\ UNCHANGED <<rows, letGo>>

\* The parts of a status are optional: what cannot be read comes as empty, and
\* a summary that cannot be read asks for no sync.
Views(r) ==
  LET v == Part(r.kind, r.of, View) IN
  {r.seen, v} \union
    (IF r.kind \in {"status", "bootstrap"}
     THEN {[v EXCEPT !.open = {}], [v EXCEPT !.queue = {}], [v EXCEPT !.needs = FALSE]}
     ELSE {})

GetAnswered(r) == \E v \in Views(r) : Answered(r, v)

\* Mutant: a page that could not be loaded keeps its dialog.
FailedOpen(r) ==
  /\ \/ r.kind = "status" /\ Becomes(Resume(Taken(r), r))
     \/ r.kind \in {"bootstrap", "jobs", "detail"} /\ Becomes(Taken(r))
  /\ UNCHANGED <<rows, letGo>>

\* A request fails.  A failure of a poll may be the third in a row, after which
\* it asks for the status first.
GetFailed(r) ==
  /\ \/ r.kind = "status" /\ Becomes(Resume(Taken(r), r))
     \/ r.kind = "jobs" /\ Becomes(Taken(r))
     \/ /\ r.kind = "bootstrap"
        /\ Becomes(Resume(IF r.current THEN Loaded(Taken(r)) ELSE Taken(r), r))
     \/ r.kind = "detail" /\ Becomes(Taken(r))
     \/ r.kind = "detail" /\ Becomes(Ask(Taken(r), "status", "poll", None))
  /\ UNCHANGED <<rows, letGo>>

Next ==
  \/ \E j \in Job : Create(j) \/ End(j)
  \/ RequestSync \/ RequestLearn \/ CancelTracked \/ CancelSync \/ CleanUp
  \/ Approve \/ AutoConfirm \/ SaveMail
  \/ \E s \in Slot : ServePost(s) \/ PostAnswered(s) \/ PostFailed(s)
  \/ StatusTimer
  \/ \E r \in flight : GetAnswered(r) \/ GetFailed(r)

Spec == Init /\ [][Next]_vars

----------------------------------------------------------------------------
\* A page that is blocked has something under way that will unblock it: it
\* follows a row, whose end clears the dialog, or waits for its data, or for a
\* handler that will clear the dialog.  The one exception is a page that
\* let go of the row of the first sync: it still believes to be syncing, so no
\* handler clears the dialog that it opens.
BlockedForAReason ==
  page.blocking /\ ~ letGo =>
    \/ page.tracking # None
    \/ \E r \in flight : r.kind = "bootstrap" /\ r.current /\ ~ page.syncing
    \/ \E s \in Slot : op[s] # Idle /\ (~ op[s].closure \/ s = "mail")

\* A page that believes the first sync to be under way has asked for it and
\* waits for the answer, or follows a row, whose end tells it otherwise.
SyncingForAReason ==
  page.syncing /\ ~ letGo => op["initial"] # Idle \/ page.tracking # None

\* A handler that awaits a refresh is resumed by one answer: there is exactly
\* one request under way for it, although requests are replaced meanwhile, and
\* none for a handler that awaits nothing, which it would end too early.
OneAnswerEach ==
  \A x \in Slot :
    IF op[x].phase = "refresh"
    THEN \E r \in flight : \A q \in flight : q.by = x <=> q = r
    ELSE \A q \in flight : q.by # x
=============================================================================
