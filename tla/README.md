# cu12: a TLA+ model of its job queue, its workers, its access control and its pages

cu12 keeps a student's course data of two learning portals (CU12 and Cyber
Campus) in sync, plays lectures for them ("AUTOLEARN") and mails digests.  A
Next.js application takes requests and owns the database; workers are GitHub
Actions runs that claim jobs over HTTP.  This directory holds TLA+ modules of
the parts of it that coordinate concurrent actors, the TLC configurations that
check them on small instances, and TLAPS proofs of their safety for instances
of every size.

## Inventory

| Component | State | Operations | Interacts with | What is hard |
|---|---|---|---|---|
| Job queue (`apps/web/src/server/queue.ts`, `packages/core/src/job-dedupe.ts`) | `JobQueue` rows: status, active key, owner, attempts, runAfter; `WorkerHeartbeat` rows | enqueue, claim, reclaim, succeed (with continuation), fail (with retry), progress, cancel, admin retry | every component below | claims of many workers interleave at statement granularity; the unique key must follow the status through eight writers |
| Worker loop (`apps/worker/src/index.ts`, `internal-api.ts`) | the job in hand, its heartbeat timer | claim, status check, run, report, hand off, exit | queue over HTTP with retries | requests and responses are lost; the process dies; a status is checked long before it is used |
| Dispatch (`github-actions-dispatch.ts`, `manual-dispatch-policy.ts`, `sync-job-dispatch.ts`, worker `queue-dispatch.ts`) | none of its own: counts workflow runs, reads rows | count, choose users, start runs | GitHub, queue | check and dispatch are not atomic; capacity; lost wake-ups |
| Reconcile (`jobs-reconcile.ts`) | none: compares rows and runs | compare, repair | GitHub, queue | two reads at different times, then writes |
| Cyber Campus approval (`cyber-campus-autolearn.ts`, `portal-session-store.ts`, worker `cyber-campus-approval.ts`) | approval session, portal session, BLOCKED row, approval worker | request, start, confirm, cancel, expire, verify, claim the continuation | queue, dispatch, portal | user, worker and clock race on one session; multi-step writes without transactions |
| Login and consent (`auth/login`, `auth/consent`, `auth-state-cache.ts`, `auth-rate-limit.ts`) | per-process cache, throttle counters | login, consent | members, policy, portal | cache entries filled by loads in flight; counters checked before and updated after a slow call |
| Browser session (`auth.ts`, `http.ts`, `session-cookie.ts`, `session-activity-guard.tsx`, `auth/session/refresh`, `auth/logout`, `admin/impersonation`) | cookies, local storage, the guard of each tab | log in, be active, refresh, extend, expire, log out, impersonate | login, the server's `requireAuthContext` | answers set cookies when they arrive, whoever is logged in then; tabs share storage and hear of each other later |
| Dashboard page (`dashboard-client.tsx`, `api/dashboard/*`, `api/jobs/*`) | what the page shows and follows, a blocking dialog, requests under way | first sync, actions, cancels, polls, approval, mail settings | queue over HTTP | handlers await and go on with what they closed over; answers arrive late and out of order |
| Policy (`policy.ts`) | policy versions, consents | publish, consent | login | a version published while the user consents |
| Members (`admin/members`, `cu12-account.ts`, `member-approval.ts`) | account flags, portal account, withdrawal | approve, edit, withdraw, connect | login, queue | check-then-act between login and withdrawal |
| Snapshot store (`sync-store.ts`, `course-roster.ts`) | courses, tasks, notices | replace the snapshot | worker, dashboard | partial collections must not delete |
| Lectures (`cu12-automation.ts`, `cyber-campus-sync.ts`, `index.ts`) | a plan, the portal's progress, the row's payload | plan, play, answer, verify, refresh, report, mail | queue, portal, snapshot | the portal does not record what was played; rows are cut, retried and continued |
| Parsers | none | read pages | portals | text extraction |
| Mail, site notices, retention, scripts | logs | send, read, delete | - | - |

## Plan

1. `JobQueue` with its abstract specification `SerialSlots`: the core. *Done.*
2. `WorkflowRuns`, composed with `Reconcile` and with `Dispatch`: how rows get
   runs and how lost runs are found. *Done, and the safety of both proved.*
3. `ApprovalRows`, `ApprovalWorker` and `Approval`: the approval session of
   Cyber Campus, its BLOCKED row, the approval runs and the requests. *Done, and
   its safety proved.*
4. `Snapshot`: collections of a provider and the tables they replace. *Done, and
   its safety proved.*
5. `Learning`: what an AUTOLEARN request promises across rows. *Done, and its
   safety proved.*
6. `Members` and `Access`: approval, login, consent, withdrawal and the auth
   state cache. *Done, and its safety proved.*
7. `Dashboard`: the page that follows jobs and blocks itself. *Done, and its
   safety proved.*
8. `Sessions`: the cookies, tabs and guards of one browser. *Done, and its safety
   proved.*

Later: an abstract specification of one continuation (approve, play, end) and
the refinement of `Approval`; the refinement of a row of `Learning` by those of
`JobQueue`; the throttle of logins; a `Dispatch` in which GitHub creates a run
some time after it accepted the request.

## Modules

| Module | Models | Composes |
|---|---|---|
| `JobQueue` | the rows of `JobQueue` and `WorkerHeartbeat`, every writer of status, key, owner and attempts, and the workers' claims and reports | implements `SerialSlots` twice |
| `SerialSlots` | what a user is promised: a slot that occupants enter when it is free | - |
| `WorkflowRuns` | GitHub runs of the one-shot worker and the rows they take | - |
| `Reconcile` | the reconcile check and its workflow | extends `WorkflowRuns` |
| `Dispatch` | calls of `dispatchWorkerRun` and who makes them | extends `WorkflowRuns` |
| `ApprovalRows` | the approval session and its BLOCKED row, the writes both sides share, the clock, the queue's own writes | - |
| `ApprovalWorker` | approval runs: probe, methods, loop, claim of the continuation | extends `ApprovalRows` |
| `Approval` | the requests, polls and user operations of the web application, and the whole | extends `ApprovalWorker` |
| `Snapshot` | one provider of one user: portal, collecting and persisting jobs, marks, alerts, checkpoint | - |
| `Learning` | one AUTOLEARN request: plan, chunks, playback, verification, retries and the chain of rows | - |
| `Members` | the rows of one person, administrators, retention, the cached answer about a user | - |
| `Access` | logins, consent and publications | extends `Members` |
| `Dashboard` | one dashboard page: what it shows, its handlers and its requests | - |
| `Sessions` | one browser: cookies, storage, tabs with their guards, answers under way | - |
| `MCJobQueue`, `MCReconcile`, `MCDispatch`, `MCApproval`, `MCSnapshot`, `MCLearning`, `MCAccess`, `MCDashboard`, `MCSessions` | the small instances | extend the above |
| `JobQueueProofs`, `RunsProofs`, `ApprovalProofs`, `SnapshotProofs`, `LearningProofs`, `AccessProofs`, `DashboardProofs`, `SessionsProofs` | theorems and proofs; `RunsProofs` is about `Dispatch` and `Reconcile` together | extend the above |

### JobQueue

State: `jobs[j]` is the j-th inserted row (`logical` stands for user, type and
idempotency key; `active` is `activeDedupeKey`), `account` what the queue reads
of a user, `hb` the heartbeat rows, `alive` and `holds` the worker processes and
the job each works on, `call` the claim request of a worker inside the server,
`retrying` the job an admin retry has read.

A claim is not one step: `claimNextJob` first reclaims the rows of stale
workers, then scans the types in priority order, tries candidates one at a time
in transactions of their own, and, for AUTOLEARN, counts the user's RUNNING
siblings *after* it took the row, and puts the row back on a conflict. Each of
these statements or transactions is an action (`ClaimBegin`, `Reclaim`,
`ReclaimDone`, `ClaimScan`, `ClaimSkip`, `ClaimTake`, `ClaimError`, `ClaimCheck`,
`ClaimRequeue`, `ClaimReturn`), and other claims, cancels, retries and reports
come in between. What one transaction does is one action: `FinishJob` with the
continuation row of an AUTOLEARN chain, `FailJob` with the retry row,
`CancelJob`. `retryJob` reads in `RetryRead` and writes by id in `RetryWrite`.
The response of a claim may be lost (`ClaimLost`), a heartbeat may age while its
worker works (`HeartbeatLapse`), a worker may die anywhere (`WorkerExit`).

Abstracted: wall-clock time (a row is `due` or not, a heartbeat fresh or stale),
the payload, the result column with the progress reports, audit logs. BLOCKED
rows are in the states but not created here: `Approval` creates them.

### WorkflowRuns, Reconcile, Dispatch

The queue is reduced to one row per logical job: `row[j]` is missing, waiting
for `runAfter`, pending or running for a run; `fifo` is the order of
`createdAt`. `run[r]` is the life of a workflow run: queued, polling for a job,
working on one, leaving (its work is over, GitHub still counts it), completed.
A sync run serves its preferred user first and then everybody; since a batch
ends after ten jobs or ten minutes, whichever is first, it may leave after any
job. A retry that is near is waited for. `RunDie` ends a run anywhere.

`Reconcile` adds the health check: GET reads the RUNNING rows, then the first
page of runs; if a row's run is missing, POST reads both again and repairs each
orphan whose row is still as read; a last GET verifies. `Page` stands for
GitHub's 100 runs per page, of any status and the newest first: a run that a
page of newer ones hides (`OffPage`) counts as lost although it may be alive.

`Dispatch` adds the calls of `dispatchWorkerRun`: count the active runs (two
lists stand for the five statuses: those before a run starts and
`in_progress`), choose users, then for each look again for a due row and ask
GitHub for a run. Calls are made by requests, by the schedules, by a leaving
autolearn run, and by the handoff workflow, which any completion of a run
triggers. A repair is one atomic step here, guarded by the run being completed
or off the page (`Unlisted`): that this guard is justified, and that the check
changes rows in no other way, is proved (`RepairsAsInDispatch`). Only the repair
of a row whose run is over is fair. In `Reconcile`, in turn, runs are created at
any time, which covers whatever `Dispatch` does. The names of the variables'
tuple, `Init`, `Next` and `Spec` of `Reconcile` begin with `Check`, since
`RunsProofs` extends it beside `Dispatch`.

Abstracted: GitHub creates a run in the same step as it accepts the request (in
reality a little later, which makes the capacity check weaker still); a re-run
by hand, which keeps the run id with a new attempt number, is left out; rows
with a worker id that names no run (local development) are not created; the last
step of a repair cancels retries of Cyber Campus jobs, and no job here is one;
the direct dispatch of approval workers and mail digests is left out, and so are
the accounts that `JobQueue` covers.

### ApprovalRows, ApprovalWorker, Approval

An AUTOLEARN request for Cyber Campus does not go into the queue: it makes a
`JobQueue` row in state BLOCKED and a `PortalApprovalSession`, and starts a
workflow run for that session. The run opens a browser, finds out whether the
portal wants a second factor, publishes the methods, waits for the user to start
and confirm one, and then claims the BLOCKED row and plays it in the same
browser. User, runs, dashboard, clock and administrator all write the same two
rows; only the WHERE clauses of single statements order them.

`job[s]` and `session[s]` are the row and the session of the s-th request that
created any. A session's `action` is `requestedAction`; `auth` says how far
methods, selection and `authSeq` are filled in, `code` whether the selected
method needs a code; `lease` is the worker's heartbeat; `bound` is the only
thing the code asks of `runtimeState` (whether a new browser could go on);
`late` means that `expiresAt` has passed. `run[p].pc` is the statement a run
takes next, `call[c].pc` that of an HTTP request. What a process read and uses
later is in its record: the action, the selection and the method that a run
publishes or proves; that the worker was alive, and the method to select, in a
request. Heartbeats (`Beat`) come at any time while a lease is held, and keep
repeating the run's own view of the runtime state.

A run is dispatched when a request creates a session and again when a start or a
confirmation finds no fresh heartbeat, so several runs can work on one session
(`StartRun` takes the next free run, or GitHub refuses). A run that is killed
simply takes no more steps. "Newest session" is left open: when a race made two,
either may be it. `PENDING` stands for whatever the queue does with a row; what
`QueueRetry`, `QueueCancel` and `QueueEnds` do is detailed in `JobQueue`.

Abstracted: cookies, codes and texts, and with them the saved `PortalSession`,
a copy that is read but decides nothing here; `pendingCode`, which is written
together with the action and the selection and so is there exactly when a
confirmation of a method with a code is asked for (the worker's branch for a
missing code, `cyber-campus-approval.ts:1067`, is therefore not reached).

### Snapshot

A job that collects a provider reads the portal page by page (`CollectRoster`,
`CollectCourse`, `CollectActivity`), while the portal changes (`PortalMoves`),
then reads the rows that exist (`ReadNotice`, `ReadExisting`) and writes
statement by statement: courses, the end of courses no longer listed (only after
an authoritative roster), notices with the merge of rows that share a
fingerprint, notifications and messages, tasks, deadline alerts and the mail
about them, and last the checkpoint of `sync-completion.ts`. The queue lets one
SYNC or NOTICE_SCAN of a user run at a time, but an AUTOLEARN job persists
beside it, so two workers are in `snapshot`. The user's marks (`MarkNotices`,
`ReadItems`/`MarkItems`, `DeleteItems`) come in between. A key is what a parser
identifies a notice by; `NoticeOf` says which keys mean the same notice, and
the keys in `Sequenced` carry its number. `settled` remembers the marks made
while no job was saving: a mark made during a save may be lost (see below).
`contested` remembers the notices whose rows two jobs merged at a time while no
sequence number decided which row to keep (`Ranked`), for then either job may
delete what the other keeps; it is forgotten when the notice is marked while
nobody saves. Both are history.

### Learning

One request with its `mode` on one provider, from its first row to the mail.
`Plans`, `Chunk` and `CyberChunk` are the planning rules as operators on
sequences (`Plans` leaves the order of equal tasks open); `Play` and `Answer` say what the
portal records, which it may not do for the tasks in `Unrecorded`; `Reclaim`,
`Fail`, `Die` and `Report` end a row as `queue.ts` does, and a CU12 row that was
cut continues in a next row with the time added up in its payload
(`ChainElapsed`). For Cyber Campus there is no retry and no continuation. Seconds
are a small unit: `Target`, `ChainMax` and the lengths keep their order and
proportions.

`session` is the portal session, which Cyber Campus stores between runs and into
which CU12 logs in for each run (`PlanCu12`). A Cyber Campus run ensures the
stored one (`EnsureSession`), replaces it by a login when it lists nothing, and
then may be given the cookies of the approval back, which may be the ones that
listed nothing (`PlanCyber`, `Restored`). The session may also lapse, to one that
lists nothing (`hollow`) or asks for a login (`dead`), under a run
(`SessionLapses`). A task is verified as the code does it: it counts as
completed when the list of pending tasks does not have it (`PendingList`,
`NotConfirmed`, `TaskDone`), and a session that is not good lists nothing. A
lapse between a login and the reading of its list is not modelled apart from the
stored session that is hollow from the start.

The end of a row is three calls: the status is read (`ReportNothing`,
`CheckStatus`), the result is reported (`Report`, or `ReportTerminal` for a row
that was canceled meanwhile), and the result is mailed.

### Members, Access

`row[u]` is a user row of one person: its approval, whether it is active,
withdrawn, and whether it holds the portal id as its unique e-mail; `account`
says whose the person's unique `Cu12Account` is. A row's life ends with the
retention job; a withdrawn person may get a new one, so `User` has two.
Administrators' handlers are a read, a write and an invalidation (`AdminRead`;
`AdminDecide`, `AdminPatch`, `AdminWithdraw` with `AdminCleanup`;
`AdminForget`), the first and the last in any web process; enrolment looks for
account and e-mail first and links the account in two more steps. A `load` is
a database read under way for the auth-state cache of a process: it stores its
answer even if the entry was invalidated meanwhile. `Tick` is the clock of the
caches.

A login waits for the portal, finds the row, approves a pending one
(`AutoApprove`, conditional), reads it again, decides, links the account, and
either gets its session (`CheckConsent`) or is asked to consent to a page of
versions; `auth/consent` comes back with the token of that login. Its `page` and
`start` are the versions it showed and those published when it began. `byAdmin`
(an administrator decided last, since the last withdrawal if there was one) and `since` (who was admissible during the call) are history.

Left out: administrators' and test users' logins, the throttle (a throttled
call is one not made), the jobs that a withdrawal cancels. What becomes of a
session once it is there is `Sessions`.

### Dashboard

One page of one user. `rows` is the server's: the user's open and terminal
rows, which of them are for learning, and the providers that were synced
once. `page` holds the React state and refs that steer it: `blocking` is
`blockingMessage`, `syncing` `bootstrapSyncing`, `asked` the ref that admits one
first sync, `tracking` the job it polls. `op` has a handler for each flag that
admits one (`actionSubmitting`, `cancelSubmitting`, ...), with the phase of its
request and the `bootstrapSyncing` it closed over (`closure`); `flight` the GET
requests, of which a later one makes the earlier `current` no more
(`isCurrentRequest`).

Handlers run to their next await: a click (`Start`), the server's write
(`ServePost`), the answer (`PostAnswered`), the awaited refresh
(`StatusAnswered`, `BootstrapAnswered`) with the `finally` (`Finally`). After
every state change the effects run in the order of the file: `Pick` follows an
open job, `InitialSync` asks for the first sync, `StartPoll` polls. An answer
shows the rows as they were when it was asked for or as they are when it comes,
possibly without the parts that the server could not read (`Views`). `letGo`
is history: `cancelActiveSyncJob` let go of the first sync itself.

Left out: what is displayed, the admin pages, `trackingDetail`, the seconds
between polls (the wait is part of the next request), a tab that the browser
freezes or closes, and a second timer for the status while one is under way.

### Sessions

Time is counted in refresh intervals and kept as ages up to `Timeout`, so no
clock needs a bound; `Tick` ages everything. `cookie` holds the session, the
idle token with the time that is left and the member an administrator looks
after; `storage` what tabs share; `tab[t]` a page with the refs of its guard (the
age of the last activity, whether a refresh is `due`, whether it has expired the
session (`out`), the click that an extension awaits). `pending[t]` holds an
answer for each of three callers: the guard's refresh, of which a new one aborts
the old, the page's calls and its logout. A request is judged with the cookies
at its sending; what its answer sets is set at its arrival (`RefreshAnswered`,
`LoggedIn`, `Impersonated`, `LogoutAnswered`). `Leave`, `RunOut` (a cookie's
maximum age) and `CheckIdle` end a session. `seen`, `chosen`, `handled` and
`setBack` are history for the properties. `setBack` holds from an extension that
stores an older activity over a younger one to the next activity or login. The
storage events of the other tabs are part of the step that writes (`SetActive`):
a browser delivers them within a fraction of a second and the unit of time is
two minutes, so a delay of theirs cannot be told from an activity a moment later.

## What the runs check

| Run | Instance | Shows |
|---|---|---|
| `learn` | one user, two AUTOLEARN jobs of which one continues the other, two workers whose heartbeats lapse or are purged by an operator, an admin who retries, two rows, one claim per row | key discipline, one RUNNING row per logical job, refinement of `SerialSlots` |
| `live` | a SYNC and a NOTICE_SCAN of one user, two claims per row, an account that becomes a test account; one worker may die or lose responses, the other does not | refinement of `SerialSlots`; liveness: rows of dead workers are taken over, waiting rows are served |
| `reconcile` | a sync and an autolearn job, two runs that lapse and die, pages of one run, failing reads | repairs take rows only from runs that are over or hidden by newer ones; orphans are repaired |
| `dispatch` | a sync and an autolearn job of one user, capacity one, two runs that may die, pages of one run, failing calls, one handoff at a time | a due sync row is never forgotten between two schedules; liveness: due rows are served |
| `approval` | one session, one run, methods with and without a code, all user operations, admin retries | terminal sessions stay scrubbed; no BLOCKED row is left behind; liveness: requested actions are taken up |
| `approval_runs` | one session, two runs, start, confirm and cancel | no action without its method, one run plays the row |
| `snapshot` | a sync and an autolearn job that persist; portals with a notice under two keys, an item, or a course with a task; one failure | the checkpoint covers what it names; ended courses stay ended only on good grounds; one mail per deadline; marks survive; liveness: rows become what the portal shows |
| `learning` | four tasks in two courses, two task lists, all modes, both providers, one fault | what a result says is true unless a session lapsed under a run; the chain stays within its cap; one mail; liveness: the chain ends |
| `access` | one person with two rows, two processes, four mixes of two logins, two administrators, two publications and requests | only approved are active; no session for the refused; sessions have their consents; liveness: caches converge, the withdrawn are forgotten |
| `dashboard` | one row of one portal, whose first sync may be missing; the first sync and one handler beside each other, one timer request at a time | a blocked page has something under way that unblocks it; a page that believes to be syncing follows the sync; a handler is resumed by one answer |
| `sessions` | two tabs, a user and an administrator of one member, a timeout of two intervals, one call at a time beside the guards' | an accepted session was used within the timeout; impersonation was chosen; no guard ends a session in use |
| `resurrection` | two AUTOLEARN rows, two workers and a cancel | expected violation, see below |

Two rows are enough for the safety of the queue because each property relates
two rows, and a third worker or row only repeats the role of one of the two; the
proofs remove the bound. `AttemptCap` (claims per row) is two in `live`, where a
row is claimed, lost and claimed again, and one in `learn`, where two workers
claim different rows of one user; further claims are covered by the proofs.
`MaxRuns` of two lets a run die and its row be
taken by a second; with `Page` of one the second hides the first, so both an
orphan that is listed as over and a live run that is not listed occur;
`created = MaxRuns` is
therefore an excuse in `DueRowsServed`, and `missed` covers it in
`SyncRowsLookedAfter` (a request refused for the bound counts as a GitHub
failure). For approvals, each run widens
one thing and the proofs all of them: `approval_runs` has the second run,
`approval` all operations and both kinds of methods, where liveness can be
checked; two rows of one lecture and two requests at a time are covered by the
proofs of `OnePlaysAtATime` and `BlockedRowsAreAttended`. One open dispatch call
at a time is checked.

In `dashboard` a second row multiplies the answers that may be under way beyond
what TLC can finish, and the hazards need none: one row can be the one followed,
the one of the first sync, and one that another page ended. `DashboardProofs` has
any number of rows, portals, timers and handlers. In `sessions` two tabs are
what it takes for one to be active while the other's guard looks; a timeout of
two intervals tells a session that was just refreshed, one that may be, and one
that is over.

In `snapshot` the portals are explored one after the other, because courses,
items and tasks meet only in the job that saves them; two keys of one notice are
what a merge needs, and among equal keys the order of preference is left open. One of
the two keys has the sequence number, so `contested` stays empty in the run.
With `Sequenced = {}` merges are contested, and every property of the run
(`RowsConverge` too) holds on the portal of one course with two keys of one
notice (1.4 million states, longer than a run should take); the proofs cover
every `Sequenced`.
In `learning` one task list has a VOD longer than what a chunk has left behind a
VOD without a duration, the other the reverse; `Reading` bounds what a material
or quiz takes, one fault is enough to make a row retry and one more cut it. In
`access` each element of `Plans` combines the calls that meet: two logins with a
decision, two administrators, publications during a login, and requests that
fill caches during both; all four start from nobody, an applicant or a member,
and `AccessProofs` proves the four safety properties for every plan. A TTL of
one tick lets an entry live and expire.

Deadlock is checked in `reconcile`, `dispatch`, `dashboard` and `sessions`, where
something can always happen. The other runs switch it off: their rows, claims,
requests, failures or logins are bounded, and when all are used up and every job
has ended, the instance rightly stops.

### Fairness, and why the code justifies it

- Time passes: `runAfter` is reached, the heartbeat of a dead worker ages.
- A server request that was received is worked off, statement by statement.
- A worker that lives reports what it runs, and workers outside `MayCrash` keep
  polling (`main` loops until its deadline, and new runs are dispatched). A
  single worker outside `MayLose` has its responses delivered.
- The schedules fire, and now and then find a free call (strong fairness: cron
  fires infinitely often, whatever else uses the web application).
- A run leaves at some time although jobs keep coming: a batch ends after ten
  minutes, and an autolearn job has a limited number of attempts.
- In `Reconcile` GitHub answers infinitely often in each phase of the check; it
  may fail as often in between.
- For approvals: a run that is not killed goes on, as the portal answers or its
  page times out; an accepted request is worked off; the dashboard polls while
  an approval is open (the client's interval), and `expiresAt` is reached.
  Heartbeats and users are free.
- In `Snapshot` and `Learning` a worker that is not killed goes on, a row is
  claimed again after a crash or an error (`JobQueue`), and a schedule forces a
  full sync when the checkpoint is old.
- In `Access` a call that was received goes on or dies with its process,
  database reads end, the clock ticks, and the retention workflow runs daily
  (cron `10 1 * * *`). Nobody has to log in.
- Users, operators, deaths, lapses, handoffs and reclaims are never fair.

### Disagreements between code and documents

`resurrection`: the conflict requeue of an AUTOLEARN claim writes by id: it
brings a row back that was canceled meanwhile, without its key.

Seen while modelling, without a run of their own:

- The claim of a Cyber Campus continuation
  (`claimBlockedAutoLearnContinuationJob`, `cyber-campus-approval.ts:686`,
  `cyber-campus-autolearn.ts:365`) does not look at the user's other RUNNING
  AUTOLEARN rows, so two lectures of a user may be played at once, against
  docs/07:26.
- Two overlapping persists that see different bodies or dates of a notice under
  two keys may each prefer the other's keeper and delete it
  (`sync-store.ts:131-171`, `256-285`): the notice's rows are gone, with the
  mark. With a sequence number under one of the keys the keeper does not depend
  on what was seen. `NoticeMarksKept` and `CheckpointCovers` except the notices
  to which this can have happened (`contested`).
- A lecture, material or quiz counts as completed when the portal's list of
  pending tasks does not have it (`cyber-campus-sync.ts:1651-1654`,
  `cu12-automation.ts:1412-1421`). The list of a session that lapsed under the
  run is empty and confirms anything, and so is that of approval cookies that are
  restored although they list nothing. `ProcessedAreDone` excepts such chains
  (`blind`).
- A row that is canceled between the worker's look at its status and its report
  (`index.ts:1267`, `1272`) is answered as a success without a continuation
  (`queue.ts:846`), and the worker mails a result for a canceled request.
  `OneResultMail` allows for it.
- On the dashboard: the first sync's dialog may be closed by the `finally` of the
  handler that ran before it (`dashboard-client.tsx:1831`); a canceled first sync
  leaves `bootstrapSyncing` set, so that no later handler closes its own dialog
  until a followed job ends (`:1982`, the exception `letGo`); the answer to a
  stopped poll may clear the row that is followed by then (`:1657`); an account
  without a CU12 campus has a first sync missing for ever.
- In a browser: a refresh or logout that is answered after a new login overwrites
  its cookies; the `finally` of an expiry rewrites the expired state after a new
  login (`session-activity-guard.tsx:120`); `extendSession` stores the time of
  its click after it awaited (`:173`), over younger activity of other tabs
  (the exception `setBack` of `NoEarlyTimeout`, until the next activity or login).
- The reconcile check reads one page of runs of any status
  (`jobs-reconcile.ts:316`); a long run with many newer ones counts as lost and
  its row is taken, against `docs/07-concurrency-cost-strategy.md:58`.
  `RepairSparesLiveRuns` excepts runs that a page of newer ones hides.
- The merge of notices that share a fingerprint reads their marks, writes them
  to the keeper and deletes the rest (`sync-store.ts:270`); a mark made in
  between is lost (docs/03:68 promises that marks survive). `NoticeMarksKept`
  speaks of marks made while nobody saves.
- A VOD without a duration is counted as a second but takes none
  (`cu12-automation.ts:1367`): in front of one that does not fit beside it, a
  chain goes on for ever without coming nearer to its cap (`queue.ts:861`; docs/07:32,
  docs/11:35). `ChainEnds` names the exception (`NoTimeCounted`).
- An approval that read the member before a withdrawal writes after it
  (`members/[userId]/approval/route.ts:46`): the withdrawn row is active, and
  the retention job, which deletes *inactive* withdrawn users (docs/03:114),
  never takes it. An enrolment that looked the person up before the withdrawal
  does the same, for it updates by id too (`members/route.ts:289`).
  `WithdrawnForgotten` excuses what an administrator wrote after the withdrawal
  (`byAdmin`).
- A login under way writes e-mail and account over a row that was withdrawn
  meanwhile (`auth/login/route.ts:676`, docs/03:104-110): the anonymized row has
  the portal id again, and the person's next login finds it and is refused
  until the row is deleted.
- A cancel frees the user's slot in the table while the worker still collects
  until its next poll, so two workers may collect for one user
  (`queue.ts:1123`).
- Reclaims and conflict requeues do not look at the attempts (`queue.ts:334`),
  so a row whose workers keep dying is claimed more than four times.
- An admin retry checks, then writes by id (`queue.ts:1194`): it can take a row
  from the worker that claimed it in between.
- A progress report is checked in one statement and written in another
  (`queue.ts:977`), so a late one may overwrite a final result.
- A claim looks at the oldest `CLAIM_SCAN_LIMIT` candidates of a type
  (`queue.ts:457`); as many that are refused hide the rest.
- Runs are counted list by list (`github-actions-dispatch.ts:181`); a run that
  moves between the lists is missed, and the maximum can be exceeded. Capacity is
  checked once per call and used for all its runs (`:432`).
- A workflow run that is re-run by hand keeps its id with a new attempt
  (`worker-consume.yml:92`), so the row of the first attempt looks alive.
- A request for a lecture that dies after creating the row leaves it BLOCKED
  without a session (`cyber-campus-autolearn.ts:558`).
- A deadline alert is recorded before its mail is sent (`index.ts:566`, `590`);
  when the mail fails, the deadline is never mailed about.
- A confirmation of a method without a code that overtakes the start of this
  method is not taken up by a run that waits for the code of the method before
  (`cyber-campus-approval.ts:873`); it waits until the session expires or the
  user starts again. `ActionsSettle` names this exception (`Stranded`).
- An expired session that no run and no request by its id looks at is never
  ended (`portal-session-store.ts:161`).

## What is proved

Every safety property of the runs is proved for every value of the constants,
from the assumptions that the modules state about them (`ConstantsAssumption`,
`RunAssumption`, `DispatchAssumption`, ...) and no others. Each proof finds an
inductive invariant; a type invariant comes first and the others are proved
beside it, one lemma per kind of step.

### JobQueueProofs

For any number of users, logical jobs, rows, workers and admins:

- `TypesCorrect`: `TypeInv` is inductive. It adds to `TypeOK` that claims,
  retries and held jobs point at rows that exist.
- `KeysDisciplined` and `OneRunningRow`: `KeyInv` adds that an active key is the
  row's own (`Keyed`) and unique among rows (`UniqueKeys`, the unique index). A
  RUNNING row without uniqueness could be doubled by a retry, so one does not
  follow without the other. `OnlyClaimsStart` is the key lemma: no step but
  `ClaimTake` makes a row RUNNING.
- `SyncIsSerialized` and `SyncSlotsImplemented`: the claim of a sync row happens
  with no RUNNING sibling, in the step that checks it.
- `AutoLearnIsSerialized` and `LearnSlotsImplemented`: `LearnInv` adds
  `ClaimsWhileFree`: while a worker is between its count and its answer, no
  sibling is granted. Rows alone are not serialized (two claims may both take a
  row); what is serialized is the right to go ahead.

### RunsProofs

For any number of jobs, users, runs and calls, and any capacity:

- `TypesCorrect`: `Fit` says more than the types: the queue's order lists every
  active row once, a running row names a run that GitHub created and no other
  row has a run.
- `DueSyncRowsLookedAfter`: `SyncRowsLookedAfter` is itself inductive on top of
  `Fit` (`LookInv`), because it names each party that a due sync row may count
  on. The proof has one argument for each party that stops: a run that completes
  triggers a handoff; a call that finds the capacity used up has seen an active
  run; a call that ends without asking GitHub found the row claimed, or its
  users blocked by a row whose run is active or orphaned
  (`NobodyBlocked`, `OldestExists`).
- `CheckTypesCorrect` and `CheckIsRight`: `CheckInv` is inductive: rows name runs
  that were created, and the runs of remembered orphans are over or have a page
  of newer runs before them (`Unlisted`). It needs rows to be read *before* runs:
  a row read later could name a run the list is too old for.
- `RepairIsSafe`: hence `RepairSparesLiveRuns`, with whatever delay between the
  reads and the repair, because a run that is over stays over, one that is hidden
  stays hidden (`UnlistedForGood`), and the repair compares the owner again. The
  theorem cannot say that hidden runs are over: the code does take their rows.
- `RepairsAsInDispatch`: every change of a row by the check is one that the
  action `RepairOrphan` of `Dispatch` allows. `Dispatch` may therefore stand for
  a system with the real check in it.

### ApprovalProofs

For any number of rows, runs, concurrent requests and lectures and any kinds of
methods:

- `TypesCorrect`: `TypeInv` adds to `TypeOK` that a request in a later statement
  works on a row, and except between the two creations on a session, that
  exists (`CallsPoint`).
- `TerminalsScrubbed` and `MethodsChosen`: `SessionInv` says of every session
  that it is scrubbed if terminal and has its method if an action needs one, and
  says the same of what a run remembers between reading a session and publishing
  its methods: the write-back is only safe because action and selection were
  read together.
- `OnePlaysAtATime`: `RowInv` adds that the row of a playing run was taken
  (`PlayedRowsTaken`). The action lemma `RowsStep` is what makes a second claim
  impossible: no step of anybody makes a row BLOCKED again.
- `BlockedRowsAreAttended`: `AttendInv` adds what each process is about to do:
  a run that ends a session goes on to its row, and a request that drops one has
  seen that its row is no longer BLOCKED. `RunEndsBoth` and `RequestEndsBoth`
  are the two halves of the argument: whoever ends a session, among any number
  that may, is then the one that closes the row or finds it closed.

### SnapshotProofs

For any number of jobs, courses, notices, items and tasks and any portal:

- `TypesCorrect`: `TypeInv` types every step of a job (`JobTyped`): what is left to
  save, and which keys and tasks belong to the courses it collected.
- `CoursesEndRightly`: `RosterInv` says what a job's roster tells of the portal
  from the roster page to the end of the courses (`Rostered`).
- `DeadlinesMailedOnce`: in `MailInv` a deadline is recorded before it is mailed,
  no two jobs are to mail the same, and one that was mailed is to be mailed by
  nobody.
- `MarksOnItemsKept`: `ItemInv` follows what a job remembers of the rows it read
  (`Remembers`): it never writes an item back to less than the user had settled.
- `MarksOnNoticesKept`: `NoticeInv` follows the group that a job merges
  (`Grouped`) from reading the flags to deleting the others. Two merges of one
  notice keep the same row if a sequence number decides (`Ranked`); if none does,
  either only one job merges it at a time (`OneMerges`) or the notice is
  `contested` from then on (`ContestStays`) and nothing is said of it.
- `CheckpointMeansStored`: `CoverInv` says of each phase of a persist what is
  stored by then (`Persisted`), and `RowsStay` and `NoticesStay` that nobody
  takes it away, of contested notices again excepted.

### LearningProofs

For any tasks, lengths, limits and numbers of attempts and faults:

- `TypesCorrect`: `TypeInv` adds that a plan lists no task twice and none that
  counts already. `Plans` leaves the order of equal tasks open, and for the
  sorted lists (`Sorted`) only what the properties need is proved: they have the
  elements of the set they sort, each once.
- `OneMailPerChain`: in `MailInv` no mail was sent while the chain is active or
  about to mail, and one that has mailed has succeeded or was canceled.
- `ProcessedTasksAreDone`: `SessionInv` says that a run which plays has a good
  session, unless the chain is `blind`; then the list of pending tasks is what is
  not done, and absence from it is completion.
- `RequestsLeaveNothingOut`: `PlannedInv` relates what is learnable to what the
  run has counted and what its plan still holds; what is learnable shrinks only
  (`LearnableShrinks`), because the portal never forgets a completion.
- `ChainsAreCapped`: in `BudgetInv` the time a run has used, the time its plan
  still costs and the reading that may come on top stay within the chunk; in
  `ChainInv` the payload of the active row is the time of its chain and below
  the cap.  Costs are sums over sequences; the lemmas about them (`Products` and
  what follows it) argue about positions and partial sums, because induction over
  an arbitrary predicate cannot be cited: the one induction needed is stated for a
  *set* of numbers (`AllNumbers`).

### AccessProofs

For any number of rows, processes, loads, calls, policy types and any plans and
time to live:

- `TypeCorrect`: `TypeInv` adds to `TypeOK` that a load, a call and a login that
  go on go on with a user (`MembersInv`, `LoginsInv`).
- `OnlyApprovedAreActive`: `RowsInv` adds that a pending activation has seen an
  approval (`ActivationsApproved`); the conditional write then finds the same.
  `StepMovesRows` says what any step makes of a row: sound (`Sound`), born, and
  never back from withdrawn or gone (`RowMove`).
- `WithdrawnStayOut`: nobody but an administrator makes a withdrawn row active,
  by an approval or an enrolment that writes after the withdrawal
  (`RevivedByAdmins`). It is the safety half of `WithdrawnForgotten`: together
  with the fairness of the retention job, which takes inactive withdrawn rows,
  it says who is forgotten.
- `RefusedHaveNoSession`: `Rightful` says of each stage of a login that its user
  was admissible at some moment since it began. Consent asks for `isActive`
  alone, so this needs `OnlyApprovedAreActive`.
- `EverySessionConsented`: `Informed` follows the versions from `start` to
  `page` to the consent; that consents only grow for a current row
  (`ConsentsGrow`) needs that no row returns from a withdrawal (`BornForGood`).

### DashboardProofs

For any number of rows, portals, handlers and requests:

- `TypesCorrect`, `BlockedPageWaits`, `SyncingPageWaits`,
  `HandlersAwaitOneAnswer`: one invariant (`PageInv`) proves all four, since each
  needs the others. A page that lets a handler of an ongoing first sync start may
  rely on that handler for its dialog only because the page follows the sync's
  row (`SyncsFor`); that it does needs that the sync's answer named a row and
  that nothing but the sync's own answer ended its handler, hence that each
  answer resumes the handler that asked and no other (`Once`, `Awaited`). A
  handler is a chain of operators on page, handlers and requests; one lemma says
  what each does (`FollowTurns`, `RefreshAllAsks`, `FinallyEnds`, ...), and
  `BecomesFit` that the effects that follow keep whatever the page waits for.

### SessionsProofs

For any number of tabs, users, administrators and members, and any timeout:

- `TypesCorrect`, `IdleBounded` and `ImpersonationChosen`: `SessionInv` says that
  a token, in the cookie or in an answer under way, has no more time left than
  its user's last login or refresh gives it (`Owed`), and that a member in the
  cookie or in an answer was chosen by the administrator named beside it
  (`Meant`). Both are kept by an answer of any age.
- `ActiveUsersStay`: `InTime` says that unless an extension set an activity back,
  storage and every guard's own record are at least as young as the last
  activity registered (`Timely`), and an activity or a login makes good what was
  set back before; a guard that expires a session then saw none
  within the timeout.

### Only model-checked

Liveness rests on fairness and `ENABLED`, which this prover does not reason
about: `DeadWorkersJobRecovered`, `SyncRowsServed`, `OrphansRepaired`,
`DueRowsServed`, `ActionsSettle`, `RowsConverge`, `ChainEnds`, `CachesConverge`
and `WithdrawnForgotten` are checked on the instances above only.

## Not modelled, and why

Text extraction (parsers) and browser automation are string and page work: what
a page yields is a nondeterministic success, failure or partial result. Of the
web pages, the dashboard and the session guard are modelled and the others
render and query. Mails are events; their text, digests and SMTP are left out.
Retention of terminal rows and logs touches nothing modelled. The throttle of
logins counts per address and id in a window; test users add a role, not
interleavings. Scripts are run by
hand. `PROJECT.json` lists every component with its status and every hazard with
the property that covers it.
