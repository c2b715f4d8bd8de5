------------------------------ MODULE Dispatch ------------------------------
(***************************************************************************)
(* How queued rows get runs: dispatchWorkerRun of                          *)
(* apps/web/src/server/github-actions-dispatch.ts, called for a user's     *)
(* request, by the schedules, by an autolearn run that leaves, by the      *)
(* handoff workflow when a run completes, and after a repair.  A call      *)
(* counts the active runs, chooses users and asks GitHub for a run for     *)
(* each, one after the other, while other calls and the runs go on.        *)
(*                                                                         *)
(* The repair of an orphaned row is one step here, taken from the row of a *)
(* completed run only: Reconcile shows how the reconcile check does it.    *)
(***************************************************************************)
EXTENDS WorkflowRuns

CONSTANTS
  Call,      \* bound: dispatch calls that are open at a time
  Capacity   \* WORKER_DISPATCH_MAX_PARALLEL

ASSUME DispatchAssumption == Capacity \in Nat \ {0}

VARIABLES
  call,    \* [Call -> [pc, type, user, unread, seen, users]]: the dispatch calls
  wanted,  \* a sync handoff is triggered: completed runs, or a repair
  missed   \* history: what went unheeded: a retry came due, GitHub failed

vars == <<row, fifo, run, created, call, wanted, missed>>

Idle == [pc |-> "idle", type |-> "sync", user |-> NoUser,
         unread |-> {}, seen |-> {}, users |-> {}]
Asked(t, u) == [Idle EXCEPT !.pc = "count", !.type = t, !.user = u,
                            !.unread = {"queued", "in_progress"}]
SetCall(c, x) == call' = [call EXCEPT ![c] = x]
Ready(c) == call[c].pc = "idle"

-----------------------------------------------------------------------------
(* Who asks for runs *)

\* A request queues the job, unless it is queued, and dispatches for its user.
\* A sync that waits for its retry becomes due at once; a row that is due or
\* runs is dispatched again if it looks stale.
Request(c, j) ==
  /\ Ready(c)
  /\ \/ row[j] = NoRow /\ SetRow(j, Pending) /\ fifo' = Append(fifo, j)
     \/ /\ row[j] = RetryLater /\ TypeOf[j] = "sync"
        /\ SetRow(j, Pending) /\ UNCHANGED fifo
     \/ (Due(j) \/ Running(j)) /\ UNCHANGED <<row, fifo>>
  /\ SetCall(c, Asked(TypeOf[j], UserOf[j]))
  /\ UNCHANGED <<run, created, wanted, missed>>

Missing(t) == {j \in Job : TypeOf[j] = t /\ row[j] = NoRow}

\* queue-dispatch.ts queues a job that the schedule misses, and its workflow
\* dispatches: always for autolearn, for sync if a row is PENDING.
Schedule(c, t) ==
  /\ Ready(c)
  /\ \/ \E j \in Missing(t) : SetRow(j, Pending) /\ fifo' = Append(fifo, j)
     \/ UNCHANGED <<row, fifo>>
  /\ t = "sync" => \E j \in Job : TypeOf[j] = t /\ row'[j].status \in {"waiting", "pending"}
  /\ SetCall(c, Asked(t, NoUser))
  /\ UNCHANGED <<run, created, wanted, missed>>

\* worker-sync-handoff.yml, or the dispatch that ends a repair.
Handoff(c) ==
  /\ Ready(c) /\ wanted
  /\ wanted' = FALSE
  /\ SetCall(c, Asked("sync", NoUser))
  /\ UNCHANGED <<row, fifo, run, created, missed>>

\* An autolearn run asks for the next one before it exits, if a row is due.
RunHandoff(c, r) ==
  /\ Ready(c)
  /\ Exists(r) /\ run[r].status = "leaving" /\ run[r].type = "autolearn"
  /\ \E j \in Job : TypeOf[j] = "autolearn" /\ Due(j)
  /\ SetCall(c, Asked("autolearn", NoUser))
  /\ UNCHANGED <<row, fifo, run, created, wanted, missed>>

-----------------------------------------------------------------------------
(* dispatchWorkerRun *)

InList(r, status) == (run[r].status = "queued") <=> (status = "queued")

\* countActiveWorkerRuns: one list for each status, read at different times.
CountRuns(c, status) ==
  /\ call[c].pc = "count" /\ status \in call[c].unread
  /\ SetCall(c, [call[c] EXCEPT
       !.unread = @ \ {status},
       !.seen = @ \cup {r \in ActiveRuns : InList(r, status)}])
  /\ UNCHANGED <<row, fifo, run, created, wanted, missed>>

\* GITHUB_RUN_LIST_FAILED
CountFails(c) ==
  /\ MayFail /\ call[c].pc = "count" /\ call[c].unread # {}
  /\ SetCall(c, Idle)
  /\ missed' = "failure"
  /\ UNCHANGED <<row, fifo, run, created, wanted>>

Slots(c) == IF Cardinality(call[c].seen) >= Capacity THEN 0
            ELSE Capacity - Cardinality(call[c].seen)

DueRows(u, t) == {j \in Job : UserOf[j] = u /\ TypeOf[j] = t /\ Due(j)}

\* Mutant: the users with a running row are taken for the candidates.
CandidatesAmongRunning(t) == {u \in User : DueRows(u, t) # {} /\ Blocked(u, t)}

\* The users with a due row of the type and none that runs.
Candidates(t) == {u \in User : DueRows(u, t) # {} /\ ~ Blocked(u, t)}

Ahead(v, u, t) == \E j \in DueRows(v, t) :
                    \A k \in DueRows(u, t) : Position(j) < Position(k)

\* The n candidates whose oldest row is oldest.
FirstOf(n, t) ==
  {u \in Candidates(t) :
     Cardinality({v \in Candidates(t) : Ahead(v, u, t)}) < n}

\* selectPendingCandidateUsersFromRows: the preferred user, or anyone in its
\* place; without one, as many users as there are slots.
Chosen(c) ==
  LET t == call[c].type  u == call[c].user IN
  CASE Slots(c) = 0 -> {}
    [] u \in Candidates(t) -> {u}
    [] u \in User \ Candidates(t) -> FirstOf(1, t)
    [] OTHER -> FirstOf(Slots(c), t)

\* SKIPPED_CAPACITY, SKIPPED_DUPLICATE, SKIPPED_NO_PENDING, or requests.
Select(c) ==
  /\ call[c].pc = "count" /\ call[c].unread = {}
  /\ SetCall(c, IF Chosen(c) = {} THEN Idle
                ELSE [call[c] EXCEPT !.pc = "send", !.users = Chosen(c), !.seen = {}])
  /\ UNCHANGED <<row, fifo, run, created, wanted, missed>>

AfterSend(c, u) == IF call[c].users = {u} THEN Idle
                   ELSE [call[c] EXCEPT !.users = @ \ {u}]

\* The user still has a due row and GitHub creates a run for it.
Send(c, u) ==
  /\ call[c].pc = "send" /\ u \in call[c].users
  /\ DueRows(u, call[c].type) # {}
  /\ CreateRun(call[c].type, u)
  /\ SetCall(c, AfterSend(c, u))
  /\ UNCHANGED <<wanted, missed>>

\* The user's row is gone by now.
SendNothing(c, u) ==
  /\ call[c].pc = "send" /\ u \in call[c].users
  /\ DueRows(u, call[c].type) = {}
  /\ SetCall(c, AfterSend(c, u))
  /\ UNCHANGED <<row, fifo, run, created, wanted, missed>>

\* GITHUB_DISPATCH_FAILED, or the bound on runs.
SendFails(c, u) ==
  /\ call[c].pc = "send" /\ u \in call[c].users
  /\ MayFail \/ created = MaxRuns
  /\ SetCall(c, AfterSend(c, u))
  /\ missed' = "failure"
  /\ UNCHANGED <<row, fifo, run, created, wanted>>

-----------------------------------------------------------------------------
(* Runs and rows go on *)

\* Mutant: only runs that succeed trigger the handoff.
TriggersOnLeave == \E r \in Run : run[r].status = "leaving" /\ run'[r].status = "completed"

\* The workflow_run trigger: a run completes, however it ends.
Triggers == \E r \in Run : ~ Completed(r) /\ run'[r].status = "completed"

RunsGoOn(A) ==
  /\ A
  /\ wanted' = (wanted \/ Triggers)
  /\ UNCHANGED <<call, missed>>

RetryComesDue(j) ==
  /\ BecomeDue(j)
  /\ missed' = IF missed = "failure" THEN missed ELSE "retry"
  /\ UNCHANGED <<call, wanted>>

\* A repair and the dispatch that follows it, unless the check finds other
\* orphans or runs without a row (then no dispatch follows).  An active run
\* that has left the page loses its row as well.
RepairOrphan(j, retry) ==
  /\ Running(j) /\ Unlisted(row[j].run)
  /\ RepairRow(j, retry)
  /\ \/ wanted' = TRUE
     \/ /\ \/ \E k \in Job \ {j} : Running(k) /\ Unlisted(row[k].run)
           \/ \E r \in Listed : \A k \in Job : ~ Owns(r, k)
        /\ UNCHANGED wanted
  /\ UNCHANGED <<run, created, call, missed>>

-----------------------------------------------------------------------------

Init ==
  /\ RunInit
  /\ call = [c \in Call |-> Idle]
  /\ wanted = FALSE /\ missed = "nothing"

CallStep(c) ==
  \/ \E status \in {"queued", "in_progress"} : CountRuns(c, status)
  \/ Select(c)
  \/ \E u \in User : Send(c, u) \/ SendNothing(c, u) \/ SendFails(c, u)

Asks(c) ==
  \/ \E j \in Job : Request(c, j)
  \/ \E t \in Trigger : Schedule(c, t)
  \/ Handoff(c)
  \/ \E r \in Run : RunHandoff(c, r)

Runs(r) == RunsGoOn(RunStep(r))

Next ==
  \/ \E c \in Call : Asks(c) \/ CallStep(c) \/ CountFails(c)
  \/ \E r \in Run : Runs(r) \/ RunsGoOn(RunDie(r))
                    \/ \E j \in Job : RunsGoOn(TakeBack(r, j))
  \/ \E j \in Job : RetryComesDue(j)
  \/ \E j \in Job, retry \in BOOLEAN : RepairOrphan(j, retry)

Spec == Init /\ [][Next]_vars

(***************************************************************************)
(* Fairness.  Retry times pass, the schedules fire and are served now and  *)
(* then, a dispatch call comes to its end, and the rows of runs that are   *)
(* over are repaired (Reconcile).  A run makes progress and does not poll for ever: a batch  *)
(* ends after ten minutes, and an autolearn job has at most four attempts. *)
(* Requests, handoffs, reclaims and deaths are not fair.                   *)
(***************************************************************************)
FairSpec ==
  /\ Spec
  /\ \A j \in Job : WF_vars(RetryComesDue(j))
  /\ \A t \in Trigger : SF_vars(\E c \in Call : Schedule(c, t))
  /\ \A c \in Call : WF_vars(CallStep(c))
  /\ \A r \in Run : WF_vars(Runs(r)) /\ SF_vars(RunsGoOn(RunLeave(r)))
  /\ \A j \in Job : WF_vars(Orphaned(j) /\ \E retry \in BOOLEAN : RepairOrphan(j, retry))

-----------------------------------------------------------------------------
(* Properties *)

TypeOK ==
  /\ RunTypeOK
  /\ call \in [Call -> [pc : {"idle", "count", "send"}, type : Trigger,
                        user : User \cup {NoUser},
                        unread : SUBSET {"queued", "in_progress"},
                        seen : SUBSET Run, users : SUBSET User]]
  /\ wanted \in BOOLEAN /\ missed \in {"nothing", "retry", "failure"}

\* A due row is claimed in the end: by its own run, by a run that drains the
\* queue, or by a later one, even if its user is held up by the row of a dead
\* run (as long as GitHub answers and creates runs).
DueRowsServed ==
  \A j \in Job : Due(j) ~> (~ Due(j) \/ created = MaxRuns \/ missed = "failure")

\* A due sync row is never forgotten between two schedules: a run is active,
\* a dispatch is under way or triggered, or an orphan waits for its repair,
\* unless a retry came due by itself or GitHub failed.
SyncRowsLookedAfter ==
  (\E j \in Job : TypeOf[j] = "sync" /\ Due(j))
    => \/ ActiveRuns # {}
       \/ wanted \/ \E c \in Call : call[c].pc # "idle"
       \/ \E j \in Job : Orphaned(j)
       \/ missed # "nothing"
=============================================================================
