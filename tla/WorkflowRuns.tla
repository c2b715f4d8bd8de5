---------------------------- MODULE WorkflowRuns ----------------------------
(***************************************************************************)
(* The GitHub Actions runs that work on the queue: the one-shot worker of  *)
(* apps/worker/src/index.ts, from the creation of its run to the end, and  *)
(* the rows it claims.  Dispatch says who creates the runs, Reconcile how  *)
(* the rows of lost runs are found.                                        *)
(*                                                                         *)
(* The queue is reduced to one row per logical job and to the writes that  *)
(* matter here; keys, claims and cancels are the matter of JobQueue.  Runs *)
(* are numbered in the order GitHub creates them; the number is the worker *)
(* id that a claim leaves in the row.  The jobs are SYNC or NOTICE_SCAN    *)
(* ("sync") and AUTOLEARN of CU12 ("autolearn"), of users whom the queue   *)
(* serves.                                                                 *)
(***************************************************************************)
EXTENDS Naturals, Sequences, FiniteSets

CONSTANTS
  User, Job,
  UserOf,    \* [Job -> User]
  TypeOf,    \* [Job -> Trigger]
  MaxRuns,   \* bound: runs GitHub ever creates
  Page,      \* runs on the page that the reconcile check reads (per_page=100)
  MayDie,    \* bound: runs may be killed
  MayLapse,  \* bound: heartbeats of live runs may go stale
  MayFail,   \* bound: calls to GitHub may fail
  NoUser, NoJob

Trigger == {"sync", "autolearn"}

ASSUME RunAssumption ==
  /\ UserOf \in [Job -> User] /\ TypeOf \in [Job -> Trigger]
  /\ MaxRuns \in Nat /\ Page \in Nat \ {0}
  /\ MayDie \in BOOLEAN /\ MayLapse \in BOOLEAN /\ MayFail \in BOOLEAN
  /\ NoUser \notin User /\ NoJob \notin Job

Run == 1 .. MaxRuns
NoRun == 0

VARIABLES
  row,     \* [Job -> [status, run]]: the active row of a logical job
  fifo,    \* the jobs with an active row, oldest createdAt first
  run,     \* [Run -> [status, type, user, job]]: the workflow runs
  created  \* the number of runs created so far

runVars == <<row, fifo, run, created>>

NoRow == [status |-> "none", run |-> NoRun]
Pending == [status |-> "pending", run |-> NoRun]
RetryLater == [status |-> "waiting", run |-> NoRun]

Running(j) == row[j].status = "running"
Due(j) == row[j].status = "pending"
Owns(r, j) == row[j] = [status |-> "running", run |-> r]

\* The statuses of a run between in_progress and completed.
Started == {"polling", "working", "leaving"}
Exists(r) == r <= created
Completed(r) == run[r].status = "completed"
ActiveRuns == {r \in Run : Exists(r) /\ ~ Completed(r)}

\* RUNNING rows of runs that are over.
Orphaned(j) == Running(j) /\ Completed(row[j].run)

\* A page of newer runs hides the run, active or not, from the reconcile check.
OffPage(r) == r + Page <= created

\* Mutant: completed runs are not left out.
ListedAll == {r \in Run : Exists(r) /\ ~ OffPage(r)}

\* listActiveWorkflowRuns: the first page of all runs, newest first, without
\* the completed ones.
Listed == {r \in ActiveRuns : ~ OffPage(r)}

\* The run of such a row is not listed, so the reconcile check takes it for lost.
Unlisted(r) == Completed(r) \/ OffPage(r)

SetRow(j, c) == row' = [row EXCEPT ![j] = c]
SetRun(r, c) == run' = [run EXCEPT ![r] = c]

Position(j) == CHOOSE i \in DOMAIN fifo : fifo[i] = j
Without(j) == SubSeq(fifo, 1, Position(j) - 1) \o SubSeq(fifo, Position(j) + 1, Len(fifo))

\* A row leaves the queue, or a retry row takes its place at the end.
EndRow(j, retry) ==
  /\ SetRow(j, IF retry THEN RetryLater ELSE NoRow)
  /\ fifo' = IF retry THEN Append(Without(j), j) ELSE Without(j)

-----------------------------------------------------------------------------
(* Rows *)

\* runAfter passes.
BecomeDue(j) ==
  /\ row[j].status = "waiting"
  /\ SetRow(j, Pending)
  /\ UNCHANGED <<fifo, run, created>>

\* The reclaim that a claim begins with: the owner's heartbeat is stale.
TakeBack(r, j) ==
  /\ Exists(r) /\ run[r].status = "polling"
  /\ Running(j) /\ (MayLapse \/ Completed(row[j].run))
  /\ SetRow(j, Pending)
  /\ UNCHANGED <<fifo, run, created>>

\* repairOrphanedRunningJob: a sync row goes back to the queue, an autolearn
\* row fails and may get a retry row.
RepairRow(j, retry) ==
  IF TypeOf[j] = "sync" THEN SetRow(j, Pending) /\ UNCHANGED fifo
  ELSE EndRow(j, retry)

-----------------------------------------------------------------------------
(* Runs *)

\* A dispatch request that GitHub accepts.
CreateRun(t, u) ==
  /\ created < MaxRuns
  /\ created' = created + 1
  /\ SetRun(created + 1, [status |-> "queued", type |-> t, user |-> u, job |-> NoJob])
  /\ UNCHANGED <<row, fifo>>

RunStart(r) ==
  /\ Exists(r) /\ run[r].status = "queued"
  /\ SetRun(r, [run[r] EXCEPT !.status = "polling"])
  /\ UNCHANGED <<row, fifo, created>>

\* The user's rows that a job of type t must not run beside.
Blocked(u, t) == \E j \in Job : UserOf[j] = u /\ TypeOf[j] = t /\ Running(j)

Oldest(S) == {j \in S : \A k \in S : Position(j) <= Position(k)}

Claimable(t) == {j \in Job : TypeOf[j] = t /\ Due(j) /\ ~ Blocked(UserOf[j], t)}
Own(r) == {j \in Claimable(run[r].type) : UserOf[j] = run[r].user}

\* A sync run starts with its user's rows and then takes anybody's.
InScope(r) == IF run[r].type = "sync" /\ (run[r].user = NoUser \/ Own(r) = {})
              THEN Claimable("sync") ELSE Own(r)

RunClaim(r) ==
  /\ Exists(r) /\ run[r].status = "polling"
  /\ \E j \in Oldest(InScope(r)) :
       /\ SetRow(j, [status |-> "running", run |-> r])
       /\ SetRun(r, [run[r] EXCEPT !.status = "working", !.job = j])
  /\ UNCHANGED <<fifo, created>>

\* The batch is full (after any job: the time counts as well as the number),
\* or nothing was found until the idle grace was over.
RunLeave(r) ==
  /\ Exists(r) /\ run[r].status = "polling"
  /\ InScope(r) = {} \/ run[r].user = NoUser
  /\ SetRun(r, [run[r] EXCEPT !.status = "leaving"])
  /\ UNCHANGED <<row, fifo, created>>

\* After a job a sync run drains the queue of all users.
AfterJob(r, next) ==
  [run[r] EXCEPT !.status = next, !.job = NoJob,
                 !.user = IF run[r].type = "sync" THEN NoUser ELSE @]

Works(r) == Exists(r) /\ run[r].status = "working"

RunSucceed(r) ==
  /\ Works(r) /\ Owns(r, run[r].job)
  /\ EndRow(run[r].job, FALSE)
  /\ SetRun(r, AfterJob(r, IF run[r].type = "sync" THEN "polling" ELSE "leaving"))
  /\ UNCHANGED created

\* A failure may be retried later; the run waits for a retry that is near, and
\* an autolearn run leaves otherwise.
RunFail(r, retry, wait) ==
  /\ Works(r) /\ Owns(r, run[r].job)
  /\ wait => retry
  /\ EndRow(run[r].job, retry)
  /\ SetRun(r, AfterJob(r, IF run[r].type = "sync" \/ wait THEN "polling" ELSE "leaving"))
  /\ UNCHANGED created

\* The row is not the run's any more: the run goes on, leaves, or ends with
\* the error of a refused report.
RunDisowned(r, next) ==
  /\ Works(r) /\ ~ Owns(r, run[r].job)
  /\ SetRun(r, AfterJob(r, next))
  /\ UNCHANGED <<row, fifo, created>>

RunExit(r) ==
  /\ Exists(r) /\ run[r].status = "leaving"
  /\ SetRun(r, [run[r] EXCEPT !.status = "completed"])
  /\ UNCHANGED <<row, fifo, created>>

\* The runner is killed: crash, timeout or cancellation of the run.
RunDie(r) ==
  /\ MayDie /\ Exists(r) /\ ~ Completed(r)
  /\ SetRun(r, [run[r] EXCEPT !.status = "completed", !.job = NoJob])
  /\ UNCHANGED <<row, fifo, created>>

-----------------------------------------------------------------------------

RunInit ==
  /\ row = [j \in Job |-> NoRow]
  /\ fifo = <<>>
  /\ run = [r \in Run |-> [status |-> "completed", type |-> "sync",
                           user |-> NoUser, job |-> NoJob]]
  /\ created = 0

\* What a run that is not killed does of itself.
RunStep(r) ==
  \/ RunStart(r) \/ RunClaim(r) \/ RunLeave(r) \/ RunSucceed(r)
  \/ \E retry, wait \in BOOLEAN : RunFail(r, retry, wait)
  \/ \E next \in {"polling", "leaving", "completed"} : RunDisowned(r, next)
  \/ RunExit(r)

RunNext ==
  \/ \E j \in Job : BecomeDue(j)
  \/ \E r \in Run : \/ RunStep(r) \/ RunDie(r)
                    \/ \E j \in Job : TakeBack(r, j)

\* Rows and runs are well formed, and the order lists the active rows.
RunTypeOK ==
  /\ row \in [Job -> [status : {"none", "waiting", "pending", "running"},
                      run : Run \cup {NoRun}]]
  /\ \A j \in Job : row[j].run # NoRun <=> Running(j)
  /\ fifo \in Seq(Job)
  /\ \A j \in Job : row[j] # NoRow <=> \E i \in DOMAIN fifo : fifo[i] = j
  /\ run \in [Run -> [status : Started \cup {"queued", "completed"},
                      type : Trigger, user : User \cup {NoUser},
                      job : Job \cup {NoJob}]]
  /\ created \in 0 .. MaxRuns
=============================================================================
