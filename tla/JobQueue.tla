------------------------------ MODULE JobQueue ------------------------------
(***************************************************************************)
(* The JobQueue table, the operations of apps/web/src/server/queue.ts on   *)
(* it, and the worker processes that claim, run and report jobs.           *)
(*                                                                         *)
(* A "logical job" is what job-dedupe.ts builds a key from: a user, a type *)
(* and an idempotency key.  Rows of the table are numbered in the order    *)
(* of their createdAt, so the least number of a set is its oldest row.     *)
(* Operations that are one statement or one transaction are one action;    *)
(* those that read, return to the event loop and then write (a claim, a    *)
(* reclaim, an admin retry) are split where another process can step in.   *)
(***************************************************************************)
EXTENDS Naturals, FiniteSets

CONSTANTS
  User,         \* owners of jobs
  Logical,      \* logical jobs: (user, type, idempotency key) triples
  UserOf,       \* [Logical -> User]
  TypeOf,       \* [Logical -> JobType]
  Cyber,        \* the logical jobs whose payload.provider is CYBER_CAMPUS
  NextSegment,  \* [Logical -> Logical \cup {NoKey}]: the auto_continuation
  Worker,       \* worker ids: gha-<run>-<attempt>, never reused
  Admin,        \* concurrent admin requests that retry a job
  Request,      \* what a claim asks for: [types, users]
  MaxJobs,      \* bound: rows of the table
  AttemptCap,   \* bound: claims of one row
  MayCrash,     \* the workers that may die
  MayLapse,     \* the workers whose heartbeats may fail while they live
  MayLose,      \* the workers whose claim requests may be lost half-way
  AccountEdits, \* bound: the account states an admin sets
  MayPurge,     \* bound: an admin purges the heartbeat table
  NoKey, NoWorker

JobType == {"SYNC", "NOTICE_SCAN", "AUTOLEARN", "MAIL_DIGEST"}
SyncType == {"SYNC", "NOTICE_SCAN"}
Status == {"NONE", "PENDING", "BLOCKED", "RUNNING",
           "SUCCEEDED", "FAILED", "CANCELED"}
Terminal == {"SUCCEEDED", "FAILED", "CANCELED"}
Account == {"member", "inactive", "test"}
Heartbeat == {"none", "fresh", "stale"}
MaxAttempts == 4

ASSUME ConstantsAssumption ==
  /\ UserOf \in [Logical -> User]
  /\ TypeOf \in [Logical -> JobType]
  /\ Cyber \subseteq Logical
  /\ NextSegment \in [Logical -> Logical \cup {NoKey}]
  /\ \A l \in Logical : NextSegment[l] # NoKey =>
        /\ TypeOf[l] = "AUTOLEARN" /\ TypeOf[NextSegment[l]] = "AUTOLEARN"
        /\ UserOf[NextSegment[l]] = UserOf[l] /\ l \notin Cyber
  /\ Request \subseteq [types : SUBSET JobType, users : SUBSET User]
  /\ MaxJobs \in Nat /\ AttemptCap \in Nat
  /\ MayCrash \subseteq Worker /\ MayLapse \subseteq Worker
  /\ MayLose \subseteq Worker
  /\ AccountEdits \subseteq Account /\ MayPurge \in BOOLEAN
  /\ NoKey \notin Logical /\ NoWorker \notin Worker

Job == 1 .. MaxJobs
NoJob == 0

Row == [status : Status, logical : Logical \cup {NoKey},
        active : Logical \cup {NoKey}, attempts : Nat,
        worker : Worker \cup {NoWorker}, due : BOOLEAN]

NoRow == [status |-> "NONE", logical |-> NoKey, active |-> NoKey,
          attempts |-> 0, worker |-> NoWorker, due |-> FALSE]

Call == [pc : {"idle", "reclaim", "scan", "try", "check", "requeue", "return"},
         stale : SUBSET Worker, types : SUBSET JobType, users : SUBSET User,
         cands : SUBSET Job, cur : Job \cup {NoJob}]

IdleCall == [pc |-> "idle", stale |-> {}, types |-> {}, users |-> {},
             cands |-> {}, cur |-> NoJob]

VARIABLES
  jobs,     \* [Job -> Row]: the table
  account,  \* [User -> Account]: what the eligibility filter reads
  hb,       \* [Worker -> Heartbeat]: the WorkerHeartbeat row, if any
  alive,    \* [Worker -> BOOLEAN]: the worker process
  holds,    \* [Worker -> Job \cup {NoJob}]: the job the process is running
  call,     \* [Worker -> Call]: the claim request being served for a worker
  retrying  \* [Admin -> Job \cup {NoJob}]: a retry between read and update

vars == <<jobs, account, hb, alive, holds, call, retrying>>

-----------------------------------------------------------------------------
(* Rows *)

Exists(j) == jobs[j].status # "NONE"
TypeOfRow(j) == TypeOf[jobs[j].logical]
UserOfRow(j) == UserOf[jobs[j].logical]
IsSync(j) == Exists(j) /\ TypeOfRow(j) \in SyncType
IsAutoLearn(j) == Exists(j) /\ TypeOfRow(j) = "AUTOLEARN"
Running(j) == jobs[j].status = "RUNNING"

RunningSync(u) == {j \in Job : IsSync(j) /\ Running(j) /\ UserOfRow(j) = u}
RunningAutoLearn(u) ==
  {j \in Job : IsAutoLearn(j) /\ Running(j) /\ UserOfRow(j) = u}

\* Mutant: the table was migrated without the unique index.
NoUniqueIndex(l, j) == FALSE

\* The unique index on activeDedupeKey: l is taken by a row other than j.
KeyTaken(l, j) == \E i \in Job \ {j} : jobs[i].active = l

NewRow(l, attempts, due) ==
  [status |-> "PENDING", logical |-> l, active |-> l, attempts |-> attempts,
   worker |-> NoWorker, due |-> due]

\* A row that goes back to PENDING under its own key.
Requeued(r, due) ==
  [r EXCEPT !.status = "PENDING", !.active = r.logical, !.worker = NoWorker,
            !.due = due]

Claimed(r, w) ==
  [r EXCEPT !.status = "RUNNING", !.active = r.logical, !.worker = w,
            !.attempts = r.attempts + 1]

Canceled(r) ==
  [r EXCEPT !.status = "CANCELED", !.active = NoKey, !.worker = NoWorker]

\* Mutant: a terminal write forgets to release the key.
EndedWithKey(r, s) == [r EXCEPT !.status = s]

Ended(r, s) == [r EXCEPT !.status = s, !.active = NoKey]

Free == {j \in Job : ~ Exists(j)}
Oldest(S) == CHOOSE j \in S : \A i \in S : j <= i

\* The table after the insert-or-keep of a row for l: an upsert on the key.
Upserted(table, l, attempts, due) ==
  IF \E i \in Job : table[i].active = l
  THEN table
  ELSE [table EXCEPT ![Oldest(Free)] = NewRow(l, attempts, due)]

-----------------------------------------------------------------------------
(* Requests of users and operators *)

\* enqueueJob: a duplicate returns the active row and changes nothing.
EnqueueJob(l, due) ==
  /\ Free # {}
  /\ TypeOf[l] \in SyncType => account[UserOf[l]] # "test"
  /\ ~ KeyTaken(l, NoJob)
  /\ jobs' = [jobs EXCEPT ![Oldest(Free)] = NewRow(l, 0, due)]
  /\ UNCHANGED <<account, hb, alive, holds, call, retrying>>

CancelJob(j) ==
  /\ jobs[j].status \in {"PENDING", "BLOCKED", "RUNNING"}
  /\ jobs' = [jobs EXCEPT ![j] = Canceled(jobs[j])]
  /\ UNCHANGED <<account, hb, alive, holds, call, retrying>>

\* The rows cancelBlockedSyncJobsForTestUsers cancels, for the users U.
TestUserSync(U) ==
  {j \in Job : /\ IsSync(j) /\ UserOfRow(j) \in U
               /\ account[UserOfRow(j)] = "test"
               /\ jobs[j].status \in {"PENDING", "RUNNING"}}

WithoutTestUserSync(U) ==
  [j \in Job |-> IF j \in TestUserSync(U) THEN Canceled(jobs[j]) ELSE jobs[j]]

\* A sync or retry request for a test user is refused and its rows canceled.
RefuseTestUser(u) ==
  /\ account[u] = "test"
  /\ jobs' = WithoutTestUserSync({u})
  /\ UNCHANGED <<account, hb, alive, holds, call, retrying>>

\* retryJob: the status is read ...
RetryRead(a, j) ==
  /\ retrying[a] = NoJob
  /\ jobs[j].status \in {"BLOCKED"} \cup Terminal
  /\ IsSync(j) => account[UserOfRow(j)] # "test"
  /\ retrying' = [retrying EXCEPT ![a] = j]
  /\ UNCHANGED <<jobs, account, hb, alive, holds, call>>

\* ... and the row is later rewritten by id alone; the unique index can
\* refuse it ("Active duplicate job already exists").
RetryWrite(a) ==
  LET j == retrying[a] IN
  /\ j # NoJob
  /\ jobs' = IF KeyTaken(jobs[j].logical, j) THEN jobs
             ELSE [jobs EXCEPT ![j] = Requeued(jobs[j], TRUE)]
  /\ retrying' = [retrying EXCEPT ![a] = NoJob]
  /\ UNCHANGED <<account, hb, alive, holds, call>>

\* An admin edits isActive, approval or isTestUser of a member.
SetAccount(u, s) ==
  /\ account[u] # s
  /\ account' = [account EXCEPT ![u] = s]
  /\ UNCHANGED <<jobs, hb, alive, holds, call, retrying>>

\* DELETE /api/admin/workers removes every heartbeat row.
PurgeHeartbeats ==
  /\ MayPurge /\ \E w \in Worker : hb[w] # "none"
  /\ hb' = [w \in Worker |-> "none"]
  /\ UNCHANGED <<jobs, account, alive, holds, call, retrying>>

\* runAfter passes.
BecomeDue(j) ==
  /\ jobs[j].status = "PENDING" /\ ~ jobs[j].due
  /\ jobs' = [jobs EXCEPT ![j].due = TRUE]
  /\ UNCHANGED <<account, hb, alive, holds, call, retrying>>

-----------------------------------------------------------------------------
(* claimNextJob, one call at a time per worker *)

SetCall(w, c) == call' = [call EXCEPT ![w] = c]

\* touchHeartbeat, the test-user sweep, and the read of the stale workers.
\* The three statements touch different tables, so no other step of the
\* system can tell them apart.
ClaimBegin(w, r) ==
  /\ alive[w] /\ holds[w] = NoJob /\ call[w].pc = "idle"
  /\ hb' = [hb EXCEPT ![w] = "fresh"]
  /\ jobs' = IF r.types \cap SyncType # {} THEN WithoutTestUserSync(r.users)
             ELSE jobs
  /\ SetCall(w, [IdleCall EXCEPT !.pc = "reclaim", !.types = r.types,
                    !.users = r.users,
                    !.stale = {v \in Worker \ {w} : hb[v] = "stale"}])
  /\ UNCHANGED <<account, alive, holds, retrying>>

\* Mutant: only AUTOLEARN rows of stale workers are looked for.
StaleAutoLearn(w) ==
  {j \in Job : /\ Running(j) /\ IsAutoLearn(j)
               /\ jobs[j].worker \in call[w].stale}

StaleJob(w) == {j \in Job : Running(j) /\ jobs[j].worker \in call[w].stale}

\* decideStaleRunningJobReclaim
ReclaimMarksFailed(l) == TypeOf[l] = "AUTOLEARN" /\ l \in Cyber

\* reclaimStaleRunningJobs: the list of stale workers was read before.
Reclaim(w, j) ==
  /\ call[w].pc = "reclaim"
  /\ j \in StaleJob(w)
  /\ jobs' = [jobs EXCEPT ![j] = IF ReclaimMarksFailed(jobs[j].logical)
                                 THEN Ended(jobs[j], "FAILED")
                                 ELSE Requeued(jobs[j], FALSE)]
  /\ UNCHANGED <<account, hb, alive, holds, call, retrying>>

ReclaimDone(w) ==
  /\ call[w].pc = "reclaim" /\ StaleJob(w) = {}
  /\ SetCall(w, [call[w] EXCEPT !.pc = "scan", !.stale = {}])
  /\ UNCHANGED <<jobs, account, hb, alive, holds, retrying>>

\* rankJobTypes
Outranks(s, t) == \/ s = "SYNC"
                  \/ s = "NOTICE_SCAN" /\ t # "SYNC"
                  \/ s = "AUTOLEARN" /\ t \in {"AUTOLEARN", "MAIL_DIGEST"}
                  \/ s = "MAIL_DIGEST" /\ t = "MAIL_DIGEST"

Candidates(t, U) ==
  {j \in Job : /\ jobs[j].status = "PENDING" /\ jobs[j].due
               /\ TypeOfRow(j) = t /\ UserOfRow(j) \in U
               /\ t \in SyncType => account[UserOfRow(j)] = "member"}

ClaimScan(w, t) ==
  /\ call[w].pc = "scan"
  /\ t \in call[w].types
  /\ \A s \in call[w].types : Outranks(t, s)
  /\ SetCall(w, [call[w] EXCEPT !.pc = "try", !.types = @ \ {t},
                    !.cands = Candidates(t, call[w].users)])
  /\ UNCHANGED <<jobs, account, hb, alive, holds, retrying>>

ClaimNothing(w) ==
  /\ call[w].pc = "scan" /\ call[w].types = {}
  /\ SetCall(w, IdleCall)
  /\ UNCHANGED <<jobs, account, hb, alive, holds, retrying>>

Candidate(w) == Oldest(call[w].cands)

\* Mutant: the claim looks only at siblings of its own type.
RefusedBySameType(j) ==
  \/ jobs[j].status # "PENDING"
  \/ /\ IsSync(j)
     /\ \E i \in RunningSync(UserOfRow(j)) : TypeOfRow(i) = TypeOfRow(j)

\* The compare-and-set takes no row: it lost the race, or the user's sync
\* slot is busy (checked under the advisory lock of the user).
ClaimRefused(j) == \/ jobs[j].status # "PENDING"
                   \/ IsSync(j) /\ RunningSync(UserOfRow(j)) # {}

\* Mutant: a claim gives up after the first type without candidates.
SkipToIdle(w) ==
  /\ call[w].pc = "try"
  /\ IF call[w].cands = {} THEN SetCall(w, IdleCall)
     ELSE /\ ClaimRefused(Candidate(w))
          /\ SetCall(w, [call[w] EXCEPT !.cands = @ \ {Candidate(w)}])
  /\ UNCHANGED <<jobs, account, hb, alive, holds, retrying>>

ClaimSkip(w) ==
  /\ call[w].pc = "try"
  /\ IF call[w].cands = {} THEN SetCall(w, [call[w] EXCEPT !.pc = "scan"])
     ELSE /\ ClaimRefused(Candidate(w))
          /\ SetCall(w, [call[w] EXCEPT !.cands = @ \ {Candidate(w)}])
  /\ UNCHANGED <<jobs, account, hb, alive, holds, retrying>>

\* Mutant: an AUTOLEARN claim is answered without the count of siblings.
TakeUnchecked(w) ==
  LET j == Candidate(w) IN
  /\ call[w].pc = "try" /\ call[w].cands # {}
  /\ ~ ClaimRefused(j) /\ ~ KeyTaken(jobs[j].logical, j)
  /\ jobs[j].attempts < AttemptCap
  /\ jobs' = [jobs EXCEPT ![j] = Claimed(jobs[j], w)]
  /\ SetCall(w, [IdleCall EXCEPT !.pc = "return", !.cur = j])
  /\ UNCHANGED <<account, hb, alive, holds, retrying>>

ClaimTake(w) ==
  LET j == Candidate(w) IN
  /\ call[w].pc = "try" /\ call[w].cands # {}
  /\ ~ ClaimRefused(j)
  /\ ~ KeyTaken(jobs[j].logical, j)
  /\ jobs[j].attempts < AttemptCap
  /\ jobs' = [jobs EXCEPT ![j] = Claimed(jobs[j], w)]
  /\ SetCall(w, IF IsAutoLearn(j)
                THEN [call[w] EXCEPT !.pc = "check", !.cur = j, !.cands = @ \ {j}]
                ELSE [IdleCall EXCEPT !.pc = "return", !.cur = j])
  /\ UNCHANGED <<account, hb, alive, holds, retrying>>

\* The claim of a row whose key another row holds raises P2002 out of
\* claimNextJob: the request ends with status 500.
ClaimError(w) ==
  LET j == Candidate(w) IN
  /\ call[w].pc = "try" /\ call[w].cands # {}
  /\ ~ ClaimRefused(j)
  /\ KeyTaken(jobs[j].logical, j)
  /\ SetCall(w, IdleCall)
  /\ UNCHANGED <<jobs, account, hb, alive, holds, retrying>>

\* The count of the user's other RUNNING AUTOLEARN rows ...
ClaimCheck(w) ==
  LET j == call[w].cur IN
  /\ call[w].pc = "check"
  /\ SetCall(w, IF RunningAutoLearn(UserOfRow(j)) \ {j} # {}
                THEN [call[w] EXCEPT !.pc = "requeue"]
                ELSE [IdleCall EXCEPT !.pc = "return", !.cur = j])
  /\ UNCHANGED <<jobs, account, hb, alive, holds, retrying>>

\* ... and, after a conflict, an update by id alone that leaves the key as
\* it finds it.
ClaimRequeue(w) ==
  LET j == call[w].cur IN
  /\ call[w].pc = "requeue"
  /\ jobs' = [jobs EXCEPT ![j].status = "PENDING", ![j].worker = NoWorker,
                          ![j].due = FALSE]
  /\ SetCall(w, [call[w] EXCEPT !.pc = "try", !.cur = NoJob])
  /\ UNCHANGED <<account, hb, alive, holds, retrying>>

\* The response reaches the worker, which starts the job if getJobStatus
\* says RUNNING (whoever runs it).
ClaimReturn(w) ==
  LET j == call[w].cur IN
  /\ call[w].pc = "return"
  /\ holds' = [holds EXCEPT ![w] = IF alive[w] /\ Running(j) THEN j ELSE NoJob]
  /\ SetCall(w, IdleCall)
  /\ UNCHANGED <<jobs, account, hb, alive, retrying>>

\* The request times out, its handler dies, or its response is lost.
ClaimLost(w) ==
  /\ w \in MayLose /\ call[w].pc # "idle"
  /\ SetCall(w, IdleCall)
  /\ UNCHANGED <<jobs, account, hb, alive, holds, retrying>>

-----------------------------------------------------------------------------
(* Reports of workers *)

Owns(w, j) == j # NoJob /\ Running(j) /\ jobs[j].worker = w

\* markJobSucceeded; a truncated AUTOLEARN below the chain limit queues its
\* next segment in the same transaction.
FinishJob(w, truncated) ==
  LET j == holds[w]
      l == jobs[j].logical
      done == [jobs EXCEPT ![j] = Ended(jobs[j], "SUCCEEDED")]
  IN
  /\ Owns(w, j)
  /\ truncated => TypeOf[l] = "AUTOLEARN" /\ NextSegment[l] # NoKey /\ Free # {}
  /\ jobs' = IF truncated THEN Upserted(done, NextSegment[l], 0, TRUE) ELSE done
  /\ holds' = [holds EXCEPT ![w] = NoJob]
  /\ UNCHANGED <<account, hb, alive, call, retrying>>

\* shouldRetryFailedJob, for an error that is or is not worth retrying.
ShouldRetry(l, attempts, retryable) ==
  /\ attempts < MaxAttempts
  /\ ~ (TypeOf[l] = "AUTOLEARN" /\ l \in Cyber)
  /\ TypeOf[l] = "AUTOLEARN" => retryable

\* markJobFailed; the retry row takes over key and attempts.
FailJob(w, retryable) ==
  LET j == holds[w]
      r == jobs[j]
      failed == [jobs EXCEPT ![j] = Ended(r, "FAILED")]
      retry == ShouldRetry(r.logical, r.attempts, retryable)
  IN
  /\ Owns(w, j)
  /\ retry => Free # {}
  /\ jobs' = IF retry THEN Upserted(failed, r.logical, r.attempts, FALSE)
             ELSE failed
  /\ holds' = [holds EXCEPT ![w] = NoJob]
  /\ UNCHANGED <<account, hb, alive, call, retrying>>

\* The worker sees a status other than RUNNING, or its report is refused
\* with "Job ownership mismatch": it drops the job and writes nothing.
AbandonJob(w) ==
  /\ holds[w] # NoJob /\ ~ Owns(w, holds[w])
  /\ holds' = [holds EXCEPT ![w] = NoJob]
  /\ UNCHANGED <<jobs, account, hb, alive, call, retrying>>

TouchHeartbeat(w) ==
  /\ alive[w] /\ hb[w] # "fresh"
  /\ hb' = [hb EXCEPT ![w] = "fresh"]
  /\ UNCHANGED <<jobs, account, alive, holds, call, retrying>>

\* STALE_WORKER_TIMEOUT_MS passes without a heartbeat.
HeartbeatLapse(w) ==
  /\ hb[w] = "fresh"
  /\ alive[w] => w \in MayLapse
  /\ hb' = [hb EXCEPT ![w] = "stale"]
  /\ UNCHANGED <<jobs, account, alive, holds, call, retrying>>

\* The Actions run ends: crash, cancellation, or the end of a --once run.
\* Its claim request may still be served.
WorkerExit(w) ==
  /\ w \in MayCrash /\ alive[w]
  /\ alive' = [alive EXCEPT ![w] = FALSE]
  /\ holds' = [holds EXCEPT ![w] = NoJob]
  /\ UNCHANGED <<jobs, account, hb, call, retrying>>

-----------------------------------------------------------------------------

Init ==
  /\ jobs = [j \in Job |-> NoRow]
  /\ account = [u \in User |-> "member"]
  /\ hb = [w \in Worker |-> "none"]
  /\ alive = [w \in Worker |-> TRUE]
  /\ holds = [w \in Worker |-> NoJob]
  /\ call = [w \in Worker |-> IdleCall]
  /\ retrying = [a \in Admin |-> NoJob]

ClaimStep(w) ==
  \/ \E j \in Job : Reclaim(w, j)
  \/ ReclaimDone(w)
  \/ \E t \in JobType : ClaimScan(w, t)
  \/ ClaimNothing(w) \/ ClaimSkip(w) \/ ClaimTake(w) \/ ClaimError(w)
  \/ ClaimCheck(w) \/ ClaimRequeue(w) \/ ClaimReturn(w)

ReportStep(w) ==
  \/ \E truncated \in BOOLEAN : FinishJob(w, truncated)
  \/ \E retryable \in BOOLEAN : FailJob(w, retryable)
  \/ AbandonJob(w)

WorkerNext(w) ==
  \/ \E r \in Request : ClaimBegin(w, r)
  \/ ClaimStep(w) \/ ClaimLost(w)
  \/ ReportStep(w)
  \/ TouchHeartbeat(w) \/ HeartbeatLapse(w) \/ WorkerExit(w)

RequestNext ==
  \/ \E l \in Logical, due \in BOOLEAN : EnqueueJob(l, due)
  \/ \E j \in Job : CancelJob(j) \/ BecomeDue(j)
  \/ \E u \in User : RefuseTestUser(u)
  \/ \E u \in User, s \in AccountEdits : SetAccount(u, s)
  \/ \E a \in Admin : RetryWrite(a) \/ \E j \in Job : RetryRead(a, j)
  \/ PurgeHeartbeats

Next == RequestNext \/ \E w \in Worker : WorkerNext(w)

Spec == Init /\ [][Next]_vars

(***************************************************************************)
(* Fairness.  Time passes: runAfter is reached, the heartbeat of a dead    *)
(* worker ages.  The server goes on with the requests it serves.  A worker *)
(* that lives reports what it runs (it finishes, fails or drops the job,   *)
(* whichever), and the workers that cannot die keep polling.  Users,       *)
(* operators and deaths are not fair.                                      *)
(***************************************************************************)
Fairness ==
  /\ \A j \in Job : WF_vars(BecomeDue(j))
  /\ \A w \in Worker : /\ WF_vars(~ alive[w] /\ HeartbeatLapse(w))
                       /\ WF_vars(ClaimStep(w))
                       /\ WF_vars(ReportStep(w))
  /\ \A w \in Worker \ MayCrash : WF_vars(\E r \in Request : ClaimBegin(w, r))

FairSpec == Spec /\ Fairness

-----------------------------------------------------------------------------
(* Properties *)

TypeOK ==
  /\ jobs \in [Job -> Row]
  /\ \A j \in Job : Exists(j) <=> jobs[j].logical \in Logical
  /\ account \in [User -> Account]
  /\ hb \in [Worker -> Heartbeat]
  /\ alive \in [Worker -> BOOLEAN]
  /\ holds \in [Worker -> Job \cup {NoJob}]
  /\ call \in [Worker -> Call]
  /\ retrying \in [Admin -> Job \cup {NoJob}]

\* A key stands for a live row of its own logical job: a finished, failed,
\* canceled or blocked row never keeps the key (it would lock the user out of
\* queueing that job again), and a RUNNING row always has it.
KeyDiscipline ==
  \A j \in Job :
    /\ jobs[j].active # NoKey => /\ jobs[j].status \in {"PENDING", "RUNNING"}
                                /\ jobs[j].active = jobs[j].logical
    /\ Running(j) => jobs[j].active = jobs[j].logical

\* However retries, reclaims, requeues and cancels interleave, a logical job
\* is never RUNNING in two rows at once.
OneRunningRowPerLogicalJob ==
  \A i, j \in Job : Running(i) /\ Running(j) /\ i # j
                      => jobs[i].logical # jobs[j].logical

\* The SYNC and NOTICE_SCAN rows of a user run one at a time, whatever mix of
\* workers claims them: the check of the siblings and the claim share the
\* user's advisory lock.
SyncSerialized ==
  \A u \in User : \A i, j \in RunningSync(u) : i = j

\* w was told that j is its job: it runs it, or the answer is on its way.
Granted(w, j) ==
  /\ Owns(w, j)
  /\ \/ holds[w] = j
     \/ call[w].pc = "return" /\ call[w].cur = j

\* AUTOLEARN is serialized per user: although a claim takes the row first and
\* looks for siblings in a later statement, two workers are never both told to
\* go ahead for the same user.
AutoLearnSerialized ==
  \A v, w \in Worker, i, j \in Job :
    /\ Granted(v, i) /\ IsAutoLearn(i)
    /\ Granted(w, j) /\ IsAutoLearn(j)
    /\ UserOfRow(i) = UserOfRow(j)
    => i = j /\ v = w

\* Every row that waits or runs holds its key, so that a duplicate of it is
\* found by the unique index.
ActiveRowsKeyed ==
  \A j \in Job : jobs[j].status \in {"PENDING", "RUNNING"}
                   => jobs[j].active = jobs[j].logical

\* Seen from a user, the running sync rows and the granted AUTOLEARN rows
\* enter and leave a slot of their own one at a time.
SyncSlots == INSTANCE SerialSlots WITH
  Slot <- User, Occupant <- Job,
  occupants <- [u \in User |-> RunningSync(u)]

LearnSlots == INSTANCE SerialSlots WITH
  Slot <- User, Occupant <- Job,
  occupants <- [u \in User |->
                  {j \in RunningAutoLearn(u) : \E w \in Worker : Granted(w, j)}]

\* The queue implements the serial slots of SYNC and NOTICE_SCAN.
ImplementsSyncSlots == SyncSlots!Spec

\* The queue implements the serial slots of AUTOLEARN.
ImplementsLearnSlots == LearnSlots!Spec

\* The row of a worker that died while running it does not stay RUNNING for
\* it: the next claim of any live worker finds the old heartbeat.  (Unless an
\* operator purges the heartbeats first: no row, no stale worker.)
DeadWorkersJobRecovered ==
  \A w \in Worker, j \in Job :
    (~ alive[w] /\ Owns(w, j)) ~> (~ Owns(w, j) \/ hb[w] = "none")

\* A row that no process runs and no reclaim will find: the response to its
\* claim was lost and its worker stays up, or its worker died and an operator
\* purged the heartbeat.
Stranded(j) ==
  \E w \in Worker : /\ Owns(w, j) /\ holds[w] # j /\ call[w].cur # j
                    /\ alive[w] \/ hb[w] = "none"

\* As long as the requests of one worker get through, a waiting sync row of a
\* member is claimed or canceled in the end, unless a stranded row occupies its
\* user's slot or a row has reached the bound on claims.
SyncRowsServed ==
  \A j \in Job :
    (jobs[j].status = "PENDING" /\ IsSync(j))
      ~> \/ jobs[j].status # "PENDING"
         \/ \E i \in Job : jobs[i].attempts = AttemptCap
         \/ account[UserOfRow(j)] # "member"
         \/ \E i \in RunningSync(UserOfRow(j)) : Stranded(i)

=============================================================================
