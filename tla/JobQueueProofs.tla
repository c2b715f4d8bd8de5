--------------------------- MODULE JobQueueProofs ---------------------------
(***************************************************************************)
(* Theorems about JobQueue, for every number of users, jobs, workers and   *)
(* admins, and for every value of the bounds.                              *)
(***************************************************************************)
EXTENDS JobQueue, WellFoundedInduction, TLAPS

-----------------------------------------------------------------------------
(* The type invariant *)

\* The queue's order has a first element in every set of rows: the oldest row
\* of a set is one of its members.
LEMMA OldestIsMember ==
  ASSUME NEW S \in SUBSET Nat, S # {}
  PROVE  /\ Oldest(S) \in S
         /\ \A i \in S : Oldest(S) <= i
<1> DEFINE R == OpToRel(<, Nat)
<1>1. PICK m \in S : \A i \in S : <<i, m>> \notin R
  <2> HIDE DEF R
  <2> QED BY NatLessThanWellFounded, WFMin DEF R
<1>2. \A i \in S : m <= i
  <2> SUFFICES ASSUME NEW i \in S, ~ (m <= i) PROVE FALSE OBVIOUS
  <2>1. i < m /\ i \in Nat /\ m \in Nat OBVIOUS
  <2>2. <<i, m>> \in R BY <2>1 DEF OpToRel
  <2> QED BY <2>2, <1>1
<1> QED BY <1>2 DEF Oldest

\* A row of the table that holds a job.
Filled(r) == r \in Row /\ r.status # "NONE" /\ r.logical \in Logical

RowOK(r) == r \in Row /\ (r.status # "NONE" <=> r.logical \in Logical)

TableOK(t) == t \in [Job -> Row] /\ \A j \in Job : RowOK(t[j])

\* No operation of the model empties a row.
Keeps(t, next) ==
  TableOK(next) /\ \A j \in Job : t[j].status # "NONE" => next[j].status # "NONE"

\* What a retry or a claim remembers between two of its statements is a row
\* that exists.
Handles ==
  /\ \A a \in Admin : retrying[a] # NoJob => Exists(retrying[a])
  /\ \A w \in Worker : call[w].cur # NoJob => Exists(call[w].cur)

\* Types are inductive together with the handles: a retry or the requeue of a
\* claim writes to a row that was read in an earlier step.
TypeInv == TypeOK /\ Handles

\* Every rewrite that the operations apply to a job's row yields such a row.
LEMMA RowRewrites ==
  ASSUME NEW r, RowOK(r), r.status # "NONE"
  PROVE  /\ \A d \in BOOLEAN : Filled(Requeued(r, d))
         /\ \A w \in Worker : Filled(Claimed(r, w))
         /\ Filled(Canceled(r))
         /\ \A s \in Terminal : Filled(Ended(r, s))
<1>1. /\ r \in Row /\ r.logical \in Logical
      /\ r.logical \in Logical \cup {NoKey}
      /\ r.attempts + 1 \in Nat
  BY DEF RowOK, Row
<1>2. ASSUME NEW d \in BOOLEAN PROVE Filled(Requeued(r, d))
  BY <1>1 DEF Filled, Row, Status, Requeued
<1>3. ASSUME NEW w \in Worker PROVE Filled(Claimed(r, w))
  BY <1>1 DEF Filled, Row, Status, Claimed
<1>4. Filled(Canceled(r))
  BY <1>1 DEF Filled, Row, Status, Canceled
<1>5. ASSUME NEW s \in Terminal PROVE Filled(Ended(r, s))
  BY <1>1 DEF Filled, Row, Status, Terminal, Ended
<1> QED BY <1>2, <1>3, <1>4, <1>5

LEMMA NewRowFilled ==
  ASSUME NEW l \in Logical, NEW n \in Nat, NEW d \in BOOLEAN
  PROVE  Filled(NewRow(l, n, d))
BY ConstantsAssumption DEF Filled, Row, Status, NewRow

\* Filling one row, wherever it is, leaves a table.
LEMMA FillOne ==
  ASSUME NEW t, TableOK(t), NEW x, NEW r, Filled(r)
  PROVE  Keeps(t, [t EXCEPT ![x] = r])
BY DEF TableOK, RowOK, Filled, Keeps

LEMMA UpsertKeeps ==
  ASSUME NEW t, TableOK(t), NEW l \in Logical, NEW n \in Nat, NEW d \in BOOLEAN
  PROVE  Keeps(t, Upserted(t, l, n, d))
<1>1. Filled(NewRow(l, n, d)) BY NewRowFilled
<1> QED BY <1>1, FillOne DEF Upserted, Keeps

\* The sweep of a test user's sync rows cancels rows of the table only.
LEMMA SweepKeeps ==
  ASSUME TableOK(jobs), NEW U
  PROVE  Keeps(jobs, WithoutTestUserSync(U))
<1>1. ASSUME NEW j \in TestUserSync(U)
      PROVE  Filled(Canceled(jobs[j]))
  <2>1. j \in Job /\ jobs[j].status # "NONE"
    BY DEF TestUserSync
  <2> QED BY <2>1, RowRewrites DEF TableOK
<1> QED BY <1>1 DEF WithoutTestUserSync, TableOK, RowOK, Filled, Keeps

LEMMA TableType == TypeOK => TableOK(jobs)
BY DEF TypeOK, TableOK, RowOK, Exists

LEMMA KeptRows ==
  ASSUME Keeps(jobs, jobs')
  PROVE  /\ jobs' \in [Job -> Row]
         /\ \A j \in Job : Exists(j)' <=> jobs'[j].logical \in Logical
         /\ \A j \in Job : Exists(j) => Exists(j)'
BY DEF Keeps, TableOK, RowOK, Exists

\* A step that rewrites the table and nothing else preserves the types.
LEMMA TableStep ==
  ASSUME TypeInv, Keeps(jobs, jobs'),
         UNCHANGED <<account, hb, alive, holds, call, retrying>>
  PROVE  TypeInv'
<1>1. TypeOK' BY KeptRows DEF TypeInv, TypeOK
<1>2. Handles' BY KeptRows DEF TypeInv, TypeOK, Handles, Call
<1> QED BY <1>1, <1>2 DEF TypeInv

\* Every step of a user or an operator preserves the types.
LEMMA RequestsPreserveTypes == TypeInv /\ RequestNext => TypeInv'
<1> SUFFICES ASSUME TypeInv, RequestNext PROVE TypeInv'
  OBVIOUS
<1>0. TableOK(jobs) BY TableType DEF TypeInv
<1>1. ASSUME NEW l \in Logical, NEW due \in BOOLEAN, EnqueueJob(l, due)
      PROVE  TypeInv'
  <2>1. Filled(NewRow(l, 0, due)) BY NewRowFilled
  <2> QED BY <1>0, <1>1, <2>1, FillOne, TableStep DEF EnqueueJob
<1>2. ASSUME NEW j \in Job, CancelJob(j) PROVE TypeInv'
  <2>1. Filled(Canceled(jobs[j]))
    BY <1>0, <1>2, RowRewrites DEF TableOK, CancelJob
  <2> QED BY <1>0, <1>2, <2>1, FillOne, TableStep DEF CancelJob
<1>3. ASSUME NEW j \in Job, BecomeDue(j) PROVE TypeInv'
  <2>1. Filled([jobs[j] EXCEPT !.due = TRUE])
    BY <1>0, <1>3 DEF TableOK, RowOK, Filled, Row, BecomeDue
  <2> QED BY <1>0, <1>3, <2>1, FillOne, TableStep DEF BecomeDue
<1>4. ASSUME NEW u \in User, RefuseTestUser(u) PROVE TypeInv'
  BY <1>0, <1>4, SweepKeeps, TableStep DEF RefuseTestUser
<1>5. ASSUME NEW u \in User, NEW s \in AccountEdits, SetAccount(u, s)
      PROVE  TypeInv'
  BY <1>5, ConstantsAssumption DEF SetAccount, TypeInv, TypeOK, Handles, Exists
<1>6. ASSUME NEW a \in Admin, NEW j \in Job, RetryRead(a, j) PROVE TypeInv'
  <2>1. Exists(j) BY <1>6 DEF RetryRead, Terminal, Exists
  <2> QED BY <1>6, <2>1 DEF RetryRead, TypeInv, TypeOK, Handles, Exists
<1>7. ASSUME NEW a \in Admin, RetryWrite(a) PROVE TypeInv'
  <2>1. Filled(Requeued(jobs[retrying[a]], TRUE))
    <3>1. retrying[a] \in Job /\ Exists(retrying[a])
      BY <1>7 DEF RetryWrite, TypeInv, TypeOK, Handles
    <3> QED BY <1>0, <3>1, RowRewrites DEF TableOK, Exists
  <2>2. Keeps(jobs, jobs')
    BY <1>0, <1>7, <2>1, FillOne DEF RetryWrite, Keeps
  <2>3. TypeOK' BY <1>7, <2>2, KeptRows DEF RetryWrite, TypeInv, TypeOK
  <2>4. Handles'
    BY <1>7, <2>2, KeptRows DEF RetryWrite, TypeInv, TypeOK, Handles, Call
  <2> QED BY <2>3, <2>4 DEF TypeInv
<1>8. CASE PurgeHeartbeats
  BY <1>8 DEF PurgeHeartbeats, TypeInv, TypeOK, Handles, Heartbeat, Exists
<1> QED BY <1>1, <1>2, <1>3, <1>4, <1>5, <1>6, <1>7, <1>8 DEF RequestNext

\* A step of w's claim preserves the types if the call that it leaves is one.
LEMMA ClaimStepTypes ==
  ASSUME TypeInv, NEW w \in Worker, NEW c \in Call,
         c.cur # NoJob => Exists(c.cur),
         SetCall(w, c), Keeps(jobs, jobs'),
         hb' \in [Worker -> Heartbeat], holds' \in [Worker -> Job \cup {NoJob}],
         UNCHANGED <<account, alive, retrying>>
  PROVE  TypeInv'
<1>1. TypeOK' BY KeptRows DEF TypeInv, TypeOK, SetCall
<1>2. ASSUME NEW v \in Worker, call'[v].cur # NoJob
      PROVE  jobs'[call'[v].cur].status # "NONE"
  <2>1. PICK d \in Call : d = call'[v] /\ (d.cur # NoJob => Exists(d.cur))
    BY DEF TypeInv, TypeOK, Handles, SetCall
  <2>2. d.cur \in Job /\ Exists(d.cur) BY <1>2, <2>1 DEF Call
  <2> QED BY <2>1, <2>2, KeptRows DEF Exists
<1>3. \A a \in Admin : retrying'[a] # NoJob => jobs'[retrying'[a]].status # "NONE"
  BY KeptRows DEF TypeInv, TypeOK, Handles, Exists
<1> QED BY <1>1, <1>2, <1>3 DEF TypeInv, Handles, Exists

LEMMA ClaimsPreserveTypes ==
  ASSUME TypeInv, NEW w \in Worker, ClaimStep(w) \/ ClaimLost(w)
  PROVE  TypeInv'
<1>0. /\ TableOK(jobs) /\ Keeps(jobs, jobs)
      /\ hb \in [Worker -> Heartbeat] /\ holds \in [Worker -> Job \cup {NoJob}]
      /\ call[w] \in Call /\ IdleCall \in Call /\ IdleCall.cur = NoJob
      /\ call[w].cands \subseteq Job /\ call[w].cur \in Job \cup {NoJob}
      /\ call[w].cur # NoJob => Exists(call[w].cur)
  BY TableType DEF TypeInv, TypeOK, Handles, Keeps, Call, IdleCall
<1>1. ASSUME NEW j \in Job, Reclaim(w, j) PROVE TypeInv'
  <2>1. /\ Filled(Ended(jobs[j], "FAILED"))
        /\ Filled(Requeued(jobs[j], FALSE))
    BY <1>0, <1>1, RowRewrites DEF TableOK, Reclaim, StaleJob, Running, Terminal
  <2>2. Keeps(jobs, jobs')
    BY <1>0, <1>1, <2>1, FillOne DEF Reclaim
  <2> QED BY <1>1, <2>2, TableStep DEF Reclaim
<1>2. CASE ReclaimDone(w)
  <2> DEFINE c == [call[w] EXCEPT !.pc = "scan", !.stale = {}]
  <2>1. c \in Call /\ c.cur = call[w].cur BY <1>0 DEF Call
  <2> QED BY <1>0, <1>2, <2>1, ClaimStepTypes DEF ReclaimDone
<1>3. ASSUME NEW t \in JobType, ClaimScan(w, t) PROVE TypeInv'
  <2> DEFINE c == [call[w] EXCEPT !.pc = "try", !.types = @ \ {t},
                                  !.cands = Candidates(t, call[w].users)]
  <2>1. c \in Call /\ c.cur = call[w].cur
    BY <1>0 DEF Call, Candidates
  <2> QED BY <1>0, <1>3, <2>1, ClaimStepTypes DEF ClaimScan
<1>4. CASE ClaimNothing(w) \/ ClaimError(w) \/ ClaimLost(w)
  BY <1>0, <1>4, ClaimStepTypes DEF ClaimNothing, ClaimError, ClaimLost
<1>5. CASE ClaimSkip(w)
  <2>1. CASE call[w].cands = {}
    <3> DEFINE c == [call[w] EXCEPT !.pc = "scan"]
    <3>1. c \in Call /\ c.cur = call[w].cur BY <1>0 DEF Call
    <3> QED BY <1>0, <1>5, <2>1, <3>1, ClaimStepTypes DEF ClaimSkip
  <2>2. CASE call[w].cands # {}
    <3> DEFINE c == [call[w] EXCEPT !.cands = @ \ {Candidate(w)}]
    <3>1. c \in Call /\ c.cur = call[w].cur BY <1>0 DEF Call
    <3> QED BY <1>0, <1>5, <2>2, <3>1, ClaimStepTypes DEF ClaimSkip
  <2> QED BY <2>1, <2>2
<1>6. CASE ClaimTake(w)
  <2> DEFINE j == Candidate(w)
             c == IF IsAutoLearn(j)
                  THEN [call[w] EXCEPT !.pc = "check", !.cur = j,
                                       !.cands = @ \ {j}]
                  ELSE [IdleCall EXCEPT !.pc = "return", !.cur = j]
  <2>1. j \in Job /\ jobs[j].status = "PENDING"
    BY <1>0, <1>6, OldestIsMember DEF ClaimTake, ClaimRefused, Candidate, Job
  <2>2. c \in Call /\ c.cur = j BY <1>0, <2>1 DEF Call, IdleCall
  <2>3. Filled(Claimed(jobs[j], w))
    BY <1>0, <2>1, RowRewrites DEF TableOK
  <2>4. Keeps(jobs, jobs') /\ SetCall(w, c)
    BY <1>0, <1>6, <2>3, FillOne DEF ClaimTake
  <2>5. Exists(c.cur) BY <2>1, <2>2 DEF Exists
  <2> HIDE DEF j, c
  <2> QED BY <1>0, <1>6, <2>2, <2>4, <2>5, ClaimStepTypes DEF ClaimTake
<1>7. CASE ClaimCheck(w)
  <2> DEFINE c == IF RunningAutoLearn(UserOfRow(call[w].cur)) \ {call[w].cur} # {}
                  THEN [call[w] EXCEPT !.pc = "requeue"]
                  ELSE [IdleCall EXCEPT !.pc = "return", !.cur = call[w].cur]
  <2>1. c \in Call /\ c.cur = call[w].cur BY <1>0 DEF Call, IdleCall
  <2>2. SetCall(w, c) BY <1>7 DEF ClaimCheck
  <2> HIDE DEF c
  <2> QED BY <1>0, <1>7, <2>1, <2>2, ClaimStepTypes DEF ClaimCheck
<1>8. CASE ClaimRequeue(w)
  <2> DEFINE j == call[w].cur
             r == [jobs[j] EXCEPT !.status = "PENDING", !.worker = NoWorker,
                                  !.due = FALSE]
             c == [call[w] EXCEPT !.pc = "try", !.cur = NoJob]
  <2>1. c \in Call /\ c.cur = NoJob BY <1>0 DEF Call
  <2>2. Keeps(jobs, jobs')
    <3>1. CASE j = NoJob
      <4>1. jobs' = jobs
        BY <1>0, <1>8, <3>1 DEF ClaimRequeue, TableOK, Job, NoJob
      <4> QED BY <1>0, <4>1
    <3>2. CASE j # NoJob
      <4>0. jobs[j] \in Row /\ jobs[j].logical \in Logical
        BY <1>0, <3>2 DEF TableOK, RowOK, Exists
      <4>1. Filled(r) BY <4>0 DEF Row, Status, Filled
      <4>2. jobs' = [jobs EXCEPT ![j] = r]
        BY <1>0, <1>8, <3>2 DEF ClaimRequeue, TableOK
      <4> QED BY <1>0, <4>1, <4>2, FillOne
    <3> QED BY <3>1, <3>2
  <2> QED BY <1>0, <1>8, <2>1, <2>2, ClaimStepTypes DEF ClaimRequeue
<1>9. CASE ClaimReturn(w)
  <2>1. holds' \in [Worker -> Job \cup {NoJob}]
    BY <1>0, <1>9 DEF ClaimReturn
  <2> QED BY <1>0, <1>9, <2>1, ClaimStepTypes DEF ClaimReturn
<1> QED BY <1>1, <1>2, <1>3, <1>4, <1>5, <1>6, <1>7, <1>8, <1>9 DEF ClaimStep

LEMMA ReportsPreserveTypes ==
  ASSUME TypeInv, NEW w \in Worker, ReportStep(w)
  PROVE  TypeInv'
<1> DEFINE j == holds[w]
           r == jobs[j]
<1>0. TableOK(jobs) /\ holds \in [Worker -> Job \cup {NoJob}]
  BY TableType DEF TypeInv, TypeOK
<1>a. ASSUME Keeps(jobs, jobs'), holds' \in [Worker -> Job \cup {NoJob}],
             UNCHANGED <<account, hb, alive, call, retrying>>
      PROVE  TypeInv'
  <2>1. TypeOK' BY <1>a, KeptRows DEF TypeInv, TypeOK
  <2>2. Handles' BY <1>a, KeptRows DEF TypeInv, TypeOK, Handles, Call
  <2> QED BY <2>1, <2>2 DEF TypeInv
<1>b. ASSUME Owns(w, j)
      PROVE  /\ j \in Job /\ r.logical \in Logical /\ r.attempts \in Nat
             /\ Filled(Ended(r, "SUCCEEDED")) /\ Filled(Ended(r, "FAILED"))
  <2>1. j \in Job /\ r.status # "NONE" BY <1>0, <1>b DEF Owns, Running
  <2>2. RowOK(r) BY <1>0, <2>1 DEF TableOK
  <2> QED BY <2>1, <2>2, RowRewrites DEF Terminal, RowOK, Row
<1>c. ASSUME NEW t, Keeps(jobs, t), NEW l \in Logical, NEW n \in Nat,
             NEW d \in BOOLEAN
      PROVE  Keeps(jobs, Upserted(t, l, n, d))
  BY <1>c, UpsertKeeps DEF Keeps
<1>1. ASSUME NEW truncated \in BOOLEAN, FinishJob(w, truncated) PROVE TypeInv'
  <2> DEFINE done == [jobs EXCEPT ![j] = Ended(r, "SUCCEEDED")]
  <2>1. Owns(w, j) BY <1>1 DEF FinishJob
  <2>2. Keeps(jobs, done) BY <1>0, <1>b, <2>1, FillOne
  <2>3. truncated => NextSegment[r.logical] \in Logical
    BY <1>1, <1>b, <2>1, ConstantsAssumption DEF FinishJob
  <2>4. jobs' = IF truncated THEN Upserted(done, NextSegment[r.logical], 0, TRUE)
                ELSE done
    BY <1>1 DEF FinishJob
  <2> HIDE DEF done
  <2>5. Keeps(jobs, jobs') BY <1>c, <2>2, <2>3, <2>4
  <2> QED BY <1>0, <1>1, <1>a, <2>5 DEF FinishJob
<1>2. ASSUME NEW retryable \in BOOLEAN, FailJob(w, retryable) PROVE TypeInv'
  <2> DEFINE failed == [jobs EXCEPT ![j] = Ended(r, "FAILED")]
  <2>1. Owns(w, j) BY <1>2 DEF FailJob
  <2>2. Keeps(jobs, failed) BY <1>0, <1>b, <2>1, FillOne
  <2>3. jobs' \in {failed, Upserted(failed, r.logical, r.attempts, FALSE)}
    BY <1>2 DEF FailJob
  <2> HIDE DEF failed
  <2>4. Keeps(jobs, Upserted(failed, r.logical, r.attempts, FALSE))
    BY <1>b, <1>c, <2>1, <2>2
  <2>5. Keeps(jobs, jobs') BY <2>2, <2>3, <2>4
  <2> QED BY <1>0, <1>2, <1>a, <2>5 DEF FailJob
<1>3. CASE AbandonJob(w)
  <2>1. Keeps(jobs, jobs') BY <1>0, <1>3 DEF AbandonJob, Keeps
  <2> QED BY <1>0, <1>3, <1>a, <2>1 DEF AbandonJob
<1> QED BY <1>1, <1>2, <1>3 DEF ReportStep

LEMMA WorkersPreserveTypes ==
  ASSUME TypeInv, NEW w \in Worker, WorkerNext(w)
  PROVE  TypeInv'
<1>0. TableOK(jobs) /\ Keeps(jobs, jobs) BY TableType DEF TypeInv, Keeps
<1>1. ASSUME NEW q \in Request, ClaimBegin(w, q) PROVE TypeInv'
  <2> DEFINE c == [IdleCall EXCEPT !.pc = "reclaim", !.types = q.types,
                     !.users = q.users,
                     !.stale = {v \in Worker \ {w} : hb[v] = "stale"}]
  <2>1. q \in [types : SUBSET JobType, users : SUBSET User]
    BY ConstantsAssumption
  <2>2. c \in Call /\ c.cur = NoJob BY <2>1 DEF Call, IdleCall
  <2>3. Keeps(jobs, jobs') BY <1>0, <1>1, SweepKeeps DEF ClaimBegin
  <2>4. /\ hb' \in [Worker -> Heartbeat] /\ holds' \in [Worker -> Job \cup {NoJob}]
        /\ SetCall(w, c) /\ UNCHANGED <<account, alive, retrying>>
    BY <1>1 DEF ClaimBegin, TypeInv, TypeOK, Heartbeat
  <2> HIDE DEF c
  <2> QED BY <2>2, <2>3, <2>4, ClaimStepTypes
<1>2. CASE TouchHeartbeat(w)
  BY <1>2 DEF TouchHeartbeat, TypeInv, TypeOK, Handles, Heartbeat, Exists
<1>3. CASE HeartbeatLapse(w)
  BY <1>3 DEF HeartbeatLapse, TypeInv, TypeOK, Handles, Heartbeat, Exists
<1>4. CASE WorkerExit(w)
  BY <1>4 DEF WorkerExit, TypeInv, TypeOK, Handles, Exists
<1> QED BY <1>1, <1>2, <1>3, <1>4, ClaimsPreserveTypes, ReportsPreserveTypes
        DEF WorkerNext

LEMMA TypeInvInductive ==
  /\ Init => TypeInv
  /\ TypeInv /\ [Next]_vars => TypeInv'
<1>1. Init => TypeInv
  <2> SUFFICES ASSUME Init PROVE TypeInv OBVIOUS
  <2>1. NoRow \in Row BY DEF NoRow, Row, Status
  <2>2. IdleCall \in Call BY DEF IdleCall, Call
  <2>3. TypeOK
    BY <2>1, <2>2, ConstantsAssumption
    DEF Init, TypeOK, Exists, NoRow, Account, Heartbeat
  <2>4. Handles BY DEF Init, Handles, IdleCall
  <2> QED BY <2>3, <2>4 DEF TypeInv
<1>2. TypeInv /\ [Next]_vars => TypeInv'
  <2> SUFFICES ASSUME TypeInv, [Next]_vars PROVE TypeInv' OBVIOUS
  <2>1. CASE RequestNext BY <2>1, RequestsPreserveTypes
  <2>2. ASSUME NEW w \in Worker, WorkerNext(w) PROVE TypeInv'
    BY <2>2, WorkersPreserveTypes
  <2>3. CASE UNCHANGED vars
    BY <2>3 DEF vars, TypeInv, TypeOK, Handles, Exists
  <2> QED BY <2>1, <2>2, <2>3 DEF Next
<1> QED BY <1>1, <1>2

\* The table, the claim calls and the heartbeats keep their types whatever
\* claims, reports, retries, sweeps and deaths do: in particular no operation
\* of queue.ts turns an absent row into a job without a user and a type.
THEOREM TypesCorrect == Spec => []TypeOK
<1>1. TypeInv => TypeOK BY DEF TypeInv
<1> QED BY <1>1, TypeInvInductive, PTL DEF Spec

-----------------------------------------------------------------------------
(* Keys and running rows *)

\* KeyDiscipline of one row.
Keyed(r) ==
  /\ r.active # NoKey => /\ r.status \in {"PENDING", "RUNNING"}
                         /\ r.active = r.logical
  /\ r.status = "RUNNING" => r.active = r.logical

\* The unique index: NULL apart, no two rows share activeDedupeKey.
UniqueKeys(t) ==
  \A i, j \in Job : i # j /\ t[i].active = t[j].active => t[i].active = NoKey

KeyInv == TypeInv /\ (\A j \in Job : Keyed(jobs[j])) /\ UniqueKeys(jobs)

\* A rewrite of t that starts no job: what runs afterwards ran before, in the
\* very same row.  Every operation but a claim is of this kind.
Starts(t, next) == \E j \in Job : next[j].status = "RUNNING" /\ next[j] # t[j]

\* next follows the table t: keys stay in order and nothing starts.
Orderly(t, next) ==
  (\A j \in Job : Keyed(next[j])) /\ UniqueKeys(next) /\ ~ Starts(t, next)

\* Rewriting a row under a key that no other row holds keeps the keys unique.
LEMMA RekeyOne ==
  ASSUME NEW t, TableOK(t), \A j \in Job : Keyed(t[j]), UniqueKeys(t),
         NEW x, NEW r, Keyed(r),
         \A i \in Job \ {x} : t[i].active = r.active => r.active = NoKey
  PROVE  /\ \A j \in Job : Keyed([t EXCEPT ![x] = r][j])
         /\ UniqueKeys([t EXCEPT ![x] = r])
BY DEF TableOK, UniqueKeys

LEMMA RewriteOrderly ==
  ASSUME KeyInv, NEW x, NEW r, Keyed(r), r.status # "RUNNING",
         \A i \in Job \ {x} : jobs[i].active = r.active => r.active = NoKey
  PROVE  Orderly(jobs, [jobs EXCEPT ![x] = r])
<1>1. TableOK(jobs) BY TableType DEF KeyInv, TypeInv
<1> QED BY <1>1, RekeyOne DEF KeyInv, Orderly, Starts, TableOK

\* An end or a cancellation releases the key, so it disturbs no other row.
LEMMA ReleaseOrderly ==
  ASSUME KeyInv, NEW x, NEW r, r.active = NoKey, r.status # "RUNNING"
  PROVE  Orderly(jobs, [jobs EXCEPT ![x] = r])
BY RewriteOrderly DEF Keyed

LEMMA SweepOrderly ==
  ASSUME KeyInv, NEW U
  PROVE  Orderly(jobs, WithoutTestUserSync(U))
<1> DEFINE n == WithoutTestUserSync(U)
<1>1. ASSUME NEW j \in Job
      PROVE  \/ n[j] = jobs[j]
             \/ n[j].active = NoKey /\ n[j].status = "CANCELED"
  <2>1. jobs[j] \in Row BY DEF KeyInv, TypeInv, TypeOK
  <2> QED BY <2>1 DEF WithoutTestUserSync, Canceled, Row
<1> HIDE DEF n
<1>2. \A j \in Job : Keyed(n[j]) BY <1>1 DEF KeyInv, Keyed
<1>3. ASSUME NEW i \in Job, NEW j \in Job, i # j, n[i].active = n[j].active
      PROVE  n[i].active = NoKey
  BY <1>1, <1>3 DEF KeyInv, UniqueKeys
<1>4. ~ Starts(jobs, n) BY <1>1 DEF Starts
<1> QED BY <1>2, <1>3, <1>4 DEF Orderly, UniqueKeys, n

\* A claim starts one row, which takes its key: only if no other row holds it.
LEMMA ClaimTakeKeys ==
  ASSUME KeyInv, NEW w \in Worker, ClaimTake(w)
  PROVE  /\ Candidate(w) \in Job
         /\ jobs' = [jobs EXCEPT ![Candidate(w)] = Claimed(jobs[Candidate(w)], w)]
         /\ \A j \in Job : Keyed(jobs'[j])
         /\ UniqueKeys(jobs')
<1> DEFINE j == Candidate(w)
           r == Claimed(jobs[j], w)
<1>1. TableOK(jobs) BY TableType DEF KeyInv, TypeInv
<1>2. j \in Job
  <2>1. call[w].cands \in SUBSET Job BY DEF KeyInv, TypeInv, TypeOK, Call
  <2> QED BY <2>1, OldestIsMember DEF ClaimTake, Candidate, Job
<1>3. r.status = "RUNNING" /\ r.active = jobs[j].logical /\ r.logical = r.active
  <2>1. jobs[j] \in Row BY <1>1, <1>2 DEF TableOK
  <2> QED BY <2>1 DEF Claimed, Row
<1>4. Keyed(r) BY <1>3 DEF Keyed
<1>5. \A i \in Job \ {j} : jobs[i].active # r.active
  BY <1>3 DEF ClaimTake, KeyTaken
<1>6. jobs' = [jobs EXCEPT ![j] = r] BY DEF ClaimTake
<1> HIDE DEF j, r
<1>7. (\A i \in Job : Keyed(jobs'[i])) /\ UniqueKeys(jobs')
  BY <1>1, <1>4, <1>5, <1>6, RekeyOne DEF KeyInv
<1> QED BY <1>2, <1>6, <1>7 DEF j, r

\* No step but the taking of a row by a claim starts a job.
LEMMA RequestsOrderly ==
  ASSUME KeyInv, RequestNext
  PROVE  Orderly(jobs, jobs')
<1>0. /\ TableOK(jobs) /\ Orderly(jobs, jobs)
      /\ \A j \in Job : Keyed(jobs[j]) /\ jobs[j] \in Row
  BY TableType DEF KeyInv, TypeInv, Orderly, Starts, TableOK
<1>1. ASSUME NEW l \in Logical, NEW due \in BOOLEAN, EnqueueJob(l, due)
      PROVE  Orderly(jobs, jobs')
  <2> DEFINE r == NewRow(l, 0, due)
  <2>1. Keyed(r) /\ r.status # "RUNNING" /\ r.active = l
    BY DEF NewRow, Keyed
  <2>2. \A i \in Job : jobs[i].active # l
    BY <1>1 DEF EnqueueJob, KeyTaken, Job, NoJob
  <2> HIDE DEF r
  <2>3. jobs' = [jobs EXCEPT ![Oldest(Free)] = r] BY <1>1 DEF EnqueueJob, r
  <2> QED BY <2>1, <2>2, <2>3, RewriteOrderly
<1>2. ASSUME NEW j \in Job, CancelJob(j) PROVE Orderly(jobs, jobs')
  <2>1. Canceled(jobs[j]).active = NoKey /\ Canceled(jobs[j]).status # "RUNNING"
    BY <1>0 DEF Canceled, Row
  <2> QED BY <1>2, <2>1, ReleaseOrderly DEF CancelJob
<1>3. ASSUME NEW j \in Job, BecomeDue(j) PROVE Orderly(jobs, jobs')
  <2> DEFINE r == [jobs[j] EXCEPT !.due = TRUE]
  <2>1. /\ r.active = jobs[j].active /\ r.status = jobs[j].status
        /\ r.logical = jobs[j].logical
    BY <1>0 DEF Row
  <2>2. Keyed(r) /\ r.status # "RUNNING"
    BY <1>0, <1>3, <2>1 DEF Keyed, BecomeDue
  <2>3. jobs' = [jobs EXCEPT ![j] = r] BY <1>0, <1>3 DEF BecomeDue, TableOK
  <2> HIDE DEF r
  <2> QED BY <2>1, <2>2, <2>3, RewriteOrderly DEF KeyInv, UniqueKeys
<1>4. ASSUME NEW u \in User, RefuseTestUser(u) PROVE Orderly(jobs, jobs')
  BY <1>4, SweepOrderly DEF RefuseTestUser
<1>5. ASSUME NEW a \in Admin, RetryWrite(a) PROVE Orderly(jobs, jobs')
  <2> DEFINE j == retrying[a]
             r == Requeued(jobs[j], TRUE)
  <2>1. CASE KeyTaken(jobs[j].logical, j)
    BY <1>0, <1>5, <2>1 DEF RetryWrite
  <2>2. CASE ~ KeyTaken(jobs[j].logical, j)
    <3>1. j \in Job BY <1>5 DEF RetryWrite, KeyInv, TypeInv, TypeOK
    <3>2. /\ r.status = "PENDING" /\ r.active = jobs[j].logical
          /\ r.logical = jobs[j].logical
      BY <1>0, <3>1 DEF Requeued, Row
    <3>3. Keyed(r) /\ r.status # "RUNNING" BY <3>2 DEF Keyed
    <3>4. \A i \in Job \ {j} : jobs[i].active # r.active
      BY <2>2, <3>2 DEF KeyTaken
    <3>5. jobs' = [jobs EXCEPT ![j] = r] BY <1>5, <2>2 DEF RetryWrite
    <3> HIDE DEF j, r
    <3> QED BY <3>3, <3>4, <3>5, RewriteOrderly
  <2> QED BY <2>1, <2>2
<1>6. CASE UNCHANGED jobs
  BY <1>0, <1>6
<1> QED BY <1>1, <1>2, <1>3, <1>4, <1>5, <1>6
        DEF RequestNext, SetAccount, RetryRead, PurgeHeartbeats

LEMMA ClaimsOrderly ==
  ASSUME KeyInv, NEW w \in Worker, ClaimStep(w), ~ ClaimTake(w)
  PROVE  Orderly(jobs, jobs')
<1>0. /\ TableOK(jobs) /\ Orderly(jobs, jobs)
      /\ \A j \in Job : Keyed(jobs[j]) /\ jobs[j] \in Row
  BY TableType DEF KeyInv, TypeInv, Orderly, Starts, TableOK
<1>1. ASSUME NEW j \in Job, Reclaim(w, j) PROVE Orderly(jobs, jobs')
  <2>1. CASE ReclaimMarksFailed(jobs[j].logical)
    <3>1. /\ Ended(jobs[j], "FAILED").active = NoKey
          /\ Ended(jobs[j], "FAILED").status # "RUNNING"
      BY <1>0 DEF Ended, Row
    <3> QED BY <1>1, <2>1, <3>1, ReleaseOrderly DEF Reclaim
  <2>2. CASE ~ ReclaimMarksFailed(jobs[j].logical)
    <3> DEFINE r == Requeued(jobs[j], FALSE)
    <3>1. Running(j) BY <1>1 DEF Reclaim, StaleJob
    <3>2. /\ r.status = "PENDING" /\ r.active = jobs[j].active
          /\ r.logical = jobs[j].logical /\ r.active = r.logical
      BY <1>0, <3>1 DEF Requeued, Row, Keyed, Running
    <3>3. Keyed(r) /\ r.status # "RUNNING" BY <3>2 DEF Keyed
    <3>4. jobs' = [jobs EXCEPT ![j] = r] BY <1>1, <2>2 DEF Reclaim
    <3> HIDE DEF r
    <3> QED BY <3>2, <3>3, <3>4, RewriteOrderly DEF KeyInv, UniqueKeys
  <2> QED BY <2>1, <2>2
<1>2. CASE ClaimRequeue(w)
  <2> DEFINE j == call[w].cur
             r == [jobs[j] EXCEPT !.status = "PENDING", !.worker = NoWorker,
                                  !.due = FALSE]
  <2>1. CASE j \notin Job
    <3>1. jobs' = jobs
      BY <1>0, <1>2, <2>1 DEF ClaimRequeue, TableOK
    <3> QED BY <1>0, <3>1
  <2>2. CASE j \in Job
    <3>1. /\ r.status = "PENDING" /\ r.active = jobs[j].active
          /\ r.logical = jobs[j].logical
      BY <1>0, <2>2 DEF Row
    <3>2. Keyed(r) /\ r.status # "RUNNING" BY <1>0, <2>2, <3>1 DEF Keyed
    <3>3. jobs' = [jobs EXCEPT ![j] = r]
      BY <1>0, <1>2, <2>2 DEF ClaimRequeue, TableOK
    <3> HIDE DEF j, r
    <3> QED BY <2>2, <3>1, <3>2, <3>3, RewriteOrderly DEF KeyInv, UniqueKeys
  <2> QED BY <2>1, <2>2
<1>3. CASE UNCHANGED jobs
  BY <1>0, <1>3
<1> QED BY <1>1, <1>2, <1>3
        DEF ClaimStep, ReclaimDone, ClaimScan, ClaimNothing, ClaimSkip,
            ClaimError, ClaimCheck, ClaimReturn

\* The row that replaces a finished or failed one takes a key only if it is
\* free once the old row has released its own.
LEMMA UpsertOrderly ==
  ASSUME KeyInv, NEW t, TableOK(t), Orderly(jobs, t), NEW l \in Logical,
         NEW n, NEW d
  PROVE  Orderly(jobs, Upserted(t, l, n, d))
<1> DEFINE r == NewRow(l, n, d)
           x == Oldest(Free)
<1>1. CASE \E i \in Job : t[i].active = l
  BY <1>1 DEF Upserted
<1>2. CASE \A i \in Job : t[i].active # l
  <2>1. Keyed(r) /\ r.status # "RUNNING" /\ r.active = l
    BY DEF NewRow, Keyed
  <2>2. Upserted(t, l, n, d) = [t EXCEPT ![x] = r] BY <1>2 DEF Upserted
  <2> HIDE DEF r, x
  <2>3. /\ \A j \in Job : Keyed([t EXCEPT ![x] = r][j])
        /\ UniqueKeys([t EXCEPT ![x] = r])
    BY <1>2, <2>1, RekeyOne DEF Orderly
  <2>4. ~ Starts(jobs, [t EXCEPT ![x] = r])
    BY <2>1 DEF Orderly, Starts, TableOK
  <2> QED BY <2>2, <2>3, <2>4 DEF Orderly
<1> QED BY <1>1, <1>2

LEMMA ReportsOrderly ==
  ASSUME KeyInv, NEW w \in Worker, ReportStep(w)
  PROVE  Orderly(jobs, jobs')
<1> DEFINE j == holds[w]
           r == jobs[j]
           end(s) == [jobs EXCEPT ![j] = Ended(r, s)]
<1>0. TableOK(jobs) BY TableType DEF KeyInv, TypeInv
<1>1. ASSUME Owns(w, j), NEW s \in {"SUCCEEDED", "FAILED"}
      PROVE  /\ j \in Job /\ r.logical \in Logical
             /\ TableOK(end(s)) /\ Orderly(jobs, end(s))
  <2>1. j \in Job /\ RowOK(r) /\ r.status # "NONE"
    BY <1>0, <1>1 DEF Owns, Running, KeyInv, TypeInv, TypeOK, TableOK
  <2>2. Filled(Ended(r, s)) BY <2>1, RowRewrites DEF Terminal
  <2>3. Ended(r, s).active = NoKey /\ Ended(r, s).status # "RUNNING"
    BY <2>1 DEF Ended, RowOK, Row
  <2> QED BY <1>0, <2>1, <2>2, <2>3, FillOne, ReleaseOrderly DEF Keeps, RowOK
<1>2. ASSUME NEW truncated \in BOOLEAN, FinishJob(w, truncated)
      PROVE  Orderly(jobs, jobs')
  <2>1. Owns(w, j) BY <1>2 DEF FinishJob
  <2>2. truncated => NextSegment[r.logical] \in Logical
    BY <1>1, <1>2, <2>1, ConstantsAssumption DEF FinishJob
  <2>3. jobs' = IF truncated
                THEN Upserted(end("SUCCEEDED"), NextSegment[r.logical], 0, TRUE)
                ELSE end("SUCCEEDED")
    BY <1>2 DEF FinishJob
  <2>4. TableOK(end("SUCCEEDED")) /\ Orderly(jobs, end("SUCCEEDED"))
    BY <1>1, <2>1
  <2> HIDE DEF end
  <2> QED BY <2>2, <2>3, <2>4, UpsertOrderly
<1>3. ASSUME NEW retryable \in BOOLEAN, FailJob(w, retryable)
      PROVE  Orderly(jobs, jobs')
  <2>1. Owns(w, j) BY <1>3 DEF FailJob
  <2>2. jobs' \in {end("FAILED"),
                   Upserted(end("FAILED"), r.logical, r.attempts, FALSE)}
    BY <1>3 DEF FailJob
  <2>3. TableOK(end("FAILED")) /\ Orderly(jobs, end("FAILED"))
        /\ r.logical \in Logical
    BY <1>1, <2>1
  <2> HIDE DEF end
  <2> QED BY <2>2, <2>3, UpsertOrderly
<1>4. CASE AbandonJob(w)
  BY <1>4 DEF AbandonJob, KeyInv, Orderly, Starts
<1> QED BY <1>2, <1>3, <1>4 DEF ReportStep

\* Only a claim that takes a row starts a job; every other step leaves each
\* RUNNING row as it was or ends it.
LEMMA OnlyClaimsStart ==
  ASSUME KeyInv, [Next]_vars
  PROVE  Orderly(jobs, jobs') \/ \E w \in Worker : ClaimTake(w)
<1>0. Orderly(jobs, jobs) BY DEF KeyInv, Orderly, Starts
<1>1. CASE RequestNext BY <1>1, RequestsOrderly
<1>2. ASSUME NEW w \in Worker, WorkerNext(w), ~ ClaimTake(w)
      PROVE  Orderly(jobs, jobs')
  <2>1. CASE ClaimStep(w) BY <1>2, <2>1, ClaimsOrderly
  <2>2. CASE ReportStep(w) BY <2>2, ReportsOrderly
  <2>3. CASE \E r \in Request : ClaimBegin(w, r)
    BY <1>0, <2>3, SweepOrderly DEF ClaimBegin
  <2>4. CASE UNCHANGED jobs BY <1>0, <2>4
  <2> QED BY <1>2, <2>1, <2>2, <2>3, <2>4
          DEF WorkerNext, ClaimLost, TouchHeartbeat, HeartbeatLapse, WorkerExit
<1>3. CASE UNCHANGED vars BY <1>0, <1>3 DEF vars
<1> QED BY <1>1, <1>2, <1>3 DEF Next

LEMMA KeyInvInductive ==
  /\ Init => KeyInv
  /\ KeyInv /\ [Next]_vars => KeyInv'
<1>1. Init => KeyInv
  BY TypeInvInductive DEF KeyInv, Init, NoRow, Keyed, UniqueKeys
<1>2. KeyInv /\ [Next]_vars => KeyInv'
  <2> SUFFICES ASSUME KeyInv, [Next]_vars PROVE KeyInv' OBVIOUS
  <2>1. TypeInv' BY TypeInvInductive DEF KeyInv
  <2>2. (\A j \in Job : Keyed(jobs'[j])) /\ UniqueKeys(jobs')
    BY OnlyClaimsStart, ClaimTakeKeys DEF Orderly
  <2> QED BY <2>1, <2>2 DEF KeyInv
<1> QED BY <1>1, <1>2

\* No operation leaves a key on a finished, failed or canceled row, and a row
\* runs only under its own key: a user is never locked out of queueing a job
\* by a row that is over.
THEOREM KeysDisciplined == Spec => []KeyDiscipline
<1>1. KeyInv => KeyDiscipline
  BY DEF KeyInv, Keyed, KeyDiscipline, Running
<1> QED BY <1>1, KeyInvInductive, PTL DEF Spec

\* However many workers claim and however many admins retry, a logical job
\* runs in one row at most, because every RUNNING row holds its key and the
\* key is unique.
THEOREM OneRunningRow == Spec => []OneRunningRowPerLogicalJob
<1>1. KeyInv => OneRunningRowPerLogicalJob
  <2> SUFFICES ASSUME KeyInv, NEW i \in Job, NEW j \in Job,
                      Running(i), Running(j), i # j,
                      jobs[i].logical = jobs[j].logical
               PROVE  FALSE
    BY DEF OneRunningRowPerLogicalJob
  <2>1. jobs[i].active = jobs[j].active /\ jobs[i].active = jobs[i].logical
    BY DEF KeyInv, Keyed, Running
  <2>2. jobs[i].logical \in Logical
    BY DEF KeyInv, TypeInv, TypeOK, Exists, Running
  <2> QED BY <2>1, <2>2, ConstantsAssumption DEF KeyInv, UniqueKeys
<1> QED BY <1>1, KeyInvInductive, PTL DEF Spec

-----------------------------------------------------------------------------
(* Slots *)

\* What enters and leaves the sync slot of a user: a step empties it, keeps
\* it, or fills it when it was empty.
LEMMA SyncSlotStep ==
  ASSUME KeyInv, [Next]_vars, NEW u \in User
  PROVE  \/ RunningSync(u)' \subseteq RunningSync(u)
         \/ RunningSync(u) = {} /\ \E j \in Job : RunningSync(u)' = {j}
<1>1. CASE Orderly(jobs, jobs')
  <2>1. RunningSync(u)' \subseteq RunningSync(u)
    BY <1>1 DEF Orderly, Starts, RunningSync, IsSync, Exists, TypeOfRow,
                UserOfRow, Running
  <2> QED BY <2>1
<1>2. ASSUME NEW w \in Worker, ClaimTake(w)
      PROVE  \/ RunningSync(u)' \subseteq RunningSync(u)
             \/ RunningSync(u) = {} /\ \E j \in Job : RunningSync(u)' = {j}
  <2> DEFINE j == Candidate(w)
  <2>1. /\ j \in Job /\ jobs[j] \in Row
        /\ jobs' = [jobs EXCEPT ![j] = Claimed(jobs[j], w)]
        /\ jobs \in [Job -> Row]
    BY <1>2, ClaimTakeKeys DEF KeyInv, TypeInv, TypeOK
  <2>2. /\ jobs'[j].logical = jobs[j].logical
        /\ \A i \in Job \ {j} : jobs'[i] = jobs[i]
    BY <2>1 DEF Claimed, Row
  <2>3. jobs[j].status = "PENDING" /\ (IsSync(j) => RunningSync(UserOfRow(j)) = {})
    BY <1>2 DEF ClaimTake, ClaimRefused
  <2>4. j \in RunningSync(u)' => IsSync(j) /\ UserOfRow(j) = u
    BY <2>2, <2>3 DEF RunningSync, IsSync, Exists, TypeOfRow, UserOfRow
  <2> HIDE DEF j
  <2>5. RunningSync(u)' \ {j} \subseteq RunningSync(u)
    BY <2>2 DEF RunningSync, IsSync, Exists, TypeOfRow, UserOfRow, Running
  <2>6. CASE j \in RunningSync(u)'
    <3>1. RunningSync(u) = {} BY <2>3, <2>4, <2>6
    <3>2. RunningSync(u)' = {j} BY <2>5, <2>6, <3>1
    <3> QED BY <2>1, <3>1, <3>2
  <2>7. CASE j \notin RunningSync(u)'
    BY <2>5, <2>7
  <2> QED BY <2>6, <2>7
<1> QED BY <1>1, <1>2, OnlyClaimsStart

\* SyncSerialized is inductive on its own once a step is known to start no
\* job but by a claim.
LEMMA SyncSerializedInductive ==
  /\ Init => SyncSerialized
  /\ KeyInv /\ SyncSerialized /\ [Next]_vars => SyncSerialized'
<1>1. Init => SyncSerialized
  BY DEF Init, SyncSerialized, RunningSync, Running, NoRow
<1>2. ASSUME KeyInv, SyncSerialized, [Next]_vars PROVE SyncSerialized'
  <2> SUFFICES ASSUME NEW u \in User, NEW i \in RunningSync(u)',
                      NEW j \in RunningSync(u)'
               PROVE  i = j
    BY DEF SyncSerialized
  <2> QED BY <1>2, SyncSlotStep DEF SyncSerialized
<1> QED BY <1>1, <1>2

\* SYNC and NOTICE_SCAN are serialized per user in the table: two RUNNING rows
\* of these types never belong to one user, for any number of workers.
THEOREM SyncIsSerialized == Spec => []SyncSerialized
<1> QED BY KeyInvInductive, SyncSerializedInductive, PTL DEF Spec

\* ... and they take turns: no step of the queue hands the slot of a user
\* from one job to another directly.
THEOREM SyncSlotsImplemented == Spec => ImplementsSyncSlots
<1>1. Init => SyncSlots!Init
  BY DEF Init, SyncSlots!Init, RunningSync, Running, NoRow
<1>2. KeyInv /\ SyncSerialized /\ [Next]_vars
        => [SyncSlots!Next]_([u \in User |-> RunningSync(u)])
  <2> SUFFICES ASSUME KeyInv, SyncSerialized, [Next]_vars PROVE SyncSlots!Next
    OBVIOUS
  <2>1. ASSUME NEW u \in User
        PROVE  SyncSlots!Stays(u) \/ SyncSlots!Enters(u) \/ SyncSlots!Leaves(u)
    <3>1. CASE RunningSync(u)' \subseteq RunningSync(u)
      <4>1. RunningSync(u)' = {} \/ RunningSync(u)' = RunningSync(u)
        BY <3>1 DEF SyncSerialized
      <4> QED BY <4>1 DEF SyncSlots!Stays, SyncSlots!Leaves
    <3>2. CASE RunningSync(u) = {} /\ \E j \in Job : RunningSync(u)' = {j}
      BY <3>2 DEF SyncSlots!Enters
    <3> QED BY <3>1, <3>2, SyncSlotStep
  <2> QED BY <2>1 DEF SyncSlots!Next
<1> QED BY <1>1, <1>2, KeyInvInductive, SyncSerializedInductive, PTL
        DEF Spec, ImplementsSyncSlots, SyncSlots!Spec

\* A worker whose claim is under way runs nothing.
ClaimsWhileFree == \A w \in Worker : call[w].pc # "idle" => holds[w] = NoJob

\* How a worker comes to hold a job, or to have one on its way.
HandedOn(w) ==
  /\ \/ holds'[w] \in {holds[w], NoJob}
     \/ call[w].pc = "return" /\ holds'[w] = call[w].cur
  /\ \/ call'[w].pc # "return"
     \/ call'[w] = call[w]
     \/ ClaimTake(w)
     \/ ClaimCheck(w) /\ call'[w].cur = call[w].cur
  /\ call'[w].pc # "idle" => holds'[w] = NoJob

LEMMA OwnStepHandsOn ==
  ASSUME TypeInv, ClaimsWhileFree, NEW w \in Worker, WorkerNext(w)
  PROVE  HandedOn(w)
<1>0. /\ holds \in [Worker -> Job \cup {NoJob}] /\ call \in [Worker -> Call]
      /\ call[w] \in Call /\ IdleCall \in Call /\ IdleCall.pc = "idle"
      /\ call[w].pc # "idle" => holds[w] = NoJob
  BY DEF TypeInv, TypeOK, ClaimsWhileFree, IdleCall, Call
<1>1. ASSUME NEW c \in Call, SetCall(w, c), UNCHANGED holds, c.pc # "return",
             holds[w] = NoJob
      PROVE  HandedOn(w)
  BY <1>0, <1>1 DEF HandedOn, SetCall
<1>2. ASSUME UNCHANGED call, holds'[w] \in {holds[w], NoJob}
      PROVE  HandedOn(w)
  BY <1>0, <1>2 DEF HandedOn
<1>3. ASSUME NEW q \in Request, ClaimBegin(w, q) PROVE HandedOn(w)
  BY <1>0, <1>3 DEF HandedOn, ClaimBegin, SetCall, IdleCall
<1>4. ASSUME ClaimNothing(w) \/ ClaimError(w) \/ ClaimLost(w) PROVE HandedOn(w)
  BY <1>0, <1>4 DEF HandedOn, ClaimNothing, ClaimError, ClaimLost, SetCall
<1>5. ASSUME NEW t \in JobType, ClaimScan(w, t) PROVE HandedOn(w)
  <2>1. call'[w].pc = "try" /\ UNCHANGED holds /\ call[w].pc = "scan"
    BY <1>0, <1>5 DEF ClaimScan, SetCall, Call
  <2> QED BY <1>0, <2>1 DEF HandedOn
<1>6. ASSUME ReclaimDone(w) \/ ClaimSkip(w) \/ ClaimRequeue(w)
      PROVE  HandedOn(w)
  <2>1. /\ call'[w].pc \in {"scan", "try"} /\ UNCHANGED holds
        /\ call[w].pc # "idle"
    <3>1. CASE ReclaimDone(w) BY <1>0, <3>1 DEF ReclaimDone, SetCall, Call
    <3>2. CASE ClaimSkip(w)
      <4>1. UNCHANGED holds /\ call[w].pc = "try" BY <3>2 DEF ClaimSkip
      <4>2. \/ call'[w] = [call[w] EXCEPT !.pc = "scan"]
            \/ call'[w] = [call[w] EXCEPT !.cands = @ \ {Candidate(w)}]
        BY <1>0, <3>2 DEF ClaimSkip, SetCall
      <4> QED BY <1>0, <4>1, <4>2 DEF Call
    <3>3. CASE ClaimRequeue(w) BY <1>0, <3>3 DEF ClaimRequeue, SetCall, Call
    <3> QED BY <1>6, <3>1, <3>2, <3>3
  <2> QED BY <1>0, <2>1 DEF HandedOn
<1>7. ASSUME ClaimTake(w) PROVE HandedOn(w)
  <2>1. UNCHANGED holds /\ call[w].pc # "idle" BY <1>7 DEF ClaimTake
  <2> QED BY <1>0, <1>7, <2>1 DEF HandedOn
<1>8. ASSUME ClaimCheck(w) PROVE HandedOn(w)
  <2>1. UNCHANGED holds /\ call[w].pc # "idle" /\ call'[w].cur = call[w].cur
    BY <1>0, <1>8 DEF ClaimCheck, SetCall, IdleCall, Call
  <2> QED BY <1>0, <1>8, <2>1 DEF HandedOn
<1>9. ASSUME ClaimReturn(w) PROVE HandedOn(w)
  BY <1>0, <1>9 DEF HandedOn, ClaimReturn, SetCall
<1>10. ASSUME NEW j \in Job, Reclaim(w, j) PROVE HandedOn(w)
  BY <1>2, <1>10 DEF Reclaim
<1>11. ASSUME ReportStep(w) PROVE HandedOn(w)
  BY <1>0, <1>2, <1>11 DEF ReportStep, FinishJob, FailJob, AbandonJob
<1>12. ASSUME TouchHeartbeat(w) \/ HeartbeatLapse(w) \/ WorkerExit(w)
       PROVE  HandedOn(w)
  BY <1>0, <1>2, <1>12 DEF TouchHeartbeat, HeartbeatLapse, WorkerExit
<1> QED BY <1>3, <1>4, <1>5, <1>6, <1>7, <1>8, <1>9, <1>10, <1>11, <1>12
        DEF WorkerNext, ClaimStep

LEMMA OtherStepHandsOn ==
  ASSUME TypeInv, ClaimsWhileFree, NEW w \in Worker,
         \/ RequestNext
         \/ \E v \in Worker \ {w} : WorkerNext(v)
         \/ UNCHANGED vars
  PROVE  holds'[w] = holds[w] /\ call'[w] = call[w]
<1>0. holds \in [Worker -> Job \cup {NoJob}] /\ call \in [Worker -> Call]
  BY DEF TypeInv, TypeOK
<1>1. CASE RequestNext
  BY <1>1 DEF RequestNext, EnqueueJob, CancelJob, BecomeDue, RefuseTestUser,
              SetAccount, RetryRead, RetryWrite, PurgeHeartbeats
<1>2. ASSUME NEW v \in Worker \ {w}, WorkerNext(v)
      PROVE  holds'[w] = holds[w] /\ call'[w] = call[w]
  <2>1. CASE ClaimStep(v)
    <3>1. CASE ClaimReturn(v)
      BY <1>0, <3>1 DEF ClaimReturn, SetCall
    <3>2. ASSUME NEW c, SetCall(v, c), UNCHANGED holds
          PROVE  holds'[w] = holds[w] /\ call'[w] = call[w]
      BY <1>0, <3>2 DEF SetCall
    <3>3. CASE UNCHANGED <<holds, call>> BY <3>3
    <3>4. ClaimReturn(v) \/ UNCHANGED <<holds, call>>
            \/ (UNCHANGED holds /\ \E c : SetCall(v, c))
      BY <2>1 DEF ClaimStep, Reclaim, ReclaimDone, ClaimScan, ClaimNothing,
                  ClaimSkip, ClaimTake, ClaimError, ClaimCheck, ClaimRequeue,
                  SetCall
    <3> QED BY <3>1, <3>2, <3>3, <3>4
  <2>2. CASE ReportStep(v)
    BY <1>0, <2>2 DEF ReportStep, FinishJob, FailJob, AbandonJob
  <2>3. CASE ~ ClaimStep(v) /\ ~ ReportStep(v)
    BY <1>0, <1>2, <2>3
    DEF WorkerNext, ClaimBegin, ClaimLost, TouchHeartbeat, HeartbeatLapse,
        WorkerExit, SetCall
  <2> QED BY <2>1, <2>2, <2>3
<1>3. CASE UNCHANGED vars BY <1>3 DEF vars
<1> QED BY <1>1, <1>2, <1>3

LEMMA EveryStepHandsOn ==
  ASSUME TypeInv, ClaimsWhileFree, [Next]_vars, NEW w \in Worker
  PROVE  HandedOn(w)
<1>1. CASE WorkerNext(w) BY <1>1, OwnStepHandsOn
<1>2. CASE ~ WorkerNext(w)
  BY <1>2, OtherStepHandsOn DEF Next, HandedOn, ClaimsWhileFree
<1> QED BY <1>1, <1>2

LEMMA ClaimsWhileFreeInductive ==
  /\ Init => ClaimsWhileFree
  /\ TypeInv /\ ClaimsWhileFree /\ [Next]_vars => ClaimsWhileFree'
<1>1. Init => ClaimsWhileFree BY DEF Init, ClaimsWhileFree
<1>2. TypeInv /\ ClaimsWhileFree /\ [Next]_vars => ClaimsWhileFree'
  BY EveryStepHandsOn DEF ClaimsWhileFree, HandedOn
<1> QED BY <1>1, <1>2

LearnRows(u) ==
  {j \in RunningAutoLearn(u) : \E w \in Worker : Granted(w, j)}

\* A go-ahead for an AUTOLEARN row is older than the step, or it is the answer
\* of a check that found no other RUNNING AUTOLEARN row of the user.
LEMMA GrantStep ==
  ASSUME KeyInv, ClaimsWhileFree, [Next]_vars,
         NEW u \in User, NEW j \in LearnRows(u)'
  PROVE  j \in LearnRows(u) \/ RunningAutoLearn(u) = {j}
<1>0. PICK w \in Worker : Granted(w, j)'
  BY DEF LearnRows
<1>1. /\ j \in Job /\ jobs'[j].status = "RUNNING" /\ jobs'[j].worker = w
      /\ TypeOf[jobs'[j].logical] = "AUTOLEARN"
      /\ UserOf[jobs'[j].logical] = u
      /\ holds'[w] = j \/ (call'[w].pc = "return" /\ call'[w].cur = j)
  BY <1>0 DEF LearnRows, RunningAutoLearn, Granted, Owns, Running, IsAutoLearn,
              TypeOfRow, UserOfRow
<1>2. HandedOn(w) BY EveryStepHandsOn DEF KeyInv
<1>3. ASSUME jobs'[j] = jobs[j], ~ ClaimTake(w)
      PROVE  j \in LearnRows(u) \/ RunningAutoLearn(u) = {j}
  <2>1. j \in RunningAutoLearn(u) /\ Owns(w, j)
    BY <1>1, <1>3 DEF RunningAutoLearn, IsAutoLearn, Exists, Running, TypeOfRow,
                      UserOfRow, Owns, Job, NoJob
  <2>2. \/ Granted(w, j)
        \/ ClaimCheck(w) /\ call'[w].pc = "return" /\ call[w].cur = j
    BY <1>1, <1>2, <1>3, <2>1 DEF HandedOn, Granted, Job, NoJob
  <2>3. CASE Granted(w, j)
    BY <2>1, <2>3 DEF LearnRows
  <2>4. CASE ClaimCheck(w) /\ call'[w].pc = "return" /\ call[w].cur = j
    <3>1. UserOfRow(j) = u BY <2>1 DEF RunningAutoLearn
    <3>2. call[w] \in Call /\ call \in [Worker -> Call]
      BY DEF KeyInv, TypeInv, TypeOK
    <3>3. RunningAutoLearn(u) \ {j} = {}
      BY <2>4, <3>1, <3>2 DEF ClaimCheck, SetCall, Call
    <3> QED BY <2>1, <3>3
  <2> QED BY <2>2, <2>3, <2>4
<1>4. CASE Orderly(jobs, jobs') /\ ~ ClaimTake(w)
  BY <1>1, <1>3, <1>4 DEF Orderly, Starts
<1>5. ASSUME NEW v \in Worker, ClaimTake(v)
      PROVE  /\ Candidate(v) \in Job /\ jobs[Candidate(v)] \in Row
             /\ jobs \in [Job -> Row]
             /\ jobs' = [jobs EXCEPT ![Candidate(v)] =
                                       Claimed(jobs[Candidate(v)], v)]
             /\ jobs[Candidate(v)].status = "PENDING"
  BY <1>5, ClaimTakeKeys DEF KeyInv, TypeInv, TypeOK, ClaimTake, ClaimRefused
<1>6. ASSUME ClaimTake(w) PROVE FALSE
  <2> DEFINE k == Candidate(w)
  <2>1. call[w].pc = "try" /\ UNCHANGED holds /\ call[w] \in Call
        /\ call \in [Worker -> Call] /\ holds[w] = NoJob
    BY <1>6 DEF ClaimTake, KeyInv, TypeInv, TypeOK, ClaimsWhileFree
  <2>2. call'[w].pc = "return" /\ call'[w].cur = j
    BY <1>1, <2>1 DEF Job, NoJob
  <2>3. ~ IsAutoLearn(k) /\ j = k
    <3>1. call'[w] = IF IsAutoLearn(k)
                     THEN [call[w] EXCEPT !.pc = "check", !.cur = k,
                                          !.cands = @ \ {k}]
                     ELSE [IdleCall EXCEPT !.pc = "return", !.cur = k]
      BY <1>6, <2>1 DEF ClaimTake, SetCall
    <3> HIDE DEF k
    <3>2. ~ IsAutoLearn(k) BY <2>1, <2>2, <3>1 DEF Call
    <3> QED BY <2>2, <3>1, <3>2 DEF IdleCall
  <2>4. jobs'[j].logical = jobs[k].logical
    <3>1. Claimed(jobs[k], w).logical = jobs[k].logical
      BY <1>5, <1>6 DEF Claimed, Row
    <3> HIDE DEF k
    <3> QED BY <1>5, <1>6, <2>3, <3>1 DEF k
  <2> QED BY <1>1, <1>5, <1>6, <2>3, <2>4 DEF IsAutoLearn, Exists, TypeOfRow
<1>7. ASSUME NEW v \in Worker, ClaimTake(v), v # w
      PROVE  j \in LearnRows(u) \/ RunningAutoLearn(u) = {j}
  <2> DEFINE k == Candidate(v)
  <2>1. j # k
    <3>1. Claimed(jobs[k], v).worker = v BY <1>5, <1>7 DEF Claimed, Row
    <3> QED BY <1>1, <1>5, <1>7, <3>1
  <2>2. jobs'[j] = jobs[j] BY <1>1, <1>5, <1>7, <2>1
  <2> QED BY <1>3, <1>6, <2>2
<1> QED BY <1>4, <1>6, <1>7, OnlyClaimsStart

LearnInv == KeyInv /\ ClaimsWhileFree /\ AutoLearnSerialized

\* AutoLearnSerialized, said of the rows: two workers cannot both own one.
LEMMA SerializedRows ==
  ASSUME TypeInv
  PROVE  AutoLearnSerialized <=>
           \A u \in User : \A i, j \in LearnRows(u) : i = j
<1>1. \A v, w \in Worker, j \in Job : Granted(v, j) /\ Granted(w, j) => v = w
  BY DEF Granted, Owns
<1>2. ASSUME NEW j \in Job, NEW w \in Worker, Granted(w, j), IsAutoLearn(j)
      PROVE  UserOfRow(j) \in User /\ j \in LearnRows(UserOfRow(j))
  <2>1. UserOfRow(j) \in User
    BY <1>2, ConstantsAssumption DEF TypeInv, TypeOK, IsAutoLearn, UserOfRow
  <2> QED BY <1>2, <2>1 DEF LearnRows, RunningAutoLearn, Granted, Owns
<1>3. ASSUME NEW u \in User, NEW j \in LearnRows(u)
      PROVE  /\ j \in Job /\ IsAutoLearn(j) /\ UserOfRow(j) = u
             /\ \E w \in Worker : Granted(w, j)
  BY <1>3 DEF LearnRows, RunningAutoLearn
<1>4. ASSUME AutoLearnSerialized, NEW u \in User,
             NEW i \in LearnRows(u), NEW j \in LearnRows(u)
      PROVE  i = j
  BY <1>3, <1>4 DEF AutoLearnSerialized
<1>5. ASSUME \A u \in User : \A i, j \in LearnRows(u) : i = j
      PROVE  AutoLearnSerialized
  BY <1>1, <1>2, <1>5 DEF AutoLearnSerialized
<1> QED BY <1>4, <1>5

LEMMA LearnInvInductive ==
  /\ Init => LearnInv
  /\ LearnInv /\ [Next]_vars => LearnInv'
<1>1. ASSUME Init PROVE LearnInv
  <2>1. KeyInv /\ ClaimsWhileFree
    BY <1>1, KeyInvInductive, ClaimsWhileFreeInductive
  <2>2. AutoLearnSerialized
    BY <1>1 DEF Init, AutoLearnSerialized, Granted, Owns, Running, NoRow
  <2> QED BY <2>1, <2>2 DEF LearnInv
<1>2. ASSUME LearnInv, [Next]_vars PROVE LearnInv'
  <2>1. KeyInv' /\ ClaimsWhileFree' /\ TypeInv'
    BY <1>2, KeyInvInductive, ClaimsWhileFreeInductive DEF LearnInv, KeyInv
  <2>2. ASSUME NEW u \in User, NEW i \in LearnRows(u)', NEW j \in LearnRows(u)'
        PROVE  i = j
    <3>1. \A k \in LearnRows(u)' :
            k \in LearnRows(u) \/ RunningAutoLearn(u) = {k}
      BY <1>2, GrantStep DEF LearnInv
    <3>2. \A k, m \in LearnRows(u) : k = m
      BY <1>2, SerializedRows DEF LearnInv, KeyInv
    <3> QED BY <2>2, <3>1, <3>2 DEF LearnRows
  <2>3. AutoLearnSerialized'
    <3> SUFFICES ASSUME NEW v \in Worker, NEW w \in Worker,
                        NEW i \in Job, NEW j \in Job,
                        Granted(v, i)', IsAutoLearn(i)',
                        Granted(w, j)', IsAutoLearn(j)',
                        UserOfRow(i)' = UserOfRow(j)'
                 PROVE  i = j /\ v = w
      BY DEF AutoLearnSerialized
    <3>1. UserOf[jobs'[i].logical] \in User
      BY <2>1, ConstantsAssumption DEF TypeInv, TypeOK, IsAutoLearn
    <3>2. PICK u \in User : u = UserOf[jobs'[i].logical] BY <3>1
    <3>3. i \in LearnRows(u)' /\ j \in LearnRows(u)'
      BY <3>2 DEF LearnRows, RunningAutoLearn, Granted, Owns, UserOfRow
    <3>4. i = j BY <2>2, <3>3
    <3>5. v = w BY <3>4 DEF Granted, Owns
    <3> QED BY <3>4, <3>5
  <2> QED BY <2>1, <2>3 DEF LearnInv
<1> QED BY <1>1, <1>2

\* AUTOLEARN is serialized per user: whatever workers claim, die, report late
\* or lose their jobs, two of them never have the go-ahead for one user.
THEOREM AutoLearnIsSerialized == Spec => []AutoLearnSerialized
<1>1. LearnInv => AutoLearnSerialized BY DEF LearnInv
<1> QED BY <1>1, LearnInvInductive, PTL DEF Spec

\* ... and they take turns: the go-ahead of a user's AUTOLEARN job is over
\* before another job of the user gets one.
THEOREM LearnSlotsImplemented == Spec => ImplementsLearnSlots
<1> DEFINE slots == [u \in User |->
                       {j \in RunningAutoLearn(u) : \E w \in Worker : Granted(w, j)}]
<1>1. Init => LearnSlots!Init
  BY DEF Init, LearnSlots!Init, RunningAutoLearn, Running, NoRow
<1>2. LearnInv /\ [Next]_vars => [LearnSlots!Next]_slots
  <2> SUFFICES ASSUME LearnInv, [Next]_vars PROVE LearnSlots!Next
    OBVIOUS
  <2>1. ASSUME NEW u \in User
        PROVE  LearnSlots!Stays(u) \/ LearnSlots!Enters(u) \/ LearnSlots!Leaves(u)
    <3>1. \A k \in LearnRows(u)' :
            k \in LearnRows(u) \/ RunningAutoLearn(u) = {k}
      BY GrantStep DEF LearnInv
    <3>2. \A k, m \in LearnRows(u) : k = m
      BY SerializedRows DEF LearnInv, KeyInv
    <3>3. LearnRows(u) \subseteq RunningAutoLearn(u) BY DEF LearnRows
    <3>4. \/ LearnRows(u)' = {} \/ LearnRows(u)' = LearnRows(u)
          \/ LearnRows(u) = {} /\ \E k \in Job : LearnRows(u)' = {k}
      <4>1. \A k, m \in LearnRows(u)' : k = m BY <3>1, <3>2, <3>3
      <4>2. LearnRows(u)' \subseteq Job
        BY DEF LearnRows, RunningAutoLearn
      <4>3. \A k \in LearnRows(u)' : LearnRows(u) \subseteq {k}
        BY <3>1, <3>2, <3>3
      <4> QED BY <4>1, <4>2, <4>3
    <3> QED BY <3>4
            DEF LearnRows, LearnSlots!Stays, LearnSlots!Enters, LearnSlots!Leaves
  <2> QED BY <2>1 DEF LearnSlots!Next
<1> QED BY <1>1, <1>2, LearnInvInductive, PTL
        DEF Spec, ImplementsLearnSlots, LearnSlots!Spec

=============================================================================
