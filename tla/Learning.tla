------------------------------ MODULE Learning ------------------------------
(***************************************************************************)
(* What one AUTOLEARN request does: planning from the portal's task list,  *)
(* playing a chunk of the plan, verifying, refreshing the snapshot, and    *)
(* the chain of continuation rows of CU12 (apps/worker/src/index.ts,       *)
(* cu12-automation.ts, cyber-campus-sync.ts; queue.ts for the row).        *)
(*                                                                         *)
(* The row is the chain's active one; who claims it when, and the keys     *)
(* that serialize a user's rows, are the matter of JobQueue.  A Cyber      *)
(* Campus request has one row, no retry and no continuation, and plays     *)
(* with a stored portal session that may have lapsed on the portal; CU12   *)
(* logs in for every run.  Either session may lapse while a run plays.     *)
(***************************************************************************)
EXTENDS Naturals, Sequences, FiniteSets, Functions

CONSTANTS
  Task,
  CourseOf,     \* [Task -> Nat]: the course's place in the roster
  Pos,          \* [Task -> Nat]: week and lesson, different within a course
  Kind,         \* [Task -> Kinds]
  Lengths,      \* what may be left to play, by the task list: [Task -> Nat]
  Unrecorded,   \* the tasks whose viewing the portal may fail to record
  MaxTasks, Target,          \* AUTOLEARN_MAX_TASKS, _CHUNK_TARGET_SECONDS
  CyberTarget,               \* CYBER_CAMPUS_AUTOLEARN_CHUNK_TARGET_SECONDS
  ChainMax,                  \* AUTOLEARN_CHAIN_MAX_SECONDS
  MaxAttempts,               \* attempts after which a failed row is final
  QuizLimit,                 \* attempts the portal allows at a question
  Reading,                   \* bound: seconds a quiz or a material takes
  MaxFaults                  \* bound: errors and crashes of workers

Kinds == {"VOD", "MATERIAL", "QUIZ", "OTHER"}
Mode == {"SINGLE_NEXT", "SINGLE_ALL", "ALL_COURSES"}

ASSUME LearningAssumption ==
  /\ IsFiniteSet(Task)
  /\ CourseOf \in [Task -> Nat] /\ Pos \in [Task -> Nat]
  /\ Kind \in [Task -> Kinds] /\ Lengths \subseteq [Task -> Nat]
  /\ Unrecorded \subseteq Task
  /\ {MaxTasks, MaxAttempts, QuizLimit, Reading, Target, CyberTarget, ChainMax} \subseteq Nat \ {0}
  /\ MaxFaults \in Nat

VARIABLES
  provider,  \* "CU12" or "CYBER_CAMPUS"
  seconds,   \* what is left to play of each task: one of Lengths
  scope,     \* [mode, course]: the request
  row,       \* [status, elapsed, attempts]: the chain's last row
  run,       \* the worker that has the row
  done,      \* the portal: completed tasks
  tries,     \* the portal: attempts at the open question of a quiz
  session,   \* the portal session: stored for Cyber Campus, and a run's own
  blind,     \* history: a run of the chain went on without a good session
  spent,     \* history: seconds played by the chain's SUCCEEDED rows
  played,    \* history: tasks those rows counted as processed
  mails,     \* result mails of the chain
  faults

vars == <<provider, seconds, scope, row, run, done, tries, session, blind, spent, played, mails, faults>>
portal == <<done, tries>>
request == <<provider, seconds, scope>>
history == <<spent, played, blind>>

Cyber == provider = "CYBER_CAMPUS"
Course == Range(CourseOf)

\* "hollow": the portal accepts the cookies and lists nothing; "dead": it asks
\* for a login, and a list that is read all the same comes out empty.
Session == {"none", "good", "hollow", "dead"}

Free == [pc |-> "free", rest |-> <<>>, counted |-> {}, elapsed |-> 0, cut |-> FALSE, reason |-> "none"]

NoRow == [status |-> "none", elapsed |-> 0, attempts |-> 0]
Active == row.status \in {"pending", "running"}

Init ==
  /\ provider \in {"CU12", "CYBER_CAMPUS"} /\ seconds \in Lengths
  /\ scope = [mode |-> "ALL_COURSES", course |-> 0]
  /\ row = NoRow /\ run = Free
  /\ done = {} /\ tries = [t \in Task |-> 0]
  /\ session \in IF provider = "CYBER_CAMPUS" THEN Session ELSE {"none"}
  /\ blind = FALSE /\ spent = 0 /\ played = {} /\ mails = 0 /\ faults = 0

At(pc) == run.pc = pc
Goes(pc) == run' = [run EXCEPT !.pc = pc]

-----------------------------------------------------------------------------
(* Planning *)

\* isAutoLearnableTask; a Cyber Campus run plays lectures only.
Learnable ==
  {t \in Task \ done :
     /\ IF Cyber THEN Kind[t] = "VOD" ELSE Kind[t] # "OTHER"
     /\ scope.mode = "ALL_COURSES" \/ CourseOf[t] = scope.course}

\* The tasks of the course that come before t in the plan.
Turn(S, t) == Cardinality({u \in S : CourseOf[u] = CourseOf[t] /\ Pos[u] < Pos[t]})

\* buildTaskPlan goes round the courses; planCyberCampusAutoLearnTasks sorts by
\* week and lesson.
Before(S, t, u) ==
  LET rank(x) == IF Cyber THEN Pos[x] ELSE Turn(S, x)
  IN  \/ rank(t) < rank(u)
      \/ rank(t) = rank(u) /\ CourseOf[t] < CourseOf[u]

\* The sequences that list S in this order.
Sorted(S) ==
  {s \in [1 .. Cardinality(S) -> S] :
     Range(s) = S /\ \A i, j \in DOMAIN s : i < j => ~ Before(S, s[j], s[i])}

Plans(S) ==
  IF scope.mode = "SINGLE_NEXT" /\ S # {} THEN {<<s[1]>> : s \in Sorted(S)} ELSE Sorted(S)

\* rowSeconds: a task of CU12 is planned with a second at least.
RowSeconds == [t \in Task |-> IF Cyber \/ seconds[t] > 0 THEN seconds[t] ELSE 1]
Total(w, s) ==
  LET sum[u \in Seq(Task)] == IF u = <<>> THEN 0 ELSE w[Head(u)] + sum[Tail(u)]
  IN  sum[s]
Cost(s) == Total(RowSeconds, s)
Prefix(s, n) == SubSeq(s, 1, n)
Longest(S) == CHOOSE n \in S : \A m \in S : m <= n

\* selectChunkTasks: as much as fits the target, but the first task always.
Chunk(s) ==
  Longest({n \in 0 .. Len(s) : n <= MaxTasks /\ (n <= 1 \/ Cost(Prefix(s, n)) <= Target)})

\* selectCyberCampusChunkTasks: as much as fits what is left of the workflow.
CyberChunk(s, budget) ==
  Longest({n \in 0 .. Len(s) : n <= MaxTasks /\ (n = 0 \/ Cost(Prefix(s, n)) <= budget)})

TooLong(s, n) == n = 0 /\ s # <<>> /\ RowSeconds[Head(s)] > CyberTarget

-----------------------------------------------------------------------------
(* The row *)

Request ==
  /\ ~ Active /\ At("free")
  /\ \E m \in Mode, c \in Course : scope' = [mode |-> m, course |-> c]
  /\ row' = [NoRow EXCEPT !.status = "pending"]
  /\ spent' = 0 /\ played' = {} /\ mails' = 0 /\ blind' = FALSE
  /\ UNCHANGED <<provider, seconds, run, portal, session, faults>>

Claim ==
  /\ row.status = "pending" /\ At("free")
  /\ row' = [row EXCEPT !.status = "running", !.attempts = @ + 1]
  /\ Goes(IF Cyber THEN "session" ELSE "plan")
  /\ UNCHANGED <<request, portal, session, history, mails, faults>>

CancelRow ==
  /\ Active /\ row' = [row EXCEPT !.status = "canceled"]
  /\ UNCHANGED <<request, run, portal, session, history, mails, faults>>

\* Mutant: a failed row is tried again whatever its attempts.
AlwaysRetried == ~ Cyber

\* shouldRetryFailedJob.
Retried == row.attempts < MaxAttempts /\ ~ Cyber

\* markJobFailed: the retry is a new row with the attempts of the old one.
EndRun ==
  /\ row' = IF row.status # "running" THEN row
            ELSE [row EXCEPT !.status = IF Retried THEN "pending" ELSE "failed"]
  /\ run' = Free
  /\ UNCHANGED <<request, history, mails>>

\* An error of the portal, the network or the database, or a stalled player.
Fail ==
  /\ ~ At("free") /\ ~ At("mail")
  /\ faults < MaxFaults /\ faults' = faults + 1
  /\ EndRun /\ UNCHANGED <<portal, session>>

\* The worker dies; the row is reclaimed when its heartbeat is stale.
Die ==
  /\ ~ At("free") /\ faults < MaxFaults /\ faults' = faults + 1
  /\ run' = Free
  /\ UNCHANGED <<request, row, portal, session, history, mails>>

\* Mutant: what may not be retried is not reclaimed either.
CyberLeft == IF Cyber THEN "running" ELSE "pending"

\* decideStaleRunningJobReclaim.
Reclaimed == IF Cyber THEN "failed" ELSE "pending"

Reclaim ==
  /\ row.status = "running" /\ At("free")
  /\ row' = [row EXCEPT !.status = Reclaimed]
  /\ UNCHANGED <<request, run, portal, session, history, mails, faults>>

-----------------------------------------------------------------------------
(* The portal session *)

\* ensureCyberCampusSession, in a run of Cyber Campus.
EnsureSession ==
  /\ At("session")
  /\ session' = IF session \in {"none", "dead"} THEN "good" ELSE session
  /\ Goes("plan")
  /\ UNCHANGED <<request, row, portal, history, mails, faults>>

\* The portal drops a session or hollows it out: the stored one between runs, a
\* run's own while it plays.  (One that lapses before the list is read is as a
\* stored one that was hollow; a login just made lasts until then.)
SessionLapses ==
  /\ session = "good"
  /\ (Cyber /\ At("free")) \/ run.pc \in {"next", "play", "quiz", "verify"}
  /\ session' \in {"hollow", "dead"}
  /\ blind' = (blind \/ ~ At("free"))
  /\ UNCHANGED <<request, row, run, portal, spent, played, mails, faults>>

-----------------------------------------------------------------------------
(* The run *)

Starts(s, n, reason) ==
  run' = [run EXCEPT !.pc = "next", !.rest = Prefix(s, n), !.reason = reason,
            !.cut = n < Len(s) /\ reason = "none"]

\* A run of CU12 logs in first.
PlanCu12 ==
  /\ At("plan") /\ ~ Cyber
  /\ session' = "good"
  /\ \E s \in Plans(Learnable) : Starts(s, Chunk(s), IF s = <<>> THEN "nothing" ELSE "none")
  /\ UNCHANGED <<request, row, portal, history, mails, faults>>

\* retryOnceAfterEmptyStoredSession: a stored session that lists nothing is
\* replaced by a fresh login before it is believed.
Listed == IF session = "good" THEN Learnable ELSE {}

\* Mutant: an empty list of a stored session is believed.
AlwaysBelieved == TRUE

Believed == Listed # {} \/ session = "good"

\* After the fresh login, a row that an approval released goes on with the
\* cookies of the approval, which may be the ones that listed nothing.
Restored == IF Believed THEN {session} ELSE {"good", "hollow"}

PlanCyber ==
  /\ At("plan") /\ Cyber
  /\ session' \in Restored /\ blind' = (blind \/ (~ Believed /\ session' # "good"))
  /\ \E s \in Plans(IF Believed THEN Listed ELSE Learnable), budget \in 0 .. CyberTarget :
       LET n == CyberChunk(s, budget)
       IN  Starts(s, n, IF s = <<>> THEN "nothing" ELSE IF TooLong(s, n) THEN "too long" ELSE "none")
  /\ UNCHANGED <<request, row, portal, spent, played, mails, faults>>

\* The cookies of the approval ask for a login (CYBER_CAMPUS_SESSION_INVALID).
RestoreRefused ==
  /\ At("plan") /\ Cyber /\ ~ Believed
  /\ session' = "none"
  /\ EndRun /\ UNCHANGED <<portal, faults>>

Now == Head(run.rest)

\* shouldCancel, before every task and while a player is open.
StopCanceled ==
  /\ run.pc \in {"next", "play", "quiz"} /\ row.status # "running"
  /\ EndRun /\ UNCHANGED <<portal, session, faults>>

\* The portal may ask for the second factor before a Cyber Campus lecture; the
\* stored session is not used again (invalidatePortalSession).
Refused ==
  /\ At("next") /\ Cyber /\ run.rest # <<>>
  /\ session' = "none"
  /\ EndRun /\ UNCHANGED <<portal, faults>>

\* CYBER_CAMPUS_PLAYER_LAUNCH_FAILED, or a page of the portal that lacks the
\* lecture; CU12 takes any page it gets for the task's.
OpenFails ==
  /\ At("next") /\ Cyber /\ run.rest # <<>> /\ row.status = "running" /\ session # "good"
  /\ EndRun /\ UNCHANGED <<portal, session, faults>>

Open ==
  /\ At("next") /\ run.rest # <<>> /\ row.status = "running"
  /\ Cyber => session # "dead"
  /\ Goes(IF Kind[Now] = "QUIZ" THEN "quiz" ELSE "play")
  /\ UNCHANGED <<request, row, portal, session, history, mails, faults>>

\* Mutant: quizzes and materials are believed as VODs are.
NeverVerified(t) == FALSE

\* ensureTaskCompleted, and the check after each Cyber Campus lecture: a VOD of
\* CU12 is not verified.
Verified(t) == Cyber \/ Kind[t] # "VOD"

\* The player has been open for what is left, or a material for a moment, and
\* the portal has recorded it or not.  watchVodTask does not even open a VOD
\* without a duration.  When the player took its page with it, Cyber Campus
\* ensures the session again in a new one.
Play ==
  /\ At("play")
  /\ \E recorded \in BOOLEAN :
       /\ recorded \/ Now \in Unrecorded \/ session # "good"
       /\ recorded => session # "dead" /\ (Cyber \/ Kind[Now] # "VOD" \/ seconds[Now] > 0)
       /\ done' = IF recorded THEN done \union {Now} ELSE done
  /\ session' \in {session} \union (IF Cyber /\ session = "dead" THEN {"good"} ELSE {})
  /\ Goes("verify")
  /\ UNCHANGED <<request, row, tries, history, mails, faults>>

\* waitForQuizTransition: the last question is answered and the result shown,
\* or the attempt was wrong.
Answer ==
  /\ At("quiz") /\ row.status = "running" /\ session = "good" /\ tries[Now] < QuizLimit
  /\ \/ done' = done \union {Now} /\ Goes("verify") /\ UNCHANGED tries
     \/ /\ tries[Now] + 1 < QuizLimit
        /\ tries' = [tries EXCEPT ![Now] = @ + 1]
        /\ UNCHANGED <<done, run>>
  /\ UNCHANGED <<request, row, session, history, mails, faults>>

\* QUIZ_ATTEMPTS_EXHAUSTED; a page that does not move is an error (Fail).
Exhausted ==
  /\ At("quiz") /\ session = "good" /\ tries[Now] + 1 >= QuizLimit
  /\ tries' = [tries EXCEPT ![Now] = QuizLimit]
  /\ EndRun /\ UNCHANGED <<done, session, faults>>

\* Without a session the form of the questions is not reached, or left.
QuizFails ==
  /\ At("quiz") /\ session # "good"
  /\ EndRun /\ UNCHANGED <<portal, session, faults>>

\* fetchCyberCampusPendingVodTasks, fetchLectureTasks: what the portal lists as
\* pending.  Neither looks whether the answer is that of a logged in user.
PendingList == IF session = "good" THEN Task \ done ELSE {}

\* isCyberCampusTaskStillPending, isTaskPendingInTaskList.
NotConfirmed ==
  /\ At("verify") /\ Verified(Now) /\ Now \in PendingList
  /\ EndRun /\ UNCHANGED <<portal, session, faults>>

\* A task that the list does not have counts as completed.  A VOD counts what
\* was left of it, the others the time they took.
TaskDone ==
  /\ At("verify") /\ (Verified(Now) => Now \notin PendingList)
  /\ \E s \in IF Kind[Now] = "VOD" THEN {seconds[Now]} ELSE 1 .. Reading :
       run' = [run EXCEPT !.pc = "next", !.rest = Tail(@),
                 !.counted = @ \union {Now}, !.elapsed = @ + s]
  /\ UNCHANGED <<request, row, portal, session, history, mails, faults>>

\* The chunk is through and the snapshot is refreshed; Cyber Campus stores the
\* cookies of the run as they are (persistReusableSession).
Refresh ==
  /\ At("next") /\ run.rest = <<>>
  /\ Goes("report")
  /\ UNCHANGED <<request, row, portal, session, history, mails, faults>>

-----------------------------------------------------------------------------
(* The end of the row *)

TotalElapsed == row.elapsed + run.elapsed
LimitReached == run.cut /\ TotalElapsed >= ChainMax

\* shouldQueueAutoLearnContinuation.
Continues == run.cut /\ ~ Cyber /\ ~ LimitReached

\* Mutant: the continuation does not count the row that ends.
PreviousTime == row.elapsed

\* chainElapsedSeconds of the continuation's payload.
ChainElapsed == TotalElapsed

\* processClaimedAutoLearnJob reads the row's status first: a row that is not
\* running any more is left alone.
ReportNothing ==
  /\ At("report") /\ row.status # "running"
  /\ run' = Free
  /\ UNCHANGED <<request, row, portal, session, history, mails, faults>>

CheckStatus ==
  /\ At("report") /\ row.status = "running"
  /\ Goes("finish")
  /\ UNCHANGED <<request, row, portal, session, history, mails, faults>>

\* Mutant: every row of the chain mails its result.
MailEverySegment == "mail"

\* Where the worker goes after its report: the last row of a chain is mailed.
AfterReport == IF Continues THEN "free" ELSE "mail"

\* markJobSucceeded, which creates the continuation in its transaction.
Report ==
  /\ At("finish") /\ row.status = "running"
  /\ row' = IF Continues
            THEN [status |-> "pending", elapsed |-> ChainElapsed, attempts |-> 0]
            ELSE [row EXCEPT !.status = "succeeded"]
  /\ spent' = spent + run.elapsed /\ played' = played \union run.counted
  /\ run' = IF AfterReport = "free" THEN Free ELSE [run EXCEPT !.pc = AfterReport]
  /\ UNCHANGED <<request, portal, session, blind, mails, faults>>

\* ALREADY_TERMINAL: a row canceled after the status was read is answered as a
\* success without a continuation, and its result is mailed.
ReportTerminal ==
  /\ At("finish") /\ row.status # "running"
  /\ Goes("mail")
  /\ UNCHANGED <<request, row, portal, session, history, mails, faults>>

\* sendAutoLearnResultMail; its errors are recorded and swallowed.
Mail ==
  /\ At("mail")
  /\ mails' = mails + 1 /\ run' = Free
  /\ UNCHANGED <<request, row, portal, session, history, faults>>

-----------------------------------------------------------------------------
Step ==
  \/ EnsureSession \/ PlanCu12 \/ PlanCyber \/ StopCanceled
  \/ OpenFails \/ Open \/ Play \/ Answer \/ Exhausted \/ QuizFails
  \/ NotConfirmed \/ TaskDone \/ Refresh
  \/ ReportNothing \/ CheckStatus \/ Report \/ ReportTerminal \/ Mail

Next ==
  \/ Request \/ CancelRow \/ Claim \/ Reclaim \/ Fail \/ Die \/ SessionLapses
  \/ RestoreRefused \/ Refused \/ Step

Spec == Init /\ [][Next]_vars

\* Rows are claimed and reclaimed (JobQueue), and a worker that runs goes on:
\* every wait of a run has a deadline.
FairSpec == Spec /\ WF_vars(Claim) /\ WF_vars(Reclaim) /\ WF_vars(Step)

-----------------------------------------------------------------------------
(* Properties *)

\* Types; the worker counts only what it played, and no plan is left over.
TypeOK ==
  /\ provider \in {"CU12", "CYBER_CAMPUS"} /\ scope.mode \in Mode
  /\ row.status \in {"none", "pending", "running", "succeeded", "failed", "canceled"}
  /\ {row.elapsed, row.attempts, spent, mails, faults} \subseteq Nat
  /\ row.attempts <= MaxAttempts + MaxFaults
  /\ run.pc \in 
       {"free", "session", "plan", "next", "play", "quiz", "verify", "report", "finish", "mail"}
  /\ run.rest \in Seq(Task) /\ run.counted \subseteq Task \ Range(run.rest)
  /\ At("free") => run = Free
  /\ run.pc \in {"play", "quiz", "verify"} => run.rest # <<>>
  /\ done \subseteq Task /\ played \subseteq Task
  /\ session \in Session /\ blind \in BOOLEAN

\* A request that ends as a success, neither cut off by a limit nor refused for
\* its length, has left nothing out: whatever was learnable in its scope is
\* completed or was played, whatever its stored session listed.  (SINGLE_NEXT
\* asks for one task.)
NothingLeftOut ==
  (At("mail") /\ ~ run.cut /\ run.reason # "too long" /\ scope.mode # "SINGLE_NEXT")
    => Learnable \subseteq played \union run.counted

\* What a result counts as processed is completed on the portal, for materials,
\* quizzes and every Cyber Campus lecture, over stored sessions that list
\* nothing, retries and continuations, unless a session of the chain lapsed
\* under its run or was restored hollow: its empty list confirms any task.
ProcessedAreDone ==
  ~ blind =>
    \A t \in played \union run.counted : Cyber \/ Kind[t] # "VOD" => t \in done

\* AUTOLEARN_CHAIN_MAX_SECONDS caps the chain: its rows have played less than
\* the cap and one more chunk (which may be one long task, and whose quizzes and
\* materials may take longer than the second they are planned with).
ChunkBound ==
  Longest({IF Cyber THEN CyberTarget ELSE Target} \union {seconds[t] : t \in Task}) + MaxTasks * Reading
ChainWithinCap == spent < ChainMax + ChunkBound

\* One result mail at most for a chain, however many rows it had, only when it is
\* over, and only of a success or of a row canceled between the worker's last
\* look at it and its report.
OneResultMail ==
  mails <= 1 /\ (mails = 1 => row.status \in {"succeeded", "canceled"})

\* A segment that is cut off and counted no time: it had only VODs without a
\* duration, and the next one plans them again.
NoTimeCounted == At("report") /\ run.cut /\ run.elapsed = 0

\* Every request comes to an end, by success, failure or the cap of its chain,
\* unless VODs without a duration keep the tasks after them from being played.
ChainEnds == Active ~> (~ Active \/ NoTimeCounted)
=============================================================================
