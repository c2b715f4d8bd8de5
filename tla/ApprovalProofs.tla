---------------------------- MODULE ApprovalProofs ----------------------------
(***************************************************************************)
(* Theorems about Approval, for every number of rows, runs, requests and   *)
(* lectures, and for every value of the bounds.                            *)
(***************************************************************************)
EXTENDS Approval, TLAPS

-----------------------------------------------------------------------------
(* The type invariant *)

\* Where a request works on a session it has read or made.
AtSession == {"look", "drop", "restart", "reread", "dispatch", "write", "expire",
              "failrow", "cancel", "cancelrow"}

\* A request that goes on in a later statement goes on with a row that exists.
CallsPoint ==
  \A c \in Caller :
    /\ call[c].pc \in AtSession =>
         call[c].s \in Row /\ session[call[c].s].status # "NONE"
    /\ In(c, "session") => call[c].s \in Row /\ job[call[c].s].status # "NONE"

TypeInv == TypeOK /\ CallsPoint

\* The steps of a run and of a request keep the records of their types.
LEMMA RunMoves ==
  ASSUME TypeOK, NEW p \in Run, NEW r \in RunState, SetRun(p, r)
  PROVE  run' \in [Run -> RunState] /\ run' = [run EXCEPT ![p] = r]
BY DEF TypeOK, SetRun

LEMMA RunRecords ==
  ASSUME TypeOK, NEW p \in Run, NEW c \in Attending \cup Closing \cup {"play", "done"},
         NEW n \in {"claim", "succeed", "failrow", "done"}
  PROVE  /\ To(p, c) \in RunState
         /\ [To(p, c) EXCEPT !.next = n] \in RunState
BY DEF TypeOK, To, NoRun, RunState, Action

\* An update of a session keeps its type, and no update makes one or loses one.
LEMMA SessionsUpdated ==
  ASSUME TypeOK, NEW s \in Row, NEW r \in SessionRow, r.status # "NONE",
         UpdateSession(s, r)
  PROVE  /\ session' \in [Row -> SessionRow]
         /\ \A t \in Row : session'[t].status # "NONE" <=> session[t].status # "NONE"
BY DEF TypeOK, UpdateSession, Open

LEMMA SessionsEnded ==
  ASSUME TypeOK, NEW s \in Row, NEW status \in Terminal, EndSession(s, status)
  PROVE  /\ session' \in [Row -> SessionRow]
         /\ \A t \in Row : session'[t].status # "NONE" <=> session[t].status # "NONE"
<1>1. Scrubbed(status) \in SessionRow /\ Scrubbed(status).status # "NONE"
  BY DEF Scrubbed, NoSession, SessionRow, Terminal, Action
<1> QED BY <1>1, SessionsUpdated DEF EndSession

\* A step of a session, a row or a run leaves the requests in place.
SessionsKept ==
  /\ session' \in [Row -> SessionRow]
  /\ \A t \in Row : session'[t].status # "NONE" <=> session[t].status # "NONE"

JobsKept ==
  /\ job' \in [Row -> JobRow]
  /\ \A t \in Row : job'[t].status # "NONE" <=> job[t].status # "NONE"

RunsKept ==
  /\ run' \in [Run -> RunState]
  /\ \A p \in Run : ~ At(p, "none")' =>
       run'[p].s \in Row /\ session'[run'[p].s].status # "NONE"

LEMMA BackgroundStep ==
  ASSUME TypeInv, SessionsKept, JobsKept, RunsKept, UNCHANGED call
  PROVE  TypeInv'
<1>1. TypeOK'
  BY DEF TypeInv, TypeOK, SessionsKept, JobsKept, RunsKept, At, Row, NoRow
<1>2. CallsPoint'
  BY DEF TypeInv, TypeOK, CallsPoint, SessionsKept, JobsKept, In
<1> QED BY <1>1, <1>2 DEF TypeInv

LEMMA StatusKept ==
  ASSUME TypeOK, NEW s \in Row, job[s].status # "NONE",
         NEW status \in {"BLOCKED", "PENDING", "RUNNING", "SUCCEEDED", "FAILED", "CANCELED"},
         SetStatus(s, status) \/ EndBlocked(s, status) \/ UNCHANGED job
  PROVE  JobsKept
<1> DEFINE r == [job[s] EXCEPT !.status = status]
<1>1. r \in JobRow /\ r.status = status
  BY DEF TypeOK, JobRow
<1>2. job' = [job EXCEPT ![s] = r] \/ UNCHANGED job
  BY DEF SetStatus, EndBlocked
<1> HIDE DEF r
<1> QED BY <1>1, <1>2 DEF TypeOK, JobsKept

LEMMA RunsUntouched ==
  ASSUME TypeInv, SessionsKept, UNCHANGED run
  PROVE  RunsKept
BY DEF TypeInv, TypeOK, SessionsKept, RunsKept, RunState, At, NoRow

\* A run that goes on with its session.
LEMMA RunGoesOn ==
  ASSUME TypeInv, SessionsKept, NEW p \in Run, ~ At(p, "none"),
         NEW r \in RunState, SetRun(p, r), r.s = run[p].s
  PROVE  RunsKept
<1>1. run' \in [Run -> RunState] /\ run' = [run EXCEPT ![p] = r]
  BY RunMoves DEF TypeInv
<1>2. ASSUME NEW q \in Run, q # p PROVE run'[q] = run[q]
  BY <1>1, <1>2 DEF TypeInv, TypeOK
<1>3. run'[p] = r
  BY <1>1 DEF TypeInv, TypeOK
<1>4. ASSUME NEW q \in Run, ~ At(q, "none")
      PROVE  run[q].s \in Row /\ session'[run[q].s].status # "NONE"
  BY <1>4 DEF TypeInv, TypeOK, SessionsKept, RunState, NoRow
<1>5. run[p].s \in Row /\ session'[run[p].s].status # "NONE"
  BY <1>4
<1> SUFFICES ASSUME NEW q \in Run, run'[q].pc # "none"
             PROVE  run'[q].s \in Row /\ session'[run'[q].s].status # "NONE"
  BY <1>1 DEF RunsKept, At
<1>6. CASE q = p BY <1>3, <1>5, <1>6
<1>7. CASE q # p BY <1>2, <1>4, <1>7 DEF At
<1> QED BY <1>6, <1>7

LEMMA NothingWritten ==
  ASSUME TypeInv
  PROVE  /\ UNCHANGED session => SessionsKept
         /\ UNCHANGED job => JobsKept
BY DEF TypeInv, TypeOK, SessionsKept, JobsKept

LEMMA SessionPut ==
  ASSUME TypeInv, NEW s \in Row, NEW r \in SessionRow, r.status = session[s].status,
         session' = [session EXCEPT ![s] = r]
  PROVE  SessionsKept
BY DEF TypeInv, TypeOK, SessionsKept

LEMMA RowsPreserveTypes ==
  ASSUME TypeInv, RowsNext, UNCHANGED <<run, call>>
  PROVE  TypeInv'
<1> PICK s \in Row : \/ TimePasses(s) \/ LeaseAges(s)
                     \/ QueueCancel(s) \/ QueueRetry(s) \/ QueueEnds(s)
  BY DEF RowsNext
<1>1. SessionsKept
  <2>1. CASE TimePasses(s)
    <3> DEFINE r == [session[s] EXCEPT !.late = TRUE]
    <3>1. r \in SessionRow /\ r.status = session[s].status
      BY DEF TypeInv, TypeOK, SessionRow
    <3>2. session' = [session EXCEPT ![s] = r]
      BY <2>1 DEF TimePasses
    <3> HIDE DEF r
    <3> QED BY <3>1, <3>2, SessionPut
  <2>2. CASE LeaseAges(s)
    <3> DEFINE r == [session[s] EXCEPT !.lease = "stale"]
    <3>1. r \in SessionRow /\ r.status = session[s].status
      BY DEF TypeInv, TypeOK, SessionRow
    <3>2. session' = [session EXCEPT ![s] = r]
      BY <2>2 DEF LeaseAges
    <3> HIDE DEF r
    <3> QED BY <3>1, <3>2, SessionPut
  <2>3. CASE QueueCancel(s) \/ QueueRetry(s) \/ QueueEnds(s)
    BY <2>3, NothingWritten DEF QueueCancel, QueueRetry, QueueEnds
  <2> QED BY <2>1, <2>2, <2>3
<1>2. JobsKept
  <2>1. CASE TimePasses(s) \/ LeaseAges(s)
    BY <2>1, NothingWritten DEF TimePasses, LeaseAges
  <2>2. CASE QueueCancel(s)
    BY <2>2, StatusKept DEF TypeInv, QueueCancel
  <2>3. CASE QueueRetry(s)
    BY <2>3, StatusKept DEF TypeInv, QueueRetry
  <2>4. CASE QueueEnds(s)
    <3>1. PICK status \in {"SUCCEEDED", "FAILED"} : SetStatus(s, status)
      BY <2>4 DEF QueueEnds
    <3> QED BY <2>4, <3>1, StatusKept DEF TypeInv, QueueEnds
  <2> QED BY <2>1, <2>2, <2>3, <2>4
<1> QED BY <1>1, <1>2, RunsUntouched, BackgroundStep

\* Every record that a run moves to keeps its session.
LEMMA RunRecordsKeepSession ==
  ASSUME NEW p \in Run, NEW c, NEW n
  PROVE  /\ To(p, c).s = run[p].s
         /\ [To(p, c) EXCEPT !.next = n].s = run[p].s
BY DEF To, NoRun

LEMMA RunMovesKeep ==
  ASSUME TypeInv, SessionsKept, NEW p \in Run, ~ At(p, "none"),
         NEW c \in Attending \cup Closing \cup {"play", "done"},
         NEW b \in BOOLEAN, NEW k \in BOOLEAN,
         NEW n \in {"claim", "succeed", "failrow", "done"},
         Go(p, c) \/ GoUsing(p, c, b, k) \/ GoAndThen(p, c, n)
  PROVE  RunsKept
<1>1. CASE Go(p, c)
  BY <1>1, RunRecords, RunRecordsKeepSession, RunGoesOn DEF TypeInv, Go
<1>2. CASE GoUsing(p, c, b, k)
  <2> DEFINE r == [To(p, c) EXCEPT !.bound = b, !.code = k]
  <2>1. r \in RunState
    BY DEF TypeInv, TypeOK, To, NoRun, RunState, Action
  <2>3. r.s = run[p].s
    BY DEF To, NoRun
  <2>2. SetRun(p, r)
    BY <1>2 DEF GoUsing
  <2> HIDE DEF r
  <2> QED BY <2>1, <2>2, <2>3, RunGoesOn
<1>3. CASE GoAndThen(p, c, n)
  BY <1>3, RunRecords, RunRecordsKeepSession, RunGoesOn DEF TypeInv, GoAndThen
<1> QED BY <1>1, <1>2, <1>3

\* A run that has a step to take has a session, and the session a row.
LEMMA RunHasRows ==
  ASSUME TypeInv, NEW p \in Run, ~ At(p, "none")
  PROVE  /\ run[p] \in RunState /\ run[p].s \in Row
         /\ Ses(p) \in SessionRow /\ Ses(p).status # "NONE"
         /\ job[run[p].s].status # "NONE"
BY DEF TypeInv, TypeOK, RunState, Ses, NoRow

LEMMA WorkerPreservesTypes ==
  ASSUME TypeInv, NEW p \in Run, RunStep(p) \/ Beat(p), UNCHANGED call
  PROVE  TypeInv'
<1>1. ~ At(p, "none")
  BY DEF RunStep, At, Boot, StartLease, Beat, Leased, ProbeReady, ProbeRefused,
         PortalFails, ListRead, ListWrite, Loop, Wait, Started, NotConfirmed,
         Confirmed, NotVerified, Verified, CompleteApproval, ClaimRead, ClaimTake,
         ClaimConflict, SucceedRow, FailAction, Expire, FailRow, PlayEnds
<1>2. /\ run[p] \in RunState /\ run[p].s \in Row
      /\ Ses(p) \in SessionRow /\ Ses(p).status # "NONE"
      /\ job[run[p].s].status # "NONE"
  BY <1>1, RunHasRows
<1>3. SessionsKept
  <2>1. ASSUME NEW b \in BOOLEAN, Heartbeat(p, b) PROVE SessionsKept
    <3> DEFINE r == [Ses(p) EXCEPT !.lease = "fresh", !.bound = b]
    <3>1. r \in SessionRow /\ r.status # "NONE"
      BY <1>2 DEF SessionRow
    <3>2. UpdateSession(run[p].s, r)
      BY <2>1 DEF Heartbeat
    <3> HIDE DEF r
    <3> QED BY <1>2, <3>1, <3>2, SessionsUpdated DEF TypeInv, SessionsKept
  <2>2. CASE StartLease(p)
    BY <2>1, <2>2 DEF StartLease
  <2>3. CASE Beat(p)
    BY <1>2, <2>1, <2>3 DEF Beat, RunState
  <2>4. CASE ListWrite(p)
    <3> DEFINE r == [status |-> IF run[p].auth = "started" THEN "ACTIVE" ELSE "PENDING",
                     action |-> IF run[p].action = "BOOTSTRAP" THEN "none"
                                ELSE run[p].action,
                     auth |-> IF run[p].auth = "none" THEN "listed"
                              ELSE run[p].auth,
                     code |-> run[p].code, lease |-> "fresh",
                     bound |-> run[p].bound,
                     restart |-> FALSE, late |-> FALSE]
    <3>1. r \in SessionRow /\ r.status # "NONE"
      BY <1>2 DEF RunState, Action, SessionRow
    <3>2. UpdateSession(run[p].s, r)
      BY <2>4 DEF ListWrite
    <3> HIDE DEF r
    <3> QED BY <1>2, <3>1, <3>2, SessionsUpdated DEF TypeInv, SessionsKept
  <2>5. ASSUME Answered(p) PROVE SessionsKept
    <3>1. Proving(run[p].code) \in SessionRow /\ Proving(run[p].code).status # "NONE"
      BY <1>2 DEF RunState, Proving, SessionRow, Action
    <3> QED BY <1>2, <2>5, <3>1, SessionsUpdated DEF TypeInv, Answered, SessionsKept
  <2>6. CASE CompleteApproval(p) \/ Expire(p)
    BY <1>2, <2>6, SessionsEnded
       DEF TypeInv, CompleteApproval, Expire, Terminal, SessionsKept
  <2>7. CASE FailAction(p)
    <3> DEFINE r == [Ses(p) EXCEPT !.action = "none", !.lease = "none",
                               !.bound = TRUE, !.late = FALSE]
    <3>1. r \in SessionRow /\ r.status # "NONE"
      BY <1>2 DEF SessionRow, Action
    <3>2. UpdateSession(run[p].s, r)
      BY <2>7 DEF FailAction
    <3> HIDE DEF r
    <3> QED BY <1>2, <3>1, <3>2, SessionsUpdated DEF TypeInv, SessionsKept
  <2>8. CASE UNCHANGED session
    BY <2>8, NothingWritten
  <2> QED BY <2>2, <2>3, <2>4, <2>5, <2>6, <2>7, <2>8
       DEF RunStep, rowVars, Boot, ProbeReady, ProbeRefused, PortalFails, ListRead,
           Loop, Wait, Started, NotConfirmed, Confirmed, NotVerified, Verified,
           ClaimRead, ClaimTake, ClaimConflict, SucceedRow, FailRow, PlayEnds
<1>4. JobsKept
  <2>1. CASE ClaimTake(p)
    BY <1>2, <2>1, StatusKept DEF TypeInv, ClaimTake
  <2>2. CASE ClaimConflict(p) \/ SucceedRow(p) \/ FailRow(p)
    BY <1>2, <2>2, StatusKept DEF TypeInv, ClaimConflict, SucceedRow, FailRow
  <2>3. CASE PlayEnds(p)
    <3>1. UNCHANGED job \/ \E status \in {"SUCCEEDED", "FAILED"} :
                             SetStatus(run[p].s, status)
      BY <2>3 DEF PlayEnds
    <3> QED BY <1>2, <3>1, StatusKept DEF TypeInv
  <2>4. CASE UNCHANGED job
    BY <2>4, NothingWritten
  <2> QED BY <2>1, <2>2, <2>3, <2>4
       DEF RunStep, rowVars, Boot, StartLease, Beat, ProbeReady, ProbeRefused,
           PortalFails, ListRead, ListWrite, Loop, Wait, Answered, Started,
           NotConfirmed, Confirmed, NotVerified, Verified, CompleteApproval,
           ClaimRead, FailAction, Expire
<1>5. RunsKept
  <2>1. CASE Beat(p)
    BY <1>3, <2>1, RunsUntouched DEF Beat
  <2>2. CASE Boot(p) \/ StartLease(p) \/ ProbeReady(p) \/ ProbeRefused(p)
    BY <1>1, <1>3, <2>2, RunMovesKeep
       DEF Boot, StartLease, ProbeReady, ProbeRefused, GoBeating, Attending, Leased, Closing
  <2>3. CASE PortalFails(p)
    BY <1>1, <1>3, <2>3, RunMovesKeep DEF PortalFails, Attending, Leased
  <2>4. CASE ListRead(p)
    <3> DEFINE b == Ses(p).action = "CONFIRM"
               r == [To(p, "listed") EXCEPT !.action = Ses(p).action,
                                            !.auth = Ses(p).auth,
                                            !.code = Ses(p).code, !.bound = b]
    <3>1. b \in BOOLEAN OBVIOUS
    <3>2. SetRun(p, r) BY <2>4 DEF ListRead
    <3>3. r \in RunState /\ r.s = run[p].s
      <4> HIDE DEF b
      <4> QED BY <1>2, <3>1 DEF To, NoRun, RunState, SessionRow, Attending, Leased
    <3> HIDE DEF r
    <3> QED BY <1>1, <1>3, <3>2, <3>3, RunGoesOn
  <2>5. CASE ListWrite(p)
    BY <1>1, <1>2, <1>3, <2>5, RunMovesKeep
       DEF ListWrite, GoBeating, RunState, Attending, Leased
  <2>6. CASE Loop(p) \/ Wait(p)
    <3> DEFINE b == Ses(p).auth = "started"
               k == Ses(p).code
    <3>1. b \in BOOLEAN /\ k \in BOOLEAN
      BY <1>2 DEF SessionRow
    <3>2. \/ Go(p, "done") \/ Go(p, "expire") \/ GoUsing(p, "starting", FALSE, k)
          \/ GoUsing(p, "confirming", TRUE, k) \/ GoUsing(p, "wait", b, k)
          \/ GoUsing(p, "loop", run[p].bound, FALSE)
      BY <2>6 DEF Loop, Wait, Over, Late, GoBeating
    <3> HIDE DEF b, k
    <3>3. CASE Go(p, "done") \/ Go(p, "expire")
      BY <1>1, <1>3, <3>3, RunMovesKeep DEF Attending
    <3>4. CASE GoUsing(p, "starting", FALSE, k) \/ GoUsing(p, "confirming", TRUE, k)
      BY <1>1, <1>3, <3>1, <3>4, RunMovesKeep DEF Attending, Leased
    <3>5. CASE GoUsing(p, "wait", b, k) \/ GoUsing(p, "loop", run[p].bound, FALSE)
      BY <1>1, <1>2, <1>3, <3>1, <3>5, RunMovesKeep DEF RunState, Attending, Leased
    <3> QED BY <3>2, <3>3, <3>4, <3>5
  <2>7. CASE Started(p) \/ NotConfirmed(p) \/ Confirmed(p) \/ NotVerified(p)
    BY <1>1, <1>2, <1>3, <2>7, RunMovesKeep
       DEF Started, NotConfirmed, Confirmed, NotVerified, GoBeating, RunState,
           Attending, Leased
  <2>8. CASE Verified(p) \/ Expire(p)
    BY <1>1, <1>3, <2>8, RunMovesKeep DEF Verified, Expire, Attending, Closing
  <2>9. CASE CompleteApproval(p) \/ FailAction(p)
    BY <1>1, <1>2, <1>3, <2>9, RunMovesKeep
       DEF CompleteApproval, FailAction, RunState, Closing
  <2>10. CASE ClaimRead(p) \/ ClaimTake(p) \/ ClaimConflict(p)
    BY <1>1, <1>3, <2>10, RunMovesKeep
       DEF ClaimRead, ClaimTake, ClaimConflict, Closing, Attending
  <2>11. CASE SucceedRow(p) \/ FailRow(p) \/ PlayEnds(p)
    BY <1>1, <1>3, <2>11, RunMovesKeep DEF SucceedRow, FailRow, PlayEnds
  <2> QED BY <2>1, <2>2, <2>3, <2>4, <2>5, <2>6, <2>7, <2>8, <2>9, <2>10, <2>11
          DEF RunStep
<1> QED BY <1>3, <1>4, <1>5, BackgroundStep

\* Where a request may go on to: its row and its session exist by then.
Points(r) ==
  /\ r \in CallState
  /\ r.pc \in AtSession => r.s \in Row /\ session'[r.s].status # "NONE"
  /\ r.pc = "session" => r.s \in Row /\ job'[r.s].status # "NONE"

\* Rows and sessions may be added, a session to a row that exists.
RowsGrow ==
  /\ job' \in [Row -> JobRow] /\ session' \in [Row -> SessionRow]
  /\ \A t \in Row :
       /\ job[t].status # "NONE" => job'[t].status # "NONE"
       /\ session[t].status # "NONE" => session'[t].status # "NONE"
       /\ session'[t].status # "NONE" => job'[t].status # "NONE"

LEMMA RowsKeptGrow ==
  ASSUME TypeInv, SessionsKept, JobsKept
  PROVE  RowsGrow
BY DEF TypeInv, TypeOK, SessionsKept, JobsKept, RowsGrow

\* A step of a request preserves the types if what it goes on with exists.
LEMMA CallMoves ==
  ASSUME TypeInv, RowsGrow, RunsKept, NEW c \in Caller, NEW r, Points(r),
         SetCall(c, r)
  PROVE  TypeInv'
<1>1. /\ call' = [call EXCEPT ![c] = r] /\ call \in [Caller -> CallState]
      /\ r \in CallState
  BY DEF TypeInv, TypeOK, SetCall, Points
<1>2. call' \in [Caller -> CallState] /\ call'[c] = r
  BY <1>1
<1>3. ASSUME NEW d \in Caller, d # c PROVE call'[d] = call[d]
  BY <1>1, <1>3
<1>4. TypeOK'
  BY <1>2 DEF TypeOK, RowsGrow, RunsKept, At, Row, NoRow
<1>5. CallsPoint'
  <2> SUFFICES ASSUME NEW d \in Caller
               PROVE  /\ call'[d].pc \in AtSession =>
                           /\ call'[d].s \in Row
                           /\ session'[call'[d].s].status # "NONE"
                      /\ call'[d].pc = "session" =>
                           /\ call'[d].s \in Row
                           /\ job'[call'[d].s].status # "NONE"
    BY DEF CallsPoint, In
  <2>1. CASE d = c BY <1>2, <2>1 DEF Points
  <2>2. CASE d # c
    BY <1>3, <2>2 DEF TypeInv, CallsPoint, RowsGrow, In
  <2> QED BY <2>1, <2>2
<1> QED BY <1>4, <1>5 DEF TypeInv

LEMMA IdlePoints == Points(Idle)
BY DEF Points, Idle, CallState, AtSession, Op, ByIdOp

\* A request whose session exists goes on with it, goes back to look for
\* another row, or returns.
LEMMA CallGoesOn ==
  ASSUME TypeInv, SessionsKept, JobsKept, RunsKept, NEW c \in Caller,
         call[c].pc \in AtSession \cup {"find", "create"},
         NEW pc \in AtSession \cup {"find", "create"},
         call[c].pc \in AtSession \/ pc \notin AtSession,
         Goto(c, pc) \/ Return(c)
  PROVE  TypeInv'
<1>1. CASE Goto(c, pc)
  <2> DEFINE r == [call[c] EXCEPT !.pc = pc]
  <2>1. call[c] \in CallState
    BY DEF TypeInv, TypeOK
  <2>2. r \in CallState /\ r.pc = pc /\ r.s = call[c].s
    BY <2>1 DEF CallState, AtSession
  <2>3. pc # "session"
    BY DEF AtSession
  <2>4. Points(r)
    BY <2>2, <2>3 DEF Points, TypeInv, CallsPoint, SessionsKept
  <2> QED BY <1>1, <2>4, CallMoves, RowsKeptGrow DEF Goto
<1>2. CASE Return(c)
  BY <1>2, IdlePoints, CallMoves, RowsKeptGrow DEF Return
<1> QED BY <1>1, <1>2

LEMMA UnchangedRowsKept ==
  ASSUME TypeInv, UNCHANGED rowVars
  PROVE  SessionsKept /\ JobsKept
BY NothingWritten DEF rowVars

\* Requests and polls take the current session, if there is one.
LEMMA AskPreservesTypes ==
  ASSUME TypeInv, NEW c \in Caller, NEW op \in {"request", "poll"},
         NEW l \in Lecture \cup {NoLecture}, Ask(c, op, l)
  PROVE  TypeInv'
<1> DEFINE r == [Idle EXCEPT !.op = op, !.lecture = l]
<1>1. SessionsKept /\ JobsKept
  BY UnchangedRowsKept DEF Ask
<1>2. RunsKept /\ RowsGrow
  BY <1>1, RunsUntouched, RowsKeptGrow DEF Ask
<1>3. r \in CallState
  BY DEF Idle, CallState, Op
<1>4. ASSUME NEW s \in Current,
             SetCall(c, [r EXCEPT !.pc = "look", !.s = s,
                                  !.reject = Rejects(session[s])])
      PROVE  TypeInv'
  <2> DEFINE b == Rejects(session[s])
             q == [r EXCEPT !.pc = "look", !.s = s, !.reject = b]
  <2>1. b \in BOOLEAN
    BY DEF Rejects, WorkerAlive, Current, TypeInv, TypeOK, SessionRow
  <2>2. s \in Row /\ session'[s].status # "NONE"
    BY <1>1 DEF Current, Open, SessionsKept
  <2>3. q \in CallState /\ q.pc = "look" /\ q.s = s
    <3> HIDE DEF b
    <3> QED BY <1>3, <2>1, <2>2 DEF CallState
  <2>4. SetCall(c, q)
    BY <1>4
  <2> HIDE DEF q
  <2>5. Points(q)
    BY <2>2, <2>3 DEF Points
  <2> QED BY <1>2, <2>4, <2>5, CallMoves
<1>5. ASSUME SetCall(c, [r EXCEPT !.pc = "find"]) PROVE TypeInv'
  <2>1. Points([r EXCEPT !.pc = "find"])
    BY <1>3 DEF Points, CallState, AtSession
  <2> QED BY <1>2, <1>5, <2>1, CallMoves
<1> QED BY <1>4, <1>5 DEF Ask

\* What start and confirm go on with is the session they have read.
LEMMA DecidePreservesTypes ==
  ASSUME TypeInv, NEW c \in Caller, NEW op \in Op \cup {"none"}, NEW s \in Row,
         session[s].status # "NONE", Decide(c, op, s), UNCHANGED <<rowVars, run>>
  PROVE  TypeInv'
<1> DEFINE b == WorkerAlive(session[s])
           go == [Idle EXCEPT !.op = op, !.s = s, !.alive = b]
<1>1. SessionsKept /\ JobsKept
  BY UnchangedRowsKept
<1>2. RunsKept /\ RowsGrow
  BY <1>1, RunsUntouched, RowsKeptGrow
<1>3. b \in BOOLEAN
  BY DEF WorkerAlive
<1>4. \/ \E code \in BOOLEAN :
           SetCall(c, [go EXCEPT !.pc = "write", !.code = code])
      \/ SetCall(c, [go EXCEPT !.pc = "restart", !.op = "view"])
      \/ SetCall(c, Idle)
  <2>1. session[s].code \in BOOLEAN /\ Methods \subseteq BOOLEAN
    BY RowsAssumption DEF TypeInv, TypeOK, SessionRow
  <2> QED BY <2>1 DEF Decide, Return
<1> HIDE DEF b
<1>5. go \in CallState /\ go.s = s
  BY <1>3 DEF Idle, CallState
<1>6. ASSUME NEW code \in BOOLEAN
      PROVE  Points([go EXCEPT !.pc = "write", !.code = code])
  BY <1>1, <1>5 DEF Points, SessionsKept, CallState
<1>7. Points([go EXCEPT !.pc = "restart", !.op = "view"])
  BY <1>1, <1>5 DEF Points, SessionsKept, CallState, Op, ByIdOp
<1> QED BY <1>2, <1>4, <1>6, <1>7, IdlePoints, CallMoves

LEMMA ActPreservesTypes ==
  ASSUME TypeInv, NEW c \in Caller, NEW op \in UserOps, NEW s \in Row, Act(c, op, s)
  PROVE  TypeInv'
<1> DEFINE r == [Idle EXCEPT !.op = op, !.s = s]
<1>1. SessionsKept /\ JobsKept /\ session[s].status # "NONE"
  BY UnchangedRowsKept DEF Act
<1>2. RunsKept /\ RowsGrow
  BY <1>1, RunsUntouched, RowsKeptGrow DEF Act
<1>3. op \in Op /\ r \in CallState
  BY OpsAssumption DEF Idle, CallState, Op
<1>4. ASSUME NEW pc \in {"cancel", "expire", "restart"}
      PROVE  Points([r EXCEPT !.pc = pc])
  <2>1. r.s = s
    BY DEF Idle
  <2> HIDE DEF r
  <2>2. /\ [r EXCEPT !.pc = pc] \in CallState
        /\ [r EXCEPT !.pc = pc].pc = pc /\ [r EXCEPT !.pc = pc].s = s
    BY <1>3, <2>1 DEF CallState
  <2> QED BY <1>1, <2>2 DEF Points, SessionsKept
<1>5. \/ \E pc \in {"cancel", "expire", "restart"} :
           SetCall(c, [r EXCEPT !.pc = pc])
      \/ Decide(c, op, s)
  BY DEF Act
<1>6. CASE Decide(c, op, s)
  BY <1>1, <1>3, <1>6, DecidePreservesTypes DEF Act
<1> QED BY <1>2, <1>4, <1>5, <1>6, CallMoves

\* A new run is given a session that exists.
LEMMA StartRunKeeps ==
  ASSUME TypeInv, SessionsKept, NEW s \in Row, session[s].status # "NONE", StartRun(s)
  PROVE  RunsKept
<1>1. CASE UNCHANGED run
  BY <1>1, RunsUntouched
<1>2. ASSUME NEW p \in Run, SetRun(p, [NoRun EXCEPT !.pc = "queued", !.s = s])
      PROVE  RunsKept
  <2> DEFINE r == [NoRun EXCEPT !.pc = "queued", !.s = s]
  <2>1. r \in RunState /\ r.s = s
    BY DEF NoRun, RunState, Attending, Action
  <2>2. run' \in [Run -> RunState] /\ run' = [run EXCEPT ![p] = r]
    BY <1>2, <2>1, RunMoves DEF TypeInv
  <2>3. run'[p].s = s /\ \A q \in Run : q # p => run'[q] = run[q]
    BY <2>1, <2>2 DEF TypeInv, TypeOK
  <2>4. ASSUME NEW q \in Run, run'[q].pc # "none"
        PROVE  run'[q].s \in Row /\ session'[run'[q].s].status # "NONE"
    <3>1. CASE q = p BY <2>3, <3>1 DEF SessionsKept
    <3>2. CASE q # p
      BY <2>3, <2>4, <3>2 DEF TypeInv, TypeOK, SessionsKept, RunState, NoRow, At
    <3> QED BY <3>1, <3>2
  <2> QED BY <2>2, <2>4 DEF RunsKept, At
<1> QED BY <1>1, <1>2 DEF StartRun

\* The statements of an accepted request preserve the types.
LEMMA WebPreservesTypes ==
  ASSUME TypeInv, NEW c \in Caller, WebStep(c)
  PROVE  TypeInv'
<1>1. call[c].pc \in AtSession \cup {"session"} =>
        /\ call[c] \in CallState /\ call[c].s \in Row
        /\ job[call[c].s].status # "NONE"
        /\ call[c].pc \in AtSession => session[call[c].s].status # "NONE"
  BY DEF TypeInv, TypeOK, CallsPoint, In
<1>2. CASE Look(c) \/ FindQueued(c)
  <2>1. SessionsKept /\ JobsKept /\ RunsKept
    BY <1>2, UnchangedRowsKept, RunsUntouched DEF Look, FindQueued
  <2> QED BY <1>2, <2>1, CallGoesOn DEF Look, FindQueued, In, AtSession
<1>3. CASE Drop(c) \/ WebExpire(c) \/ Cancel(c)
  <2>1. \E status \in Terminal : EndSession(call[c].s, status)
    BY <1>3 DEF Drop, WebExpire, Cancel, Terminal
  <2>2. SessionsKept
    BY <1>1, <1>3, <2>1, SessionsEnded
       DEF TypeInv, SessionsKept, Drop, WebExpire, Cancel, In, AtSession
  <2>3. JobsKept /\ RunsKept
    BY <1>3, <2>2, NothingWritten, RunsUntouched DEF Drop, WebExpire, Cancel
  <2> QED BY <1>3, <2>2, <2>3, CallGoesOn
          DEF Drop, WebExpire, Cancel, In, AtSession
<1>4. CASE Restart(c)
  <2> DEFINE r == [session[call[c].s] EXCEPT !.status = "PENDING",
                     !.action = "none", !.lease = "none",
                     !.bound = TRUE, !.restart = TRUE]
  <2>0. call[c].s \in Row /\ session[call[c].s] \in SessionRow
    BY <1>1, <1>4 DEF TypeInv, TypeOK, Restart, In, AtSession
  <2>1. r \in SessionRow /\ r.status # "NONE"
    BY <2>0 DEF SessionRow, Action
  <2>2. UpdateSession(call[c].s, r)
    BY <1>4 DEF Restart
  <2> HIDE DEF r
  <2>3. SessionsKept
    BY <1>1, <1>4, <2>1, <2>2, SessionsUpdated
       DEF TypeInv, SessionsKept, Restart, In, AtSession
  <2>4. JobsKept /\ RunsKept
    BY <1>4, <2>3, NothingWritten, RunsUntouched DEF Restart
  <2> QED BY <1>4, <2>3, <2>4, CallGoesOn DEF Restart, In, AtSession
<1>5. CASE Reread(c)
  BY <1>1, <1>5, DecidePreservesTypes DEF Reread, In, AtSession, CallState
<1>6. CASE CreateJob(c)
  <2>1. PICK s \in FreeRows :
          /\ job' = [job EXCEPT ![s] = [status |-> "BLOCKED",
                                        lecture |-> call[c].lecture]]
          /\ SetCall(c, [call[c] EXCEPT !.pc = "session", !.s = s])
    BY <1>6 DEF CreateJob
  <2> DEFINE r == [call[c] EXCEPT !.pc = "session", !.s = s]
  <2>2. call[c] \in CallState /\ s \in Row
    BY DEF FreeRows, TypeInv, TypeOK
  <2>3. r \in CallState /\ r.pc = "session" /\ r.s = s
    BY <2>2 DEF CallState
  <2>4. job' \in [Row -> JobRow] /\ job'[s].status = "BLOCKED"
        /\ \A t \in Row : t # s => job'[t] = job[t]
    BY <2>1, <2>2 DEF TypeInv, TypeOK, JobRow, CallState
  <2>5. RowsGrow
    BY <1>6, <2>4 DEF CreateJob, RowsGrow, TypeInv, TypeOK
  <2>6. RunsKept
    BY <1>6, NothingWritten, RunsUntouched DEF CreateJob
  <2>7. SetCall(c, r)
    BY <2>1
  <2> HIDE DEF r
  <2>8. Points(r)
    BY <2>2, <2>3, <2>4 DEF Points, AtSession
  <2> QED BY <2>5, <2>6, <2>7, <2>8, CallMoves
<1>7. CASE CreateSession(c)
  <2> DEFINE r == [call[c] EXCEPT !.pc = "dispatch"]
  <2>1. call[c] \in CallState /\ call[c].s \in Row /\ job[call[c].s].status # "NONE"
    BY <1>1, <1>7 DEF CreateSession, In
  <2>2. r \in CallState /\ r.pc = "dispatch" /\ r.s = call[c].s
    BY <2>1 DEF CallState
  <2>3. NewSession \in SessionRow /\ NewSession.status = "PENDING"
    BY DEF NewSession, NoSession, SessionRow, Action
  <2>4. /\ session' \in [Row -> SessionRow]
        /\ session'[call[c].s].status = "PENDING"
        /\ \A t \in Row : t # call[c].s => session'[t] = session[t]
    BY <1>7, <2>1, <2>3 DEF CreateSession, TypeInv, TypeOK
  <2>5. RowsGrow
    BY <1>7, <2>1, <2>4 DEF CreateSession, RowsGrow, TypeInv, TypeOK
  <2>6. RunsKept
    BY <1>7, <2>4 DEF CreateSession, RunsKept, TypeInv, TypeOK, RunState, At, NoRow
  <2>7. Points(r)
    BY <2>1, <2>2, <2>4 DEF Points
  <2> QED BY <1>7, <2>5, <2>6, <2>7, CallMoves DEF CreateSession, Goto
<1>8. CASE Dispatch(c)
  <2>1. SessionsKept /\ JobsKept
    BY <1>8, UnchangedRowsKept DEF Dispatch
  <2>2. RunsKept
    BY <1>1, <1>8, <2>1, StartRunKeeps DEF Dispatch, In, AtSession
  <2> QED BY <1>8, <2>1, <2>2, CallGoesOn DEF Dispatch, In, AtSession
<1>9. CASE Write(c)
  <2> DEFINE s == call[c].s
             q == [session[s] EXCEPT !.status = "PENDING", !.restart = FALSE,
                                     !.late = FALSE, !.code = call[c].code]
             r == IF call[c].op = "start"
                  THEN [q EXCEPT !.action = "START", !.bound = FALSE,
                                 !.auth = "chosen"]
                  ELSE [q EXCEPT !.action = "CONFIRM", !.bound = TRUE,
                                 !.auth = IF @ = "started" THEN @ ELSE "chosen"]
  <2>0. s \in Row /\ session[s] \in SessionRow /\ call[c].code \in BOOLEAN
    BY <1>1, <1>9 DEF TypeInv, TypeOK, Write, In, AtSession, CallState
  <2>1. q \in SessionRow /\ q.status = "PENDING"
    BY <2>0 DEF SessionRow
  <2>2. r \in SessionRow /\ r.status # "NONE"
    <3> HIDE DEF q
    <3> QED BY <2>1 DEF SessionRow, Action
  <2>3. UpdateSession(s, r)
    BY <1>9 DEF Write
  <2> HIDE DEF r
  <2>4. SessionsKept
    BY <1>1, <1>9, <2>2, <2>3, SessionsUpdated
       DEF TypeInv, SessionsKept, Write, In, AtSession
  <2>5. JobsKept /\ RunsKept
    BY <1>9, <2>4, NothingWritten, RunsUntouched DEF Write
  <2> QED BY <1>9, <2>4, <2>5, CallGoesOn DEF Write, In, AtSession
<1>10. CASE WebFailRow(c) \/ CancelRow(c)
  <2>1. SessionsKept /\ RunsKept
    BY <1>10, NothingWritten, RunsUntouched DEF WebFailRow, CancelRow
  <2>2. JobsKept
    BY <1>1, <1>10, StatusKept DEF TypeInv, WebFailRow, CancelRow, In, AtSession
  <2> QED BY <1>10, <2>1, <2>2, CallGoesOn
          DEF WebFailRow, CancelRow, In, AtSession
<1> QED BY <1>2, <1>3, <1>4, <1>5, <1>6, <1>7, <1>8, <1>9, <1>10 DEF WebStep

LEMMA TypeInvInit == Init => TypeInv
<1> SUFFICES ASSUME Init PROVE TypeInv
  OBVIOUS
<1>1. job \in [Row -> JobRow] /\ session \in [Row -> SessionRow]
  BY DEF Init, WorkerInit, RowsInit, NoJobRow, NoSession, JobRow, SessionRow, Action
<1>2. run \in [Run -> RunState] /\ call \in [Caller -> CallState]
  BY DEF Init, WorkerInit, NoRun, RunState, Idle, CallState, Action
<1>3. \A s \in Row : session[s].status = "NONE"
  BY DEF Init, WorkerInit, RowsInit, NoSession
<1>4. \A p \in Run : At(p, "none")
  BY DEF Init, WorkerInit, NoRun, At
<1>5. \A c \in Caller : call[c].pc = "idle"
  BY DEF Init, Idle
<1> QED BY <1>1, <1>2, <1>3, <1>4, <1>5 DEF TypeInv, TypeOK, CallsPoint, In, AtSession

LEMMA TypeInvStep == TypeInv /\ [Next]_vars => TypeInv'
<1> SUFFICES ASSUME TypeInv, [Next]_vars PROVE TypeInv'
  OBVIOUS
<1>1. CASE RowsNext /\ UNCHANGED <<run, call>>
  BY <1>1, RowsPreserveTypes
<1>2. CASE WorkerNext /\ UNCHANGED call
  BY <1>2, WorkerPreservesTypes DEF WorkerNext
<1>3. ASSUME NEW c \in Caller, WebStep(c) PROVE TypeInv'
  BY <1>3, WebPreservesTypes
<1>4. ASSUME NEW c \in Caller, Request(c) \/ Poll(c) PROVE TypeInv'
  BY <1>4, AskPreservesTypes DEF Request, Poll
<1>5. ASSUME NEW c \in Caller, UserActs(c) PROVE TypeInv'
  BY <1>5, ActPreservesTypes DEF UserActs
<1>6. CASE UNCHANGED vars
  BY <1>6 DEF vars, TypeInv, TypeOK, CallsPoint, At, In
<1> QED BY <1>1, <1>2, <1>3, <1>4, <1>5, <1>6 DEF Next

\* Values keep their types, and a statement of a request or of a run never
\* works on a row or a session that was not created before.
THEOREM TypesCorrect == Spec => []TypeOK
<1>1. TypeInv => TypeOK
  BY DEF TypeInv
<1> QED BY <1>1, TypeInvInit, TypeInvStep, PTL DEF Spec

-----------------------------------------------------------------------------
(* What is in a session *)

\* What an open session may hold, and what every session does.
HasMethod(r) == r.action \in {"START", "CONFIRM"} => r.auth \in {"chosen", "started"}

SessionOK(r) ==
  /\ HasMethod(r)
  /\ r.status \in Terminal =>
       r.action = "none" /\ r.auth = "none" /\ r.lease = "none" /\ ~ r.restart

\* A run that has read a session remembers it as it may be.
SessionInv ==
  /\ \A s \in Row : SessionOK(session[s])
  /\ \A p \in Run : At(p, "listed") => HasMethod(run[p])

\* A look at the clock or at a lease, and an update of an open session.
LEMMA OpenUpdate ==
  ASSUME TypeInv, SessionInv, NEW s \in Row, NEW r, UpdateSession(s, r),
         SessionOK(r) \/ ~ Open(s)
  PROVE  \A t \in Row : SessionOK(session'[t])
BY DEF TypeInv, TypeOK, SessionInv, UpdateSession

LEMMA EndUpdate ==
  ASSUME TypeInv, SessionInv, NEW s \in Row, NEW status \in Terminal,
         EndSession(s, status)
  PROVE  \A t \in Row : SessionOK(session'[t])
<1>1. SessionOK(Scrubbed(status))
  BY DEF SessionOK, HasMethod, Scrubbed, NoSession
<1> QED BY <1>1, OpenUpdate DEF EndSession

\* Sessions are as they may be after every step of a run.
LEMMA WorkerKeepsSessions ==
  ASSUME TypeInv, SessionInv, NEW p \in Run, RunStep(p) \/ Beat(p)
  PROVE  \A t \in Row : SessionOK(session'[t])
<1>1. ~ At(p, "none")
  BY DEF RunStep, At, Boot, StartLease, Beat, Leased, ProbeReady, ProbeRefused,
         PortalFails, ListRead, ListWrite, Loop, Wait, Started, NotConfirmed,
         Confirmed, NotVerified, Verified, CompleteApproval, ClaimRead, ClaimTake,
         ClaimConflict, SucceedRow, FailAction, Expire, FailRow, PlayEnds
<1>2. run[p].s \in Row /\ Ses(p) \in SessionRow /\ SessionOK(Ses(p))
  BY <1>1, RunHasRows DEF SessionInv, Ses
<1>3. ASSUME NEW b, Heartbeat(p, b) PROVE \A t \in Row : SessionOK(session'[t])
  <2> DEFINE r == [Ses(p) EXCEPT !.lease = "fresh", !.bound = b]
  <2>1. SessionOK(r) \/ ~ Open(run[p].s)
    BY <1>2 DEF SessionOK, HasMethod, SessionRow, Open, Ses, Terminal
  <2>2. UpdateSession(run[p].s, r)
    BY <1>3 DEF Heartbeat
  <2> HIDE DEF r
  <2> QED BY <1>2, <2>1, <2>2, OpenUpdate
<1>4. CASE StartLease(p) \/ Beat(p)
  BY <1>3, <1>4 DEF StartLease, Beat
<1>5. CASE ListWrite(p)
  <2> DEFINE r == [status |-> IF run[p].auth = "started" THEN "ACTIVE" ELSE "PENDING",
                   action |-> IF run[p].action = "BOOTSTRAP" THEN "none"
                              ELSE run[p].action,
                   auth |-> IF run[p].auth = "none" THEN "listed" ELSE run[p].auth,
                   code |-> run[p].code, lease |-> "fresh",
                     bound |-> run[p].bound,
                   restart |-> FALSE, late |-> FALSE]
  <2>1. HasMethod(run[p])
    BY <1>5 DEF SessionInv, ListWrite
  <2>2. SessionOK(r)
    BY <2>1 DEF SessionOK, HasMethod, Terminal
  <2>3. UpdateSession(run[p].s, r)
    BY <1>5 DEF ListWrite
  <2> HIDE DEF r
  <2> QED BY <1>2, <2>2, <2>3, OpenUpdate
<1>6. ASSUME Answered(p) PROVE \A t \in Row : SessionOK(session'[t])
  <2>1. SessionOK(Proving(run[p].code))
    BY DEF Proving, SessionOK, HasMethod, Terminal
  <2> QED BY <1>2, <1>6, <2>1, OpenUpdate DEF Answered
<1>7. CASE Started(p) \/ NotConfirmed(p) \/ Confirmed(p) \/ NotVerified(p) \/ Verified(p)
  BY <1>6, <1>7 DEF Started, NotConfirmed, Confirmed, NotVerified, Verified, GoBeating
<1>8. CASE CompleteApproval(p) \/ Expire(p)
  BY <1>2, <1>8, EndUpdate DEF CompleteApproval, Expire, Terminal
<1>9. CASE FailAction(p)
  <2> DEFINE r == [Ses(p) EXCEPT !.action = "none", !.lease = "none",
                                 !.bound = TRUE, !.late = FALSE]
  <2>1. SessionOK(r)
    BY <1>2 DEF SessionOK, HasMethod, SessionRow
  <2>2. UpdateSession(run[p].s, r)
    BY <1>9 DEF FailAction
  <2> HIDE DEF r
  <2> QED BY <1>2, <2>1, <2>2, OpenUpdate
<1>10. CASE UNCHANGED session
  BY <1>10 DEF SessionInv
<1> QED BY <1>4, <1>5, <1>7, <1>8, <1>9, <1>10
     DEF RunStep, rowVars, Boot, ProbeReady, ProbeRefused, PortalFails, ListRead,
         Loop, Wait, ClaimRead, ClaimTake, ClaimConflict, SucceedRow, FailRow, PlayEnds

\* Sessions are as they may be after every statement of a request.
LEMMA WebKeepsSessions ==
  ASSUME TypeInv, SessionInv, NEW c \in Caller, WebStep(c)
  PROVE  \A t \in Row : SessionOK(session'[t])
<1>1. call[c].pc \in AtSession =>
        /\ call[c].s \in Row /\ session[call[c].s] \in SessionRow
        /\ SessionOK(session[call[c].s])
  BY DEF TypeInv, TypeOK, CallsPoint, SessionInv
<1>2. CASE Drop(c) \/ WebExpire(c) \/ Cancel(c)
  <2>1. \E status \in Terminal : EndSession(call[c].s, status)
    BY <1>2 DEF Drop, WebExpire, Cancel, Terminal
  <2> QED BY <1>1, <1>2, <2>1, EndUpdate DEF Drop, WebExpire, Cancel, In, AtSession
<1>3. CASE Restart(c)
  <2> DEFINE r == [session[call[c].s] EXCEPT !.status = "PENDING",
                     !.action = "none", !.lease = "none",
                     !.bound = TRUE, !.restart = TRUE]
  <2>1. call[c].s \in Row /\ session[call[c].s] \in SessionRow
    BY <1>1, <1>3 DEF Restart, In, AtSession
  <2>2. SessionOK(r)
    BY <2>1 DEF SessionOK, HasMethod, SessionRow, Terminal
  <2>3. UpdateSession(call[c].s, r)
    BY <1>3 DEF Restart
  <2> HIDE DEF r
  <2> QED BY <2>1, <2>2, <2>3, OpenUpdate
<1>4. CASE Write(c)
  <2> DEFINE s == call[c].s
             q == [session[s] EXCEPT !.status = "PENDING", !.restart = FALSE,
                                     !.late = FALSE, !.code = call[c].code]
             r == IF call[c].op = "start"
                  THEN [q EXCEPT !.action = "START", !.bound = FALSE,
                                 !.auth = "chosen"]
                  ELSE [q EXCEPT !.action = "CONFIRM", !.bound = TRUE,
                                 !.auth = IF @ = "started" THEN @ ELSE "chosen"]
  <2>1. s \in Row /\ session[s] \in SessionRow /\ call[c].code \in BOOLEAN
    BY <1>1, <1>4 DEF TypeInv, TypeOK, Write, In, AtSession, CallState
  <2>2. q \in SessionRow /\ q.status = "PENDING"
    BY <2>1 DEF SessionRow
  <2>3. SessionOK(r)
    <3> HIDE DEF q
    <3> QED BY <2>2 DEF SessionOK, HasMethod, SessionRow, Terminal
  <2>4. UpdateSession(s, r)
    BY <1>4 DEF Write
  <2> HIDE DEF r
  <2> QED BY <2>1, <2>3, <2>4, OpenUpdate
<1>5. CASE CreateSession(c)
  <2>1. SessionOK(NewSession)
    BY DEF SessionOK, HasMethod, NewSession, NoSession, Terminal
  <2> QED BY <1>5, <2>1 DEF CreateSession, SessionInv, TypeInv, TypeOK
<1>6. CASE UNCHANGED session
  BY <1>6 DEF SessionInv
<1> QED BY <1>2, <1>3, <1>4, <1>5, <1>6
     DEF WebStep, rowVars, Look, Reread, FindQueued, CreateJob, Dispatch,
         WebFailRow, CancelRow

\* What a run remembers of a session that it is about to write back.
LEMMA ListedKept ==
  ASSUME TypeInv, SessionInv, NEW p \in Run, RunStep(p)
  PROVE  \A q \in Run : At(q, "listed")' => HasMethod(run'[q])
<1>1. CASE ListRead(p)
  <2> DEFINE r == [To(p, "listed") EXCEPT !.action = Ses(p).action,
                                          !.auth = Ses(p).auth,
                                          !.code = Ses(p).code,
                                          !.bound = Ses(p).action = "CONFIRM"]
  <2>1. ~ At(p, "none")
    BY <1>1 DEF ListRead, At
  <2>2. HasMethod(Ses(p))
    BY <2>1, RunHasRows DEF SessionInv, SessionOK, Ses
  <2>3. r.action = Ses(p).action /\ r.auth = Ses(p).auth
    BY DEF To, NoRun
  <2>4. run' = [run EXCEPT ![p] = r]
    BY <1>1 DEF ListRead, SetRun
  <2> HIDE DEF r
  <2> QED BY <2>2, <2>3, <2>4 DEF TypeInv, TypeOK, SessionInv, HasMethod, At
<1>2. ASSUME NEW r, SetRun(p, r), r.pc # "listed"
      PROVE  \A q \in Run : At(q, "listed")' => HasMethod(run'[q])
  BY <1>2 DEF SetRun, TypeInv, TypeOK, SessionInv, At
<1>3. ASSUME NEW c, NEW b, NEW k, NEW n, c # "listed",
             Go(p, c) \/ GoUsing(p, c, b, k) \/ GoAndThen(p, c, n)
      PROVE  \A q \in Run : At(q, "listed")' => HasMethod(run'[q])
  <2>1. /\ To(p, c).pc = c /\ [To(p, c) EXCEPT !.bound = b, !.code = k].pc = c
        /\ [To(p, c) EXCEPT !.next = n].pc = c
    BY DEF To, NoRun
  <2> QED BY <1>2, <1>3, <2>1 DEF Go, GoUsing, GoBeating, GoAndThen
<1>4. CASE Boot(p) \/ StartLease(p) \/ ProbeReady(p) \/ ProbeRefused(p)
  BY <1>3, <1>4 DEF Boot, StartLease, ProbeReady, ProbeRefused, GoBeating
<1>5. CASE PortalFails(p) \/ ListWrite(p) \/ Loop(p) \/ Wait(p)
  BY <1>3, <1>5 DEF PortalFails, ListWrite, Loop, Wait, Over, Late, GoBeating
<1>6. CASE Started(p) \/ NotConfirmed(p) \/ Confirmed(p) \/ NotVerified(p) \/ Verified(p)
  BY <1>3, <1>6 DEF Started, NotConfirmed, Confirmed, NotVerified, Verified, GoBeating
<1>7. CASE CompleteApproval(p) \/ FailAction(p)
  <2>1. run[p] \in RunState
    BY DEF TypeInv, TypeOK
  <2>2. run[p].next # "listed"
    BY <2>1 DEF RunState
  <2> QED BY <1>3, <1>7, <2>2 DEF CompleteApproval, FailAction
<1>8. CASE ClaimRead(p) \/ ClaimTake(p) \/ ClaimConflict(p)
  BY <1>3, <1>8 DEF ClaimRead, ClaimTake, ClaimConflict
<1>9. CASE SucceedRow(p) \/ Expire(p) \/ FailRow(p) \/ PlayEnds(p)
  BY <1>3, <1>9 DEF SucceedRow, Expire, FailRow, PlayEnds
<1> QED BY <1>1, <1>4, <1>5, <1>6, <1>7, <1>8, <1>9 DEF RunStep

\* A request starts runs that have not looked at their session.
LEMMA NewRunsListNothing ==
  ASSUME TypeInv, SessionInv, NEW s, StartRun(s)
  PROVE  \A q \in Run : At(q, "listed")' => HasMethod(run'[q])
<1>1. [NoRun EXCEPT !.pc = "queued", !.s = s].pc = "queued"
  BY DEF NoRun
<1> QED BY <1>1 DEF StartRun, SetRun, TypeInv, TypeOK, SessionInv, At

LEMMA SessionInvStep == TypeInv /\ SessionInv /\ [Next]_vars => SessionInv'
<1> SUFFICES ASSUME TypeInv, SessionInv, [Next]_vars PROVE SessionInv'
  OBVIOUS
<1>1. CASE RowsNext /\ UNCHANGED <<run, call>>
  <2> PICK s \in Row : \/ TimePasses(s) \/ LeaseAges(s)
                       \/ QueueCancel(s) \/ QueueRetry(s) \/ QueueEnds(s)
    BY <1>1 DEF RowsNext
  <2>1. session[s] \in SessionRow /\ SessionOK(session[s])
    BY DEF TypeInv, TypeOK, SessionInv
  <2>2. SessionOK([session[s] EXCEPT !.late = TRUE])
    BY <2>1 DEF SessionOK, HasMethod, SessionRow
  <2>3. session[s].lease = "fresh" => SessionOK([session[s] EXCEPT !.lease = "stale"])
    BY <2>1 DEF SessionOK, HasMethod, SessionRow
  <2>4. \A t \in Row : SessionOK(session'[t])
    BY <2>2, <2>3 DEF TimePasses, LeaseAges, QueueCancel, QueueRetry, QueueEnds,
                      SessionInv, TypeInv, TypeOK
  <2> QED BY <1>1, <2>4 DEF SessionInv, At
<1>2. CASE WorkerNext /\ UNCHANGED call
  <2> PICK p \in Run : RunStep(p) \/ Beat(p)
    BY <1>2 DEF WorkerNext
  <2>1. CASE RunStep(p)
    BY <2>1, WorkerKeepsSessions, ListedKept DEF SessionInv
  <2>2. CASE Beat(p)
    BY <2>2, WorkerKeepsSessions DEF SessionInv, Beat, At
  <2> QED BY <2>1, <2>2
<1>3. ASSUME NEW c \in Caller, WebStep(c) PROVE SessionInv'
  <2>1. CASE Dispatch(c)
    BY <1>3, <2>1, WebKeepsSessions, NewRunsListNothing DEF SessionInv, Dispatch
  <2>2. CASE UNCHANGED run
    BY <1>3, <2>2, WebKeepsSessions DEF SessionInv, At
  <2> QED BY <1>3, <2>1, <2>2
       DEF WebStep, Look, Drop, Restart, Reread, FindQueued, CreateJob,
           CreateSession, Write, WebExpire, WebFailRow, Cancel, CancelRow
<1>4. ASSUME NEW c \in Caller, Request(c) \/ Poll(c) \/ UserActs(c) PROVE SessionInv'
  BY <1>4 DEF Request, Poll, UserActs, Ask, Act, rowVars, SessionInv, At
<1>5. CASE UNCHANGED vars
  BY <1>5 DEF vars, SessionInv, At
<1> QED BY <1>1, <1>2, <1>3, <1>4, <1>5 DEF Next

LEMMA SessionInvInit == Init => SessionInv
BY DEF Init, WorkerInit, RowsInit, SessionInv, SessionOK, HasMethod, NoSession,
       Terminal, NoRun, At

\* A session that has ended holds no action, selection or lease, whatever runs
\* and requests still write to it.
THEOREM TerminalsScrubbed == Spec => []TerminalScrubbed
<1>1. SessionInv => TerminalScrubbed
  BY DEF SessionInv, SessionOK, TerminalScrubbed, Ended
<1> QED BY <1>1, TypeInvInit, TypeInvStep, SessionInvInit, SessionInvStep, PTL
     DEF Spec

\* An action is never asked of a worker without the method it is about,
\* although runs write back sessions as they have read them.
THEOREM MethodsChosen == Spec => []ActionsHaveMethod
<1>1. SessionInv => ActionsHaveMethod
  BY DEF SessionInv, SessionOK, HasMethod, ActionsHaveMethod
<1> QED BY <1>1, TypeInvInit, TypeInvStep, SessionInvInit, SessionInvStep, PTL
     DEF Spec

-----------------------------------------------------------------------------
(* The rows: who may play them, and who looks after them *)

Active(r) == r.status \in {"PENDING", "RUNNING"}

\* What a step does to a row: it keeps what the row is for, does not make it
\* wait again, and makes it active only where the unique index lets it.
RowStep(s) ==
  /\ job[s].status # "NONE" =>
       job'[s].lecture = job[s].lecture /\ job'[s].status # "NONE"
  /\ Blocked(s)' => \/ Blocked(s)
                    \/ /\ job[s].status = "NONE"
                       /\ \E c \in Caller : In(c, "session")' /\ call'[c].s = s
  /\ Active(job'[s]) =>
       \/ Active(job[s])
       \/ /\ job[s].status # "NONE" /\ ~ KeyTaken(job[s].lecture)
          /\ \A t \in Row : t # s => job'[t] = job[t]

RowsStep == \A s \in Row : RowStep(s)

LEMMA JobUntouched == ASSUME UNCHANGED job PROVE RowsStep
BY DEF RowsStep, RowStep, Blocked, Active

\* The writes that end a row, and those that make it active.
LEMMA RowEnds ==
  ASSUME TypeInv, NEW s \in Row, job[s].status # "NONE",
         NEW status \in {"SUCCEEDED", "FAILED", "CANCELED"},
         SetStatus(s, status) \/ EndBlocked(s, status)
  PROVE  RowsStep
BY DEF TypeInv, TypeOK, SetStatus, EndBlocked, RowsStep, RowStep, Blocked, Active, JobRow

LEMMA RowStarts ==
  ASSUME TypeInv, NEW s \in Row, job[s].status # "NONE", ~ KeyTaken(job[s].lecture),
         NEW status \in {"PENDING", "RUNNING"}, SetStatus(s, status)
  PROVE  RowsStep
BY DEF TypeInv, TypeOK, SetStatus, RowsStep, RowStep, Blocked, Active, JobRow

\* No step takes a row that does not wait back to BLOCKED, and none makes a
\* second row of a lecture active.
LEMMA RowsStepHolds == TypeInv /\ [Next]_vars => RowsStep
<1> SUFFICES ASSUME TypeInv, [Next]_vars PROVE RowsStep
  OBVIOUS
<1>1. CASE RowsNext
  <2> PICK s \in Row : \/ TimePasses(s) \/ LeaseAges(s)
                       \/ QueueCancel(s) \/ QueueRetry(s) \/ QueueEnds(s)
    BY <1>1 DEF RowsNext
  <2>1. CASE TimePasses(s) \/ LeaseAges(s)
    BY <2>1, JobUntouched DEF TimePasses, LeaseAges
  <2>2. CASE QueueCancel(s)
    BY <2>2, RowEnds DEF QueueCancel
  <2>3. CASE QueueRetry(s)
    BY <2>3, RowStarts DEF QueueRetry
  <2>4. CASE QueueEnds(s)
    <3>1. PICK status \in {"SUCCEEDED", "FAILED"} : SetStatus(s, status)
      BY <2>4 DEF QueueEnds
    <3> QED BY <2>4, <3>1, RowEnds DEF QueueEnds
  <2> QED BY <2>1, <2>2, <2>3, <2>4
<1>2. ASSUME NEW p \in Run, RunStep(p) \/ Beat(p) PROVE RowsStep
  <2>1. CASE UNCHANGED job
    BY <2>1, JobUntouched
  <2>2. ~ At(p, "none") => run[p].s \in Row /\ job[run[p].s].status # "NONE"
    BY RunHasRows
  <2>3. CASE ClaimTake(p)
    <3>1. run[p].s \in Row /\ job[run[p].s].status # "NONE"
      BY <2>2, <2>3 DEF ClaimTake, At
    <3> QED BY <2>3, <3>1, RowStarts, JobUntouched DEF ClaimTake
  <2>4. CASE ClaimConflict(p) \/ SucceedRow(p) \/ FailRow(p)
    <3>1. run[p].s \in Row /\ job[run[p].s].status # "NONE"
      BY <2>2, <2>4 DEF ClaimConflict, SucceedRow, FailRow, At
    <3> QED BY <2>4, <3>1, RowEnds DEF ClaimConflict, SucceedRow, FailRow
  <2>5. CASE PlayEnds(p)
    <3>1. run[p].s \in Row /\ job[run[p].s].status # "NONE"
      BY <2>2, <2>5 DEF PlayEnds, At
    <3>2. UNCHANGED job \/ \E status \in {"SUCCEEDED", "FAILED"} :
                             SetStatus(run[p].s, status)
      BY <2>5 DEF PlayEnds
    <3> QED BY <3>1, <3>2, RowEnds, JobUntouched
  <2> QED BY <1>2, <2>1, <2>3, <2>4, <2>5
       DEF RunStep, rowVars, Boot, StartLease, Beat, ProbeReady, ProbeRefused,
           PortalFails, ListRead, ListWrite, Loop, Wait, Answered, Started,
           NotConfirmed, Confirmed, NotVerified, Verified, CompleteApproval,
           ClaimRead, FailAction, Expire
<1>3. ASSUME NEW c \in Caller, WebStep(c) PROVE RowsStep
  <2>1. CASE UNCHANGED job
    BY <2>1, JobUntouched
  <2>2. CASE CreateJob(c)
    <3>1. PICK s \in FreeRows :
            /\ job' = [job EXCEPT ![s] = [status |-> "BLOCKED",
                                          lecture |-> call[c].lecture]]
            /\ SetCall(c, [call[c] EXCEPT !.pc = "session", !.s = s])
      BY <2>2 DEF CreateJob
    <3>2. s \in Row /\ job[s].status = "NONE"
      BY DEF FreeRows
    <3>3. /\ call[c] \in CallState
          /\ call' = [call EXCEPT ![c] = [call[c] EXCEPT !.pc = "session", !.s = s]]
      BY <3>1 DEF SetCall, TypeInv, TypeOK
    <3>4. In(c, "session")' /\ call'[c].s = s
      BY <3>3 DEF In, CallState, TypeInv, TypeOK
    <3>5. job'[s].status = "BLOCKED" /\ \A t \in Row : t # s => job'[t] = job[t]
      BY <3>1, <3>2 DEF TypeInv, TypeOK
    <3> QED BY <3>2, <3>4, <3>5 DEF RowsStep, RowStep, Blocked, Active
  <2>3. CASE WebFailRow(c) \/ CancelRow(c)
    <3>1. call[c].s \in Row /\ job[call[c].s].status # "NONE"
      BY <2>3 DEF WebFailRow, CancelRow, In, AtSession, TypeInv, TypeOK, CallsPoint
    <3> QED BY <2>3, <3>1, RowEnds DEF WebFailRow, CancelRow
  <2> QED BY <1>3, <2>1, <2>2, <2>3
       DEF WebStep, rowVars, Look, Drop, Restart, Reread, FindQueued,
           CreateSession, Dispatch, Write, WebExpire, Cancel
<1>4. ASSUME NEW c \in Caller, Request(c) \/ Poll(c) \/ UserActs(c) PROVE RowsStep
  BY <1>4, JobUntouched DEF Request, Poll, UserActs, Ask, Act, rowVars
<1>5. CASE UNCHANGED vars
  BY <1>5, JobUntouched DEF vars
<1> QED BY <1>1, <1>2, <1>3, <1>4, <1>5 DEF Next, WorkerNext

\* A run that plays took its row away from BLOCKED when it began, and a row
\* never becomes BLOCKED again: that is why the second of two runs that both
\* read a BLOCKED row finds it taken.
PlayedRowsTaken ==
  \A p \in Run : At(p, "play") => ~ Blocked(run[p].s)

RowInv == OneContinuation /\ PlayedRowsTaken

\* How a run comes to play.
BeginsToPlay(q) ==
  /\ ~ At(q, "none") /\ run'[q].s = run[q].s
  /\ Blocked(run[q].s) /\ job'[run[q].s].status # "BLOCKED"
  /\ \A p \in Run : p # q => run'[p] = run[p]

PlayStep ==
  \A q \in Run : At(q, "play")' => \/ At(q, "play") /\ run'[q] = run[q]
                                   \/ BeginsToPlay(q)

LEMMA PlayStepHolds == TypeInv /\ [Next]_vars => PlayStep
<1> SUFFICES ASSUME TypeInv, [Next]_vars PROVE PlayStep
  OBVIOUS
<1>0. ASSUME UNCHANGED run PROVE PlayStep
  BY <1>0 DEF PlayStep, At
<1>1. ASSUME NEW p \in Run, NEW r, SetRun(p, r), r.pc # "play" PROVE PlayStep
  BY <1>1 DEF SetRun, TypeInv, TypeOK, PlayStep, At
<1>2. ASSUME NEW p \in Run, NEW c, NEW b, NEW k, NEW n, c # "play",
             Go(p, c) \/ GoUsing(p, c, b, k) \/ GoAndThen(p, c, n)
      PROVE  PlayStep
  <2>1. /\ To(p, c).pc = c /\ [To(p, c) EXCEPT !.bound = b, !.code = k].pc = c
        /\ [To(p, c) EXCEPT !.next = n].pc = c
    BY DEF To, NoRun
  <2> QED BY <1>1, <1>2, <2>1 DEF Go, GoUsing, GoBeating, GoAndThen
<1>3. ASSUME NEW p \in Run, RunStep(p) PROVE PlayStep
  <2>1. CASE ListRead(p)
    BY <1>1, <2>1 DEF ListRead, To, NoRun
  <2>2. CASE Boot(p) \/ StartLease(p) \/ ProbeReady(p) \/ ProbeRefused(p)
    BY <1>2, <2>2 DEF Boot, StartLease, ProbeReady, ProbeRefused, GoBeating
  <2>3. CASE PortalFails(p) \/ ListWrite(p) \/ Loop(p) \/ Wait(p)
    BY <1>2, <2>3 DEF PortalFails, ListWrite, Loop, Wait, Over, Late, GoBeating
  <2>4. CASE Started(p) \/ NotConfirmed(p) \/ Confirmed(p) \/ NotVerified(p) \/ Verified(p)
    BY <1>2, <2>4 DEF Started, NotConfirmed, Confirmed, NotVerified, Verified, GoBeating
  <2>5. CASE CompleteApproval(p) \/ FailAction(p)
    <3>1. run[p] \in RunState
      BY DEF TypeInv, TypeOK
    <3>2. run[p].next # "play"
      BY <3>1 DEF RunState
    <3> QED BY <1>2, <2>5, <3>2 DEF CompleteApproval, FailAction
  <2>6. CASE ClaimTake(p)
    <3>1. CASE Go(p, "conflict") \/ GoAndThen(p, "fail", "done")
      BY <1>2, <3>1
    <3>2. CASE /\ Blocked(run[p].s) /\ SetStatus(run[p].s, "RUNNING")
               /\ Go(p, "play")
      <4>1. ~ At(p, "none") /\ run[p].s \in Row
        BY <2>6, RunHasRows DEF ClaimTake, At
      <4>2. job'[run[p].s].status # "BLOCKED"
        BY <2>6, <3>2, <4>1 DEF SetStatus, Blocked, TypeInv, TypeOK, Go, SetRun, To, NoRun
      <4>3. run'[p].s = run[p].s /\ \A q \in Run : q # p => run'[q] = run[q]
        BY <3>2 DEF Go, SetRun, To, NoRun, TypeInv, TypeOK
      <4> QED BY <3>2, <4>1, <4>2, <4>3 DEF PlayStep, BeginsToPlay, At
    <3> QED BY <2>6, <3>1, <3>2 DEF ClaimTake
  <2>7. CASE ClaimRead(p) \/ ClaimConflict(p)
    BY <1>2, <2>7 DEF ClaimRead, ClaimConflict
  <2>8. CASE SucceedRow(p) \/ Expire(p) \/ FailRow(p) \/ PlayEnds(p)
    BY <1>2, <2>8 DEF SucceedRow, Expire, FailRow, PlayEnds
  <2> QED BY <1>3, <2>1, <2>2, <2>3, <2>4, <2>5, <2>6, <2>7, <2>8 DEF RunStep
<1>4. ASSUME NEW c \in Caller, WebStep(c) PROVE PlayStep
  <2>1. CASE Dispatch(c)
    <3>1. [NoRun EXCEPT !.pc = "queued", !.s = call[c].s].pc # "play"
      BY DEF NoRun
    <3> QED BY <1>0, <1>1, <2>1, <3>1 DEF Dispatch, StartRun
  <2>2. CASE UNCHANGED run
    BY <1>0, <2>2
  <2> QED BY <1>4, <2>1, <2>2
       DEF WebStep, Look, Drop, Restart, Reread, FindQueued, CreateJob,
           CreateSession, Write, WebExpire, WebFailRow, Cancel, CancelRow
<1>5. CASE UNCHANGED run
  BY <1>0, <1>5
<1> QED BY <1>3, <1>4, <1>5
     DEF Next, WorkerNext, Beat, Request, Poll, UserActs, Ask, Act, vars

LEMMA RowInvStep == TypeInv /\ RowInv /\ [Next]_vars => RowInv'
<1> SUFFICES ASSUME TypeInv, RowInv, [Next]_vars PROVE RowInv'
  OBVIOUS
<1>1. RowsStep /\ PlayStep
  BY RowsStepHolds, PlayStepHolds
<1>2. PlayedRowsTaken'
  <2> SUFFICES ASSUME NEW q \in Run, At(q, "play")' 
               PROVE  job'[run'[q].s].status # "BLOCKED"
    BY DEF PlayedRowsTaken, Blocked
  <2>1. CASE At(q, "play") /\ run'[q] = run[q]
    <3>1. /\ run[q].s \in Row /\ ~ Blocked(run[q].s)
          /\ job[run[q].s].status # "NONE"
      BY <2>1, RunHasRows DEF RowInv, PlayedRowsTaken, At
    <3>2. RowStep(run[q].s)
      BY <1>1, <3>1 DEF RowsStep
    <3> QED BY <2>1, <3>1, <3>2 DEF RowStep, Blocked
  <2>2. CASE BeginsToPlay(q)
    BY <2>2 DEF BeginsToPlay, Blocked
  <2> QED BY <1>1, <2>1, <2>2 DEF PlayStep
<1>3. ASSUME NEW p \in Run, NEW q \in Run, At(p, "play")', At(q, "play")', p # q
      PROVE  run'[p].s # run'[q].s
  <2>1. CASE At(p, "play") /\ At(q, "play") /\ run'[p] = run[p] /\ run'[q] = run[q]
    BY <1>3, <2>1 DEF RowInv, OneContinuation
  <2>2. CASE BeginsToPlay(p) /\ At(q, "play")
    BY <1>3, <2>2 DEF BeginsToPlay, RowInv, PlayedRowsTaken
  <2>3. CASE BeginsToPlay(q) /\ At(p, "play")
    BY <1>3, <2>3 DEF BeginsToPlay, RowInv, PlayedRowsTaken
  <2>4. CASE BeginsToPlay(p) /\ ~ At(q, "play")
    BY <1>3, <2>4 DEF BeginsToPlay, At
  <2>5. CASE BeginsToPlay(q) /\ ~ At(p, "play")
    BY <1>3, <2>5 DEF BeginsToPlay, At
  <2> QED BY <1>1, <1>3, <2>1, <2>2, <2>3, <2>4, <2>5 DEF PlayStep
<1>4. ASSUME NEW s \in Row, NEW t \in Row, s # t, job'[s].lecture = job'[t].lecture,
             Active(job'[s]), Active(job'[t])
      PROVE  FALSE
  <2>0. RowStep(s) /\ RowStep(t)
    BY <1>1 DEF RowsStep
  <2>1. CASE Active(job[s]) /\ Active(job[t])
    BY <1>4, <2>0, <2>1 DEF RowStep, Active, RowInv, OneContinuation
  <2>2. CASE ~ Active(job[s])
    <3>1. /\ job[s].status # "NONE" /\ ~ KeyTaken(job[s].lecture)
          /\ job'[t] = job[t] /\ job'[s].lecture = job[s].lecture
      BY <1>4, <2>0, <2>2 DEF RowStep
    <3> QED BY <1>4, <3>1 DEF KeyTaken, Active
  <2>3. CASE ~ Active(job[t])
    <3>1. /\ job[t].status # "NONE" /\ ~ KeyTaken(job[t].lecture)
          /\ job'[s] = job[s] /\ job'[t].lecture = job[t].lecture
      BY <1>4, <2>0, <2>3 DEF RowStep
    <3> QED BY <1>4, <3>1 DEF KeyTaken, Active
  <2> QED BY <2>1, <2>2, <2>3
<1>5. OneContinuation'
  BY <1>3, <1>4 DEF OneContinuation, Active
<1> QED BY <1>2, <1>5 DEF RowInv

LEMMA RowInvInit == Init => RowInv
BY DEF Init, WorkerInit, RowsInit, RowInv, OneContinuation, PlayedRowsTaken,
       NoJobRow, NoRun, At

\* However many runs serve a session and however many requests create rows, no
\* row is played twice at a time and no two rows of a lecture are active.
THEOREM OnePlaysAtATime == Spec => []OneContinuation
<1>1. RowInv => OneContinuation
  BY DEF RowInv
<1> QED BY <1>1, TypeInvInit, TypeInvStep, RowInvInit, RowInvStep, PTL DEF Spec

\* A step of a run changes no other run.
LEMMA RunLeavesOthers ==
  ASSUME TypeInv, NEW p \in Run, RunStep(p), NEW q \in Run, p # q
  PROVE  run'[q] = run[q]
<1>1. ASSUME NEW r, SetRun(p, r) PROVE run'[q] = run[q]
  BY <1>1 DEF SetRun, TypeInv, TypeOK
<1>2. ASSUME NEW c, NEW b, NEW k, NEW n, Go(p, c) \/ GoUsing(p, c, b, k) \/ GoAndThen(p, c, n)
      PROVE  run'[q] = run[q]
  BY <1>1, <1>2 DEF Go, GoUsing, GoBeating, GoAndThen
<1>3. CASE Boot(p) \/ StartLease(p) \/ ProbeReady(p) \/ ProbeRefused(p) \/ ListRead(p)
  BY <1>1, <1>2, <1>3 DEF Boot, StartLease, ProbeReady, ProbeRefused, ListRead, GoBeating
<1>4. CASE PortalFails(p) \/ ListWrite(p) \/ Loop(p) \/ Wait(p)
  BY <1>2, <1>4 DEF PortalFails, ListWrite, Loop, Wait, Over, Late, GoBeating
<1>5. CASE Started(p) \/ NotConfirmed(p) \/ Confirmed(p) \/ NotVerified(p) \/ Verified(p)
  BY <1>2, <1>5 DEF Started, NotConfirmed, Confirmed, NotVerified, Verified, GoBeating
<1>6. CASE CompleteApproval(p) \/ FailAction(p) \/ ClaimRead(p) \/ ClaimTake(p)
  BY <1>2, <1>6 DEF CompleteApproval, FailAction, ClaimRead, ClaimTake
<1>7. CASE \/ ClaimConflict(p) \/ SucceedRow(p) \/ Expire(p) \/ FailRow(p)
           \/ PlayEnds(p)
  BY <1>2, <1>7 DEF ClaimConflict, SucceedRow, Expire, FailRow, PlayEnds
<1> QED BY <1>3, <1>4, <1>5, <1>6, <1>7 DEF RunStep

\* Nobody but the run itself changes what a started run does.
LEMMA OwnSteps ==
  ASSUME TypeInv, [Next]_vars, NEW q \in Run, ~ At(q, "none")
  PROVE  run'[q] = run[q] \/ RunStep(q)
<1>1. ASSUME NEW p \in Run, RunStep(p), p # q PROVE run'[q] = run[q]
  BY <1>1, RunLeavesOthers
<1>2. ASSUME NEW s, StartRun(s) PROVE run'[q] = run[q]
  BY <1>2 DEF StartRun, SetRun, At, TypeInv, TypeOK
<1>3. ASSUME NEW c \in Caller, WebStep(c) PROVE run'[q] = run[q]
  BY <1>2, <1>3 DEF WebStep, Dispatch, Look, Drop, Restart, Reread, FindQueued,
       CreateJob, CreateSession, Write, WebExpire, WebFailRow, Cancel, CancelRow
<1> QED BY <1>1, <1>3 DEF Next, WorkerNext, Beat, Request, Poll, UserActs, Ask, Act, vars

\* A step of a request changes no other request.
LEMMA RequestLeavesOthers ==
  ASSUME TypeInv, NEW c \in Caller, WebStep(c), NEW d \in Caller, c # d
  PROVE  call'[d] = call[d]
<1>1. ASSUME NEW r, SetCall(c, r) PROVE call'[d] = call[d]
  BY <1>1 DEF SetCall, TypeInv, TypeOK
<1>2. ASSUME NEW pc, Goto(c, pc) \/ Return(c) PROVE call'[d] = call[d]
  BY <1>1, <1>2 DEF Goto, Return
<1>3. CASE Reread(c)
  BY <1>1, <1>2, <1>3 DEF Reread, Decide
<1>4. CASE CreateJob(c)
  BY <1>1, <1>4 DEF CreateJob
<1>5. CASE Look(c)
  <2>1. Goto(c, "drop") \/ Goto(c, "restart") \/ Return(c)
    BY <1>5 DEF Look
  <2> QED BY <1>2, <2>1
<1>6. CASE Drop(c) \/ Restart(c) \/ FindQueued(c) \/ CreateSession(c) \/ Dispatch(c)
  BY <1>2, <1>6 DEF Drop, Restart, FindQueued, CreateSession, Dispatch
<1>7. CASE Write(c) \/ WebExpire(c) \/ WebFailRow(c) \/ Cancel(c) \/ CancelRow(c)
  BY <1>2, <1>7 DEF Write, WebExpire, WebFailRow, Cancel, CancelRow
<1> QED BY <1>3, <1>4, <1>5, <1>6, <1>7 DEF WebStep

LEMMA FirstLeavesOthers ==
  ASSUME TypeInv, NEW c \in Caller, Request(c) \/ Poll(c) \/ UserActs(c),
         NEW d \in Caller, c # d
  PROVE  call'[d] = call[d]
<1>1. ASSUME NEW r, SetCall(c, r) PROVE call'[d] = call[d]
  BY <1>1 DEF SetCall, TypeInv, TypeOK
<1>2. \E r : SetCall(c, r)
  <2>1. CASE Request(c) \/ Poll(c)
    BY <2>1 DEF Request, Poll, Ask
  <2>2. ASSUME NEW op, NEW s, Decide(c, op, s) PROVE \E r : SetCall(c, r)
    BY <2>2 DEF Decide, Return
  <2>3. CASE UserActs(c)
    BY <2>2, <2>3 DEF UserActs, Act
  <2> QED BY <2>1, <2>3
<1> QED BY <1>1, <1>2

\* Nobody but the request itself changes what it does next.
LEMMA OwnStatements ==
  ASSUME TypeInv, [Next]_vars, NEW d \in Caller, ~ In(d, "idle")
  PROVE  call'[d] = call[d] \/ WebStep(d)
<1>1. ASSUME NEW c \in Caller, WebStep(c), c # d PROVE call'[d] = call[d]
  BY <1>1, RequestLeavesOthers
<1>2. ASSUME NEW c \in Caller, Request(c) \/ Poll(c) \/ UserActs(c)
      PROVE  call'[d] = call[d]
  <2>1. In(c, "idle")
    BY <1>2 DEF Request, Poll, UserActs, Ask, Act
  <2>2. c # d
    BY <2>1
  <2> QED BY <1>2, <2>2, FirstLeavesOthers
<1> QED BY <1>1, <1>2 DEF Next, vars

\* A completed session leaves a row to claim or to end, and a request drops
\* only sessions whose row does not wait.
AttendInv ==
  /\ BlockedRowsAttended
  /\ \A p \in Run : At(p, "complete") => run[p].next \in {"claim", "succeed"}
  /\ \A c \in Caller : In(c, "drop") => ~ Blocked(call[c].s)

LEMMA CompletesWithRow ==
  ASSUME TypeInv, NEW p \in Run, RunStep(p), run'[p].pc = "complete"
  PROVE  run'[p].next \in {"claim", "succeed"}
<1>1. ASSUME NEW r, SetRun(p, r) PROVE run'[p] = r
  BY <1>1 DEF SetRun, TypeInv, TypeOK
<1>2. ASSUME NEW c, c # "complete" PROVE ~ Go(p, c) /\ ~ \E b, k : GoUsing(p, c, b, k)
  <2>1. ~ Go(p, c)
    BY <1>1, <1>2 DEF Go, To, NoRun
  <2>2. ASSUME NEW b, NEW k, GoUsing(p, c, b, k) PROVE FALSE
    BY <1>1, <1>2, <2>2 DEF GoUsing, To, NoRun
  <2> QED BY <2>1, <2>2
<1>3. ASSUME NEW c, NEW n, GoAndThen(p, c, n) PROVE run'[p].pc = c /\ run'[p].next = n
  BY <1>1, <1>3 DEF GoAndThen, To, NoRun
<1>4. CASE Boot(p) \/ StartLease(p) \/ ProbeReady(p) \/ ProbeRefused(p)
  <2>1. CASE Boot(p)
    BY <1>2, <1>3, <2>1 DEF Boot
  <2>2. CASE ProbeReady(p)
    BY <1>3, <2>2 DEF ProbeReady
  <2>3. CASE StartLease(p) \/ ProbeRefused(p)
    <3>1. \E c \in {"probe", "list"} : GoUsing(p, c, FALSE, FALSE)
      BY <2>3 DEF StartLease, ProbeRefused, GoBeating
    <3> QED BY <1>2, <3>1
  <2> QED BY <1>4, <2>1, <2>2, <2>3
<1>5. CASE PortalFails(p) \/ ListWrite(p) \/ Loop(p) \/ Wait(p)
  BY <1>2, <1>3, <1>5 DEF PortalFails, ListWrite, Loop, Wait, Over, Late, GoBeating
<1>6. CASE ListRead(p)
  BY <1>1, <1>6 DEF ListRead, To, NoRun
<1>7. CASE Started(p) \/ NotConfirmed(p) \/ Confirmed(p) \/ NotVerified(p) \/ Verified(p)
  BY <1>2, <1>3, <1>7 DEF Started, NotConfirmed, Confirmed, NotVerified, Verified, GoBeating
<1>8. CASE CompleteApproval(p) \/ FailAction(p)
  <2>1. run[p] \in RunState
    BY DEF TypeInv, TypeOK
  <2>2. run[p].next # "complete"
    BY <2>1 DEF RunState
  <2> QED BY <1>2, <1>8, <2>2 DEF CompleteApproval, FailAction
<1>9. CASE ClaimRead(p) \/ ClaimTake(p) \/ ClaimConflict(p)
  BY <1>2, <1>3, <1>9 DEF ClaimRead, ClaimTake, ClaimConflict
<1>10. CASE SucceedRow(p) \/ Expire(p) \/ FailRow(p) \/ PlayEnds(p)
  BY <1>2, <1>10 DEF SucceedRow, Expire, FailRow, PlayEnds
<1> QED BY <1>4, <1>5, <1>6, <1>7, <1>8, <1>9, <1>10 DEF RunStep

LEMMA DropsEndedRows ==
  ASSUME TypeInv, NEW c \in Caller, WebStep(c), call'[c].pc = "drop"
  PROVE  In(c, "look") /\ ~ Blocked(call[c].s) /\ call'[c].s = call[c].s
<1>1. ASSUME NEW r, SetCall(c, r) PROVE call'[c] = r
  BY <1>1 DEF SetCall, TypeInv, TypeOK
<1>2. call[c] \in CallState
  BY DEF TypeInv, TypeOK
<1>3. ASSUME NEW pc, Goto(c, pc) PROVE call'[c].pc = pc /\ call'[c].s = call[c].s
  BY <1>1, <1>2, <1>3 DEF Goto, CallState
<1>4. ASSUME Return(c) PROVE FALSE
  BY <1>1, <1>4 DEF Return, Idle
<1>5. CASE Look(c)
  <2>1. \/ ~ Blocked(call[c].s) /\ Goto(c, "drop")
        \/ Goto(c, "restart") \/ Return(c)
    BY <1>5 DEF Look
  <2> QED BY <1>3, <1>4, <1>5, <2>1 DEF Look
<1>6. CASE Reread(c)
  <2>1. \/ Return(c)
        \/ \E code : SetCall(c, [[Idle EXCEPT !.op = call[c].op, !.s = call[c].s,
                           !.alive = WorkerAlive(session[call[c].s])]
                         EXCEPT !.pc = "write", !.code = code])
        \/ SetCall(c, [[Idle EXCEPT !.op = call[c].op, !.s = call[c].s,
                         !.alive = WorkerAlive(session[call[c].s])]
                       EXCEPT !.pc = "restart", !.op = "view"])
    BY <1>6 DEF Reread, Decide
  <2> QED BY <1>1, <1>4, <2>1 DEF Idle
<1>7. CASE CreateJob(c)
  BY <1>1, <1>2, <1>7 DEF CreateJob, CallState
<1>8. CASE Drop(c) \/ Restart(c) \/ FindQueued(c) \/ CreateSession(c) \/ Dispatch(c)
  BY <1>3, <1>4, <1>8 DEF Drop, Restart, FindQueued, CreateSession, Dispatch
<1>9. CASE Write(c) \/ WebExpire(c) \/ WebFailRow(c) \/ Cancel(c) \/ CancelRow(c)
  BY <1>3, <1>4, <1>9 DEF Write, WebExpire, WebFailRow, Cancel, CancelRow
<1> QED BY <1>5, <1>6, <1>7, <1>8, <1>9 DEF WebStep

LEMMA StatusSet ==
  ASSUME TypeInv, NEW s \in Row, NEW status, status # "BLOCKED",
         SetStatus(s, status) \/ EndBlocked(s, status)
  PROVE  job'[s].status # "BLOCKED"
BY DEF SetStatus, EndBlocked, Blocked, TypeInv, TypeOK, JobRow

\* Only a look at a session leads to its drop.
LEMMA OnlyLookDrops ==
  ASSUME TypeInv, NEW c \in Caller, call'[c].pc = "drop",
         call'[c] = call[c] \/ WebStep(c)
  PROVE  call[c].pc \in {"look", "drop"}
<1>1. CASE call'[c] = call[c]
  BY <1>1
<1>2. CASE WebStep(c)
  BY <1>2, DropsEndedRows DEF In
<1> QED BY <1>1, <1>2

\* A request begins with a look at what it is about.
LEMMA FirstStatements ==
  ASSUME TypeInv, [Next]_vars, NEW c \in Caller, In(c, "idle")
  PROVE  call'[c].pc # "drop"
<1>1. ASSUME call'[c] = call[c] PROVE call'[c].pc # "drop"
  BY <1>1 DEF In
<1>2. ASSUME NEW r, SetCall(c, r), r.pc # "drop" PROVE call'[c].pc # "drop"
  BY <1>2 DEF SetCall, TypeInv, TypeOK
<1>3. ASSUME NEW d \in Caller, WebStep(d) PROVE call'[c].pc # "drop"
  <2>1. ~ In(d, "idle")
    BY <1>3 DEF WebStep, In, Look, Drop, Restart, Reread, FindQueued, CreateJob,
         CreateSession, Dispatch, Write, WebExpire, WebFailRow, Cancel, CancelRow
  <2>2. c # d
    BY <2>1
  <2> QED BY <1>1, <1>3, <2>2, RequestLeavesOthers
<1>4. ASSUME NEW d \in Caller, Request(d) \/ Poll(d) \/ UserActs(d)
      PROVE  call'[c].pc # "drop"
  <2>1. CASE d # c
    <3>1. call'[c] = call[c]
      BY <1>4, <2>1, FirstLeavesOthers
    <3> QED BY <1>1, <3>1
  <2>2. CASE d = c
    <3>1. CASE Request(c) \/ Poll(c)
      <4>1. \E op, l : Ask(c, op, l)
        BY <3>1 DEF Request, Poll
      <4> QED BY <1>2, <4>1 DEF Ask, Idle
    <3>2. CASE UserActs(c)
      <4>1. PICK op \in UserOps, s \in Row : Act(c, op, s)
        BY <3>2 DEF UserActs
      <4>2. CASE Decide(c, op, s)
        BY <1>2, <4>2 DEF Decide, Return, Idle
      <4>3. CASE \E pc \in {"cancel", "expire", "restart"} :
                   SetCall(c, [[Idle EXCEPT !.op = op, !.s = s] EXCEPT !.pc = pc])
        BY <1>2, <4>3 DEF Idle
      <4> QED BY <4>1, <4>2, <4>3 DEF Act
    <3> QED BY <1>4, <2>2, <3>1, <3>2
  <2> QED BY <2>1, <2>2
<1> QED BY <1>1, <1>3, <1>4 DEF Next, vars

\* A run that has closed its session goes on until the row does not wait.
LEMMA ClosingGoesOn ==
  ASSUME TypeInv, [Next]_vars, NEW p \in Run, run[p].pc \in Closing,
         job'[run[p].s].status = "BLOCKED"
  PROVE  run'[p].s = run[p].s /\ run'[p].pc \in Closing
<1>1. run[p].s \in Row /\ ~ At(p, "none")
  BY RunHasRows DEF Closing, At
<1>2. CASE run'[p] = run[p]
  BY <1>2
<1>3. CASE RunStep(p)
  <2>1. ASSUME NEW c, Go(p, c)
        PROVE  run'[p].s = run[p].s /\ run'[p].pc = c
    BY <2>1 DEF Go, SetRun, To, NoRun, TypeInv, TypeOK
  <2>2. CASE ClaimRead(p)
    BY <1>1, <2>1, <2>2 DEF ClaimRead, rowVars, Blocked, Closing
  <2>3. CASE ClaimTake(p)
    <3>1. ~ SetStatus(run[p].s, "RUNNING")
      BY <1>1, StatusSet
    <3>2. Go(p, "conflict")
      BY <2>3, <3>1 DEF ClaimTake, Blocked
    <3> QED BY <2>1, <3>2 DEF Closing
  <2>4. CASE ClaimConflict(p) \/ SucceedRow(p) \/ FailRow(p)
    BY <1>1, <2>4, StatusSet DEF ClaimConflict, SucceedRow, FailRow
  <2> QED BY <1>3, <2>2, <2>3, <2>4
       DEF RunStep, Closing, At, Boot, StartLease, ProbeReady, ProbeRefused,
           PortalFails, ListRead, ListWrite, Loop, Wait, Started, NotConfirmed,
           Confirmed, NotVerified, Verified, CompleteApproval, FailAction, Expire,
           PlayEnds
<1> QED BY <1>1, <1>2, <1>3, OwnSteps

\* A request goes on from the first of its two writes to the second.
LEMMA RequestGoesOn ==
  ASSUME TypeInv, [Next]_vars, NEW c \in Caller,
         call[c].pc \in {"session", "failrow", "cancelrow"},
         job'[call[c].s].status = "BLOCKED"
  PROVE  \/ session'[call[c].s].status \in {"PENDING", "ACTIVE"}
         \/ call'[c] = call[c]
<1>1. call[c].s \in Row /\ ~ In(c, "idle")
  BY DEF TypeInv, CallsPoint, AtSession, In
<1>2. CASE WebStep(c)
  <2>1. CASE CreateSession(c)
    BY <1>1, <2>1 DEF CreateSession, NewSession, NoSession, TypeInv, TypeOK
  <2>2. CASE WebFailRow(c) \/ CancelRow(c)
    BY <1>1, <2>2, StatusSet DEF WebFailRow, CancelRow
  <2> QED BY <1>2, <2>1, <2>2
       DEF WebStep, In, Look, Drop, Restart, Reread, FindQueued, CreateJob,
           Dispatch, Write, WebExpire, Cancel
<1> QED BY <1>1, <1>2, OwnStatements

StillOpen(s) == session'[s].status \in {"PENDING", "ACTIVE"}

ByRun(s) == \E p \in Run : run[p].s = s /\ run[p].pc \in Closing

ByRequest(s) ==
  \E c \in Caller : call[c].s = s /\ call[c].pc \in {"session", "failrow", "cancelrow"}

LEMMA StaysOpen ==
  ASSUME TypeInv, NEW s \in Row, Open(s), NEW t \in Row, NEW r, UpdateSession(t, r),
         Open(t) => r.status \in {"PENDING", "ACTIVE"}
  PROVE  StillOpen(s)
BY DEF TypeInv, TypeOK, UpdateSession, Open, StillOpen

LEMMA OnlyThisEnds ==
  ASSUME TypeInv, NEW s \in Row, Open(s), NEW t \in Row, NEW status,
         EndSession(t, status), ~ StillOpen(s)
  PROVE  s = t
BY DEF TypeInv, TypeOK, EndSession, UpdateSession, Open, StillOpen

\* Whoever ends a session goes on to its row.
LEMMA RunEndsBoth ==
  ASSUME TypeInv, AttendInv, NEW p \in Run, RunStep(p) \/ Beat(p),
         NEW s \in Row, Open(s), ~ StillOpen(s)
  PROVE  ByRun(s)'
<1>1. ~ At(p, "none") => /\ run[p].s \in Row /\ Ses(p) \in SessionRow
                         /\ run[p] \in RunState
  BY RunHasRows
<1>2. CASE UNCHANGED session
  BY <1>2 DEF Open, StillOpen
<1>3. ASSUME NEW b, Heartbeat(p, b), ~ At(p, "none") PROVE FALSE
  <2> DEFINE r == [Ses(p) EXCEPT !.lease = "fresh", !.bound = b]
  <2>1. r.status = Ses(p).status
    BY <1>1, <1>3 DEF SessionRow
  <2>2. Open(run[p].s) => r.status \in {"PENDING", "ACTIVE"}
    BY <2>1 DEF Open, Ses
  <2>3. UpdateSession(run[p].s, r)
    BY <1>3 DEF Heartbeat
  <2> HIDE DEF r
  <2> QED BY <1>1, <1>3, <2>2, <2>3, StaysOpen
<1>4. CASE StartLease(p) \/ Beat(p)
  BY <1>3, <1>4 DEF StartLease, Beat, At, Leased
<1>5. CASE ListWrite(p)
  <2> DEFINE r == [status |-> IF run[p].auth = "started" THEN "ACTIVE" ELSE "PENDING",
                   action |-> IF run[p].action = "BOOTSTRAP" THEN "none"
                              ELSE run[p].action,
                   auth |-> IF run[p].auth = "none" THEN "listed" ELSE run[p].auth,
                   code |-> run[p].code, lease |-> "fresh",
                     bound |-> run[p].bound,
                   restart |-> FALSE, late |-> FALSE]
  <2>1. r.status \in {"PENDING", "ACTIVE"}
    OBVIOUS
  <2>2. UpdateSession(run[p].s, r) /\ run[p].s \in Row
    BY <1>1, <1>5 DEF ListWrite, At
  <2> HIDE DEF r
  <2> QED BY <2>1, <2>2, StaysOpen
<1>6. ASSUME Answered(p), ~ At(p, "none") PROVE FALSE
  BY <1>1, <1>6, StaysOpen DEF Answered, Proving
<1>7. CASE Started(p) \/ NotConfirmed(p) \/ Confirmed(p) \/ NotVerified(p) \/ Verified(p)
  BY <1>6, <1>7 DEF Started, NotConfirmed, Confirmed, NotVerified, Verified, At
<1>8. CASE FailAction(p)
  <2> DEFINE r == [Ses(p) EXCEPT !.action = "none", !.lease = "none",
                                 !.bound = TRUE, !.late = FALSE]
  <2>1. run[p].s \in Row /\ r.status = Ses(p).status
    BY <1>1, <1>8 DEF FailAction, At, SessionRow
  <2>2. Open(run[p].s) => r.status \in {"PENDING", "ACTIVE"}
    BY <2>1 DEF Open, Ses
  <2>3. UpdateSession(run[p].s, r)
    BY <1>8 DEF FailAction
  <2> HIDE DEF r
  <2> QED BY <2>1, <2>2, <2>3, StaysOpen
<1>9. ASSUME NEW c \in Closing, Go(p, c), run[p].s = s PROVE ByRun(s)'
  <2>1. run'[p] = To(p, c)
    BY <1>9 DEF Go, SetRun, TypeInv, TypeOK
  <2> QED BY <1>9, <2>1 DEF To, NoRun, ByRun
<1>10. CASE CompleteApproval(p)
  <2>1. s = run[p].s
    BY <1>1, <1>10, OnlyThisEnds DEF CompleteApproval, At
  <2>2. run[p].next \in Closing
    BY <1>10 DEF CompleteApproval, AttendInv, Closing
  <2> QED BY <1>9, <1>10, <2>1, <2>2 DEF CompleteApproval
<1>11. CASE Expire(p)
  <2>1. s = run[p].s
    BY <1>1, <1>11, OnlyThisEnds DEF Expire, At
  <2> QED BY <1>9, <1>11, <2>1 DEF Expire, Closing
<1> QED BY <1>2, <1>4, <1>5, <1>7, <1>8, <1>10, <1>11
     DEF RunStep, rowVars, Boot, ProbeReady, ProbeRefused, PortalFails, ListRead,
         Loop, Wait, ClaimRead, ClaimTake, ClaimConflict, SucceedRow, FailRow, PlayEnds

LEMMA RequestEndsBoth ==
  ASSUME TypeInv, AttendInv, NEW c \in Caller, WebStep(c),
         NEW s \in Row, Blocked(s), Open(s), ~ StillOpen(s)
  PROVE  ByRequest(s)'
<1>1. call[c].pc \in AtSession =>
        call[c].s \in Row /\ session[call[c].s] \in SessionRow
  BY DEF TypeInv, TypeOK, CallsPoint
<1>2. CASE UNCHANGED session
  BY <1>2 DEF Open, StillOpen
<1>3. CASE Drop(c)
  <2>1. s = call[c].s
    BY <1>1, <1>3, OnlyThisEnds DEF Drop, In, AtSession
  <2> QED BY <1>3, <2>1 DEF Drop, AttendInv
<1>4. CASE WebExpire(c) \/ Cancel(c)
  <2>1. \E pc \in {"failrow", "cancelrow"} : Goto(c, pc)
    BY <1>4 DEF WebExpire, Cancel
  <2>2. s = call[c].s
    BY <1>1, <1>4, OnlyThisEnds DEF WebExpire, Cancel, In, AtSession
  <2>3. call[c] \in CallState
    BY DEF TypeInv, TypeOK
  <2>4. call'[c].s = s /\ call'[c].pc \in {"failrow", "cancelrow"}
    BY <2>1, <2>2, <2>3 DEF Goto, SetCall, CallState, TypeInv, TypeOK
  <2> QED BY <2>4 DEF ByRequest
<1>5. CASE Restart(c)
  <2> DEFINE r == [session[call[c].s] EXCEPT !.status = "PENDING",
                     !.action = "none", !.lease = "none",
                     !.bound = TRUE, !.restart = TRUE]
  <2>1. call[c].s \in Row /\ r.status = "PENDING"
    BY <1>1, <1>5 DEF Restart, In, AtSession, SessionRow
  <2>2. UpdateSession(call[c].s, r)
    BY <1>5 DEF Restart
  <2> HIDE DEF r
  <2> QED BY <2>1, <2>2, StaysOpen
<1>6. CASE Write(c)
  <2> DEFINE q == [session[call[c].s] EXCEPT !.status = "PENDING", !.restart = FALSE,
                                             !.late = FALSE, !.code = call[c].code]
             r == IF call[c].op = "start"
                  THEN [q EXCEPT !.action = "START", !.bound = FALSE,
                                 !.auth = "chosen"]
                  ELSE [q EXCEPT !.action = "CONFIRM", !.bound = TRUE,
                                 !.auth = IF @ = "started" THEN @ ELSE "chosen"]
  <2>1. call[c].s \in Row /\ q \in SessionRow /\ q.status = "PENDING"
    BY <1>1, <1>6 DEF TypeInv, TypeOK, Write, In, AtSession, SessionRow, CallState
  <2>2. r.status = "PENDING"
    <3> HIDE DEF q
    <3> QED BY <2>1 DEF SessionRow
  <2>3. UpdateSession(call[c].s, r)
    BY <1>6 DEF Write
  <2> HIDE DEF r
  <2> QED BY <2>1, <2>2, <2>3, StaysOpen
<1>7. CASE CreateSession(c)
  <2>1. NewSession.status = "PENDING"
    BY DEF NewSession, NoSession
  <2> QED BY <1>7, <2>1 DEF CreateSession, TypeInv, TypeOK, Open, StillOpen
<1> QED BY <1>2, <1>3, <1>4, <1>5, <1>6, <1>7
     DEF WebStep, rowVars, Look, Reread, FindQueued, CreateJob, Dispatch,
         WebFailRow, CancelRow

\* The clock and the queue end no session.
LEMMA RowsKeepOpen ==
  ASSUME TypeInv, RowsNext, NEW s \in Row, Open(s)
  PROVE  StillOpen(s)
<1> PICK t \in Row : \/ TimePasses(t) \/ LeaseAges(t)
                     \/ QueueCancel(t) \/ QueueRetry(t) \/ QueueEnds(t)
  BY DEF RowsNext
<1>1. session[t] \in SessionRow
  BY DEF TypeInv, TypeOK
<1> QED BY <1>1 DEF TimePasses, LeaseAges, QueueCancel, QueueRetry, QueueEnds,
                    TypeInv, TypeOK, SessionRow, Open, StillOpen

LEMMA AttendInvStep == TypeInv /\ AttendInv /\ [Next]_vars => AttendInv'
<1> SUFFICES ASSUME TypeInv, AttendInv, [Next]_vars PROVE AttendInv'
  OBVIOUS
<1>1. RowsStep
  BY RowsStepHolds
<1>2. ASSUME NEW s \in Row, job'[s].status = "BLOCKED", ~ StillOpen(s)
      PROVE  ByRun(s)' \/ ByRequest(s)'
  <2>1. CASE ~ Blocked(s)
    <3>1. RowStep(s)
      BY <1>1 DEF RowsStep
    <3> QED BY <1>2, <2>1, <3>1 DEF RowStep, Blocked, ByRequest, In
  <2>2. CASE Blocked(s) /\ ~ Open(s)
    <3>1. ByRun(s) \/ ByRequest(s)
      BY <2>2 DEF AttendInv, BlockedRowsAttended, BetweenWrites, ByRun, ByRequest
    <3>2. CASE ByRun(s)
      <4>1. PICK p \in Run : run[p].s = s /\ run[p].pc \in Closing
        BY <3>2 DEF ByRun
      <4>2. run'[p].s = s /\ run'[p].pc \in Closing
        BY <1>2, <4>1, ClosingGoesOn
      <4> QED BY <4>2 DEF ByRun
    <3>3. CASE ByRequest(s)
      BY <1>2, <3>3, RequestGoesOn DEF ByRequest, StillOpen
    <3> QED BY <3>1, <3>2, <3>3
  <2>3. CASE Blocked(s) /\ Open(s)
    <3>1. CASE RowsNext
      BY <1>2, <2>3, <3>1, RowsKeepOpen
    <3>2. ASSUME NEW p \in Run, RunStep(p) \/ Beat(p) PROVE ByRun(s)'
      BY <1>2, <2>3, <3>2, RunEndsBoth
    <3>3. ASSUME NEW c \in Caller, WebStep(c) PROVE ByRequest(s)'
      BY <1>2, <2>3, <3>3, RequestEndsBoth
    <3>4. CASE UNCHANGED session
      BY <1>2, <2>3, <3>4 DEF Open, StillOpen
    <3>5. ASSUME NEW c \in Caller, Request(c) \/ Poll(c) \/ UserActs(c)
          PROVE  UNCHANGED session
      BY <3>5 DEF Request, Poll, UserActs, Ask, Act, rowVars
    <3> QED BY <3>1, <3>2, <3>3, <3>4, <3>5 DEF Next, WorkerNext, vars
  <2> QED BY <2>1, <2>2, <2>3
<1>3. BlockedRowsAttended'
  BY <1>2 DEF BlockedRowsAttended, BetweenWrites, Blocked, Open, StillOpen, ByRun,
              ByRequest
<1>4. ASSUME NEW p \in Run, run'[p].pc = "complete"
      PROVE  run'[p].next \in {"claim", "succeed"}
  <2>1. CASE At(p, "none")
    <3>1. ASSUME NEW s, StartRun(s) PROVE run'[p].pc # "complete"
      <4>1. [NoRun EXCEPT !.pc = "queued", !.s = s].pc = "queued"
        BY DEF NoRun
      <4> QED BY <2>1, <3>1, <4>1 DEF StartRun, SetRun, At, TypeInv, TypeOK
    <3>2. ASSUME NEW q \in Run, RunStep(q) PROVE run'[p].pc # "complete"
      <4>1. ~ At(q, "none")
        BY <3>2 DEF RunStep, At, Boot, StartLease, ProbeReady, ProbeRefused,
             PortalFails, ListRead, ListWrite, Loop, Wait, Started, NotConfirmed,
             Confirmed, NotVerified, Verified, CompleteApproval, ClaimRead,
             ClaimTake, ClaimConflict, SucceedRow, FailAction, Expire, FailRow,
             PlayEnds, Leased
      <4>2. p # q
        BY <2>1, <4>1
      <4>3. run'[p] = run[p]
        BY <3>2, <4>2, RunLeavesOthers
      <4> QED BY <2>1, <4>3 DEF At
    <3>3. CASE UNCHANGED run
      BY <1>4, <2>1, <3>3 DEF At
    <3>4. ASSUME NEW c \in Caller, WebStep(c) \/ Request(c) \/ Poll(c) \/ UserActs(c)
          PROVE  UNCHANGED run \/ \E s : StartRun(s)
      BY <3>4 DEF Request, Poll, UserActs, Ask, Act, WebStep, Dispatch, Look, Drop, Restart,
             Reread, FindQueued, CreateJob, CreateSession, Write, WebExpire, WebFailRow,
             Cancel, CancelRow
    <3>5. ASSUME NEW q \in Run, Beat(q) PROVE UNCHANGED run
      BY <3>5 DEF Beat
    <3> QED BY <1>4, <3>1, <3>2, <3>3, <3>4, <3>5 DEF Next, WorkerNext, vars
  <2>2. CASE ~ At(p, "none")
    BY <1>4, <2>2, OwnSteps, CompletesWithRow DEF AttendInv, At
  <2> QED BY <2>1, <2>2, <1>4
<1>5. ASSUME NEW c \in Caller, call'[c].pc = "drop"
      PROVE  job'[call'[c].s].status # "BLOCKED"
  <2>1. CASE call'[c] = call[c] \/ WebStep(c)
    <3>1. ~ Blocked(call[c].s) /\ call'[c].s = call[c].s
      BY <1>5, <2>1, DropsEndedRows DEF AttendInv, In
    <3>2. call[c].s \in Row /\ job[call[c].s].status # "NONE"
      <4>1. call[c].pc \in {"look", "drop"}
        BY <1>5, <2>1, OnlyLookDrops
      <4> QED BY <4>1 DEF TypeInv, TypeOK, CallsPoint, AtSession
    <3>3. RowStep(call[c].s)
      BY <1>1, <3>2 DEF RowsStep
    <3> QED BY <3>1, <3>2, <3>3 DEF RowStep, Blocked
  <2>2. CASE In(c, "idle")
    BY <1>5, <2>2, FirstStatements
  <2> QED BY <2>1, <2>2, OwnStatements
<1> QED BY <1>3, <1>4, <1>5 DEF AttendInv, At, In, Blocked

LEMMA AttendInvInit == Init => AttendInv
BY DEF Init, WorkerInit, RowsInit, AttendInv, BlockedRowsAttended, Blocked,
       NoJobRow, NoRun, Idle, At, In

\* Only between the two writes of a request or of a run does a row wait for a
\* session that is over: cyber-campus-autolearn.ts and the approval worker never
\* end the one and forget the other, in whatever order their statements come.
THEOREM BlockedRowsAreAttended == Spec => []BlockedRowsAttended
<1>1. AttendInv => BlockedRowsAttended
  BY DEF AttendInv
<1> QED BY <1>1, TypeInvInit, TypeInvStep, AttendInvInit, AttendInvStep, PTL DEF Spec
=============================================================================
