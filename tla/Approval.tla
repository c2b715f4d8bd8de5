------------------------------ MODULE Approval ------------------------------
(***************************************************************************)
(* The web side of Cyber Campus approvals,                                 *)
(* apps/web/src/server/cyber-campus-autolearn.ts, and the whole: requests, *)
(* dashboard polls and the user's start, confirm and cancel, each a        *)
(* sequence of statements, against the approval runs, the clock and the    *)
(* queue.  A request that dies takes no more steps.                        *)
(***************************************************************************)
EXTENDS ApprovalWorker

CONSTANTS
  Caller,   \* the HTTP requests that may be open at a time
  UserOps   \* bound: what the user does to a session that exists

VARIABLE call  \* [Caller -> CallState]

vars == <<job, session, run, call>>

ByIdOp == {"start", "confirm", "view", "cancel"}
Op == ByIdOp \cup {"request", "poll"}

ASSUME OpsAssumption == UserOps \subseteq ByIdOp

\* code: the method to select requires one.  alive: the worker was alive when the
\* session was read; reject: so far gone that a confirmation cannot be taken.
CallState == [pc : {"idle", "look", "drop", "restart", "reread", "find",
                    "create", "session", "dispatch", "write", "expire",
                    "failrow", "cancel", "cancelrow"},
              op : Op \cup {"none"}, s : Row \cup {NoRow},
              lecture : Lecture \cup {NoLecture},
              code : BOOLEAN, alive : BOOLEAN, reject : BOOLEAN]

Idle == [pc |-> "idle", op |-> "none", s |-> NoRow, lecture |-> NoLecture,
         code |-> FALSE, alive |-> FALSE, reject |-> FALSE]

In(c, pc) == call[c].pc = pc
SetCall(c, r) == call' = [call EXCEPT ![c] = r]
Goto(c, pc) == SetCall(c, [call[c] EXCEPT !.pc = pc])
Return(c) == SetCall(c, Idle)

\* isApprovalWorkerAlive
WorkerAlive(r) == r.status \notin Terminal /\ r.lease = "fresh"

\* ensureApprovalWorkerRecoveryState, shouldRejectConfirmForStaleWorker
Rejects(r) == ~ r.restart /\ ~ WorkerAlive(r) /\ r.bound

\* findActivePortalApprovalSession: the newest one.  Two are open only after a
\* race, whose order is not kept here: any of them may be the newest.
Current == {s \in Row : Open(s) /\ ~ session[s].late}

-----------------------------------------------------------------------------
(* Requests, and the polls of the dashboard *)

\* resolveActiveApproval, of a request and of a poll.
Ask(c, op, l) ==
  /\ In(c, "idle")
  /\ LET r == [Idle EXCEPT !.op = op, !.lecture = l]
     IN \/ \E s \in Current :
             SetCall(c, [r EXCEPT !.pc = "look", !.s = s,
                                  !.reject = Rejects(session[s])])
        \/ /\ Current = {} /\ op = "request"
           /\ SetCall(c, [r EXCEPT !.pc = "find"])
  /\ UNCHANGED <<rowVars, run>>

Request(c) == \E l \in Lecture : Ask(c, "request", l)
Poll(c) == Ask(c, "poll", NoLecture)

Look(c) ==
  /\ In(c, "look")
  /\ CASE ~ Blocked(call[c].s) -> Goto(c, "drop")
       [] Blocked(call[c].s) /\ call[c].reject -> Goto(c, "restart")
       [] OTHER -> Return(c)
  /\ UNCHANGED <<rowVars, run>>

Drop(c) ==
  /\ In(c, "drop")
  /\ EndSession(call[c].s, "CANCELED")
  /\ IF call[c].op = "request" THEN Goto(c, "find") ELSE Return(c)
  /\ UNCHANGED <<job, run>>

FreeRows == {s \in Row : job[s].status = "NONE"}

FindQueued(c) ==
  /\ In(c, "find")
  /\ IF KeyTaken(call[c].lecture) \/ FreeRows = {} THEN Return(c)
     ELSE Goto(c, "create")
  /\ UNCHANGED <<rowVars, run>>

\* createBlockedAutoLearnJob
CreateJob(c) ==
  /\ In(c, "create")
  /\ \E s \in FreeRows :
       /\ \A t \in FreeRows : s <= t
       /\ job' = [job EXCEPT ![s] = [status |-> "BLOCKED",
                                     lecture |-> call[c].lecture]]
       /\ SetCall(c, [call[c] EXCEPT !.pc = "session", !.s = s])
  /\ UNCHANGED <<session, run>>

\* createPortalApprovalSession
CreateSession(c) ==
  /\ In(c, "session")
  /\ session' = [session EXCEPT ![call[c].s] = NewSession]
  /\ Goto(c, "dispatch")
  /\ UNCHANGED <<job, run>>

Dispatch(c) ==
  /\ In(c, "dispatch")
  /\ StartRun(call[c].s) /\ Return(c)
  /\ UNCHANGED rowVars

-----------------------------------------------------------------------------
(* start, confirm, view and cancel, by the id of the session *)

\* What start and confirm make of a session they have read.
Decide(c, op, s) ==
  LET r == session[s]
      go == [Idle EXCEPT !.op = op, !.s = s, !.alive = WorkerAlive(r)]
  IN CASE op = "start" /\ r.status # "COMPLETED" /\ r.auth # "none" ->
            \E code \in Methods :
              SetCall(c, [go EXCEPT !.pc = "write", !.code = code])
       [] op = "confirm" /\ r.auth \in {"chosen", "started"} ->
            SetCall(c, IF r.restart THEN [go EXCEPT !.pc = "restart", !.op = "view"]
                       ELSE [go EXCEPT !.pc = "write", !.code = r.code])
       [] OTHER -> Return(c)

Act(c, op, s) ==
  /\ In(c, "idle") /\ session[s].status # "NONE"
  /\ LET r == [Idle EXCEPT !.op = op, !.s = s]
     IN CASE op = "cancel" -> SetCall(c, [r EXCEPT !.pc = "cancel"])
          [] op # "cancel" /\ Open(s) /\ session[s].late ->
               SetCall(c, [r EXCEPT !.pc = "expire"])
          [] op # "cancel" /\ ~ (Open(s) /\ session[s].late)
               /\ Rejects(session[s]) -> SetCall(c, [r EXCEPT !.pc = "restart"])
          [] OTHER -> Decide(c, op, s)
  /\ UNCHANGED <<rowVars, run>>

UserActs(c) == \E op \in UserOps, s \in Row : Act(c, op, s)

\* markApprovalRestartRequired
Restart(c) ==
  /\ In(c, "restart")
  /\ LET s == call[c].s
     IN UpdateSession(s, [session[s] EXCEPT !.status = "PENDING",
                            !.action = "none", !.lease = "none",
                            !.bound = TRUE, !.restart = TRUE])
  /\ IF call[c].op \in {"start", "confirm"} THEN Goto(c, "reread")
     ELSE Return(c)
  /\ UNCHANGED <<job, run>>

Reread(c) ==
  /\ In(c, "reread")
  /\ Decide(c, call[c].op, call[c].s)
  /\ UNCHANGED <<rowVars, run>>

\* updateApprovalAction: authSeq is cleared by a start and kept by a
\* confirmation, which repeats the selection it has read.
Write(c) ==
  /\ In(c, "write")
  /\ LET s == call[c].s
         r == [session[s] EXCEPT !.status = "PENDING", !.restart = FALSE,
                                 !.late = FALSE, !.code = call[c].code]
     IN UpdateSession(s,
          IF call[c].op = "start"
          THEN [r EXCEPT !.action = "START", !.bound = FALSE, !.auth = "chosen"]
          ELSE [r EXCEPT !.action = "CONFIRM", !.bound = TRUE,
                         !.auth = IF @ = "started" THEN @ ELSE "chosen"])
  /\ IF call[c].alive THEN Return(c) ELSE Goto(c, "dispatch")
  /\ UNCHANGED <<job, run>>

\* Mutant: the row of an expired session is forgotten.
ExpireSessionOnly(c) ==
  /\ In(c, "expire")
  /\ EndSession(call[c].s, "EXPIRED") /\ Return(c)
  /\ UNCHANGED <<job, run>>

\* expireApprovalIfNeeded, after the look at the clock.
WebExpire(c) ==
  /\ In(c, "expire")
  /\ EndSession(call[c].s, "EXPIRED") /\ Goto(c, "failrow")
  /\ UNCHANGED <<job, run>>

WebFailRow(c) ==
  /\ In(c, "failrow")
  /\ EndBlocked(call[c].s, "FAILED") /\ Return(c)
  /\ UNCHANGED <<session, run>>

Cancel(c) ==
  /\ In(c, "cancel")
  /\ EndSession(call[c].s, "CANCELED") /\ Goto(c, "cancelrow")
  /\ UNCHANGED <<job, run>>

CancelRow(c) ==
  /\ In(c, "cancelrow")
  /\ EndBlocked(call[c].s, "CANCELED") /\ Return(c)
  /\ UNCHANGED <<session, run>>

-----------------------------------------------------------------------------
Init == WorkerInit /\ call = [c \in Caller |-> Idle]

\* What the server does with a request it has accepted.
WebStep(c) ==
  \/ Look(c) \/ Drop(c) \/ Restart(c) \/ Reread(c) \/ FindQueued(c)
  \/ CreateJob(c) \/ CreateSession(c) \/ Dispatch(c) \/ Write(c)
  \/ WebExpire(c) \/ WebFailRow(c) \/ Cancel(c) \/ CancelRow(c)

Next ==
  \/ RowsNext /\ UNCHANGED <<run, call>>
  \/ WorkerNext /\ UNCHANGED call
  \/ \E c \in Caller : WebStep(c) \/ Request(c) \/ Poll(c) \/ UserActs(c)

Spec == Init /\ [][Next]_vars

\* The server works off a request it has accepted, the portal answers or its
\* page times out, and a run that is not killed goes on; the dashboard polls as
\* long as an approval is open, and time passes.  Users and heartbeats are free.
Fairness ==
  /\ \A p \in Run : WF_vars(RunStep(p) /\ UNCHANGED call)
  /\ \A c \in Caller : WF_vars(WebStep(c)) /\ WF_vars(Poll(c))
  /\ \A s \in Row : WF_vars(TimePasses(s) /\ UNCHANGED <<run, call>>)

FairSpec == Spec /\ Fairness

-----------------------------------------------------------------------------
(* Properties *)

\* Values are of their types; a session belongs to a JobQueue row, and runs and
\* the second writes of requests to a session that exists.
TypeOK ==
  /\ job \in [Row -> JobRow] /\ session \in [Row -> SessionRow]
  /\ run \in [Run -> RunState] /\ call \in [Caller -> CallState]
  /\ \A s \in Row : session[s].status # "NONE" => job[s].status # "NONE"
  /\ \A p \in Run : ~ At(p, "none") =>
       run[p].s # NoRow /\ session[run[p].s].status # "NONE"

\* Terminal sessions are scrubbed and stay so: no late heartbeat, answer of the
\* portal or user action leaves an action, a selection or a lease in them.
TerminalScrubbed ==
  \A s \in Row : Ended(s) =>
    /\ session[s].action = "none" /\ session[s].auth = "none"
    /\ session[s].lease = "none" /\ ~ session[s].restart

\* A worker that is asked to start or confirm finds the method that was chosen,
\* although requests and runs write back what they read before.
ActionsHaveMethod ==
  \A s \in Row : session[s].action \in {"START", "CONFIRM"} =>
    session[s].auth \in {"chosen", "started"}

\* No two runs play the same row, and no two rows of the same lecture are
\* active, although runs do not exclude each other from a session and
\* concurrent requests may each create a row.
OneContinuation ==
  /\ \A p, q \in Run :
       At(p, "play") /\ At(q, "play") /\ p # q => run[p].s # run[q].s
  /\ \A s, t \in Row :
       /\ s # t /\ job[s].lecture = job[t].lecture
       /\ job[s].status \in {"PENDING", "RUNNING"}
       => job[t].status \notin {"PENDING", "RUNNING"}

\* Between the two writes that make or end a session and its row.
BetweenWrites(s) ==
  \/ \E p \in Run : run[p].s = s /\ run[p].pc \in Closing
  \/ \E c \in Caller :
       call[c].s = s /\ call[c].pc \in {"session", "failrow", "cancelrow"}

\* A row waits BLOCKED only for a session that is open: nothing but a process
\* that stops between its two writes leaves a row that nobody will ever claim
\* or close, however many expire, cancel and complete the session at once.
BlockedRowsAttended ==
  \A s \in Row : Blocked(s) /\ ~ Open(s) => BetweenWrites(s)

\* A confirmation without a code that overtook the start of its method while a
\* run still waits for the code of the method before: the run does not take it.
Stranded(s) ==
  /\ session[s].action = "CONFIRM" /\ ~ session[s].code
  /\ \E p \in Run : run[p].s = s /\ At(p, "wait") /\ run[p].code

\* The dashboard polls "until the session returns to a user-input state or
\* completes" (docs/08-autolearn-engine-spec.md:63): while a run serves the
\* session, what the user asked for is taken up, or is a stranded confirmation.
ActionsSettle ==
  \A s \in Row :
    /\ session[s].action # "none"
    /\ \E p \in Run : run[p].s = s /\ run[p].pc \in Attending
    ~> session[s].action = "none" \/ Stranded(s)

=============================================================================
