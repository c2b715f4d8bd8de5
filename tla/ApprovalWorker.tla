--------------------------- MODULE ApprovalWorker ---------------------------
(***************************************************************************)
(* The approval worker, apps/worker/src/cyber-campus-approval.ts: a GitHub *)
(* run that opens a browser for one approval session, finds out whether    *)
(* the portal wants a second factor, lets the user go through it, and      *)
(* plays the BLOCKED row in the same browser.                              *)
(*                                                                         *)
(* Several runs may work on one session: the lease is written, but no      *)
(* write depends on it.  Every database statement is a step of its own,    *)
(* and an answer of the portal comes with the write that follows it.  A    *)
(* run that is killed takes no more steps.  The saved PortalSession, a     *)
(* copy of the cookies, is left out.                                       *)
(***************************************************************************)
EXTENDS ApprovalRows

CONSTANT MaxRuns  \* bound: approval runs GitHub starts

ASSUME RunsAssumption == MaxRuns \in Nat

Run == 1 .. MaxRuns

VARIABLE run  \* [Run -> RunState]

\* Where the lease manager sends heartbeats.
Leased == {"probe", "list", "listed", "loop", "wait", "starting",
           "confirming", "verify"}
\* Where the session is certain to be looked at again.
Attending == Leased \cup {"queued", "start", "complete", "fail", "expire"}
\* Where the run is between the end of the session and the end of the row.
Closing == {"claim", "take", "conflict", "succeed", "failrow"}

\* action, auth and code: the session as read, between "list" and "listed".
\* code, later: whether the method being used requires one, waitForCode.
\* bound: the runtime state the heartbeats repeat.  next: where to go on after
\* "complete" and after "fail".
RunState == [pc : Attending \cup Closing \cup {"none", "play", "done"},
             s : Row \cup {NoRow}, action : Action,
             auth : {"none", "listed", "chosen", "started"}, code : BOOLEAN,
             bound : BOOLEAN, next : {"claim", "succeed", "failrow", "done"}]

NoRun == [pc |-> "none", s |-> NoRow, action |-> "none", auth |-> "none",
          code |-> FALSE, bound |-> FALSE, next |-> "done"]

At(p, c) == run[p].pc = c
Ses(p) == session[run[p].s]

To(p, c) == [NoRun EXCEPT !.pc = c, !.s = run[p].s]
SetRun(p, r) == run' = [run EXCEPT ![p] = r]

Go(p, c) == SetRun(p, To(p, c))
GoUsing(p, c, b, code) ==
  SetRun(p, [To(p, c) EXCEPT !.bound = b, !.code = code])
GoBeating(p, c, b) == GoUsing(p, c, b, FALSE)
GoAndThen(p, c, n) == SetRun(p, [To(p, c) EXCEPT !.next = n])

\* dispatchWorkerRun with an approval id: GitHub starts a run, or refuses.
StartRun(s) ==
  \/ \E p \in Run :
       /\ At(p, "none") /\ \A q \in Run : At(q, "none") => p <= q
       /\ SetRun(p, [NoRun EXCEPT !.pc = "queued", !.s = s])
  \/ UNCHANGED run

-----------------------------------------------------------------------------
(* From the start of the run to the end of the probe *)

Boot(p) ==
  /\ At(p, "queued")
  /\ \/ Ended(run[p].s) /\ Go(p, "done")
     \/ Open(run[p].s) /\ Ses(p).late /\ Go(p, "expire")
     \/ Open(run[p].s) /\ ~ Ses(p).late
        /\ (Go(p, "start") \/ GoAndThen(p, "fail", "failrow"))
  /\ UNCHANGED rowVars

\* One update of the lease manager.
Heartbeat(p, b) == UpdateSession(run[p].s, [Ses(p) EXCEPT !.lease = "fresh",
                                                          !.bound = b])

StartLease(p) ==
  /\ At(p, "start")
  /\ Heartbeat(p, FALSE) /\ GoBeating(p, "probe", FALSE)
  /\ UNCHANGED job

Beat(p) ==
  /\ run[p].pc \in Leased
  /\ Heartbeat(p, run[p].bound)
  /\ UNCHANGED <<job, run>>

\* The portal lets the browser in, or there is nothing to play.
ProbeReady(p) ==
  /\ At(p, "probe")
  /\ \E n \in {"claim", "succeed"} : GoAndThen(p, "complete", n)
  /\ UNCHANGED rowVars

ProbeRefused(p) ==
  /\ At(p, "probe") /\ GoBeating(p, "list", FALSE)
  /\ UNCHANGED rowVars

\* Any call to the portal may fail; a failed login fails the row as well.
PortalFails(p) ==
  /\ run[p].pc \in {"probe", "listed", "starting", "confirming", "verify",
                    "complete"}
  /\ \E n \in {"failrow", "done"} : GoAndThen(p, "fail", n)
  /\ UNCHANGED rowVars

ListRead(p) ==
  /\ At(p, "list")
  /\ SetRun(p, [To(p, "listed") EXCEPT !.action = Ses(p).action,
                                       !.auth = Ses(p).auth,
                                       !.code = Ses(p).code,
                                       !.bound = Ses(p).action = "CONFIRM"])
  /\ UNCHANGED rowVars

\* Mutant: the selection is not written back with the action.
ListWithoutSelection(p) ==
  /\ At(p, "listed")
  /\ UpdateSession(run[p].s,
       [status |-> "PENDING",
        action |-> IF run[p].action = "BOOTSTRAP" THEN "none" ELSE run[p].action,
        auth |-> "listed", code |-> FALSE, lease |-> "fresh", bound |-> run[p].bound,
        restart |-> FALSE, late |-> FALSE])
  /\ GoBeating(p, "loop", run[p].bound)
  /\ UNCHANGED job

\* The methods are published, and everything else is written back as read.
ListWrite(p) ==
  /\ At(p, "listed")
  /\ UpdateSession(run[p].s,
       [status |-> IF run[p].auth = "started" THEN "ACTIVE" ELSE "PENDING",
        action |-> IF run[p].action = "BOOTSTRAP" THEN "none" ELSE run[p].action,
        auth |-> IF run[p].auth = "none" THEN "listed" ELSE run[p].auth,
        code |-> run[p].code, lease |-> "fresh", bound |-> run[p].bound,
        restart |-> FALSE, late |-> FALSE])
  /\ GoBeating(p, "loop", run[p].bound)
  /\ UNCHANGED job

-----------------------------------------------------------------------------
(* The loop: what the user asks for, and what the portal says to it *)

\* What a look at the session finds to do.
Over(p) == Ended(run[p].s) /\ Go(p, "done")
Late(p) == Open(run[p].s) /\ Ses(p).late /\ Go(p, "expire")
Asked(p, a) == Open(run[p].s) /\ ~ Ses(p).late /\ Ses(p).action = a

Loop(p) ==
  /\ At(p, "loop")
  /\ \/ Over(p) \/ Late(p)
     \/ Asked(p, "START") /\ GoUsing(p, "starting", FALSE, Ses(p).code)
     \/ Asked(p, "CONFIRM") /\ GoUsing(p, "confirming", TRUE, Ses(p).code)
     \/ \E a \in {"none", "BOOTSTRAP"} :
          Asked(p, a) /\ GoUsing(p, "wait", Ses(p).auth = "started", Ses(p).code)
  /\ UNCHANGED rowVars

\* Mutant: a confirmation does not end the wait.
WaitForStart(p) ==
  /\ At(p, "wait")
  /\ \/ Over(p) \/ Late(p)
     \/ Asked(p, "START") /\ GoBeating(p, "loop", run[p].bound)
  /\ UNCHANGED rowVars

\* waitForApprovalState.  A confirmation without a code does not end a wait for
\* one, even if another method was started meanwhile.
TakesUp(p) ==
  \/ Asked(p, "START")
  \/ Asked(p, "CONFIRM") /\ (run[p].code => Ses(p).code)

Wait(p) ==
  /\ At(p, "wait")
  /\ \/ Over(p) \/ Late(p)
     \/ TakesUp(p) /\ GoBeating(p, "loop", run[p].bound)
  /\ UNCHANGED rowVars

\* The update after every answer of the portal, whose texts and whose runtime
\* state (WAITING_CODE, VERIFIED, RESUMING_AUTOLEARN) alone differ.
Proving(code) ==
  [status |-> "ACTIVE", action |-> "none", auth |-> "started", code |-> code,
   lease |-> "fresh", bound |-> TRUE, restart |-> FALSE, late |-> FALSE]

Answered(p) == UpdateSession(run[p].s, Proving(run[p].code)) /\ UNCHANGED job

Started(p) == At(p, "starting") /\ Answered(p) /\ GoBeating(p, "loop", TRUE)

NotConfirmed(p) ==
  At(p, "confirming") /\ Answered(p) /\ GoBeating(p, "loop", TRUE)

Confirmed(p) ==
  At(p, "confirming") /\ Answered(p) /\ GoUsing(p, "verify", TRUE, run[p].code)

NotVerified(p) == At(p, "verify") /\ Answered(p) /\ GoBeating(p, "loop", TRUE)

Verified(p) ==
  At(p, "verify") /\ Answered(p) /\ GoAndThen(p, "complete", "claim")

-----------------------------------------------------------------------------
(* The end of the session, and then of the row *)

CompleteApproval(p) ==
  /\ At(p, "complete")
  /\ EndSession(run[p].s, "COMPLETED")
  /\ Go(p, run[p].next)
  /\ UNCHANGED job

\* claimBlockedAutoLearnContinuationJob: the row is read, then taken.
ClaimRead(p) ==
  /\ At(p, "claim")
  /\ IF Blocked(run[p].s) THEN Go(p, "take") ELSE GoAndThen(p, "fail", "done")
  /\ UNCHANGED rowVars

\* Mutant: the claim trusts what it read.
TakeAsRead(p) ==
  /\ At(p, "take")
  /\ IF KeyTaken(job[run[p].s].lecture) /\ Blocked(run[p].s)
     THEN Go(p, "conflict") /\ UNCHANGED job
     ELSE SetStatus(run[p].s, "RUNNING") /\ Go(p, "play")
  /\ UNCHANGED session

ClaimTake(p) ==
  /\ At(p, "take")
  /\ \/ /\ Blocked(run[p].s) /\ ~ KeyTaken(job[run[p].s].lecture)
        /\ SetStatus(run[p].s, "RUNNING") /\ Go(p, "play")
     \/ /\ Blocked(run[p].s) /\ KeyTaken(job[run[p].s].lecture)
        /\ Go(p, "conflict") /\ UNCHANGED job
     \/ /\ ~ Blocked(run[p].s)
        /\ GoAndThen(p, "fail", "done") /\ UNCHANGED job
  /\ UNCHANGED session

ClaimConflict(p) ==
  /\ At(p, "conflict")
  /\ EndBlocked(run[p].s, "CANCELED") /\ GoAndThen(p, "fail", "done")
  /\ UNCHANGED session

\* Nothing is left to play.
SucceedRow(p) ==
  /\ At(p, "succeed")
  /\ EndBlocked(run[p].s, "SUCCEEDED") /\ Go(p, "done")
  /\ UNCHANGED session

\* failApprovalAction
FailAction(p) ==
  /\ At(p, "fail")
  /\ UpdateSession(run[p].s, [Ses(p) EXCEPT !.action = "none", !.lease = "none",
                                !.bound = TRUE, !.late = FALSE])
  /\ Go(p, run[p].next)
  /\ UNCHANGED job

\* expireApprovalSession, whatever happened since the look at the clock.
Expire(p) ==
  /\ At(p, "expire")
  /\ EndSession(run[p].s, "EXPIRED") /\ Go(p, "failrow")
  /\ UNCHANGED job

FailRow(p) ==
  /\ At(p, "failrow")
  /\ EndBlocked(run[p].s, "FAILED") /\ Go(p, "done")
  /\ UNCHANGED session

\* The reports of the queue change the row of the run that owns it only.
PlayEnds(p) ==
  /\ At(p, "play")
  /\ IF job[run[p].s].status = "RUNNING"
     THEN \E status \in {"SUCCEEDED", "FAILED"} : SetStatus(run[p].s, status)
     ELSE UNCHANGED job
  /\ Go(p, "done")
  /\ UNCHANGED session

WorkerInit == RowsInit /\ run = [p \in Run |-> NoRun]

\* What a run does next; heartbeats come on top of it.
RunStep(p) ==
  \/ Boot(p) \/ StartLease(p)
  \/ ProbeReady(p) \/ ProbeRefused(p) \/ PortalFails(p)
  \/ ListRead(p) \/ ListWrite(p) \/ Loop(p) \/ Wait(p)
  \/ Started(p) \/ NotConfirmed(p) \/ Confirmed(p)
  \/ NotVerified(p) \/ Verified(p)
  \/ CompleteApproval(p) \/ ClaimRead(p) \/ ClaimTake(p) \/ ClaimConflict(p)
  \/ SucceedRow(p) \/ FailAction(p) \/ Expire(p) \/ FailRow(p) \/ PlayEnds(p)

WorkerNext == \E p \in Run : RunStep(p) \/ Beat(p)
=============================================================================
