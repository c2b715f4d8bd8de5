---------------------------- MODULE ApprovalRows ----------------------------
(***************************************************************************)
(* The two rows of a Cyber Campus autolearn request of one user: the       *)
(* BLOCKED JobQueue row and the PortalApprovalSession that is tied to it,  *)
(* with the writes that the web application                                *)
(* (apps/web/src/server/portal-session-store.ts) and the approval worker   *)
(* (apps/worker/src/sync-store.ts) share.  Nothing but the WHERE clause of *)
(* a write orders the two sides.                                           *)
(*                                                                         *)
(* A row of either table is numbered by the request that made it; the      *)
(* cookies, the codes and the texts of a session are left out.             *)
(***************************************************************************)
EXTENDS Naturals, FiniteSets

CONSTANTS
  Lecture,   \* what a request is for: lecture and mode (the idempotency key)
  MaxRows,   \* bound: requests that create rows
  MayRetry,  \* bound: an admin may put rows into the ordinary queue
  Methods,   \* what the portal offers: whether a method requires a code
  NoLecture

ASSUME RowsAssumption ==
  /\ MaxRows \in Nat /\ MayRetry \in BOOLEAN /\ NoLecture \notin Lecture
  /\ Methods \subseteq BOOLEAN

Row == 1 .. MaxRows
NoRow == 0

VARIABLES
  job,     \* [Row -> [status, lecture]]: the JobQueue rows
  session  \* [Row -> SessionRow]: the PortalApprovalSession of each

rowVars == <<job, session>>

Terminal == {"COMPLETED", "EXPIRED", "CANCELED"}
Action == {"none", "BOOTSTRAP", "START", "CONFIRM"}

\* "PENDING" stands for everything the ordinary queue does with a row.
JobRow == [status : {"NONE", "BLOCKED", "PENDING", "RUNNING", "SUCCEEDED",
                     "FAILED", "CANCELED"},
           lecture : Lecture \cup {NoLecture}]

\* bound: runtimeState is none of BOOTSTRAPPING, WAITING_METHOD and
\* STARTING_METHOD, so that only the same browser can go on.  auth: how far
\* methods, the selection and authSeq are filled in.  code: the selected method
\* requires one; pendingCode is there while CONFIRM is asked for such a method,
\* and written together with the two.  lease: workerLeaseId with
\* a heartbeat that is at most 30 s old, or older.  late: expiresAt of an open
\* session has passed.
SessionRow == [status : {"NONE", "PENDING", "ACTIVE"} \cup Terminal,
               action : Action, auth : {"none", "listed", "chosen", "started"},
               code : BOOLEAN, lease : {"none", "fresh", "stale"},
               bound : BOOLEAN, restart : BOOLEAN, late : BOOLEAN]

NoJobRow == [status |-> "NONE", lecture |-> NoLecture]
NoSession == [status |-> "NONE", action |-> "none", auth |-> "none",
              code |-> FALSE, lease |-> "none", bound |-> FALSE,
              restart |-> FALSE, late |-> FALSE]
NewSession == [NoSession EXCEPT !.status = "PENDING", !.action = "BOOTSTRAP"]

Blocked(s) == job[s].status = "BLOCKED"
Open(s) == session[s].status \in {"PENDING", "ACTIVE"}
Ended(s) == session[s].status \in Terminal

\* Rows of the same lecture that hold activeDedupeKey.
KeyTaken(l) == \E s \in Row : job[s].lecture = l
                              /\ job[s].status \in {"PENDING", "RUNNING"}

SetStatus(s, status) == job' = [job EXCEPT ![s].status = status]

\* The updates WHERE status = BLOCKED.
EndBlocked(s, status) ==
  IF Blocked(s) THEN SetStatus(s, status) ELSE UNCHANGED job

\* Mutant: the update does not look at the status.
UpdateAnyway(s, r) == session' = [session EXCEPT ![s] = r]

\* updatePortalApprovalSessionState, of the web and of the worker.
UpdateSession(s, r) ==
  IF Open(s) THEN session' = [session EXCEPT ![s] = r] ELSE UNCHANGED session

\* buildPortalApprovalTerminalScrub
Scrubbed(status) == [NoSession EXCEPT !.status = status, !.bound = TRUE]

\* An update to a terminal status.
EndSession(s, status) == UpdateSession(s, Scrubbed(status))

-----------------------------------------------------------------------------
(* The clock, and the parts of the queue that touch these rows *)

TimePasses(s) ==
  /\ Open(s) /\ ~ session[s].late
  /\ session' = [session EXCEPT ![s].late = TRUE]
  /\ UNCHANGED job

LeaseAges(s) ==
  /\ session[s].lease = "fresh"
  /\ session' = [session EXCEPT ![s].lease = "stale"]
  /\ UNCHANGED job

\* cancelJob
QueueCancel(s) ==
  /\ job[s].status \in {"BLOCKED", "PENDING", "RUNNING"}
  /\ SetStatus(s, "CANCELED")
  /\ UNCHANGED session

\* retryJob
QueueRetry(s) ==
  /\ MayRetry
  /\ job[s].status \in {"BLOCKED", "SUCCEEDED", "FAILED", "CANCELED"}
  /\ ~ KeyTaken(job[s].lecture)
  /\ SetStatus(s, "PENDING")
  /\ UNCHANGED session

QueueEnds(s) ==
  /\ job[s].status = "PENDING"
  /\ \E status \in {"SUCCEEDED", "FAILED"} : SetStatus(s, status)
  /\ UNCHANGED session

RowsInit ==
  /\ job = [s \in Row |-> NoJobRow]
  /\ session = [s \in Row |-> NoSession]

RowsNext == \E s \in Row : \/ TimePasses(s) \/ LeaseAges(s)
                           \/ QueueCancel(s) \/ QueueRetry(s) \/ QueueEnds(s)
=============================================================================
