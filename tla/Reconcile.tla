----------------------------- MODULE Reconcile ------------------------------
(***************************************************************************)
(* The reconcile check of apps/web/src/server/jobs-reconcile.ts, driven by *)
(* reconcile-health-check.yml: rows that say RUNNING are compared with the *)
(* runs GitHub says are active, and the rows of lost runs are repaired.    *)
(* Rows are read first, runs later, and rows are repaired later still,     *)
(* while rows and runs move on.                                            *)
(***************************************************************************)
EXTENDS WorkflowRuns

VARIABLE rec  \* [phase, pc, rows, orphans]: the health check in progress

checkVars == <<row, fifo, run, created, rec>>

Phase == {"check", "repair", "verify"}
Begin(p) == [phase |-> p, pc |-> "rows", rows |-> {}, orphans |-> {}]

\* The rows that say they are running, with their owner.
RunningRows == {<<j, row[j].run>> : j \in {k \in Job : Running(k)}}

Orphans == {x \in rec.rows : x[2] \notin Listed}

ReadRows ==
  /\ rec.pc = "rows"
  /\ rec' = [rec EXCEPT !.pc = "runs", !.rows = RunningRows]
  /\ UNCHANGED runVars

\* GET tells whether rows are orphaned, POST goes on to repair them, and the
\* last GET only decides whether a dispatch follows.
ReadRuns ==
  /\ rec.pc = "runs"
  /\ rec' = IF Orphans = {}
            THEN Begin(IF rec.phase = "repair" THEN "verify" ELSE "check")
            ELSE CASE rec.phase = "check" -> Begin("repair")
                   [] rec.phase = "verify" -> Begin("check")
                   [] OTHER -> [rec EXCEPT !.pc = "repair", !.rows = {},
                                           !.orphans = Orphans]
  /\ UNCHANGED runVars

\* GitHub cannot be asked: canReconcileWithGitHub is false and the check ends.
ReadFails ==
  /\ MayFail /\ rec.pc = "runs"
  /\ rec' = Begin("check")
  /\ UNCHANGED runVars

AfterRepair(x) == IF rec.orphans = {x} THEN Begin("verify")
                  ELSE [rec EXCEPT !.orphans = @ \ {x}]

\* Mutant: the row is repaired whoever runs it by now.
RepairAnyOwner(x, retry) ==
  /\ rec.pc = "repair" /\ x \in rec.orphans
  /\ IF Running(x[1]) THEN RepairRow(x[1], retry) ELSE UNCHANGED <<row, fifo>>
  /\ rec' = AfterRepair(x)
  /\ UNCHANGED <<run, created>>

\* repairOrphanedRunningJob, if the row is still as it was read.
Repair(x, retry) ==
  /\ rec.pc = "repair" /\ x \in rec.orphans
  /\ IF Owns(x[2], x[1]) THEN RepairRow(x[1], retry) ELSE UNCHANGED <<row, fifo>>
  /\ rec' = AfterRepair(x)
  /\ UNCHANGED <<run, created>>

-----------------------------------------------------------------------------

\* Jobs are requested and runs are created at any time.
Enqueue(j) ==
  /\ row[j] = NoRow
  /\ SetRow(j, Pending) /\ fifo' = Append(fifo, j)
  /\ UNCHANGED <<run, created>>

WorkGoesOn ==
  /\ \/ RunNext
     \/ \E j \in Job : Enqueue(j)
     \/ \E t \in Trigger, u \in User : CreateRun(t, u)
  /\ UNCHANGED rec

RepairStep == \E x \in rec.orphans, retry \in BOOLEAN : Repair(x, retry)

CheckInit == RunInit /\ rec = Begin("check")

CheckNext == WorkGoesOn \/ ReadRows \/ ReadRuns \/ ReadFails \/ RepairStep

CheckSpec == CheckInit /\ [][CheckNext]_checkVars

(***************************************************************************)
(* Fairness: the workflow fires every four hours, each of its steps comes  *)
(* to an end, and GitHub answers now and then in every phase.              *)
(***************************************************************************)
FairCheckSpec ==
  /\ CheckSpec
  /\ WF_checkVars(ReadRows) /\ WF_checkVars(RepairStep)
  /\ \A p \in Phase : SF_checkVars(rec.phase = p /\ ReadRuns)

-----------------------------------------------------------------------------
(* Properties *)

CheckTypeOK ==
  /\ RunTypeOK
  /\ rec \in [phase : Phase, pc : {"rows", "runs", "repair"},
              rows : SUBSET (Job \X Run), orphans : SUBSET (Job \X Run)]

\* A repair takes a row from nobody but a run that is over, or that a page of
\* newer runs hides, although the row may have been requeued and claimed by a
\* live run since it was read.  (The check reads one page of runs of any status,
\* so it takes an active run that has left the page for lost.)
RepairSparesLiveRuns ==
  [][\A j \in Job : (Running(j) /\ row'[j] # row[j] /\ rec' # rec)
                      => Unlisted(row[j].run)]_checkVars

\* The row of a run that died does not stay RUNNING: the next reconcile finds
\* and repairs it, whatever the other runs do and wherever the run is listed.
OrphansRepaired ==
  \A j \in Job, r \in Run :
    (Owns(r, j) /\ Completed(r)) ~> ~ Owns(r, j)
=============================================================================
