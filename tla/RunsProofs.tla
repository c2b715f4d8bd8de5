----------------------------- MODULE RunsProofs -----------------------------
(***************************************************************************)
(* Proofs about Dispatch and Reconcile, which share their rows and runs,   *)
(* for every number of jobs, users, runs and calls, and every capacity and *)
(* page.                                                                   *)
(*                                                                         *)
(* While no run is active, a due sync row is looked after by a dispatch    *)
(* call that has seen no active run: such a call finds a free slot and the *)
(* user whose row is oldest, and asks for a run.  A call that has seen a   *)
(* run may end without asking, but that run's end triggers the handoff.    *)
(*                                                                         *)
(* A run that is completed stays completed, and its number is not given    *)
(* again.  So what the reconcile check concludes from its two reads stays  *)
(* true until the repair, provided that the list of runs it concluded from *)
(* was not cut off.                                                        *)
(***************************************************************************)
EXTENDS Dispatch, Reconcile, FiniteSetTheorems, SequenceTheorems, WellFoundedInduction, TLAPS

----------------------------------------------------------------------------
(* The queue's order *)

Once(s) == \A i, k \in 1 .. Len(s) : s[i] = s[k] => i = k
Lists(s, j) == \E i \in 1 .. Len(s) : s[i] = j

LEMMA Place ==
  ASSUME fifo \in Seq(Job), NEW j, Lists(fifo, j)
  PROVE  Position(j) \in 1 .. Len(fifo) /\ fifo[Position(j)] = j
BY DEF Position, Lists

LEMMA AppendLists ==
  ASSUME NEW s \in Seq(Job), NEW j \in Job
  PROVE  /\ Append(s, j) \in Seq(Job)
         /\ \A k : Lists(Append(s, j), k) <=> Lists(s, k) \/ k = j
         /\ Once(s) /\ ~ Lists(s, j) => Once(Append(s, j))
<1>1. /\ Append(s, j) \in Seq(Job) /\ Len(Append(s, j)) = Len(s) + 1 /\ Len(s) \in Nat
      /\ \A i \in 1 .. Len(s) : Append(s, j)[i] = s[i]
      /\ Append(s, j)[Len(s) + 1] = j
  BY AppendProperties, LenProperties
<1>2. ASSUME NEW k PROVE Lists(Append(s, j), k) <=> Lists(s, k) \/ k = j
  <2>1. ASSUME Lists(Append(s, j), k) PROVE Lists(s, k) \/ k = j
    <3>1. PICK i \in 1 .. Len(s) + 1 : Append(s, j)[i] = k
      BY <1>1, <2>1 DEF Lists
    <3>2. CASE i = Len(s) + 1
      BY <1>1, <3>1, <3>2
    <3>3. CASE i # Len(s) + 1
      <4>1. i \in 1 .. Len(s)
        BY <1>1, <3>3
      <4> QED BY <1>1, <3>1, <4>1 DEF Lists
    <3> QED BY <3>2, <3>3
  <2>2. ASSUME Lists(s, k) PROVE Lists(Append(s, j), k)
    <3>1. PICK i \in 1 .. Len(s) : s[i] = k
      BY <2>2 DEF Lists
    <3>2. i \in 1 .. Len(Append(s, j)) /\ Append(s, j)[i] = k
      BY <1>1, <3>1
    <3> QED BY <3>2 DEF Lists
  <2>3. Lists(Append(s, j), j)
    BY <1>1 DEF Lists
  <2> QED BY <2>1, <2>2, <2>3
<1>3. ASSUME Once(s), ~ Lists(s, j) PROVE Once(Append(s, j))
  <2>1. SUFFICES ASSUME NEW i \in 1 .. Len(s) + 1, NEW k \in 1 .. Len(s) + 1,
                        Append(s, j)[i] = Append(s, j)[k]
                 PROVE  i = k
    BY <1>1 DEF Once
  <2>2. CASE i = Len(s) + 1 /\ k = Len(s) + 1
    BY <2>2
  <2>3. CASE i # Len(s) + 1 /\ k # Len(s) + 1
    <3>1. i \in 1 .. Len(s) /\ k \in 1 .. Len(s)
      BY <1>1, <2>3
    <3> QED BY <1>1, <1>3, <2>1, <3>1 DEF Once
  <2>4. CASE i # Len(s) + 1 /\ k = Len(s) + 1
    <3>1. i \in 1 .. Len(s)
      BY <1>1, <2>4
    <3> QED BY <1>1, <1>3, <2>1, <2>4, <3>1 DEF Lists
  <2>5. CASE i = Len(s) + 1 /\ k # Len(s) + 1
    <3>1. k \in 1 .. Len(s)
      BY <1>1, <2>5
    <3> QED BY <1>1, <1>3, <2>1, <2>5, <3>1 DEF Lists
  <2> QED BY <2>2, <2>3, <2>4, <2>5
<1> QED BY <1>1, <1>2, <1>3

LEMMA WithoutLists ==
  ASSUME fifo \in Seq(Job), Once(fifo), NEW j \in Job, Lists(fifo, j)
  PROVE  /\ Without(j) \in Seq(Job) /\ Once(Without(j))
         /\ \A k : Lists(Without(j), k) <=> Lists(fifo, k) /\ k # j
<1> DEFINE p == Position(j)
           n == Len(fifo)
           w == Without(j)
<1>1. p \in 1 .. n /\ fifo[p] = j /\ n \in Nat
  BY Place, LenProperties
<1>2. /\ SubSeq(fifo, 1, p - 1) \in Seq(Job) /\ Len(SubSeq(fifo, 1, p - 1)) = p - 1
      /\ \A i \in 1 .. p - 1 : SubSeq(fifo, 1, p - 1)[i] = fifo[i]
  <2> HIDE DEF p, n
  <2> QED BY <1>1, SubSeqProperties DEF n
<1>3. /\ SubSeq(fifo, p + 1, n) \in Seq(Job) /\ Len(SubSeq(fifo, p + 1, n)) = n - p
      /\ \A i \in 1 .. n - p : SubSeq(fifo, p + 1, n)[i] = fifo[p + i]
  <2> HIDE DEF p, n
  <2> QED BY <1>1, SubSeqProperties DEF n
<1>4. /\ w \in Seq(Job) /\ Len(w) = n - 1
      /\ \A i \in 1 .. n - 1 : w[i] = IF i < p THEN fifo[i] ELSE fifo[i + 1]
  <2>1. w = SubSeq(fifo, 1, p - 1) \o SubSeq(fifo, p + 1, n)
    BY DEF Without
  <2> HIDE DEF w, p, n
  <2>2. w \in Seq(Job) /\ Len(w) = (p - 1) + (n - p)
    BY <1>2, <1>3, <2>1, ConcatProperties
  <2>3. ASSUME NEW i \in 1 .. n - 1 PROVE w[i] = IF i < p THEN fifo[i] ELSE fifo[i + 1]
    <3>1. i \in 1 .. (p - 1) + (n - p)
      BY <1>1
    <3>2. w[i] = IF i <= p - 1 THEN SubSeq(fifo, 1, p - 1)[i] ELSE SubSeq(fifo, p + 1, n)[i - (p - 1)]
      <4> DEFINE a == SubSeq(fifo, 1, p - 1)
                 b == SubSeq(fifo, p + 1, n)
      <4>1. /\ a \in Seq(Job) /\ b \in Seq(Job) /\ w = a \o b
            /\ Len(a) = p - 1 /\ Len(b) = n - p /\ i \in 1 .. Len(a) + Len(b)
        BY <1>2, <1>3, <2>1, <3>1
      <4> HIDE DEF a, b
      <4>2. w[i] = IF i <= Len(a) THEN a[i] ELSE b[i - Len(a)]
        BY <4>1, ConcatProperties
      <4> QED BY <4>1, <4>2 DEF a, b
    <3>3. CASE i < p
      BY <1>1, <1>2, <3>2, <3>3
    <3>4. CASE ~ (i < p)
      <4>1. i - (p - 1) \in 1 .. n - p /\ p + (i - (p - 1)) = i + 1 /\ ~ (i <= p - 1)
        BY <1>1, <3>4
      <4> QED BY <1>3, <3>2, <3>4, <4>1
    <3> QED BY <3>3, <3>4
  <2> QED BY <1>1, <2>2, <2>3
<1>5. Once(w)
  <2>1. SUFFICES ASSUME NEW i \in 1 .. n - 1, NEW k \in 1 .. n - 1, w[i] = w[k] PROVE i = k
    BY <1>4 DEF Once
  <2> DEFINE at(x) == IF x < p THEN x ELSE x + 1
  <2>2. at(i) \in 1 .. n /\ at(k) \in 1 .. n /\ fifo[at(i)] = fifo[at(k)]
    BY <1>1, <1>4, <2>1
  <2>3. at(i) = at(k)
    BY <2>2 DEF Once
  <2> QED BY <1>1, <2>3
<1>6. ASSUME NEW k PROVE Lists(w, k) <=> Lists(fifo, k) /\ k # j
  <2>1. ASSUME Lists(w, k) PROVE Lists(fifo, k) /\ k # j
    <3>1. PICK i \in 1 .. n - 1 : w[i] = k
      BY <1>4, <2>1 DEF Lists
    <3> DEFINE x == IF i < p THEN i ELSE i + 1
    <3>2. x \in 1 .. n /\ x # p /\ fifo[x] = k
      BY <1>1, <1>4, <3>1
    <3> HIDE DEF x, p
    <3>3. k # j
      BY <1>1, <3>2 DEF Once
    <3> QED BY <3>2, <3>3 DEF Lists
  <2>2. ASSUME Lists(fifo, k), k # j PROVE Lists(w, k)
    <3>1. PICK x \in 1 .. n : fifo[x] = k
      BY <2>2 DEF Lists
    <3> DEFINE i == IF x < p THEN x ELSE x - 1
    <3>2. x # p
      BY <1>1, <2>2, <3>1
    <3>3. i \in 1 .. n - 1 /\ w[i] = fifo[x]
      BY <1>1, <1>4, <3>2
    <3> HIDE DEF i, w
    <3> QED BY <1>4, <3>1, <3>3 DEF Lists
  <2> QED BY <2>1, <2>2
<1> QED BY <1>4, <1>5, <1>6

----------------------------------------------------------------------------
(* Rows and runs *)

RowRecord == [status : {"none", "waiting", "pending", "running"}, run : Run \cup {NoRun}]
RunRecord == [status : Started \cup {"queued", "completed"}, type : Trigger,
              user : User \cup {NoUser}, job : Job \cup {NoJob}]

\* The order lists each active row once.
RowsFit ==
  /\ row \in [Job -> RowRecord]
  /\ \A j \in Job : row[j].run # NoRun <=> Running(j)
  /\ fifo \in Seq(Job) /\ Once(fifo)
  /\ \A j \in Job : row[j] # NoRow <=> Lists(fifo, j)

\* Rows name runs that GitHub created.
RunsFit ==
  /\ run \in [Run -> RunRecord] /\ created \in 0 .. MaxRuns
  /\ \A j \in Job : Running(j) => row[j].run \in Run /\ Exists(row[j].run)
  /\ \A r \in Run : run[r].status = "working" => run[r].job \in Job

CallRecord == [pc : {"idle", "count", "send"}, type : Trigger, user : User \cup {NoUser},
               unread : SUBSET {"queued", "in_progress"}, seen : SUBSET Run, users : SUBSET User]

CallsFit ==
  /\ call \in [Call -> CallRecord]
  /\ wanted \in BOOLEAN /\ missed \in {"nothing", "retry", "failure"}

Fit == RowsFit /\ RunsFit /\ CallsFit

\* A row that stays active keeps its place.
LEMMA RowStays ==
  ASSUME RowsFit, NEW j \in Job, row[j] # NoRow,
         NEW c \in {Pending} \cup {[status |-> "running", run |-> r] : r \in Run},
         SetRow(j, c), UNCHANGED fifo
  PROVE  RowsFit'
<1>1. c \in RowRecord /\ c # NoRow /\ (c.run # NoRun <=> c.status = "running")
  BY RunAssumption DEF Pending, RowRecord, NoRow, Run, NoRun
<1>2. row' = [row EXCEPT ![j] = c] /\ row \in [Job -> RowRecord]
  BY DEF SetRow, RowsFit
<1> QED BY <1>1, <1>2 DEF RowsFit, Running

LEMMA RowJoins ==
  ASSUME RowsFit, NEW j \in Job, row[j] = NoRow, SetRow(j, Pending), fifo' = Append(fifo, j)
  PROVE  RowsFit'
<1>1. Pending \in RowRecord /\ Pending # NoRow /\ Pending.run = NoRun /\ Pending.status # "running"
  BY DEF Pending, RowRecord, NoRow, NoRun
<1>2. row' = [row EXCEPT ![j] = Pending] /\ row \in [Job -> RowRecord] /\ ~ Lists(fifo, j) /\ Once(fifo)
  BY DEF SetRow, RowsFit
<1>3. /\ fifo' \in Seq(Job) /\ Once(fifo')
      /\ \A k : Lists(fifo', k) <=> Lists(fifo, k) \/ k = j
  BY <1>2, AppendLists DEF RowsFit
<1> QED BY <1>1, <1>2, <1>3 DEF RowsFit, Running

LEMMA RowEnds ==
  ASSUME RowsFit, NEW j \in Job, row[j] # NoRow, NEW retry \in BOOLEAN, EndRow(j, retry)
  PROVE  RowsFit'
<1> DEFINE c == IF retry THEN RetryLater ELSE NoRow
<1>1. c \in RowRecord /\ c.run = NoRun /\ c.status # "running" /\ (c # NoRow <=> retry)
  BY DEF RetryLater, RowRecord, NoRow, NoRun
<1>2. row' = [row EXCEPT ![j] = c] /\ row \in [Job -> RowRecord] /\ Lists(fifo, j) /\ Once(fifo) /\ fifo \in Seq(Job)
  BY DEF SetRow, RowsFit, EndRow
<1>3. /\ Without(j) \in Seq(Job) /\ Once(Without(j))
      /\ \A k : Lists(Without(j), k) <=> Lists(fifo, k) /\ k # j
  BY <1>2, WithoutLists
<1>4. /\ fifo' \in Seq(Job) /\ Once(fifo')
      /\ \A k : Lists(fifo', k) <=> IF retry THEN Lists(fifo, k) \/ k = j ELSE Lists(fifo, k) /\ k # j
  BY <1>3, AppendLists DEF EndRow
<1> HIDE DEF c
<1>5. ASSUME NEW k \in Job
      PROVE  (row'[k].run # NoRun <=> row'[k].status = "running") /\ (row'[k] # NoRow <=> Lists(fifo', k))
  <2>1. CASE k = j
    BY <1>1, <1>2, <1>4, <2>1
  <2>2. CASE k # j
    BY <1>2, <1>4, <2>2 DEF RowsFit, Running
  <2> QED BY <2>1, <2>2
<1> QED BY <1>1, <1>2, <1>4, <1>5 DEF RowsFit, Running

LEMMA RowSame ==
  ASSUME RowsFit, UNCHANGED <<row, fifo>>
  PROVE  RowsFit'
BY DEF RowsFit, Running

\* A row changes and no run does.
LEMMA OwnersKept ==
  ASSUME RunsFit, UNCHANGED <<run, created>>, \A k \in Job : Running(k)' => row'[k] = row[k]
  PROVE  RunsFit'
BY DEF RunsFit, Running, Exists

\* A run changes, and a row with it or none.
LEMMA RunChanges ==
  ASSUME RunsFit, NEW r \in Run, Exists(r), NEW c \in RunRecord, c.status = "working" => c.job \in Job,
         SetRun(r, c), UNCHANGED created,
         \A k \in Job : Running(k)' => row'[k] = row[k] \/ row'[k] = [status |-> "running", run |-> r]
  PROVE  RunsFit'
<1>1. run' = [run EXCEPT ![r] = c] /\ run \in [Run -> RunRecord]
  BY DEF SetRun, RunsFit
<1>2. ASSUME NEW k \in Job, Running(k)' PROVE row'[k].run \in Run /\ Exists(row'[k].run)
  BY <1>2 DEF RunsFit, Running
<1> QED BY <1>1, <1>2 DEF RunsFit, Running, Exists

LEMMA AfterJobFits ==
  ASSUME RunsFit, NEW r \in Run, NEW next \in {"polling", "leaving", "completed"}
  PROVE  AfterJob(r, next) \in RunRecord /\ AfterJob(r, next).status = next
<1>1. run[r] \in RunRecord
  BY DEF RunsFit
<1>2. CASE run[r].type = "sync"
  BY <1>1, <1>2 DEF RunRecord, AfterJob, Started
<1>3. CASE run[r].type # "sync"
  BY <1>1, <1>3 DEF RunRecord, AfterJob, Started
<1> QED BY <1>2, <1>3

\* What one run does: it is active before, and no run is created.
LEMMA RunStepFits ==
  ASSUME RowsFit, RunsFit, NEW r \in Run, RunStep(r) \/ RunDie(r) \/ \E j \in Job : TakeBack(r, j)
  PROVE  RowsFit' /\ RunsFit' /\ r \in ActiveRuns /\ created' = created
<1>0. run[r] \in RunRecord /\ row \in [Job -> RowRecord]
  BY DEF RunsFit, RowsFit
<1>1. CASE RunStart(r) \/ RunLeave(r) \/ RunExit(r) \/ RunDie(r)
  <2>1. Exists(r) /\ ~ Completed(r) /\ UNCHANGED <<row, fifo, created>>
    BY <1>1 DEF RunStart, RunLeave, RunExit, RunDie, Completed
  <2>2. PICK c \in RunRecord : SetRun(r, c) /\ c.status # "working"
    <3>1. CASE RunStart(r)
      <4> DEFINE c == [run[r] EXCEPT !.status = "polling"]
      <4>1. c \in RunRecord /\ c.status = "polling" /\ SetRun(r, c)
        BY <1>0, <3>1 DEF RunStart, RunRecord, Started
      <4> QED BY <4>1
    <3>2. CASE RunLeave(r)
      <4> DEFINE c == [run[r] EXCEPT !.status = "leaving"]
      <4>1. c \in RunRecord /\ c.status = "leaving" /\ SetRun(r, c)
        BY <1>0, <3>2 DEF RunLeave, RunRecord, Started
      <4> QED BY <4>1
    <3>3. CASE RunExit(r)
      <4> DEFINE c == [run[r] EXCEPT !.status = "completed"]
      <4>1. c \in RunRecord /\ c.status = "completed" /\ SetRun(r, c)
        BY <1>0, <3>3 DEF RunExit, RunRecord
      <4> QED BY <4>1
    <3>4. CASE RunDie(r)
      <4> DEFINE c == [run[r] EXCEPT !.status = "completed", !.job = NoJob]
      <4>1. c \in RunRecord /\ c.status = "completed" /\ SetRun(r, c)
        BY <1>0, <3>4 DEF RunDie, RunRecord
      <4> QED BY <4>1
    <3> QED BY <1>1, <3>1, <3>2, <3>3, <3>4
  <2> QED BY <2>1, <2>2, RowSame, RunChanges DEF ActiveRuns
<1>2. CASE RunClaim(r)
  <2>1. PICK j \in Oldest(InScope(r)) :
          /\ SetRow(j, [status |-> "running", run |-> r])
          /\ SetRun(r, [run[r] EXCEPT !.status = "working", !.job = j])
    BY <1>2 DEF RunClaim
  <2>2. j \in Job /\ Due(j)
    BY <2>1 DEF Oldest, InScope, Own, Claimable
  <2>3. Exists(r) /\ ~ Completed(r) /\ UNCHANGED <<fifo, created>>
    BY <1>2 DEF RunClaim, Completed
  <2> DEFINE c == [run[r] EXCEPT !.status = "working", !.job = j]
  <2>4. c \in RunRecord /\ c.job = j /\ SetRun(r, c)
    BY <1>0, <2>1, <2>2 DEF RunRecord, Started
  <2>5. row[j] # NoRow
    BY <2>2 DEF Due, NoRow
  <2>6. RowsFit'
    BY <2>1, <2>2, <2>3, <2>5, RowStays
  <2>7. \A k \in Job : row'[k] = row[k] \/ row'[k] = [status |-> "running", run |-> r]
    BY <1>0, <2>1 DEF SetRow
  <2> HIDE DEF c
  <2> QED BY <2>2, <2>3, <2>4, <2>6, <2>7, RunChanges DEF ActiveRuns
<1>3. CASE RunSucceed(r) \/ \E retry, wait \in BOOLEAN : RunFail(r, retry, wait)
  <2>1. PICK retry \in BOOLEAN, next \in {"polling", "leaving"} :
          EndRow(run[r].job, retry) /\ SetRun(r, AfterJob(r, next))
    BY <1>3 DEF RunSucceed, RunFail
  <2>2. Works(r) /\ Owns(r, run[r].job) /\ UNCHANGED created
    BY <1>3 DEF RunSucceed, RunFail
  <2>3. run[r].job \in Job /\ Exists(r) /\ ~ Completed(r)
    BY <2>2 DEF Works, RunsFit, Completed
  <2>4. row[run[r].job] # NoRow
    BY <2>2 DEF Owns, NoRow
  <2>5. RowsFit'
    BY <2>1, <2>3, <2>4, RowEnds
  <2>6. ASSUME NEW k \in Job, Running(k)' PROVE row'[k] = row[k]
    BY <1>0, <2>1, <2>3, <2>6 DEF EndRow, SetRow, Running, RetryLater, NoRow
  <2>7. AfterJob(r, next) \in RunRecord /\ AfterJob(r, next).status # "working"
    BY AfterJobFits
  <2> QED BY <2>1, <2>2, <2>3, <2>5, <2>6, <2>7, RunChanges DEF ActiveRuns
<1>4. CASE \E next \in {"polling", "leaving", "completed"} : RunDisowned(r, next)
  <2>1. PICK next \in {"polling", "leaving", "completed"} : RunDisowned(r, next)
    BY <1>4
  <2>2. Exists(r) /\ ~ Completed(r) /\ UNCHANGED <<row, fifo, created>> /\ SetRun(r, AfterJob(r, next))
    BY <2>1 DEF RunDisowned, Works, Completed
  <2>3. AfterJob(r, next) \in RunRecord /\ AfterJob(r, next).status # "working"
    BY AfterJobFits
  <2> QED BY <2>2, <2>3, RowSame, RunChanges DEF ActiveRuns
<1>5. ASSUME NEW j \in Job, TakeBack(r, j) PROVE RowsFit' /\ RunsFit' /\ r \in ActiveRuns /\ created' = created
  <2>1. /\ SetRow(j, Pending) /\ UNCHANGED <<fifo, run, created>> /\ row[j] # NoRow
        /\ Exists(r) /\ ~ Completed(r)
    BY <1>5 DEF TakeBack, Running, NoRow, Completed
  <2>2. ASSUME NEW k \in Job, Running(k)' PROVE row'[k] = row[k]
    BY <1>0, <2>1, <2>2 DEF SetRow, Running, Pending
  <2> QED BY <2>1, <2>2, RowStays, OwnersKept DEF ActiveRuns
<1> QED BY <1>1, <1>2, <1>3, <1>4, <1>5 DEF RunStep

LEMMA CallChanges ==
  ASSUME CallsFit, NEW c \in Call, NEW x \in CallRecord, SetCall(c, x),
         wanted' \in BOOLEAN, missed' \in {"nothing", "retry", "failure"}
  PROVE  CallsFit'
BY DEF CallsFit, SetCall

LEMMA AskedFits ==
  ASSUME NEW t \in Trigger, NEW u \in User \cup {NoUser}
  PROVE  /\ Asked(t, u) \in CallRecord /\ Asked(t, u).pc = "count" /\ Asked(t, u).type = t
         /\ Asked(t, u).seen = {} /\ Idle \in CallRecord
BY DEF Asked, Idle, CallRecord, Trigger

LEMMA CreateFits ==
  ASSUME RowsFit, RunsFit, NEW t \in Trigger, NEW u \in User \cup {NoUser}, CreateRun(t, u)
  PROVE  RowsFit' /\ RunsFit' /\ (created \in ActiveRuns)'
<1>1. created + 1 \in Run /\ created' = created + 1 /\ created \in Nat /\ created' \in 0 .. MaxRuns
  BY RunAssumption DEF CreateRun, RunsFit, Run
<1>2. [status |-> "queued", type |-> t, user |-> u, job |-> NoJob] \in RunRecord
  BY DEF RunRecord
<1>3. run' \in [Run -> RunRecord] /\ run'[created + 1].status = "queued" /\ \A r \in Run \ {created + 1} : run'[r] = run[r]
  BY <1>1, <1>2 DEF CreateRun, SetRun, RunsFit
<1>4. UNCHANGED <<row, fifo>>
  BY DEF CreateRun
<1>5. \A r \in Run : Exists(r) => Exists(r)'
  BY <1>1 DEF Exists, Run
<1>6. RunsFit'
  BY <1>1, <1>3, <1>4, <1>5 DEF RunsFit, Running
<1> QED BY <1>1, <1>3, <1>4, <1>6, RowSame DEF ActiveRuns, Exists, Completed

----------------------------------------------------------------------------
(* Types *)

LEMMA UnreadFits ==
  ASSUME CallsFit, NEW c \in Call
  PROVE  call[c] \in CallRecord
BY DEF CallsFit

LEMMA ChosenAreUsers ==
  ASSUME NEW c \in Call
  PROVE  Chosen(c) \subseteq User
BY DEF Chosen, FirstOf, Candidates

LEMMA AskFits ==
  ASSUME Fit, NEW c \in Call, Asks(c)
  PROVE  Fit'
<1>0. row \in [Job -> RowRecord]
  BY DEF Fit, RowsFit
<1>1. ASSUME NEW j \in Job, Request(c, j) PROVE Fit'
  <2>1. TypeOf[j] \in Trigger /\ UserOf[j] \in User
    BY RunAssumption
  <2>2. CallsFit'
    BY <1>1, <2>1, AskedFits, CallChanges DEF Request, Fit, CallsFit
  <2>3. CASE row[j] = NoRow /\ SetRow(j, Pending) /\ fifo' = Append(fifo, j)
    BY <1>0, <1>1, <2>2, <2>3, RowJoins, OwnersKept DEF Request, Fit, SetRow, Running, Pending
  <2>4. CASE row[j] = RetryLater /\ SetRow(j, Pending) /\ UNCHANGED fifo
    <3>1. row[j] # NoRow
      BY <2>4 DEF RetryLater, NoRow
    <3> QED BY <1>0, <1>1, <2>2, <2>4, <3>1, RowStays, OwnersKept DEF Request, Fit, SetRow, Running, Pending
  <2>5. CASE UNCHANGED <<row, fifo>>
    BY <1>1, <2>2, <2>5, RowSame, OwnersKept DEF Request, Fit
  <2> QED BY <1>1, <2>3, <2>4, <2>5 DEF Request
<1>2. ASSUME NEW t \in Trigger, Schedule(c, t) PROVE Fit'
  <2>1. CallsFit'
    BY <1>2, AskedFits, CallChanges DEF Schedule, Fit, CallsFit
  <2>2. ASSUME NEW j \in Missing(t), SetRow(j, Pending), fifo' = Append(fifo, j) PROVE Fit'
    <3>1. j \in Job /\ row[j] = NoRow
      BY DEF Missing
    <3> QED BY <1>0, <1>2, <2>1, <2>2, <3>1, RowJoins, OwnersKept DEF Schedule, Fit, SetRow, Running, Pending
  <2>3. CASE UNCHANGED <<row, fifo>>
    BY <1>2, <2>1, <2>3, RowSame, OwnersKept DEF Schedule, Fit
  <2> QED BY <1>2, <2>2, <2>3 DEF Schedule
<1>3. CASE Handoff(c) \/ \E r \in Run : RunHandoff(c, r)
  <2>1. UNCHANGED <<row, fifo, run, created>>
    BY <1>3 DEF Handoff, RunHandoff
  <2>2. CallsFit'
    BY <1>3, AskedFits, CallChanges DEF Handoff, RunHandoff, Fit, CallsFit, Trigger
  <2> QED BY <2>1, <2>2, RowSame, OwnersKept DEF Fit
<1> QED BY <1>1, <1>2, <1>3 DEF Asks

LEMMA CallFits ==
  ASSUME Fit, NEW c \in Call, CallStep(c) \/ CountFails(c)
  PROVE  Fit'
<1>0. call[c] \in CallRecord /\ Idle \in CallRecord /\ wanted \in BOOLEAN
      /\ missed \in {"nothing", "retry", "failure"}
  BY UnreadFits, AskedFits DEF Fit, CallsFit, Trigger, Idle, CallRecord
<1>1. ASSUME UNCHANGED <<row, fifo, run, created>>, CallsFit' PROVE Fit'
  BY <1>1, RowSame, OwnersKept DEF Fit
<1>2. ASSUME NEW status \in {"queued", "in_progress"}, CountRuns(c, status) PROVE Fit'
  <2> DEFINE S == {r \in ActiveRuns : InList(r, status)}
             x == [call[c] EXCEPT !.unread = @ \ {status}, !.seen = @ \cup S]
  <2>1. S \subseteq Run
    BY DEF ActiveRuns
  <2>2. x \in CallRecord
    <3> HIDE DEF S
    <3> QED BY <1>0, <2>1 DEF CallRecord
  <2>3. SetCall(c, x) /\ UNCHANGED <<row, fifo, run, created, wanted, missed>>
    BY <1>2 DEF CountRuns
  <2> HIDE DEF x
  <2>4. CallsFit'
    BY <1>0, <2>2, <2>3, CallChanges DEF Fit
  <2> QED BY <1>1, <2>3, <2>4
<1>3. CASE CountFails(c)
  BY <1>0, <1>1, <1>3, CallChanges DEF CountFails, Fit
<1>4. CASE Select(c)
  <2> DEFINE x == [call[c] EXCEPT !.pc = "send", !.users = Chosen(c), !.seen = {}]
  <2>1. x \in CallRecord
    BY <1>0, ChosenAreUsers DEF CallRecord
  <2>2. SetCall(c, Idle) \/ SetCall(c, x)
    BY <1>4 DEF Select
  <2>3. UNCHANGED <<row, fifo, run, created, wanted, missed>>
    BY <1>4 DEF Select
  <2> HIDE DEF x
  <2>4. CallsFit'
    BY <1>0, <2>1, <2>2, <2>3, CallChanges DEF Fit
  <2> QED BY <1>1, <2>3, <2>4
<1>5. ASSUME NEW u \in User PROVE AfterSend(c, u) \in CallRecord
  BY <1>0 DEF AfterSend, CallRecord
<1>6. ASSUME NEW u \in User, Send(c, u) PROVE Fit'
  <2>1. CallsFit'
    BY <1>0, <1>5, <1>6, CallChanges DEF Send, Fit
  <2>2. call[c].type \in Trigger
    BY <1>0 DEF CallRecord
  <2> QED BY <1>6, <2>1, <2>2, CreateFits DEF Send, Fit
<1>7. ASSUME NEW u \in User, SendNothing(c, u) \/ SendFails(c, u) PROVE Fit'
  BY <1>0, <1>1, <1>5, <1>7, CallChanges DEF SendNothing, SendFails, Fit
<1> QED BY <1>2, <1>3, <1>4, <1>6, <1>7 DEF CallStep

\* The repair of a row that runs.
LEMMA RepairRowFits ==
  ASSUME RowsFit, RunsFit, NEW j \in Job, NEW retry \in BOOLEAN, Running(j),
         RepairRow(j, retry), UNCHANGED <<run, created>>
  PROVE  RowsFit' /\ RunsFit'
<1>1. row \in [Job -> RowRecord] /\ row[j] # NoRow
  BY DEF RowsFit, Running, NoRow
<1>2. RowsFit'
  <2>1. CASE TypeOf[j] = "sync"
    BY <1>1, <2>1, RowStays DEF RepairRow
  <2>2. CASE TypeOf[j] # "sync"
    BY <1>1, <2>2, RowEnds DEF RepairRow
  <2> QED BY <2>1, <2>2
<1>3. ASSUME NEW k \in Job, Running(k)' PROVE row'[k] = row[k]
  BY <1>1, <1>3 DEF RepairRow, EndRow, SetRow, Running, Pending, RetryLater, NoRow
<1> QED BY <1>2, <1>3, OwnersKept

LEMMA RepairFits ==
  ASSUME Fit, NEW j \in Job, NEW retry \in BOOLEAN, RepairOrphan(j, retry)
  PROVE  Fit'
<1>1. UNCHANGED <<run, created, call, missed>> /\ RepairRow(j, retry) /\ Running(j)
      /\ (wanted' = TRUE \/ wanted' = wanted)
  BY DEF RepairOrphan
<1>2. wanted \in BOOLEAN
  BY DEF Fit, CallsFit
<1>3. wanted' \in BOOLEAN
  BY <1>1, <1>2
<1>4. RowsFit' /\ RunsFit'
  BY <1>1, RepairRowFits DEF Fit
<1> QED BY <1>1, <1>3, <1>4 DEF Fit, CallsFit

LEMMA RetryFits ==
  ASSUME Fit, NEW j \in Job, RetryComesDue(j)
  PROVE  Fit'
<1>1. /\ row \in [Job -> RowRecord] /\ row[j] # NoRow /\ SetRow(j, Pending)
      /\ UNCHANGED <<fifo, run, created, call, wanted>> /\ missed' \in {"nothing", "retry", "failure"}
  BY DEF Fit, RowsFit, CallsFit, RetryComesDue, BecomeDue, NoRow
<1>2. ASSUME NEW k \in Job, Running(k)' PROVE row'[k] = row[k]
  BY <1>1, <1>2 DEF SetRow, Running, Pending
<1> QED BY <1>1, <1>2, RowStays, OwnersKept DEF Fit, CallsFit

LEMMA RunsFitOn ==
  ASSUME Fit, NEW r \in Run,
         Runs(r) \/ RunsGoOn(RunDie(r)) \/ \E j \in Job : RunsGoOn(TakeBack(r, j))
  PROVE  Fit' /\ r \in ActiveRuns /\ created' = created /\ wanted' = (wanted \/ Triggers)
         /\ UNCHANGED <<call, missed>>
<1>1. RunStep(r) \/ RunDie(r) \/ \E j \in Job : TakeBack(r, j)
  BY DEF Runs, RunsGoOn
<1>2. UNCHANGED <<call, missed>> /\ wanted' = (wanted \/ Triggers)
  BY DEF Runs, RunsGoOn
<1>3. RowsFit' /\ RunsFit' /\ r \in ActiveRuns /\ created' = created
  BY <1>1, RunStepFits DEF Fit
<1>4. wanted' \in BOOLEAN
  BY <1>2
<1> QED BY <1>2, <1>3, <1>4 DEF Fit, CallsFit

LEMMA InitFits == Init => Fit
<1>1. SUFFICES ASSUME Init PROVE Fit
  OBVIOUS
<1>2. RowsFit
  BY <1>1 DEF Init, RunInit, RowsFit, RowRecord, NoRow, NoRun, Running, Once, Lists
<1>3. RunsFit
  BY <1>1, RunAssumption DEF Init, RunInit, RunsFit, RunRecord, NoRow, Running, Trigger
<1>4. CallsFit
  BY <1>1 DEF Init, CallsFit, CallRecord, Idle, Trigger
<1> QED BY <1>2, <1>3, <1>4 DEF Fit

LEMMA NextFits == Fit /\ [Next]_vars => Fit'
<1>1. SUFFICES ASSUME Fit, [Next]_vars PROVE Fit'
  OBVIOUS
<1>2. CASE UNCHANGED vars
  BY <1>1, <1>2, RowSame, OwnersKept DEF vars, Fit, CallsFit
<1>3. CASE Next
  BY <1>1, <1>3, AskFits, CallFits, RepairFits, RetryFits, RunsFitOn DEF Next
<1> QED BY <1>1, <1>2, <1>3

LEMMA Fits == Spec => []Fit
BY InitFits, NextFits, PTL DEF Spec

\* Types: the order lists exactly the active rows, rows that run name a run, and
\* runs and calls are well formed.
THEOREM TypesCorrect == Spec => []TypeOK
<1>1. Fit => TypeOK
  <2>1. SUFFICES ASSUME Fit PROVE TypeOK
    OBVIOUS
  <2>2. DOMAIN fifo = 1 .. Len(fifo)
    BY <2>1 DEF Fit, RowsFit
  <2>3. RunTypeOK
    BY <2>1, <2>2 DEF Fit, RowsFit, RunsFit, RunTypeOK, RowRecord, RunRecord, Lists
  <2> QED BY <2>1, <2>3 DEF Fit, CallsFit, CallRecord, TypeOK
<1> QED BY <1>1, Fits, PTL

----------------------------------------------------------------------------
(* Sync rows are looked after *)

DueSync == \E j \in Job : TypeOf[j] = "sync" /\ Due(j)

\* A call that will ask for a run unless a run is active by then.
Promises(c) ==
  /\ call[c].type = "sync"
  /\ \/ call[c].pc = "count" /\ call[c].seen = {}
     \/ call[c].pc = "send" /\ \E u \in call[c].users : DueRows(u, "sync") # {}

LookedAfter ==
  \/ ActiveRuns # {} \/ wanted \/ \E c \in Call : Promises(c)
  \/ \E j \in Job : Orphaned(j)
  \/ missed # "nothing"

LookInv == DueSync => LookedAfter

\* Without runs and orphans no user's row runs.
LEMMA NobodyBlocked ==
  ASSUME Fit, ActiveRuns = {}, \A j \in Job : ~ Orphaned(j), NEW u \in User, NEW t
  PROVE  ~ Blocked(u, t)
<1>1. SUFFICES ASSUME NEW j \in Job, Running(j) PROVE FALSE
  BY DEF Blocked
<1>2. row[j].run \in Run /\ Exists(row[j].run)
  BY <1>1 DEF Fit, RunsFit
<1> QED BY <1>1, <1>2 DEF Orphaned, ActiveRuns

\* The oldest of the rows in question.
LEMMA OldestExists ==
  ASSUME RowsFit, NEW S \in SUBSET Job, S # {}, \A j \in S : row[j] # NoRow
  PROVE  \E j \in S : \A k \in S : Position(j) \in Nat /\ Position(k) \in Nat /\ ~ (Position(k) < Position(j))
<1> DEFINE P == {Position(j) : j \in S}
           R == OpToRel(<, Nat)
<1>1. \A j \in S : Position(j) \in Nat
  <2>1. ASSUME NEW j \in S PROVE Position(j) \in Nat
    <3>1. Position(j) \in 1 .. Len(fifo) /\ Len(fifo) \in Nat
      BY Place, LenProperties DEF RowsFit
    <3> QED BY <3>1
  <2> QED BY <2>1
<1>2. P \subseteq Nat /\ P # {}
  BY <1>1
<1>3. \E x \in P : \A y \in P : ~ (<<y, x>> \in R)
  <2> HIDE DEF P, R
  <2>1. IsWellFoundedOn(R, Nat)
    BY NatLessThanWellFounded DEF R
  <2> QED BY <1>2, <2>1, WFMin
<1>4. PICK x \in P : \A y \in P : ~ (<<y, x>> \in R)
  BY <1>3
<1>5. PICK j \in S : x = Position(j)
  OBVIOUS
<1>6. \A k \in S : ~ (Position(k) < Position(j))
  BY <1>1, <1>4, <1>5 DEF OpToRel
<1> QED BY <1>1, <1>6

\* A call that has seen no active run finds a user to ask a run for.
LEMMA ChoiceExists ==
  ASSUME Fit, NEW c \in Call, call[c].type = "sync", call[c].seen = {}, DueSync,
         \A u \in User : ~ Blocked(u, "sync")
  PROVE  \E u \in Chosen(c) : DueRows(u, "sync") # {}
<1> DEFINE S == {j \in Job : TypeOf[j] = "sync" /\ Due(j)}
           C == Candidates("sync")
<1>1. ASSUME NEW j \in S PROVE UserOf[j] \in C /\ j \in DueRows(UserOf[j], "sync")
  BY RunAssumption DEF Candidates, DueRows
<1>2. \A u \in C : u \in User /\ DueRows(u, "sync") # {} /\ DueRows(u, "sync") \subseteq S
  BY DEF Candidates, DueRows
<1>3. Chosen(c) \subseteq C
  BY DEF Chosen, FirstOf
<1>4. Slots(c) = Capacity /\ Capacity \in Nat /\ Capacity >= 1
  <2>1. Cardinality({}) = 0 /\ Capacity \in Nat \ {0}
    BY FS_EmptySet, DispatchAssumption
  <2>2. Cardinality(call[c].seen) = 0
    BY <2>1
  <2>3. Slots(c) = IF 0 >= Capacity THEN 0 ELSE Capacity - 0
    BY <2>2 DEF Slots
  <2> QED BY <2>1, <2>3
<1>5. PICK j \in S : \A k \in S : Position(j) \in Nat /\ Position(k) \in Nat /\ ~ (Position(k) < Position(j))
  <2>1. S \in SUBSET Job /\ S # {} /\ \A k \in S : row[k] # NoRow
    BY DEF DueSync, Due, NoRow
  <2> HIDE DEF S
  <2> QED BY <2>1, OldestExists DEF Fit
<1> DEFINE u == UserOf[j]
<1>6. u \in C /\ j \in DueRows(u, "sync")
  BY <1>1
<1>7. ASSUME NEW v \in C, Ahead(v, u, "sync") PROVE FALSE
  <2>1. PICK i \in DueRows(v, "sync") : \A k \in DueRows(u, "sync") : Position(i) < Position(k)
    BY <1>7 DEF Ahead
  <2>2. Position(i) < Position(j) /\ i \in S
    BY <1>2, <1>6, <2>1
  <2> QED BY <1>5, <2>2
<1>8. ASSUME NEW n \in Nat, n >= 1 PROVE u \in FirstOf(n, "sync")
  <2>1. {v \in C : Ahead(v, u, "sync")} = {}
    BY <1>7
  <2>2. Cardinality({v \in C : Ahead(v, u, "sync")}) = 0
    BY <2>1, FS_EmptySet
  <2> HIDE DEF u
  <2> QED BY <1>6, <1>8, <2>2 DEF FirstOf
<1>9. Chosen(c) # {}
  <2>1. CASE call[c].user \in C
    BY <1>4, <2>1 DEF Chosen
  <2>2. CASE call[c].user \in User \ C
    <3>1. Chosen(c) = FirstOf(1, "sync")
      BY <1>4, <2>2 DEF Chosen
    <3>2. u \in FirstOf(1, "sync")
      BY <1>8
    <3> QED BY <3>1, <3>2
  <2>3. CASE call[c].user \notin C /\ call[c].user \notin User \ C
    <3>1. Chosen(c) = FirstOf(Slots(c), "sync")
      BY <1>4, <2>3 DEF Chosen
    <3>2. u \in FirstOf(Slots(c), "sync")
      BY <1>4, <1>8
    <3> QED BY <3>1, <3>2
  <2> QED BY <2>1, <2>2, <2>3
<1> QED BY <1>2, <1>3, <1>9

\* A call and rows change, nothing else gets worse.
LEMMA LookKept ==
  ASSUME Fit, LookInv, NEW c \in Call, UNCHANGED <<run, created, missed>>,
         wanted => wanted', DueSync' => DueSync,
         \A k \in Job : Running(k) \/ Due(k) => row'[k] = row[k],
         \A d \in Call \ {c} : call'[d] = call[d], Promises(c) => Promises(c)'
  PROVE  LookInv'
<1>1. SUFFICES ASSUME DueSync' PROVE LookedAfter'
  BY DEF LookInv
<1>2. LookedAfter
  BY <1>1 DEF LookInv
<1>3. CASE ActiveRuns # {} \/ wanted \/ missed # "nothing"
  BY <1>3 DEF LookedAfter, ActiveRuns, Exists, Completed
<1>4. ASSUME NEW j \in Job, Orphaned(j) PROVE LookedAfter'
  <2>1. Orphaned(j)'
    BY <1>4 DEF Orphaned, Running, Completed
  <2> QED BY <2>1 DEF LookedAfter
<1>5. ASSUME NEW d \in Call, Promises(d) PROVE LookedAfter'
  <2>1. CASE d = c
    BY <1>5, <2>1 DEF LookedAfter
  <2>2. CASE d # c
    <3>1. \A u \in User : DueRows(u, "sync") # {} => DueRows(u, "sync")' # {}
      BY DEF DueRows, Due
    <3>2. call'[d] = call[d] /\ call[d] \in CallRecord
      BY <2>2, UnreadFits DEF Fit
    <3>3. Promises(d)'
      BY <1>5, <3>1, <3>2 DEF Promises, CallRecord
    <3> QED BY <3>3 DEF LookedAfter
  <2> QED BY <2>1, <2>2
<1> QED BY <1>2, <1>3, <1>4, <1>5 DEF LookedAfter

\* A call is asked for sync runs.
LEMMA AskedPromises ==
  ASSUME Fit, NEW c \in Call, NEW u \in User \cup {NoUser}, SetCall(c, Asked("sync", u))
  PROVE  LookInv'
<1>1. call'[c] = Asked("sync", u)
  BY DEF SetCall, Fit, CallsFit
<1>2. Promises(c)'
  BY <1>1, AskedFits DEF Promises, Trigger
<1> QED BY <1>2 DEF LookInv, LookedAfter

\* A call is asked for autolearn runs, and an autolearn row may join.
LEMMA AskedForOthers ==
  ASSUME Fit, LookInv, NEW c \in Call, NEW x, SetCall(c, x), Ready(c), wanted' = wanted,
         UNCHANGED <<run, created, missed>>,
         \/ UNCHANGED row
         \/ \E j \in Job : row[j] = NoRow /\ TypeOf[j] # "sync" /\ SetRow(j, Pending)
  PROVE  LookInv'
<1>1. row \in [Job -> RowRecord] /\ call \in [Call -> CallRecord]
  BY DEF Fit, RowsFit, CallsFit
<1>2. DueSync' => DueSync
  BY <1>1 DEF DueSync, Due, SetRow
<1>3. \A k \in Job : Running(k) \/ Due(k) => row'[k] = row[k]
  BY <1>1 DEF Running, Due, NoRow, SetRow
<1>4. \A d \in Call \ {c} : call'[d] = call[d]
  BY <1>1 DEF SetCall
<1>5. ~ Promises(c)
  BY DEF Ready, Promises
<1> QED BY <1>2, <1>3, <1>4, <1>5, LookKept

LEMMA AskLooks ==
  ASSUME Fit, LookInv, NEW c \in Call, Asks(c)
  PROVE  LookInv'
<1>1. ASSUME NEW j \in Job, Request(c, j) PROVE LookInv'
  <2>1. UserOf[j] \in User \cup {NoUser}
    BY RunAssumption
  <2>2. CASE TypeOf[j] = "sync"
    BY <1>1, <2>1, <2>2, AskedPromises DEF Request
  <2>3. CASE TypeOf[j] # "sync"
    BY <1>1, <2>3, AskedForOthers DEF Request
  <2> QED BY <2>2, <2>3
<1>2. ASSUME NEW t \in Trigger, Schedule(c, t) PROVE LookInv'
  <2>1. CASE t = "sync"
    BY <1>2, <2>1, AskedPromises DEF Schedule
  <2>2. CASE t # "sync"
    <3>1. \A j \in Missing(t) : j \in Job /\ row[j] = NoRow /\ TypeOf[j] # "sync"
      BY <2>2 DEF Missing
    <3> QED BY <1>2, <3>1, AskedForOthers DEF Schedule
  <2> QED BY <2>1, <2>2
<1>3. CASE Handoff(c)
  BY <1>3, AskedPromises DEF Handoff
<1>4. ASSUME NEW r \in Run, RunHandoff(c, r) PROVE LookInv'
  BY <1>4, AskedForOthers DEF RunHandoff
<1> QED BY <1>1, <1>2, <1>3, <1>4 DEF Asks

LEMMA CallLooks ==
  ASSUME Fit, LookInv, NEW c \in Call, CallStep(c) \/ CountFails(c)
  PROVE  LookInv'
<1>0. call \in [Call -> CallRecord]
  BY DEF Fit, CallsFit
<1>1. ASSUME NEW x, SetCall(c, x), UNCHANGED <<row, run, created, wanted, missed>>,
             Promises(c) => ActiveRuns # {} \/ ~ DueSync \/ (\E j \in Job : Orphaned(j)) \/ Promises(c)'
      PROVE  LookInv'
  <2>1. CASE Promises(c) => Promises(c)'
    <3>1. \A d \in Call \ {c} : call'[d] = call[d]
      BY <1>0, <1>1 DEF SetCall
    <3>2. DueSync' => DueSync
      BY <1>1 DEF DueSync, Due
    <3> QED BY <1>1, <2>1, <3>1, <3>2, LookKept
  <2>2. CASE ActiveRuns # {} \/ ~ DueSync \/ (\E j \in Job : Orphaned(j))
    BY <1>1, <2>2 DEF LookInv, LookedAfter, DueSync, Due, ActiveRuns, Exists, Completed, Orphaned, Running
  <2> QED BY <1>1, <2>1, <2>2
<1>2. ASSUME NEW status \in {"queued", "in_progress"}, CountRuns(c, status) PROVE LookInv'
  <2> DEFINE x == [call[c] EXCEPT
                     !.unread = @ \ {status},
                     !.seen = @ \cup {r \in ActiveRuns : InList(r, status)}]
  <2>1. SetCall(c, x) /\ UNCHANGED <<row, run, created, wanted, missed>> /\ call[c].pc = "count"
    BY <1>2 DEF CountRuns
  <2>2. ASSUME Promises(c), ActiveRuns = {} PROVE Promises(c)'
    <3>1. call'[c] = x
      BY <1>0, <2>1 DEF SetCall
    <3>2. {r \in ActiveRuns : InList(r, status)} = {}
      BY <2>2
    <3> HIDE DEF x
    <3>3. x.type = "sync" /\ x.pc = "count" /\ x.seen = {}
      BY <1>0, <2>1, <2>2, <3>2 DEF x, Promises, CallRecord
    <3> QED BY <3>1, <3>3 DEF Promises
  <2> HIDE DEF x
  <2> QED BY <1>1, <2>1, <2>2
<1>3. CASE CountFails(c)
  BY <1>3 DEF CountFails, LookInv, LookedAfter
<1>4. CASE Select(c)
  <2>1. /\ SetCall(c, IF Chosen(c) = {} THEN Idle
                      ELSE [call[c] EXCEPT !.pc = "send", !.users = Chosen(c), !.seen = {}])
        /\ UNCHANGED <<row, run, created, wanted, missed>> /\ call[c].pc = "count"
    BY <1>4 DEF Select
  <2>2. ASSUME Promises(c), ActiveRuns = {}, DueSync, \A j \in Job : ~ Orphaned(j) PROVE Promises(c)'
    <3>1. \A u \in User : ~ Blocked(u, "sync")
      BY <2>2, NobodyBlocked
    <3>2. call[c].type = "sync" /\ call[c].seen = {}
      BY <2>1, <2>2 DEF Promises
    <3>3. PICK u \in Chosen(c) : DueRows(u, "sync") # {}
      BY <2>2, <3>1, <3>2, ChoiceExists
    <3>4. call'[c] = [call[c] EXCEPT !.pc = "send", !.users = Chosen(c), !.seen = {}]
      BY <1>0, <2>1, <3>3 DEF SetCall
    <3>5. call'[c].type = "sync" /\ call'[c].pc = "send" /\ u \in call'[c].users
      BY <1>0, <3>2, <3>4 DEF CallRecord
    <3>6. DueRows(u, "sync")' = DueRows(u, "sync")
      BY <2>1 DEF DueRows, Due
    <3> QED BY <3>3, <3>5, <3>6 DEF Promises
  <2> QED BY <1>1, <2>1, <2>2
<1>5. ASSUME NEW u \in User, Send(c, u) PROVE LookInv'
  <2>1. call[c].type \in Trigger
    BY <1>0 DEF CallRecord
  <2>2. (created \in ActiveRuns)'
    BY <1>5, <2>1, CreateFits DEF Send, Fit
  <2> QED BY <2>2 DEF LookInv, LookedAfter
<1>6. ASSUME NEW u \in User, SendNothing(c, u) PROVE LookInv'
  <2>1. /\ SetCall(c, AfterSend(c, u)) /\ UNCHANGED <<row, run, created, wanted, missed>>
        /\ call[c].pc = "send" /\ DueRows(u, call[c].type) = {}
    BY <1>6 DEF SendNothing
  <2>2. ASSUME Promises(c) PROVE Promises(c)'
    <3>1. PICK v \in call[c].users : DueRows(v, "sync") # {}
      BY <2>1, <2>2 DEF Promises
    <3>2. v # u /\ call[c].type = "sync"
      BY <2>1, <2>2, <3>1 DEF Promises
    <3>3. call'[c] = [call[c] EXCEPT !.users = @ \ {u}]
      BY <1>0, <2>1, <3>2 DEF SetCall, AfterSend
    <3>4. call'[c].type = "sync" /\ call'[c].pc = "send" /\ v \in call'[c].users
      BY <1>0, <2>1, <3>2, <3>3 DEF CallRecord
    <3>5. DueRows(v, "sync")' = DueRows(v, "sync")
      BY <2>1 DEF DueRows, Due
    <3> QED BY <3>1, <3>4, <3>5 DEF Promises
  <2> QED BY <1>1, <2>1, <2>2
<1>7. ASSUME NEW u \in User, SendFails(c, u) PROVE LookInv'
  BY <1>7 DEF SendFails, LookInv, LookedAfter
<1> QED BY <1>2, <1>3, <1>4, <1>5, <1>6, <1>7 DEF CallStep

\* A run that ends triggers the handoff.
LEMMA RunLooks ==
  ASSUME Fit, NEW r \in Run,
         Runs(r) \/ RunsGoOn(RunDie(r)) \/ \E j \in Job : RunsGoOn(TakeBack(r, j))
  PROVE  LookInv'
<1>1. r \in ActiveRuns /\ created' = created /\ wanted' = (wanted \/ Triggers)
  BY RunsFitOn
<1>2. CASE run'[r].status = "completed"
  BY <1>1, <1>2 DEF ActiveRuns, Triggers, LookInv, LookedAfter
<1>3. CASE run'[r].status # "completed"
  <2>1. (r \in ActiveRuns)'
    BY <1>1, <1>3 DEF ActiveRuns, Exists, Completed
  <2> QED BY <2>1 DEF LookInv, LookedAfter
<1> QED BY <1>2, <1>3

LEMMA RepairLooks ==
  ASSUME Fit, NEW j \in Job, NEW retry \in BOOLEAN, RepairOrphan(j, retry)
  PROVE  LookInv'
<1>1. UNCHANGED <<run, created>> /\ RepairRow(j, retry) /\ row \in [Job -> RowRecord]
  BY DEF RepairOrphan, Fit, RowsFit
<1>2. CASE wanted' = TRUE
  BY <1>2 DEF LookInv, LookedAfter
<1>3. ASSUME NEW r \in ActiveRuns PROVE LookInv'
  BY <1>1, <1>3 DEF LookInv, LookedAfter, ActiveRuns, Exists, Completed
<1>4. ASSUME NEW k \in Job \ {j}, Running(k) PROVE LookInv'
  <2>1. row[k].run \in Run /\ Exists(row[k].run)
    BY <1>4 DEF Fit, RunsFit
  <2>2. CASE Orphaned(k)
    <3>1. row'[k] = row[k]
      BY <1>1, <1>4 DEF RepairRow, EndRow, SetRow
    <3>2. Orphaned(k)'
      BY <1>1, <2>2, <3>1 DEF Orphaned, Running, Completed
    <3> QED BY <3>2 DEF LookInv, LookedAfter
  <2>3. CASE ~ Orphaned(k)
    BY <1>3, <1>4, <2>1, <2>3 DEF Orphaned, ActiveRuns
  <2> QED BY <2>2, <2>3
<1>5. ASSUME NEW r \in Listed PROVE LookInv'
  BY <1>3, <1>5 DEF Listed
<1> QED BY <1>2, <1>4, <1>5 DEF RepairOrphan

LEMMA InitLooks == Init => LookInv
BY DEF Init, RunInit, LookInv, DueSync, Due, NoRow

LEMMA NextLooks == Fit /\ LookInv /\ [Next]_vars => LookInv'
<1>1. SUFFICES ASSUME Fit, LookInv, [Next]_vars PROVE LookInv'
  OBVIOUS
<1>2. CASE UNCHANGED vars
  BY <1>1, <1>2 DEF vars, LookInv, LookedAfter, DueSync, Due, Promises, DueRows, ActiveRuns, Exists,
                    Completed, Orphaned, Running
<1>3. ASSUME NEW j \in Job, RetryComesDue(j) PROVE LookInv'
  BY <1>3 DEF RetryComesDue, LookInv, LookedAfter
<1>4. CASE Next
  BY <1>1, <1>3, <1>4, AskLooks, CallLooks, RepairLooks, RunLooks DEF Next
<1> QED BY <1>1, <1>2, <1>4

\* A due sync row is never forgotten between two schedules: the handoff that a
\* run's end triggers, and the promise of a call that has seen no active run,
\* close the gap that dispatchWorkerRun's count and choice leave open.
THEOREM DueSyncRowsLookedAfter == Spec => []SyncRowsLookedAfter
<1>1. LookInv => SyncRowsLookedAfter
  BY DEF LookInv, LookedAfter, DueSync, Promises, SyncRowsLookedAfter
<1> QED BY <1>1, Fits, InitLooks, NextFits, NextLooks, PTL DEF Spec

----------------------------------------------------------------------------
(* The reconcile check *)

RecRecord == [phase : Phase, pc : {"rows", "runs", "repair"},
              rows : SUBSET (Job \X Run), orphans : SUBSET (Job \X Run)]

CheckFit == RowsFit /\ RunsFit /\ rec \in RecRecord

\* A row that the check remembers names a run that GitHub created ...
RowsReadExist == \A x \in rec.rows : Exists(x[2])

\* ... and the runs that the repair goes by are over or off the page.
OrphansUnlisted == \A x \in rec.orphans : Exists(x[2]) /\ Unlisted(x[2])

CheckInv == CheckFit /\ RowsReadExist /\ OrphansUnlisted

\* What the rows and runs may do while the check waits: numbers are only
\* added, and a completed run is never started again.
RunsOnlyEnd ==
  /\ created' >= created
  /\ \A r \in Run : Exists(r) /\ Completed(r) => Completed(r)'

\* A run that acts is not over, and no other changes.
LEMMA OneRunActs ==
  ASSUME RowsFit, RunsFit, NEW r \in Run, RunStep(r) \/ RunDie(r) \/ \E j \in Job : TakeBack(r, j)
  PROVE  RunsOnlyEnd
<1>1. r \in ActiveRuns /\ created' = created /\ created \in Nat
  BY RunStepFits DEF RunsFit
<1>2. \A q \in Run \ {r} : run'[q] = run[q]
  <2>1. (\E c : SetRun(r, c)) \/ UNCHANGED run
    BY DEF RunStep, RunStart, RunClaim, RunLeave, RunSucceed, RunFail, RunDisowned, RunExit, RunDie, TakeBack
  <2> QED BY <2>1 DEF SetRun, RunsFit
<1> QED BY <1>1, <1>2 DEF RunsOnlyEnd, ActiveRuns, Completed

\* What happens beside the check keeps rows and runs well formed.
LEMMA WorkFits ==
  ASSUME RowsFit, RunsFit, WorkGoesOn
  PROVE  RowsFit' /\ RunsFit' /\ RunsOnlyEnd
<1>0. row \in [Job -> RowRecord] /\ created \in 0 .. MaxRuns
  BY DEF RowsFit, RunsFit
<1>1. ASSUME NEW j \in Job, BecomeDue(j) \/ Enqueue(j) PROVE RowsFit' /\ RunsFit' /\ RunsOnlyEnd
  <2>1. SetRow(j, Pending) /\ UNCHANGED <<run, created>>
    BY <1>1 DEF BecomeDue, Enqueue
  <2>2. ASSUME NEW k \in Job, Running(k)' PROVE row'[k] = row[k]
    BY <1>0, <2>1, <2>2 DEF SetRow, Running, Pending
  <2>3. RunsFit' /\ RunsOnlyEnd
    BY <1>0, <2>1, <2>2, OwnersKept DEF RunsOnlyEnd, Completed
  <2>4. CASE BecomeDue(j)
    BY <2>1, <2>3, <2>4, RowStays DEF BecomeDue, NoRow
  <2>5. CASE Enqueue(j)
    BY <2>1, <2>3, <2>5, RowJoins DEF Enqueue
  <2> QED BY <1>1, <2>4, <2>5
<1>2. ASSUME NEW t \in Trigger, NEW u \in User, CreateRun(t, u)
      PROVE  RowsFit' /\ RunsFit' /\ RunsOnlyEnd
  <2>1. created + 1 \in Run /\ created' = created + 1 /\ ~ Exists(created + 1)
    BY <1>0, <1>2, RunAssumption DEF CreateRun, Run, Exists
  <2>2. \A r \in Run : Exists(r) => run'[r] = run[r]
    BY <1>2, <2>1 DEF CreateRun, SetRun, RunsFit
  <2>3. RunsOnlyEnd
    BY <1>0, <2>1, <2>2 DEF RunsOnlyEnd, Completed
  <2> QED BY <1>2, <2>3, CreateFits
<1>3. ASSUME NEW r \in Run, RunStep(r) \/ RunDie(r) \/ \E j \in Job : TakeBack(r, j)
      PROVE  RowsFit' /\ RunsFit' /\ RunsOnlyEnd
  BY <1>3, RunStepFits, OneRunActs
<1> QED BY <1>1, <1>2, <1>3 DEF WorkGoesOn, RunNext

\* A repair changes a row that is still as it was read, and nothing else.
LEMMA RepairChanges ==
  ASSUME CheckFit, NEW x \in rec.orphans, NEW retry \in BOOLEAN, Repair(x, retry)
  PROVE  /\ RowsFit' /\ RunsFit' /\ x \in Job \X Run
         /\ \/ UNCHANGED <<row, fifo>>
            \/ Owns(x[2], x[1]) /\ RepairRow(x[1], retry)
<1>1. x \in Job \X Run
  BY DEF CheckFit, RecRecord
<1>2. x[1] \in Job /\ x[2] \in Run
  BY <1>1
<1>3. UNCHANGED <<run, created>>
  BY DEF Repair
<1>4. CASE Owns(x[2], x[1])
  <2>1. Running(x[1])
    BY <1>4 DEF Owns, Running
  <2>2. RepairRow(x[1], retry)
    BY <1>4 DEF Repair
  <2>3. RowsFit' /\ RunsFit'
    BY <1>2, <1>3, <2>1, <2>2, RepairRowFits DEF CheckFit
  <2> QED BY <1>1, <1>4, <2>2, <2>3
<1>5. CASE ~ Owns(x[2], x[1])
  <2>1. UNCHANGED <<row, fifo>>
    BY <1>5 DEF Repair
  <2>2. RowsFit'
    BY <2>1, RowSame DEF CheckFit
  <2>3. RunsFit'
    BY <1>3, <2>1, OwnersKept DEF CheckFit
  <2> QED BY <1>1, <2>1, <2>2, <2>3
<1> QED BY <1>4, <1>5

\* What the check remembers afterwards.
LEMMA CheckMoves ==
  ASSUME CheckFit, ReadRows \/ ReadRuns \/ ReadFails \/ RepairStep
  PROVE  /\ rec' \in RecRecord
         /\ rec'.rows \subseteq rec.rows \union RunningRows
         /\ rec'.orphans \subseteq rec.orphans \union Orphans
<1>1. \A p \in Phase : Begin(p) \in RecRecord /\ Begin(p).rows = {} /\ Begin(p).orphans = {}
  BY DEF Begin, RecRecord
<1>2. rec \in RecRecord
  BY DEF CheckFit
<1>3. CASE ReadRows
  <2>1. RunningRows \in SUBSET (Job \X Run)
    BY DEF RunningRows, CheckFit, RunsFit
  <2> QED BY <1>2, <1>3, <2>1 DEF ReadRows, RecRecord
<1>4. CASE ReadRuns \/ ReadFails
  <2>1. Orphans \in SUBSET (Job \X Run)
    BY <1>2 DEF Orphans, RecRecord
  <2>2. /\ [rec EXCEPT !.pc = "repair", !.rows = {}, !.orphans = Orphans] \in RecRecord
        /\ [rec EXCEPT !.pc = "repair", !.rows = {}, !.orphans = Orphans].rows = {}
        /\ [rec EXCEPT !.pc = "repair", !.rows = {}, !.orphans = Orphans].orphans = Orphans
    BY <1>2, <2>1 DEF RecRecord
  <2>3. \/ \E p \in Phase : rec' = Begin(p)
        \/ rec' = [rec EXCEPT !.pc = "repair", !.rows = {}, !.orphans = Orphans]
    BY <1>4 DEF ReadRuns, ReadFails, Phase
  <2> QED BY <1>1, <2>2, <2>3
<1>5. CASE RepairStep
  <2>1. PICK x \in rec.orphans, retry \in BOOLEAN : Repair(x, retry)
    BY <1>5 DEF RepairStep
  <2>2. rec' = Begin("verify") \/ rec' = [rec EXCEPT !.orphans = @ \ {x}]
    BY <2>1 DEF Repair, AfterRepair
  <2>3. [rec EXCEPT !.orphans = @ \ {x}] \in RecRecord
        /\ [rec EXCEPT !.orphans = @ \ {x}].rows = rec.rows
        /\ [rec EXCEPT !.orphans = @ \ {x}].orphans \subseteq rec.orphans
    BY <1>2 DEF RecRecord
  <2> QED BY <1>1, <2>2, <2>3 DEF Phase
<1> QED BY <1>3, <1>4, <1>5

LEMMA CheckInitFits == CheckInit => CheckInv
<1>1. SUFFICES ASSUME CheckInit PROVE CheckInv
  OBVIOUS
<1>2. RowsFit
  BY <1>1 DEF CheckInit, RunInit, RowsFit, RowRecord, NoRow, NoRun, Running, Once, Lists
<1>3. RunsFit
  BY <1>1, RunAssumption DEF CheckInit, RunInit, RunsFit, RunRecord, NoRow, Running, Trigger
<1>4. rec \in RecRecord /\ rec.rows = {} /\ rec.orphans = {}
  BY <1>1 DEF CheckInit, Begin, RecRecord, Phase
<1> QED BY <1>2, <1>3, <1>4 DEF CheckInv, CheckFit, RowsReadExist, OrphansUnlisted

LEMMA CheckNextFits == CheckFit /\ [CheckNext]_checkVars => CheckFit'
<1>1. SUFFICES ASSUME CheckFit, [CheckNext]_checkVars PROVE CheckFit'
  OBVIOUS
<1>2. CASE WorkGoesOn
  BY <1>1, <1>2, WorkFits DEF CheckFit, WorkGoesOn
<1>3. CASE ReadRows \/ ReadRuns \/ ReadFails
  <2>1. UNCHANGED <<row, fifo, run, created>>
    BY <1>3 DEF ReadRows, ReadRuns, ReadFails, runVars
  <2> QED BY <1>1, <1>3, <2>1, CheckMoves, RowSame, OwnersKept DEF CheckFit
<1>4. CASE RepairStep
  BY <1>1, <1>4, CheckMoves, RepairChanges DEF RepairStep, CheckFit
<1>5. CASE UNCHANGED checkVars
  BY <1>1, <1>5, RowSame, OwnersKept DEF checkVars, CheckFit
<1> QED BY <1>1, <1>2, <1>3, <1>4, <1>5 DEF CheckNext

\* Types of the check's model, whatever the size of the page.
THEOREM CheckTypesCorrect == CheckSpec => []CheckTypeOK
<1>1. CheckInit => CheckFit
  BY CheckInitFits DEF CheckInv
<1>2. CheckFit => CheckTypeOK
  <2>1. SUFFICES ASSUME CheckFit PROVE CheckTypeOK
    OBVIOUS
  <2>2. DOMAIN fifo = 1 .. Len(fifo)
    BY <2>1 DEF CheckFit, RowsFit
  <2>3. RunTypeOK
    BY <2>1, <2>2 DEF CheckFit, RowsFit, RunsFit, RunTypeOK, RowRecord, RunRecord, Lists
  <2> QED BY <2>1, <2>3 DEF CheckFit, RecRecord, CheckTypeOK
<1> QED BY <1>1, <1>2, CheckNextFits, PTL DEF CheckSpec

\* A page misses the active runs that newer ones have pushed off it and no
\* others, so a row that was read before and is not listed belongs to a run that
\* is over or off the page.
LEMMA OrphansUnlistedWhenFound ==
  ASSUME CheckInv, NEW x \in Orphans
  PROVE  Exists(x[2]) /\ Unlisted(x[2])
<1>1. x \in Job \X Run /\ Exists(x[2]) /\ x[2] \notin Listed
  BY DEF Orphans, CheckInv, CheckFit, RecRecord, RowsReadExist
<1> QED BY <1>1 DEF Listed, ActiveRuns, Unlisted

\* A run that is over stays so, and one that has left the page never returns.
LEMMA UnlistedForGood ==
  ASSUME RunsFit, RunsFit', RunsOnlyEnd, NEW r \in Run, Exists(r), Unlisted(r)
  PROVE  Unlisted(r)'
<1>1. created \in Nat /\ created' \in Nat /\ created' >= created /\ r \in Nat /\ Page \in Nat
  BY RunAssumption DEF RunsFit, RunsOnlyEnd, Run
<1>2. OffPage(r) => OffPage(r)'
  BY <1>1 DEF OffPage
<1> QED BY <1>2 DEF Unlisted, RunsOnlyEnd

\* What the check remembers stays true while rows and runs move on.
LEMMA CheckInvStep ==
  ASSUME CheckInv, [CheckNext]_checkVars
  PROVE  CheckInv'
<1>1. CheckFit'
  BY CheckNextFits DEF CheckInv
<1>2. RunsOnlyEnd
  <2>1. CASE WorkGoesOn
    BY <2>1, WorkFits DEF CheckInv, CheckFit
  <2>2. CASE UNCHANGED <<run, created>>
    BY <2>2 DEF RunsOnlyEnd, Completed, CheckInv, CheckFit, RunsFit
  <2> QED BY <2>1, <2>2 DEF CheckNext, ReadRows, ReadRuns, ReadFails, RepairStep, Repair, runVars, checkVars
<1>3. \A r \in Run : Exists(r) => Exists(r)'
  BY <1>1, <1>2 DEF RunsOnlyEnd, Exists, Run, CheckInv, CheckFit, RunsFit
<1>4. /\ \A x \in rec'.rows : x \in Job \X Run /\ Exists(x[2])
      /\ \A x \in rec'.orphans : x \in Job \X Run /\ Exists(x[2]) /\ Unlisted(x[2])
  <2>1. CASE UNCHANGED rec
    BY <2>1 DEF CheckInv, CheckFit, RecRecord, RowsReadExist, OrphansUnlisted
  <2>2. CASE ReadRows \/ ReadRuns \/ ReadFails \/ RepairStep
    <3>1. \A x \in RunningRows : x \in Job \X Run /\ Exists(x[2])
      BY DEF RunningRows, CheckInv, CheckFit, RunsFit
    <3>2. \A x \in Orphans : x \in Job \X Run /\ Exists(x[2]) /\ Unlisted(x[2])
      BY OrphansUnlistedWhenFound DEF Orphans, CheckInv, CheckFit, RecRecord
    <3>3. /\ rec'.rows \subseteq rec.rows \union RunningRows
          /\ rec'.orphans \subseteq rec.orphans \union Orphans
      BY <2>2, CheckMoves DEF CheckInv
    <3> QED BY <3>1, <3>2, <3>3 DEF CheckInv, CheckFit, RecRecord, RowsReadExist, OrphansUnlisted
  <2> QED BY <2>1, <2>2 DEF CheckNext, WorkGoesOn, checkVars
<1>5. \A r \in Run : Exists(r) /\ Unlisted(r) => Unlisted(r)'
  BY <1>1, <1>2, UnlistedForGood DEF CheckInv, CheckFit
<1>6. (\A x \in rec.rows : Exists(x[2]))'
  BY <1>3, <1>4
<1>7. (\A x \in rec.orphans : Exists(x[2]) /\ Unlisted(x[2]))'
  BY <1>3, <1>4, <1>5
<1> QED BY <1>1, <1>6, <1>7 DEF CheckInv, RowsReadExist, OrphansUnlisted

\* The memory of the check is right for ever, whatever a page holds: rows name
\* created runs, and runs taken for lost are over or, hidden by a page of newer
\* runs, stay out of the check's sight.
THEOREM CheckIsRight == CheckSpec => []CheckInv
BY CheckInitFits, CheckInvStep, PTL DEF CheckSpec

\* What a step of the check does to the rows is the repair of an unlisted one.
LEMMA RepairsAreOfOrphans ==
  ASSUME CheckInv, CheckNext, rec' # rec, UNCHANGED <<row, fifo>> => FALSE
  PROVE  \E j \in Job, retry \in BOOLEAN :
           Running(j) /\ Unlisted(row[j].run) /\ RepairRow(j, retry) /\ UNCHANGED <<run, created>>
<1>1. PICK x \in rec.orphans, retry \in BOOLEAN : Repair(x, retry)
  BY DEF CheckNext, WorkGoesOn, ReadRows, ReadRuns, ReadFails, RepairStep, runVars
<1>2. x \in Job \X Run /\ Owns(x[2], x[1]) /\ RepairRow(x[1], retry) /\ UNCHANGED <<run, created>>
  BY <1>1, RepairChanges DEF CheckInv, Repair
<1>3. Running(x[1]) /\ Unlisted(row[x[1]].run)
  BY <1>2 DEF Owns, Running, CheckInv, OrphansUnlisted
<1> QED BY <1>2, <1>3

\* However late a repair comes after the reads, jobs-reconcile.ts takes no row
\* from an active run but one that has left the page it reads, for any size of
\* the page and any number of runs.
THEOREM RepairIsSafe == CheckSpec => RepairSparesLiveRuns
<1> DEFINE Safe == \A j \in Job : (Running(j) /\ row'[j] # row[j] /\ rec' # rec)
                                     => Unlisted(row[j].run)
<1>1. ASSUME CheckInv, CheckNext, NEW j \in Job, row'[j] # row[j], rec' # rec
      PROVE  Unlisted(row[j].run)
  <2>1. PICK k \in Job, retry \in BOOLEAN : Unlisted(row[k].run) /\ RepairRow(k, retry)
    BY <1>1, RepairsAreOfOrphans
  <2>2. PICK c : row' = [row EXCEPT ![k] = c]
    BY <2>1 DEF RepairRow, EndRow, SetRow
  <2>3. j = k
    BY <1>1, <2>2 DEF CheckInv, CheckFit, RowsFit
  <2> QED BY <2>1, <2>3
<1>2. CheckInv /\ [CheckNext]_checkVars => [Safe]_checkVars
  BY <1>1
<1> QED BY <1>2, CheckIsRight, PTL DEF CheckSpec, RepairSparesLiveRuns

\* The check changes rows only as Dispatch assumes: in spite of the time between
\* its reads and its writes, a repair is one step, taken from the row of a run
\* that is over or off the page by then.
THEOREM RepairsAsInDispatch ==
  CheckSpec =>
    [][rec' # rec => \/ UNCHANGED <<row, fifo, run, created>>
                     \/ \E j \in Job, retry \in BOOLEAN :
                          /\ Running(j) /\ Unlisted(row[j].run)
                          /\ RepairRow(j, retry) /\ UNCHANGED <<run, created>>]_checkVars
<1> DEFINE AsInDispatch ==
      rec' # rec => \/ UNCHANGED <<row, fifo, run, created>>
                    \/ \E j \in Job, retry \in BOOLEAN :
                         /\ Running(j) /\ Unlisted(row[j].run)
                         /\ RepairRow(j, retry) /\ UNCHANGED <<run, created>>
<1>1. CheckInv /\ CheckNext => AsInDispatch
  <2>1. SUFFICES ASSUME CheckInv, CheckNext, rec' # rec
                 PROVE  \/ UNCHANGED <<row, fifo, run, created>>
                        \/ \E j \in Job, retry \in BOOLEAN :
                             /\ Running(j) /\ Unlisted(row[j].run)
                             /\ RepairRow(j, retry) /\ UNCHANGED <<run, created>>
    OBVIOUS
  <2>2. UNCHANGED <<run, created>>
    BY <2>1 DEF CheckNext, WorkGoesOn, ReadRows, ReadRuns, ReadFails, RepairStep, Repair, runVars
  <2> QED BY <2>1, <2>2, RepairsAreOfOrphans
<1>2. CheckInv /\ [CheckNext]_checkVars => [AsInDispatch]_checkVars
  BY <1>1
<1> QED BY <1>2, CheckIsRight, PTL DEF CheckSpec
=============================================================================
