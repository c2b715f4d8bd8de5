------------------------------ MODULE Snapshot ------------------------------
(***************************************************************************)
(* One provider of one user: the portal, the snapshots that workers        *)
(* collect from it and persist, the marks the user makes meanwhile, the    *)
(* deadline alerts, and the checkpoint that lets a scheduled sync be       *)
(* skipped (apps/worker/src/sync-store.ts, sync-completion.ts, index.ts).  *)
(*                                                                         *)
(* The queue runs one SYNC or NOTICE_SCAN of a user at a time, but an      *)
(* AUTOLEARN job persists its own snapshot beside it: the workers here are *)
(* such jobs.  Nothing is in a transaction: a step is a request to the     *)
(* portal or a statement on the database, and the rows read at the start   *)
(* are used until the end.                                                 *)
(***************************************************************************)
EXTENDS Naturals, FiniteSets

CONSTANTS
  Worker,       \* the jobs that persist snapshots
  Forced,       \* those that do not look at the checkpoint first
  Course, Item, Task, Notice, \* Item: notifications and messages
  Key,          \* the keys parsers give to notices
  NoticeOf,     \* [Key -> Notice]: the fingerprint, which aliases share
  Sequenced,    \* the keys that carry the notice's sequence number
  CourseOf,     \* [Notice \union Task -> Course]
  Portals,      \* the portals explored: what each may ever show
  MaxFailures   \* bound: jobs that end in an error, a cancel or a crash

Thing == Course \union Item \union Task \union Notice

\* The mark that a deletion leaves.
Deleted(i) == <<"deleted", i>>

ASSUME SnapshotAssumption ==
  /\ \A x \in Thing : /\ x \in Course => x \notin Item \union Task \union Notice
                      /\ x \in Item => x \notin Task \union Notice
                      /\ x \in Task => x \notin Notice
  /\ \A i \in Item : Deleted(i) \notin Thing
  /\ IsFiniteSet(Key)
  /\ Forced \subseteq Worker /\ Sequenced \subseteq Key
  /\ NoticeOf \in [Key -> Notice] /\ CourseOf \in [Notice \union Task -> Course]
  /\ Portals \subseteq SUBSET (Course \union Item \union Task \union Key)
  /\ MaxFailures \in Nat

VARIABLES
  offered,    \* the portal of this behaviour
  portal,     \* what it shows now
  course,     \* CourseSnapshot rows: [Course -> {"none", "ACTIVE", "ENDED"}]
  notice,     \* CourseNotice rows: [Key -> Flag]
  item,       \* NotificationEvent and PortalMessage rows: [Item -> Flag]
  archived,   \* the items the user deleted
  task,       \* LearningTask rows: [Task -> {"none", "PENDING", "COMPLETED"}]
  alerted,    \* TaskDeadlineAlert rows
  mails,      \* [Task -> Nat]: mails sent about its deadline
  checkpoint, \* ProviderSyncState: what the snapshot it names contained
  fresh,      \* its age is below the interval
  job,        \* [Worker -> what the job holds]
  settled,    \* history: the marks made while no job was saving
  contested,  \* history: the notices whose rows two jobs merged at a time
  failures

vars == <<offered, portal, course, notice, item, archived, task, alerted,
          mails, checkpoint, fresh, job, settled, contested, failures>>

rows == <<course, notice, item, archived, task>>
outbox == <<alerted, mails>>
sync == <<checkpoint, fresh>>
world == <<offered, portal>>

Flag == {"none", "unread", "read"}
NoItems == [i \in Item |-> "none"]

Idle == [pc |-> "idle", todo |-> {}, courses |-> {}, keys |-> {}, done |-> {},
         items |-> NoItems, read |-> {}, had |-> NoItems, hadArchived |-> {},
         dup |-> {}, dupRead |-> {}, keep |-> {}, due |-> {}, mail |-> {}]

Init ==
  /\ offered \in Portals
  /\ portal = [courses |-> Course \cap offered, posted |-> {}, item |-> NoItems,
               done |-> {}, due |-> {}]
  /\ course = [c \in Course |-> "none"]
  /\ notice = [k \in Key |-> "none"]
  /\ item = NoItems /\ archived = {}
  /\ task = [t \in Task |-> "none"]
  /\ alerted = {} /\ mails = [t \in Task |-> 0]
  /\ checkpoint = [stored |-> {}, due |-> {}] /\ fresh = FALSE
  /\ job = [w \in Worker |-> Idle] /\ settled = {} /\ contested = {}
  /\ failures = 0

Tasks(C) == {t \in Task \cap offered : CourseOf[t] \in C}
Keys(n) == {k \in Key \cap offered : NoticeOf[k] = n}
At(w, pc) == job[w].pc = pc
Works(w, r) == job' = [job EXCEPT ![w] = r]

-----------------------------------------------------------------------------
(* The portal and the clock *)

PortalMoves ==
  /\ \/ \E c \in portal.courses : portal' = [portal EXCEPT !.courses = @ \ {c}]
     \/ \E n \in Notice : /\ Keys(n) # {}
                          /\ portal' = [portal EXCEPT !.posted = @ \union {n}]
     \/ \E i \in Item \cap offered, s \in {"unread", "read"} :
          /\ portal.item[i] # "read"
          /\ portal' = [portal EXCEPT !.item[i] = s]
     \/ \E t \in Task \cap offered : portal' = [portal EXCEPT !.done = @ \union {t}]
     \/ \E t \in Task \cap offered : portal' = [portal EXCEPT !.due = @ \union {t}]
  /\ UNCHANGED <<offered, rows, outbox, sync, job, settled, contested, failures>>

\* isFullSyncFresh turns false.
Age ==
  /\ fresh /\ fresh' = FALSE
  /\ UNCHANGED <<world, rows, outbox, checkpoint, job, settled, contested, failures>>

-----------------------------------------------------------------------------
(* Collecting *)

\* processSync skips a scheduled job whose snapshot is fresh; AUTOLEARN and
\* forced jobs collect anyway.
Start(w) ==
  /\ At(w, "idle") /\ (w \in Forced \/ ~ fresh)
  /\ Works(w, [Idle EXCEPT !.pc = "roster"])
  /\ UNCHANGED <<world, rows, outbox, sync, settled, contested, failures>>

\* Mutant: a page without courses is never believed.
NeverEmpty(parsed) == parsed = portal.courses /\ parsed # {}

\* Mutant: whatever was parsed is the roster.
TrustParser(parsed) == TRUE

\* assessCourseRoster: every course of the page was parsed, or it says that
\* there is none.
Authoritative(parsed) == parsed = portal.courses

CollectRoster(w) ==
  /\ At(w, "roster")
  /\ \E parsed \in SUBSET portal.courses :
       /\ Authoritative(parsed)
       /\ Works(w, [job[w] EXCEPT !.pc = "course", !.courses = parsed, !.todo = parsed])
  /\ UNCHANGED <<world, rows, outbox, sync, settled, contested, failures>>

\* What a parser and dedupeIncomingNotices make of the notices of a course:
\* one key of each.
Listings(c) ==
  LET N == {n \in portal.posted : CourseOf[n] = c}
  IN  {ks \in SUBSET UNION {Keys(n) : n \in N} :
         \A n \in N : Cardinality(ks \cap Keys(n)) = 1}

CollectCourse(w) ==
  /\ At(w, "course")
  /\ \E c \in job[w].todo : \E ks \in Listings(c) :
       Works(w, [job[w] EXCEPT !.todo = @ \ {c}, !.keys = @ \union ks,
                               !.done = @ \union (portal.done \cap Tasks({c}))])
  /\ UNCHANGED <<world, rows, outbox, sync, settled, contested, failures>>

\* filterPriorTermCu12Courses: a course is over when its term is.
Over(C) == SUBSET (C \ portal.courses)

\* The notifications; then the courses that are over are left out.
CollectActivity(w) ==
  /\ At(w, "course") /\ job[w].todo = {}
  /\ \E over \in Over(job[w].courses) :
       LET C == job[w].courses \ over
       IN  Works(w, [job[w] EXCEPT !.pc = "read", !.items = portal.item, !.courses = C,
                       !.keys = {k \in @ : CourseOf[NoticeOf[k]] \in C},
                       !.done = @ \cap Tasks(C)])
  /\ UNCHANGED <<world, rows, outbox, sync, settled, contested, failures>>

-----------------------------------------------------------------------------
(* persistSnapshot *)

ReadNotice(n) == \E k \in Key : NoticeOf[k] = n /\ notice[k] = "read"

\* The rows as they are before the first write.
ReadExisting(w) ==
  /\ At(w, "read")
  /\ Works(w, [job[w] EXCEPT !.pc = "courses", !.todo = job[w].courses,
                 !.read = {n \in Notice : ReadNotice(n)},
                 !.had = item, !.hadArchived = archived])
  /\ UNCHANGED <<world, rows, outbox, sync, settled, contested, failures>>

Saved(w, x) == Works(w, [job[w] EXCEPT !.todo = @ \ {x}])

SaveCourse(w) ==
  /\ At(w, "courses")
  /\ \E c \in job[w].todo :
       /\ course' = [course EXCEPT ![c] = "ACTIVE"]
       /\ Saved(w, c)
  /\ UNCHANGED <<world, notice, item, archived, task, outbox, sync, settled, contested, failures>>

EndOthers(w) ==
  /\ At(w, "courses") /\ job[w].todo = {}
  /\ course' = [c \in Course |->
       IF course[c] = "ACTIVE" /\ c \notin job[w].courses THEN "ENDED" ELSE course[c]]
  /\ Works(w, [job[w] EXCEPT !.pc = "notices", !.todo = job[w].keys])
  /\ UNCHANGED <<world, notice, item, archived, task, outbox, sync, settled, contested, failures>>

\* A row of a known notice under another key takes over its read state.
NewRow(w, k) == IF NoticeOf[k] \in job[w].read THEN "read" ELSE "unread"

SaveNotice(w) ==
  /\ At(w, "notices")
  /\ \E k \in job[w].todo :
       /\ notice' = [notice EXCEPT ![k] = IF @ = "none" THEN NewRow(w, k) ELSE @]
       /\ Saved(w, k)
  /\ UNCHANGED <<world, course, item, archived, task, outbox, sync, settled, contested, failures>>

\* One of the notice's two keys carries its sequence number, which decides the
\* row to keep; otherwise that depends on what a job has seen of the rows.
Ranked(n) ==
  \A k, l \in Key : (k # l /\ NoticeOf[k] = n /\ NoticeOf[l] = n)
                      => (k \in Sequenced <=> l \notin Sequenced)

\* The job has found rows of the notice to merge and has not dropped them yet.
Merging(j, n) ==
  j.pc \in {"merge", "drop"} /\ (n \in j.todo \/ \E k \in j.keep : NoticeOf[k] = n)

\* The rows cleanupDuplicateCourseNotices finds in the snapshot's courses.
FindDuplicates(w) ==
  LET found == {k \in Key : notice[k] # "none" /\ CourseOf[NoticeOf[k]] \in job[w].courses}
      double == {n \in Notice : Cardinality({k \in found : NoticeOf[k] = n}) > 1}
  IN  /\ At(w, "notices") /\ job[w].todo = {}
      /\ Works(w, [job[w] EXCEPT !.pc = "merge", !.dup = found, !.read = {}, !.todo = double,
             !.dupRead = {NoticeOf[k] : k \in {j \in found : notice[j] = "read"}}])
      /\ contested' = contested \union
           {n \in double : ~ Ranked(n) /\ \E v \in Worker \ {w} : Merging(job[v], n)}
      /\ UNCHANGED <<world, rows, outbox, sync, settled, failures>>

\* isNoticePreferred: a key with a sequence number first; bodies and dates,
\* which are not modelled, decide among the others.
Preferred(K) == IF K \cap Sequenced # {} THEN K \cap Sequenced ELSE K

Aliases(w, n) == {k \in job[w].dup : NoticeOf[k] = n}

MergedFlag(w, k) == IF NoticeOf[k] \in job[w].dupRead THEN "read" ELSE "unread"

\* The keeper is updated by what was found; the update fails if it is gone.
MergeNotice(w) ==
  /\ At(w, "merge")
  /\ \E n \in job[w].todo : \E k \in Preferred(Aliases(w, n)) :
       /\ notice[k] # "none"
       /\ notice' = [notice EXCEPT ![k] = MergedFlag(w, k)]
       /\ Works(w, [job[w] EXCEPT !.pc = "drop", !.keep = {k}, !.todo = @ \ {n}])
  /\ UNCHANGED <<world, course, item, archived, task, outbox, sync, settled, contested, failures>>

\* Mutant: the keeper is deleted with the others.
DropAll(w) == UNION {Aliases(w, NoticeOf[k]) : k \in job[w].keep}

Dropped(w) == UNION {Aliases(w, NoticeOf[k]) \ {k} : k \in job[w].keep}

DropDuplicates(w) ==
  /\ At(w, "drop")
  /\ notice' = [k \in Key |-> IF k \in Dropped(w) THEN "none" ELSE notice[k]]
  /\ Works(w, [job[w] EXCEPT !.pc = "merge", !.keep = {}])
  /\ UNCHANGED <<world, course, item, archived, task, outbox, sync, settled, contested, failures>>

NoticesDone(w) ==
  /\ At(w, "merge") /\ job[w].todo = {}
  /\ Works(w, [job[w] EXCEPT !.pc = "items", !.dup = {}, !.dupRead = {},
                 !.todo = {i \in Item : job[w].items[i] # "none"}])
  /\ UNCHANGED <<world, rows, outbox, sync, settled, contested, failures>>

\* Mutant: the row becomes what the portal shows.
ShownFlag(w, i) == job[w].items[i]

\* nextIsUnread: what the portal shows, unless the row was read already.
NextFlag(w, i) == IF job[w].had[i] = "read" THEN "read" ELSE job[w].items[i]

\* nextIsArchived, too, comes from the row as it was at the start.
SaveItem(w) ==
  /\ At(w, "items")
  /\ \E i \in job[w].todo :
       /\ item' = [item EXCEPT ![i] = NextFlag(w, i)]
       /\ archived' = IF i \in job[w].hadArchived THEN archived \union {i} ELSE archived \ {i}
       /\ Saved(w, i)
  /\ UNCHANGED <<world, course, notice, task, outbox, sync, settled, contested, failures>>

ItemsDone(w) ==
  /\ At(w, "items") /\ job[w].todo = {}
  /\ Works(w, [job[w] EXCEPT !.pc = "tasks", !.had = NoItems, !.hadArchived = {},
                 !.todo = Tasks(job[w].courses)])
  /\ UNCHANGED <<world, rows, outbox, sync, settled, contested, failures>>

SaveTask(w) ==
  /\ At(w, "tasks")
  /\ \E t \in job[w].todo :
       /\ task' = [task EXCEPT ![t] = IF t \in job[w].done THEN "COMPLETED" ELSE "PENDING"]
       /\ Saved(w, t)
  /\ UNCHANGED <<world, course, notice, item, archived, outbox, sync, settled, contested, failures>>

-----------------------------------------------------------------------------
(* Notification and checkpoint *)

\* The pending tasks that are due at a threshold by now.
TasksDone(w) ==
  LET D == (Tasks(job[w].courses) \ job[w].done) \cap portal.due
  IN  /\ At(w, "tasks") /\ job[w].todo = {}
      /\ Works(w, [job[w] EXCEPT !.pc = "alerts", !.todo = D, !.due = D])
      /\ UNCHANGED <<world, rows, outbox, sync, settled, contested, failures>>

\* Mutant: a mark that is there does not stop the alert.
AlertAgain(t) == TRUE

\* markTaskDeadlineAlerted inserted the row: nobody has alerted yet.
FirstAlert(t) == t \notin alerted

MarkAlert(w) ==
  /\ At(w, "alerts")
  /\ \E t \in job[w].todo :
       /\ alerted' = alerted \union {t}
       /\ Works(w, [job[w] EXCEPT !.todo = @ \ {t},
                      !.mail = IF FirstAlert(t) THEN @ \union {t} ELSE @])
  /\ UNCHANGED <<world, rows, mails, sync, settled, contested, failures>>

\* One mail about the deadlines just marked.  A mail that cannot be sent is
\* recorded as FAILED or SKIPPED, and the job goes on.
SendAlertMail(w) ==
  /\ At(w, "alerts") /\ job[w].todo = {}
  /\ \E sent \in BOOLEAN :
       mails' = [t \in Task |-> IF sent /\ t \in job[w].mail THEN mails[t] + 1 ELSE mails[t]]
  /\ Works(w, [job[w] EXCEPT !.pc = "checkpoint", !.mail = {}])
  /\ UNCHANGED <<world, rows, alerted, sync, settled, contested, failures>>

Contents(w) ==
  job[w].courses \union {NoticeOf[k] : k \in job[w].keys}
  \union {i \in Item : job[w].items[i] # "none"} \union Tasks(job[w].courses)

\* Mutant: the checkpoint does not wait for the alerts.
CheckpointEarly(w) == job[w].pc \in {"alerts", "checkpoint"}

Notified(w) == At(w, "checkpoint")

WriteCheckpoint(w) ==
  /\ Notified(w)
  /\ checkpoint' = [stored |-> Contents(w), due |-> job[w].due] /\ fresh' = TRUE
  /\ Works(w, Idle)
  /\ UNCHANGED <<world, rows, outbox, settled, contested, failures>>

\* An error, a cancel or a crash ends the job; what it has written stays.
Fail(w) ==
  /\ ~ At(w, "idle") /\ failures < MaxFailures
  /\ failures' = failures + 1
  /\ Works(w, Idle)
  /\ UNCHANGED <<world, rows, outbox, sync, settled, contested>>

-----------------------------------------------------------------------------
(* The user *)

Collecting == {"roster", "course", "read"}
Saving == {"courses", "notices", "merge", "drop", "items", "tasks", "alerts", "checkpoint"}

\* A mark made while nobody saves; a contest that is over is forgotten with it.
Settle(marks) ==
  IF \E w \in Worker : job[w].pc \in Saving THEN UNCHANGED <<settled, contested>>
  ELSE settled' = settled \union marks /\ contested' = contested \ marks

MarkNotices ==
  /\ \E K \in SUBSET {k \in Key : notice[k] # "none"} :
       /\ notice' = [k \in Key |-> IF k \in K THEN "read" ELSE notice[k]]
       /\ Settle({NoticeOf[k] : k \in K})
  /\ UNCHANGED <<world, course, item, archived, task, outbox, sync, job, failures>>

Stored == {i \in Item : item[i] # "none"}
ReadItems(I) == item' = [i \in Item |-> IF i \in I THEN "read" ELSE item[i]]

MarkItems ==
  /\ \E I \in SUBSET Stored : ReadItems(I) /\ Settle(I)
  /\ UNCHANGED <<world, course, notice, archived, task, outbox, sync, job, failures>>

DeleteItems ==
  /\ \E I \in SUBSET Stored :
       /\ ReadItems(I) /\ archived' = archived \union I
       /\ Settle(I \union {Deleted(i) : i \in I})
  /\ UNCHANGED <<world, course, notice, task, outbox, sync, job, failures>>

-----------------------------------------------------------------------------
Work(w) ==
  \/ CollectRoster(w) \/ CollectCourse(w) \/ CollectActivity(w)
  \/ ReadExisting(w) \/ SaveCourse(w) \/ EndOthers(w)
  \/ SaveNotice(w) \/ FindDuplicates(w) \/ MergeNotice(w) \/ DropDuplicates(w)
  \/ NoticesDone(w) \/ SaveItem(w) \/ ItemsDone(w) \/ SaveTask(w) \/ TasksDone(w)
  \/ MarkAlert(w) \/ SendAlertMail(w) \/ WriteCheckpoint(w)

Next ==
  \/ PortalMoves \/ Age \/ MarkNotices \/ MarkItems \/ DeleteItems
  \/ \E w \in Worker : Start(w) \/ Work(w) \/ Fail(w)

Spec == Init /\ [][Next]_vars

\* Jobs are enqueued by every scheduler round and claimed (JobQueue), a worker
\* that runs goes on, and time passes.
FairSpec ==
  /\ Spec /\ WF_vars(Age)
  /\ \A w \in Worker : WF_vars(Start(w)) /\ WF_vars(Work(w))

-----------------------------------------------------------------------------
(* Properties *)

\* Types, and what a job may hold when: an idle one nothing, a snapshot only
\* notices and tasks of its courses, and only keys the notices it merges.
TypeOK ==
  /\ offered \in Portals
  /\ course \in [Course -> {"none", "ACTIVE", "ENDED"}]
  /\ notice \in [Key -> Flag] /\ item \in [Item -> Flag]
  /\ archived \subseteq {i \in Item : item[i] = "read"}
  /\ task \in [Task -> {"none", "PENDING", "COMPLETED"}]
  /\ alerted \subseteq Task /\ mails \in [Task -> Nat]
  /\ \A w \in Worker :
       /\ job[w].pc \in {"idle"} \union Collecting \union Saving
       /\ At(w, "idle") => job[w] = Idle
       /\ job[w].pc \in Saving =>
            /\ \A k \in job[w].keys : CourseOf[NoticeOf[k]] \in job[w].courses
            /\ job[w].done \subseteq Tasks(job[w].courses)

\* The checkpoint is written only after persistence and notification: whatever
\* the snapshot it names contained has a row, its courses left no ACTIVE row of
\* theirs out, and its due tasks are marked as alerted, whichever jobs failed
\* half way, overlapped, or merged aliases since.  (Two jobs that merge the rows
\* of a notice at a time may each delete the row the other keeps.)
CheckpointCovers ==
  /\ \A c \in checkpoint.stored \cap Course : course[c] # "none"
  /\ \A n \in (checkpoint.stored \cap Notice) \ contested :
       \E k \in Key : NoticeOf[k] = n /\ notice[k] # "none"
  /\ \A i \in checkpoint.stored \cap Item : item[i] # "none"
  /\ \A t \in checkpoint.stored \cap Task : task[t] # "none"
  /\ checkpoint.due \subseteq alerted

\* No course the portal still lists in the current term is ENDED: a page that
\* was not parsed completely ends nothing.
EndedCoursesLeft ==
  \A c \in Course : course[c] = "ENDED" => c \notin portal.courses

\* A deadline is mailed about once, although jobs overlap, fail after the mail
\* and are run again.
OneMailPerDeadline == \A t \in Task : mails[t] <= 1

\* A notice that the user marked while no job was saving stays read: every
\* later sync starts from rows it read after the mark, under whichever alias
\* (with the same exception, until the user marks it again).
NoticeMarksKept == \A n \in (settled \cap Notice) \ contested : ReadNotice(n)

\* The same of notifications and messages, read or deleted.
ItemMarksKept ==
  \A i \in Item : /\ i \in settled => item[i] = "read"
                  /\ Deleted(i) \in settled => i \in archived

StoredAsShown ==
  LET C == portal.courses
  IN  /\ \A c \in Course : course[c] = "ACTIVE" <=> c \in C
      /\ \A n \in portal.posted \ contested :
           CourseOf[n] \in C => \E k \in Keys(n) : notice[k] # "none"
      /\ \A i \in Item : /\ portal.item[i] # "none" => item[i] # "none"
                         /\ portal.item[i] = "read" => item[i] = "read"
      /\ \A t \in Tasks(C) :
           /\ task[t] = IF t \in portal.done THEN "COMPLETED" ELSE "PENDING"
           /\ t \in portal.due \ portal.done => t \in alerted

\* Once the portal rests, the rows become what it shows and stay so, although
\* a job that overlapped wrote what it had collected earlier.
RowsConverge == <>[]StoredAsShown
=============================================================================
