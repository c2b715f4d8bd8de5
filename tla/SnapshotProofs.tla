--------------------------- MODULE SnapshotProofs ---------------------------
(* Theorems about Snapshot, for any number of workers, courses, items,       *)
(* tasks, notices and keys, any portal and any number of failures.           *)
EXTENDS Snapshot, FiniteSetTheorems, TLAPS

\* What a job holds.
Job ==
  [pc : {"idle"} \union Collecting \union Saving, todo : SUBSET (Thing \union Key),
   courses : SUBSET Course, keys : SUBSET Key, done : SUBSET Task, items : [Item -> Flag],
   read : SUBSET Notice, had : [Item -> Flag], hadArchived : SUBSET Item,
   dup : SUBSET Key, dupRead : SUBSET Notice, keep : SUBSET Key,
   due : SUBSET Task, mail : SUBSET Task]

\* What is left to do is of the kind that the step at hand does.
Todo(j) ==
  /\ j.pc \in {"course", "courses"} => j.todo \subseteq j.courses
  /\ j.pc = "notices" => j.todo \subseteq j.keys
  /\ j.pc \in {"merge", "drop"} => j.todo \subseteq Notice
  /\ j.pc = "items" => j.todo \subseteq {i \in Item : j.items[i] # "none"}
  /\ j.pc = "tasks" => j.todo \subseteq Tasks(j.courses)
  /\ j.pc = "alerts" => j.todo \subseteq j.due

JobTyped(j) ==
  /\ j \in Job /\ Todo(j)
  /\ j.pc = "idle" => j = Idle
  /\ j.pc \in Saving \union {"read"} =>
       /\ \A k \in j.keys : CourseOf[NoticeOf[k]] \in j.courses
       /\ j.done \subseteq Tasks(j.courses)
  /\ j.hadArchived \subseteq {i \in Item : j.had[i] = "read"}
  /\ j.pc # "drop" => j.keep = {}

StateTyped ==
  /\ offered \in Portals
  /\ portal \in [courses : SUBSET Course, posted : SUBSET Notice, item : [Item -> Flag],
                 done : SUBSET Task, due : SUBSET Task]
  /\ course \in [Course -> {"none", "ACTIVE", "ENDED"}]
  /\ notice \in [Key -> Flag] /\ item \in [Item -> Flag]
  /\ archived \subseteq {i \in Item : item[i] = "read"}
  /\ task \in [Task -> {"none", "PENDING", "COMPLETED"}]
  /\ alerted \subseteq Task /\ mails \in [Task -> Nat]
  /\ DOMAIN job = Worker

\* The inductive strengthening of TypeOK.
TypeInv == StateTyped /\ \A w \in Worker : JobTyped(job[w])

----------------------------------------------------------------------------
LEMMA IdleTyped == JobTyped(Idle)
BY DEF JobTyped, Job, Idle, Todo, NoItems, Flag, Collecting, Saving, Thing, Tasks

\* A step of one worker leaves the others' jobs alone.
LEMMA OthersKeep ==
  ASSUME NEW w \in Worker, NEW r, Works(w, r), DOMAIN job = Worker
  PROVE  /\ job'[w] = r /\ DOMAIN job' = Worker
         /\ \A v \in Worker \ {w} : job'[v] = job[v]
BY DEF Works

LEMMA JobsTyped ==
  ASSUME TypeInv, offered' = offered, NEW w \in Worker, NEW r, Works(w, r), JobTyped(r)
  PROVE  (\A v \in Worker : JobTyped(job[v])) ' /\ DOMAIN job' = Worker
<1>1. \A j : JobTyped(j) => JobTyped(j)'
  BY DEF JobTyped, Todo, Tasks
<1>2. \A v \in Worker : JobTyped(job'[v])
  BY OthersKeep DEF TypeInv, StateTyped
<1> QED
  BY <1>1, <1>2, OthersKeep DEF TypeInv, StateTyped, JobTyped, Todo, Tasks


LEMMA CollectTyped ==
  ASSUME TypeInv, NEW w \in Worker,
         Start(w) \/ CollectRoster(w) \/ CollectCourse(w) \/ CollectActivity(w)
  PROVE  TypeInv'
<1> DEFINE J == job[w]
<1>0. J \in Job /\ JobTyped(J) /\ UNCHANGED <<offered, portal, rows, outbox>>
  BY DEF TypeInv, JobTyped, Start, CollectRoster, CollectCourse, CollectActivity, world
<1>1. CASE Start(w)
  <2>1. JobTyped([Idle EXCEPT !.pc = "roster"])
    BY IdleTyped DEF JobTyped, Job, Idle, Todo, NoItems, Flag, Collecting, Saving, Thing, Tasks
  <2> QED BY <1>0, <1>1, <2>1, JobsTyped DEF Start, TypeInv, StateTyped, rows, outbox
<1>2. CASE CollectRoster(w)
  <2>1. PICK parsed \in SUBSET portal.courses :
               Works(w, [J EXCEPT !.pc = "course", !.courses = parsed, !.todo = parsed])
    BY <1>2 DEF CollectRoster
  <2>2. JobTyped([J EXCEPT !.pc = "course", !.courses = parsed, !.todo = parsed])
    <3> DEFINE r == [J EXCEPT !.pc = "course", !.courses = parsed, !.todo = parsed]
    <3>1. parsed \subseteq Course /\ J.pc = "roster"
      BY <1>2, <2>1 DEF CollectRoster, At, TypeInv, StateTyped
    <3>2. r \in Job
      BY <1>0, <3>1 DEF Job, Collecting, Thing
    <3>3. /\ r.pc = "course" /\ r.todo = parsed /\ r.courses = parsed
          /\ r.had = J.had /\ r.hadArchived = J.hadArchived /\ r.keep = J.keep
      BY <1>0 DEF Job
    <3>4. J.keep = {} /\ J.hadArchived \subseteq {i \in Item : J.had[i] = "read"}
      BY <1>0, <3>1 DEF JobTyped
    <3>5. Todo(r)
      <4> HIDE DEF r, J
      <4> QED BY <3>3 DEF Todo
    <3>6. JobTyped(r)
      <4> HIDE DEF r, J
      <4> QED BY <3>2, <3>3, <3>4, <3>5 DEF JobTyped, Saving
    <3> QED BY <3>6
  <2> QED BY <1>0, <2>1, <2>2, JobsTyped DEF TypeInv, StateTyped, rows, outbox
<1>3. CASE CollectCourse(w)
  <2>0. PICK c \in J.todo : \E ks \in Listings(c) :
               Works(w, [J EXCEPT !.todo = @ \ {c}, !.keys = @ \union ks,
                                  !.done = @ \union (portal.done \cap Tasks({c}))])
    BY <1>3 DEF CollectCourse
  <2>1. PICK ks \in Listings(c) :
               Works(w, [J EXCEPT !.todo = @ \ {c}, !.keys = @ \union ks,
                                  !.done = @ \union (portal.done \cap Tasks({c}))])
    BY <2>0
  <2>2. ks \subseteq Key /\ J.pc = "course"
    BY <1>3, <2>1 DEF Listings, Keys, CollectCourse, At
  <2>3. JobTyped([J EXCEPT !.todo = @ \ {c}, !.keys = @ \union ks,
                           !.done = @ \union (portal.done \cap Tasks({c}))])
    <3> DEFINE r == [J EXCEPT !.todo = @ \ {c}, !.keys = @ \union ks,
                              !.done = @ \union (portal.done \cap Tasks({c}))]
    <3>1. portal.done \subseteq Task
      BY DEF TypeInv, StateTyped
    <3>2. r \in Job
      BY <1>0, <2>2, <3>1 DEF Job
    <3>3. /\ r.pc = "course" /\ r.todo \subseteq J.todo /\ r.courses = J.courses
          /\ r.had = J.had /\ r.hadArchived = J.hadArchived /\ r.keep = J.keep
      BY <1>0, <2>2 DEF Job
    <3>4. /\ J.keep = {} /\ J.hadArchived \subseteq {i \in Item : J.had[i] = "read"}
          /\ J.todo \subseteq J.courses
      BY <1>0, <2>2 DEF JobTyped, Todo
    <3>5. Todo(r)
      <4> HIDE DEF r, J
      <4> QED BY <3>3, <3>4 DEF Todo
    <3>6. JobTyped(r)
      <4> HIDE DEF r, J
      <4> QED BY <3>2, <3>3, <3>4, <3>5 DEF JobTyped, Saving
    <3> QED BY <3>6
  <2> QED BY <1>0, <2>1, <2>3, JobsTyped DEF TypeInv, StateTyped, rows, outbox
<1>4. CASE CollectActivity(w)
  <2>1. PICK over \in Over(J.courses) :
               Works(w, [J EXCEPT !.pc = "read", !.items = portal.item, !.courses = J.courses \ over,
                       !.keys = {k \in @ : CourseOf[NoticeOf[k]] \in J.courses \ over},
                       !.done = @ \cap Tasks(J.courses \ over)])
    BY <1>4 DEF CollectActivity
  <2>2. JobTyped([J EXCEPT !.pc = "read", !.items = portal.item, !.courses = J.courses \ over,
                       !.keys = {k \in @ : CourseOf[NoticeOf[k]] \in J.courses \ over},
                       !.done = @ \cap Tasks(J.courses \ over)])
    <3> DEFINE r == [J EXCEPT !.pc = "read", !.items = portal.item, !.courses = J.courses \ over,
                       !.keys = {k \in @ : CourseOf[NoticeOf[k]] \in J.courses \ over},
                       !.done = @ \cap Tasks(J.courses \ over)]
    <3>1. J.pc = "course" /\ portal.item \in [Item -> Flag]
      BY <1>4 DEF CollectActivity, At, TypeInv, StateTyped
    <3>2. r \in Job
      BY <1>0, <3>1 DEF Job, Collecting
    <3>3. /\ r.pc = "read" /\ r.courses = J.courses \ over
          /\ \A k \in r.keys : CourseOf[NoticeOf[k]] \in J.courses \ over
          /\ r.done \subseteq Tasks(J.courses \ over)
          /\ r.had = J.had /\ r.hadArchived = J.hadArchived /\ r.keep = J.keep
      BY <1>0 DEF Job
    <3>4. J.keep = {} /\ J.hadArchived \subseteq {i \in Item : J.had[i] = "read"}
      BY <1>0, <3>1 DEF JobTyped
    <3>5. Todo(r)
      <4> HIDE DEF r, J
      <4> QED BY <3>3 DEF Todo
    <3>6. JobTyped(r)
      <4> HIDE DEF r, J
      <4> QED BY <3>2, <3>3, <3>4, <3>5 DEF JobTyped
    <3> QED BY <3>6
  <2> QED BY <1>0, <2>1, <2>2, JobsTyped DEF TypeInv, StateTyped, rows, outbox
<1> QED BY <1>1, <1>2, <1>3, <1>4

LEMMA CoursesTyped ==
  ASSUME TypeInv, NEW w \in Worker, ReadExisting(w) \/ SaveCourse(w) \/ EndOthers(w)
  PROVE  TypeInv'
<1> DEFINE J == job[w]
<1>0. J \in Job /\ JobTyped(J) /\ UNCHANGED <<offered, portal, notice, item, archived, task, outbox>>
  BY DEF TypeInv, JobTyped, ReadExisting, SaveCourse, EndOthers, world, rows
<1>1. CASE ReadExisting(w)
  <2> DEFINE r == [J EXCEPT !.pc = "courses", !.todo = J.courses,
                     !.read = {n \in Notice : ReadNotice(n)}, !.had = item, !.hadArchived = archived]
  <2>1. Works(w, r) /\ course' = course /\ J.pc = "read"
    BY <1>1 DEF ReadExisting, At, rows
  <2>2. JobTyped(r)
    <3>1. r \in Job
      BY <1>0 DEF TypeInv, StateTyped, Job, Saving, Thing
    <3>2. /\ r.pc = "courses" /\ r.todo = r.courses /\ r.courses = J.courses
          /\ r.keys = J.keys /\ r.done = J.done /\ r.keep = J.keep
          /\ r.had = item /\ r.hadArchived = archived
      BY <1>0 DEF Job
    <3>3. /\ J.keep = {} /\ archived \subseteq {i \in Item : item[i] = "read"}
          /\ \A k \in J.keys : CourseOf[NoticeOf[k]] \in J.courses
          /\ J.done \subseteq Tasks(J.courses)
      BY <1>0, <2>1 DEF TypeInv, StateTyped, JobTyped
    <3> HIDE DEF r, J
    <3>4. Todo(r)
      BY <3>2 DEF Todo
    <3> QED BY <3>1, <3>2, <3>3, <3>4 DEF JobTyped
  <2> HIDE DEF r
  <2> QED BY <1>0, <2>1, <2>2, JobsTyped DEF TypeInv, StateTyped, outbox
<1>2. CASE SaveCourse(w)
  <2>1. PICK c \in J.todo : course' = [course EXCEPT ![c] = "ACTIVE"] /\ Saved(w, c)
    BY <1>2 DEF SaveCourse
  <2>2. JobTyped([J EXCEPT !.todo = @ \ {c}])
    BY <1>0, <1>2 DEF SaveCourse, At, JobTyped, Job, Todo, Collecting, Saving
  <2>3. course' \in [Course -> {"none", "ACTIVE", "ENDED"}]
    BY <2>1 DEF TypeInv, StateTyped
  <2> QED BY <1>0, <2>1, <2>2, <2>3, JobsTyped DEF TypeInv, StateTyped, outbox, Saved
<1>3. CASE EndOthers(w)
  <2>1. Works(w, [J EXCEPT !.pc = "notices", !.todo = J.keys])
        /\ course' \in [Course -> {"none", "ACTIVE", "ENDED"}] /\ J.pc = "courses"
    BY <1>3 DEF EndOthers, At, TypeInv, StateTyped
  <2>2. JobTyped([J EXCEPT !.pc = "notices", !.todo = J.keys])
    BY <1>0, <2>1 DEF JobTyped, Job, Todo, Collecting, Saving
  <2> QED BY <1>0, <2>1, <2>2, JobsTyped DEF TypeInv, StateTyped, outbox
<1> QED BY <1>1, <1>2, <1>3

LEMMA NoticesTyped ==
  ASSUME TypeInv, NEW w \in Worker,
         SaveNotice(w) \/ FindDuplicates(w) \/ MergeNotice(w) \/ DropDuplicates(w) \/ NoticesDone(w)
  PROVE  TypeInv'
<1> DEFINE J == job[w]
<1>0. J \in Job /\ JobTyped(J) /\ UNCHANGED <<offered, portal, course, item, archived, task, outbox>>
  BY DEF TypeInv, JobTyped, SaveNotice, FindDuplicates, MergeNotice, DropDuplicates, NoticesDone, world, rows
<1>1. CASE SaveNotice(w)
  <2>1. PICK k \in J.todo : /\ notice' = [notice EXCEPT ![k] = IF @ = "none" THEN NewRow(w, k) ELSE @]
                            /\ Saved(w, k)
    BY <1>1 DEF SaveNotice
  <2>2. JobTyped([J EXCEPT !.todo = @ \ {k}])
    BY <1>0, <1>1 DEF SaveNotice, At, JobTyped, Job, Todo, Collecting, Saving
  <2>3. notice' \in [Key -> Flag]
    BY <2>1 DEF TypeInv, StateTyped, NewRow, Flag
  <2> QED BY <1>0, <2>1, <2>2, <2>3, JobsTyped DEF TypeInv, StateTyped, outbox, Saved
<1>2. CASE FindDuplicates(w)
  <2> DEFINE found == {k \in Key : notice[k] # "none" /\ CourseOf[NoticeOf[k]] \in J.courses}
             r == [J EXCEPT !.pc = "merge", !.dup = found, !.read = {},
                     !.dupRead = {NoticeOf[k] : k \in {j \in found : notice[j] = "read"}},
                     !.todo = {n \in Notice : Cardinality({k \in found : NoticeOf[k] = n}) > 1}]
  <2>1. Works(w, r) /\ notice' = notice /\ J.pc = "notices"
    BY <1>2 DEF FindDuplicates, At, rows
  <2>2. found \subseteq Key /\ {NoticeOf[k] : k \in {j \in found : notice[j] = "read"}} \subseteq Notice
    BY SnapshotAssumption
  <2>3. JobTyped(r)
    <3> HIDE DEF found
    <3> QED BY <1>0, <2>1, <2>2 DEF JobTyped, Job, Todo, Collecting, Saving, Thing
  <2> HIDE DEF r
  <2> QED BY <1>0, <2>1, <2>3, JobsTyped DEF TypeInv, StateTyped, outbox
<1>3. CASE MergeNotice(w)
  <2>0. PICK n \in J.todo : \E k \in Preferred(Aliases(w, n)) :
              /\ notice' = [notice EXCEPT ![k] = MergedFlag(w, k)]
              /\ Works(w, [J EXCEPT !.pc = "drop", !.keep = {k}, !.todo = @ \ {n}])
    BY <1>3 DEF MergeNotice
  <2>1. PICK k \in Preferred(Aliases(w, n)) :
              /\ notice' = [notice EXCEPT ![k] = MergedFlag(w, k)]
              /\ Works(w, [J EXCEPT !.pc = "drop", !.keep = {k}, !.todo = @ \ {n}])
    BY <2>0
  <2>2. k \in Key /\ J.pc = "merge"
    BY <1>0, <1>3 DEF Preferred, Aliases, Job, MergeNotice, At
  <2>3. JobTyped([J EXCEPT !.pc = "drop", !.keep = {k}, !.todo = @ \ {n}])
    BY <1>0, <2>2 DEF JobTyped, Job, Todo, Collecting, Saving
  <2>4. notice' \in [Key -> Flag]
    BY <2>1 DEF TypeInv, StateTyped, MergedFlag, Flag
  <2> QED BY <1>0, <2>1, <2>3, <2>4, JobsTyped DEF TypeInv, StateTyped, outbox
<1>4. CASE DropDuplicates(w)
  <2>1. Works(w, [J EXCEPT !.pc = "merge", !.keep = {}]) /\ J.pc = "drop"
        /\ notice' = [k \in Key |-> IF k \in Dropped(w) THEN "none" ELSE notice[k]]
    BY <1>4 DEF DropDuplicates, At
  <2>2. notice' \in [Key -> Flag]
    BY <2>1 DEF TypeInv, StateTyped, Flag
  <2>3. JobTyped([J EXCEPT !.pc = "merge", !.keep = {}])
    BY <1>0, <2>1 DEF JobTyped, Job, Todo, Collecting, Saving
  <2> QED BY <1>0, <2>1, <2>2, <2>3, JobsTyped DEF TypeInv, StateTyped, outbox
<1>5. CASE NoticesDone(w)
  <2> DEFINE r == [J EXCEPT !.pc = "items", !.dup = {}, !.dupRead = {},
                     !.todo = {i \in Item : J.items[i] # "none"}]
  <2>1. Works(w, r) /\ notice' = notice /\ J.pc = "merge"
    BY <1>5 DEF NoticesDone, At, rows
  <2>2. JobTyped(r)
    BY <1>0, <2>1 DEF JobTyped, Job, Todo, Collecting, Saving, Thing
  <2> HIDE DEF r
  <2> QED BY <1>0, <2>1, <2>2, JobsTyped DEF TypeInv, StateTyped, outbox
<1> QED BY <1>1, <1>2, <1>3, <1>4, <1>5

LEMMA ItemsTyped ==
  ASSUME TypeInv, NEW w \in Worker, SaveItem(w) \/ ItemsDone(w) \/ SaveTask(w) \/ TasksDone(w)
  PROVE  TypeInv'
<1> DEFINE J == job[w]
<1>0. J \in Job /\ JobTyped(J) /\ UNCHANGED <<offered, portal, course, notice, outbox>>
  BY DEF TypeInv, JobTyped, SaveItem, ItemsDone, SaveTask, TasksDone, world, rows
<1>1. CASE SaveItem(w)
  <2>1. PICK i \in J.todo :
          /\ item' = [item EXCEPT ![i] = NextFlag(w, i)]
          /\ archived' = IF i \in J.hadArchived THEN archived \union {i} ELSE archived \ {i}
          /\ Saved(w, i)
    BY <1>1 DEF SaveItem
  <2>2. J.pc = "items" /\ i \in Item /\ task' = task
    BY <1>0, <1>1, <2>1 DEF SaveItem, At, JobTyped, Todo
  <2>3. JobTyped([J EXCEPT !.todo = @ \ {i}])
    BY <1>0, <2>2 DEF JobTyped, Job, Todo, Collecting, Saving
  <2>4. NextFlag(w, i) \in Flag /\ (i \in J.hadArchived => NextFlag(w, i) = "read")
    BY <1>0, <2>2 DEF NextFlag, JobTyped, Job, Flag
  <2>5. item' \in [Item -> Flag] /\ archived' \subseteq {x \in Item : item'[x] = "read"}
    BY <2>1, <2>2, <2>4 DEF TypeInv, StateTyped
  <2> QED BY <1>0, <2>1, <2>2, <2>3, <2>5, JobsTyped DEF TypeInv, StateTyped, outbox, Saved
<1>2. CASE ItemsDone(w)
  <2> DEFINE r == [J EXCEPT !.pc = "tasks", !.had = NoItems, !.hadArchived = {},
                     !.todo = Tasks(J.courses)]
  <2>1. Works(w, r) /\ UNCHANGED <<item, archived, task>> /\ J.pc = "items"
    BY <1>2 DEF ItemsDone, At, rows
  <2>2. Tasks(J.courses) \subseteq Task /\ NoItems \in [Item -> Flag]
    BY DEF Tasks, NoItems, Flag
  <2>3. JobTyped(r)
    BY <1>0, <2>1, <2>2 DEF JobTyped, Job, Todo, Collecting, Saving, Thing
  <2> HIDE DEF r
  <2> QED BY <1>0, <2>1, <2>3, JobsTyped DEF TypeInv, StateTyped, outbox
<1>3. CASE SaveTask(w)
  <2>1. PICK t \in J.todo :
          /\ task' = [task EXCEPT ![t] = IF t \in J.done THEN "COMPLETED" ELSE "PENDING"]
          /\ Saved(w, t)
    BY <1>3 DEF SaveTask
  <2>2. J.pc = "tasks" /\ UNCHANGED <<item, archived>>
    BY <1>3 DEF SaveTask, At
  <2>3. JobTyped([J EXCEPT !.todo = @ \ {t}])
    BY <1>0, <2>2 DEF JobTyped, Job, Todo, Collecting, Saving
  <2>4. task' \in [Task -> {"none", "PENDING", "COMPLETED"}]
    BY <2>1 DEF TypeInv, StateTyped
  <2> QED BY <1>0, <2>1, <2>2, <2>3, <2>4, JobsTyped DEF TypeInv, StateTyped, outbox, Saved
<1>4. CASE TasksDone(w)
  <2> DEFINE D == (Tasks(J.courses) \ J.done) \cap portal.due
             r == [J EXCEPT !.pc = "alerts", !.todo = D, !.due = D]
  <2>1. Works(w, r) /\ UNCHANGED <<item, archived, task>> /\ J.pc = "tasks"
    BY <1>4 DEF TasksDone, At, rows
  <2>2. D \subseteq Task
    BY DEF Tasks
  <2>3. JobTyped(r)
    <3> HIDE DEF D
    <3> QED BY <1>0, <2>1, <2>2 DEF JobTyped, Job, Todo, Collecting, Saving, Thing
  <2> HIDE DEF r
  <2> QED BY <1>0, <2>1, <2>3, JobsTyped DEF TypeInv, StateTyped, outbox
<1> QED BY <1>1, <1>2, <1>3, <1>4

LEMMA EndTyped ==
  ASSUME TypeInv, NEW w \in Worker,
         MarkAlert(w) \/ SendAlertMail(w) \/ WriteCheckpoint(w) \/ Fail(w)
  PROVE  TypeInv'
<1> DEFINE J == job[w]
<1>0. J \in Job /\ JobTyped(J) /\ UNCHANGED <<offered, portal, course, notice, item, archived, task>>
  BY DEF TypeInv, JobTyped, MarkAlert, SendAlertMail, WriteCheckpoint, Fail, world, rows
<1>1. CASE MarkAlert(w)
  <2>1. PICK t \in J.todo :
          /\ alerted' = alerted \union {t}
          /\ Works(w, [J EXCEPT !.todo = @ \ {t},
                         !.mail = IF FirstAlert(t) THEN @ \union {t} ELSE @])
    BY <1>1 DEF MarkAlert
  <2>2. J.pc = "alerts" /\ mails' = mails
    BY <1>1 DEF MarkAlert, At
  <2>3. t \in Task
    BY <1>0, <2>1, <2>2 DEF JobTyped, Todo, Job
  <2>4. JobTyped([J EXCEPT !.todo = @ \ {t}, !.mail = IF FirstAlert(t) THEN @ \union {t} ELSE @])
    BY <1>0, <2>2, <2>3 DEF JobTyped, Job, Todo, Collecting, Saving
  <2> QED BY <1>0, <2>1, <2>2, <2>3, <2>4, JobsTyped DEF TypeInv, StateTyped
<1>2. CASE SendAlertMail(w)
  <2>1. Works(w, [J EXCEPT !.pc = "checkpoint", !.mail = {}]) /\ alerted' = alerted /\ J.pc = "alerts"
    BY <1>2 DEF SendAlertMail, At
  <2>2. mails' \in [Task -> Nat]
    BY <1>2 DEF SendAlertMail, TypeInv, StateTyped
  <2>3. JobTyped([J EXCEPT !.pc = "checkpoint", !.mail = {}])
    BY <1>0, <2>1 DEF JobTyped, Job, Todo, Collecting, Saving
  <2> QED BY <1>0, <2>1, <2>2, <2>3, JobsTyped DEF TypeInv, StateTyped
<1>3. CASE WriteCheckpoint(w) \/ Fail(w)
  <2>1. Works(w, Idle) /\ UNCHANGED outbox
    BY <1>3 DEF WriteCheckpoint, Fail
  <2> QED BY <1>0, <2>1, IdleTyped, JobsTyped DEF TypeInv, StateTyped, outbox
<1> QED BY <1>1, <1>2, <1>3

LEMMA OutsideTyped ==
  ASSUME TypeInv, PortalMoves \/ Age \/ MarkNotices \/ MarkItems \/ DeleteItems
  PROVE  TypeInv'
<1>1. UNCHANGED <<offered, course, task, outbox, job>>
  BY DEF PortalMoves, Age, MarkNotices, MarkItems, DeleteItems, rows, world
<1>2. (\A w \in Worker : JobTyped(job[w]))'
  BY <1>1 DEF TypeInv, JobTyped, Todo, Tasks
<1>3. CASE PortalMoves
  <2>1. portal' \in [courses : SUBSET Course, posted : SUBSET Notice, item : [Item -> Flag],
                     done : SUBSET Task, due : SUBSET Task]
    BY <1>3 DEF PortalMoves, TypeInv, StateTyped, Flag
  <2> QED BY <1>1, <1>2, <1>3, <2>1 DEF PortalMoves, TypeInv, StateTyped, rows, outbox
<1>4. CASE Age
  BY <1>1, <1>2, <1>4 DEF Age, TypeInv, StateTyped, rows, outbox, world
<1>5. CASE MarkNotices
  <2>1. notice' \in [Key -> Flag]
    BY <1>5 DEF MarkNotices, TypeInv, StateTyped, Flag
  <2> QED BY <1>1, <1>2, <1>5, <2>1 DEF MarkNotices, TypeInv, StateTyped, outbox, world
<1>6. CASE MarkItems \/ DeleteItems
  <2>1. PICK I \in SUBSET Stored :
          ReadItems(I) /\ (archived' = archived \/ archived' = archived \union I)
    BY <1>6 DEF MarkItems, DeleteItems
  <2>2. item' \in [Item -> Flag] /\ archived' \subseteq {x \in Item : item'[x] = "read"}
    BY <2>1 DEF ReadItems, Stored, TypeInv, StateTyped, Flag
  <2> QED BY <1>1, <1>2, <1>6, <2>2 DEF MarkItems, DeleteItems, TypeInv, StateTyped, outbox, world
<1> QED BY <1>3, <1>4, <1>5, <1>6

LEMMA TypeInvStep ==
  ASSUME TypeInv, [Next]_vars
  PROVE  TypeInv'
<1>1. CASE Next
  BY <1>1, CollectTyped, CoursesTyped, NoticesTyped, ItemsTyped, EndTyped, OutsideTyped DEF Next, Work
<1>2. CASE UNCHANGED vars
  BY <1>2 DEF vars, rows, outbox, sync, world, TypeInv, StateTyped, JobTyped, Todo, Tasks
<1> QED BY <1>1, <1>2

LEMMA TypeInvInit ==
  ASSUME Init
  PROVE  TypeInv
<1>1. \A w \in Worker : job[w] = Idle
  BY DEF Init
<1>2. StateTyped
  BY SnapshotAssumption DEF Init, StateTyped, NoItems, Flag
<1> QED BY <1>1, <1>2, IdleTyped DEF TypeInv

LEMMA TypeInvAlways == Spec => []TypeInv
BY TypeInvInit, TypeInvStep, PTL DEF Spec

\* Types, and what a job may hold when, whatever workers overlap and fail.
THEOREM TypesCorrect == Spec => []TypeOK
<1>1. TypeInv => TypeOK
  BY DEF TypeInv, StateTyped, JobTyped, Job, TypeOK, At
<1> QED BY <1>1, TypeInvAlways, PTL

----------------------------------------------------------------------------
(* The steps of a worker that persists, told by what they leave alone *)

Persists(w) ==
  \/ SaveCourse(w) \/ EndOthers(w) \/ SaveNotice(w) \/ FindDuplicates(w) \/ MergeNotice(w)
  \/ DropDuplicates(w) \/ NoticesDone(w) \/ SaveItem(w) \/ ItemsDone(w) \/ SaveTask(w)
  \/ TasksDone(w) \/ MarkAlert(w) \/ SendAlertMail(w)

Collected(j) == <<j.courses, j.keys, j.done, j.items>>

\* What was collected stays what it is until the job ends.
LEMMA CollectedStays ==
  ASSUME TypeInv, NEW w \in Worker, Persists(w)
  PROVE  /\ Collected(job'[w]) = Collected(job[w])
         /\ job[w].pc \in Saving /\ job'[w].pc \in Saving
         /\ \A v \in Worker \ {w} : job'[v] = job[v]
         /\ UNCHANGED <<world, sync, settled, failures>>
<1>0. job[w] \in Job /\ DOMAIN job = Worker
  BY DEF TypeInv, StateTyped, JobTyped
<1>1. CASE SaveCourse(w)
  BY <1>0, <1>1 DEF Works, SaveCourse, Saved, At, Collected, Job, Saving
<1>2. CASE EndOthers(w)
  BY <1>0, <1>2 DEF Works, EndOthers, At, Collected, Job, Saving
<1>3. CASE SaveNotice(w)
  BY <1>0, <1>3 DEF Works, SaveNotice, Saved, At, Collected, Job, Saving
<1>4. CASE FindDuplicates(w)
  BY <1>0, <1>4 DEF Works, FindDuplicates, At, Collected, Job, Saving
<1>5. CASE MergeNotice(w)
  BY <1>0, <1>5 DEF Works, MergeNotice, At, Collected, Job, Saving
<1>6. CASE DropDuplicates(w)
  BY <1>0, <1>6 DEF Works, DropDuplicates, At, Collected, Job, Saving
<1>7. CASE NoticesDone(w)
  BY <1>0, <1>7 DEF Works, NoticesDone, At, Collected, Job, Saving
<1>8. CASE SaveItem(w)
  BY <1>0, <1>8 DEF Works, SaveItem, Saved, At, Collected, Job, Saving
<1>9. CASE ItemsDone(w)
  BY <1>0, <1>9 DEF Works, ItemsDone, At, Collected, Job, Saving
<1>10. CASE SaveTask(w)
  BY <1>0, <1>10 DEF Works, SaveTask, Saved, At, Collected, Job, Saving
<1>11. CASE TasksDone(w)
  BY <1>0, <1>11 DEF Works, TasksDone, At, Collected, Job, Saving
<1>12. CASE MarkAlert(w)
  BY <1>0, <1>12 DEF Works, MarkAlert, At, Collected, Job, Saving
<1>13. CASE SendAlertMail(w)
  BY <1>0, <1>13 DEF Works, SendAlertMail, At, Collected, Job, Saving
<1> QED BY <1>1, <1>2, <1>3, <1>4, <1>5, <1>6, <1>7, <1>8, <1>9, <1>10, <1>11, <1>12, <1>13 DEF Persists

\* A job begins and ends with nothing.
LEMMA Borders ==
  ASSUME TypeInv, NEW w \in Worker, Start(w) \/ WriteCheckpoint(w) \/ Fail(w)
  PROVE  /\ job'[w] = Idle \/ job'[w] = [Idle EXCEPT !.pc = "roster"]
         /\ \A v \in Worker \ {w} : job'[v] = job[v]
         /\ UNCHANGED <<world, rows, outbox, settled>>
BY OthersKeep DEF TypeInv, StateTyped, Start, WriteCheckpoint, Fail

----------------------------------------------------------------------------
(* Courses *)

\* A roster holds at least what the portal lists: courses may have gone since.
Rostered(j) == j.pc \in {"course", "read"} \union Saving => portal.courses \subseteq j.courses

RosterInv == EndedCoursesLeft /\ \A w \in Worker : Rostered(job[w])

LEMMA RosterStep ==
  ASSUME TypeInv, RosterInv, [Next]_vars
  PROVE  RosterInv'
<1>1. ASSUME PortalMoves PROVE RosterInv'
  <2>1. portal'.courses \subseteq portal.courses /\ UNCHANGED <<course, job>>
    BY <1>1 DEF PortalMoves, TypeInv, StateTyped, rows
  <2> QED BY <2>1 DEF RosterInv, EndedCoursesLeft, Rostered
<1>2. ASSUME Age \/ MarkNotices \/ MarkItems \/ DeleteItems PROVE RosterInv'
  <2>1. UNCHANGED <<portal, course, job>>
    BY <1>2 DEF Age, MarkNotices, MarkItems, DeleteItems, world, rows
  <2> QED BY <2>1 DEF RosterInv, EndedCoursesLeft, Rostered
<1>3. ASSUME NEW w \in Worker, Start(w) \/ WriteCheckpoint(w) \/ Fail(w) PROVE RosterInv'
  BY <1>3, Borders DEF RosterInv, EndedCoursesLeft, Rostered, Idle, Saving, world, rows
<1>4. ASSUME NEW w \in Worker, CollectRoster(w) \/ CollectCourse(w) \/ CollectActivity(w) \/ ReadExisting(w)
      PROVE  RosterInv'
  <2> DEFINE J == job[w]
  <2>0. J \in Job /\ DOMAIN job = Worker /\ UNCHANGED <<portal, course>>
    BY <1>4 DEF TypeInv, StateTyped, JobTyped, CollectRoster, CollectCourse, CollectActivity,
                ReadExisting, world, rows
  <2>1. CASE CollectRoster(w)
    BY <2>0, <2>1 DEF Works, CollectRoster, Authoritative, RosterInv, EndedCoursesLeft, Rostered, Job
  <2>2. CASE CollectCourse(w)
    BY <2>0, <2>2 DEF Works, CollectCourse, At, RosterInv, EndedCoursesLeft, Rostered, Job
  <2>3. CASE CollectActivity(w)
    BY <2>0, <2>3 DEF Works, CollectActivity, At, Over, RosterInv, EndedCoursesLeft, Rostered, Job
  <2>4. CASE ReadExisting(w)
    BY <2>0, <2>4 DEF Works, ReadExisting, At, RosterInv, EndedCoursesLeft, Rostered, Job
  <2> QED BY <1>4, <2>1, <2>2, <2>3, <2>4
<1>5. ASSUME NEW w \in Worker, Persists(w) PROVE RosterInv'
  <2>1. \A v \in Worker : Rostered(job[v])'
    BY <1>5, CollectedStays DEF RosterInv, Rostered, Collected, world
  <2>2. \A c \in Course : course'[c] = "ENDED" => course[c] = "ENDED" \/ c \notin portal.courses
    <3>1. CASE SaveCourse(w)
      BY <3>1 DEF SaveCourse, TypeInv, StateTyped
    <3>2. CASE EndOthers(w)
      BY <1>5, <3>2, CollectedStays DEF EndOthers, RosterInv, Rostered
    <3>3. CASE UNCHANGED course
      BY <3>3
    <3> QED
      BY <1>5, <3>1, <3>2, <3>3 DEF Persists, SaveNotice, FindDuplicates, MergeNotice,
         DropDuplicates, NoticesDone, SaveItem, ItemsDone, SaveTask, TasksDone, MarkAlert, SendAlertMail, rows
  <2> QED BY <1>5, <2>1, <2>2, CollectedStays DEF RosterInv, EndedCoursesLeft, world
<1>6. ASSUME UNCHANGED vars PROVE RosterInv'
  BY <1>6 DEF vars, rows, world, RosterInv, EndedCoursesLeft, Rostered
<1> QED BY <1>1, <1>2, <1>3, <1>4, <1>5, <1>6 DEF Next, Work, Persists

\* No course that the portal lists is ended: a page that was not parsed
\* completely ends nothing, whichever jobs overlap and fail.
THEOREM CoursesEndRightly == Spec => []EndedCoursesLeft
<1>1. Init => RosterInv
  BY DEF Init, RosterInv, EndedCoursesLeft, Rostered, Idle, Saving
<1>2. RosterInv => EndedCoursesLeft
  BY DEF RosterInv
<1> QED BY <1>1, <1>2, RosterStep, TypeInvAlways, PTL DEF Spec

----------------------------------------------------------------------------
(* Deadline mails *)

\* The mail about a deadline is to be sent by at most one job, or was sent.
MailInv ==
  /\ \A w \in Worker : job[w].mail \subseteq alerted
  /\ \A w, v \in Worker : w # v => job[w].mail \cap job[v].mail = {}
  /\ \A t \in Task : \/ mails[t] = 0
                     \/ mails[t] = 1 /\ t \in alerted /\ \A w \in Worker : t \notin job[w].mail

\* The steps that neither alert nor mail.
MailLess(w) ==
  \/ CollectRoster(w) \/ CollectCourse(w) \/ CollectActivity(w) \/ ReadExisting(w)
  \/ SaveCourse(w) \/ EndOthers(w) \/ SaveNotice(w) \/ FindDuplicates(w) \/ MergeNotice(w)
  \/ DropDuplicates(w) \/ NoticesDone(w) \/ SaveItem(w) \/ ItemsDone(w) \/ SaveTask(w)
  \/ TasksDone(w)

LEMMA MailLessStep ==
  ASSUME TypeInv, NEW w \in Worker, MailLess(w)
  PROVE  UNCHANGED <<alerted, mails>> /\ \A v \in Worker : job'[v].mail = job[v].mail
<1>0. job[w] \in Job /\ DOMAIN job = Worker
  BY DEF TypeInv, StateTyped, JobTyped
<1>1. CASE CollectRoster(w)
  BY <1>0, <1>1 DEF Works, CollectRoster, Job, outbox
<1>2. CASE CollectCourse(w)
  BY <1>0, <1>2 DEF Works, CollectCourse, Job, outbox
<1>3. CASE CollectActivity(w)
  BY <1>0, <1>3 DEF Works, CollectActivity, Job, outbox
<1>4. CASE ReadExisting(w)
  BY <1>0, <1>4 DEF Works, ReadExisting, Job, outbox
<1>5. CASE SaveCourse(w)
  BY <1>0, <1>5 DEF Works, SaveCourse, Saved, Job, outbox
<1>6. CASE EndOthers(w)
  BY <1>0, <1>6 DEF Works, EndOthers, Job, outbox
<1>7. CASE SaveNotice(w)
  BY <1>0, <1>7 DEF Works, SaveNotice, Saved, Job, outbox
<1>8. CASE FindDuplicates(w)
  BY <1>0, <1>8 DEF Works, FindDuplicates, Job, outbox
<1>9. CASE MergeNotice(w)
  BY <1>0, <1>9 DEF Works, MergeNotice, Job, outbox
<1>10. CASE DropDuplicates(w)
  BY <1>0, <1>10 DEF Works, DropDuplicates, Job, outbox
<1>11. CASE NoticesDone(w)
  BY <1>0, <1>11 DEF Works, NoticesDone, Job, outbox
<1>12. CASE SaveItem(w)
  BY <1>0, <1>12 DEF Works, SaveItem, Saved, Job, outbox
<1>13. CASE ItemsDone(w)
  BY <1>0, <1>13 DEF Works, ItemsDone, Job, outbox
<1>14. CASE SaveTask(w)
  BY <1>0, <1>14 DEF Works, SaveTask, Saved, Job, outbox
<1>15. CASE TasksDone(w)
  BY <1>0, <1>15 DEF Works, TasksDone, Job, outbox
<1> QED BY <1>1, <1>2, <1>3, <1>4, <1>5, <1>6, <1>7, <1>8, <1>9, <1>10, <1>11, <1>12, <1>13, <1>14, <1>15 DEF MailLess

LEMMA MailStep ==
  ASSUME TypeInv, MailInv, [Next]_vars
  PROVE  MailInv'
<1>0. \A w \in Worker : job[w] \in Job /\ DOMAIN job = Worker
  BY DEF TypeInv, StateTyped, JobTyped
<1>1. ASSUME PortalMoves \/ Age \/ MarkNotices \/ MarkItems \/ DeleteItems \/ UNCHANGED vars PROVE MailInv'
  <2>1. UNCHANGED <<job, alerted, mails>>
    BY <1>1 DEF PortalMoves, Age, MarkNotices, MarkItems, DeleteItems, vars, outbox
  <2> QED BY <2>1 DEF MailInv
<1>2. ASSUME NEW w \in Worker, Start(w) \/ WriteCheckpoint(w) \/ Fail(w) PROVE MailInv'
  <2>1. job'[w].mail = {} /\ (\A v \in Worker \ {w} : job'[v] = job[v]) /\ UNCHANGED <<alerted, mails>>
    BY <1>2, Borders DEF Idle, outbox
  <2> QED BY <2>1 DEF MailInv
<1>3. ASSUME NEW w \in Worker, MailLess(w) PROVE MailInv'
  BY <1>3, MailLessStep DEF MailInv
<1>4. ASSUME NEW w \in Worker, MarkAlert(w) PROVE MailInv'
  <2>1. PICK t \in job[w].todo :
          /\ alerted' = alerted \union {t}
          /\ Works(w, [job[w] EXCEPT !.todo = @ \ {t},
                         !.mail = IF FirstAlert(t) THEN @ \union {t} ELSE @])
    BY <1>4 DEF MarkAlert
  <2>2. mails' = mails /\ \A v \in Worker \ {w} : job'[v] = job[v]
    BY <1>0, <1>4, <2>1, OthersKeep DEF MarkAlert
  <2>3. job'[w].mail = IF t \in alerted THEN job[w].mail ELSE job[w].mail \union {t}
    BY <1>0, <2>1 DEF FirstAlert, Works, Job
  <2> QED BY <2>1, <2>2, <2>3 DEF MailInv
<1>5. ASSUME NEW w \in Worker, SendAlertMail(w) PROVE MailInv'
  <2>1. PICK sent \in BOOLEAN :
          mails' = [t \in Task |-> IF sent /\ t \in job[w].mail THEN mails[t] + 1 ELSE mails[t]]
    BY <1>5 DEF SendAlertMail
  <2>2. /\ job'[w].mail = {} /\ alerted' = alerted
        /\ \A v \in Worker \ {w} : job'[v] = job[v]
    BY <1>0, <1>5 DEF SendAlertMail, Works, Job
  <2>3. \A t \in Task : mails[t] \in Nat
    BY DEF TypeInv, StateTyped
  <2> QED BY <2>1, <2>2, <2>3 DEF MailInv
<1> QED BY <1>1, <1>2, <1>3, <1>4, <1>5 DEF Next, Work, MailLess

\* A deadline is mailed about once, whichever jobs overlap, fail after their
\* mail and are run again.
THEOREM DeadlinesMailedOnce == Spec => []OneMailPerDeadline
<1>1. Init => MailInv
  BY DEF Init, MailInv, Idle
<1>2. TypeInv /\ MailInv => OneMailPerDeadline
  BY DEF MailInv, OneMailPerDeadline, TypeInv, StateTyped
<1> QED BY <1>1, <1>2, MailStep, TypeInvAlways, PTL DEF Spec

----------------------------------------------------------------------------
(* Marks on notifications and messages *)

LEMMA MarksDistinct ==
  /\ \A i \in Item : i \notin Notice /\ Deleted(i) \notin Item /\ Deleted(i) \notin Notice
  /\ \A i, j \in Item : Deleted(i) = Deleted(j) => i = j
BY SnapshotAssumption DEF Thing, Deleted

\* A job that has yet to write the items has read every mark that counts.
Remembers(j) ==
  j.pc \in {"courses", "notices", "merge", "drop", "items"} =>
    \A i \in Item : /\ i \in settled => j.had[i] = "read"
                    /\ Deleted(i) \in settled => i \in j.hadArchived

ItemInv == ItemMarksKept /\ \A w \in Worker : Remembers(job[w])

\* The steps that change neither an item nor what a job remembers of them.
ItemLess(w) ==
  \/ SaveCourse(w) \/ EndOthers(w) \/ SaveNotice(w) \/ FindDuplicates(w) \/ MergeNotice(w)
  \/ DropDuplicates(w) \/ NoticesDone(w) \/ SaveTask(w) \/ TasksDone(w) \/ MarkAlert(w)
  \/ SendAlertMail(w)

LEMMA ItemLessStep ==
  ASSUME TypeInv, NEW w \in Worker, ItemLess(w)
  PROVE  /\ UNCHANGED <<item, archived>>
         /\ job'[w].had = job[w].had /\ job'[w].hadArchived = job[w].hadArchived
         /\ \/ job[w].pc \in {"courses", "notices", "merge", "drop"}
            \/ job'[w].pc \in {"tasks", "alerts", "checkpoint"}
<1>0. job[w] \in Job /\ DOMAIN job = Worker
  BY DEF TypeInv, StateTyped, JobTyped
<1>1. CASE SaveCourse(w)
  BY <1>0, <1>1 DEF Works, SaveCourse, Saved, At, Job, rows
<1>2. CASE EndOthers(w)
  BY <1>0, <1>2 DEF Works, EndOthers, At, Job, rows
<1>3. CASE SaveNotice(w)
  BY <1>0, <1>3 DEF Works, SaveNotice, Saved, At, Job, rows
<1>4. CASE FindDuplicates(w)
  BY <1>0, <1>4 DEF Works, FindDuplicates, At, Job, rows
<1>5. CASE MergeNotice(w)
  BY <1>0, <1>5 DEF Works, MergeNotice, At, Job, rows
<1>6. CASE DropDuplicates(w)
  BY <1>0, <1>6 DEF Works, DropDuplicates, At, Job, rows
<1>7. CASE NoticesDone(w)
  BY <1>0, <1>7 DEF Works, NoticesDone, At, Job, rows
<1>8. CASE SaveTask(w)
  BY <1>0, <1>8 DEF Works, SaveTask, Saved, At, Job, rows
<1>9. CASE TasksDone(w)
  BY <1>0, <1>9 DEF Works, TasksDone, At, Job, rows
<1>10. CASE MarkAlert(w)
  BY <1>0, <1>10 DEF Works, MarkAlert, At, Job, rows
<1>11. CASE SendAlertMail(w)
  BY <1>0, <1>11 DEF Works, SendAlertMail, At, Job, rows
<1> QED BY <1>1, <1>2, <1>3, <1>4, <1>5, <1>6, <1>7, <1>8, <1>9, <1>10, <1>11 DEF ItemLess

LEMMA ItemStep ==
  ASSUME TypeInv, ItemInv, [Next]_vars
  PROVE  ItemInv'
<1>0. item \in [Item -> Flag] /\ DOMAIN job = Worker
  BY DEF TypeInv, StateTyped
<1>1. ASSUME UNCHANGED <<item, archived, job, settled>> PROVE ItemInv'
  BY <1>1 DEF ItemInv, ItemMarksKept, Remembers
<1>2. ASSUME NEW marks, Settle(marks), UNCHANGED job,
             \A i \in Item : /\ item[i] = "read" \/ i \in marks => item'[i] = "read"
                             /\ i \in archived \/ Deleted(i) \in marks => i \in archived'
      PROVE  ItemInv'
  <2>0. settled' \subseteq settled \union marks
    BY <1>2 DEF Settle
  <2>1. ItemMarksKept'
    BY <1>2, <2>0 DEF ItemInv, ItemMarksKept
  <2>2. \A w \in Worker : Remembers(job[w])'
    BY <1>2 DEF Settle, ItemInv, Remembers, Saving
  <2> QED BY <2>1, <2>2 DEF ItemInv
<1>3. ASSUME MarkNotices PROVE ItemInv'
  <2>1. PICK K \in SUBSET Key : Settle({NoticeOf[k] : k \in K}) /\ UNCHANGED <<item, archived, job>>
    BY <1>3 DEF MarkNotices
  <2>2. {NoticeOf[k] : k \in K} \subseteq Notice
    BY SnapshotAssumption
  <2> HIDE DEF Settle
  <2> QED BY <1>2, <2>1, <2>2, MarksDistinct
<1>4. ASSUME MarkItems PROVE ItemInv'
  <2>1. PICK I \in SUBSET Stored : ReadItems(I) /\ Settle(I)
    BY <1>4 DEF MarkItems
  <2>2. \A i \in Item : /\ item[i] = "read" \/ i \in I => item'[i] = "read"
                        /\ i \in archived \/ Deleted(i) \in I => i \in archived'
    BY <1>4, <2>1, MarksDistinct DEF MarkItems, ReadItems, Stored
  <2>3. UNCHANGED job
    BY <1>4 DEF MarkItems
  <2> QED BY <1>2, <2>1, <2>2, <2>3
<1>5. ASSUME DeleteItems PROVE ItemInv'
  <2>1. PICK I \in SUBSET Stored :
          ReadItems(I) /\ archived' = archived \union I /\ Settle(I \union {Deleted(i) : i \in I})
    BY <1>5 DEF DeleteItems
  <2> DEFINE marks == I \union {Deleted(i) : i \in I}
  <2>2. \A i \in Item : (i \in marks => i \in I) /\ (Deleted(i) \in marks => i \in I)
    BY <2>1, MarksDistinct DEF Stored
  <2>3. \A i \in Item : /\ item[i] = "read" \/ i \in marks => item'[i] = "read"
                        /\ i \in archived \/ Deleted(i) \in marks => i \in archived'
    <3> HIDE DEF marks
    <3> QED BY <2>1, <2>2 DEF ReadItems
  <2>4. UNCHANGED job /\ Settle(marks)
    BY <1>5, <2>1 DEF DeleteItems
  <2> HIDE DEF marks
  <2> QED BY <1>2, <2>3, <2>4
<1>6. ASSUME NEW w \in Worker,
             Start(w) \/ WriteCheckpoint(w) \/ Fail(w)
      PROVE  ItemInv'
  BY <1>6, Borders DEF ItemInv, ItemMarksKept, Remembers, Idle, rows
<1>7. ASSUME NEW w \in Worker, CollectRoster(w) \/ CollectCourse(w) \/ CollectActivity(w)
      PROVE  ItemInv'
  <2>1. UNCHANGED <<item, archived, settled>> /\ job[w] \in Job
    BY <1>7 DEF CollectRoster, CollectCourse, CollectActivity, rows, TypeInv, JobTyped
  <2>2. job'[w].pc \in {"course", "read"} /\ \A v \in Worker \ {w} : job'[v] = job[v]
    <3>1. CASE CollectRoster(w)
      BY <1>0, <2>1, <3>1 DEF CollectRoster, Works, Job
    <3>2. CASE CollectCourse(w)
      BY <1>0, <2>1, <3>2 DEF CollectCourse, Works, At, Job
    <3>3. CASE CollectActivity(w)
      BY <1>0, <2>1, <3>3 DEF CollectActivity, Works, Job
    <3> QED BY <1>7, <3>1, <3>2, <3>3
  <2> QED BY <2>1, <2>2 DEF ItemInv, ItemMarksKept, Remembers
<1>8. ASSUME NEW w \in Worker, ReadExisting(w) PROVE ItemInv'
  <2>1. /\ UNCHANGED <<item, archived, settled>>
        /\ job'[w].had = item /\ job'[w].hadArchived = archived
        /\ \A v \in Worker \ {w} : job'[v] = job[v]
    BY <1>0, <1>8 DEF ReadExisting, Works, rows, TypeInv, JobTyped, Job
  <2> QED BY <2>1 DEF ItemInv, ItemMarksKept, Remembers
<1>9. ASSUME NEW w \in Worker, ItemLess(w) PROVE ItemInv'
  <2>1. UNCHANGED settled /\ \A v \in Worker \ {w} : job'[v] = job[v]
    BY <1>9, CollectedStays DEF ItemLess, Persists
  <2> QED BY <1>9, <2>1, ItemLessStep DEF ItemInv, ItemMarksKept, Remembers
<1>10. ASSUME NEW w \in Worker, SaveItem(w) PROVE ItemInv'
  <2>1. PICK i \in job[w].todo :
          /\ item' = [item EXCEPT ![i] = NextFlag(w, i)]
          /\ archived' = IF i \in job[w].hadArchived THEN archived \union {i} ELSE archived \ {i}
          /\ Saved(w, i)
    BY <1>10 DEF SaveItem
  <2>2. /\ job'[w].had = job[w].had /\ job'[w].hadArchived = job[w].hadArchived
        /\ job[w].pc = "items" /\ UNCHANGED settled
        /\ \A v \in Worker \ {w} : job'[v] = job[v]
    BY <1>0, <1>10, <2>1 DEF Saved, Works, SaveItem, At, TypeInv, JobTyped, Job
  <2>3. \A x \in Item : /\ x \in settled => job[w].had[x] = "read" /\ item[x] = "read"
                        /\ Deleted(x) \in settled => x \in job[w].hadArchived /\ x \in archived
    BY <2>2 DEF ItemInv, ItemMarksKept, Remembers
  <2>4. \A x \in Item : x \in settled => item'[x] = "read"
    BY <1>0, <2>1, <2>3 DEF NextFlag
  <2>5. \A x \in Item : Deleted(x) \in settled => x \in archived'
    BY <2>1, <2>3
  <2>6. ItemMarksKept'
    BY <2>2, <2>4, <2>5 DEF ItemMarksKept
  <2> QED BY <2>2, <2>6 DEF ItemInv, Remembers
<1>11. ASSUME NEW w \in Worker, ItemsDone(w) PROVE ItemInv'
  <2>1. /\ job'[w].pc = "tasks" /\ UNCHANGED <<item, archived, settled>>
        /\ \A v \in Worker \ {w} : job'[v] = job[v]
    BY <1>0, <1>11 DEF ItemsDone, Works, rows, TypeInv, JobTyped, Job
  <2> QED BY <2>1 DEF ItemInv, ItemMarksKept, Remembers
<1>12. ASSUME PortalMoves \/ Age \/ UNCHANGED vars PROVE ItemInv'
  <2>1. UNCHANGED <<item, archived, job, settled>>
    BY <1>12 DEF PortalMoves, Age, vars, rows
  <2> QED BY <1>1, <2>1
<1> QED
  BY <1>3, <1>4, <1>5, <1>6, <1>7, <1>8, <1>9, <1>10, <1>11, <1>12 DEF Next, Work, ItemLess

\* A notification or message that the user read or deleted while no job was
\* saving stays so, whichever workers save it later from what they collected.
THEOREM MarksOnItemsKept == Spec => []ItemMarksKept
<1>1. Init => ItemInv
  BY DEF Init, ItemInv, ItemMarksKept, Remembers, Idle
<1>2. ItemInv => ItemMarksKept
  BY DEF ItemInv
<1> QED BY <1>1, <1>2, ItemStep, TypeInvAlways, PTL DEF Spec

----------------------------------------------------------------------------
(* Rows and marks of notices *)

HasRow(n) == \E k \in Key : NoticeOf[k] = n /\ notice[k] # "none"
Covered(n) == n \in contested \/ HasRow(n)

\* A row that a merge may keep: under the sequence number, if that decides.
Firm(k) == k \in Sequenced \/ ~ Ranked(NoticeOf[k])

\* What a job that merges duplicates knows of those it has not dropped yet.
Held(j) ==
  j.pc \in {"merge", "drop"} =>
    /\ \A n \in j.todo : \A k \in Preferred({x \in j.dup : NoticeOf[x] = n}) : Firm(k)
    /\ \A k \in j.dup : Merging(j, NoticeOf[k]) /\ NoticeOf[k] \notin contested =>
         /\ Firm(k) => notice[k] # "none"
         /\ NoticeOf[k] \in settled => NoticeOf[k] \in j.dupRead
    /\ j.keep \subseteq j.dup
    /\ \A k \in j.keep :
         /\ Firm(k) /\ NoticeOf[k] \notin j.todo /\ j.keep = {k}
         /\ NoticeOf[k] \in settled /\ NoticeOf[k] \notin contested => notice[k] = "read"

\* If the sequence number does not decide, one job merges or there is a contest.
OneMerges ==
  \A v, w \in Worker : \A n \in Notice :
    v # w /\ Merging(job[v], n) /\ Merging(job[w], n) /\ ~ Ranked(n) => n \in contested

NoticeInv == NoticeMarksKept /\ (\A w \in Worker : Held(job[w])) /\ OneMerges

\* A group that is merged has two keys, so what is kept is firm.
LEMMA KeeperDecided ==
  ASSUME NEW K \in SUBSET Key, NEW n, \A k \in K : NoticeOf[k] = n, Cardinality(K) > 1,
         NEW k \in Preferred(K)
  PROVE  Firm(k)
<1>1. IsFiniteSet(K) /\ k \in K
  BY FS_Subset, SnapshotAssumption DEF Preferred
<1>2. PICK l \in K : l # k
  BY <1>1, FS_Singleton
<1>3. ASSUME Ranked(n) PROVE k \in Sequenced
  <2>1. k \in Sequenced <=> l \notin Sequenced
    BY <1>1, <1>2, <1>3 DEF Ranked
  <2> QED BY <1>1, <1>2, <2>1 DEF Preferred
<1> QED BY <1>1, <1>3 DEF Firm

\* A job drops only rows of the notice it merges, not the one it keeps, and if
\* the sequence number decides, none that carries it.
LEMMA DroppedAliases ==
  ASSUME TypeInv, NoticeInv, NEW w \in Worker, DropDuplicates(w), NEW k \in Dropped(w)
  PROVE  /\ k \in Key /\ Merging(job[w], NoticeOf[k])
         /\ Firm(k) => ~ Ranked(NoticeOf[k])
         /\ \E x \in job[w].keep : x \in Key /\ NoticeOf[x] = NoticeOf[k] /\ x \notin Dropped(w)
<1>1. /\ job[w].pc = "drop" /\ job[w].keep \subseteq job[w].dup /\ job[w].dup \subseteq Key
      /\ \A x \in job[w].keep : Firm(x) /\ job[w].keep = {x}
  BY DEF DropDuplicates, At, NoticeInv, Held, TypeInv, JobTyped, Job
<1>2. PICK x \in job[w].keep : k \in Aliases(w, NoticeOf[x]) \ {x}
  BY DEF Dropped
<1>3. k \in Key /\ x \in Key /\ NoticeOf[k] = NoticeOf[x] /\ k # x
  BY <1>1, <1>2 DEF Aliases
<1>4. x \notin Dropped(w)
  BY <1>1 DEF Dropped
<1>5. Merging(job[w], NoticeOf[k])
  BY <1>1, <1>3 DEF Merging
<1>6. Firm(k) => ~ Ranked(NoticeOf[k])
  BY <1>1, <1>3 DEF Firm, Ranked
<1> QED BY <1>3, <1>4, <1>5, <1>6

\* The steps that leave the rows of notices alone.
NoticeLess(w) ==
  \/ Start(w) \/ CollectRoster(w) \/ CollectCourse(w) \/ CollectActivity(w) \/ ReadExisting(w)
  \/ SaveCourse(w) \/ EndOthers(w) \/ FindDuplicates(w) \/ NoticesDone(w) \/ SaveItem(w)
  \/ ItemsDone(w) \/ SaveTask(w) \/ TasksDone(w) \/ MarkAlert(w) \/ SendAlertMail(w)
  \/ WriteCheckpoint(w) \/ Fail(w)

LEMMA NoticeLessStep ==
  ASSUME NEW w \in Worker, NoticeLess(w)
  PROVE  UNCHANGED <<notice, settled>> /\ contested \subseteq contested'
BY DEF NoticeLess, Start, CollectRoster, CollectCourse, CollectActivity, ReadExisting, SaveCourse,
       EndOthers, FindDuplicates, NoticesDone, SaveItem, ItemsDone, SaveTask, TasksDone, MarkAlert,
       SendAlertMail, WriteCheckpoint, Fail, rows

\* A contest is forgotten when the notice is marked, and never under a merge.
LEMMA ContestStays ==
  ASSUME TypeInv, [Next]_vars
  PROVE  /\ ~ MarkNotices => contested \cap Notice \subseteq contested'
         /\ \A w \in Worker : \A n : Merging(job[w], n) /\ n \in contested => n \in contested'
<1>1. ASSUME contested \subseteq contested'
      PROVE  /\ contested \cap Notice \subseteq contested'
             /\ \A w \in Worker : \A n : Merging(job[w], n) /\ n \in contested => n \in contested'
  BY <1>1
<1>2. ASSUME NEW marks, Settle(marks)
      PROVE  /\ marks \cap Notice = {} => contested \cap Notice \subseteq contested'
             /\ \A w \in Worker : \A n : Merging(job[w], n) /\ n \in contested => n \in contested'
  BY <1>2 DEF Settle, Merging, Saving
<1>3. CASE MarkNotices
  BY <1>2, <1>3 DEF MarkNotices
<1>4. CASE MarkItems \/ DeleteItems
  <2>1. PICK I \in SUBSET Item : Settle(I) \/ Settle(I \union {Deleted(i) : i \in I})
    BY <1>4 DEF MarkItems, DeleteItems, Stored
  <2>2. (I \union {Deleted(i) : i \in I}) \cap Notice = {} /\ I \cap Notice = {}
    BY MarksDistinct
  <2> HIDE DEF Settle
  <2> QED BY <1>2, <2>1, <2>2
<1>5. CASE PortalMoves \/ Age \/ UNCHANGED vars
  BY <1>1, <1>5 DEF PortalMoves, Age, vars
<1>6. ASSUME NEW w \in Worker, SaveNotice(w) \/ MergeNotice(w) \/ DropDuplicates(w)
      PROVE  contested \subseteq contested'
  BY <1>6 DEF SaveNotice, MergeNotice, DropDuplicates
<1> QED BY <1>1, <1>3, <1>4, <1>5, <1>6, NoticeLessStep DEF Next, Work, NoticeLess

\* A firm row that a job is about to merge or keeps stays, and so does its mark.
RowsKept(j) ==
  \A k \in j.dup : Firm(k) /\ Merging(j, NoticeOf[k]) /\ NoticeOf[k] \notin contested =>
    /\ notice[k] # "none" => notice'[k] # "none"
    /\ NoticeOf[k] \in settled /\ notice[k] = "read" => notice'[k] = "read"

\* A notice keeps a row, a settled mark stays, and so do the rows that jobs at
\* rest rely on.
NoticesStay ==
  /\ \A v \in Worker : job'[v] = job[v] => RowsKept(job[v])
  /\ \A n \in Notice : Covered(n) => Covered(n)'
  /\ \A n \in settled \cap Notice : n \in contested' \/ ReadNotice(n)'

\* A job at rest loses no row to one that drops duplicates.
LEMMA DropSpares ==
  ASSUME TypeInv, NoticeInv, NEW w \in Worker, DropDuplicates(w), NEW v \in Worker, job'[v] = job[v]
  PROVE  RowsKept(job[v])
<1>1. notice' = [k \in Key |-> IF k \in Dropped(w) THEN "none" ELSE notice[k]]
  BY DEF DropDuplicates
<1>2. v # w
  <2>1. job[w] \in Job /\ DOMAIN job = Worker
    BY DEF TypeInv, StateTyped, JobTyped
  <2>2. job[w].pc = "drop" /\ job'[w].pc = "merge"
    BY <2>1 DEF DropDuplicates, Works, At, Job
  <2> QED BY <2>2
<1>3. job[v].dup \subseteq Key
  BY DEF TypeInv, JobTyped, Job
<1>4. ASSUME NEW k \in job[v].dup, Firm(k), Merging(job[v], NoticeOf[k]), NoticeOf[k] \notin contested
      PROVE  k \notin Dropped(w)
  <2>1. SUFFICES ASSUME k \in Dropped(w) PROVE FALSE
    OBVIOUS
  <2>2. Merging(job[w], NoticeOf[k]) /\ ~ Ranked(NoticeOf[k]) /\ NoticeOf[k] \in Notice
    BY <1>3, <1>4, <2>1, DroppedAliases, SnapshotAssumption
  <2> QED BY <1>2, <1>4, <2>2 DEF NoticeInv, OneMerges
<1> QED BY <1>1, <1>3, <1>4 DEF RowsKept

LEMMA NoticesStayStep ==
  ASSUME TypeInv, NoticeInv, [Next]_vars
  PROVE  NoticesStay
<1>0. notice \in [Key -> Flag] /\ Sequenced \subseteq Key /\ NoticeMarksKept
      /\ \A v \in Worker : job[v].dup \subseteq Key
  BY SnapshotAssumption DEF TypeInv, StateTyped, JobTyped, Job, NoticeInv
<1>1. ASSUME \A k \in Key : /\ notice[k] # "none" => notice'[k] # "none"
                            /\ notice[k] = "read" => notice'[k] = "read",
             contested \cap Notice \subseteq contested'
      PROVE  NoticesStay
  <2>1. \A v \in Worker : RowsKept(job[v])
    BY <1>0, <1>1 DEF RowsKept
  <2>2. \A n \in Notice : Covered(n) => Covered(n)'
    BY <1>1 DEF Covered, HasRow
  <2>3. \A n \in settled \cap Notice : n \in contested' \/ ReadNotice(n)'
    BY <1>0, <1>1 DEF NoticeMarksKept, ReadNotice
  <2> QED BY <2>1, <2>2, <2>3 DEF NoticesStay
<1>2. ASSUME MarkNotices PROVE NoticesStay
  <2>1. PICK K \in SUBSET {k \in Key : notice[k] # "none"} :
          /\ notice' = [k \in Key |-> IF k \in K THEN "read" ELSE notice[k]]
          /\ Settle({NoticeOf[k] : k \in K})
    BY <1>2 DEF MarkNotices
  <2>2. \A k \in Key : notice'[k] \in {notice[k], "read"}
    BY <2>1
  <2>3. \A n \in contested : n \in contested' \/ ReadNotice(n)'
    BY <2>1 DEF Settle, ReadNotice
  <2>4. \A v \in Worker : RowsKept(job[v])
    BY <1>0, <2>2 DEF RowsKept
  <2>5. \A n \in Notice : /\ HasRow(n) => HasRow(n)'
                          /\ ReadNotice(n) => ReadNotice(n)'
                          /\ ReadNotice(n)' => HasRow(n)'
    BY <2>2 DEF HasRow, ReadNotice
  <2> QED BY <1>0, <2>3, <2>4, <2>5 DEF NoticesStay, NoticeMarksKept, Covered
<1>3. ASSUME NEW w \in Worker, SaveNotice(w) PROVE NoticesStay
  <2>1. \A k \in Key : notice[k] # "none" => notice'[k] = notice[k]
    BY <1>0, <1>3 DEF SaveNotice
  <2>2. UNCHANGED contested
    BY <1>3 DEF SaveNotice
  <2> QED BY <1>1, <2>1, <2>2
<1>4. ASSUME NEW w \in Worker, MergeNotice(w) PROVE NoticesStay
  <2>0. PICK n \in job[w].todo : \E k \in Preferred(Aliases(w, n)) :
               notice' = [notice EXCEPT ![k] = MergedFlag(w, k)]
    BY <1>4 DEF MergeNotice
  <2>1. PICK k \in Preferred(Aliases(w, n)) : notice' = [notice EXCEPT ![k] = MergedFlag(w, k)]
    BY <2>0
  <2>2. k \in Key /\ k \in job[w].dup /\ NoticeOf[k] = n
    BY DEF Preferred, Aliases, TypeInv, JobTyped, Job
  <2>3. Merging(job[w], n) /\ UNCHANGED contested
    BY <1>4 DEF MergeNotice, At, Merging
  <2>4. n \in settled /\ n \notin contested => MergedFlag(w, k) = "read"
    BY <1>4, <2>2, <2>3 DEF MergeNotice, At, NoticeInv, Held, MergedFlag
  <2>5. MergedFlag(w, k) # "none"
    BY DEF MergedFlag
  <2>6. notice'[k] = MergedFlag(w, k) /\ \A x \in Key : x # k => notice'[x] = notice[x]
    BY <1>0, <2>1, <2>2
  <2>7. \A v \in Worker : RowsKept(job[v])
    BY <1>0, <2>2, <2>4, <2>5, <2>6 DEF RowsKept
  <2>8. \A m \in settled \cap Notice : m \in contested' \/ ReadNotice(m)'
    BY <1>0, <2>2, <2>3, <2>4, <2>6 DEF NoticeMarksKept, ReadNotice
  <2>9. \A m \in Notice : Covered(m) => Covered(m)'
    BY <2>2, <2>3, <2>5, <2>6 DEF Covered, HasRow
  <2> QED BY <2>7, <2>8, <2>9 DEF NoticesStay
<1>5. ASSUME NEW w \in Worker, DropDuplicates(w) PROVE NoticesStay
  <2>1. \A k \in Key : notice'[k] = IF k \in Dropped(w) THEN "none" ELSE notice[k]
    BY <1>5 DEF DropDuplicates
  <2>2. UNCHANGED contested /\ job[w].pc = "drop"
    BY <1>5 DEF DropDuplicates, At
  <2>3. \A x \in job[w].keep : NoticeOf[x] \notin contested =>
          /\ notice[x] # "none"
          /\ NoticeOf[x] \in settled => notice[x] = "read"
    BY <2>2 DEF NoticeInv, Held, Merging
  <2>4. \A n \in Notice : Covered(n) => Covered(n)'
    BY <1>5, <2>1, <2>2, <2>3, DroppedAliases DEF Covered, HasRow
  <2>5. \A n \in settled \cap Notice : n \in contested' \/ ReadNotice(n)'
    BY <1>0, <1>5, <2>1, <2>2, <2>3, DroppedAliases DEF NoticeMarksKept, ReadNotice
  <2> QED BY <1>5, <2>4, <2>5, DropSpares DEF NoticesStay
<1>6. ASSUME PortalMoves \/ Age \/ MarkItems \/ DeleteItems \/ UNCHANGED vars PROVE notice' = notice
  BY <1>6 DEF PortalMoves, Age, MarkItems, DeleteItems, vars, rows
<1>7. ASSUME notice' = notice PROVE NoticesStay
  BY <1>1, <1>2, <1>7, ContestStays
<1> QED BY <1>2, <1>3, <1>4, <1>5, <1>6, <1>7, NoticeLessStep DEF Next, Work, NoticeLess

LEMMA OutsideMerge ==
  ASSUME TypeInv, NEW w \in Worker, Persists(w),
         ~ FindDuplicates(w), ~ MergeNotice(w), ~ DropDuplicates(w)
  PROVE  job'[w].pc \notin {"merge", "drop"}
<1>0. job[w] \in Job /\ DOMAIN job = Worker
  BY DEF TypeInv, StateTyped, JobTyped
<1>1. CASE SaveCourse(w)
  BY <1>0, <1>1 DEF Works, SaveCourse, Saved, At, Job
<1>2. CASE EndOthers(w)
  BY <1>0, <1>2 DEF Works, EndOthers, At, Job
<1>3. CASE SaveNotice(w)
  BY <1>0, <1>3 DEF Works, SaveNotice, Saved, At, Job
<1>4. CASE NoticesDone(w)
  BY <1>0, <1>4 DEF Works, NoticesDone, At, Job
<1>5. CASE SaveItem(w)
  BY <1>0, <1>5 DEF Works, SaveItem, Saved, At, Job
<1>6. CASE ItemsDone(w)
  BY <1>0, <1>6 DEF Works, ItemsDone, At, Job
<1>7. CASE SaveTask(w)
  BY <1>0, <1>7 DEF Works, SaveTask, Saved, At, Job
<1>8. CASE TasksDone(w)
  BY <1>0, <1>8 DEF Works, TasksDone, At, Job
<1>9. CASE MarkAlert(w)
  BY <1>0, <1>9 DEF Works, MarkAlert, At, Job
<1>10. CASE SendAlertMail(w)
  BY <1>0, <1>10 DEF Works, SendAlertMail, At, Job
<1> QED BY <1>1, <1>2, <1>3, <1>4, <1>5, <1>6, <1>7, <1>8, <1>9, <1>10 DEF Persists

LEMMA NoticeStep ==
  ASSUME TypeInv, NoticeInv, [Next]_vars
  PROVE  NoticeInv'
<1>0. NoticesStay /\ NoticeMarksKept /\ DOMAIN job = Worker
      /\ \A v \in Worker : job[v] \in Job /\ Held(job[v])
  BY NoticesStayStep DEF NoticeInv, TypeInv, StateTyped, JobTyped
<1>a. \A v \in Worker : \A n : Merging(job[v], n) /\ n \notin contested' => n \notin contested
  BY ContestStays
\* Whoever stays at its step stays informed.
<1>1. ASSUME UNCHANGED settled, NEW v \in Worker, job'[v] = job[v]
      PROVE  Held(job[v])'
  <2> DEFINE j == job[v]
  <2>1. Held(j) /\ RowsKept(j) /\ \A n : Merging(j, n) /\ n \notin contested' => n \notin contested
    BY <1>0, <1>1, <1>a DEF NoticesStay
  <2>2. SUFFICES ASSUME j.pc \in {"merge", "drop"} PROVE Held(job[v])'
    BY <1>1 DEF Held
  <2>3. \A k \in j.dup : Merging(j, NoticeOf[k]) /\ NoticeOf[k] \notin contested' =>
          /\ Firm(k) => notice'[k] # "none"
          /\ NoticeOf[k] \in settled => NoticeOf[k] \in j.dupRead
    BY <2>1, <2>2 DEF Held, RowsKept
  <2>4. \A k \in j.keep :
          /\ Firm(k) /\ NoticeOf[k] \notin j.todo /\ j.keep = {k} /\ k \in j.dup
          /\ NoticeOf[k] \in settled /\ NoticeOf[k] \notin contested' => notice'[k] = "read"
    <3>1. TAKE k \in j.keep
    <3>2. /\ Firm(k) /\ NoticeOf[k] \notin j.todo /\ j.keep = {k} /\ k \in j.dup
          /\ NoticeOf[k] \in settled /\ NoticeOf[k] \notin contested => notice[k] = "read"
      BY <2>1, <2>2 DEF Held
    <3>3. Merging(j, NoticeOf[k])
      BY <2>2 DEF Merging
    <3> QED BY <2>1, <3>2, <3>3 DEF RowsKept
  <2>5. \A n \in j.todo : \A k \in Preferred({x \in j.dup : NoticeOf[x] = n}) : Firm(k)
    BY <2>1, <2>2 DEF Held
  <2> QED BY <1>1, <2>3, <2>4, <2>5 DEF Held, Merging, Firm, Ranked, Preferred
<1>2. ASSUME UNCHANGED settled PROVE NoticeMarksKept'
  BY <1>0, <1>2 DEF NoticesStay, NoticeMarksKept
\* A worker does not start to merge what another merges without a contest.
<1>3. ASSUME UNCHANGED settled, NEW w \in Worker, Held(job[w])',
             \A v \in Worker \ {w} : job'[v] = job[v],
             \A n \in Notice : Merging(job'[w], n) =>
               \/ Merging(job[w], n)
               \/ \A v \in Worker \ {w} : Merging(job[v], n) /\ ~ Ranked(n) => n \in contested'
      PROVE  NoticeInv'
  <2>1. \A v \in Worker : Held(job[v])'
    BY <1>1, <1>3
  <2>2. ASSUME NEW u \in Worker, NEW v \in Worker, NEW n \in Notice,
               u # v, Merging(job'[u], n), Merging(job'[v], n), ~ Ranked(n)
        PROVE  n \in contested'
    <3>1. \A x \in Worker : Merging(job'[x], n) /\ x # w => Merging(job[x], n)
      BY <1>3
    <3>2. Merging(job[u], n) /\ Merging(job[v], n) => n \in contested'
      BY <1>a, <2>2 DEF NoticeInv, OneMerges
    <3> QED BY <1>3, <2>2, <3>1, <3>2
  <2>3. OneMerges'
    BY <2>2 DEF OneMerges, Merging, Ranked
  <2> QED BY <1>2, <1>3, <2>1, <2>3 DEF NoticeInv
<1>4. ASSUME NEW marks, Settle(marks), UNCHANGED job,
             \A n \in marks \cap Notice : ReadNotice(n)'
      PROVE  NoticeInv'
  <2>1. NoticeMarksKept'
    BY <1>0, <1>4 DEF Settle, NoticesStay, NoticeMarksKept
  <2>2. ASSUME NEW w \in Worker PROVE Held(job[w])'
    <3>1. CASE job[w].pc \in Saving
      <4>1. settled' = settled
        BY <1>4, <3>1 DEF Settle
      <4> QED BY <1>1, <1>4, <4>1
    <3>2. CASE job[w].pc \notin Saving
      BY <1>4, <3>2 DEF Held, Saving
    <3> QED BY <3>1, <3>2
  <2>3. OneMerges'
    BY <1>4, <1>a DEF NoticeInv, OneMerges, Merging, Ranked
  <2> QED BY <2>1, <2>2, <2>3 DEF NoticeInv
<1>5. ASSUME MarkNotices PROVE NoticeInv'
  <2>1. PICK K \in SUBSET {k \in Key : notice[k] # "none"} :
          /\ notice' = [k \in Key |-> IF k \in K THEN "read" ELSE notice[k]]
          /\ Settle({NoticeOf[k] : k \in K})
    BY <1>5 DEF MarkNotices
  <2>2. \A n \in {NoticeOf[k] : k \in K} : ReadNotice(n)'
    BY <2>1 DEF ReadNotice
  <2>3. UNCHANGED job
    BY <1>5 DEF MarkNotices
  <2> HIDE DEF Settle
  <2> QED BY <1>4, <2>1, <2>2, <2>3
<1>6. ASSUME MarkItems \/ DeleteItems PROVE NoticeInv'
  <2>1. PICK I \in SUBSET Item : Settle(I) \/ Settle(I \union {Deleted(i) : i \in I})
    BY <1>6 DEF MarkItems, DeleteItems, Stored
  <2>2. (I \union {Deleted(i) : i \in I}) \cap Notice = {} /\ I \cap Notice = {}
    BY MarksDistinct
  <2>3. UNCHANGED job
    BY <1>6 DEF MarkItems, DeleteItems
  <2> HIDE DEF Settle
  <2> QED BY <1>4, <2>1, <2>2, <2>3
<1>7. ASSUME PortalMoves \/ Age \/ UNCHANGED vars PROVE NoticeInv'
  <2>1. UNCHANGED <<job, settled, contested>>
    BY <1>7 DEF PortalMoves, Age, vars
  <2>2. \A v \in Worker : Held(job[v])'
    BY <1>1, <2>1
  <2>3. OneMerges'
    BY <2>1 DEF NoticeInv, OneMerges, Merging, Ranked
  <2> QED BY <1>2, <2>1, <2>2, <2>3 DEF NoticeInv
\* Steps outside the merge.
<1>8. ASSUME NEW w \in Worker, UNCHANGED settled, job'[w].pc \notin {"merge", "drop"},
             \A v \in Worker \ {w} : job'[v] = job[v]
      PROVE  NoticeInv'
  <2>1. Held(job[w])' /\ \A n : ~ Merging(job'[w], n)
    BY <1>8 DEF Held, Merging
  <2> QED BY <1>3, <1>8, <2>1
<1>9. ASSUME NEW w \in Worker, CollectRoster(w) \/ CollectCourse(w) \/ CollectActivity(w) \/ ReadExisting(w)
      PROVE  /\ job'[w].pc \in {"course", "read", "courses"} /\ UNCHANGED settled
             /\ \A v \in Worker \ {w} : job'[v] = job[v]
  <2>0. job[w] \in Job
    BY <1>0
  <2>1. CASE CollectRoster(w)
    BY <1>0, <2>0, <2>1 DEF CollectRoster, Works, Job
  <2>2. CASE CollectCourse(w)
    BY <1>0, <2>0, <2>2 DEF CollectCourse, Works, At, Job
  <2>3. CASE CollectActivity(w)
    BY <1>0, <2>0, <2>3 DEF CollectActivity, Works, Job
  <2>4. CASE ReadExisting(w)
    BY <1>0, <2>0, <2>4 DEF ReadExisting, Works, Job
  <2> QED BY <1>9, <2>1, <2>2, <2>3, <2>4
<1>10. ASSUME NEW w \in Worker,
              \/ Start(w) \/ WriteCheckpoint(w) \/ Fail(w)
              \/ CollectRoster(w) \/ CollectCourse(w) \/ CollectActivity(w) \/ ReadExisting(w)
              \/ Persists(w) /\ ~ FindDuplicates(w) /\ ~ MergeNotice(w) /\ ~ DropDuplicates(w)
       PROVE  NoticeInv'
  <2>1. CASE Start(w) \/ WriteCheckpoint(w) \/ Fail(w)
    BY <1>8, <2>1, Borders DEF Idle
  <2>2. CASE CollectRoster(w) \/ CollectCourse(w) \/ CollectActivity(w) \/ ReadExisting(w)
    BY <1>8, <1>9, <2>2
  <2>3. CASE Persists(w) /\ ~ FindDuplicates(w) /\ ~ MergeNotice(w) /\ ~ DropDuplicates(w)
    BY <1>8, <2>3, OutsideMerge, CollectedStays
  <2> QED BY <1>10, <2>1, <2>2, <2>3
<1>11. ASSUME NEW w \in Worker, FindDuplicates(w) PROVE NoticeInv'
  <2> DEFINE found == {k \in Key : notice[k] # "none" /\ CourseOf[NoticeOf[k]] \in job[w].courses}
             double == {n \in Notice : Cardinality({k \in found : NoticeOf[k] = n}) > 1}
  <2>1. /\ job'[w].dup = found /\ job'[w].keep = job[w].keep /\ job'[w].pc = "merge"
        /\ job'[w].dupRead = {NoticeOf[k] : k \in {j \in found : notice[j] = "read"}}
        /\ job'[w].todo = double
    BY <1>0, <1>11 DEF FindDuplicates, Works, Job
  <2>2. /\ job[w].pc = "notices" /\ UNCHANGED <<notice, settled>>
        /\ contested' = contested \union
             {n \in double : ~ Ranked(n) /\ \E v \in Worker \ {w} : Merging(job[v], n)}
    BY <1>11 DEF FindDuplicates, At, rows
  <2>3. job'[w].keep = {}
    BY <2>1, <2>2 DEF TypeInv, JobTyped
  <2>4. \A n \in double : \A k \in Preferred({x \in found : NoticeOf[x] = n}) : Firm(k)
    <3>1. TAKE n \in double
    <3> DEFINE K == {x \in found : NoticeOf[x] = n}
    <3>2. K \in SUBSET Key /\ (\A k \in K : NoticeOf[k] = n) /\ Cardinality(K) > 1
      OBVIOUS
    <3>3. \A k \in Preferred(K) : Firm(k)
      <4> HIDE DEF K
      <4> QED BY <3>2, KeeperDecided
    <3> QED BY <3>3
  <2>5. \A k \in found : NoticeOf[k] \in settled /\ NoticeOf[k] \notin contested => NoticeOf[k] \in job'[w].dupRead
    <3>1. TAKE k \in found
    <3>2. HAVE NoticeOf[k] \in settled /\ NoticeOf[k] \notin contested
    <3>3. NoticeOf[k] \in Notice
      BY SnapshotAssumption
    <3>4. PICK x \in Key : NoticeOf[x] = NoticeOf[k] /\ notice[x] = "read"
      BY <1>0, <3>2, <3>3 DEF NoticeMarksKept, ReadNotice
    <3>5. x \in found
      BY <3>4
    <3> QED BY <2>1, <3>4, <3>5
  <2>6. \A k \in found : notice[k] # "none"
    OBVIOUS
  <2>7. \A n \in Notice : Merging(job'[w], n) =>
          \A v \in Worker \ {w} : Merging(job[v], n) /\ ~ Ranked(n) => n \in contested'
    <3> HIDE DEF double
    <3> QED BY <2>1, <2>2, <2>3 DEF Merging
  <2>8. Held(job[w])'
    <3> HIDE DEF found, double
    <3>1. contested \subseteq contested'
      BY <2>2
    <3>2. \A k \in found : NoticeOf[k] \notin contested' =>
            /\ notice'[k] # "none"
            /\ NoticeOf[k] \in settled' => NoticeOf[k] \in job'[w].dupRead
      BY <2>2, <2>5, <2>6, <3>1
    <3> QED BY <2>1, <2>3, <2>4, <3>2 DEF Held, Merging, Firm, Ranked, Preferred
  <2> QED BY <1>3, <1>11, <2>2, <2>7, <2>8, CollectedStays DEF Persists
<1>12. ASSUME NEW w \in Worker, MergeNotice(w) PROVE NoticeInv'
  <2> DEFINE J == job[w]
  <2>0. PICK n \in J.todo : \E k \in Preferred(Aliases(w, n)) :
              /\ notice' = [notice EXCEPT ![k] = MergedFlag(w, k)]
              /\ Works(w, [J EXCEPT !.pc = "drop", !.keep = {k}, !.todo = @ \ {n}])
    BY <1>12 DEF MergeNotice
  <2>1. PICK k \in Preferred(Aliases(w, n)) :
              /\ notice' = [notice EXCEPT ![k] = MergedFlag(w, k)]
              /\ Works(w, [J EXCEPT !.pc = "drop", !.keep = {k}, !.todo = @ \ {n}])
    BY <2>0
  <2>2. /\ job'[w].keep = {k} /\ job'[w].todo = J.todo \ {n} /\ job'[w].pc = "drop"
        /\ job'[w].dup = J.dup /\ job'[w].dupRead = J.dupRead
    BY <1>0, <2>1 DEF Works, Job
  <2>3. J.pc = "merge" /\ UNCHANGED <<settled, contested>>
    BY <1>12 DEF MergeNotice, At
  <2>4. Held(J) /\ notice \in [Key -> Flag] /\ J.dup \subseteq Key
    BY <1>0 DEF Job, TypeInv, StateTyped
  <2>5. k \in J.dup /\ k \in Key /\ NoticeOf[k] = n /\ Firm(k)
    BY <2>3, <2>4 DEF Held, Aliases, Preferred
  <2>6. Merging(J, n) /\ \A m : Merging(job'[w], m) => Merging(J, m)
    BY <2>2, <2>3, <2>5 DEF Merging
  <2>7. /\ notice'[k] = MergedFlag(w, k) /\ MergedFlag(w, k) # "none"
        /\ n \in settled /\ n \notin contested => MergedFlag(w, k) = "read"
        /\ \A x \in Key : x # k => notice'[x] = notice[x]
    BY <2>1, <2>3, <2>4, <2>5, <2>6 DEF Held, MergedFlag
  <2>8. \A x \in J.dup : Merging(job'[w], NoticeOf[x]) /\ NoticeOf[x] \notin contested' =>
          /\ Firm(x) => notice'[x] # "none"
          /\ NoticeOf[x] \in settled' => NoticeOf[x] \in J.dupRead
    BY <2>3, <2>4, <2>6, <2>7 DEF Held
  <2>9. \A m \in job'[w].todo : \A x \in Preferred({y \in J.dup : NoticeOf[y] = m}) : Firm(x)
    BY <2>2, <2>3, <2>4 DEF Held
  <2>10. Held(job[w])'
    BY <2>2, <2>3, <2>5, <2>7, <2>8, <2>9 DEF Held, Merging, Firm, Ranked, Preferred
  <2> QED BY <1>3, <1>12, <2>3, <2>6, <2>10, CollectedStays DEF Persists
<1>13. ASSUME NEW w \in Worker, DropDuplicates(w) PROVE NoticeInv'
  <2> DEFINE J == job[w]
  <2>1. /\ job'[w].keep = {} /\ job'[w].todo = J.todo /\ job'[w].pc = "merge"
        /\ job'[w].dup = J.dup /\ job'[w].dupRead = J.dupRead
        /\ J.pc = "drop" /\ UNCHANGED <<settled, contested>>
    BY <1>0, <1>13 DEF Works, DropDuplicates, At, Job
  <2>2. Held(J) /\ J.dup \subseteq Key
    BY <1>0 DEF Job
  <2>3. \A m : Merging(job'[w], m) => Merging(J, m) /\ m \in J.todo
    BY <2>1 DEF Merging
  <2>4. \A k \in Dropped(w) : NoticeOf[k] \notin J.todo
    BY <2>1, <2>2 DEF Held, Dropped, Aliases
  <2>5. \A k \in Key \ Dropped(w) : notice'[k] = notice[k]
    BY <1>13 DEF DropDuplicates
  <2>6. \A k \in J.dup : Merging(job'[w], NoticeOf[k]) /\ NoticeOf[k] \notin contested' =>
          /\ Firm(k) => notice'[k] # "none"
          /\ NoticeOf[k] \in settled' => NoticeOf[k] \in J.dupRead
    BY <2>1, <2>2, <2>3, <2>4, <2>5 DEF Held
  <2>7. \A m \in J.todo : \A x \in Preferred({y \in J.dup : NoticeOf[y] = m}) : Firm(x)
    BY <2>1, <2>2 DEF Held
  <2>8. Held(job[w])'
    BY <2>1, <2>6, <2>7 DEF Held, Merging, Firm, Ranked, Preferred
  <2> QED BY <1>3, <1>13, <2>1, <2>3, <2>8, CollectedStays DEF Persists
<1> QED
  BY <1>5, <1>6, <1>7, <1>10, <1>11, <1>12, <1>13 DEF Next, Work, Persists

\* A notice that the user marked while no job was saving stays read, under
\* whichever key and whichever of its rows are merged and dropped, unless two
\* jobs merge its rows at a time and no sequence number decides which is kept.
THEOREM MarksOnNoticesKept == Spec => []NoticeMarksKept
<1>1. Init => NoticeInv
  BY DEF Init, NoticeInv, NoticeMarksKept, Held, OneMerges, Merging, Idle
<1>2. NoticeInv => NoticeMarksKept
  BY DEF NoticeInv
<1>3. TypeInv /\ NoticeInv /\ [Next]_vars => NoticeInv'
  BY NoticeStep
<1> QED BY <1>1, <1>2, <1>3, TypeInvAlways, PTL DEF Spec

----------------------------------------------------------------------------
(* What the checkpoint names *)

LaterThanTasks == {"alerts", "checkpoint"}
LaterThanItems == {"tasks"} \union LaterThanTasks
LaterThanNotices == {"merge", "drop", "items"} \union LaterThanItems
LaterThanCourses == {"notices"} \union LaterThanNotices

\* What of S the job has written: all of it in the later steps, and at the step
\* that writes it what is not left to do.
Written(j, S, at, later) == {x \in S : j.pc \in later \/ (j.pc = at /\ x \notin j.todo)}

Persisted(j) ==
  /\ \A c \in Written(j, j.courses, "courses", LaterThanCourses) : course[c] # "none"
  /\ \A k \in Written(j, j.keys, "notices", LaterThanNotices) : Covered(NoticeOf[k])
  /\ \A i \in Written(j, {i \in Item : j.items[i] # "none"}, "items", LaterThanItems) : item[i] # "none"
  /\ \A t \in Written(j, Tasks(j.courses), "tasks", LaterThanTasks) : task[t] # "none"
  /\ Written(j, j.due, "alerts", {"checkpoint"}) \subseteq alerted

CoverInv == CheckpointCovers /\ \A w \in Worker : Persisted(job[w])

\* No step takes a row or an alert away (of the notices, NoticesStay says it).
RowsStay ==
  /\ \A c \in Course : course[c] # "none" => course'[c] # "none"
  /\ \A i \in Item : item[i] # "none" => item'[i] # "none"
  /\ \A t \in Task : task[t] # "none" => task'[t] # "none"
  /\ alerted \subseteq alerted' /\ offered' = offered

LEMMA RowsStayStep ==
  ASSUME TypeInv, [Next]_vars
  PROVE  RowsStay
<1>0. /\ course \in [Course -> {"none", "ACTIVE", "ENDED"}] /\ item \in [Item -> Flag]
      /\ task \in [Task -> {"none", "PENDING", "COMPLETED"}]
  BY DEF TypeInv, StateTyped
<1>1. ASSUME UNCHANGED <<offered, course, item, task, alerted>> PROVE RowsStay
  BY <1>1 DEF RowsStay
<1>2. ASSUME MarkItems \/ DeleteItems PROVE RowsStay
  <2>1. PICK I \in SUBSET Stored : ReadItems(I)
    BY <1>2 DEF MarkItems, DeleteItems
  <2>2. UNCHANGED <<offered, course, task, alerted>>
    BY <1>2 DEF MarkItems, DeleteItems, world, outbox
  <2> QED BY <1>0, <2>1, <2>2 DEF RowsStay, ReadItems
<1>3. ASSUME NEW w \in Worker, SaveCourse(w) PROVE RowsStay
  <2>1. UNCHANGED <<offered, item, task, alerted>>
    BY <1>3 DEF SaveCourse, world, outbox
  <2>2. \A c \in Course : course[c] # "none" => course'[c] # "none"
    BY <1>0, <1>3 DEF SaveCourse
  <2> QED BY <2>1, <2>2 DEF RowsStay
<1>4. ASSUME NEW w \in Worker, EndOthers(w) PROVE RowsStay
  <2>1. UNCHANGED <<offered, item, task, alerted>>
    BY <1>4 DEF EndOthers, world, outbox
  <2>2. \A c \in Course : course[c] # "none" => course'[c] # "none"
    BY <1>0, <1>4 DEF EndOthers
  <2> QED BY <2>1, <2>2 DEF RowsStay
<1>5. ASSUME NEW w \in Worker, SaveItem(w) PROVE RowsStay
  <2>1. UNCHANGED <<offered, course, task, alerted>> /\ job[w].pc = "items"
    BY <1>5 DEF SaveItem, At, world, outbox
  <2>2. PICK i \in job[w].todo : item' = [item EXCEPT ![i] = NextFlag(w, i)]
    BY <1>5 DEF SaveItem
  <2>3. i \in Item /\ NextFlag(w, i) # "none"
    BY <2>1, <2>2 DEF NextFlag, TypeInv, JobTyped, Todo
  <2> QED BY <1>0, <2>1, <2>2, <2>3 DEF RowsStay
<1>6. ASSUME NEW w \in Worker, SaveTask(w) PROVE RowsStay
  <2>1. UNCHANGED <<offered, course, item, alerted>>
    BY <1>6 DEF SaveTask, world, outbox
  <2>2. \A t \in Task : task[t] # "none" => task'[t] # "none"
    BY <1>0, <1>6 DEF SaveTask
  <2> QED BY <2>1, <2>2 DEF RowsStay
<1>7. ASSUME NEW w \in Worker, MarkAlert(w) PROVE RowsStay
  BY <1>7 DEF MarkAlert, RowsStay, world, rows
<1>8. ASSUME PortalMoves \/ Age \/ MarkNotices \/ UNCHANGED vars PROVE RowsStay
  BY <1>1, <1>8 DEF PortalMoves, Age, MarkNotices, vars, world, rows, outbox
<1>9. ASSUME NEW w \in Worker,
             \/ Start(w) \/ CollectRoster(w) \/ CollectCourse(w) \/ CollectActivity(w) \/ ReadExisting(w)
             \/ WriteCheckpoint(w) \/ Fail(w)
      PROVE  RowsStay
  BY <1>1, <1>9 DEF Start, CollectRoster, CollectCourse, CollectActivity, ReadExisting, WriteCheckpoint,
     Fail, world, rows, outbox
<1>10. ASSUME NEW w \in Worker,
              \/ SaveNotice(w) \/ FindDuplicates(w) \/ MergeNotice(w) \/ DropDuplicates(w)
              \/ NoticesDone(w) \/ ItemsDone(w) \/ TasksDone(w) \/ SendAlertMail(w)
       PROVE  RowsStay
  BY <1>1, <1>10 DEF SaveNotice, FindDuplicates, MergeNotice, DropDuplicates, NoticesDone, ItemsDone,
     TasksDone, SendAlertMail, world, rows, outbox
<1> QED
  BY <1>2, <1>3, <1>4, <1>5, <1>6, <1>7, <1>8, <1>9, <1>10 DEF Next, Work

\* What is written stays written.
LEMMA PersistedStays ==
  ASSUME RowsStay, NoticesStay, TypeInv, NEW w \in Worker, Persisted(job[w]), job'[w] = job[w]
  PROVE  Persisted(job[w])'
<1>1. job[w] \in Job
  BY DEF TypeInv, JobTyped
<1>2. \A k \in job[w].keys : NoticeOf[k] \in Notice
  BY <1>1, SnapshotAssumption DEF Job
<1> QED
  BY <1>1, <1>2 DEF RowsStay, NoticesStay, Persisted, Written, Tasks, Job

\* The steps from one kind of row to the next.
LEMMA Advances ==
  ASSUME TypeInv, NEW w \in Worker
  PROVE  /\ EndOthers(w) => /\ job[w].pc = "courses" /\ job[w].todo = {}
                            /\ job'[w].pc = "notices" /\ job'[w].todo = job[w].keys
         /\ FindDuplicates(w) => /\ job[w].pc = "notices" /\ job[w].todo = {} /\ job'[w].pc = "merge"
         /\ MergeNotice(w) => job[w].pc = "merge" /\ job'[w].pc = "drop"
         /\ DropDuplicates(w) => job[w].pc = "drop" /\ job'[w].pc = "merge"
         /\ NoticesDone(w) => /\ job[w].pc = "merge" /\ job'[w].pc = "items"
                              /\ job'[w].todo = {i \in Item : job[w].items[i] # "none"}
         /\ ItemsDone(w) => /\ job[w].pc = "items" /\ job[w].todo = {}
                            /\ job'[w].pc = "tasks" /\ job'[w].todo = Tasks(job[w].courses)
         /\ TasksDone(w) => /\ job[w].pc = "tasks" /\ job[w].todo = {}
                            /\ job'[w].pc = "alerts" /\ job'[w].todo = job'[w].due
         /\ SendAlertMail(w) => /\ job[w].pc = "alerts" /\ job[w].todo = {} /\ job'[w].pc = "checkpoint"
                                /\ job'[w].due = job[w].due
<1>0. job[w] \in Job /\ DOMAIN job = Worker
  BY DEF TypeInv, StateTyped, JobTyped
<1>1. EndOthers(w) => /\ job[w].pc = "courses" /\ job[w].todo = {}
                      /\ job'[w].pc = "notices" /\ job'[w].todo = job[w].keys
  BY <1>0 DEF EndOthers, Works, At, Job
<1>2. FindDuplicates(w) => /\ job[w].pc = "notices" /\ job[w].todo = {} /\ job'[w].pc = "merge"
  BY <1>0 DEF FindDuplicates, Works, At, Job
<1>3. MergeNotice(w) => job[w].pc = "merge" /\ job'[w].pc = "drop"
  BY <1>0 DEF MergeNotice, Works, At, Job
<1>4. DropDuplicates(w) => job[w].pc = "drop" /\ job'[w].pc = "merge"
  BY <1>0 DEF DropDuplicates, Works, At, Job
<1>5. NoticesDone(w) => /\ job[w].pc = "merge" /\ job'[w].pc = "items"
                        /\ job'[w].todo = {i \in Item : job[w].items[i] # "none"}
  BY <1>0 DEF NoticesDone, Works, At, Job
<1>6. ItemsDone(w) => /\ job[w].pc = "items" /\ job[w].todo = {}
                      /\ job'[w].pc = "tasks" /\ job'[w].todo = Tasks(job[w].courses)
  BY <1>0 DEF ItemsDone, Works, At, Job
<1>7. TasksDone(w) => /\ job[w].pc = "tasks" /\ job[w].todo = {}
                      /\ job'[w].pc = "alerts" /\ job'[w].todo = job'[w].due
  BY <1>0 DEF TasksDone, Works, At, Job
<1>8. SendAlertMail(w) => /\ job[w].pc = "alerts" /\ job[w].todo = {} /\ job'[w].pc = "checkpoint"
                          /\ job'[w].due = job[w].due
  BY <1>0 DEF SendAlertMail, Works, At, Job
<1> QED BY <1>1, <1>2, <1>3, <1>4, <1>5, <1>6, <1>7, <1>8

\* The steps that write one row.
LEMMA Writes ==
  ASSUME TypeInv, NEW w \in Worker
  PROVE  /\ SaveCourse(w) => \E c \in job[w].todo :
              /\ job[w].pc = "courses" /\ job'[w].pc = "courses" /\ job'[w].todo = job[w].todo \ {c}
              /\ c \in Course /\ course'[c] # "none"
         /\ SaveNotice(w) => \E k \in job[w].todo :
              /\ job[w].pc = "notices" /\ job'[w].pc = "notices" /\ job'[w].todo = job[w].todo \ {k}
              /\ k \in Key /\ notice'[k] # "none"
         /\ SaveItem(w) => \E i \in job[w].todo :
              /\ job[w].pc = "items" /\ job'[w].pc = "items" /\ job'[w].todo = job[w].todo \ {i}
              /\ i \in Item /\ item'[i] # "none"
         /\ SaveTask(w) => \E t \in job[w].todo :
              /\ job[w].pc = "tasks" /\ job'[w].pc = "tasks" /\ job'[w].todo = job[w].todo \ {t}
              /\ t \in Task /\ task'[t] # "none"
         /\ MarkAlert(w) => \E t \in job[w].todo :
              /\ job[w].pc = "alerts" /\ job'[w].pc = "alerts" /\ job'[w].todo = job[w].todo \ {t}
              /\ job'[w].due = job[w].due /\ t \in alerted'
<1>0. /\ job[w] \in Job /\ DOMAIN job = Worker /\ JobTyped(job[w])
      /\ course \in [Course -> {"none", "ACTIVE", "ENDED"}] /\ notice \in [Key -> Flag]
      /\ item \in [Item -> Flag] /\ task \in [Task -> {"none", "PENDING", "COMPLETED"}]
  BY DEF TypeInv, StateTyped, JobTyped
<1>1. ASSUME NEW x, Saved(w, x)
      PROVE  job'[w].pc = job[w].pc /\ job'[w].todo = job[w].todo \ {x}
  BY <1>0, <1>1 DEF Saved, Works, Job
<1>2. ASSUME SaveCourse(w) PROVE \E c \in job[w].todo :
        /\ job[w].pc = "courses" /\ job'[w].pc = "courses" /\ job'[w].todo = job[w].todo \ {c}
        /\ c \in Course /\ course'[c] # "none"
  <2>1. PICK c \in job[w].todo : course' = [course EXCEPT ![c] = "ACTIVE"] /\ Saved(w, c)
    BY <1>2 DEF SaveCourse
  <2>2. job[w].pc = "courses" /\ c \in Course
    BY <1>0, <1>2, <2>1 DEF SaveCourse, At, JobTyped, Todo, Job
  <2> QED BY <1>0, <1>1, <2>1, <2>2
<1>3. ASSUME SaveNotice(w) PROVE \E k \in job[w].todo :
        /\ job[w].pc = "notices" /\ job'[w].pc = "notices" /\ job'[w].todo = job[w].todo \ {k}
        /\ k \in Key /\ notice'[k] # "none"
  <2>1. PICK k \in job[w].todo :
          notice' = [notice EXCEPT ![k] = IF @ = "none" THEN NewRow(w, k) ELSE @] /\ Saved(w, k)
    BY <1>3 DEF SaveNotice
  <2>2. job[w].pc = "notices" /\ k \in Key /\ NewRow(w, k) # "none"
    BY <1>0, <1>3, <2>1 DEF SaveNotice, At, JobTyped, Todo, Job, NewRow
  <2> QED BY <1>0, <1>1, <2>1, <2>2
<1>4. ASSUME SaveItem(w) PROVE \E i \in job[w].todo :
        /\ job[w].pc = "items" /\ job'[w].pc = "items" /\ job'[w].todo = job[w].todo \ {i}
        /\ i \in Item /\ item'[i] # "none"
  <2>1. PICK i \in job[w].todo : item' = [item EXCEPT ![i] = NextFlag(w, i)] /\ Saved(w, i)
    BY <1>4 DEF SaveItem
  <2>2. job[w].pc = "items" /\ i \in Item /\ NextFlag(w, i) # "none"
    BY <1>0, <1>4, <2>1 DEF SaveItem, At, JobTyped, Todo, NextFlag
  <2> QED BY <1>0, <1>1, <2>1, <2>2
<1>5. ASSUME SaveTask(w) PROVE \E t \in job[w].todo :
        /\ job[w].pc = "tasks" /\ job'[w].pc = "tasks" /\ job'[w].todo = job[w].todo \ {t}
        /\ t \in Task /\ task'[t] # "none"
  <2>1. PICK t \in job[w].todo :
          task' = [task EXCEPT ![t] = IF t \in job[w].done THEN "COMPLETED" ELSE "PENDING"] /\ Saved(w, t)
    BY <1>5 DEF SaveTask
  <2>2. job[w].pc = "tasks" /\ t \in Task
    BY <1>0, <1>5, <2>1 DEF SaveTask, At, JobTyped, Todo, Tasks
  <2> QED BY <1>0, <1>1, <2>1, <2>2
<1>6. ASSUME MarkAlert(w) PROVE \E t \in job[w].todo :
        /\ job[w].pc = "alerts" /\ job'[w].pc = "alerts" /\ job'[w].todo = job[w].todo \ {t}
        /\ job'[w].due = job[w].due /\ t \in alerted'
  <2>1. PICK t \in job[w].todo :
          /\ alerted' = alerted \union {t}
          /\ Works(w, [job[w] EXCEPT !.todo = @ \ {t},
                         !.mail = IF FirstAlert(t) THEN @ \union {t} ELSE @])
    BY <1>6 DEF MarkAlert
  <2>2. job[w].pc = "alerts"
    BY <1>6 DEF MarkAlert, At
  <2> QED BY <1>0, <2>1, <2>2 DEF Works, Job
<1> QED BY <1>2, <1>3, <1>4, <1>5, <1>6

LEMMA PersistStep ==
  ASSUME RowsStay, NoticesStay, TypeInv, NEW w \in Worker, Persisted(job[w]), Persists(w)
  PROVE  Persisted(job[w])'
<1> DEFINE J == job[w]
           K == job'[w]
<1>0. /\ J \in Job /\ Todo(J)
      /\ K.courses = J.courses /\ K.keys = J.keys /\ K.items = J.items
      /\ \A k \in J.keys : k \in Key /\ NoticeOf[k] \in Notice
      /\ Tasks(job[w].courses)' = Tasks(J.courses) /\ Tasks(J.courses) \subseteq Task
  BY CollectedStays, SnapshotAssumption DEF TypeInv, JobTyped, Job, Collected, Tasks, RowsStay
\* Each kind of row: whoever is past it has written all of it.
<1>1. ASSUME NEW c \in Written(K, K.courses, "courses", LaterThanCourses) PROVE course'[c] # "none"
  <2>1. c \in Course /\ c \in J.courses
    BY <1>0 DEF Written, Job
  <2>2. c \in Written(J, J.courses, "courses", LaterThanCourses) => course'[c] # "none"
    BY <2>1 DEF Persisted, RowsStay
  <2> QED
    BY <1>0, <2>1, <2>2, Advances, Writes DEF Persists, Written, LaterThanCourses, LaterThanNotices,
       LaterThanItems, LaterThanTasks
<1>2. ASSUME NEW k \in Written(K, K.keys, "notices", LaterThanNotices) PROVE Covered(NoticeOf[k])'
  <2>1. k \in Key /\ k \in J.keys /\ NoticeOf[k] \in Notice
    BY <1>0 DEF Written
  <2>2. k \in Written(J, J.keys, "notices", LaterThanNotices) => Covered(NoticeOf[k])'
    BY <2>1 DEF Persisted, NoticesStay
  <2>3. notice'[k] # "none" => Covered(NoticeOf[k])'
    BY <2>1 DEF Covered, HasRow
  <2> QED
    BY <1>0, <2>1, <2>2, <2>3, Advances, Writes DEF Persists, Written, LaterThanNotices,
       LaterThanItems, LaterThanTasks
<1>3. ASSUME NEW i \in Written(K, {x \in Item : K.items[x] # "none"}, "items", LaterThanItems)
      PROVE  item'[i] # "none"
  <2>1. i \in Item /\ J.items[i] # "none"
    BY <1>0 DEF Written
  <2>2. i \in Written(J, {x \in Item : J.items[x] # "none"}, "items", LaterThanItems) => item'[i] # "none"
    BY <2>1 DEF Persisted, RowsStay
  <2> QED
    BY <1>0, <2>1, <2>2, Advances, Writes DEF Persists, Written, LaterThanItems, LaterThanTasks
<1>4. ASSUME NEW t \in Written(K, Tasks(J.courses), "tasks", LaterThanTasks) PROVE task'[t] # "none"
  <2>1. t \in Task /\ t \in Tasks(J.courses)
    BY <1>0 DEF Written
  <2>2. t \in Written(J, Tasks(J.courses), "tasks", LaterThanTasks) => task'[t] # "none"
    BY <2>1 DEF Persisted, RowsStay
  <2> QED
    BY <1>0, <2>1, <2>2, Advances, Writes DEF Persists, Written, LaterThanTasks
<1>5. ASSUME NEW t \in Written(K, K.due, "alerts", {"checkpoint"}) PROVE t \in alerted'
  <2>1. t \in Written(J, J.due, "alerts", {"checkpoint"}) => t \in alerted'
    BY DEF Persisted, RowsStay
  <2> QED
    BY <1>0, <2>1, Advances, Writes DEF Persists, Written
<1> QED BY <1>0, <1>1, <1>2, <1>3, <1>4, <1>5 DEF Persisted, Written

LEMMA CoverStep ==
  ASSUME TypeInv, NoticeInv, CoverInv, [Next]_vars
  PROVE  CoverInv'
<1>0. RowsStay /\ NoticesStay /\ DOMAIN job = Worker
  BY RowsStayStep, NoticesStayStep DEF TypeInv, StateTyped
<1>1. ASSUME UNCHANGED checkpoint PROVE CheckpointCovers'
  BY <1>0, <1>1 DEF CoverInv, CheckpointCovers, RowsStay, NoticesStay, Covered, HasRow
<1>2. ASSUME UNCHANGED checkpoint, NEW w \in Worker, Persisted(job[w])',
             \A v \in Worker \ {w} : job'[v] = job[v]
      PROVE  CoverInv'
  <2>1. ASSUME NEW v \in Worker PROVE Persisted(job[v])'
    BY <1>0, <1>2, <2>1, PersistedStays DEF CoverInv
  <2> QED BY <1>1, <1>2, <2>1 DEF CoverInv
<1>3. ASSUME NEW w \in Worker, job'[w].pc \in {"idle", "roster", "course", "read"}
      PROVE  Persisted(job[w])'
  BY <1>3 DEF Persisted, Written, LaterThanCourses, LaterThanNotices, LaterThanItems, LaterThanTasks
<1>4. ASSUME PortalMoves \/ Age \/ MarkNotices \/ MarkItems \/ DeleteItems \/ UNCHANGED vars PROVE CoverInv'
  <2>1. UNCHANGED <<job, checkpoint>>
    BY <1>4 DEF PortalMoves, Age, MarkNotices, MarkItems, DeleteItems, vars, sync
  <2>2. ASSUME NEW v \in Worker PROVE Persisted(job[v])'
    BY <1>0, <2>1, PersistedStays DEF CoverInv
  <2> QED BY <1>1, <2>1, <2>2 DEF CoverInv
<1>5. ASSUME NEW w \in Worker, Start(w) \/ Fail(w) PROVE CoverInv'
  <2>1. UNCHANGED checkpoint
    BY <1>5 DEF Start, Fail, sync
  <2>2. job'[w].pc \in {"idle", "roster"} /\ \A v \in Worker \ {w} : job'[v] = job[v]
    BY <1>5, Borders DEF Idle
  <2> QED BY <1>2, <1>3, <2>1, <2>2
<1>6. ASSUME NEW w \in Worker, CollectRoster(w) \/ CollectCourse(w) \/ CollectActivity(w)
      PROVE  CoverInv'
  <2>0. job[w] \in Job /\ UNCHANGED checkpoint
    BY <1>6 DEF TypeInv, JobTyped, CollectRoster, CollectCourse, CollectActivity, sync
  <2>1. job'[w].pc \in {"course", "read"} /\ \A v \in Worker \ {w} : job'[v] = job[v]
    <3>1. CASE CollectRoster(w)
      BY <1>0, <2>0, <3>1 DEF CollectRoster, Works, Job
    <3>2. CASE CollectCourse(w)
      BY <1>0, <2>0, <3>2 DEF CollectCourse, Works, At, Job
    <3>3. CASE CollectActivity(w)
      BY <1>0, <2>0, <3>3 DEF CollectActivity, Works, Job
    <3> QED BY <1>6, <3>1, <3>2, <3>3
  <2> QED BY <1>2, <1>3, <2>0, <2>1
<1>7. ASSUME NEW w \in Worker, ReadExisting(w) PROVE CoverInv'
  <2>1. /\ job'[w].pc = "courses" /\ job'[w].todo = job'[w].courses
        /\ UNCHANGED checkpoint /\ \A v \in Worker \ {w} : job'[v] = job[v]
    BY <1>0, <1>7 DEF ReadExisting, Works, sync, TypeInv, JobTyped, Job
  <2>2. Persisted(job[w])'
    BY <2>1 DEF Persisted, Written, LaterThanCourses, LaterThanNotices, LaterThanItems, LaterThanTasks
  <2> QED BY <1>2, <2>1, <2>2
<1>8. ASSUME NEW w \in Worker, Persists(w) PROVE CoverInv'
  <2>1. Persisted(job[w])'
    BY <1>0, <1>8, PersistStep DEF CoverInv
  <2> QED BY <1>2, <1>8, <2>1, CollectedStays DEF sync
<1>9. ASSUME NEW w \in Worker, WriteCheckpoint(w) PROVE CoverInv'
  <2> DEFINE J == job[w]
  <2>1. /\ J.pc = "checkpoint" /\ checkpoint' = [stored |-> Contents(w), due |-> J.due]
        /\ UNCHANGED <<course, notice, item, task, alerted, contested>>
    BY <1>9 DEF WriteCheckpoint, Notified, At, rows, outbox
  <2>2. /\ J \in Job /\ Persisted(J)
        /\ \A k \in J.keys : NoticeOf[k] \in Notice
        /\ Tasks(J.courses) \subseteq Task
    BY SnapshotAssumption DEF CoverInv, TypeInv, JobTyped, Job, Tasks
  <2>3. /\ \A c \in J.courses : c \in Course /\ course[c] # "none"
        /\ \A k \in J.keys : NoticeOf[k] \in Notice /\ Covered(NoticeOf[k])
        /\ \A i \in Item : J.items[i] # "none" => item[i] # "none"
        /\ \A t \in Tasks(J.courses) : t \in Task /\ task[t] # "none"
        /\ J.due \subseteq alerted
    BY <2>1, <2>2 DEF Persisted, Written, Job, LaterThanCourses, LaterThanNotices, LaterThanItems,
       LaterThanTasks
  <2>4. ASSUME NEW x \in Contents(w)
        PROVE  /\ x \in Course => course[x] # "none"
               /\ x \in Notice => Covered(x)
               /\ x \in Item => item[x] # "none"
               /\ x \in Task => task[x] # "none"
    BY <2>3, SnapshotAssumption DEF Contents, Thing
  <2>5. CheckpointCovers'
    BY <2>1, <2>3, <2>4 DEF CheckpointCovers, Covered, HasRow
  <2>6. ASSUME NEW v \in Worker PROVE Persisted(job[v])'
    <3>1. CASE v = w
      BY <1>3, <1>9, <3>1, Borders DEF Idle
    <3>2. CASE v # w
      BY <1>0, <1>9, <3>2, Borders, PersistedStays DEF CoverInv
    <3> QED BY <3>1, <3>2
  <2> QED BY <2>5, <2>6 DEF CoverInv
<1> QED
  BY <1>4, <1>5, <1>6, <1>7, <1>8, <1>9 DEF Next, Work, Persists

\* Whatever the snapshot named by the checkpoint contained has a row and its
\* due deadlines are marked, whichever jobs fail half way, overlap or merge
\* duplicates since (but for the same contests).
THEOREM CheckpointMeansStored == Spec => []CheckpointCovers
<1>1. Init => NoticeInv /\ CoverInv
  BY DEF Init, NoticeInv, NoticeMarksKept, Held, OneMerges, Merging, CoverInv, CheckpointCovers, Persisted, Written, Idle,
     LaterThanCourses, LaterThanNotices, LaterThanItems, LaterThanTasks
<1>2. NoticeInv /\ CoverInv => CheckpointCovers
  BY DEF CoverInv
<1>3. TypeInv /\ NoticeInv /\ CoverInv /\ [Next]_vars => NoticeInv' /\ CoverInv'
  BY NoticeStep, CoverStep
<1> QED BY <1>1, <1>2, <1>3, TypeInvAlways, PTL DEF Spec
=============================================================================
