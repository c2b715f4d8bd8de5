----------------------------- MODULE MCSnapshot -----------------------------
(* Small instances of Snapshot: a portal shows either a notice that parsers *)
(* know by two keys, or an item, or a course with a task.                   *)
EXTENDS Snapshot

CONSTANTS sy, au, c1, n1, k1, k2, i1, t1

MCNoticeOf == [k \in Key |-> n1]
MCCourseOf == [x \in Notice \union Task |-> c1]
MCPortals == {{c1, k1, k2}, {i1}, {c1, t1}}
=============================================================================
