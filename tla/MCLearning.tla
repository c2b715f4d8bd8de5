----------------------------- MODULE MCLearning -----------------------------
(* A small instance of Learning: two courses, four tasks.  In one of its    *)
(* task lists the first VOD has no duration and the second is longer than   *)
(* a chunk.                                                                 *)
EXTENDS Learning, TLC

CONSTANTS v1, v2, m1, q1

MCCourseOf == v1 :> 1 @@ m1 :> 1 @@ v2 :> 2 @@ q1 :> 2
MCPos == v1 :> 1 @@ m1 :> 2 @@ v2 :> 1 @@ q1 :> 2
MCKind == v1 :> "VOD" @@ m1 :> "MATERIAL" @@ v2 :> "VOD" @@ q1 :> "QUIZ"
MCLengths == {v1 :> 3 @@ m1 :> 0 @@ v2 :> 1 @@ q1 :> 0,
              v1 :> 0 @@ m1 :> 0 @@ v2 :> 3 @@ q1 :> 0}
=============================================================================
