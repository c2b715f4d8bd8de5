----------------------------- MODULE MCJobQueue -----------------------------
(* Small instances of JobQueue.                                            *)
EXTENDS JobQueue, TLC

CONSTANTS u1, sync, notice, learn1, learn2, w1, w2, a1

MCUserOf == [l \in Logical |-> u1]
SyncTypeOf == [l \in Logical |-> IF l = sync THEN "SYNC" ELSE "NOTICE_SCAN"]
LearnTypeOf == [l \in Logical |-> "AUTOLEARN"]
NoSegments == [l \in Logical |-> NoKey]
Chain == [l \in Logical |-> IF l = learn1 THEN learn2 ELSE NoKey]

SyncRequest == {[types |-> SyncType, users |-> User]}
AnyRequest == {[types |-> JobType, users |-> User]}
LearnRequest == {[types |-> {"AUTOLEARN"}, users |-> User]}

Symmetry == Permutations(Worker)
=============================================================================
