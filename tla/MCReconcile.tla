----------------------------- MODULE MCReconcile ----------------------------
(* A small instance of Reconcile: a sync job and an autolearn job of one   *)
(* user.                                                                   *)
EXTENDS Reconcile

CONSTANTS u1, s1, a1

MCUserOf == [j \in Job |-> u1]
MCTypeOf == [j \in Job |-> IF j = a1 THEN "autolearn" ELSE "sync"]
=============================================================================
