----------------------------- MODULE MCDispatch -----------------------------
(* Small instances of Dispatch: sync jobs of two users, an autolearn job.  *)
EXTENDS Dispatch

CONSTANTS u1, u2, s1, s2, a1, c1, c2

MCUserOf == [j \in Job |-> IF j = s2 THEN u2 ELSE u1]
MCTypeOf == [j \in Job |-> IF j = a1 THEN "autolearn" ELSE "sync"]
=============================================================================
