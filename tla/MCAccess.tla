------------------------------ MODULE MCAccess ------------------------------
(* A small instance of Access: one person with at most two rows, and four   *)
(* mixes of calls.                                                          *)
EXTENDS Access, TLC

CONSTANTS l1, l2, a1, a2

MCPlans ==
  {[logins |-> {l1, l2}, admins |-> {a1}, edits |-> 0, requests |-> FALSE],
   [logins |-> {}, admins |-> {a1, a2}, edits |-> 0, requests |-> FALSE],
   [logins |-> {l1}, admins |-> {}, edits |-> 2, requests |-> FALSE],
   [logins |-> {l1}, admins |-> {a1}, edits |-> 0, requests |-> TRUE]}
=============================================================================
