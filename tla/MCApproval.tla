----------------------------- MODULE MCApproval -----------------------------
(* Small instances of Approval: a lecture, and one request at a time.      *)
EXTENDS Approval

CONSTANTS l1, c1
=============================================================================
