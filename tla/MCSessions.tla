---------------------------- MODULE MCSessions ----------------------------
(* Two tabs of a browser in which a user and an administrator log in.        *)
EXTENDS Sessions, TLC

CONSTANTS t1, t2, u1, a1, m1

Symmetry == Permutations(Tab)
=============================================================================
