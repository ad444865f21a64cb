---- MODULE MCAuth ----
EXTENDS Auth, TLC
CONSTANTS q1, q2, admin, other
Symmetry == Permutations(Requests)
====
