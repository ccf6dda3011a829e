---------------------------- MODULE MCTodoPanel ----------------------------
(* Instances of TodoPanel for TLC.                                         *)
EXTENDS TodoPanel

CONSTANTS t1, i1, i2, i3, d1, d2, m1, m2, s1
=============================================================================
