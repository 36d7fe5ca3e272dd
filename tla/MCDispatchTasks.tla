-------------------------- MODULE MCDispatchTasks --------------------------
(* Plants do not affect each other: one or two of them. *)
EXTENDS DispatchTasks

CONSTANTS c1, c2, p1, p2, i1, i2, i3
=============================================================================
