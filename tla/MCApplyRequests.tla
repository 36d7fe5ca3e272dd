-------------------------- MODULE MCApplyRequests --------------------------
(* A site of two batteries and two requests.                              *)
EXTENDS ApplyRequests

CONSTANTS b1, b2, s1, r1, r2

MCQHs == 1..2
OneDay == [t \in 0..0 |-> <<1, 1>>]
MCSiteOf == [b \in Batteries |-> s1]
TwoSlots == {<<b1, 1, 1>>, <<b2, 1, 1>>}
MCSchedules == {[q \in QHs |-> 300]}
=============================================================================
