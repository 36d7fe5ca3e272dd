------------------------------ MODULE MCFleet ------------------------------
EXTENDS Fleet

CONSTANTS b1, b2, a1, w1, w2
=============================================================================
