----------------------------- MODULE MCPlantSim -----------------------------
EXTENDS PlantSim, TLC

CONSTANTS p1, c1, c2

CallersAlike == Permutations(Callers)
=============================================================================
