---------------------------- MODULE MCCommandLine ---------------------------
EXTENDS CommandLine, TLC

Symmetry == Permutations(Processes)
=============================================================================
