---------------------------- MODULE MCWorkUnits ----------------------------
EXTENDS WorkUnits, TLC

CONSTANTS w1, w2, r1

\* Workers are interchangeable; so are units only up to their key order
Symmetry == Permutations(Workers)
=============================================================================
