------------------------------ MODULE MCFunds ------------------------------
\* Funds for TLC: requests are interchangeable.
EXTENDS Funds, TLC

Symmetry == Permutations(Tasks)
=============================================================================
