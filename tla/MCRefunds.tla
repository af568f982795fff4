----------------------------- MODULE MCRefunds -----------------------------
EXTENDS Refunds, TLC

\* The return cases are interchangeable.
Symmetry == Permutations(Returns)
=============================================================================
