------------------------------- MODULE MCTabs -------------------------------
\* Instances of Tabs for TLC.
EXTENDS Tabs, TLC

\* Attempts are interchangeable.
Symmetry == Permutations(Conns)
=============================================================================
