----------------------------- MODULE MCSessions -----------------------------
\* Instances of Sessions for TLC.
EXTENDS Sessions, TLC

\* Attempts and requests are interchangeable; only safety runs use it.
Symmetry == Permutations(Conns) \cup Permutations(Fwds) \cup Permutations(Keys)
=============================================================================
