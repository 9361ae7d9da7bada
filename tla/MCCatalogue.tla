---------------------------- MODULE MCCatalogue ----------------------------
\* Three hosts, one of them a demo host; the other two are interchangeable.
EXTENDS Catalogue, TLC

CONSTANTS d, h1, h2

Symmetry == Permutations({h1, h2})
=============================================================================
