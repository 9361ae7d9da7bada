----------------------------- MODULE MCConnect -----------------------------
\* Two connect tasks: c1 reaches its target n2 through the hop n1, c2 goes
\* straight to n2.
EXTENDS Connect, TLC

CONSTANTS c1, c2, n1, n2

\* The keys are alike to the tasks and to every property.
KeySymmetry == Permutations(HostKeys)

MCRoute == (c1 :> <<n1, n2>>) @@ (c2 :> <<n2>>)
=============================================================================
