----------------------------- MODULE MCTunnels ------------------------------
\* Two clients, of which one could hold up the other, with any one fault in what
\* each asks, for either kind of forward.
EXTENDS Tunnels
=============================================================================
