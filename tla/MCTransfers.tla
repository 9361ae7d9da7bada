---------------------------- MODULE MCTransfers ----------------------------
\* One transfer: transfers share the map of tokens only, where each has its own
\* ids.  The limit on fruitless attempts is the code's.
EXTENDS Transfers
=============================================================================
