---------------------------- MODULE MCShellPipe -----------------------------
\* Queues of one or two places, so that all of them can be full at once, and
\* enough output and input to fill them and hold a piece in each hand.
EXTENDS ShellPipe
=============================================================================
