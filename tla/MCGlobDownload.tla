--------------------------- MODULE MCGlobDownload ---------------------------
\* An archive of four chunks and a queue of two: either side can wait for the
\* other, and chunks are in the queue when one gives up.
EXTENDS GlobDownload, SequencesExt

\* Every pattern and every name of up to three characters over two letters.
MCPatterns == SeqOf({"a", "b", "*", "?"}, 3)
MCNames == SeqOf({"a", "b"}, 3) \ {<<>>}
=============================================================================
