---------------------------- MODULE GlobDownload ----------------------------
(***************************************************************************)
(* The download of a wildcard (start_glob_download in                      *)
(* crates/ui/src/backend.rs) over an exec stream (crates/ssh/src/lib.rs):  *)
(* the matching names of a directory are packed by a tar on the remote     *)
(* side, a task pumps the archive into a bounded queue, and a thread       *)
(* unpacks it from there.                                                  *)
(*                                                                         *)
(* The archive is a number of chunks.  The mark of its end is in the last  *)
(* chunk, or in the last but one when the checksum of the compressed       *)
(* stream comes in a chunk of its own.  The unpacking thread stops at the  *)
(* mark and needs everything up to it.  File contents, sizes and the       *)
(* progress shown are left out.                                            *)
(***************************************************************************)
EXTENDS Naturals, Sequences

CONSTANTS QCap,      \* room in the queue (8)
          Chunks,    \* chunks of the whole archive
          Patterns,  \* wildcards the user may ask for, and <<>>
          Names      \* names that may be in the directory

ASSUME GlobAssumption ==
    /\ QCap \in Nat \ {0} /\ Chunks \in Nat \ {0, 1}
    /\ Patterns \subseteq Seq(STRING) /\ Names \subseteq Seq(STRING)
    /\ <<>> \in Patterns

VARIABLES
    pattern,    \* the wildcard asked for, until the directory is listed
    script,     \* what the remote side sends, in order
    code,       \* how its tar ends: "ok", "failed", or "killed" without a status
    mark,       \* the chunk with the end of the archive
    link,       \* whether the connection is up
    stage,      \* where the task is
    pos,        \* messages it has read
    exit,       \* the exit status it has seen, or "none"
    failed,     \* pump_err
    queue,      \* chunks on their way to the extractor
    extractor,  \* "none", "running", "ok", "error"
    unpacked,   \* chunks the extractor has unpacked
    token,      \* the job is in the map of transfers
    cancelled,  \* its token was cancelled
    card        \* its card in the webview

remote == <<script, code, mark>>
stream == <<pos, exit>>
unpacking == <<queue, extractor, unpacked>>
job == <<token, cancelled, card>>
vars == <<pattern, remote, link, stage, stream, failed, unpacking, job>>

\* What a tar may send that has packed n chunks: the order of the end of the
\* stream and the exit status is the server's.
Scripts(n, c) ==
    LET data == [i \in 1..n |-> "data"]
    IN  IF c = "killed" THEN {data \o <<"eof">>}
        ELSE {data \o <<"exit", "eof">>, data \o <<"eof", "exit">>}

AllScripts == UNION {Scripts(n, c) : n \in 0..Chunks, c \in {"ok", "killed"}}

Stages == {"list", "open", "check", "wait", "send", "close", "report", "ended"}

TypeOK ==
    /\ pattern \in Patterns
    /\ script \in AllScripts
    /\ code \in {"ok", "failed", "killed"}
    /\ mark \in {Chunks - 1, Chunks}
    /\ link \in {"up", "lost"}
    /\ stage \in Stages
    /\ pos \in 0..Len(script)
    /\ exit \in {"none", "ok", "failed"}
    /\ failed \in BOOLEAN
    /\ queue \in Seq(1..Chunks) /\ Len(queue) <= QCap
    /\ extractor \in {"none", "running", "ok", "error"}
    /\ unpacked \in Seq(1..Chunks)
    /\ token \in BOOLEAN
    /\ cancelled \in BOOLEAN
    /\ card \in {"none", "running", "done", "error"}

\* A tar that ends well has packed everything; one that fails may have packed all
\* there was, or broken off.  What is no wildcard goes to start_transfer.
Init ==
    /\ pattern \in Patterns
    /\ \E i \in 1..Len(pattern) : pattern[i] \in {"*", "?"}
    /\ code \in {"ok", "failed", "killed"}
    /\ mark \in {Chunks - 1, Chunks}
    /\ \E n \in 0..Chunks :
        /\ code = "ok" => n = Chunks
        /\ script \in Scripts(n, code)
    /\ link = "up"
    /\ stage = "list"
    /\ pos = 0 /\ exit = "none" /\ failed = FALSE
    /\ queue = <<>> /\ extractor = "none" /\ unpacked = <<>>
    /\ token = FALSE /\ cancelled = FALSE /\ card = "none"

-----------------------------------------------------------------------------
\* The list of the directory: an SFTP session and a filter.

\* glob_match: does the pattern match the whole name?  x holds the two.
GlobMatch[x \in Seq(STRING) \X Seq(STRING)] ==
    LET p == x[1]
        n == x[2]
    IN  IF p = <<>> THEN n = <<>>
        ELSE IF Head(p) = "*"
             THEN GlobMatch[<<Tail(p), n>>] \/ (n # <<>> /\ GlobMatch[<<p, Tail(n)>>])
             ELSE /\ n # <<>>
                  /\ Head(p) \in {"?", Head(n)}
                  /\ GlobMatch[<<Tail(p), Tail(n)>>]

\* A mutated form of GlobMatchName: a star stands for one character or more.
GlobMatchPlus[p \in Seq(STRING), n \in Seq(STRING)] ==
    IF p = <<>> THEN n = <<>>
    ELSE /\ n # <<>>
         /\ Head(p) \in {"*", "?", Head(n)}
         /\ GlobMatchPlus[Tail(p), Tail(n)] \/ (Head(p) = "*" /\ GlobMatchPlus[p, Tail(n)])

GlobMatchNamePlus(p, n) == GlobMatchPlus[p, n]

GlobMatchName(p, n) == GlobMatch[<<p, n>>]

\* There is no connection, the directory cannot be read, or nothing matches.
ListFails ==
    /\ stage = "list"
    /\ stage' = "ended"
    /\ pattern' = <<>>
    /\ UNCHANGED <<remote, link, stream, failed, unpacking, job>>

\* Something matches: the job is registered and its card shown.
ListOk ==
    /\ stage = "list"
    /\ \E n \in Names : GlobMatchName(pattern, n)
    /\ stage' = "open"
    /\ pattern' = <<>>
    /\ token' = TRUE
    /\ card' = "running"
    /\ UNCHANGED <<remote, link, stream, failed, unpacking, cancelled>>

-----------------------------------------------------------------------------
\* The task.

\* The server's answer to the exec request: a refusal, or an error of the link.
OpenFails ==
    /\ stage = "open"
    /\ stage' = "report"
    /\ failed' = TRUE
    /\ token' = FALSE
    /\ UNCHANGED <<pattern, remote, link, stream, unpacking, cancelled, card>>

\* exec_stream has started the tar, and the extractor is spawned.  Nobody looks at
\* the token while the task waits for this answer.
OpenOk ==
    /\ stage = "open"
    /\ link = "up"
    /\ stage' = "check"
    /\ extractor' = "running"
    /\ UNCHANGED <<pattern, remote, link, stream, failed, queue, unpacked, job>>

\* A cancelled job reads no more: at the latest after the chunk it waits for.
PumpChecks ==
    /\ stage = "check"
    /\ stage' = IF cancelled THEN "close" ELSE "wait"
    /\ UNCHANGED <<pattern, remote, link, stream, failed, unpacking, job>>

\* next_chunk, while the remote side sends.
Arrives(message) ==
    /\ stage = "wait"
    /\ pos < Len(script)
    /\ script[pos + 1] = message
    /\ pos' = pos + 1

NextData ==
    /\ Arrives("data")
    /\ stage' = "send"
    /\ UNCHANGED <<pattern, remote, link, exit, failed, unpacking, job>>

NextExit ==
    /\ Arrives("exit")
    /\ exit' = code
    /\ UNCHANGED <<pattern, remote, link, stage, failed, unpacking, job>>

\* The stream is over: an error when a status other than zero has come by now.
NextEof ==
    /\ Arrives("eof")
    /\ failed' = (exit = "failed")
    /\ stage' = "close"
    /\ UNCHANGED <<pattern, remote, link, exit, unpacking, job>>

\* The connection is gone, which ends the stream in the same way.
NextNone ==
    /\ stage = "wait"
    /\ link = "lost"
    /\ failed' = (exit = "failed")
    /\ stage' = "close"
    /\ UNCHANGED <<pattern, remote, link, stream, unpacking, job>>

\* A mutated form of PumpSends: it does not wait for room.
PumpSendsUnbounded ==
    /\ stage = "send"
    /\ IF extractor = "running"
       THEN queue' = Append(queue, pos) /\ stage' = "check"
       ELSE stage' = "close" /\ UNCHANGED queue
    /\ UNCHANGED <<pattern, remote, link, stream, failed, extractor, unpacked, job>>

\* The chunk goes into the queue when there is room.  An extractor that has ended
\* ends the pump, which then reads no more of the stream.
PumpSends ==
    /\ stage = "send"
    /\ IF extractor = "running"
       THEN Len(queue) < QCap /\ queue' = Append(queue, pos) /\ stage' = "check"
       ELSE stage' = "close" /\ UNCHANGED queue
    /\ UNCHANGED <<pattern, remote, link, stream, failed, extractor, unpacked, job>>

\* A mutated form of Join: the token stays in the map.
JoinKeepsToken ==
    /\ stage = "close"
    /\ extractor # "running"
    /\ stage' = "report"
    /\ UNCHANGED <<pattern, remote, link, stream, failed, unpacking, job>>

\* The sender is dropped and the extractor awaited; then the token goes.
Join ==
    /\ stage = "close"
    /\ extractor # "running"
    /\ stage' = "report"
    /\ token' = FALSE
    /\ UNCHANGED <<pattern, remote, link, stream, failed, unpacking, cancelled, card>>

Report ==
    /\ stage = "report"
    /\ stage' = "ended"
    /\ card' = IF ~failed /\ extractor = "ok" THEN "done" ELSE "error"
    /\ UNCHANGED <<pattern, remote, link, stream, failed, unpacking, token, cancelled>>

-----------------------------------------------------------------------------
\* The extractor.

\* It takes a chunk, and at the mark it has all it wants.
ExtractTakes ==
    /\ extractor = "running"
    /\ queue # <<>>
    /\ unpacked' = Append(unpacked, Head(queue))
    /\ IF Head(queue) = mark
       THEN extractor' = "ok" /\ queue' = <<>>
       ELSE queue' = Tail(queue) /\ UNCHANGED extractor
    /\ UNCHANGED <<pattern, remote, link, stage, stream, failed, job>>

\* With a chunk at hand it finds the disk full, or the token cancelled when an
\* entry begins.
ExtractFails ==
    /\ extractor = "running"
    /\ queue # <<>>
    /\ extractor' = "error"
    /\ queue' = <<>>
    /\ UNCHANGED <<pattern, remote, link, stage, stream, failed, unpacked, job>>

\* Mutated forms of ExtractEnds: the sender is still there while the extractor is
\* awaited; a stream that breaks off is taken for the end of the archive.
ExtractEndsNever == FALSE /\ UNCHANGED vars

ExtractEndsQuietly ==
    /\ extractor = "running"
    /\ queue = <<>>
    /\ stage = "close"
    /\ extractor' = "ok"
    /\ UNCHANGED <<pattern, remote, link, stage, stream, failed, queue, unpacked, job>>

\* The sender is gone and the archive is not at its end: the compressed stream
\* breaks off, which is an error.
ExtractEnds ==
    /\ extractor = "running"
    /\ queue = <<>>
    /\ stage = "close"
    /\ extractor' = "error"
    /\ UNCHANGED <<pattern, remote, link, stage, stream, failed, queue, unpacked, job>>

-----------------------------------------------------------------------------
\* "xfer_cancel".
Cancel ==
    /\ token
    /\ cancelled' = TRUE
    /\ UNCHANGED <<pattern, remote, link, stage, stream, failed, unpacking, token, card>>

LinkLost ==
    /\ link' = "lost"
    /\ UNCHANGED <<pattern, remote, stage, stream, failed, unpacking, job>>

\* What the task does by itself: neither the answer to the exec request nor what
\* the remote side sends.
Task == PumpChecks \/ NextNone \/ PumpSends \/ Join \/ Report

Extractor == ExtractTakes \/ ExtractFails \/ ExtractEnds

Next ==
    \/ ListFails
    \/ ListOk
    \/ OpenFails
    \/ OpenOk
    \/ Task
    \/ NextData
    \/ NextExit
    \/ NextEof
    \/ Extractor
    \/ Cancel
    \/ LinkLost

Spec == Init /\ [][Next]_vars

\* The task and the thread go on when they can.  Nothing is assumed of the user or
\* of the remote side: neither that it answers nor that it sends.
FairSpec == Spec /\ WF_vars(Task) /\ WF_vars(Extractor)

-----------------------------------------------------------------------------
\* A copy in the sense of Transfers and its user.
Copy == INSTANCE CopyJob
ImplementsCopy == Copy!Spec

\* "Done" is said of a whole archive only: one that was cut off, by the network, by
\* a tar that died, by a cancel or by the local disk, is an error, however much
\* of it was in the queue when that happened.
DoneIsWhole ==
    card = "done" => unpacked = [i \in 1..mark |-> i]

\* A download ends unless the remote side falls silent for ever, when the tar is to
\* be started or while its archive is read: task and extractor never wait for each
\* other, and a queue that is full when either of them gives up holds nobody.
DownloadEnds ==
    []<>(stage \notin {"open", "wait"}) => (card = "running" ~> stage = "ended")

\* What a wildcard stands for: a name that can be cut into pieces, one for each
\* character of the pattern, where a star takes any piece and any other character
\* a piece of one character.
Cuts(p, n) == {c \in [0..Len(p) -> 0..Len(n)] :
                 c[0] = 0 /\ c[Len(p)] = Len(n) /\ \A i \in 1..Len(p) : c[i - 1] <= c[i]}
Stands(p, n) ==
    \E c \in Cuts(p, n) : \A i \in 1..Len(p) :
        p[i] # "*" => c[i] = c[i - 1] + 1 /\ p[i] \in {"?", n[c[i]]}

\* glob_match finds exactly the names that the wildcard stands for, so that the
\* tar packs what the user asked for.
GlobMatchSound ==
    stage = "list" => \A n \in Names : GlobMatchName(pattern, n) <=> Stands(pattern, n)

\* A remote command that has ended with a status other than zero ends its stream
\* with an error (ExecStream in crates/domain/src/traits.rs:133-135).
FailureSurfaces ==
    stage = "close" /\ link = "up" /\ pos > 0 /\ script[pos] = "eof" /\ code = "failed"
        => failed
=============================================================================
