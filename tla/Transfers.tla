----------------------------- MODULE Transfers -----------------------------
(***************************************************************************)
(* A file transfer: the rsync job of crates/ui/src/rsync.rs with its       *)
(* retries, and the SFTP copy of crates/ui/src/backend.rs and              *)
(* crates/transfer/src/lib.rs that takes over when the rsync road is       *)
(* closed.                                                                 *)
(*                                                                         *)
(* A transfer runs up to two jobs, one after the other, each with an id of *)
(* its own: a card in the webview and a cancel token in the shared map.    *)
(* The user may cancel a job whose token is in the map at any moment; the  *)
(* job looks at the token at certain points only.  Bytes are counted in    *)
(* chunks of the file.  The length of the pause between two attempts and   *)
(* the estimate of the total are left out.                                 *)
(***************************************************************************)
EXTENDS Naturals

CONSTANTS Xfers,         \* transfers
          Size,          \* chunks in the file
          MaxFruitless   \* MAX_FRUITLESS_ATTEMPTS

ASSUME TransferAssumption == Size \in Nat /\ MaxFruitless \in Nat \ {0}

Protos == {"rsync", "sftp"}

VARIABLES
    stage,      \* where each transfer is
    exit,       \* how its last rsync attempt ended (Outcome)
    verdict,    \* how its current job ended (JobEnd)
    card,       \* the card of each job in the webview
    tokens,     \* the `transfers` map: the jobs that can be cancelled
    cancelled,  \* the jobs whose token was cancelled
    secrets,    \* the transfers whose askpass helper and keys are on disk
    best,       \* high-water mark of the chunks moved
    count,      \* chunks counted by the current attempt, or copied
    before,     \* the high-water mark when the attempt began
    fruitless,  \* attempts in a row that moved nothing new
    early       \* history: jobs cancelled while they were still trying

vars == <<stage, exit, verdict, card, tokens, cancelled, secrets, best, count,
          before, fruitless, early>>
resources == <<card, tokens, secrets>>
counters == <<best, count, before, fruitless>>
cancels == <<cancelled, early>>

\* The stages of the rsync job, up to the point where it lets go of what it
\* holds, and those of the copy, file by file or of a wildcard.
Looping == {"head", "spawn", "attempt", "reaping", "pause"}
RsyncStages == Looping \cup {"exited", "over"}
Copying == {"copyopen", "copyread", "copywrite", "copyflush"}
CopyStages == Copying \cup {"copyhead", "glob", "copied"}
Stages == {"idle", "report", "fallback", "listing", "copyreport", "ended"}
          \cup RsyncStages \cup CopyStages

Outcomes == {"success", "retry", "fatal", "fallback"}
Cards == {"none", "running", "done", "error", "gone"}

TypeOK ==
    /\ stage \in [Xfers -> Stages]
    /\ exit \in [Xfers -> Outcomes \cup {"none"}]
    /\ verdict \in [Xfers -> {"none", "done", "error", "fallback"}]
    /\ card \in [Xfers \X Protos -> Cards]
    /\ tokens \in SUBSET (Xfers \X Protos)
    /\ cancelled \in SUBSET (Xfers \X Protos)
    /\ secrets \in SUBSET Xfers
    /\ best \in [Xfers -> 0..Size]
    /\ count \in [Xfers -> 0..Size]
    /\ before \in [Xfers -> 0..Size]
    /\ fruitless \in [Xfers -> 0..(MaxFruitless - 1)]
    /\ early \in SUBSET (Xfers \X Protos)

Init ==
    /\ stage = [x \in Xfers |-> "idle"]
    /\ exit = [x \in Xfers |-> "none"]
    /\ verdict = [x \in Xfers |-> "none"]
    /\ card = [j \in Xfers \X Protos |-> "none"]
    /\ tokens = {}
    /\ cancelled = {}
    /\ secrets = {}
    /\ best = [x \in Xfers |-> 0]
    /\ count = [x \in Xfers |-> 0]
    /\ before = [x \in Xfers |-> 0]
    /\ fruitless = [x \in Xfers |-> 0]
    /\ early = {}

Goto(x, s) == stage' = [stage EXCEPT ![x] = s]

IsCancelled(x, p) == <<x, p>> \in cancelled

\* The end of the retry loop with the given JobEnd.
Over(x, v) == Goto(x, "over") /\ verdict' = [verdict EXCEPT ![x] = v]

-----------------------------------------------------------------------------
\* "download", "upload": the helper files are written and the token registered;
\* the job shows its card first of all.
Start(x) ==
    /\ stage[x] = "idle"
    /\ Goto(x, "head")
    /\ card' = [card EXCEPT ![<<x, "rsync">>] = "running"]
    /\ tokens' = tokens \cup {<<x, "rsync">>}
    /\ secrets' = secrets \cup {x}
    /\ UNCHANGED <<exit, verdict, counters, cancels>>

\* The job will look at its token again before it can be through: an rsync job
\* whose attempt has not ended, a copy that has something left to read.
LooksAgain(x, p) ==
    \/ p = "rsync" /\ stage[x] \in Looping
    \/ p = "sftp" /\ stage[x] \in {"copyopen", "copyhead", "copywrite"}
    \/ p = "sftp" /\ stage[x] = "copyread" /\ count[x] < Size

\* "xfer_cancel".
Cancel(x, p) ==
    /\ <<x, p>> \in tokens
    /\ cancelled' = cancelled \cup {<<x, p>>}
    /\ early' = IF LooksAgain(x, p) THEN early \cup {<<x, p>>} ELSE early
    /\ UNCHANGED <<stage, exit, verdict, resources, counters>>

-----------------------------------------------------------------------------
\* Job::run and Job::attempt.

LoopHead(x) ==
    /\ stage[x] = "head"
    /\ IF IsCancelled(x, "rsync")
       THEN Over(x, "error") /\ UNCHANGED before
       ELSE /\ Goto(x, "spawn")
            /\ before' = [before EXCEPT ![x] = best[x]]
            /\ UNCHANGED verdict
    /\ UNCHANGED <<exit, resources, best, count, fruitless, cancels>>

SpawnOk(x) ==
    /\ stage[x] = "spawn"
    /\ Goto(x, "attempt")
    /\ count' = [count EXCEPT ![x] = 0]
    /\ UNCHANGED <<exit, verdict, resources, best, before, fruitless, cancels>>

\* There is no rsync here (NotFound), or it cannot be started.
SpawnFails(x) ==
    /\ stage[x] = "spawn"
    /\ \E v \in {"fallback", "error"} : Over(x, v)
    /\ UNCHANGED <<exit, resources, counters, cancels>>

\* A progress2 line: a resumed attempt counts from zero again.
Progress(x) ==
    /\ stage[x] = "attempt"
    /\ count[x] < Size
    /\ count' = [count EXCEPT ![x] = count[x] + 1]
    /\ best' = [best EXCEPT ![x] = IF count[x] + 1 > best[x] THEN count[x] + 1
                                   ELSE best[x]]
    /\ UNCHANGED <<stage, exit, verdict, resources, before, fruitless, cancels>>

\* The child's stdout comes to its end.
AttemptEof(x) ==
    /\ stage[x] = "attempt"
    /\ Goto(x, "reaping")
    /\ UNCHANGED <<exit, verdict, resources, counters, cancels>>

\* A mutated form of AttemptKilled: the child is not killed.
AttemptKilledNever(x) == FALSE /\ UNCHANGED vars

\* The tick finds the token cancelled and kills the child, and only it: not the
\* ssh that the child has started.
AttemptKilled(x) ==
    /\ stage[x] = "attempt"
    /\ IsCancelled(x, "rsync")
    /\ Goto(x, "reaping")
    /\ UNCHANGED <<exit, verdict, resources, counters, cancels>>

\* The child has ended and its stderr is closed by everyone who holds it, that
\* ssh included; classify says how the attempt went.  Nobody looks at the token
\* while the job waits for either.
AttemptEnds(x) ==
    /\ stage[x] = "reaping"
    /\ Goto(x, "exited")
    /\ \E o \in Outcomes : exit' = [exit EXCEPT ![x] = o]
    /\ UNCHANGED <<verdict, resources, counters, cancels>>

\* Mutated forms of AttemptOver: the token is not looked at after the attempt.
AttemptOverUnchecked(x) ==
    /\ stage[x] = "exited"
    /\ \/ exit[x] = "success" /\ Over(x, "done")
       \/ exit[x] = "success" /\ best[x] = 0 /\ Over(x, "error")
       \/ exit[x] = "fallback" /\ Over(x, "fallback")
       \/ exit[x] = "fatal" /\ Over(x, "error")
    /\ UNCHANGED <<exit, resources, counters, cancels>>

\* The attempt settles the job: a cancelled one is an error whatever the child
\* did, and so is a success that only skipped directories.
AttemptOver(x) ==
    /\ stage[x] = "exited"
    /\ \/ IsCancelled(x, "rsync") /\ Over(x, "error")
       \/ /\ ~IsCancelled(x, "rsync")
          /\ \/ exit[x] = "success" /\ Over(x, "done")
             \/ exit[x] = "success" /\ best[x] = 0 /\ Over(x, "error")
             \/ exit[x] = "fallback" /\ Over(x, "fallback")
             \/ exit[x] = "fatal" /\ Over(x, "error")
    /\ UNCHANGED <<exit, resources, counters, cancels>>

\* Mutated forms of RetryFruitless: nothing is counted; the limit is passed.
RetryFruitlessUncounted(x) ==
    /\ stage[x] = "exited" /\ exit[x] = "retry" /\ ~IsCancelled(x, "rsync")
    /\ best[x] <= before[x]
    /\ Goto(x, "pause")
    /\ UNCHANGED <<exit, verdict, resources, counters, cancels>>

RetryFruitlessOffByOne(x) ==
    /\ stage[x] = "exited" /\ exit[x] = "retry" /\ ~IsCancelled(x, "rsync")
    /\ best[x] <= before[x]
    /\ fruitless[x] < MaxFruitless
    /\ Goto(x, "pause")
    /\ fruitless' = [fruitless EXCEPT ![x] = fruitless[x] + 1]
    /\ UNCHANGED <<exit, verdict, resources, best, count, before, cancels>>

\* A transient failure: a pause, unless too many attempts moved nothing new.
RetryMoved(x) ==
    /\ stage[x] = "exited" /\ exit[x] = "retry" /\ ~IsCancelled(x, "rsync")
    /\ best[x] > before[x]
    /\ Goto(x, "pause")
    /\ fruitless' = [fruitless EXCEPT ![x] = 0]
    /\ UNCHANGED <<exit, verdict, resources, best, count, before, cancels>>

RetryFruitless(x) ==
    /\ stage[x] = "exited" /\ exit[x] = "retry" /\ ~IsCancelled(x, "rsync")
    /\ best[x] <= before[x]
    /\ fruitless[x] + 1 < MaxFruitless
    /\ Goto(x, "pause")
    /\ fruitless' = [fruitless EXCEPT ![x] = fruitless[x] + 1]
    /\ UNCHANGED <<exit, verdict, resources, best, count, before, cancels>>

RetryGivesUp(x) ==
    /\ stage[x] = "exited" /\ exit[x] = "retry" /\ ~IsCancelled(x, "rsync")
    /\ best[x] <= before[x]
    /\ fruitless[x] + 1 >= MaxFruitless
    /\ Over(x, "error")
    /\ UNCHANGED <<exit, resources, counters, cancels>>

\* sleep_cancellable is over, or cut short; the loop goes round.
PauseEnds(x) ==
    /\ stage[x] = "pause"
    /\ Goto(x, "head")
    /\ UNCHANGED <<exit, verdict, resources, counters, cancels>>

\* A mutated form of Release: a job that falls back keeps its helper files.
ReleaseDoneOnly(x) ==
    /\ stage[x] = "over"
    /\ Goto(x, "report")
    /\ tokens' = tokens \ {<<x, "rsync">>}
    /\ secrets' = IF verdict[x] = "fallback" THEN secrets ELSE secrets \ {x}
    /\ UNCHANGED <<exit, verdict, card, counters, cancels>>

\* launch, after the loop: the helper files and the token are removed ...
Release(x) ==
    /\ stage[x] = "over"
    /\ Goto(x, "report")
    /\ tokens' = tokens \ {<<x, "rsync">>}
    /\ secrets' = secrets \ {x}
    /\ UNCHANGED <<exit, verdict, card, counters, cancels>>

\* ... and the card gets its last word, with which the job is gone.
Report(x) ==
    /\ stage[x] = "report"
    /\ best' = [best EXCEPT ![x] = 0]
    /\ count' = [count EXCEPT ![x] = 0]
    /\ before' = [before EXCEPT ![x] = 0]
    /\ fruitless' = [fruitless EXCEPT ![x] = 0]
    /\ IF verdict[x] = "fallback"
       THEN /\ card' = [card EXCEPT ![<<x, "rsync">>] = "gone"]
            /\ Goto(x, "fallback")
       ELSE /\ card' = [card EXCEPT ![<<x, "rsync">>] = verdict[x]]
            /\ Goto(x, "ended")
    /\ UNCHANGED <<exit, verdict, tokens, secrets, cancels>>

-----------------------------------------------------------------------------
\* The fallback: start_transfer, or start_glob_download for a wildcard.

\* The session is gone by now, or a directory was to be uploaded.
FallbackRefused(x) ==
    /\ stage[x] = "fallback"
    /\ Goto(x, "ended")
    /\ UNCHANGED <<exit, verdict, resources, counters, cancels>>

FallbackLists(x) ==
    /\ stage[x] = "fallback"
    /\ Goto(x, "listing")
    /\ UNCHANGED <<exit, verdict, resources, counters, cancels>>

\* The directory cannot be listed, or nothing matches.
ListFails(x) ==
    /\ stage[x] = "listing"
    /\ Goto(x, "ended")
    /\ UNCHANGED <<exit, verdict, resources, counters, cancels>>

\* A copy begins: its token is registered and its card shown.
CopyBegins(x, s) ==
    /\ Goto(x, s)
    /\ card' = [card EXCEPT ![<<x, "sftp">>] = "running"]
    /\ tokens' = tokens \cup {<<x, "sftp">>}
    /\ UNCHANGED <<exit, verdict, secrets, counters, cancels>>

FileStarts(x) == stage[x] = "fallback" /\ CopyBegins(x, "copyopen")

\* What is listed is copied, which is GlobDownload.
GlobStarts(x) == stage[x] = "listing" /\ CopyBegins(x, "glob")

Copied(x, v) == Goto(x, "copied") /\ verdict' = [verdict EXCEPT ![x] = v]

GlobOver(x) ==
    /\ stage[x] = "glob"
    /\ \E v \in {"done", "error"} : Copied(x, v)
    /\ UNCHANGED <<exit, resources, counters, cancels>>

\* The SFTP channel and both files are open, that of the destination created anew.
CopyOpens(x) ==
    /\ stage[x] = "copyopen"
    /\ Goto(x, "copyhead")
    /\ UNCHANGED <<exit, verdict, resources, counters, cancels>>

\* Before each chunk the copy looks at its token.
CopyHead(x) ==
    /\ stage[x] = "copyhead"
    /\ IF IsCancelled(x, "sftp")
       THEN Copied(x, "error")
       ELSE Goto(x, "copyread") /\ UNCHANGED verdict
    /\ UNCHANGED <<exit, resources, counters, cancels>>

CopyReads(x) ==
    /\ stage[x] = "copyread"
    /\ Goto(x, IF count[x] < Size THEN "copywrite" ELSE "copyflush")
    /\ UNCHANGED <<exit, verdict, resources, counters, cancels>>

CopyWrites(x) ==
    /\ stage[x] = "copywrite"
    /\ Goto(x, "copyhead")
    /\ count' = [count EXCEPT ![x] = count[x] + 1]
    /\ UNCHANGED <<exit, verdict, resources, best, before, fruitless, cancels>>

CopyFlushes(x) ==
    /\ stage[x] = "copyflush"
    /\ Copied(x, "done")
    /\ UNCHANGED <<exit, resources, counters, cancels>>

\* The server, the network or the local disk refuses.
CopyFails(x) ==
    /\ stage[x] \in Copying
    /\ Copied(x, "error")
    /\ UNCHANGED <<exit, resources, counters, cancels>>

\* A mutated form of CopyRelease: the token stays in the map.
CopyReleaseForgets(x) ==
    /\ stage[x] = "copied"
    /\ Goto(x, "copyreport")
    /\ UNCHANGED <<exit, verdict, resources, counters, cancels>>

CopyRelease(x) ==
    /\ stage[x] = "copied"
    /\ Goto(x, "copyreport")
    /\ tokens' = tokens \ {<<x, "sftp">>}
    /\ UNCHANGED <<exit, verdict, card, secrets, counters, cancels>>

CopyReport(x) ==
    /\ stage[x] = "copyreport"
    /\ Goto(x, "ended")
    /\ card' = [card EXCEPT ![<<x, "sftp">>] = verdict[x]]
    /\ UNCHANGED <<exit, verdict, tokens, secrets, counters, cancels>>

-----------------------------------------------------------------------------
\* The steps that wait for nobody: neither the user, nor the child, nor the net.
Prompt(x) ==
    \/ LoopHead(x)
    \/ SpawnOk(x)
    \/ SpawnFails(x)
    \/ AttemptKilled(x)
    \/ AttemptOver(x)
    \/ RetryMoved(x)
    \/ RetryFruitless(x)
    \/ RetryGivesUp(x)
    \/ PauseEnds(x)
    \/ Release(x)
    \/ Report(x)
    \/ FallbackRefused(x)
    \/ FallbackLists(x)
    \/ CopyHead(x)
    \/ CopyRelease(x)
    \/ CopyReport(x)

Next ==
    \E x \in Xfers :
        \/ Start(x)
        \/ \E p \in Protos : Cancel(x, p)
        \/ Prompt(x)
        \/ Progress(x)
        \/ AttemptEof(x)
        \/ AttemptEnds(x)
        \/ ListFails(x)
        \/ FileStarts(x)
        \/ GlobStarts(x)
        \/ GlobOver(x)
        \/ CopyOpens(x)
        \/ CopyReads(x)
        \/ CopyWrites(x)
        \/ CopyFlushes(x)
        \/ CopyFails(x)

Spec == Init /\ [][Next]_vars

\* A spawned task that is ready runs, and its timers fire (the pause, the tick
\* that looks at the token).  Nothing is assumed of a child, killed or not, of
\* what it has started, or of a server.
FairSpec == Spec /\ \A x \in Xfers : WF_vars(Prompt(x))

-----------------------------------------------------------------------------
\* On each of the many ways out of the retry loop the job lets go of its token
\* and its secret files, and never before: the helper outlives every retry.
\* No card of an ended transfer is left running.
ReleasedOnEveryPath ==
    \A x \in Xfers :
        /\ <<x, "rsync">> \in tokens <=> stage[x] \in RsyncStages
        /\ x \in secrets <=> stage[x] \in RsyncStages
        /\ <<x, "sftp">> \in tokens <=> stage[x] \in CopyStages
        /\ stage[x] = "ended" => \A p \in Protos : card[<<x, p>>] # "running"

\* The copy of each transfer is one in the sense of CopyJob, which the download of
\* a wildcard implements step by step (GlobDownload).
Copy(x) == INSTANCE CopyJob WITH card <- card[<<x, "sftp">>],
                                 token <- <<x, "sftp">> \in tokens,
                                 cancelled <- IsCancelled(x, "sftp")
copy(x) == <<card[<<x, "sftp">>], <<x, "sftp">> \in tokens, IsCancelled(x, "sftp")>>
ImplementsCopy ==
    /\ \A x \in Xfers : Copy(x)!Init
    /\ [][\A x \in Xfers : Copy(x)!Next \/ UNCHANGED copy(x)]_vars

\* A job cancelled while it was trying never reports success: not an rsync job whose
\* attempt under way then succeeds, nor a copy that had anything left to read.
CancelWins ==
    \A x \in Xfers, p \in Protos : <<x, p>> \in early => card[<<x, p>>] # "done"

\* A cancelled rsync job ends, even if the child would have run for ever, in every
\* stage at which the cancel meets it; unless the stderr of a child that is gone
\* stays open, for which the job waits whether it is cancelled or not.
CancelledEnds ==
    \A x \in Xfers :
        []<>(stage[x] # "reaping")
            => (IsCancelled(x, "rsync")
                    ~> card[<<x, "rsync">>] \notin {"none", "running"})

\* A transfer comes to an end if no attempt and no copy goes on for ever: a
\* failure that is always taken for transient does not spin (the comment on
\* MAX_FRUITLESS_ATTEMPTS).
EveryTransferEnds ==
    \A x \in Xfers :
        []<>(stage[x] \notin {"attempt", "reaping", "listing", "glob"} \cup Copying)
            => (stage[x] # "idle" ~> stage[x] = "ended")
=============================================================================
