-------------------------- MODULE TransfersProofs --------------------------
(***************************************************************************)
(* Theorems about Transfers, for any set of transfers, files of any length *)
(* and any limit on fruitless attempts: type correctness, everything a job *)
(* holds let go on each of the ways out of it, no success reported for a   *)
(* job that was cancelled while it was trying, each copy one in the sense  *)
(* of CopyJob, and what the liveness of a transfer needs besides fairness. *)
(***************************************************************************)
EXTENDS Transfers, TLAPS

\* What the job of a transfer holds, and what its cards say, at each stage.
Held(x) ==
    /\ <<x, "rsync">> \in tokens <=> stage[x] \in RsyncStages
    /\ x \in secrets <=> stage[x] \in RsyncStages
    /\ <<x, "sftp">> \in tokens <=> stage[x] \in CopyStages

Shown(x) ==
    /\ stage[x] \in RsyncStages \cup {"report"} <=> card[<<x, "rsync">>] = "running"
    /\ stage[x] \in CopyStages \cup {"copyreport"} <=> card[<<x, "sftp">>] = "running"
    /\ stage[x] \in {"idle", "report", "fallback", "listing"} \cup RsyncStages
         => card[<<x, "sftp">>] = "none"

\* A job that is over has a verdict, and a copy never asks for another way.
Judged(x) ==
    /\ stage[x] \in {"over", "report"} => verdict[x] # "none"
    /\ stage[x] \in {"copied", "copyreport"} => verdict[x] \in {"done", "error"}

\* A chunk is written only where the file has one.
Room(x) == stage[x] = "copywrite" => count[x] < Size

\* Where a job can be that was cancelled while it was trying: it is not on the last
\* stretch to a success, and what is said of it is none.
CancelHeard(x) ==
    /\ \A p \in Protos : <<x, p>> \in early => <<x, p>> \in cancelled
    /\ <<x, "rsync">> \in early =>
         /\ stage[x] \in {"over", "report"} => verdict[x] # "done"
         /\ card[<<x, "rsync">>] # "done"
    /\ <<x, "sftp">> \in early =>
         /\ stage[x] \in {"copyopen", "copyhead", "copyread", "copywrite", "copied",
                          "copyreport", "ended"}
         /\ stage[x] = "copyread" => count[x] < Size
         /\ stage[x] \in {"copied", "copyreport"} => verdict[x] = "error"
         /\ card[<<x, "sftp">>] # "done"

JobInv(x) == Held(x) /\ Shown(x) /\ Judged(x) /\ Room(x) /\ CancelHeard(x)
Inv == TypeOK /\ \A x \in Xfers : JobInv(x)

-----------------------------------------------------------------------------
\* The actions of the job of x, by what they are about.
RsyncStep(x) ==
    \/ Start(x) \/ LoopHead(x) \/ SpawnOk(x) \/ SpawnFails(x) \/ Progress(x)
    \/ AttemptEof(x) \/ AttemptKilled(x) \/ AttemptEnds(x) \/ AttemptOver(x)
    \/ RetryMoved(x) \/ RetryFruitless(x) \/ RetryGivesUp(x) \/ PauseEnds(x) \/ Release(x)
    \/ Report(x)

CopyStep(x) ==
    \/ FallbackRefused(x) \/ FallbackLists(x) \/ ListFails(x) \/ FileStarts(x)
    \/ GlobStarts(x) \/ GlobOver(x) \/ CopyOpens(x) \/ CopyHead(x) \/ CopyReads(x)
    \/ CopyWrites(x) \/ CopyFlushes(x) \/ CopyFails(x) \/ CopyRelease(x)
    \/ CopyReport(x)

JobStep(x) == RsyncStep(x) \/ CopyStep(x) \/ \E p \in Protos : Cancel(x, p)

LEMMA StepOfOne == Next => \E x \in Xfers : JobStep(x)
BY DEF Next, Prompt, JobStep, RsyncStep, CopyStep

\* What the step of one transfer leaves alone of another.
Untouched(y) ==
    /\ stage'[y] = stage[y]
    /\ verdict'[y] = verdict[y]
    /\ count'[y] = count[y]
    /\ y \in secrets' <=> y \in secrets
    /\ \A p \in Protos :
        /\ card'[<<y, p>>] = card[<<y, p>>]
        /\ <<y, p>> \in tokens' <=> <<y, p>> \in tokens
        /\ <<y, p>> \in cancelled' <=> <<y, p>> \in cancelled
        /\ <<y, p>> \in early' <=> <<y, p>> \in early

LEMMA OthersUntouched ==
    ASSUME TypeOK, NEW x \in Xfers, JobStep(x), NEW y \in Xfers, y # x
    PROVE  Untouched(y)
<1> USE DEF TypeOK, Untouched, Goto, Over, Copied, CopyBegins, resources, counters,
            cancels, Protos
<1>1. CASE RsyncStep(x)
  BY <1>1 DEF RsyncStep, Start, LoopHead, SpawnOk, SpawnFails, Progress,
              AttemptEof, AttemptEnds, AttemptKilled, AttemptOver, RetryMoved, RetryFruitless,
              RetryGivesUp, PauseEnds, Release, Report
<1>2. CASE CopyStep(x)
  BY <1>2 DEF CopyStep, FallbackRefused, FallbackLists, ListFails, FileStarts,
              GlobStarts, GlobOver, CopyOpens, CopyHead, CopyReads, CopyWrites,
              CopyFlushes, CopyFails, CopyRelease, CopyReport
<1>3. ASSUME NEW p \in Protos, Cancel(x, p) PROVE Untouched(y)
  BY <1>3 DEF Cancel
<1> QED
  BY <1>1, <1>2, <1>3 DEF JobStep

\* The types, with the room for a chunk that a copy writes.
LEMMA TypeStep ==
    ASSUME TypeOK, \A y \in Xfers : Room(y) /\ Judged(y), NEW x \in Xfers, JobStep(x)
    PROVE  TypeOK'
<1> USE TransferAssumption
    DEF TypeOK, Goto, Over, Copied, CopyBegins, resources, counters, cancels, Protos,
        Stages, RsyncStages, CopyStages, Looping, Copying, Cards, Outcomes
<1>1. CASE RsyncStep(x)
  <2>1. CASE Start(x)
    BY <2>1 DEF Start
  <2>2. CASE LoopHead(x)
    <3>1. \/ stage' = [stage EXCEPT ![x] = "over"]
          \/ stage' = [stage EXCEPT ![x] = "spawn"]
      BY <2>2 DEF LoopHead
    <3>2. verdict' = verdict \/ verdict' = [verdict EXCEPT ![x] = "error"]
      BY <2>2 DEF LoopHead
    <3>3. before' = before \/ before' = [before EXCEPT ![x] = best[x]]
      BY <2>2 DEF LoopHead
    <3>4. stage' \in [Xfers -> Stages]
      BY <3>1
    <3>5. verdict' \in [Xfers -> {"none", "done", "error", "fallback"}]
      BY <3>2
    <3>6. before' \in [Xfers -> 0..Size]
      BY <3>3
    <3> QED
      BY <2>2, <3>4, <3>5, <3>6 DEF LoopHead
  <2>3. CASE SpawnOk(x)
    <3>1. count' = [count EXCEPT ![x] = 0] /\ stage' = [stage EXCEPT ![x] = "attempt"]
      BY <2>3 DEF SpawnOk
    <3>2. count' \in [Xfers -> 0..Size] /\ stage' \in [Xfers -> Stages]
      BY <3>1
    <3> QED
      BY <2>3, <3>2 DEF SpawnOk
  <2>4. CASE SpawnFails(x)
    BY <2>4 DEF SpawnFails
  <2>5. CASE Progress(x)
    BY <2>5 DEF Progress
  <2>6. CASE AttemptEnds(x)
    BY <2>6 DEF AttemptEnds
  <2>7. CASE AttemptKilled(x)
    BY <2>7 DEF AttemptKilled
  <2>8. CASE AttemptOver(x)
    BY <2>8 DEF AttemptOver
  <2>9. CASE RetryMoved(x)
    BY <2>9 DEF RetryMoved
  <2>10. CASE RetryFruitless(x)
    BY <2>10 DEF RetryFruitless
  <2>11. CASE RetryGivesUp(x)
    BY <2>11 DEF RetryGivesUp
  <2>12. CASE PauseEnds(x)
    BY <2>12 DEF PauseEnds
  <2>13. CASE Release(x)
    BY <2>13 DEF Release
  <2>15. CASE AttemptEof(x)
    BY <2>15 DEF AttemptEof
  <2>14. CASE Report(x)
    <3>1. verdict[x] \in {"done", "error", "fallback"}
      BY <2>14 DEF Report, Judged
    <3>2. card' \in [Xfers \X Protos -> Cards]
      BY <2>14, <3>1 DEF Report
    <3>3. stage' \in [Xfers -> Stages]
      BY <2>14 DEF Report
    <3>4. /\ best' = [best EXCEPT ![x] = 0]
          /\ count' = [count EXCEPT ![x] = 0]
          /\ before' = [before EXCEPT ![x] = 0]
          /\ fruitless' = [fruitless EXCEPT ![x] = 0]
          /\ UNCHANGED <<exit, verdict, tokens, secrets, cancelled, early>>
      BY <2>14 DEF Report
    <3>5. /\ {best', count', before'} \subseteq [Xfers -> 0..Size]
          /\ fruitless' \in [Xfers -> 0..(MaxFruitless - 1)]
      BY <3>4
    <3> QED
      BY <3>2, <3>3, <3>4, <3>5
  <2> QED
    BY <1>1, <2>1, <2>2, <2>3, <2>4, <2>5, <2>6, <2>7, <2>8, <2>9, <2>10,
       <2>11, <2>12, <2>13, <2>14, <2>15 DEF RsyncStep
<1>2. CASE CopyStep(x)
  <2>1. CASE FallbackRefused(x)
    BY <2>1 DEF FallbackRefused
  <2>2. CASE FallbackLists(x)
    BY <2>2 DEF FallbackLists
  <2>3. CASE ListFails(x)
    BY <2>3 DEF ListFails
  <2>4. CASE FileStarts(x)
    BY <2>4 DEF FileStarts
  <2>5. CASE GlobStarts(x)
    BY <2>5 DEF GlobStarts
  <2>6. CASE GlobOver(x)
    BY <2>6 DEF GlobOver
  <2>7. CASE CopyOpens(x)
    BY <2>7 DEF CopyOpens
  <2>8. CASE CopyHead(x)
    BY <2>8 DEF CopyHead
  <2>9. CASE CopyReads(x)
    BY <2>9 DEF CopyReads
  <2>10. CASE CopyWrites(x)
    BY <2>10 DEF CopyWrites, Room
  <2>11. CASE CopyFlushes(x)
    BY <2>11 DEF CopyFlushes
  <2>12. CASE CopyFails(x)
    BY <2>12 DEF CopyFails
  <2>13. CASE CopyRelease(x)
    BY <2>13 DEF CopyRelease
  <2>14. CASE CopyReport(x)
    BY <2>14 DEF CopyReport, Judged
  <2> QED
    BY <1>2, <2>1, <2>2, <2>3, <2>4, <2>5, <2>6, <2>7, <2>8, <2>9, <2>10,
       <2>11, <2>12, <2>13, <2>14 DEF CopyStep
<1>3. ASSUME NEW p \in Protos, Cancel(x, p) PROVE TypeOK'
  BY <1>3 DEF Cancel
<1> QED
  BY <1>1, <1>2, <1>3 DEF JobStep

\* The transfer that takes the step.
LEMMA OwnStep ==
    ASSUME TypeOK, NEW x \in Xfers, JobInv(x), JobStep(x)
    PROVE  JobInv(x)'
<1> USE TransferAssumption
    DEF TypeOK, Goto, Over, Copied, CopyBegins, resources, counters, cancels, Protos,
        RsyncStages, CopyStages, Looping, Copying, JobInv, Held, Shown, Judged, Room,
        CancelHeard, IsCancelled
<1>1. CASE RsyncStep(x)
  <2>1. CASE Start(x)
    BY <2>1 DEF Start
  <2>2. CASE LoopHead(x)
    BY <2>2 DEF LoopHead
  <2>3. CASE SpawnOk(x)
    BY <2>3 DEF SpawnOk
  <2>4. CASE SpawnFails(x)
    BY <2>4 DEF SpawnFails
  <2>5. CASE Progress(x)
    BY <2>5 DEF Progress
  <2>6. CASE AttemptEnds(x)
    BY <2>6 DEF AttemptEnds
  <2>7. CASE AttemptKilled(x)
    BY <2>7 DEF AttemptKilled
  <2>8. CASE AttemptOver(x)
    BY <2>8 DEF AttemptOver
  <2>9. CASE RetryMoved(x)
    BY <2>9 DEF RetryMoved
  <2>10. CASE RetryFruitless(x)
    BY <2>10 DEF RetryFruitless
  <2>11. CASE RetryGivesUp(x)
    BY <2>11 DEF RetryGivesUp
  <2>12. CASE PauseEnds(x)
    BY <2>12 DEF PauseEnds
  <2>13. CASE Release(x)
    BY <2>13 DEF Release
  <2>15. CASE AttemptEof(x)
    BY <2>15 DEF AttemptEof
  <2>14. CASE Report(x)
    BY <2>14 DEF Report
  <2> QED
    BY <1>1, <2>1, <2>2, <2>3, <2>4, <2>5, <2>6, <2>7, <2>8, <2>9, <2>10,
       <2>11, <2>12, <2>13, <2>14, <2>15 DEF RsyncStep
<1>2. CASE CopyStep(x)
  <2>1. CASE FallbackRefused(x)
    BY <2>1 DEF FallbackRefused
  <2>2. CASE FallbackLists(x)
    BY <2>2 DEF FallbackLists
  <2>3. CASE ListFails(x)
    BY <2>3 DEF ListFails
  <2>4. CASE FileStarts(x)
    BY <2>4 DEF FileStarts
  <2>5. CASE GlobStarts(x)
    BY <2>5 DEF GlobStarts
  <2>6. CASE GlobOver(x)
    BY <2>6 DEF GlobOver
  <2>7. CASE CopyOpens(x)
    BY <2>7 DEF CopyOpens
  <2>8. CASE CopyHead(x)
    BY <2>8 DEF CopyHead
  <2>9. CASE CopyReads(x)
    BY <2>9 DEF CopyReads
  <2>10. CASE CopyWrites(x)
    BY <2>10 DEF CopyWrites
  <2>11. CASE CopyFlushes(x)
    BY <2>11 DEF CopyFlushes
  <2>12. CASE CopyFails(x)
    BY <2>12 DEF CopyFails
  <2>13. CASE CopyRelease(x)
    BY <2>13 DEF CopyRelease
  <2>14. CASE CopyReport(x)
    BY <2>14 DEF CopyReport
  <2> QED
    BY <1>2, <2>1, <2>2, <2>3, <2>4, <2>5, <2>6, <2>7, <2>8, <2>9, <2>10,
       <2>11, <2>12, <2>13, <2>14 DEF CopyStep
<1>3. ASSUME NEW p \in Protos, Cancel(x, p) PROVE JobInv(x)'
  BY <1>3 DEF Cancel, LooksAgain
<1> QED
  BY <1>1, <1>2, <1>3 DEF JobStep

\* A transfer that is left alone keeps its part of the invariant.
LEMMA OtherStep ==
    ASSUME NEW y \in Xfers, JobInv(y), Untouched(y)
    PROVE  JobInv(y)'
BY DEF Untouched, Protos, JobInv, Held, Shown, Judged, Room, CancelHeard

LEMMA InitInv == Init => Inv
BY TransferAssumption
DEF Init, Inv, TypeOK, Stages, Cards, Protos, JobInv, Held, Shown, Judged, Room,
    CancelHeard, RsyncStages, CopyStages, Looping, Copying

LEMMA NextInv == Inv /\ [Next]_vars => Inv'
<1> SUFFICES ASSUME Inv, [Next]_vars PROVE Inv'
  OBVIOUS
<1>1. CASE UNCHANGED vars
  BY <1>1 DEF vars, Inv, TypeOK, JobInv, Held, Shown, Judged, Room, CancelHeard
<1>2. ASSUME NEW x \in Xfers, JobStep(x) PROVE Inv'
  <2>1. TypeOK'
    BY <1>2, TypeStep DEF Inv, JobInv
  <2>2. JobInv(x)'
    BY <1>2, OwnStep DEF Inv
  <2>3. ASSUME NEW y \in Xfers, y # x PROVE JobInv(y)'
    BY <1>2, <2>3, OthersUntouched, OtherStep DEF Inv
  <2> QED
    BY <2>1, <2>2, <2>3 DEF Inv
<1> QED
  BY <1>1, <1>2, StepOfOne

LEMMA Invariance == Spec => []Inv
BY InitInv, NextInv, PTL DEF Spec

-----------------------------------------------------------------------------
\* Every variable keeps its type, the count of chunks within the file and the
\* fruitless attempts below their limit.
THEOREM TypeCorrect == Spec => []TypeOK
<1>1. Inv => TypeOK
  BY DEF Inv
<1> QED
  BY <1>1, Invariance, PTL

\* On each of the ways out of the retry loop and of the copy, the job lets go of
\* its token and its secret files, and no card stays behind running.
THEOREM EverythingReleased == Spec => []ReleasedOnEveryPath
<1>1. Inv => ReleasedOnEveryPath
  BY DEF Inv, JobInv, Held, Shown, ReleasedOnEveryPath, Protos, RsyncStages,
         CopyStages, Looping, Copying
<1> QED
  BY <1>1, Invariance, PTL

\* A job cancelled while it was trying never reports success.
THEOREM CancelledNeverDone == Spec => []CancelWins
<1>1. Inv => CancelWins
  BY DEF Inv, JobInv, CancelHeard, CancelWins, Protos
<1> QED
  BY <1>1, Invariance, PTL

-----------------------------------------------------------------------------
\* A step of x is a step of its copy, or of no concern to it.
LEMMA OwnCopyStep ==
    ASSUME Inv, NEW x \in Xfers, JobStep(x)
    PROVE  Copy(x)!Next \/ UNCHANGED copy(x)
<1> USE DEF Inv, TypeOK, JobInv, Held, Shown, Judged, Goto, Over, Copied, CopyBegins,
            resources, counters, cancels, Protos, RsyncStages, CopyStages, Looping,
            Copying, copy, IsCancelled
<1>1. CASE RsyncStep(x)
  <2>1. UNCHANGED copy(x)
    BY <1>1 DEF RsyncStep, Start, LoopHead, SpawnOk, SpawnFails, Progress,
         AttemptEof, AttemptEnds, AttemptKilled, AttemptOver, RetryMoved, RetryFruitless,
         RetryGivesUp, PauseEnds, Release, Report
  <2> QED
    BY <2>1
<1>2. CASE CopyStep(x)
  <2>1. CASE FileStarts(x) \/ GlobStarts(x)
    <3>1. <<x, "sftp">> \in tokens'
      BY <2>1 DEF FileStarts, GlobStarts
    <3>2. (<<x, "sftp">> \in tokens)' = TRUE
      BY <3>1
    <3>3. card[<<x, "sftp">>] = "none"
      BY <2>1 DEF FileStarts, GlobStarts
    <3>4. card'[<<x, "sftp">>] = "running"
      <4>1. card' = [card EXCEPT ![<<x, "sftp">>] = "running"]
        BY <2>1 DEF FileStarts, GlobStarts
      <4>2. <<x, "sftp">> \in Xfers \X Protos
        OBVIOUS
      <4> QED
        BY <4>1, <4>2
    <3>5. UNCHANGED IsCancelled(x, "sftp")
      BY <2>1 DEF FileStarts, GlobStarts
    <3> QED
      BY <3>2, <3>3, <3>4, <3>5 DEF Copy!Start, Copy!Next
  <2>2. CASE CopyRelease(x)
    <3>1. <<x, "sftp">> \notin tokens'
      BY <2>2 DEF CopyRelease
    <3>2. (<<x, "sftp">> \in tokens)' = FALSE
      BY <3>1
    <3>3. /\ card[<<x, "sftp">>] = "running"
          /\ UNCHANGED <<card[<<x, "sftp">>], IsCancelled(x, "sftp")>>
      BY <2>2 DEF CopyRelease
    <3> QED
      BY <3>2, <3>3 DEF Copy!Release, Copy!Next
  <2>3. CASE CopyReport(x)
    BY <2>3 DEF CopyReport, Copy!Report, Copy!Next
  <2>4. CASE \/ FallbackRefused(x) \/ FallbackLists(x) \/ ListFails(x)
             \/ GlobOver(x) \/ CopyOpens(x) \/ CopyHead(x) \/ CopyReads(x)
             \/ CopyWrites(x) \/ CopyFlushes(x) \/ CopyFails(x)
    BY <2>4 DEF FallbackRefused, FallbackLists, ListFails, GlobOver, CopyOpens,
         CopyHead, CopyReads, CopyWrites, CopyFlushes, CopyFails
  <2> QED
    BY <1>2, <2>1, <2>2, <2>3, <2>4 DEF CopyStep
<1>3. CASE Cancel(x, "rsync")
  BY <1>3 DEF Cancel
<1>4. CASE Cancel(x, "sftp")
  BY <1>4 DEF Cancel, Copy!Cancel, Copy!Next
<1> QED
  BY <1>1, <1>2, <1>3, <1>4 DEF JobStep

\* The copy of each transfer is one in the sense of CopyJob: a card that runs and
\* gets one last word after its token is gone, and a token that is in the map
\* only while the card is running.
THEOREM TransfersImplementCopy == Spec => ImplementsCopy
<1>1. Init => \A x \in Xfers : Copy(x)!Init
  <2> SUFFICES ASSUME Init, NEW x \in Xfers PROVE Copy(x)!Init
    OBVIOUS
  <2>1. /\ card[<<x, "sftp">>] = "none"
        /\ <<x, "sftp">> \notin tokens
        /\ <<x, "sftp">> \notin cancelled
    BY DEF Init, Protos
  <2>2. /\ (<<x, "sftp">> \in tokens) = FALSE
        /\ (<<x, "sftp">> \in cancelled) = FALSE
    BY <2>1
  <2> QED
    BY <2>1, <2>2 DEF Copy!Init, IsCancelled
<1>2. Inv /\ [Next]_vars
        => [\A x \in Xfers : Copy(x)!Next \/ UNCHANGED copy(x)]_vars
  <2> SUFFICES ASSUME Inv, NEW x \in Xfers, JobStep(x), NEW y \in Xfers
               PROVE  Copy(y)!Next \/ UNCHANGED copy(y)
    BY StepOfOne
  <2>1. CASE y = x
    BY <2>1, OwnCopyStep
  <2>2. CASE y # x
    <3>1. Untouched(y)
      BY <2>2, OthersUntouched DEF Inv
    <3> QED
      BY <3>1 DEF Untouched, copy, IsCancelled, Protos
  <2> QED
    BY <2>1, <2>2
<1> QED
  BY <1>1, <1>2, InitInv, NextInv, PTL DEF Spec, ImplementsCopy

-----------------------------------------------------------------------------
\* What the retry loop has to show for its attempts: the chunks moved before the
\* attempt under way, and the attempts since that moved nothing.
Gained(x) == IF stage[x] \in {"head", "pause"} THEN best[x] ELSE before[x]
Trying(x) == stage[x] \in Looping \cup {"exited"}

\* Every retry takes the job further: the pair of its gain and its fruitless
\* attempts goes up in the lexicographic order, and no step of the loop takes it
\* back.  With the bounds of TypeOK that pair has (Size + 1) * MaxFruitless
\* values, which is the most attempts that a job can make.
Advances(x) ==
    \/ Gained(x)' > Gained(x)
    \/ Gained(x)' = Gained(x) /\ fruitless'[x] > fruitless[x]
Stays(x) == Gained(x)' = Gained(x) /\ fruitless'[x] = fruitless[x]
RetriesAdvance ==
    [][\A x \in Xfers :
        Trying(x) /\ Trying(x)' =>
            \/ Advances(x)
            \/ Stays(x) /\ ~(stage[x] = "exited" /\ stage'[x] = "pause")]_vars

\* The high-water mark never falls below what it was when the attempt began.
MarkKept == \A x \in Xfers : before[x] <= best[x]

LEMMA MarkStep == Inv /\ MarkKept /\ [Next]_vars => MarkKept'
<1> SUFFICES ASSUME Inv, MarkKept, [Next]_vars PROVE MarkKept'
  OBVIOUS
<1> USE DEF Inv, TypeOK, MarkKept, Goto, Over, Copied, CopyBegins, resources,
            counters, cancels
<1>1. CASE UNCHANGED vars
  BY <1>1 DEF vars
<1>2. ASSUME NEW x \in Xfers, RsyncStep(x) PROVE MarkKept'
  <2>1. CASE LoopHead(x)
    BY <2>1 DEF LoopHead
  <2>2. CASE Progress(x)
    <3>1. best[x] <= best'[x] /\ \A y \in Xfers : y # x => best'[y] = best[y]
      BY <2>2 DEF Progress
    <3>2. before' = before /\ best' \in [Xfers -> Nat]
      BY <2>2, TransferAssumption DEF Progress
    <3> QED
      BY <3>1, <3>2, TransferAssumption
  <2>3. CASE Report(x)
    BY <2>3 DEF Report
  <2>4. CASE UNCHANGED <<best, before>>
    BY <2>4
  <2> QED
    BY <1>2, <2>1, <2>2, <2>3, <2>4
    DEF RsyncStep, Start, SpawnOk, SpawnFails, AttemptEof, AttemptEnds, AttemptKilled,
        AttemptOver, RetryMoved, RetryFruitless, RetryGivesUp, PauseEnds, Release
<1>3. ASSUME NEW x \in Xfers, CopyStep(x) PROVE MarkKept'
  BY <1>3
  DEF CopyStep, FallbackRefused, FallbackLists, ListFails, FileStarts, GlobStarts,
      GlobOver, CopyOpens, CopyHead, CopyReads, CopyWrites, CopyFlushes, CopyFails,
      CopyRelease, CopyReport
<1>4. ASSUME NEW x \in Xfers, NEW p \in Protos, Cancel(x, p) PROVE MarkKept'
  BY <1>4 DEF Cancel
<1> QED
  BY <1>1, <1>2, <1>3, <1>4, StepOfOne DEF JobStep

\* The retries of one job are bounded: each moves something new or is counted.
THEOREM RetriesBounded == Spec => RetriesAdvance
<1> DEFINE Onward(x) ==
      Trying(x) /\ Trying(x)' =>
          \/ Advances(x)
          \/ Stays(x) /\ ~(stage[x] = "exited" /\ stage'[x] = "pause")
<1>1. Init => MarkKept
  <2> SUFFICES ASSUME Init, NEW x \in Xfers PROVE before[x] <= best[x]
    BY DEF MarkKept
  <2>1. before[x] = 0 /\ best[x] = 0
    BY DEF Init
  <2> QED
    BY <2>1
<1>2. Inv /\ MarkKept /\ [Next]_vars => [\A x \in Xfers : Onward(x)]_vars
  <2> SUFFICES ASSUME Inv, MarkKept, NEW x \in Xfers, JobStep(x), NEW y \in Xfers
               PROVE  Onward(y)
    BY StepOfOne
  <2> USE DEF Inv, TypeOK, MarkKept, Goto, Over, Copied, CopyBegins, resources,
              counters, cancels, Trying, Advances, Stays, Gained, Looping
  <2>1. CASE RsyncStep(x)
    <3>1. CASE Start(x) \/ Release(x) \/ Report(x)
      BY <3>1 DEF Start, Release, Report
    <3>2. CASE LoopHead(x)
      BY <3>2 DEF LoopHead
    <3>3. CASE \/ SpawnOk(x) \/ SpawnFails(x)
               \/ AttemptEof(x) \/ AttemptKilled(x) \/ AttemptEnds(x)
      BY <3>3 DEF SpawnOk, SpawnFails, AttemptEof, AttemptEnds, AttemptKilled
    <3>4. CASE Progress(x)
      BY <3>4 DEF Progress
    <3>5. CASE AttemptOver(x) \/ RetryGivesUp(x) \/ PauseEnds(x)
      BY <3>5 DEF AttemptOver, RetryGivesUp, PauseEnds
    <3>6. CASE RetryMoved(x)
      BY <3>6, TransferAssumption DEF RetryMoved
    <3>7. CASE RetryFruitless(x)
      BY <3>7, TransferAssumption DEF RetryFruitless
    <3> QED
      BY <2>1, <3>1, <3>2, <3>3, <3>4, <3>5, <3>6, <3>7 DEF RsyncStep
  <2>2. CASE CopyStep(x)
    BY <2>2
    DEF CopyStep, FallbackRefused, FallbackLists, ListFails, FileStarts, GlobStarts,
        GlobOver, CopyOpens, CopyHead, CopyReads, CopyWrites, CopyFlushes, CopyFails,
        CopyRelease, CopyReport, Copying
  <2>3. ASSUME NEW p \in Protos, Cancel(x, p) PROVE Onward(y)
    BY <2>3 DEF Cancel
  <2> QED
    BY <2>1, <2>2, <2>3 DEF JobStep
<1> QED
  BY <1>1, <1>2, InitInv, NextInv, MarkStep, PTL DEF Spec, RetriesAdvance

-----------------------------------------------------------------------------
\* The safety half of CancelledEnds.  How far an rsync job that was cancelled is from
\* its last word.  Each stage of this way has a step in Prompt whose guard is the
\* stage, or the stage and the cancel, but for "reaping", which CancelledEnds takes
\* into its premise.
WayLeft == [spawn |-> 7, attempt |-> 6, reaping |-> 5, exited |-> 4, pause |-> 4,
            head |-> 3, over |-> 2, report |-> 1]
ToGo(x) == IF stage[x] \in DOMAIN WayLeft THEN WayLeft[stage[x]] ELSE 0

\* What a step does to such a job.
Nearer(x) == stage'[x] = stage[x] \/ ToGo(x)' < ToGo(x) \/ ToGo(x) + ToGo(x)' = 0

\* A cancel is never taken back, and wherever it reached the job, whatever the child
\* does, no step leads away from the end: no attempt follows.
CancelSticks ==
    [][\A x \in Xfers : IsCancelled(x, "rsync") =>
            IsCancelled(x, "rsync")' /\ Nearer(x)]_vars

\* At the end the user has been told.
CancelAnswered ==
    \A x \in Xfers :
        IsCancelled(x, "rsync") /\ ToGo(x) = 0 => card[<<x, "rsync">>] \notin {"none", "running"}

\* What CancelAnswered needs: a job has a card once it began, and is cancelled after.
Begun(x) ==
    /\ stage[x] # "idle" => card[<<x, "rsync">>] # "none"
    /\ IsCancelled(x, "rsync") => stage[x] # "idle"
AllBegun == \A x \in Xfers : Begun(x)

LEMMA BegunStep == Inv /\ AllBegun /\ [Next]_vars => AllBegun'
<1> SUFFICES ASSUME Inv, AllBegun, [Next]_vars, NEW y \in Xfers PROVE Begun(y)'
  BY DEF AllBegun
<1>1. CASE UNCHANGED vars
  BY <1>1 DEF vars, AllBegun, Begun, IsCancelled
<1>2. ASSUME NEW x \in Xfers, JobStep(x) PROVE Begun(y)'
  <2>1. CASE y # x
    BY <1>2, <2>1, OthersUntouched DEF Inv, Untouched, AllBegun, Begun, IsCancelled, Protos
  <2>2. CASE y = x
    <3> USE <2>2 DEF Inv, TypeOK, AllBegun, Begun, IsCancelled, Protos, Goto, Over,
                     Copied, CopyBegins, resources, counters, cancels
    <3>1. CASE Report(x)
      BY <3>1 DEF Report, JobInv, Judged
    <3>4. CASE Start(x)
      BY <3>4 DEF Start
    <3>5. CASE RsyncStep(x) /\ ~Report(x) /\ ~Start(x)
      BY <3>5
      DEF RsyncStep, LoopHead, SpawnOk, SpawnFails, Progress, AttemptEof, AttemptEnds,
          AttemptKilled, AttemptOver, RetryMoved, RetryFruitless, RetryGivesUp,
          PauseEnds, Release
    <3>2. CASE CopyStep(x)
      BY <3>2
      DEF CopyStep, FallbackRefused, FallbackLists, ListFails, FileStarts, GlobStarts,
          GlobOver, CopyOpens, CopyHead, CopyReads, CopyWrites, CopyFlushes,
          CopyFails, CopyRelease, CopyReport, Copying
    <3>3. ASSUME NEW p \in Protos, Cancel(x, p) PROVE Begun(y)'
      BY <3>3 DEF Cancel, JobInv, Held, RsyncStages, CopyStages, Looping, Copying
    <3> QED
      BY <1>2, <3>1, <3>2, <3>3, <3>4, <3>5 DEF JobStep
  <2> QED
    BY <2>1, <2>2
<1> QED
  BY <1>1, <1>2, StepOfOne

LEMMA WayFacts ==
    /\ DOMAIN WayLeft = {"spawn", "attempt", "reaping", "exited", "pause", "head", "over",
                         "report"}
    /\ WayLeft["spawn"] = 7 /\ WayLeft["attempt"] = 6 /\ WayLeft["reaping"] = 5
    /\ WayLeft["exited"] = 4
    /\ WayLeft["pause"] = 4 /\ WayLeft["head"] = 3 /\ WayLeft["over"] = 2
    /\ WayLeft["report"] = 1
BY DEF WayLeft

LEMMA CancelStep ==
    ASSUME Inv, AllBegun, NEW x \in Xfers, JobStep(x), IsCancelled(x, "rsync")
    PROVE  Nearer(x)
<1> USE WayFacts DEF Nearer, ToGo, Goto, Over, Copied, CopyBegins
<1>0. stage \in [Xfers -> Stages] /\ stage[x] # "idle"
  BY DEF Inv, TypeOK, AllBegun, Begun
<1>1. CASE RsyncStep(x)
  <2>1. CASE LoopHead(x)
    BY <1>0, <2>1 DEF LoopHead
  <2>2. CASE SpawnOk(x) \/ SpawnFails(x) \/ PauseEnds(x)
    BY <1>0, <2>2 DEF SpawnOk, SpawnFails, PauseEnds
  <2>3. CASE \/ AttemptEof(x) \/ AttemptKilled(x) \/ AttemptEnds(x)
             \/ AttemptOver(x) \/ Progress(x)
    BY <1>0, <2>3 DEF AttemptEof, AttemptEnds, AttemptKilled, AttemptOver, Progress
  <2>4. CASE Release(x) \/ Report(x)
    BY <1>0, <2>4 DEF Release, Report
  <2> QED
    BY <1>0, <1>1, <2>1, <2>2, <2>3, <2>4
    DEF RsyncStep, Start, RetryMoved, RetryFruitless, RetryGivesUp
<1>2. CASE CopyStep(x)
  <2>1. /\ stage[x] \in CopyStages \cup {"fallback", "listing", "copyreport"}
        /\ stage'[x] \in CopyStages \cup {"listing", "copyreport", "ended"}
    BY <1>0, <1>2
    DEF CopyStep, FallbackRefused, FallbackLists, ListFails, FileStarts, GlobStarts,
        GlobOver, CopyOpens, CopyHead, CopyReads, CopyWrites, CopyFlushes, CopyFails,
        CopyRelease, CopyReport, CopyStages, Copying
  <2> QED
    BY <2>1 DEF CopyStages, Copying
<1>3. ASSUME NEW p \in Protos, Cancel(x, p) PROVE Nearer(x)
  BY <1>3 DEF Cancel
<1> QED
  BY <1>1, <1>2, <1>3 DEF JobStep

LEMMA CancelKept ==
    ASSUME Inv, Next, NEW x \in Xfers, IsCancelled(x, "rsync")
    PROVE  IsCancelled(x, "rsync")'
BY StepOfOne
DEF JobStep, IsCancelled, RsyncStep, CopyStep, cancels, Start, LoopHead, SpawnOk,
    SpawnFails, Progress, AttemptEof, AttemptEnds, AttemptKilled, AttemptOver, RetryMoved,
    RetryFruitless, RetryGivesUp, PauseEnds, Release, Report, FallbackRefused,
    FallbackLists, ListFails, FileStarts, GlobStarts, CopyBegins, GlobOver, CopyOpens,
    CopyHead, CopyReads, CopyWrites, CopyFlushes, CopyFails, CopyRelease, CopyReport,
    Cancel

\* A cancelled rsync job is on its way to the end, wherever the cancel found it and
\* whatever its child does, and the user is told.
THEOREM CancelOwed == Spec => []CancelAnswered /\ CancelSticks
<1>1. Init => AllBegun
  BY DEF Init, AllBegun, Begun, IsCancelled
<1>2. Inv /\ AllBegun => CancelAnswered
  <2> SUFFICES ASSUME Inv, AllBegun, NEW x \in Xfers, IsCancelled(x, "rsync"), ToGo(x) = 0
               PROVE  card[<<x, "rsync">>] \notin {"none", "running"}
    BY DEF CancelAnswered
  <2>1. stage[x] \notin RsyncStages \cup {"report"}
    BY WayFacts DEF ToGo, RsyncStages, Looping
  <2>2. Shown(x) /\ Begun(x)
    BY DEF Inv, JobInv, AllBegun
  <2> QED
    BY <2>1, <2>2 DEF Shown, Begun
<1>3. Inv /\ AllBegun /\ [Next]_vars =>
        [\A x \in Xfers : IsCancelled(x, "rsync") =>
            IsCancelled(x, "rsync")' /\ Nearer(x)]_vars
  <2> SUFFICES ASSUME Inv, AllBegun, Next, NEW y \in Xfers, IsCancelled(y, "rsync")
               PROVE  IsCancelled(y, "rsync")' /\ Nearer(y)
    OBVIOUS
  <2>1. PICK x \in Xfers : JobStep(x)
    BY StepOfOne
  <2>2. IsCancelled(y, "rsync")'
    BY CancelKept
  <2>3. CASE y = x
    <3>1. IsCancelled(x, "rsync")
      BY <2>3 DEF IsCancelled
    <3>2. Nearer(x)
      BY <2>1, <3>1, CancelStep
    <3> QED
      BY <2>2, <2>3, <3>2 DEF Nearer, ToGo
  <2>4. CASE y # x
    <3>1. Untouched(y)
      BY <2>1, <2>4, OthersUntouched DEF Inv
    <3> QED
      BY <2>2, <3>1 DEF Untouched, Nearer
  <2> QED
    BY <2>3, <2>4
<1> QED
  BY <1>1, <1>2, <1>3, InitInv, NextInv, BegunStep, PTL DEF Spec, CancelSticks
=============================================================================
