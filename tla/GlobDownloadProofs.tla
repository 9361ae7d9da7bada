------------------------- MODULE GlobDownloadProofs -------------------------
(***************************************************************************)
(* Theorems about GlobDownload, for any archive, any queue and any set of  *)
(* wildcards: type correctness, "done" said of a whole archive only, the   *)
(* download a copy in the sense of CopyJob, no way to hang but a silent    *)
(* server, and glob_match right about every pattern and every name.        *)
(*                                                                         *)
(* The argument for a whole archive follows a chunk on its way: what is    *)
(* unpacked, what is queued after it and what the task has in hand are the *)
(* chunks from the first on, in order and without a gap, as long as the    *)
(* extractor runs.                                                         *)
(***************************************************************************)
EXTENDS GlobDownload, WellFoundedInduction, TLAPS

\* The remote side sends its chunks first, and no more of them than there are; a
\* tar that is killed has no exit status.
DataFirst ==
    /\ \A i \in 1..Len(script) : script[i] = "data" =>
         i <= Chunks /\ \A j \in 1..i : script[j] = "data"
    /\ code = "killed" => \A i \in 1..Len(script) : script[i] # "exit"

\* The task has read nothing but chunks so far.
OnlyData == pos = 0 \/ script[pos] = "data"

\* Where the task stands in the stream.
Reading ==
    /\ stage = "send" => pos > 0 /\ script[pos] = "data"
    /\ stage = "check" => OnlyData

\* The chunks unpacked and queued are the first ones, in order, and the chunk that
\* comes next is the one behind them.
InOrder ==
    extractor \in {"none", "running"} =>
        /\ \A i \in 1..Len(unpacked) : unpacked[i] = i
        /\ \A i \in 1..Len(queue) : queue[i] = Len(unpacked) + i
NextInLine ==
    extractor = "running" =>
        /\ stage = "send" => pos = Len(unpacked) + Len(queue) + 1
        /\ stage \in {"check", "wait"} /\ OnlyData => pos = Len(unpacked) + Len(queue)

\* Nothing is unpacked before the extractor runs, and an extractor that is content
\* has unpacked everything up to the mark.
Idle ==
    /\ stage \in {"list", "open"} => extractor = "none"
    /\ stage \in {"check", "wait", "send", "close"} => extractor # "none"
    /\ extractor = "none" => pos = 0 /\ queue = <<>> /\ unpacked = <<>>
Whole == extractor = "ok" => Len(unpacked) = mark /\ \A i \in 1..mark : unpacked[i] = i

\* The card and the token of the job at each stage.
CardShown ==
    /\ stage = "list" => card = "none" /\ token = FALSE
    /\ stage \notin {"list", "ended"} => card = "running"
    /\ stage \in {"report", "ended"} => token = FALSE
    /\ card = "done" => extractor = "ok"

Inv == /\ TypeOK
       /\ DataFirst
       /\ Reading
       /\ InOrder
       /\ NextInLine
       /\ Idle
       /\ Whole
       /\ CardShown

-----------------------------------------------------------------------------
\* Facts about the queue.
LEMMA AppendFacts ==
    ASSUME NEW T, NEW s \in Seq(T), NEW e \in T
    PROVE  /\ Append(s, e) \in Seq(T)
           /\ Len(s) \in Nat
           /\ Len(Append(s, e)) = Len(s) + 1
           /\ \A i \in 1..Len(s) : Append(s, e)[i] = s[i]
           /\ Append(s, e)[Len(s) + 1] = e
OBVIOUS

LEMMA TailFacts ==
    ASSUME NEW T, NEW s \in Seq(T), s # <<>>
    PROVE  /\ Tail(s) \in Seq(T)
           /\ Head(s) = s[1]
           /\ Head(s) \in T
           /\ Len(s) \in Nat \ {0}
           /\ Len(Tail(s)) = Len(s) - 1
           /\ \A i \in 1..(Len(s) - 1) : Tail(s)[i] = s[i + 1]
OBVIOUS

LEMMA ConcatFacts ==
    ASSUME NEW T, NEW s \in Seq(T), NEW t \in Seq(T)
    PROVE  /\ s \o t \in Seq(T)
           /\ Len(s) \in Nat
           /\ Len(t) \in Nat
           /\ Len(s \o t) = Len(s) + Len(t)
           /\ \A i \in 1..Len(s) : (s \o t)[i] = s[i]
           /\ \A i \in 1..Len(t) : (s \o t)[Len(s) + i] = t[i]
OBVIOUS

LEMMA EmptyFacts == ASSUME NEW T PROVE <<>> \in Seq(T) /\ Len(<<>>) = 0
OBVIOUS

\* What a remote side sends, however its tar ends.
LEMMA ScriptShape ==
    ASSUME NEW n \in 0..Chunks, NEW c, NEW s \in Scripts(n, c)
    PROVE  /\ s \in Seq({"data", "exit", "eof"})
           /\ \A i \in 1..Len(s) : s[i] = "data" <=> i <= n
           /\ c = "killed" => \A i \in 1..Len(s) : s[i] # "exit"
<1> DEFINE data == [i \in 1..n |-> "data"]
<1> DEFINE Tails == {<<"eof">>} \cup
             IF c = "killed" THEN {} ELSE {<<"exit", "eof">>, <<"eof", "exit">>}
<1>0. n \in Nat
  BY GlobAssumption
<1>1. data \in Seq({"data", "exit", "eof"}) /\ Len(data) = n
  BY <1>0
<1>2. \A i \in 1..n : data[i] = "data"
  BY <1>0
<1>3. PICK t \in Tails : s = data \o t
  BY DEF Scripts
<1>4. /\ t \in Seq({"data", "exit", "eof"})
      /\ \A i \in 1..Len(t) : t[i] # "data"
      /\ c = "killed" => \A i \in 1..Len(t) : t[i] # "exit"
  <2>1. CASE t = <<"eof">>
    BY <2>1
  <2>2. CASE t = <<"exit", "eof">> /\ c # "killed"
    BY <2>2
  <2>3. CASE t = <<"eof", "exit">> /\ c # "killed"
    BY <2>3
  <2> QED
    BY <2>1, <2>2, <2>3
<1> HIDE DEF data, Tails
<1>5. /\ s \in Seq({"data", "exit", "eof"})
      /\ Len(s) = n + Len(t)
      /\ \A i \in 1..n : s[i] = data[i]
  BY <1>1, <1>3, <1>4, ConcatFacts
<1>6. \A i \in 1..Len(t) : s[n + i] = t[i]
  BY <1>1, <1>3, <1>4, ConcatFacts
<1>7. ASSUME NEW i \in 1..Len(s), i > n
      PROVE  s[i] # "data" /\ (c = "killed" => s[i] # "exit")
  <2>1. Len(t) \in Nat
    BY <1>4
  <2>2. i - n \in 1..Len(t) /\ i = n + (i - n)
    BY <1>0, <1>5, <1>7, <2>1
  <2>3. s[i] = t[i - n]
    BY <1>6, <2>2
  <2> QED
    BY <1>4, <2>2, <2>3
<1>8. \A i \in 1..Len(s) : i <= n => s[i] = "data"
  BY <1>0, <1>2, <1>5
<1> QED
  BY <1>0, <1>5, <1>7, <1>8

\* The messages that are left to be read.
LEMMA ScriptType ==
    ASSUME TypeOK
    PROVE  script \in Seq({"data", "exit", "eof"}) /\ Len(script) \in Nat /\ pos \in Nat
<1>1. PICK n \in 0..Chunks, c \in {"ok", "killed"} : script \in Scripts(n, c)
  BY DEF TypeOK, AllScripts
<1>2. script \in Seq({"data", "exit", "eof"})
  BY <1>1, ScriptShape
<1> QED
  BY <1>2 DEF TypeOK

LEMMA InitInv == Init => Inv
<1> SUFFICES ASSUME Init PROVE Inv
  OBVIOUS
<1>1. PICK n \in 0..Chunks : script \in Scripts(n, code)
  BY DEF Init
<1>2. /\ script \in Seq({"data", "exit", "eof"})
      /\ \A i \in 1..Len(script) : script[i] = "data" <=> i <= n
      /\ code = "killed" => \A i \in 1..Len(script) : script[i] # "exit"
      /\ Len(script) \in Nat
  BY <1>1, ScriptShape
<1>3. script \in AllScripts
  <2>1. CASE code = "killed"
    BY <1>1, <2>1 DEF AllScripts
  <2>2. CASE code # "killed"
    <3>1. script \in Scripts(n, "ok")
      BY <1>1, <2>2 DEF Scripts
    <3> QED
      BY <3>1 DEF AllScripts
  <2> QED
    BY <2>1, <2>2
<1>4. DataFirst
  BY <1>2, GlobAssumption DEF DataFirst
<1>5. TypeOK
  <2>1. pos \in 0..Len(script) /\ mark \in {Chunks - 1, Chunks}
    BY <1>2 DEF Init
  <2>2. queue \in Seq(1..Chunks) /\ Len(queue) <= QCap /\ unpacked \in Seq(1..Chunks)
    BY GlobAssumption, EmptyFacts DEF Init
  <2> QED
    BY <1>3, <2>1, <2>2 DEF Init, TypeOK, Stages
<1> QED
  BY <1>4, <1>5, EmptyFacts
  DEF Init, Inv, Reading, OnlyData, InOrder, NextInLine, Idle, Whole, CardShown

-----------------------------------------------------------------------------
\* The types are preserved by every step.
LEMMA TypeStep == Inv /\ [Next]_vars => TypeOK'
<1> SUFFICES ASSUME Inv, [Next]_vars PROVE TypeOK'
  OBVIOUS
<1> USE GlobAssumption, EmptyFacts, ScriptType
    DEF Inv, TypeOK, Stages, remote, stream, unpacking, job, Arrives
<1>0. CASE UNCHANGED vars
  BY <1>0 DEF vars
<1>1. CASE ListFails
  BY <1>1 DEF ListFails
<1>2. CASE ListOk
  BY <1>2 DEF ListOk
<1>3. CASE OpenFails
  BY <1>3 DEF OpenFails
<1>4. CASE OpenOk
  BY <1>4 DEF OpenOk
<1>5. CASE PumpChecks
  BY <1>5 DEF PumpChecks
<1>6. CASE NextNone
  BY <1>6 DEF NextNone
<1>7. CASE PumpSends
  <2>1. pos \in 1..Chunks
    BY <1>7 DEF PumpSends, DataFirst, Reading
  <2>2. CASE extractor = "running"
    <3>1. queue' = Append(queue, pos) /\ Len(queue) < QCap
      BY <1>7, <2>2 DEF PumpSends
    <3>2. /\ Append(queue, pos) \in Seq(1..Chunks)
          /\ Len(Append(queue, pos)) = Len(queue) + 1
          /\ Len(queue) \in Nat
      BY <2>1, AppendFacts
    <3> QED
      BY <1>7, <2>2, <3>1, <3>2 DEF PumpSends
  <2>3. CASE extractor # "running"
    BY <1>7, <2>3 DEF PumpSends
  <2> QED
    BY <2>2, <2>3
<1>8. CASE Join
  BY <1>8 DEF Join
<1>9. CASE Report
  BY <1>9 DEF Report
<1>10. CASE NextData
  BY <1>10 DEF NextData
<1>11. CASE NextExit
  <2>1. code # "killed"
    BY <1>11 DEF NextExit, DataFirst
  <2> QED
    BY <1>11, <2>1 DEF NextExit
<1>12. CASE NextEof
  BY <1>12 DEF NextEof
<1>13. CASE ExtractTakes
  <2>1. unpacked' \in Seq(1..Chunks)
    BY <1>13, AppendFacts, TailFacts DEF ExtractTakes
  <2>2. /\ Tail(queue) \in Seq(1..Chunks)
        /\ Len(Tail(queue)) = Len(queue) - 1
        /\ Len(queue) \in Nat
    BY <1>13, TailFacts DEF ExtractTakes
  <2>3. queue' \in Seq(1..Chunks) /\ Len(queue') <= QCap
    <3>1. CASE queue' = <<>>
      BY <3>1
    <3>2. CASE queue' = Tail(queue)
      BY <2>2, <3>2
    <3> QED
      BY <1>13, <3>1, <3>2 DEF ExtractTakes
  <2> QED
    BY <1>13, <2>1, <2>3 DEF ExtractTakes
<1>14. CASE ExtractFails
  BY <1>14 DEF ExtractFails
<1>15. CASE ExtractEnds
  BY <1>15 DEF ExtractEnds
<1>16. CASE Cancel
  BY <1>16 DEF Cancel
<1>17. CASE LinkLost
  BY <1>17 DEF LinkLost
<1> QED
  BY <1>0, <1>1, <1>2, <1>3, <1>4, <1>5, <1>6, <1>7, <1>8,
     <1>9, <1>10, <1>11, <1>12, <1>13, <1>14, <1>15, <1>16, <1>17
     DEF Next, Task, Extractor

\* What the remote side sends is settled from the start.
LEMMA ScriptStep ==
    ASSUME [Next]_vars
    PROVE  script' = script /\ code' = code /\ mark' = mark
BY DEF Next, Task, Extractor, ListFails, ListOk, OpenFails, OpenOk, PumpChecks,
       NextNone, PumpSends, Join, Report, NextData, NextExit, NextEof, ExtractTakes,
       ExtractFails, ExtractEnds, Cancel, LinkLost, vars, remote

LEMMA DataFirstStep == Inv /\ [Next]_vars => DataFirst'
BY ScriptStep DEF Inv, DataFirst

\* The messages before the one at hand are chunks when it is one.
LEMMA ReadingStep == Inv /\ [Next]_vars => Reading'
<1> SUFFICES ASSUME Inv, [Next]_vars PROVE Reading'
  OBVIOUS
<1> USE DEF Inv, Reading, remote, stream, unpacking, job
<1>0. script' = script /\ pos \in Nat
  BY ScriptStep, ScriptType
<1>1. CASE UNCHANGED vars
  BY <1>1 DEF vars, OnlyData
<1>2. CASE OpenOk
  BY <1>2, <1>0 DEF OpenOk, OnlyData, Idle, TypeOK
<1>3. CASE NextData
  BY <1>3, <1>0 DEF NextData, Arrives, OnlyData
<1>4. CASE NextExit \/ NextEof
  BY <1>4, <1>0 DEF NextExit, NextEof, Arrives, OnlyData
<1>5. CASE PumpSends
  BY <1>5, <1>0 DEF PumpSends, OnlyData
<1>6. CASE PumpChecks
  BY <1>6, <1>0 DEF PumpChecks, OnlyData
<1>7. CASE stage' \in {"report", "ended", "open", "close"}
  BY <1>7
<1>8. CASE UNCHANGED <<stage, pos>>
  BY <1>8, <1>0 DEF OnlyData
<1> QED
  BY <1>1, <1>2, <1>3, <1>4, <1>5, <1>6, <1>7, <1>8
  DEF Next, Task, Extractor, ListFails, ListOk, OpenFails, NextNone, Join, Report,
      ExtractTakes, ExtractFails, ExtractEnds, Cancel, LinkLost

\* What is queued and unpacked stays in order.
LEMMA OrderStep == Inv /\ [Next]_vars => (InOrder /\ NextInLine /\ Idle /\ Whole)'
<1> SUFFICES ASSUME Inv, [Next]_vars PROVE (InOrder /\ NextInLine /\ Idle /\ Whole)'
  OBVIOUS
<1>0. /\ script' = script /\ mark' = mark
      /\ pos \in Nat
      /\ queue \in Seq(1..Chunks) /\ Len(queue) \in Nat
      /\ unpacked \in Seq(1..Chunks) /\ Len(unpacked) \in Nat
      /\ mark \in Nat /\ mark <= Chunks
  BY ScriptStep, ScriptType, GlobAssumption DEF Inv, TypeOK
<1> USE EmptyFacts DEF Inv, InOrder, NextInLine, Idle, Whole, stream, unpacking, job
<1>1. CASE UNCHANGED vars
  BY <1>1, <1>0 DEF vars, OnlyData
<1>2. CASE OpenOk
  BY <1>2, <1>0 DEF OpenOk
<1>3. CASE PumpChecks
  BY <1>3, <1>0 DEF PumpChecks, OnlyData
<1>4. CASE PumpSends
  <2>1. CASE extractor = "running"
    <3>1. queue' = Append(queue, pos) /\ pos = Len(unpacked) + Len(queue) + 1
      BY <1>4, <2>1 DEF PumpSends
    <3>2. pos \in 1..Chunks
      BY <1>4, <1>0 DEF PumpSends, DataFirst, Reading, TypeOK
    <3>3. /\ Len(queue') = Len(queue) + 1
          /\ \A i \in 1..Len(queue) : queue'[i] = queue[i]
          /\ queue'[Len(queue) + 1] = pos
      BY <3>1, <3>2, <1>0, AppendFacts
    <3>4. /\ UNCHANGED <<unpacked, extractor, pos>>
          /\ stage' = "check"
      BY <1>4, <2>1 DEF PumpSends
    <3>5. ASSUME NEW i \in 1..Len(queue') PROVE queue'[i] = Len(unpacked') + i
      <4>1. CASE i = Len(queue) + 1
        BY <3>1, <3>3, <3>4, <4>1, <1>0
      <4>2. CASE i # Len(queue) + 1
        <5>1. i \in 1..Len(queue)
          BY <3>3, <4>2, <1>0
        <5> QED
          BY <2>1, <3>3, <3>4, <5>1
      <4> QED
        BY <4>1, <4>2
    <3>6. InOrder' /\ Idle' /\ Whole'
      BY <2>1, <3>4, <3>5, <1>0
    <3>7. NextInLine'
      BY <2>1, <3>1, <3>3, <3>4, <1>0
    <3> QED
      BY <3>6, <3>7
  <2>2. CASE extractor # "running"
    BY <1>4, <2>2, <1>0 DEF PumpSends
  <2> QED
    BY <2>1, <2>2
<1>5. CASE NextData
  <2>1. pos' = pos + 1 /\ script[pos'] = "data" /\ pos' \in 1..Len(script)
    BY <1>5, <1>0, ScriptType DEF NextData, Arrives
  <2>2. OnlyData
    BY <2>1, <1>0 DEF OnlyData, DataFirst
  <2> QED
    BY <1>5, <2>1, <2>2, <1>0 DEF NextData, Arrives
<1>6. CASE NextExit \/ NextEof
  <2>1. pos' = pos + 1 /\ script'[pos'] # "data" /\ stage = "wait"
    BY <1>6, <1>0 DEF NextExit, NextEof, Arrives
  <2>2. ~OnlyData'
    BY <2>1, <1>0 DEF OnlyData
  <2>3. UNCHANGED <<queue, extractor, unpacked>> /\ stage' \in {"wait", "close"}
    BY <1>6, <2>1 DEF NextExit, NextEof
  <2> QED
    BY <2>1, <2>2, <2>3, <1>0
<1>7. CASE ExtractTakes
  <2>0. /\ Head(queue) = queue[1]
        /\ Head(queue) \in 1..Chunks
        /\ Len(queue) > 0
    <3>1. queue # <<>>
      BY <1>7 DEF ExtractTakes
    <3>2. Head(queue) = queue[1] /\ Head(queue) \in 1..Chunks
      BY <1>0, <3>1, TailFacts
    <3>3. Len(queue) \in Nat \ {0}
      BY <1>0, <3>1
    <3> QED
      BY <3>2, <3>3
  <2>1. Head(queue) = Len(unpacked) + 1
    BY <1>7, <1>0, <2>0 DEF ExtractTakes
  <2>2. /\ Len(unpacked') = Len(unpacked) + 1
        /\ \A i \in 1..Len(unpacked) : unpacked'[i] = unpacked[i]
        /\ unpacked'[Len(unpacked) + 1] = Len(unpacked) + 1
    BY <1>7, <1>0, <2>0, <2>1, AppendFacts DEF ExtractTakes
  <2>3. \A i \in 1..Len(unpacked') : unpacked'[i] = i
    BY <1>7, <1>0, <2>2 DEF ExtractTakes
  <2>4. CASE Head(queue) = mark
    <3>1. extractor' = "ok" /\ Len(unpacked') = mark /\ UNCHANGED <<stage, pos>>
      BY <1>7, <1>0, <2>1, <2>2, <2>4 DEF ExtractTakes
    <3> QED
      BY <1>7, <1>0, <2>3, <3>1 DEF ExtractTakes
  <2>5. CASE Head(queue) # mark
    <3>1. queue' = Tail(queue) /\ UNCHANGED <<extractor, stage, pos>>
      BY <1>7, <2>5 DEF ExtractTakes
    <3>2. /\ Len(queue') = Len(queue) - 1
          /\ \A i \in 1..(Len(queue) - 1) : queue'[i] = queue[i + 1]
      BY <1>7, <1>0, <3>1, TailFacts DEF ExtractTakes
    <3>3. \A i \in 1..Len(queue') : queue'[i] = Len(unpacked') + i
      BY <1>7, <1>0, <2>2, <3>2 DEF ExtractTakes
    <3>4. NextInLine'
      <4>1. Len(unpacked') + Len(queue') = Len(unpacked) + Len(queue)
        BY <1>0, <2>2, <3>2
      <4>2. OnlyData' = OnlyData
        BY <1>0, <3>1 DEF OnlyData
      <4> QED
        BY <1>0, <3>1, <4>1, <4>2
    <3> QED
      BY <1>7, <1>0, <2>3, <3>1, <3>3, <3>4 DEF ExtractTakes
  <2> QED
    BY <2>4, <2>5
<1>8. CASE ExtractFails \/ ExtractEnds
  BY <1>8, <1>0 DEF ExtractFails, ExtractEnds
<1>9. CASE UNCHANGED <<queue, extractor, unpacked, pos>> /\ stage' = stage
  BY <1>9, <1>0 DEF OnlyData
<1>10. CASE /\ UNCHANGED <<queue, extractor, unpacked, pos>>
            /\ stage' \in {"open", "close", "report", "ended"}
            /\ stage' = "open" => stage = "list"
            /\ stage' = "close" => stage = "wait"
  BY <1>10, <1>0
<1> QED
  BY <1>1, <1>2, <1>3, <1>4, <1>5, <1>6, <1>7, <1>8, <1>9, <1>10
  DEF Next, Task, Extractor, ListFails, ListOk, OpenFails, NextNone, Join, Report,
      Cancel, LinkLost

\* The card and the token follow the stages.
LEMMA CardStep == Inv /\ [Next]_vars => CardShown'
<1> SUFFICES ASSUME Inv, [Next]_vars PROVE CardShown'
  OBVIOUS
<1> USE DEF Inv, TypeOK, CardShown, Idle, remote, stream, unpacking, job, Arrives
<1>0. CASE UNCHANGED vars
  BY <1>0 DEF vars
<1>1. CASE ListFails
  BY <1>1 DEF ListFails
<1>2. CASE ListOk
  BY <1>2 DEF ListOk
<1>3. CASE OpenFails
  BY <1>3 DEF OpenFails
<1>4. CASE OpenOk
  BY <1>4 DEF OpenOk
<1>5. CASE PumpChecks
  BY <1>5 DEF PumpChecks
<1>6. CASE NextNone
  BY <1>6 DEF NextNone
<1>7. CASE PumpSends
  BY <1>7 DEF PumpSends
<1>8. CASE Join
  BY <1>8 DEF Join
<1>9. CASE Report
  BY <1>9 DEF Report
<1>10. CASE NextData
  BY <1>10 DEF NextData
<1>11. CASE NextExit
  BY <1>11 DEF NextExit
<1>12. CASE NextEof
  BY <1>12 DEF NextEof
<1>13. CASE ExtractTakes
  BY <1>13 DEF ExtractTakes
<1>14. CASE ExtractFails
  BY <1>14 DEF ExtractFails
<1>15. CASE ExtractEnds
  BY <1>15 DEF ExtractEnds
<1>16. CASE Cancel
  BY <1>16 DEF Cancel
<1>17. CASE LinkLost
  BY <1>17 DEF LinkLost
<1> QED
  BY <1>0, <1>1, <1>2, <1>3, <1>4, <1>5, <1>6, <1>7, <1>8,
     <1>9, <1>10, <1>11, <1>12, <1>13, <1>14, <1>15, <1>16, <1>17
     DEF Next, Task, Extractor

LEMMA NextInv == Inv /\ [Next]_vars => Inv'
BY TypeStep, DataFirstStep, ReadingStep, OrderStep, CardStep DEF Inv

LEMMA Invariance == Spec => []Inv
BY InitInv, NextInv, PTL DEF Spec

-----------------------------------------------------------------------------
\* Every variable keeps its type and the queue its bound.
THEOREM TypeCorrect == Spec => []TypeOK
<1>1. Inv => TypeOK
  BY DEF Inv
<1> QED
  BY <1>1, Invariance, PTL

\* "Done" is said of a whole archive only.
THEOREM DoneMeansWhole == Spec => []DoneIsWhole
<1>1. Inv => DoneIsWhole
  <2> SUFFICES ASSUME Inv, card = "done" PROVE unpacked = [i \in 1..mark |-> i]
    BY DEF DoneIsWhole
  <2>1. /\ unpacked \in Seq(1..Chunks)
        /\ Len(unpacked) = mark
        /\ \A i \in 1..mark : unpacked[i] = i
    BY DEF Inv, TypeOK, CardShown, Whole
  <2> QED
    BY <2>1
<1> QED
  BY <1>1, Invariance, PTL

\* The download of a wildcard is a copy in the sense of CopyJob, like the copy of
\* a file (Transfers): one card, one last word, and a token that goes before it.
THEOREM DownloadImplementsCopy == Spec => ImplementsCopy
<1>1. Init => Copy!Init
  BY DEF Init, Copy!Init
<1>2. Inv /\ [Next]_vars => [Copy!Next]_<<card, token, cancelled>>
  <2> SUFFICES ASSUME Inv, Next PROVE Copy!Next \/ UNCHANGED <<card, token, cancelled>>
    BY DEF vars, job
  <2> USE DEF Inv, TypeOK, CardShown, job
  <2>1. CASE ListOk
    BY <2>1 DEF ListOk, Copy!Start, Copy!Next
  <2>2. CASE OpenFails \/ Join
    BY <2>2 DEF OpenFails, Join, Copy!Release, Copy!Next
  <2>3. CASE Report
    BY <2>3 DEF Report, Copy!Report, Copy!Next
  <2>4. CASE Cancel
    BY <2>4 DEF Cancel, Copy!Cancel, Copy!Next
  <2> QED
    BY <2>1, <2>2, <2>3, <2>4
    DEF Next, Task, Extractor, ListFails, OpenOk, PumpChecks, NextNone, PumpSends,
        NextData, NextExit, NextEof, ExtractTakes, ExtractFails, ExtractEnds, LinkLost
<1> QED
  BY <1>1, <1>2, Invariance, PTL DEF Spec, ImplementsCopy, Copy!Spec

-----------------------------------------------------------------------------
\* The safety half of DownloadEnds.  Whatever the remote side sends, and whenever the
\* user cancels, there is only so much to do,

\* How far the task is from its end,
Rank == [list |-> 7, open |-> 6, send |-> 5, check |-> 4, wait |-> 3, close |-> 2,
         report |-> 1, ended |-> 0]

\* what is left to read and to unpack, and who is there to do it.  A message read is
\* worth more than the way back from "send" to "wait", a step of the task more than
\* the chunk that it may leave in the queue.
Effort == 16 * (Len(script) - pos) + 2 * Rank[stage] + Len(queue)
          + (IF extractor = "running" THEN 1 ELSE 0)

\* Every step lowers it but a cancel and the loss of the connection, which leave it.
EffortSinks ==
    [][\/ Effort' < Effort
       \/ (Cancel \/ LinkLost) /\ UNCHANGED <<stage, stream, queue, extractor>>]_vars

\* and, unless the task waits for the remote side to answer or to send, somebody can
\* do some of it: the guards of Task and Extractor.
Progress ==
    stage \notin {"list", "open", "wait", "ended"} =>
        \/ stage \in {"check", "report"}
        \/ stage = "send" /\ (extractor # "running" \/ Len(queue) < QCap)
        \/ stage = "close" /\ extractor # "running"
        \/ extractor = "running" /\ (queue # <<>> \/ stage = "close")

LEMMA RankType ==
    /\ \A st \in Stages : Rank[st] \in 0..7
    /\ Rank["list"] = 7 /\ Rank["open"] = 6 /\ Rank["send"] = 5 /\ Rank["check"] = 4
    /\ Rank["wait"] = 3 /\ Rank["close"] = 2 /\ Rank["report"] = 1 /\ Rank["ended"] = 0
BY DEF Stages, Rank

\* The sum, over plain numbers: u messages unread, rank r, q chunks queued, e
\* extractors; and how little each kind of step has to lower.
LEMMA SumType ==
    ASSUME NEW u \in Nat, NEW r \in Nat, NEW q \in Nat, NEW e \in {0, 1}
    PROVE  16 * u + 2 * r + q + e \in Nat
OBVIOUS

LEMMA SumSinks ==
    ASSUME NEW u \in Nat, NEW r \in 0..7, NEW q \in Nat, NEW e \in {0, 1},
           NEW v \in Nat, NEW s \in 0..7, NEW t \in Nat, NEW f \in {0, 1},
           \/ v = u /\ s < r /\ t = q /\ (f = e \/ s + 1 < r)
           \/ v = u /\ s < r /\ t = q + 1 /\ f = e
           \/ v + 1 = u /\ s <= r + 2 /\ t = q /\ f = e
           \/ v = u /\ s = r /\ t < q /\ f = e
           \/ v = u /\ s = r /\ t <= q /\ f < e
    PROVE  16 * v + 2 * s + t + f < 16 * u + 2 * r + q + e
OBVIOUS

LEMMA EffortStep ==
    ASSUME Inv, Inv', Next
    PROVE  \/ Effort' < Effort
           \/ (Cancel \/ LinkLost) /\ UNCHANGED <<stage, stream, queue, extractor>>
<1> DEFINE u == Len(script) - pos
           r == Rank[stage]
           q == Len(queue)
           e == IF extractor = "running" THEN 1 ELSE 0
<1>1. u \in Nat /\ r \in 0..7 /\ q \in Nat /\ e \in {0, 1}
  <2>1. Len(script) \in Nat /\ pos \in 0..Len(script) /\ q \in Nat /\ stage \in Stages
    BY ScriptType DEF Inv, TypeOK
  <2> QED  BY <2>1, RankType
<1>2. u' \in Nat /\ r' \in 0..7 /\ q' \in Nat /\ e' \in {0, 1}
  <2>1. Len(script) \in Nat /\ script' = script
    BY ScriptType, ScriptStep DEF Inv
  <2>2. pos' \in 0..Len(script') /\ q' \in Nat /\ stage' \in Stages
    BY DEF Inv, TypeOK
  <2> QED  BY <2>1, <2>2, RankType
<1>3. Effort = 16 * u + 2 * r + q + e /\ Effort' = 16 * u' + 2 * r' + q' + e'
  BY DEF Effort
<1>4. /\ UNCHANGED pos => u' = u
      /\ UNCHANGED queue => q' = q
      /\ UNCHANGED extractor => e' = e
      /\ UNCHANGED stage => r' = r
      /\ pos' = pos + 1 => u' + 1 = u
  <2>1. Len(script) \in Nat /\ script' = script /\ pos \in Nat
    BY ScriptType, ScriptStep DEF Inv
  <2> QED  BY <2>1
<1> DEFINE Lower ==
             \/ u' = u /\ r' < r /\ q' = q /\ (e' = e \/ r' + 1 < r)
             \/ u' = u /\ r' < r /\ q' = q + 1 /\ e' = e
             \/ u' + 1 = u /\ r' <= r + 2 /\ q' = q /\ e' = e
             \/ u' = u /\ r' = r /\ q' < q /\ e' = e
             \/ u' = u /\ r' = r /\ q' <= q /\ e' < e
<1>5. Lower => Effort' < Effort
  <2> SUFFICES ASSUME Lower PROVE Effort' < Effort
    OBVIOUS
  <2>1. PICK a \in Nat, b \in 0..7, c \in Nat, d \in {0, 1} :
          a = u /\ b = r /\ c = q /\ d = e
    BY <1>1
  <2>2. PICK v \in Nat, s \in 0..7, t \in Nat, f \in {0, 1} :
          v = u' /\ s = r' /\ t = q' /\ f = e'
    BY <1>2
  <2>3. \/ v = a /\ s < b /\ t = c /\ (f = d \/ s + 1 < b)
        \/ v = a /\ s < b /\ t = c + 1 /\ f = d
        \/ v + 1 = a /\ s <= b + 2 /\ t = c /\ f = d
        \/ v = a /\ s = b /\ t < c /\ f = d
        \/ v = a /\ s = b /\ t <= c /\ f < d
    BY <2>1, <2>2
  <2>4. 16 * v + 2 * s + t + f < 16 * a + 2 * b + c + d
    BY <2>3, SumSinks
  <2> QED  BY <1>3, <2>1, <2>2, <2>4
<1>6. CASE ListFails \/ ListOk
  BY <1>4, <1>5, <1>6, RankType DEF ListFails, ListOk, stream, unpacking
<1>7. CASE OpenFails
  BY <1>4, <1>5, <1>7, RankType DEF OpenFails, stream, unpacking
<1>8. CASE OpenOk
  <2>1. u' = u /\ q' = q /\ r = 6 /\ r' = 4
    BY <1>4, <1>8, RankType DEF OpenOk, stream
  <2>2. Lower
    <3> HIDE DEF u, r, q, e
    <3> QED  BY <2>1
  <2> QED  BY <1>5, <2>2
<1>9. CASE PumpChecks \/ NextNone
  BY <1>4, <1>5, <1>9, RankType DEF PumpChecks, NextNone, stream, unpacking
<1>10. CASE NextData
  BY <1>1, <1>4, <1>5, <1>10, RankType DEF NextData, Arrives, unpacking
<1>11. CASE NextExit
  BY <1>1, <1>4, <1>5, <1>11, RankType DEF NextExit, Arrives, unpacking
<1>12. CASE NextEof
  BY <1>1, <1>4, <1>5, <1>12, RankType DEF NextEof, Arrives, unpacking
<1>13. CASE PumpSends
  <2>1. CASE extractor = "running"
    <3>1. queue' = Append(queue, pos) /\ u' = u /\ e' = e /\ r = 5 /\ r' = 4
      BY <1>4, <1>13, <2>1, RankType DEF PumpSends, stream
    <3>2. q' = q + 1
      <4>1. pos \in 1..Chunks
        BY <1>13, ScriptType DEF PumpSends, Inv, DataFirst, Reading, TypeOK
      <4> QED  BY <3>1, <4>1, AppendFacts DEF Inv, TypeOK
    <3> QED  BY <1>5, <3>1, <3>2
  <2>2. CASE extractor # "running"
    <3>1. u' = u /\ e' = e /\ q' = q /\ r = 5 /\ r' = 2
      BY <1>4, <1>13, <2>2, RankType DEF PumpSends, stream
    <3> QED  BY <1>5, <3>1
  <2> QED  BY <2>1, <2>2
<1>14. CASE Join \/ Report
  BY <1>4, <1>5, <1>14, RankType DEF Join, Report, stream, unpacking
<1>15. CASE ExtractTakes
  <2>1. u' = u /\ r' = r
    BY <1>4, <1>15 DEF ExtractTakes, stream
  <2>2. CASE Head(queue) = mark
    <3>1. queue' = <<>> /\ extractor = "running" /\ extractor' = "ok"
      BY <1>15, <2>2 DEF ExtractTakes
    <3>2. q' <= q /\ e' < e
      BY <1>1, <3>1
    <3> QED  BY <1>5, <2>1, <3>2
  <2>3. CASE Head(queue) # mark
    <3>1. queue # <<>> /\ queue' = Tail(queue) /\ e' = e
      BY <1>4, <1>15, <2>3 DEF ExtractTakes
    <3>2. q' < q
      BY <3>1, TailFacts DEF Inv, TypeOK
    <3> QED  BY <1>5, <2>1, <3>1, <3>2
  <2> QED  BY <2>2, <2>3
<1>16. CASE ExtractFails \/ ExtractEnds
  <2>1. u' = u /\ r' = r
    BY <1>4, <1>16 DEF ExtractFails, ExtractEnds, stream
  <2>2. q' <= q /\ e' < e
    BY <1>1, <1>16 DEF ExtractFails, ExtractEnds
  <2> QED  BY <1>5, <2>1, <2>2
<1>17. CASE Cancel \/ LinkLost
  BY <1>17 DEF Cancel, LinkLost, unpacking
<1> QED
  BY <1>6, <1>7, <1>8, <1>9, <1>10, <1>11, <1>12, <1>13, <1>14, <1>15, <1>16, <1>17
     DEF Next, Task, Extractor

\* A download never runs for ever and never gets stuck, for archives of any length
\* and queues of any size, unless the remote side falls silent.
THEOREM DownloadNeverHangs == Spec => [](Effort \in Nat /\ Progress) /\ EffortSinks
<1>1. Inv => Effort \in Nat
  <2> SUFFICES ASSUME Inv PROVE Effort \in Nat
    OBVIOUS
  <2> DEFINE u == Len(script) - pos
             r == Rank[stage]
             q == Len(queue)
             e == IF extractor = "running" THEN 1 ELSE 0
  <2>1. u \in Nat /\ r \in Nat /\ q \in Nat /\ e \in {0, 1}
    <3>1. Len(script) \in Nat /\ pos \in 0..Len(script) /\ q \in Nat /\ stage \in Stages
      BY ScriptType DEF Inv, TypeOK
    <3> QED  BY <3>1, RankType
  <2>2. Effort = 16 * u + 2 * r + q + e
    BY DEF Effort
  <2> HIDE DEF u, r, q, e
  <2> QED  BY <2>1, <2>2, SumType
<1>2. Inv => Progress
  BY GlobAssumption DEF Inv, TypeOK, Stages, Progress
<1>3. Inv /\ Inv' /\ [Next]_vars =>
        [\/ Effort' < Effort
         \/ (Cancel \/ LinkLost) /\ UNCHANGED <<stage, stream, queue, extractor>>]_vars
  BY EffortStep
<1> QED
  BY <1>1, <1>2, <1>3, Invariance, PTL DEF Spec, EffortSinks

-----------------------------------------------------------------------------
\* glob_match.  What a wildcard stands for obeys the rules of the recursion, so that
\* the recursion has a solution, and any solution agrees with it.

\* A set of numbers has a least one.
LEMMA LeastNumber ==
    ASSUME NEW S \in SUBSET Nat, S # {}
    PROVE  \E m \in S : \A k \in S : m <= k
<1>1. \E m \in S : \A k \in S : <<k, m>> \notin OpToRel(<, Nat)
  BY NatLessThanWellFounded, WFMin
<1>2. PICK m \in S : \A k \in S : <<k, m>> \notin OpToRel(<, Nat)
  BY <1>1
<1>3. \A k \in S : ~(k < m)
  BY <1>2 DEF OpToRel
<1> QED  BY <1>3

\* c cuts n, of length m, into the pieces that p, of length L, asks for: see
\* Cuts and Stands.
Piece(p, n, c, i) ==
    /\ c[i] <= c[i + 1]
    /\ p[i + 1] # "*" => c[i + 1] = c[i] + 1 /\ p[i + 1] \in {"?", n[c[i + 1]]}

CutInto(p, n, L, m, c) ==
    /\ c[0] = 0 /\ c[L] = m
    /\ \A i \in Nat : i <= L => c[i] \in 0..m
    /\ \A i \in Nat : i < L => Piece(p, n, c, i)

\* What it says of the ends, of one place and of one piece.
LEMMA CutEnds ==
    ASSUME NEW p, NEW n, NEW L, NEW m, NEW c, CutInto(p, n, L, m, c)
    PROVE  c[0] = 0 /\ c[L] = m
BY DEF CutInto

LEMMA CutPlace ==
    ASSUME NEW p, NEW n, NEW L, NEW m, NEW c, CutInto(p, n, L, m, c),
           NEW i \in Nat, i <= L
    PROVE  c[i] \in 0..m
BY DEF CutInto

LEMMA CutPiece ==
    ASSUME NEW p, NEW n, NEW L, NEW m, NEW c, CutInto(p, n, L, m, c),
           NEW i \in Nat, i < L
    PROVE  Piece(p, n, c, i)
BY DEF CutInto

LEMMA StandsByCut ==
    ASSUME NEW p \in Seq(STRING), NEW n \in Seq(STRING),
           NEW L \in Nat, Len(p) = L, NEW m \in Nat, Len(n) = m
    PROVE  Stands(p, n) <=> \E c : CutInto(p, n, L, m, c)
<1>1. ASSUME NEW c \in Cuts(p, n),
             \A i \in 1..Len(p) :
                p[i] # "*" => c[i] = c[i - 1] + 1 /\ p[i] \in {"?", n[c[i]]}
      PROVE  CutInto(p, n, L, m, c)
  <2>1. /\ c \in [0..L -> 0..m] /\ c[0] = 0 /\ c[L] = m
        /\ \A i \in 1..L : c[i - 1] <= c[i]
    BY DEF Cuts
  <2>2. ASSUME NEW i \in Nat, i < L
        PROVE  Piece(p, n, c, i)
    <3>1. i + 1 \in 1..L /\ (i + 1) - 1 = i
      BY <2>2
    <3> QED  BY <1>1, <2>1, <3>1 DEF Piece
  <2>3. ASSUME NEW i \in Nat, i <= L
        PROVE  c[i] \in 0..m
    BY <2>1, <2>3
  <2> QED  BY <2>1, <2>2, <2>3 DEF CutInto
<1>2. ASSUME NEW c, CutInto(p, n, L, m, c)
      PROVE  Stands(p, n)
  <2> DEFINE d == [i \in 0..L |-> c[i]]
  <2>1. \A i \in 0..L : d[i] = c[i] /\ c[i] \in 0..m
    BY <1>2 DEF CutInto
  <2>2. d \in [0..L -> 0..m]
    BY <2>1
  <2>3. d[0] = 0 /\ d[L] = m
    BY <1>2, <2>1 DEF CutInto
  <2> HIDE DEF d
  <2>4. ASSUME NEW i \in 1..L
        PROVE  /\ d[i - 1] <= d[i]
               /\ p[i] # "*" => d[i] = d[i - 1] + 1 /\ p[i] \in {"?", n[d[i]]}
    <3>1. i - 1 \in Nat /\ i - 1 < L /\ (i - 1) + 1 = i /\ i - 1 \in 0..L /\ i \in 0..L
      OBVIOUS
    <3>2. Piece(p, n, c, i - 1)
      BY <1>2, <3>1, CutPiece
    <3>3. d[i] = c[i] /\ d[i - 1] = c[i - 1]
      BY <2>1, <3>1
    <3> QED  BY <3>1, <3>2, <3>3 DEF Piece
  <2>5. d \in Cuts(p, n)
    BY <2>2, <2>3, <2>4 DEF Cuts
  <2> QED  BY <2>4, <2>5 DEF Stands
<1> QED  BY <1>1, <1>2 DEF Stands

\* The parts of a name or a pattern that is not empty.
LEMMA Parts ==
    ASSUME NEW s \in Seq(STRING), s # <<>>
    PROVE  /\ Tail(s) \in Seq(STRING)
           /\ Head(s) = s[1]
           /\ \E k \in Nat : Len(Tail(s)) = k /\ Len(s) = k + 1
<1>1. Len(s) \in Nat /\ Len(s) # 0 /\ Len(Tail(s)) = Len(s) - 1
  OBVIOUS
<1>2. \E k \in Nat : Len(s) = k + 1
  <2> DEFINE l == Len(s)
  <2>1. l \in Nat /\ l # 0
    BY <1>1
  <2> HIDE DEF l
  <2>2. l - 1 \in Nat /\ l = (l - 1) + 1
    BY <2>1
  <2>3. \E k \in Nat : l = k + 1
    BY <2>2
  <2> QED  BY <2>3 DEF l
<1>3. PICK k \in Nat : Len(s) = k + 1
  BY <1>2
<1>4. Len(Tail(s)) = k
  BY <1>1, <1>3
<1>5. Tail(s) \in Seq(STRING) /\ Head(s) = s[1]
  OBVIOUS
<1> QED  BY <1>3, <1>4, <1>5

LEMMA TailAt ==
    ASSUME NEW s \in Seq(STRING), NEW k \in Nat, Len(s) = k + 1,
           NEW i \in Nat, i # 0, i <= k
    PROVE  Tail(s)[i] = s[i + 1]
OBVIOUS

\* The cuts come in order.
LEMMA CutsInOrder ==
    ASSUME NEW p, NEW n, NEW L \in Nat, NEW m \in Nat, NEW c,
           CutInto(p, n, L, m, c), NEW i \in Nat, i # 0, i <= L
    PROVE  c[1] <= c[i]
<1> DEFINE S == {j \in Nat : j # 0 /\ j <= L /\ c[j] < c[1]}
<1>1. S = {}
  <2> SUFFICES ASSUME S # {} PROVE FALSE
    OBVIOUS
  <2>1. PICK k \in S : \A j \in S : k <= j
    <3>1. S \in SUBSET Nat
      OBVIOUS
    <3> HIDE DEF S
    <3> QED  BY <3>1, LeastNumber
  <2>2. k \in Nat /\ k # 0 /\ k <= L /\ c[k] < c[1]
    OBVIOUS
  <2>3. c[1] \in 0..m /\ c[k] \in 0..m
    <3>1. 1 <= L
      BY <2>2
    <3> QED  BY <2>2, <3>1, CutPlace
  <2>4. k # 1
    BY <2>2, <2>3
  <2>5. k - 1 \in Nat /\ k - 1 # 0 /\ k - 1 < L /\ k - 1 <= L /\ (k - 1) + 1 = k
    BY <2>2, <2>4
  <2>6. k - 1 \notin S
    <3>1. ~(k <= k - 1)
      BY <2>2
    <3> HIDE DEF S
    <3> QED  BY <2>1, <3>1
  <2>7. ~(c[k - 1] < c[1])
    BY <2>5, <2>6
  <2>8. c[k - 1] <= c[k] /\ c[k - 1] \in 0..m
    BY <2>5, CutPiece, CutPlace DEF Piece
  <2> QED  BY <2>2, <2>3, <2>7, <2>8
<1>2. ~(c[i] < c[1])
  BY <1>1
<1>3. c[1] \in 0..m /\ c[i] \in 0..m
  <2>1. 1 <= L
    OBVIOUS
  <2> QED  BY <2>1, CutPlace
<1> QED  BY <1>2, <1>3

\* A pattern whose first piece is nothing.
LEMMA DropNothing ==
    ASSUME NEW p \in Seq(STRING), NEW n \in Seq(STRING),
           NEW L \in Nat, Len(p) = L + 1, NEW m \in Nat,
           NEW c, CutInto(p, n, L + 1, m, c), c[1] = 0
    PROVE  \E d : CutInto(Tail(p), n, L, m, d)
<1> DEFINE d == [i \in Nat |-> c[i + 1]]
<1>1. \A i \in Nat : d[i] = c[i + 1]
  OBVIOUS
<1> HIDE DEF d
<1>2. d[0] = 0 /\ d[L] = m
  <2>1. 0 + 1 = 1 /\ c[L + 1] = m
    BY CutEnds
  <2> QED  BY <1>1, <2>1
<1>3. ASSUME NEW i \in Nat, i <= L
      PROVE  d[i] \in 0..m
  <2>1. i + 1 \in Nat /\ i + 1 <= L + 1
    BY <1>3
  <2>2. c[i + 1] \in 0..m
    BY <2>1, CutPlace
  <2> QED  BY <1>1, <2>2
<1>4. ASSUME NEW i \in Nat, i < L
      PROVE  Piece(Tail(p), n, d, i)
  <2>1. i + 1 \in Nat /\ i + 1 # 0 /\ i + 1 < L + 1 /\ i + 1 <= L
    BY <1>4
  <2>2. Piece(p, n, c, i + 1)
    BY <2>1, CutPiece
  <2>3. Tail(p)[i + 1] = p[(i + 1) + 1]
    BY <2>1, TailAt
  <2>4. d[i] = c[i + 1] /\ d[i + 1] = c[(i + 1) + 1]
    BY <1>1, <2>1
  <2> QED  BY <2>2, <2>3, <2>4 DEF Piece
<1> QED  BY <1>2, <1>3, <1>4 DEF CutInto

\* A pattern whose first piece is the first character.
LEMMA DropCharacter ==
    ASSUME NEW p \in Seq(STRING), NEW n \in Seq(STRING),
           NEW L \in Nat, Len(p) = L + 1, NEW m \in Nat, Len(n) = m + 1,
           NEW c, CutInto(p, n, L + 1, m + 1, c), c[1] = 1
    PROVE  \E d : CutInto(Tail(p), Tail(n), L, m, d)
<1> DEFINE d == [i \in Nat |-> c[i + 1] - 1]
<1>1. \A i \in Nat : d[i] = c[i + 1] - 1
  OBVIOUS
<1> HIDE DEF d
<1>2. d[0] = 0 /\ d[L] = m
  <2>1. 0 + 1 = 1 /\ c[L + 1] = m + 1
    BY CutEnds
  <2>2. 1 - 1 = 0 /\ (m + 1) - 1 = m
    OBVIOUS
  <2>3. d[0] = c[0 + 1] - 1 /\ d[L] = c[L + 1] - 1
    BY <1>1
  <2> QED  BY <2>1, <2>2, <2>3
<1>3. ASSUME NEW i \in Nat, i <= L
      PROVE  c[i + 1] \in 1..(m + 1) /\ d[i] \in 0..m /\ d[i] = c[i + 1] - 1
  <2>1. i + 1 \in Nat /\ i + 1 # 0 /\ i + 1 <= L + 1 /\ L + 1 \in Nat /\ m + 1 \in Nat
    BY <1>3
  <2>2. c[i + 1] \in 0..(m + 1)
    BY <2>1, CutPlace
  <2>3. c[1] <= c[i + 1]
    BY <2>1, CutsInOrder
  <2>4. d[i] = c[i + 1] - 1
    BY <1>1
  <2> QED  BY <2>2, <2>3, <2>4
<1>4. ASSUME NEW i \in Nat, i < L
      PROVE  Piece(Tail(p), Tail(n), d, i)
  <2>1. i + 1 \in Nat /\ i + 1 # 0 /\ i + 1 < L + 1 /\ i + 1 <= L /\ i <= L
    BY <1>4
  <2>2. Piece(p, n, c, i + 1)
    BY <2>1, CutPiece
  <2>3. Tail(p)[i + 1] = p[(i + 1) + 1]
    BY <2>1, TailAt
  <2>4. /\ d[i] = c[i + 1] - 1 /\ c[i + 1] \in 1..(m + 1)
        /\ d[i + 1] = c[(i + 1) + 1] - 1 /\ c[(i + 1) + 1] \in 1..(m + 1)
    BY <1>3, <2>1
  <2>5. c[(i + 1) + 1] = c[i + 1] + 1 =>
            d[i + 1] = d[i] + 1 /\ Tail(n)[d[i + 1]] = n[c[(i + 1) + 1]]
    <3>1. SUFFICES ASSUME c[(i + 1) + 1] = c[i + 1] + 1
                   PROVE  d[i + 1] = d[i] + 1 /\ Tail(n)[d[i + 1]] = n[c[(i + 1) + 1]]
      OBVIOUS
    <3>2. /\ d[i + 1] = d[i] + 1 /\ d[i + 1] \in Nat /\ d[i + 1] # 0 /\ d[i + 1] <= m
          /\ d[i + 1] + 1 = c[(i + 1) + 1]
      BY <2>4, <3>1
    <3> QED  BY <3>2, TailAt
  <2>6. d[i] <= d[i + 1]
    BY <2>2, <2>4 DEF Piece
  <2> QED  BY <2>2, <2>3, <2>5, <2>6 DEF Piece
<1> QED  BY <1>2, <1>3, <1>4 DEF CutInto

\* A star whose piece is not empty.
LEMMA ShortenStar ==
    ASSUME NEW p \in Seq(STRING), p[1] = "*", NEW n \in Seq(STRING),
           NEW L \in Nat, Len(p) = L + 1, NEW m \in Nat, Len(n) = m + 1,
           NEW c, CutInto(p, n, L + 1, m + 1, c), c[1] # 0
    PROVE  \E d : CutInto(p, Tail(n), L + 1, m, d)
<1> DEFINE d == [i \in Nat |-> IF i = 0 THEN 0 ELSE c[i] - 1]
<1>1. d[0] = 0 /\ \A i \in Nat : i # 0 => d[i] = c[i] - 1
  OBVIOUS
<1> HIDE DEF d
<1>2. ASSUME NEW i \in Nat, i # 0, i <= L + 1
      PROVE  c[i] \in 1..(m + 1) /\ d[i] \in 0..m /\ d[i] = c[i] - 1
  <2>1. L + 1 \in Nat /\ m + 1 \in Nat /\ 1 <= L + 1
    OBVIOUS
  <2>2. c[i] \in 0..(m + 1) /\ c[1] \in 0..(m + 1)
    BY <1>2, <2>1, CutPlace
  <2>3. c[1] <= c[i]
    BY <1>2, <2>1, CutsInOrder
  <2>4. d[i] = c[i] - 1
    BY <1>1, <1>2
  <2> QED  BY <2>2, <2>3, <2>4
<1>3. d[L + 1] = m
  <2>1. L + 1 \in Nat /\ L + 1 # 0 /\ L + 1 <= L + 1
    OBVIOUS
  <2>2. c[L + 1] = m + 1
    BY CutEnds
  <2>3. d[L + 1] = c[L + 1] - 1
    BY <1>2, <2>1
  <2> QED  BY <2>2, <2>3
<1>4. ASSUME NEW i \in Nat, i <= L + 1
      PROVE  d[i] \in 0..m
  <2>1. 0 \in 0..m
    OBVIOUS
  <2> QED  BY <1>1, <1>2, <1>4, <2>1
<1>5. ASSUME NEW i \in Nat, i < L + 1
      PROVE  Piece(p, Tail(n), d, i)
  <2>1. CASE i = 0
    <3>1. d[0] = 0 /\ d[0 + 1] \in 0..m /\ p[0 + 1] = "*"
      BY <1>1, <1>4
    <3>2. d[0] <= d[0 + 1]
      BY <3>1
    <3> QED  BY <2>1, <3>1, <3>2 DEF Piece
  <2>2. CASE i # 0
    <3>1. i + 1 \in Nat /\ i + 1 # 0 /\ i + 1 <= L + 1 /\ i <= L + 1
      BY <1>5
    <3>2. Piece(p, n, c, i)
      BY <1>5, CutPiece
    <3>3. /\ d[i] = c[i] - 1 /\ c[i] \in 1..(m + 1)
          /\ d[i + 1] = c[i + 1] - 1 /\ c[i + 1] \in 1..(m + 1)
      BY <1>2, <2>2, <3>1
    <3>4. c[i + 1] = c[i] + 1 =>
              d[i + 1] = d[i] + 1 /\ Tail(n)[d[i + 1]] = n[c[i + 1]]
      <4>1. SUFFICES ASSUME c[i + 1] = c[i] + 1
                     PROVE  d[i + 1] = d[i] + 1 /\ Tail(n)[d[i + 1]] = n[c[i + 1]]
        OBVIOUS
      <4>2. /\ d[i + 1] = d[i] + 1 /\ d[i + 1] \in Nat /\ d[i + 1] # 0 /\ d[i + 1] <= m
            /\ d[i + 1] + 1 = c[i + 1]
        BY <3>3, <4>1
      <4> QED  BY <4>2, TailAt
    <3>5. d[i] <= d[i + 1]
      BY <3>2, <3>3 DEF Piece
    <3> QED  BY <3>2, <3>4, <3>5 DEF Piece
  <2> QED  BY <2>1, <2>2
<1> QED  BY <1>1, <1>3, <1>4, <1>5 DEF CutInto

\* And the other way round: a star takes nothing,
LEMMA AddNothing ==
    ASSUME NEW p \in Seq(STRING), p[1] = "*", NEW n \in Seq(STRING),
           NEW L \in Nat, Len(p) = L + 1, NEW m \in Nat,
           NEW c, CutInto(Tail(p), n, L, m, c)
    PROVE  \E d : CutInto(p, n, L + 1, m, d)
<1> DEFINE d == [i \in Nat |-> IF i = 0 THEN 0 ELSE c[i - 1]]
<1>1. d[0] = 0 /\ \A i \in Nat : d[i + 1] = c[i]
  OBVIOUS
<1> HIDE DEF d
<1>2. ASSUME NEW i \in Nat, i <= L
      PROVE  d[i + 1] \in 0..m
  <2>1. c[i] \in 0..m
    BY <1>2, CutPlace
  <2> QED  BY <1>1, <2>1
<1>3. ASSUME NEW i \in Nat, i <= L + 1
      PROVE  d[i] \in 0..m
  <2>1. CASE i = 0
    <3>1. 0 \in 0..m
      OBVIOUS
    <3> QED  BY <1>1, <2>1, <3>1
  <2>2. CASE i # 0
    <3>1. PICK j \in Nat : i = j + 1 /\ j <= L
      <4>1. i - 1 \in Nat /\ i = (i - 1) + 1 /\ i - 1 <= L
        BY <1>3, <2>2
      <4> QED  BY <4>1
    <3> QED  BY <1>2, <3>1
  <2> QED  BY <2>1, <2>2
<1>4. ASSUME NEW i \in Nat, i < L + 1
      PROVE  Piece(p, n, d, i)
  <2>1. CASE i = 0
    <3>1. d[0] = 0 /\ d[0 + 1] = c[0] /\ c[0] = 0
      <4>1. 0 \in Nat
        OBVIOUS
      <4>2. c[0] = 0
        BY CutEnds
      <4> QED  BY <1>1, <4>1, <4>2
    <3>2. p[0 + 1] = "*" /\ 0 <= 0
      OBVIOUS
    <3> QED  BY <2>1, <3>1, <3>2 DEF Piece
  <2>2. CASE i # 0
    <3>1. PICK j \in Nat : i = j + 1 /\ j < L
      <4>1. i - 1 \in Nat /\ i = (i - 1) + 1 /\ i - 1 < L
        BY <1>4, <2>2
      <4> QED  BY <4>1
    <3>2. Piece(Tail(p), n, c, j)
      BY <3>1, CutPiece
    <3>3. d[j + 1] = c[j] /\ d[(j + 1) + 1] = c[j + 1]
      <4>1. j + 1 \in Nat
        OBVIOUS
      <4> QED  BY <1>1, <4>1
    <3>4. Tail(p)[j + 1] = p[(j + 1) + 1]
      <4>1. j + 1 \in Nat /\ j + 1 # 0 /\ j + 1 <= L
        BY <3>1
      <4> QED  BY <4>1, TailAt
    <3>5. Piece(p, n, d, j + 1)
      BY <3>2, <3>3, <3>4 DEF Piece
    <3> QED  BY <3>1, <3>5
  <2> QED  BY <2>1, <2>2
<1>5. d[L + 1] = m
  <2>1. c[L] = m
    BY CutEnds
  <2> QED  BY <1>1, <2>1
<1> QED  BY <1>1, <1>3, <1>4, <1>5 DEF CutInto

\* or one character more;
LEMMA LengthenStar ==
    ASSUME NEW p \in Seq(STRING), p[1] = "*", NEW n \in Seq(STRING),
           NEW L \in Nat, Len(p) = L + 1, NEW m \in Nat, Len(n) = m + 1,
           NEW c, CutInto(p, Tail(n), L + 1, m, c)
    PROVE  \E d : CutInto(p, n, L + 1, m + 1, d)
<1> DEFINE d == [i \in Nat |-> IF i = 0 THEN 0 ELSE c[i] + 1]
<1>1. d[0] = 0 /\ \A i \in Nat : i # 0 => d[i] = c[i] + 1
  OBVIOUS
<1> HIDE DEF d
<1>2. ASSUME NEW i \in Nat, i <= L + 1
      PROVE  c[i] \in 0..m /\ d[i] \in 0..(m + 1)
  <2>1. c[i] \in 0..m
    BY <1>2, CutPlace
  <2>2. c[i] + 1 \in 0..(m + 1) /\ 0 \in 0..(m + 1)
    BY <2>1
  <2> QED  BY <1>1, <2>1, <2>2
<1>3. d[L + 1] = m + 1
  <2>1. L + 1 \in Nat /\ L + 1 # 0
    OBVIOUS
  <2>2. c[L + 1] = m
    BY CutEnds
  <2> QED  BY <1>1, <2>1, <2>2
<1>4. ASSUME NEW i \in Nat, i < L + 1
      PROVE  Piece(p, n, d, i)
  <2>1. CASE i = 0
    <3>1. d[0] = 0 /\ d[0 + 1] \in 0..(m + 1) /\ p[0 + 1] = "*"
      BY <1>1, <1>2
    <3>2. d[0] <= d[0 + 1]
      BY <3>1
    <3> QED  BY <2>1, <3>1, <3>2 DEF Piece
  <2>2. CASE i # 0
    <3>1. i + 1 \in Nat /\ i + 1 # 0 /\ i + 1 <= L + 1 /\ i <= L + 1
      BY <1>4
    <3>2. Piece(p, Tail(n), c, i)
      BY <1>4, CutPiece
    <3>3. c[i] \in 0..m /\ c[i + 1] \in 0..m
      BY <1>2, <3>1
    <3>4. d[i] = c[i] + 1 /\ d[i + 1] = c[i + 1] + 1
      BY <1>1, <2>2, <3>1
    <3>5. c[i + 1] = c[i] + 1 =>
              d[i + 1] = d[i] + 1 /\ Tail(n)[c[i + 1]] = n[d[i + 1]]
      <4>1. SUFFICES ASSUME c[i + 1] = c[i] + 1
                     PROVE  d[i + 1] = d[i] + 1 /\ Tail(n)[c[i + 1]] = n[d[i + 1]]
        OBVIOUS
      <4>2. c[i + 1] \in Nat /\ c[i + 1] # 0 /\ c[i + 1] <= m
        BY <3>3, <4>1
      <4>3. Tail(n)[c[i + 1]] = n[c[i + 1] + 1]
        BY <4>2, TailAt
      <4> QED  BY <3>4, <4>1, <4>3
    <3>6. d[i] <= d[i + 1]
      BY <3>2, <3>3, <3>4 DEF Piece
    <3> QED  BY <3>2, <3>5, <3>6 DEF Piece
  <2> QED  BY <2>1, <2>2
<1> QED  BY <1>1, <1>2, <1>3, <1>4 DEF CutInto

\* and any other piece is one character.
LEMMA AddCharacter ==
    ASSUME NEW p \in Seq(STRING), NEW n \in Seq(STRING), p[1] \in {"?", n[1]},
           NEW L \in Nat, Len(p) = L + 1, NEW m \in Nat, Len(n) = m + 1,
           NEW c, CutInto(Tail(p), Tail(n), L, m, c)
    PROVE  \E d : CutInto(p, n, L + 1, m + 1, d)
<1> DEFINE d == [i \in Nat |-> IF i = 0 THEN 0 ELSE c[i - 1] + 1]
<1>1. d[0] = 0 /\ \A i \in Nat : d[i + 1] = c[i] + 1
  OBVIOUS
<1> HIDE DEF d
<1>2. ASSUME NEW i \in Nat, i <= L
      PROVE  c[i] \in 0..m /\ d[i + 1] \in 0..(m + 1)
  <2>1. c[i] \in 0..m
    BY <1>2, CutPlace
  <2>2. c[i] + 1 \in 0..(m + 1)
    BY <2>1
  <2> QED  BY <1>1, <2>1, <2>2
<1>3. ASSUME NEW i \in Nat, i <= L + 1
      PROVE  d[i] \in 0..(m + 1)
  <2>1. CASE i = 0
    <3>1. 0 \in 0..(m + 1)
      OBVIOUS
    <3> QED  BY <1>1, <2>1, <3>1
  <2>2. CASE i # 0
    <3>1. PICK j \in Nat : i = j + 1 /\ j <= L
      <4>1. i - 1 \in Nat /\ i = (i - 1) + 1 /\ i - 1 <= L
        BY <1>3, <2>2
      <4> QED  BY <4>1
    <3> QED  BY <1>2, <3>1
  <2> QED  BY <2>1, <2>2
<1>4. ASSUME NEW i \in Nat, i < L + 1
      PROVE  Piece(p, n, d, i)
  <2>1. CASE i = 0
    <3>1. d[0] = 0 /\ d[0 + 1] = c[0] + 1 /\ c[0] = 0
      <4>1. 0 \in Nat
        OBVIOUS
      <4>2. c[0] = 0
        BY CutEnds
      <4> QED  BY <1>1, <4>1, <4>2
    <3>2. 0 + 1 = 1 /\ 0 <= 1 /\ p[0 + 1] \in {"?", n[1]}
      OBVIOUS
    <3> QED  BY <2>1, <3>1, <3>2 DEF Piece
  <2>2. CASE i # 0
    <3>1. PICK j \in Nat : i = j + 1 /\ j < L
      <4>1. i - 1 \in Nat /\ i = (i - 1) + 1 /\ i - 1 < L
        BY <1>4, <2>2
      <4> QED  BY <4>1
    <3>2. Piece(Tail(p), Tail(n), c, j)
      BY <3>1, CutPiece
    <3>3. d[j + 1] = c[j] + 1 /\ d[(j + 1) + 1] = c[j + 1] + 1
      <4>1. j + 1 \in Nat
        OBVIOUS
      <4> QED  BY <1>1, <4>1
    <3>4. Tail(p)[j + 1] = p[(j + 1) + 1]
      <4>1. j + 1 \in Nat /\ j + 1 # 0 /\ j + 1 <= L
        BY <3>1
      <4> QED  BY <4>1, TailAt
    <3>5. c[j] \in 0..m /\ c[j + 1] \in 0..m
      <4>1. j + 1 \in Nat /\ j + 1 <= L /\ j <= L
        BY <3>1
      <4> QED  BY <1>2, <4>1
    <3>6. c[j + 1] = c[j] + 1 =>
              d[(j + 1) + 1] = d[j + 1] + 1 /\ Tail(n)[c[j + 1]] = n[d[(j + 1) + 1]]
      <4>1. SUFFICES ASSUME c[j + 1] = c[j] + 1
                     PROVE  d[(j + 1) + 1] = d[j + 1] + 1 /\ Tail(n)[c[j + 1]] = n[d[(j + 1) + 1]]
        OBVIOUS
      <4>2. c[j + 1] \in Nat /\ c[j + 1] # 0 /\ c[j + 1] <= m
        BY <3>5, <4>1
      <4>3. Tail(n)[c[j + 1]] = n[c[j + 1] + 1]
        BY <4>2, TailAt
      <4> QED  BY <3>3, <4>1, <4>3
    <3>7. d[j + 1] <= d[(j + 1) + 1]
      BY <3>2, <3>3, <3>5 DEF Piece
    <3>8. Piece(p, n, d, j + 1)
      BY <3>2, <3>4, <3>6, <3>7 DEF Piece
    <3> QED  BY <3>1, <3>8
  <2> QED  BY <2>1, <2>2
<1>5. d[L + 1] = m + 1
  <2>1. c[L] = m
    BY CutEnds
  <2> QED  BY <1>1, <2>1
<1> QED  BY <1>1, <1>3, <1>4, <1>5 DEF CutInto
\* What a wildcard stands for, from its first piece on: the empty one,
LEMMA StandsEmpty ==
    ASSUME NEW n \in Seq(STRING)
    PROVE  Stands(<<>>, n) <=> n = <<>>
<1>1. Len(<<>>) = 0 /\ <<>> \in Seq(STRING)
  OBVIOUS
<1>2. PICK m \in Nat : Len(n) = m
  OBVIOUS
<1>3. n = <<>> <=> m = 0
  BY <1>2
<1>4. Stands(<<>>, n) <=> \E c : CutInto(<<>>, n, 0, m, c)
  <2>1. 0 \in Nat
    OBVIOUS
  <2> QED  BY <1>1, <1>2, <2>1, StandsByCut
<1>5. ASSUME NEW c, CutInto(<<>>, n, 0, m, c)
      PROVE  m = 0
  BY <1>5, CutEnds
<1>6. ASSUME m = 0
      PROVE  \E c : CutInto(<<>>, n, 0, m, c)
  <2> DEFINE c == [i \in Nat |-> 0]
  <2>1. CutInto(<<>>, n, 0, m, c)
    BY <1>6 DEF CutInto
  <2> QED  BY <2>1
<1> QED  BY <1>3, <1>4, <1>5, <1>6

\* one that begins with a star,
LEMMA StandsStar ==
    ASSUME NEW p \in Seq(STRING), p # <<>>, p[1] = "*", NEW n \in Seq(STRING)
    PROVE  Stands(p, n) <=>
              Stands(Tail(p), n) \/ (n # <<>> /\ Stands(p, Tail(n)))
<1>1. Tail(p) \in Seq(STRING)
  BY Parts
<1>2. PICK L \in Nat : Len(Tail(p)) = L /\ Len(p) = L + 1
  BY Parts
<1>3. PICK m \in Nat : Len(n) = m
  OBVIOUS
<1>4. L + 1 \in Nat
  OBVIOUS
<1>5. Stands(p, n) <=> \E c : CutInto(p, n, L + 1, m, c)
  BY <1>2, <1>3, <1>4, StandsByCut
<1>6. Stands(Tail(p), n) <=> \E c : CutInto(Tail(p), n, L, m, c)
  BY <1>1, <1>2, <1>3, StandsByCut
<1>7. ASSUME NEW k \in Nat, m = k + 1, n # <<>>
      PROVE  /\ Tail(n) \in Seq(STRING) /\ Len(Tail(n)) = k
             /\ Stands(p, Tail(n)) <=> \E c : CutInto(p, Tail(n), L + 1, k, c)
  <2>1. Tail(n) \in Seq(STRING) /\ Len(Tail(n)) = k
    BY <1>3, <1>7, Parts
  <2> QED  BY <1>2, <1>4, <2>1, StandsByCut
<1>8. ASSUME n # <<>>
      PROVE  \E k \in Nat : m = k + 1
  BY <1>3, <1>8, Parts
<1>9. ASSUME Stands(p, n)
      PROVE  Stands(Tail(p), n) \/ (n # <<>> /\ Stands(p, Tail(n)))
  <2>1. PICK c : CutInto(p, n, L + 1, m, c)
    BY <1>5, <1>9
  <2>2. CASE c[1] = 0
    <3>1. \E d : CutInto(Tail(p), n, L, m, d)
      BY <1>2, <2>1, <2>2, DropNothing
    <3> QED  BY <1>6, <3>1
  <2>3. CASE c[1] # 0
    <3>1. c[1] \in 0..m
      <4>1. 1 \in Nat /\ 1 <= L + 1
        OBVIOUS
      <4> QED  BY <2>1, <4>1, CutPlace
    <3>2. n # <<>>
      <4>1. m # 0
        BY <2>3, <3>1
      <4> QED  BY <1>3, <4>1
    <3>3. PICK k \in Nat : m = k + 1
      BY <1>8, <3>2
    <3>4. CutInto(p, n, L + 1, k + 1, c) /\ Len(n) = k + 1
      BY <1>3, <2>1, <3>3
    <3>5. \E d : CutInto(p, Tail(n), L + 1, k, d)
      BY <1>2, <2>3, <3>4, ShortenStar
    <3> QED  BY <1>7, <3>2, <3>3, <3>5
  <2> QED  BY <2>2, <2>3
<1>10. ASSUME Stands(Tail(p), n)
       PROVE  Stands(p, n)
  <2>1. PICK c : CutInto(Tail(p), n, L, m, c)
    BY <1>6, <1>10
  <2>2. \E d : CutInto(p, n, L + 1, m, d)
    BY <1>2, <2>1, AddNothing
  <2> QED  BY <1>5, <2>2
<1>11. ASSUME n # <<>>, Stands(p, Tail(n))
       PROVE  Stands(p, n)
  <2>1. PICK k \in Nat : m = k + 1
    BY <1>8, <1>11
  <2>2. PICK c : CutInto(p, Tail(n), L + 1, k, c)
    BY <1>7, <1>11, <2>1
  <2>3. \E d : CutInto(p, n, L + 1, k + 1, d)
    <3>1. Len(n) = k + 1
      BY <1>3, <2>1
    <3> QED  BY <1>2, <2>2, <3>1, LengthenStar
  <2> QED  BY <1>5, <2>1, <2>3
<1> QED  BY <1>9, <1>10, <1>11

\* and one that begins with anything else.
LEMMA StandsOther ==
    ASSUME NEW p \in Seq(STRING), p # <<>>, p[1] # "*", NEW n \in Seq(STRING)
    PROVE  Stands(p, n) <=>
              /\ n # <<>>
              /\ p[1] \in {"?", n[1]}
              /\ Stands(Tail(p), Tail(n))
<1>1. Tail(p) \in Seq(STRING)
  BY Parts
<1>2. PICK L \in Nat : Len(Tail(p)) = L /\ Len(p) = L + 1
  BY Parts
<1>3. PICK m \in Nat : Len(n) = m
  OBVIOUS
<1>4. L + 1 \in Nat
  OBVIOUS
<1>5. Stands(p, n) <=> \E c : CutInto(p, n, L + 1, m, c)
  BY <1>2, <1>3, <1>4, StandsByCut
<1>6. ASSUME n # <<>>
      PROVE  /\ Tail(n) \in Seq(STRING)
             /\ \E k \in Nat : Len(Tail(n)) = k /\ Len(n) = k + 1 /\ m = k + 1
  BY <1>3, <1>6, Parts
<1>7. ASSUME NEW k \in Nat, Len(Tail(n)) = k, Tail(n) \in Seq(STRING)
      PROVE  Stands(Tail(p), Tail(n)) <=> \E c : CutInto(Tail(p), Tail(n), L, k, c)
  BY <1>1, <1>2, <1>7, StandsByCut
<1>8. ASSUME Stands(p, n)
      PROVE  n # <<>> /\ p[1] \in {"?", n[1]} /\ Stands(Tail(p), Tail(n))
  <2>1. PICK c : CutInto(p, n, L + 1, m, c)
    BY <1>5, <1>8
  <2>2. c[1] = 1 /\ p[1] \in {"?", n[1]} /\ c[1] \in 0..m
    <3>1. 0 \in Nat /\ 0 < L + 1 /\ 1 \in Nat /\ 1 <= L + 1 /\ 0 + 1 = 1
      OBVIOUS
    <3>2. Piece(p, n, c, 0)
      BY <2>1, <3>1, CutPiece
    <3>3. c[0] = 0
      BY <2>1, CutEnds
    <3>4. c[1] \in 0..m
      BY <2>1, <3>1, CutPlace
    <3> QED  BY <3>1, <3>2, <3>3, <3>4 DEF Piece
  <2>3. n # <<>>
    <3>1. m # 0
      BY <2>2
    <3> QED  BY <1>3, <3>1
  <2>4. PICK k \in Nat : Len(Tail(n)) = k /\ Len(n) = k + 1 /\ m = k + 1
    BY <1>6, <2>3
  <2>5. CutInto(p, n, L + 1, k + 1, c)
    BY <2>1, <2>4
  <2>6. \E d : CutInto(Tail(p), Tail(n), L, k, d)
    BY <1>2, <2>2, <2>4, <2>5, DropCharacter
  <2>7. Tail(n) \in Seq(STRING)
    BY <1>6, <2>3
  <2>8. Stands(Tail(p), Tail(n))
    BY <1>7, <2>4, <2>6, <2>7
  <2> QED  BY <2>2, <2>3, <2>8
<1>9. ASSUME n # <<>>, p[1] \in {"?", n[1]}, Stands(Tail(p), Tail(n))
      PROVE  Stands(p, n)
  <2>1. PICK k \in Nat : Len(Tail(n)) = k /\ Len(n) = k + 1 /\ m = k + 1
    BY <1>6, <1>9
  <2>2. Tail(n) \in Seq(STRING)
    BY <1>6, <1>9
  <2>3. PICK c : CutInto(Tail(p), Tail(n), L, k, c)
    BY <1>7, <1>9, <2>1, <2>2
  <2>4. \E d : CutInto(p, n, L + 1, k + 1, d)
    BY <1>2, <1>9, <2>1, <2>3, AddCharacter
  <2> QED  BY <1>5, <2>1, <2>4
<1> QED  BY <1>8, <1>9

\* The body of glob_match around its calls of itself, and that what a wildcard
\* stands for fits in.
Matches(f, p, n) ==
    IF p = <<>> THEN n = <<>>
    ELSE IF Head(p) = "*"
         THEN f[<<Tail(p), n>>] \/ (n # <<>> /\ f[<<p, Tail(n)>>])
         ELSE /\ n # <<>>
              /\ Head(p) \in {"?", Head(n)}
              /\ f[<<Tail(p), Tail(n)>>]

Asked == Seq(STRING) \X Seq(STRING)

LEMMA StandsMatches ==
    ASSUME NEW f, \A p, n \in Seq(STRING) : f[<<p, n>>] <=> Stands(p, n),
           NEW p \in Seq(STRING), NEW n \in Seq(STRING)
    PROVE  Stands(p, n) <=> Matches(f, p, n)
<1>1. CASE p = <<>>
  BY <1>1, StandsEmpty DEF Matches
<1>2. CASE p # <<>>
  <2>1. Tail(p) \in Seq(STRING) /\ Head(p) = p[1]
    BY <1>2, Parts
  <2>2. n # <<>> => Tail(n) \in Seq(STRING) /\ Head(n) = n[1]
    BY Parts
  <2>3. f[<<Tail(p), n>>] <=> Stands(Tail(p), n)
    BY <2>1
  <2>4. n # <<>> => /\ f[<<p, Tail(n)>>] <=> Stands(p, Tail(n))
                    /\ f[<<Tail(p), Tail(n)>>] <=> Stands(Tail(p), Tail(n))
    BY <2>1, <2>2
  <2>5. CASE p[1] = "*"
    <3>1. Matches(f, p, n) <=> f[<<Tail(p), n>>] \/ (n # <<>> /\ f[<<p, Tail(n)>>])
      BY <1>2, <2>1, <2>5 DEF Matches
    <3> QED  BY <1>2, <2>3, <2>4, <2>5, <3>1, StandsStar
  <2>6. CASE p[1] # "*"
    <3>1. Matches(f, p, n) <=> /\ n # <<>>
                               /\ Head(p) \in {"?", Head(n)}
                               /\ f[<<Tail(p), Tail(n)>>]
      BY <1>2, <2>1, <2>6 DEF Matches
    <3>2. n # <<>> => (Head(p) \in {"?", Head(n)} <=> p[1] \in {"?", n[1]})
      BY <2>1, <2>2
    <3> QED  BY <1>2, <2>4, <2>6, <3>1, <3>2, StandsOther
  <2> QED  BY <2>5, <2>6
<1> QED  BY <1>1, <1>2

LEMMA GlobMatchExists ==
    \E f : f = [x \in Asked |-> Matches(f, x[1], x[2])]
<1> DEFINE f == [x \in Asked |-> Stands(x[1], x[2])]
<1>1. \A p, n \in Seq(STRING) : f[<<p, n>>] <=> Stands(p, n)
  BY DEF Asked
<1>2. ASSUME NEW x \in Asked
      PROVE  f[x] = Matches(f, x[1], x[2])
  <2> DEFINE P == Stands(x[1], x[2])
             Q == Matches(f, x[1], x[2])
  <2>1. f[x] = P
    OBVIOUS
  <2>2. P <=> Q
    <3>1. x[1] \in Seq(STRING) /\ x[2] \in Seq(STRING)
      BY DEF Asked
    <3> HIDE DEF f
    <3> QED  BY <1>1, <3>1, StandsMatches
  <2>3. P \in BOOLEAN /\ Q \in BOOLEAN
    <3> HIDE DEF f
    <3> QED  BY DEF Stands, Matches
  <2>4. f[x] = Q
    <3> HIDE DEF f, P, Q
    <3> QED  BY <2>1, <2>2, <2>3
  <2> QED  BY <2>4
<1>3. f = [x \in Asked |-> Matches(f, x[1], x[2])]
  <2> DEFINE g == [x \in Asked |-> Matches(f, x[1], x[2])]
  <2>1. \A x \in Asked : f[x] = g[x]
    BY <1>2
  <2>2. f = [x \in Asked |-> f[x]] /\ g = [x \in Asked |-> g[x]]
    OBVIOUS
  <2>3. f = g
    <3> HIDE DEF f, g
    <3> QED  BY <2>1, <2>2
  <2> QED  BY <2>3
<1> HIDE DEF f
<1> QED  BY <1>3

\* So the recursion has a solution, and GlobMatch is one.
LEMMA GlobMatchRule ==
    ASSUME NEW p \in Seq(STRING), NEW n \in Seq(STRING)
    PROVE  GlobMatch[<<p, n>>] <=> Matches(GlobMatch, p, n)
<1> DEFINE P(f) == f = [x \in Asked |-> Matches(f, x[1], x[2])]
<1>1. P(CHOOSE f : P(f))
  BY GlobMatchExists
<1>2. GlobMatch = CHOOSE f : P(f)
  BY DEF GlobMatch, Matches, Asked
<1>3. P(GlobMatch)
  BY <1>1, <1>2
<1>4. \A x \in Asked : GlobMatch[x] = Matches(GlobMatch, x[1], x[2])
  BY <1>3, Zenon
<1>5. <<p, n>> \in Asked /\ <<p, n>>[1] = p /\ <<p, n>>[2] = n
  BY DEF Asked
<1> QED  BY <1>4, <1>5

\* Every solution agrees with what wildcards stand for: at the shortest pattern
\* and name where it did not, the calls of itself would be right already.
LEMMA GlobMatchCorrect ==
    ASSUME NEW p \in Seq(STRING), NEW n \in Seq(STRING)
    PROVE  GlobMatchName(p, n) <=> Stands(p, n)
<1> DEFINE Wrong(q, s) == ~(GlobMatch[<<q, s>>] <=> Stands(q, s))
           S == {k \in Nat : \E q, s \in Seq(STRING) : Len(q) + Len(s) = k /\ Wrong(q, s)}
<1>1. S = {}
  <2> SUFFICES ASSUME S # {} PROVE FALSE
    OBVIOUS
  <2>1. PICK k \in S : \A j \in S : k <= j
    <3>1. S \in SUBSET Nat
      OBVIOUS
    <3> HIDE DEF S
    <3> QED  BY <3>1, LeastNumber
  <2>2. PICK q \in Seq(STRING), s \in Seq(STRING) : Len(q) + Len(s) = k /\ Wrong(q, s)
    OBVIOUS
  <2>3. ASSUME NEW a \in Seq(STRING), NEW b \in Seq(STRING), Len(a) + Len(b) < k
        PROVE  GlobMatch[<<a, b>>] <=> Stands(a, b)
    <3>1. Len(a) + Len(b) \in Nat /\ k \in Nat
      OBVIOUS
    <3>2. Len(a) + Len(b) \notin S
      <4> HIDE DEF S
      <4> QED  BY <2>1, <2>3, <3>1
    <3> QED  BY <3>1, <3>2
  <2> HIDE DEF S
  <2> DEFINE f == [x \in Asked |-> Stands(x[1], x[2])]
  <2>4. \A a, b \in Seq(STRING) : f[<<a, b>>] <=> Stands(a, b)
    BY DEF Asked
  <2> HIDE DEF f
  <2>5. Stands(q, s) <=> Matches(f, q, s)
    BY <2>4, StandsMatches
  <2>6. GlobMatch[<<q, s>>] <=> Matches(GlobMatch, q, s)
    BY GlobMatchRule
  <2>7. Matches(f, q, s) <=> Matches(GlobMatch, q, s)
    <3>1. CASE q = <<>>
      BY <3>1 DEF Matches
    <3>2. CASE q # <<>>
      <4>1. PICK l \in Nat : Len(Tail(q)) = l /\ Len(q) = l + 1
        BY <3>2, Parts
      <4>2. Tail(q) \in Seq(STRING)
        BY <3>2, Parts
      <4>3. f[<<Tail(q), s>>] <=> GlobMatch[<<Tail(q), s>>]
        <5>1. Len(Tail(q)) + Len(s) < k
          BY <2>2, <4>1
        <5> QED  BY <2>3, <2>4, <4>2, <5>1
      <4>4. ASSUME s # <<>>
            PROVE  /\ f[<<q, Tail(s)>>] <=> GlobMatch[<<q, Tail(s)>>]
                   /\ f[<<Tail(q), Tail(s)>>] <=> GlobMatch[<<Tail(q), Tail(s)>>]
        <5>1. PICK m \in Nat : Len(Tail(s)) = m /\ Len(s) = m + 1
          BY <4>4, Parts
        <5>2. Tail(s) \in Seq(STRING)
          BY <4>4, Parts
        <5>3. k = (l + 1) + (m + 1)
          BY <2>2, <4>1, <5>1
        <5>4. (l + 1) + m < (l + 1) + (m + 1) /\ l + m < (l + 1) + (m + 1)
          OBVIOUS
        <5>5. Len(q) + Len(Tail(s)) < k /\ Len(Tail(q)) + Len(Tail(s)) < k
          BY <4>1, <5>1, <5>3, <5>4
        <5> QED  BY <2>3, <2>4, <4>2, <5>2, <5>5
      <4> QED  BY <3>2, <4>3, <4>4 DEF Matches
    <3> QED  BY <3>1, <3>2
  <2> QED  BY <2>2, <2>5, <2>6, <2>7
<1>2. ~Wrong(p, n)
  <2>1. Len(p) + Len(n) \in Nat
    OBVIOUS
  <2>2. Len(p) + Len(n) \notin S
    <3> HIDE DEF S
    <3> QED  BY <1>1
  <2> QED  BY <2>1, <2>2
<1> QED  BY <1>2 DEF GlobMatchName

\* glob_match finds exactly the names that the wildcard stands for, whatever the
\* pattern and however long the names of the directory.
THEOREM GlobMatchIsSound == Spec => []GlobMatchSound
<1>1. Inv => GlobMatchSound
  <2> SUFFICES ASSUME Inv, NEW n \in Names
               PROVE  GlobMatchName(pattern, n) <=> Stands(pattern, n)
    BY DEF GlobMatchSound
  <2>1. pattern \in Seq(STRING) /\ n \in Seq(STRING)
    BY GlobAssumption DEF Inv, TypeOK
  <2> QED
    BY <2>1, GlobMatchCorrect
<1> QED
  BY <1>1, Invariance, PTL
=============================================================================
