-------------------------- MODULE ShellPipeProofs ---------------------------
(***************************************************************************)
(* Theorems about ShellPipe, for queues of any size and any amount of      *)
(* output and input: type correctness, each direction a Fifo, and what     *)
(* the liveness of a terminal needs besides fairness.                      *)
(*                                                                         *)
(* The argument for either direction is a count.  What has come out at the *)
(* far end, what is on its way, place by place, and what is still to come  *)
(* in are consecutive stretches of what went in; the stretches on the way  *)
(* are cut off from the near end only, when a task ends or the link goes,  *)
(* and after that the far end gets nothing more.                           *)
(***************************************************************************)
EXTENDS ShellPipe, TLAPS

\* What a task has in its hands.
InHands ==
    /\ pump = "handing" =>
         inHand \in [n : 1..MaxOut, err : BOOLEAN] /\ inHand.n = received
    /\ pump = "writing" => writes \in Inputs
    /\ facade = "writing" => passes \in Inputs

\* The sudo task types two lines, which come on top of what the user types.
SudoLines == IF sudo = "cmd" THEN 0 ELSE IF sudo = "pw" THEN 1 ELSE 2
TypedBound == Len(accepted) <= MaxIn + SudoLines

\* Output: the messages shown, the queue and the one in the pump's hands.
Handing == IF pump = "handing" THEN 1 ELSE 0
OutputInOrder ==
    /\ Len(shown) <= received
    /\ \A i \in 1..Len(shown) : shown[i] = i
    /\ facade # "done" =>
         /\ \A i \in 1..Len(out) : out[i] = Len(shown) + i
         /\ received = Len(shown) + Len(out) + Handing
    /\ closed => facade = "done" /\ pump = "done" /\ Len(shown) = received

\* Input: the pieces delivered, the one the pump writes, the queue to the pump, the
\* one the facade passes on and the queue from the command loop.
Writing == Len(delivered) + (IF pump = "writing" THEN 1 ELSE 0)
Passing == Writing + Len(cmds) + (IF facade = "writing" THEN 1 ELSE 0)
GivenInOrder ==
    /\ Len(delivered) <= Len(accepted)
    /\ \A i \in 1..Len(delivered) : delivered[i] = accepted[i]
WithThePump ==
    /\ Writing + Len(cmds) <= Len(accepted)
    /\ pump = "writing" => writes = accepted[Writing]
    /\ \A i \in 1..Len(cmds) : cmds[i] = accepted[Writing + i]
WithTheFacade ==
    /\ facade = "writing" => passes = accepted[Passing]
    /\ \A i \in 1..Len(typed) : typed[i] = accepted[Passing + i]
    /\ Passing + Len(typed) = Len(accepted)
InputInOrder ==
    /\ GivenInOrder
    /\ link = "up" /\ pump # "done" =>
         WithThePump /\ (facade # "done" => WithTheFacade)

Inv == TypeOK /\ InHands /\ TypedBound /\ OutputInOrder /\ InputInOrder

-----------------------------------------------------------------------------
\* Facts about the queues.
LEMMA AppendFacts ==
    ASSUME NEW T, NEW s \in Seq(T), NEW e \in T
    PROVE  /\ Append(s, e) \in Seq(T)
           /\ Len(s) \in Nat
           /\ Len(Append(s, e)) = Len(s) + 1
           /\ \A i \in 1..Len(s) : Append(s, e)[i] = s[i]
           /\ Append(s, e)[Len(s) + 1] = e
OBVIOUS

LEMMA TailFacts ==
    ASSUME NEW T, NEW s \in Seq(T), s # <<>>
    PROVE  /\ Tail(s) \in Seq(T)
           /\ Head(s) = s[1]
           /\ Head(s) \in T
           /\ Len(s) \in Nat \ {0}
           /\ Len(Tail(s)) = Len(s) - 1
           /\ \A i \in 1..(Len(s) - 1) : Tail(s)[i] = s[i + 1]
OBVIOUS

LEMMA EmptyFacts == ASSUME NEW T PROVE <<>> \in Seq(T) /\ Len(<<>>) = 0
OBVIOUS

\* What is accepted fits the type of an input.
LEMMA AcceptStep ==
    ASSUME Inv, NEW kind \in Kinds, Accept(kind), Len(accepted) < MaxIn + 2
    PROVE  \E piece \in Inputs :
              typed' = Append(typed, piece) /\ accepted' = Append(accepted, piece)
<1> DEFINE piece == [kind |-> kind, n |-> Len(accepted) + 1]
<1>1. Len(accepted) \in Nat /\ MaxIn \in Nat
  BY ShellAssumption DEF Inv, TypeOK
<1>2. Len(accepted) + 1 \in 1..(MaxIn + 2)
  BY <1>1
<1>3. piece \in Inputs
  BY <1>2 DEF Inputs
<1>4. typed' = Append(typed, piece) /\ accepted' = Append(accepted, piece)
  BY DEF Accept
<1> QED
  BY <1>3, <1>4

-----------------------------------------------------------------------------
\* The types, and what a task has in its hands.
LEMMA TypeStep == Inv /\ [Next]_vars => (TypeOK /\ InHands /\ TypedBound)'
<1> SUFFICES ASSUME Inv, [Next]_vars PROVE (TypeOK /\ InHands /\ TypedBound)'
  OBVIOUS
<1>a. /\ out \in Seq(1..MaxOut) /\ Len(out) \in Nat
      /\ cmds \in Seq(Inputs) /\ Len(cmds) \in Nat
      /\ typed \in Seq(Inputs) /\ Len(typed) \in Nat
      /\ accepted \in Seq(Inputs) /\ Len(accepted) \in Nat
      /\ delivered \in Seq(Inputs) /\ shown \in Seq(1..MaxOut)
  BY DEF Inv, TypeOK
<1> USE ShellAssumption, EmptyFacts
    DEF Inv, TypeOK, InHands, TypedBound, SudoLines, tasks, queues, history, PumpEnds,
        FacadeEnds
<1>0. CASE UNCHANGED vars
  BY <1>0 DEF vars
<1>1. CASE Register
  BY <1>1, <1>a DEF Register
<1>2. CASE TypeInput
  <2>1. PICK kind \in {"keys", "size"} : Accept(kind)
    BY <1>2 DEF TypeInput
  <2>0. Len(accepted) < MaxIn + 2 /\ kind \in Kinds
    BY <1>2, <1>a DEF TypeInput, Kinds
  <2>2. PICK piece \in Inputs :
            typed' = Append(typed, piece) /\ accepted' = Append(accepted, piece)
    BY <2>0, <2>1, AcceptStep
  <2>3. /\ typed' \in Seq(Inputs) /\ Len(typed') = Len(typed) + 1
        /\ accepted' \in Seq(Inputs) /\ Len(accepted') = Len(accepted) + 1
    BY <1>a, <2>2, AppendFacts
  <2> QED
    BY <1>2, <1>a, <2>3 DEF TypeInput
<1>3. CASE Disconnect
  BY <1>3, <1>a DEF Disconnect
<1>4. CASE Replaced
  BY <1>4, <1>a DEF Replaced
<1>5. CASE LinkLost
  BY <1>5, <1>a DEF LinkLost
<1>6. CASE PumpReads
  BY <1>6, <1>a DEF PumpReads
<1>7. CASE PumpEof
  BY <1>7, <1>a DEF PumpEof
<1>8. CASE RemoteTakes
  <2>1. writes \in Inputs
    BY <1>8 DEF RemoteTakes
  <2>2. delivered' \in Seq(Inputs)
    BY <1>8, <1>a, <2>1, AppendFacts DEF RemoteTakes
  <2> QED
    BY <1>8, <2>2 DEF RemoteTakes
<1>9. CASE SudoTypes
  <2>0. sudo' = IF sudo = "cmd" THEN "pw" ELSE "done"
    BY <1>9 DEF SudoTypes
  <2>1. CASE facade # "done" /\ Len(typed) < InCap /\ Accept(sudo)
    <3>1. Len(accepted) < MaxIn + 2
      BY <1>9, <1>a DEF SudoTypes
    <3>2. sudo \in Kinds
      BY <1>9 DEF SudoTypes, Kinds
    <3>3. PICK piece \in Inputs :
              typed' = Append(typed, piece) /\ accepted' = Append(accepted, piece)
      BY <2>1, <3>1, <3>2, AcceptStep
    <3>4. /\ typed' \in Seq(Inputs) /\ Len(typed') = Len(typed) + 1
          /\ accepted' \in Seq(Inputs) /\ Len(accepted') = Len(accepted) + 1
      BY <1>a, <3>3, AppendFacts
    <3>5. TypedBound'
      BY <1>9, <1>a, <2>0, <3>4 DEF SudoTypes
    <3> QED
      BY <1>9, <1>a, <2>0, <2>1, <3>4, <3>5 DEF SudoTypes
  <2>2. CASE UNCHANGED <<typed, accepted>>
    <3>1. TypedBound'
      BY <1>9, <1>a, <2>0, <2>2 DEF SudoTypes
    <3> QED
      BY <1>9, <2>0, <2>2, <3>1 DEF SudoTypes
  <2> QED
    BY <1>9, <2>1, <2>2 DEF SudoTypes
<1>10. CASE CloseConnection
  BY <1>10, <1>a DEF CloseConnection
<1>11. CASE PumpHands
  <2>1. inHand.n \in 1..MaxOut
    BY <1>11 DEF PumpHands
  <2>2. out' \in Seq(1..MaxOut) /\ Len(out') = Len(out) + 1
    BY <1>11, <1>a, <2>1, AppendFacts DEF PumpHands
  <2>3. Len(out') <= OutCap
    BY <1>11, <1>a, <2>2 DEF PumpHands
  <2> QED
    BY <1>11, <2>2, <2>3 DEF PumpHands
<1>12. CASE PumpHandsNobody
  <2>1. /\ inHand' = <<>>
        /\ UNCHANGED <<link, entry, aborted, writes, facade, passes, sudo, out,
                       typed, closed, history>>
    BY <1>12 DEF PumpHandsNobody
  <2>2. \/ pump' = "select" /\ cmds' = cmds
        \/ pump' = "done" /\ cmds' = <<>>
    BY <1>12 DEF PumpHandsNobody
  <2>3. TypedBound' /\ InHands'
    BY <2>1, <2>2
  <2>4. cmds' \in Seq(Inputs) /\ Len(cmds') <= CmdCap
    <3>1. CASE cmds' = cmds
      BY <3>1
    <3>2. CASE cmds' = <<>>
      BY <3>2
    <3> QED
      BY <2>2, <3>1, <3>2
  <2> QED
    BY <2>1, <2>2, <2>3, <2>4
<1>13. CASE PumpLinkGone
  BY <1>13, <1>a DEF PumpLinkGone
<1>14. CASE PumpNoInput
  BY <1>14, <1>a DEF PumpNoInput
<1>15. CASE WriteFails
  <2>1. /\ writes' = <<>>
        /\ UNCHANGED <<link, entry, aborted, inHand, facade, passes, sudo, out,
                       typed, closed, history>>
    BY <1>15 DEF WriteFails
  <2>2. \/ pump' = "select" /\ cmds' = cmds
        \/ pump' = "done" /\ cmds' = <<>>
    BY <1>15 DEF WriteFails
  <2>3. TypedBound' /\ InHands'
    BY <2>1, <2>2
  <2>4. cmds' \in Seq(Inputs) /\ Len(cmds') <= CmdCap
    <3>1. CASE cmds' = cmds
      BY <3>1
    <3>2. CASE cmds' = <<>>
      BY <3>2
    <3> QED
      BY <2>2, <3>1, <3>2
  <2> QED
    BY <2>1, <2>2, <2>3, <2>4
<1>16. CASE PumpTakes
  <2>1. /\ writes' \in Inputs
        /\ cmds' \in Seq(Inputs) /\ Len(cmds') = Len(cmds) - 1
    BY <1>16, <1>a, TailFacts DEF PumpTakes
  <2>2. Len(cmds') <= CmdCap
    BY <1>a, <2>1
  <2> QED
    BY <1>16, <2>1, <2>2 DEF PumpTakes
<1>17. CASE FacadeSaysClosed
  BY <1>17, <1>a DEF FacadeSaysClosed
<1>18. CASE FacadeWrites
  <2>1. /\ facade = "writing" /\ facade' = "select" /\ passes' = <<>>
        /\ UNCHANGED <<link, entry, aborted, pump, inHand, writes, sudo, out, typed,
                       closed, history>>
    BY <1>18 DEF FacadeWrites
  <2>2. cmds' \in Seq(Inputs) /\ Len(cmds') <= CmdCap
    <3>1. CASE Len(cmds) < CmdCap /\ cmds' = Append(cmds, passes)
      <4>1. /\ Append(cmds, passes) \in Seq(Inputs)
            /\ Len(Append(cmds, passes)) = Len(cmds) + 1
        BY <1>a, <2>1, AppendFacts
      <4> QED
        BY <1>a, <3>1, <4>1
    <3>2. CASE UNCHANGED cmds
      BY <3>2
    <3> QED
      BY <1>18, <3>1, <3>2 DEF FacadeWrites
  <2> QED
    BY <2>1, <2>2
<1>19. CASE FacadeNoInput
  BY <1>19, <1>a DEF FacadeNoInput
<1>20. CASE FacadeAborted
  BY <1>20, <1>a DEF FacadeAborted
<1>21. CASE FacadeShows
  <2>1. /\ Head(out) \in 1..MaxOut
        /\ out' \in Seq(1..MaxOut) /\ Len(out') = Len(out) - 1
    BY <1>21, <1>a, TailFacts DEF FacadeShows
  <2>2. shown' \in Seq(1..MaxOut)
    BY <1>21, <1>a, <2>1, AppendFacts DEF FacadeShows
  <2>3. Len(out') <= OutCap
    BY <1>a, <2>1
  <2> QED
    BY <1>21, <2>1, <2>2, <2>3 DEF FacadeShows
<1>22. CASE FacadeTakes
  <2>1. /\ passes' \in Inputs
        /\ typed' \in Seq(Inputs) /\ Len(typed') = Len(typed) - 1
    BY <1>22, <1>a, TailFacts DEF FacadeTakes
  <2>2. Len(typed') <= InCap
    BY <1>a, <2>1
  <2> QED
    BY <1>22, <2>1, <2>2 DEF FacadeTakes
<1> QED
  BY <1>0, <1>1, <1>2, <1>3, <1>4, <1>5, <1>6, <1>7, <1>8,
     <1>9, <1>10, <1>11, <1>12, <1>13, <1>14, <1>15,
     <1>16, <1>17, <1>18, <1>19, <1>20, <1>21, <1>22
     DEF Next, World, PumpStep, FacadeStep

-----------------------------------------------------------------------------
\* The order of the output.
LEMMA OutStep == Inv /\ [Next]_vars => OutputInOrder'
<1> SUFFICES ASSUME Inv, [Next]_vars PROVE OutputInOrder'
  OBVIOUS
<1>a. /\ out \in Seq(1..MaxOut) /\ Len(out) \in Nat
      /\ shown \in Seq(1..MaxOut) /\ Len(shown) \in Nat
      /\ received \in Nat
      /\ pump \in {"select", "handing", "writing", "done"}
      /\ Len(<<>>) = 0
  BY ShellAssumption, EmptyFacts DEF Inv, TypeOK
<1>b. OutputInOrder
  BY DEF Inv
<1> USE DEF tasks, queues, history, OutputInOrder, Handing, PumpEnds, FacadeEnds
<1>1. CASE \/ UNCHANGED vars \/ Register \/ TypeInput \/ Disconnect \/ Replaced
           \/ LinkLost \/ SudoTypes \/ CloseConnection
  <2>1. UNCHANGED <<shown, received, out, pump, facade, closed>>
    BY <1>1 DEF vars, Register, TypeInput, Disconnect, Replaced, LinkLost, SudoTypes,
                CloseConnection
  <2> QED
    BY <1>b, <2>1
<1>2. CASE \/ PumpEof \/ PumpLinkGone \/ PumpNoInput \/ RemoteTakes \/ PumpTakes
           \/ WriteFails
  <2>1. /\ pump \in {"select", "writing"} /\ pump' \in {"select", "writing", "done"}
        /\ UNCHANGED <<shown, received, out, facade, closed>>
    BY <1>2 DEF PumpEof, PumpLinkGone, PumpNoInput, RemoteTakes, PumpTakes, WriteFails
  <2> QED
    BY <1>a, <1>b, <2>1
<1>3. CASE PumpReads
  <2>1. /\ pump = "select" /\ pump' = "handing" /\ received' = received + 1
        /\ UNCHANGED <<shown, out, facade, closed>>
    BY <1>3 DEF PumpReads
  <2> QED
    BY <1>a, <1>b, <2>1
<1>4. CASE PumpHands
  <2>1. inHand.n = received /\ received \in 1..MaxOut
    BY <1>4, <1>a DEF PumpHands, Inv, InHands
  <2>2. /\ Len(out') = Len(out) + 1
        /\ \A i \in 1..Len(out) : out'[i] = out[i]
        /\ out'[Len(out) + 1] = received
    BY <1>4, <1>a, <2>1, AppendFacts DEF PumpHands
  <2>3. received = Len(shown) + Len(out) + 1
    BY <1>4, <1>b DEF PumpHands
  <2>4. \A i \in 1..Len(out') : out'[i] = Len(shown) + i
    <3> SUFFICES ASSUME NEW i \in 1..Len(out') PROVE out'[i] = Len(shown) + i
      OBVIOUS
    <3>1. \A j \in 1..Len(out) : out[j] = Len(shown) + j
      BY <1>4, <1>b DEF PumpHands
    <3>2. i \in 1..Len(out) \/ i = Len(out) + 1
      BY <1>a, <2>2
    <3> QED
      BY <1>a, <2>2, <2>3, <3>1, <3>2
  <2> QED
    BY <1>4, <1>a, <1>b, <2>2, <2>3, <2>4 DEF PumpHands
<1>5. CASE PumpHandsNobody
  BY <1>5, <1>a, <1>b DEF PumpHandsNobody
<1>6. CASE FacadeSaysClosed
  BY <1>6, <1>a, <1>b DEF FacadeSaysClosed
<1>7. CASE FacadeWrites
  BY <1>7, <1>a, <1>b DEF FacadeWrites
<1>8. CASE FacadeTakes
  BY <1>8, <1>a, <1>b DEF FacadeTakes
<1>9. CASE FacadeNoInput
  BY <1>9, <1>a, <1>b DEF FacadeNoInput
<1>10. CASE FacadeAborted
  BY <1>10, <1>a, <1>b DEF FacadeAborted
<1>11. CASE FacadeShows
  <2>0. /\ out # <<>> /\ facade = "select" /\ out' = Tail(out)
        /\ \A i \in 1..Len(out) : out[i] = Len(shown) + i
    BY <1>11, <1>b DEF FacadeShows
  <2>a. /\ Head(out) = out[1] /\ Head(out) \in 1..MaxOut
        /\ Len(out) >= 1
        /\ Len(out') = Len(out) - 1
        /\ \A i \in 1..(Len(out) - 1) : out'[i] = out[i + 1]
    <3>1. out \in Seq(1..MaxOut) /\ out # <<>>
      BY <1>a, <2>0
    <3>2. /\ Head(out) = out[1] /\ Head(out) \in 1..MaxOut
          /\ Len(out) \in Nat \ {0} /\ Len(Tail(out)) = Len(out) - 1
          /\ \A i \in 1..(Len(out) - 1) : Tail(out)[i] = out[i + 1]
      BY <3>1, TailFacts
    <3> QED
      BY <2>0, <3>2
  <2>1. Head(out) = Len(shown) + 1
    BY <1>a, <2>0, <2>a
  <2>2. /\ Len(shown') = Len(shown) + 1
        /\ \A i \in 1..Len(shown) : shown'[i] = shown[i]
        /\ shown'[Len(shown) + 1] = Len(shown) + 1
    BY <1>11, <1>a, <2>a, <2>1, AppendFacts DEF FacadeShows
  <2>3. /\ UNCHANGED <<received, pump, facade, closed>>
        /\ facade = "select"
    BY <1>11 DEF FacadeShows
  <2>4. \A i \in 1..Len(shown') : shown'[i] = i
    BY <1>a, <1>b, <2>2
  <2>5. \A i \in 1..Len(out') : out'[i] = Len(shown') + i
    BY <1>a, <2>0, <2>a, <2>2
  <2> QED
    BY <1>a, <1>b, <2>a, <2>2, <2>3, <2>4, <2>5
<1> QED
  BY <1>1, <1>2, <1>3, <1>4, <1>5, <1>6, <1>7, <1>8, <1>9, <1>10, <1>11
     DEF Next, World, PumpStep, FacadeStep

-----------------------------------------------------------------------------
\* The order of the input.
LEMMA InStep == Inv /\ [Next]_vars => InputInOrder'
<1> SUFFICES ASSUME Inv, [Next]_vars PROVE InputInOrder'
  OBVIOUS
<1>a. /\ cmds \in Seq(Inputs) /\ Len(cmds) \in Nat
      /\ typed \in Seq(Inputs) /\ Len(typed) \in Nat
      /\ accepted \in Seq(Inputs) /\ Len(accepted) \in Nat
      /\ delivered \in Seq(Inputs) /\ Len(delivered) \in Nat
      /\ pump \in {"select", "handing", "writing", "done"}
      /\ facade \in {"select", "writing", "done"}
      /\ link \in {"up", "lost"}
  BY DEF Inv, TypeOK
<1>b. InputInOrder
  BY DEF Inv
<1> USE DEF tasks, queues, history, PumpEnds, FacadeEnds
\* Nothing of the input moves.
<1>1. CASE \/ UNCHANGED vars \/ Register \/ Disconnect \/ Replaced \/ FacadeShows
           \/ PumpReads \/ PumpHands
  <2>1. /\ UNCHANGED <<delivered, accepted, link, writes, cmds, facade, passes, typed>>
        /\ \/ UNCHANGED pump
           \/ pump \in {"select", "handing"} /\ pump' \in {"select", "handing"}
    BY <1>1 DEF vars, Register, Disconnect, Replaced, FacadeShows, PumpReads, PumpHands
  <2> QED
    BY <1>b, <2>1 DEF InputInOrder, GivenInOrder, WithThePump, WithTheFacade, Writing,
                      Passing
\* The link or the pump has gone: nothing comes out any more.
<1>2. CASE \/ LinkLost \/ CloseConnection \/ PumpEof \/ PumpLinkGone \/ PumpNoInput
           \/ WriteFails
  <2>1. /\ UNCHANGED <<delivered, accepted>>
        /\ link' # "up" \/ pump' = "done"
    BY <1>2 DEF LinkLost, CloseConnection, PumpEof, PumpLinkGone, PumpNoInput,
                WriteFails
  <2> QED
    BY <1>b, <2>1 DEF InputInOrder, GivenInOrder
<1>3. CASE PumpHandsNobody
  <2>1. /\ UNCHANGED <<delivered, accepted, link, writes, facade, passes, typed>>
        /\ pump = "handing" /\ facade = "done"
    BY <1>3 DEF PumpHandsNobody
  <2>2. \/ pump' = "done"
        \/ pump' = "select" /\ UNCHANGED cmds
    BY <1>3 DEF PumpHandsNobody
  <2> QED
    BY <1>b, <2>1, <2>2 DEF InputInOrder, GivenInOrder, WithThePump, Writing
\* The facade has gone: the pump writes what it has.
<1>4. CASE FacadeSaysClosed \/ FacadeNoInput \/ FacadeAborted
  <2>1. /\ UNCHANGED <<delivered, accepted, link, pump, writes, cmds>>
        /\ facade' = "done"
    BY <1>4 DEF FacadeSaysClosed, FacadeNoInput, FacadeAborted
  <2> QED
    BY <1>b, <2>1 DEF InputInOrder, GivenInOrder, WithThePump, Writing
<1>5. ASSUME NEW piece \in Inputs, facade # "done",
             typed' = Append(typed, piece), accepted' = Append(accepted, piece),
             UNCHANGED <<delivered, link, pump, writes, cmds, facade, passes>>
      PROVE  InputInOrder'
  <2>1. /\ Len(accepted') = Len(accepted) + 1
        /\ \A i \in 1..Len(accepted) : accepted'[i] = accepted[i]
        /\ accepted'[Len(accepted) + 1] = piece
    BY <1>a, <1>5, AppendFacts
  <2>2. /\ Len(typed') = Len(typed) + 1
        /\ \A i \in 1..Len(typed) : typed'[i] = typed[i]
        /\ typed'[Len(typed) + 1] = piece
    BY <1>a, <1>5, AppendFacts
  <2>3. GivenInOrder'
    BY <1>a, <1>b, <1>5, <2>1 DEF InputInOrder, GivenInOrder
  <2>4. ASSUME link = "up", pump # "done" PROVE WithThePump' /\ WithTheFacade'
    <3>1. WithThePump /\ WithTheFacade
      BY <1>b, <1>5, <2>4 DEF InputInOrder
    <3>a. /\ Writing \in Nat /\ Writing' = Writing
          /\ pump = "writing" => Writing >= 1
      BY <1>a, <1>5 DEF Writing
    <3>b. /\ Passing \in Nat /\ Passing' = Passing
          /\ facade = "writing" => Passing >= 1
      BY <1>a, <1>5, <3>a DEF Passing
    <3>2. /\ Writing \in Nat /\ Writing' = Writing
          /\ pump = "writing" => Writing >= 1
          /\ Passing \in Nat /\ Passing' = Passing
          /\ facade = "writing" => Passing >= 1
      BY <3>a, <3>b
    <3>3. WithThePump'
      BY <1>a, <1>5, <2>1, <3>1, <3>2 DEF WithThePump
    <3>4. \A i \in 1..Len(typed') : typed'[i] = accepted'[Passing + i]
      <4> SUFFICES ASSUME NEW i \in 1..Len(typed')
                   PROVE  typed'[i] = accepted'[Passing + i]
        OBVIOUS
      <4>1. /\ \A j \in 1..Len(typed) : typed[j] = accepted[Passing + j]
            /\ Passing + Len(typed) = Len(accepted)
        BY <3>1 DEF WithTheFacade
      <4>2. i \in 1..Len(typed) \/ i = Len(typed) + 1
        BY <1>a, <2>2
      <4> QED
        BY <1>a, <2>1, <2>2, <3>2, <4>1, <4>2
    <3>5. Passing' + Len(typed') = Len(accepted')
      <4>1. Passing + Len(typed) = Len(accepted)
        BY <3>1 DEF WithTheFacade
      <4>2. /\ Passing' = Passing /\ Passing \in Nat
            /\ Len(typed') = Len(typed) + 1 /\ Len(typed) \in Nat
            /\ Len(accepted') = Len(accepted) + 1
        BY <1>a, <2>1, <2>2, <3>2
      <4> QED
        BY <4>1, <4>2
    <3>6. ASSUME facade = "writing" PROVE passes = accepted'[Passing]
      <4>1. passes = accepted[Passing] /\ Passing + Len(typed) = Len(accepted)
        BY <3>1, <3>6 DEF WithTheFacade
      <4>2. Passing \in 1..Len(accepted)
        BY <1>a, <3>2, <3>6, <4>1
      <4> QED
        BY <2>1, <4>1, <4>2
    <3> QED
      BY <1>5, <3>2, <3>3, <3>4, <3>5, <3>6 DEF WithTheFacade
  <2> QED
    BY <1>5, <2>3, <2>4 DEF InputInOrder
<1>6. CASE TypeInput
  <2>1. PICK kind \in {"keys", "size"} : Accept(kind)
    BY <1>6 DEF TypeInput
  <2>2. Len(accepted) < MaxIn + 2 /\ kind \in Kinds
    BY <1>6, <1>a, ShellAssumption DEF TypeInput, Kinds
  <2>3. PICK piece \in Inputs :
            typed' = Append(typed, piece) /\ accepted' = Append(accepted, piece)
    BY <2>1, <2>2, AcceptStep
  <2>4. /\ facade # "done"
        /\ UNCHANGED <<delivered, link, pump, writes, cmds, facade, passes>>
    BY <1>6 DEF TypeInput
  <2> QED
    BY <1>5, <2>3, <2>4
<1>7. CASE SudoTypes
  <2>0. UNCHANGED <<delivered, link, pump, writes, cmds, facade, passes>>
    BY <1>7 DEF SudoTypes
  <2>1. CASE facade # "done" /\ Len(typed) < InCap /\ Accept(sudo)
    <3>1. Len(accepted) < MaxIn + 2
      BY <1>7, <1>a, ShellAssumption DEF SudoTypes, Inv, TypedBound, SudoLines, TypeOK
    <3>2. sudo \in Kinds
      BY <1>7 DEF SudoTypes, Kinds, Inv, TypeOK
    <3>3. PICK piece \in Inputs :
              typed' = Append(typed, piece) /\ accepted' = Append(accepted, piece)
      BY <2>1, <3>1, <3>2, AcceptStep
    <3> QED
      BY <1>5, <2>0, <2>1, <3>3
  <2>2. CASE UNCHANGED <<typed, accepted>>
    BY <1>b, <2>0, <2>2 DEF InputInOrder, GivenInOrder, WithThePump, WithTheFacade,
                            Writing, Passing
  <2> QED
    BY <1>7, <2>1, <2>2 DEF SudoTypes
<1>8. CASE RemoteTakes
  <2>1. /\ pump = "writing" /\ link = "up" /\ pump' = "select"
        /\ delivered' = Append(delivered, writes)
        /\ UNCHANGED <<accepted, link, cmds, facade, passes, typed>>
    BY <1>8 DEF RemoteTakes
  <2>2. writes \in Inputs
    BY <2>1 DEF Inv, InHands
  <2>3. /\ Len(delivered') = Len(delivered) + 1
        /\ \A i \in 1..Len(delivered) : delivered'[i] = delivered[i]
        /\ delivered'[Len(delivered) + 1] = writes
    BY <1>a, <2>1, <2>2, AppendFacts
  <2>4. GivenInOrder /\ WithThePump /\ (facade # "done" => WithTheFacade)
    BY <1>b, <2>1 DEF InputInOrder
  <2>5. Writing = Len(delivered) + 1 /\ Writing' = Writing /\ Passing' = Passing
    BY <1>a, <2>1, <2>3 DEF Writing, Passing
  <2>6. writes = accepted[Len(delivered) + 1] /\ Len(delivered) + 1 <= Len(accepted)
    BY <1>a, <2>1, <2>4, <2>5 DEF WithThePump
  <2>7. GivenInOrder'
    <3>1. ASSUME NEW i \in 1..Len(delivered') PROVE delivered'[i] = accepted[i]
      <4>1. i \in 1..Len(delivered) \/ i = Len(delivered) + 1
        BY <1>a, <2>3
      <4> QED
        BY <2>3, <2>4, <2>6, <4>1 DEF GivenInOrder
    <3> QED
      BY <2>1, <2>3, <2>6, <3>1 DEF GivenInOrder
  <2>8. WithThePump' /\ (facade' # "done" => WithTheFacade')
    BY <2>1, <2>4, <2>5 DEF WithThePump, WithTheFacade
  <2> QED
    BY <2>7, <2>8 DEF InputInOrder
<1>9. CASE PumpTakes
  <2>1. /\ pump = "select" /\ pump' = "writing" /\ cmds # <<>>
        /\ writes' = Head(cmds) /\ cmds' = Tail(cmds)
        /\ UNCHANGED <<delivered, accepted, link, facade, passes, typed>>
    BY <1>9 DEF PumpTakes
  <2>2. /\ writes' = cmds[1] /\ Len(cmds) >= 1 /\ Len(cmds') = Len(cmds) - 1
        /\ \A i \in 1..(Len(cmds) - 1) : cmds'[i] = cmds[i + 1]
    <3>1. /\ Head(cmds) = cmds[1] /\ Len(cmds) \in Nat \ {0}
          /\ Len(Tail(cmds)) = Len(cmds) - 1
          /\ \A i \in 1..(Len(cmds) - 1) : Tail(cmds)[i] = cmds[i + 1]
      BY <1>a, <2>1, TailFacts
    <3> QED
      BY <2>1, <3>1
  <2>3. Writing \in Nat /\ Writing' = Writing + 1 /\ Passing' = Passing
    BY <1>a, <2>1, <2>2 DEF Writing, Passing
  <2>4. ASSUME link = "up" PROVE WithThePump' /\ (facade' # "done" => WithTheFacade')
    <3>1. WithThePump /\ (facade # "done" => WithTheFacade)
      BY <1>b, <2>1, <2>4 DEF InputInOrder
    <3>2. writes' = accepted[Writing + 1]
      BY <2>2, <3>1 DEF WithThePump
    <3>3. ASSUME NEW i \in 1..Len(cmds') PROVE cmds'[i] = accepted[Writing + 1 + i]
      <4>1. i \in 1..(Len(cmds) - 1) /\ i + 1 \in 1..Len(cmds)
        BY <1>a, <2>2
      <4>2. cmds[i + 1] = accepted[Writing + (i + 1)]
        BY <3>1, <4>1 DEF WithThePump
      <4>3. Writing + (i + 1) = Writing + 1 + i
        BY <2>3, <4>1
      <4> QED
        BY <2>2, <4>1, <4>2, <4>3
    <3>4. Writing' + Len(cmds') <= Len(accepted)
      BY <1>a, <2>2, <2>3, <3>1 DEF WithThePump
    <3>5. WithThePump'
      BY <2>1, <2>3, <3>2, <3>3, <3>4 DEF WithThePump
    <3>6. facade' # "done" => WithTheFacade'
      BY <2>1, <2>3, <3>1 DEF WithTheFacade
    <3> QED
      BY <3>5, <3>6
  <2> QED
    BY <1>b, <2>1, <2>4 DEF InputInOrder, GivenInOrder
<1>10. CASE FacadeTakes
  <2>1. /\ facade = "select" /\ facade' = "writing" /\ typed # <<>>
        /\ passes' = Head(typed) /\ typed' = Tail(typed)
        /\ UNCHANGED <<delivered, accepted, link, pump, writes, cmds>>
    BY <1>10 DEF FacadeTakes
  <2>2. /\ passes' = typed[1] /\ Len(typed) >= 1 /\ Len(typed') = Len(typed) - 1
        /\ \A i \in 1..(Len(typed) - 1) : typed'[i] = typed[i + 1]
    <3>1. /\ Head(typed) = typed[1] /\ Len(typed) \in Nat \ {0}
          /\ Len(Tail(typed)) = Len(typed) - 1
          /\ \A i \in 1..(Len(typed) - 1) : Tail(typed)[i] = typed[i + 1]
      BY <1>a, <2>1, TailFacts
    <3> QED
      BY <2>1, <3>1
  <2>3. Passing \in Nat /\ Passing' = Passing + 1 /\ Writing' = Writing
    BY <1>a, <2>1 DEF Writing, Passing
  <2>4. ASSUME link = "up", pump # "done" PROVE WithThePump' /\ WithTheFacade'
    <3>1. WithThePump /\ WithTheFacade
      BY <1>b, <2>1, <2>4 DEF InputInOrder
    <3>2. passes' = accepted[Passing + 1]
      BY <2>2, <3>1 DEF WithTheFacade
    <3>3. ASSUME NEW i \in 1..Len(typed') PROVE typed'[i] = accepted[Passing + 1 + i]
      <4>1. i \in 1..(Len(typed) - 1) /\ i + 1 \in 1..Len(typed)
        BY <1>a, <2>2
      <4>2. typed[i + 1] = accepted[Passing + (i + 1)]
        BY <3>1, <4>1 DEF WithTheFacade
      <4>3. Passing + (i + 1) = Passing + 1 + i
        BY <2>3, <4>1
      <4> QED
        BY <2>2, <4>1, <4>2, <4>3
    <3>4. Passing' + Len(typed') = Len(accepted)
      BY <1>a, <2>2, <2>3, <3>1 DEF WithTheFacade
    <3>5. WithThePump'
      BY <2>1, <2>3, <3>1 DEF WithThePump
    <3> QED
      BY <2>1, <2>3, <3>2, <3>3, <3>4, <3>5 DEF WithTheFacade
  <2> QED
    BY <1>b, <2>1, <2>4 DEF InputInOrder, GivenInOrder
<1>11. CASE FacadeWrites
  <2>1. /\ facade = "writing" /\ facade' = "select"
        /\ UNCHANGED <<delivered, accepted, link, pump, writes, typed>>
    BY <1>11 DEF FacadeWrites
  <2>2. CASE pump = "done"
    BY <1>b, <2>1, <2>2 DEF InputInOrder, GivenInOrder
  <2>3. CASE pump # "done"
    <3>1. cmds' = Append(cmds, passes)
      BY <1>11, <2>3 DEF FacadeWrites
    <3>2. /\ Len(cmds') = Len(cmds) + 1
          /\ \A i \in 1..Len(cmds) : cmds'[i] = cmds[i]
          /\ cmds'[Len(cmds) + 1] = passes
      BY <1>a, <2>1, <3>1, AppendFacts DEF Inv, InHands
    <3>a. Writing \in Nat /\ Writing' = Writing
      BY <1>a, <2>1 DEF Writing
    <3>b. Passing = Writing + Len(cmds) + 1 /\ Passing' = Passing
      BY <1>a, <2>1, <3>2, <3>a DEF Passing
    <3>3. /\ Writing \in Nat /\ Writing' = Writing
          /\ Passing = Writing + Len(cmds) + 1 /\ Passing' = Passing
      BY <3>a, <3>b
    <3>4. ASSUME link = "up" PROVE WithThePump' /\ WithTheFacade'
      <4>1. WithThePump /\ WithTheFacade
        BY <1>b, <2>1, <2>3, <3>4 DEF InputInOrder
      <4>2. passes = accepted[Writing + Len(cmds) + 1]
        BY <2>1, <3>3, <4>1 DEF WithTheFacade
      <4>3. ASSUME NEW i \in 1..Len(cmds') PROVE cmds'[i] = accepted[Writing + i]
        <5>1. i \in 1..Len(cmds) \/ i = Len(cmds) + 1
          BY <1>a, <3>2
        <5>2. CASE i \in 1..Len(cmds)
          BY <3>2, <4>1, <5>2 DEF WithThePump
        <5>3. CASE i = Len(cmds) + 1
          <6>1. Writing + i = Writing + Len(cmds) + 1
            BY <1>a, <3>3, <5>3
          <6> QED
            BY <3>2, <4>2, <5>3, <6>1
        <5> QED
          BY <5>1, <5>2, <5>3
      <4>4. Writing' + Len(cmds') <= Len(accepted)
        BY <1>a, <3>2, <3>3, <4>1 DEF WithTheFacade
      <4>5. WithThePump'
        BY <2>1, <3>3, <4>1, <4>3, <4>4 DEF WithThePump
      <4>6. WithTheFacade'
        BY <2>1, <3>3, <4>1 DEF WithTheFacade
      <4> QED
        BY <4>5, <4>6
    <3> QED
      BY <1>b, <2>1, <3>4 DEF InputInOrder, GivenInOrder
  <2> QED
    BY <2>2, <2>3
<1> QED
  BY <1>1, <1>2, <1>3, <1>4, <1>6, <1>7, <1>8, <1>9, <1>10, <1>11
     DEF Next, World, PumpStep, FacadeStep

-----------------------------------------------------------------------------
LEMMA InitInv == Init => Inv
<1> SUFFICES ASSUME Init PROVE Inv
  OBVIOUS
<1>a. /\ <<>> \in Seq(Inputs) /\ <<>> \in Seq(1..MaxOut) /\ Len(<<>>) = 0
  BY EmptyFacts
<1> USE <1>a, ShellAssumption DEF Init
<1>1. TypeOK
  <2>1. /\ Len(out) <= OutCap /\ Len(cmds) <= CmdCap /\ Len(typed) <= InCap
        /\ received \in 0..MaxOut /\ sudo \in {"cmd", "pw", "done"}
    OBVIOUS
  <2> QED
    BY <2>1 DEF TypeOK
<1>2. InHands /\ OutputInOrder
  BY DEF InHands, OutputInOrder, Handing
<1>3. TypedBound
  BY DEF TypedBound, SudoLines
<1>4. InputInOrder
  BY DEF InputInOrder, GivenInOrder, WithThePump, WithTheFacade, Writing, Passing
<1> QED
  BY <1>1, <1>2, <1>3, <1>4 DEF Inv

LEMMA Invariance == Spec => []Inv
<1>1. Inv /\ [Next]_vars => Inv'
  BY TypeStep, OutStep, InStep DEF Inv
<1> QED
  BY InitInv, <1>1, PTL DEF Spec

\* Every variable keeps its type, and no queue ever holds more than its room, in
\* the pump (crates/ssh/src/shell.rs) and the facade (crates/ui/src/backend.rs).
THEOREM TypeCorrect == Spec => []TypeOK
<1>1. Inv => TypeOK
  BY DEF Inv
<1> QED
  BY Invariance, <1>1, PTL

-----------------------------------------------------------------------------
\* The output as a Fifo: the pump's reading is the Send, the facade's showing the
\* Receive, and its "closed" the End.
LEMMA OutputInit == Init => Output!Init
<1>1. [i \in 1..0 |-> i] = <<>>
  OBVIOUS
<1> QED
  BY <1>1 DEF Init, Output!Init

LEMMA OutputStep ==
    Inv /\ Inv' /\ [Next]_vars =>
        [Output!Next]_<<[i \in 1..received |-> i], shown, closed>>
<1> SUFFICES ASSUME Inv, Inv', [Next]_vars
             PROVE  [Output!Next]_<<[i \in 1..received |-> i], shown, closed>>
  OBVIOUS
<1>a. /\ out \in Seq(1..MaxOut) /\ Len(out) \in Nat
      /\ shown \in Seq(1..MaxOut) /\ Len(shown) \in Nat
      /\ received \in Nat
  BY DEF Inv, TypeOK
<1>b. OutputInOrder
  BY DEF Inv
<1> DEFINE Read(k) == [i \in 1..k |-> i]
<1>c. ASSUME NEW k \in Nat PROVE Read(k) \in Seq(Nat) /\ Len(Read(k)) = k
  OBVIOUS
<1> USE DEF tasks, queues, history
<1>1. CASE PumpReads
  <2>1. /\ pump = "select" /\ received < MaxOut /\ received' = received + 1
        /\ UNCHANGED <<shown, closed>>
    BY <1>1 DEF PumpReads
  <2>2. ~closed
    BY <1>b, <2>1 DEF OutputInOrder
  <2>3. Read(received + 1) = Append(Read(received), received + 1)
    BY <1>a
  <2>4. received + 1 \in 1..MaxOut
    BY <1>a, <2>1, ShellAssumption
  <2>5. Output!Send
    BY <2>1, <2>2, <2>3, <2>4 DEF Output!Send
  <2> QED
    BY <2>5 DEF Output!Next
<1>2. CASE FacadeShows
  <2>1. /\ facade = "select" /\ out # <<>> /\ shown' = Append(shown, Head(out))
        /\ UNCHANGED <<received, closed>>
    BY <1>2 DEF FacadeShows
  <2>2. Head(out) = out[1] /\ Len(out) \in Nat \ {0}
    BY <1>a, <2>1, TailFacts
  <2>3. ~closed
    BY <1>b, <2>1 DEF OutputInOrder
  <2>4. Head(out) = Len(shown) + 1 /\ Len(shown) < received
    BY <1>a, <1>b, <2>1, <2>2 DEF OutputInOrder, Handing
  <2>5. Read(received)[Len(shown) + 1] = Len(shown) + 1
    BY <1>a, <2>4
  <2>6. Len(shown) < Len(Read(received))
    BY <1>a, <1>c, <2>4
  <2>7. Output!Receive
    BY <2>1, <2>3, <2>4, <2>5, <2>6 DEF Output!Receive
  <2> QED
    BY <2>7 DEF Output!Next
<1>3. CASE FacadeSaysClosed
  <2>1. closed' = TRUE /\ UNCHANGED <<shown, received>>
    BY <1>3 DEF FacadeSaysClosed
  <2>2. Len(shown) = received /\ \A i \in 1..Len(shown) : shown[i] = i
    BY <2>1 DEF Inv, OutputInOrder
  <2>3. shown = Read(received)
    BY <1>a, <2>2
  <2>4. Output!End
    BY <2>1, <2>3 DEF Output!End
  <2> QED
    BY <2>4 DEF Output!Next
<1>4. CASE \/ UNCHANGED vars \/ Register \/ TypeInput \/ Disconnect \/ Replaced
           \/ LinkLost \/ PumpEof \/ RemoteTakes \/ SudoTypes \/ CloseConnection
           \/ PumpHands \/ PumpHandsNobody \/ PumpLinkGone \/ PumpNoInput
           \/ WriteFails \/ PumpTakes \/ FacadeWrites \/ FacadeNoInput
           \/ FacadeAborted \/ FacadeTakes
  <2>1. UNCHANGED <<received, shown, closed>>
    BY <1>4 DEF vars, Register, TypeInput, Disconnect, Replaced, LinkLost, PumpEof,
                RemoteTakes, SudoTypes, CloseConnection, PumpHands, PumpHandsNobody,
                PumpLinkGone, PumpNoInput, WriteFails, PumpTakes, FacadeWrites,
                FacadeNoInput, FacadeAborted, FacadeTakes
  <2> QED
    BY <2>1
<1> QED
  BY <1>1, <1>2, <1>3, <1>4 DEF Next, World, PumpStep, FacadeStep

\* The input as a Fifo: what the queue of the command loop accepts is the Send,
\* what the remote side takes the Receive.
LEMMA InputStep ==
    Inv /\ Inv' /\ [Next]_vars => [Input!Next]_<<accepted, delivered, FALSE>>
<1> SUFFICES ASSUME Inv, Inv', [Next]_vars
             PROVE  [Input!Next]_<<accepted, delivered, FALSE>>
  OBVIOUS
<1>a. /\ accepted \in Seq(Inputs) /\ Len(accepted) \in Nat
      /\ delivered \in Seq(Inputs) /\ Len(delivered) \in Nat
  BY DEF Inv, TypeOK
<1>b. InputInOrder
  BY DEF Inv
<1> USE DEF tasks, queues, history
<1>1. ASSUME NEW piece \in Inputs, accepted' = Append(accepted, piece),
             UNCHANGED delivered
      PROVE  Input!Next
  BY <1>1 DEF Input!Send, Input!Next
<1>2. CASE TypeInput
  <2>1. PICK kind \in {"keys", "size"} : Accept(kind)
    BY <1>2 DEF TypeInput
  <2>2. Len(accepted) < MaxIn + 2 /\ kind \in Kinds
    BY <1>2, <1>a, ShellAssumption DEF TypeInput, Kinds
  <2>3. PICK piece \in Inputs : accepted' = Append(accepted, piece)
    BY <2>1, <2>2, AcceptStep
  <2>4. UNCHANGED delivered
    BY <1>2 DEF TypeInput
  <2> QED
    BY <1>1, <2>3, <2>4
<1>3. CASE SudoTypes
  <2>0. UNCHANGED delivered
    BY <1>3 DEF SudoTypes
  <2>1. CASE facade # "done" /\ Len(typed) < InCap /\ Accept(sudo)
    <3>1. Len(accepted) < MaxIn + 2
      BY <1>3, <1>a, ShellAssumption DEF SudoTypes, Inv, TypedBound, SudoLines, TypeOK
    <3>2. sudo \in Kinds
      BY <1>3 DEF SudoTypes, Kinds, Inv, TypeOK
    <3>3. PICK piece \in Inputs : accepted' = Append(accepted, piece)
      BY <2>1, <3>1, <3>2, AcceptStep
    <3> QED
      BY <1>1, <2>0, <3>3
  <2>2. CASE UNCHANGED <<typed, accepted>>
    BY <2>0, <2>2
  <2> QED
    BY <1>3, <2>1, <2>2 DEF SudoTypes
<1>4. CASE RemoteTakes
  <2>1. /\ pump = "writing" /\ link = "up"
        /\ delivered' = Append(delivered, writes) /\ UNCHANGED accepted
    BY <1>4 DEF RemoteTakes
  <2>2. WithThePump /\ Len(cmds) \in Nat
    BY <1>b, <2>1 DEF InputInOrder, Inv, TypeOK
  <2>3. Writing = Len(delivered) + 1
    BY <2>1 DEF Writing
  <2>4. writes = accepted[Len(delivered) + 1] /\ Len(delivered) < Len(accepted)
    BY <1>a, <2>1, <2>2, <2>3 DEF WithThePump
  <2>5. Input!Receive
    BY <2>1, <2>4 DEF Input!Receive
  <2> QED
    BY <2>5 DEF Input!Next
<1>5. CASE \/ UNCHANGED vars \/ Register \/ Disconnect \/ Replaced
           \/ LinkLost \/ PumpReads \/ PumpEof \/ CloseConnection
           \/ PumpHands \/ PumpHandsNobody \/ PumpLinkGone \/ PumpNoInput
           \/ WriteFails \/ PumpTakes \/ FacadeSaysClosed \/ FacadeWrites
           \/ FacadeNoInput \/ FacadeAborted \/ FacadeShows \/ FacadeTakes
  <2>1. UNCHANGED <<accepted, delivered>>
    BY <1>5 DEF vars, Register, Disconnect, Replaced, LinkLost, PumpReads, PumpEof,
                CloseConnection, PumpHands, PumpHandsNobody, PumpLinkGone, PumpNoInput,
                WriteFails, PumpTakes, FacadeSaysClosed, FacadeWrites, FacadeNoInput,
                FacadeAborted, FacadeShows, FacadeTakes
  <2> QED
    BY <2>1
<1> QED
  BY <1>2, <1>3, <1>4, <1>5 DEF Next, World, PumpStep, FacadeStep

\* Whatever is full, whoever waits and whenever a task, the link or the tab goes:
\* what the webview was given of the output, and the remote side of the input, is a
\* beginning of what went in, in order and without a gap, and "closed" comes after
\* all of the output (pump in crates/ssh/src/shell.rs, shell_pump in
\* crates/ui/src/backend.rs).
THEOREM ShellImplementsFifo == Spec => ImplementsFifo
<1>1. Init => Input!Init
  BY DEF Init, Input!Init
<1>2. Spec => Output!Spec
  BY Invariance, OutputInit, OutputStep, PTL DEF Spec, Output!Spec
<1>3. Spec => Input!Spec
  BY Invariance, <1>1, InputStep, PTL DEF Spec, Input!Spec
<1> QED
  BY <1>2, <1>3 DEF ImplementsFifo

-----------------------------------------------------------------------------
\* The safety half of OutputShown and TasksEnd: the two tasks never turn in circles,
\* and never wait for each other but in one state.

\* What is left to do with what is in the queues and the hands of the tasks.  A
\* message is worth two in the pump's hand and one in the queue; a piece of input
\* four in the first queue, three in the facade's hand, two in the second queue
\* and one in the pump's hand; a task that has not ended is worth one more.
PumpWork == [select |-> 1, handing |-> 3, writing |-> 2, done |-> 0]
FacadeWork == [select |-> 1, writing |-> 4, done |-> 0]
Work == PumpWork[pump] + FacadeWork[facade] + Len(out) + 2 * Len(cmds) + 4 * Len(typed)

\* Every step of the tasks lowers it, except that a message read or a piece typed adds
\* to it; and no other step changes it.
WorkSinks ==
    [][\/ Work' < Work
       \/ (PumpReads \/ TypeInput \/ SudoTypes) /\ Work' <= Work + 4
       \/ UNCHANGED <<pump, facade, queues>>]_vars

\* The guards of PumpStep and PumpTakes, and those of FacadeStep, FacadeShows and
\* FacadeTakes.
PumpCan ==
    \/ pump = "handing" /\ (facade = "done" \/ Len(out) < OutCap)
    \/ pump = "select" /\ (link = "lost" \/ cmds # <<>> \/ facade = "done")
    \/ pump = "writing" /\ link = "lost"
FacadeCan ==
    \/ facade = "select" /\ (out # <<>> \/ typed # <<>> \/ pump = "done" \/ ~InputOpen)
    \/ facade = "writing" /\ (pump = "done" \/ Len(cmds) < CmdCap)
    \/ facade # "done" /\ aborted

\* As long as there is something left to do, one of the two can do it, or the pump
\* waits for the remote side, or they wait for each other.  The abort of a closed tab
\* gets them out of that state, and so the connection is all it waits for.
Progress ==
    /\ pump = "writing" \/ facade = "writing" \/ out # <<>> \/ cmds # <<>> \/ typed # <<>>
         => PumpCan \/ FacadeCan \/ (pump = "writing" /\ link = "up") \/ Wedged
    /\ link = "lost" /\ {pump, facade} # {"done"} => PumpCan \/ FacadeCan \/ Wedged
    /\ aborted /\ {pump, facade} # {"done"} => PumpCan \/ FacadeCan \/ link = "up"

\* A task that has ended has let go of its queues.
Emptied ==
    /\ facade = "done" => out = <<>> /\ typed = <<>>
    /\ pump = "done" => cmds = <<>>

LEMMA EmptiedStep == Inv /\ Emptied /\ [Next]_vars => Emptied'
<1> SUFFICES ASSUME Inv, Emptied, [Next]_vars PROVE Emptied'
  OBVIOUS
<1> USE DEF Emptied, tasks, queues, history, PumpEnds, FacadeEnds
<1>1. CASE UNCHANGED vars
  BY <1>1 DEF vars
<1>2. CASE World
  BY <1>2 DEF World, Register, TypeInput, Disconnect, Replaced, LinkLost, PumpReads,
              PumpEof, RemoteTakes
<1>3. CASE SudoTypes \/ CloseConnection
  BY <1>3 DEF SudoTypes, CloseConnection
<1>4. CASE PumpStep
  BY <1>4 DEF PumpStep, PumpHands, PumpHandsNobody, PumpLinkGone, PumpNoInput,
              WriteFails
<1>5. CASE PumpTakes
  BY <1>5 DEF PumpTakes
<1>6. CASE FacadeStep
  BY <1>6 DEF FacadeStep, FacadeSaysClosed, FacadeWrites, FacadeNoInput,
              FacadeAborted
<1>7. CASE FacadeShows \/ FacadeTakes
  BY <1>7 DEF FacadeShows, FacadeTakes
<1> QED
  BY <1>1, <1>2, <1>3, <1>4, <1>5, <1>6, <1>7 DEF Next

LEMMA Progresses == Inv /\ Emptied => Progress
<1> SUFFICES ASSUME Inv, Emptied PROVE Progress
  OBVIOUS
<1>1. /\ pump \in {"select", "handing", "writing", "done"}
      /\ facade \in {"select", "writing", "done"}
      /\ link \in {"up", "lost"}
  BY DEF Inv, TypeOK
<1>2. Len(out) < OutCap \/ (Len(out) = OutCap /\ out # <<>>)
  BY ShellAssumption DEF Inv, TypeOK
<1>3. Len(cmds) < CmdCap \/ (Len(cmds) = CmdCap /\ cmds # <<>>)
  BY ShellAssumption DEF Inv, TypeOK
<1>4. pump = "writing" \/ facade = "writing" \/ out # <<>> \/ cmds # <<>> \/ typed # <<>>
         => PumpCan \/ FacadeCan \/ (pump = "writing" /\ link = "up") \/ Wedged
  BY <1>1, <1>2, <1>3 DEF PumpCan, FacadeCan, Wedged, Emptied
<1>5. link = "lost" /\ {pump, facade} # {"done"} => PumpCan \/ FacadeCan \/ Wedged
  BY <1>1, <1>2, <1>3 DEF PumpCan, FacadeCan, Wedged, Emptied
<1>6. aborted /\ {pump, facade} # {"done"} => PumpCan \/ FacadeCan \/ link = "up"
  BY <1>1, <1>2, <1>3 DEF PumpCan, FacadeCan, Wedged, Emptied
<1> QED
  BY <1>4, <1>5, <1>6 DEF Progress

LEMMA WorkType ==
    /\ PumpWork["select"] = 1 /\ PumpWork["handing"] = 3
    /\ PumpWork["writing"] = 2 /\ PumpWork["done"] = 0
    /\ FacadeWork["select"] = 1 /\ FacadeWork["writing"] = 4 /\ FacadeWork["done"] = 0
BY DEF PumpWork, FacadeWork

\* The sum, when its parts are known.
LEMMA WorkSum ==
    ASSUME Inv
    PROVE  /\ PumpWork[pump] \in Nat /\ FacadeWork[facade] \in Nat
           /\ Len(out) \in Nat /\ Len(cmds) \in Nat /\ Len(typed) \in Nat
           /\ Work \in Nat
<1>1. PumpWork[pump] \in Nat /\ FacadeWork[facade] \in Nat
  BY WorkType DEF Inv, TypeOK
<1>2. Len(out) \in Nat /\ Len(cmds) \in Nat /\ Len(typed) \in Nat
  BY DEF Inv, TypeOK
<1> QED
  BY <1>1, <1>2 DEF Work

LEMMA WorkStep ==
    ASSUME Inv, Inv', Next
    PROVE  \/ Work' < Work
           \/ (PumpReads \/ TypeInput \/ SudoTypes) /\ Work' <= Work + 4
           \/ UNCHANGED <<pump, facade, queues>>
<1>a. /\ PumpWork[pump] \in Nat /\ FacadeWork[facade] \in Nat
      /\ Len(out) \in Nat /\ Len(cmds) \in Nat /\ Len(typed) \in Nat
      /\ out \in Seq(1..MaxOut) /\ cmds \in Seq(Inputs) /\ typed \in Seq(Inputs)
      /\ Len(<<>>) = 0
  BY WorkSum DEF Inv, TypeOK
<1>b. /\ PumpWork[pump'] \in Nat /\ FacadeWork[facade'] \in Nat
  <2>1. /\ pump' \in {"select", "handing", "writing", "done"}
        /\ facade' \in {"select", "writing", "done"}
    BY DEF Inv, TypeOK
  <2> QED
    BY <2>1, WorkType
<1>c. PICK p \in Nat, f \in Nat, o \in Nat, c \in Nat, t \in Nat :
          /\ p = PumpWork[pump] /\ f = FacadeWork[facade]
          /\ o = Len(out) /\ c = Len(cmds) /\ t = Len(typed)
  BY <1>a
<1>d. PICK pp \in Nat, ff \in Nat, oo \in Nat, cc \in Nat, tt \in Nat :
          /\ pp = PumpWork[pump'] /\ ff = FacadeWork[facade']
          /\ oo = Len(out') /\ cc = Len(cmds') /\ tt = Len(typed')
  <2>1. Len(out') \in Nat /\ Len(cmds') \in Nat /\ Len(typed') \in Nat
    BY DEF Inv, TypeOK
  <2> QED
    BY <1>b, <2>1
<1>e. /\ Work = p + f + o + 2 * c + 4 * t
       /\ Work' = pp + ff + oo + 2 * cc + 4 * tt
  BY <1>c, <1>d DEF Work
<1> USE DEF tasks, queues, history
<1>1. CASE Register \/ Disconnect \/ Replaced \/ LinkLost \/ CloseConnection
  BY <1>1 DEF Register, Disconnect, Replaced, LinkLost, CloseConnection
<1>2. ASSUME NEW kind, Accept(kind), UNCHANGED <<pump, facade, out, cmds>>
      PROVE  Work' <= Work + 4
  <2>1. Len(typed') = Len(typed) + 1
    BY <1>a, <1>2 DEF Accept
  <2>2. /\ pp = p /\ ff = f /\ oo = o /\ cc = c /\ tt = t + 1
    BY <1>c, <1>d, <1>2, <2>1
  <2> QED
    BY <1>e, <2>2
<1>3. CASE TypeInput
  BY <1>2, <1>3 DEF TypeInput
<1>4. CASE SudoTypes
  BY <1>2, <1>4 DEF SudoTypes
<1>5. CASE PumpReads
  <2>1. /\ PumpWork[pump] = 1 /\ PumpWork[pump'] = 3
        /\ UNCHANGED <<facade, queues>>
    BY <1>5, WorkType DEF PumpReads
  <2>2. /\ p = 1 /\ pp = 3 /\ ff = f /\ oo = o /\ cc = c /\ tt = t
    BY <1>c, <1>d, <2>1
  <2> QED
    BY <1>5, <1>e, <2>2
<1>6. CASE PumpHands
  <2>1. /\ PumpWork[pump] = 3 /\ PumpWork[pump'] = 1
        /\ UNCHANGED <<facade, cmds, typed>>
    BY <1>6, WorkType DEF PumpHands
  <2>2. Len(out') = Len(out) + 1
    BY <1>a, <1>6 DEF PumpHands
  <2>3. /\ p = 3 /\ pp = 1 /\ ff = f /\ oo = o + 1 /\ cc = c /\ tt = t
    BY <1>c, <1>d, <2>1, <2>2
  <2> QED
    BY <1>e, <2>3
<1>7. CASE PumpHandsNobody \/ PumpEof \/ PumpLinkGone \/ PumpNoInput \/ WriteFails
  <2>1. /\ PumpWork[pump'] < PumpWork[pump]
        /\ UNCHANGED <<facade, out, typed>>
    BY <1>7, WorkType DEF PumpHandsNobody, PumpEof, PumpLinkGone, PumpNoInput, WriteFails,
                          PumpEnds
  <2>2. cmds' = cmds \/ cmds' = <<>>
    BY <1>7 DEF PumpHandsNobody, PumpEof, PumpLinkGone, PumpNoInput, WriteFails, PumpEnds
  <2>3. Len(cmds') \in Nat /\ Len(cmds') <= Len(cmds)
    BY <1>a, <2>2
  <2>4. /\ pp < p /\ ff = f /\ oo = o /\ cc <= c /\ tt = t
    BY <1>c, <1>d, <2>1, <2>3
  <2> QED
    BY <1>e, <2>4
<1>8. CASE PumpTakes
  <2>1. /\ PumpWork[pump] = 1 /\ PumpWork[pump'] = 2
        /\ UNCHANGED <<facade, out, typed>>
    BY <1>8, WorkType DEF PumpTakes
  <2>2. Len(cmds') + 1 = Len(cmds) /\ Len(cmds') \in Nat
    BY <1>a, <1>8, TailFacts DEF PumpTakes
  <2>3. /\ p = 1 /\ pp = 2 /\ ff = f /\ oo = o /\ cc + 1 = c /\ tt = t
    BY <1>c, <1>d, <2>1, <2>2
  <2> QED
    BY <1>e, <2>3
<1>9. CASE RemoteTakes
  <2>1. /\ PumpWork[pump] = 2 /\ PumpWork[pump'] = 1
        /\ UNCHANGED <<facade, queues>>
    BY <1>9, WorkType DEF RemoteTakes
  <2>2. /\ p = 2 /\ pp = 1 /\ ff = f /\ oo = o /\ cc = c /\ tt = t
    BY <1>c, <1>d, <2>1
  <2> QED
    BY <1>e, <2>2
<1>10. CASE FacadeShows
  <2>1. UNCHANGED <<pump, facade, cmds, typed>>
    BY <1>10 DEF FacadeShows
  <2>2. Len(out') + 1 = Len(out) /\ Len(out') \in Nat
    BY <1>a, <1>10, TailFacts DEF FacadeShows
  <2>3. /\ pp = p /\ ff = f /\ oo + 1 = o /\ cc = c /\ tt = t
    BY <1>c, <1>d, <2>1, <2>2
  <2> QED
    BY <1>e, <2>3
<1>11. CASE FacadeTakes
  <2>1. /\ FacadeWork[facade] = 1 /\ FacadeWork[facade'] = 4
        /\ UNCHANGED <<pump, out, cmds>>
    BY <1>11, WorkType DEF FacadeTakes
  <2>2. Len(typed') + 1 = Len(typed) /\ Len(typed') \in Nat
    BY <1>a, <1>11, TailFacts DEF FacadeTakes
  <2>3. /\ pp = p /\ f = 1 /\ ff = 4 /\ oo = o /\ cc = c /\ tt + 1 = t
    BY <1>c, <1>d, <2>1, <2>2
  <2> QED
    BY <1>e, <2>3
<1>12. CASE FacadeWrites
  <2>1. /\ FacadeWork[facade] = 4 /\ FacadeWork[facade'] = 1
        /\ UNCHANGED <<pump, out, typed>>
    BY <1>12, WorkType DEF FacadeWrites
  <2>2. cmds' = cmds \/ cmds' = Append(cmds, passes)
    BY <1>12 DEF FacadeWrites
  <2>3. passes \in Inputs
    BY <1>12 DEF FacadeWrites, Inv, InHands
  <2>4. Len(Append(cmds, passes)) = Len(cmds) + 1
    BY <1>a, <2>3, AppendFacts
  <2>5. Len(cmds') \in Nat /\ Len(cmds') <= Len(cmds) + 1
    <3>1. CASE cmds' = cmds
      BY <1>a, <3>1
    <3>2. CASE cmds' = Append(cmds, passes)
      BY <1>a, <2>4, <3>2
    <3> QED
      BY <2>2, <3>1, <3>2
  <2>6. /\ pp = p /\ f = 4 /\ ff = 1 /\ oo = o /\ cc <= c + 1 /\ tt = t
    BY <1>c, <1>d, <2>1, <2>5
  <2> QED
    BY <1>e, <2>6
<1>13. CASE FacadeSaysClosed \/ FacadeNoInput \/ FacadeAborted
  <2>1. /\ FacadeWork[facade'] < FacadeWork[facade]
        /\ out' = <<>> /\ typed' = <<>>
        /\ UNCHANGED <<pump, cmds>>
    BY <1>13, WorkType DEF FacadeSaysClosed, FacadeNoInput, FacadeAborted, FacadeEnds,
                           Inv, TypeOK
  <2>2. Len(out') = 0 /\ Len(typed') = 0
    BY <1>a, <2>1
  <2>3. /\ pp = p /\ ff < f /\ oo = 0 /\ cc = c /\ tt = 0
    BY <1>c, <1>d, <2>1, <2>2
  <2> QED
    BY <1>e, <2>3
<1> QED
  BY <1>1, <1>3, <1>4, <1>5, <1>6, <1>7, <1>8, <1>9, <1>10, <1>11, <1>12, <1>13
     DEF Next, World, PumpStep, FacadeStep

\* A terminal never turns in circles, and gets stuck in one state only, whatever is
\* full: for queues of any size and any amount of output and input.
THEOREM ShellNeverStuck == Spec => [](Work \in Nat /\ Progress) /\ WorkSinks
<1>1. Init => Inv /\ Emptied
  BY InitInv DEF Init, Emptied
<1>2. Inv /\ Emptied /\ [Next]_vars => Emptied'
  BY EmptiedStep
<1>3. Inv => Work \in Nat
  BY WorkSum
<1>4. Inv /\ Inv' /\ [Next]_vars =>
        [\/ Work' < Work
         \/ (PumpReads \/ TypeInput \/ SudoTypes) /\ Work' <= Work + 4
         \/ UNCHANGED <<pump, facade, queues>>]_vars
  BY WorkStep
<1> QED
  BY <1>1, <1>2, <1>3, <1>4, Progresses, Invariance, PTL DEF Spec, WorkSinks
=============================================================================
