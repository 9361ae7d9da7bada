--------------------------- MODULE SessionsProofs ---------------------------
(***************************************************************************)
(* Theorems about Sessions, for any sets of keys, attempts and requests:   *)
(* type correctness, no orphaned forward, no session whose connection the  *)
(* manager has let go, the refinement of SessionLife, and what the         *)
(* liveness properties need besides fairness.                              *)
(***************************************************************************)
EXTENDS Sessions, TLAPS

\* The types are preserved by every step.
LEMMA TypeStep == TypeOK /\ [Next]_vars => TypeOK'
<1> SUFFICES ASSUME TypeOK, [Next]_vars PROVE TypeOK'
  OBVIOUS
<1> USE DEF TypeOK, TaskStates, PumpStates, FwdStates, connVars, fwdVars
<1>1. CASE UNCHANGED vars
  BY <1>1 DEF vars
<1>2. ASSUME NEW k \in Keys, NEW c \in Conns, ConnectCmd(k, c) PROVE TypeOK'
  BY <1>2 DEF ConnectCmd
<1>3. ASSUME NEW k \in Keys, DisconnectTake(k) PROVE TypeOK'
  BY <1>3 DEF DisconnectTake
<1>4. CASE DisconnectStop
  BY <1>4 DEF DisconnectStop, WithoutForwardsOf
<1>5. ASSUME NEW k \in Keys, NEW f \in Fwds, ForwardStart(k, f) PROVE TypeOK'
  BY <1>5 DEF ForwardStart
<1>6. ASSUME NEW f \in Fwds, ForwardStop(f) PROVE TypeOK'
  BY <1>6 DEF ForwardStop
<1>7. ASSUME NEW c \in Conns, ConnectOk(c) PROVE TypeOK'
  BY <1>7 DEF ConnectOk
<1>8. ASSUME NEW c \in Conns, ConnectFails(c) PROVE TypeOK'
  BY <1>8 DEF ConnectFails
<1>9. ASSUME NEW c \in Conns, NEW sudo \in BOOLEAN, OpenShellOk(c, sudo)
      PROVE  TypeOK'
  BY <1>9 DEF OpenShellOk
<1>10. ASSUME NEW c \in Conns, OpenShellFails(c) PROVE TypeOK'
  BY <1>10 DEF OpenShellFails
<1>11. ASSUME NEW c \in Conns, Register(c) PROVE TypeOK'
  BY <1>11 DEF Register
<1>12. ASSUME NEW c \in Conns, TypingDone(c) PROVE TypeOK'
  BY <1>12 DEF TypingDone
<1>13. ASSUME NEW c \in Conns, CloseForget(c) PROVE TypeOK'
  BY <1>13 DEF CloseForget
<1>14. ASSUME NEW c \in Conns, CloseDisconnect(c) PROVE TypeOK'
  BY <1>14 DEF CloseDisconnect
<1>15. ASSUME NEW c \in Conns, ShellExit(c) PROVE TypeOK'
  BY <1>15 DEF ShellExit
<1>16. ASSUME NEW c \in Conns, PumpReadEnd(c) PROVE TypeOK'
  BY <1>16 DEF PumpReadEnd
<1>17. ASSUME NEW c \in Conns, PumpStop(c) PROVE TypeOK'
  BY <1>17 DEF PumpStop, WithoutForwardsOf
<1>18. ASSUME NEW c \in Conns, PumpQuiet(c) PROVE TypeOK'
  BY <1>18 DEF PumpQuiet
<1>19. ASSUME NEW f \in Fwds, ForwardFails(f) PROVE TypeOK'
  BY <1>19 DEF ForwardFails
<1>20. ASSUME NEW f \in Fwds, ForwardCheck(f) PROVE TypeOK'
  BY <1>20 DEF ForwardCheck
<1>21. ASSUME NEW f \in Fwds, ForwardRegister(f) PROVE TypeOK'
  BY <1>21 DEF ForwardRegister
<1> QED
  BY <1>1, <1>2, <1>3, <1>4, <1>5, <1>6, <1>7, <1>8, <1>9, <1>10, <1>11,
     <1>12, <1>13, <1>14, <1>15, <1>16, <1>17, <1>18, <1>19, <1>20, <1>21
     DEF Next, LoopStep, ConnStep, FwdStep

\* The variables keep the types the code gives them.
THEOREM TypeCorrect == Spec => []TypeOK
<1>1. Init => TypeOK
  BY DEF Init, TypeOK, TaskStates, PumpStates, FwdStates
<1> QED
  BY <1>1, TypeStep, PTL DEF Spec
-----------------------------------------------------------------------------
\* The inductive invariant behind ForwardsHaveSession.  The mutex has one
\* owner, the task between its check and its insert, and for that task the
\* promise made to registered forwards already holds: its key had a session at
\* the check, and whoever removes it since waits for the mutex.
KeysKnown ==
    /\ \A f \in Fwds : fwd[f] \in {"binding", "locked", "registered"} =>
           fkey[f] \in Keys
    /\ \A c \in Conns : task[c] # "idle" => key[c] \in Keys
    /\ \A c \in Conns : pump[c] # "none" => task[c] \in {"shell", "done"}

LockOwner == \A f \in Fwds : fwd[f] = "locked" <=> fwLock = f

Covered(k) == sessions[k] # None \/ StopPending(k)

InHandCovered ==
    \A f \in Fwds : fwd[f] \in {"locked", "registered"} => Covered(fkey[f])

ForwardInv == TypeOK /\ KeysKnown /\ LockOwner /\ InHandCovered

\* Keys and the mutex: nothing but their own bookkeeping is needed.
LEMMA KeysAndLockStep ==
    TypeOK /\ KeysKnown /\ LockOwner /\ [Next]_vars
        => KeysKnown' /\ LockOwner'
<1> SUFFICES ASSUME TypeOK, KeysKnown, LockOwner, [Next]_vars
             PROVE  KeysKnown' /\ LockOwner'
  OBVIOUS
<1> USE NoneAssumption
    DEF TypeOK, TaskStates, PumpStates, FwdStates, KeysKnown, LockOwner,
        connVars, fwdVars
<1>1. CASE UNCHANGED vars
  BY <1>1 DEF vars
<1>2. CASE LoopStep
  <2>1. ASSUME NEW k \in Keys, NEW c \in Conns, ConnectCmd(k, c)
        PROVE  KeysKnown' /\ LockOwner'
    BY <2>1 DEF ConnectCmd
  <2>2. ASSUME NEW k \in Keys, DisconnectTake(k)
        PROVE  KeysKnown' /\ LockOwner'
    BY <2>2 DEF DisconnectTake
  <2>3. CASE DisconnectStop
    BY <2>3 DEF DisconnectStop, WithoutForwardsOf
  <2>4. ASSUME NEW k \in Keys, NEW f \in Fwds, ForwardStart(k, f)
        PROVE  KeysKnown' /\ LockOwner'
    BY <2>4 DEF ForwardStart
  <2>5. ASSUME NEW f \in Fwds, ForwardStop(f)
        PROVE  KeysKnown' /\ LockOwner'
    BY <2>5 DEF ForwardStop
  <2> QED
    BY <1>2, <2>1, <2>2, <2>3, <2>4, <2>5 DEF LoopStep
<1>3. ASSUME NEW c \in Conns, ConnStep(c)
      PROVE  KeysKnown' /\ LockOwner'
  <2>1. CASE ConnectOk(c) \/ ConnectFails(c)
    BY <2>1 DEF ConnectOk, ConnectFails
  <2>2. ASSUME NEW sudo \in BOOLEAN, OpenShellOk(c, sudo)
        PROVE  KeysKnown' /\ LockOwner'
    BY <2>2 DEF OpenShellOk
  <2>3. CASE OpenShellFails(c) \/ Register(c) \/ TypingDone(c)
    BY <2>3 DEF OpenShellFails, Register, TypingDone
  <2>4. CASE CloseForget(c) \/ CloseDisconnect(c) \/ ShellExit(c)
    BY <2>4 DEF CloseForget, CloseDisconnect, ShellExit
  <2>5. CASE PumpReadEnd(c) \/ PumpQuiet(c)
    BY <2>5 DEF PumpReadEnd, PumpQuiet
  <2>6. CASE PumpStop(c)
    BY <2>6 DEF PumpStop, WithoutForwardsOf
  <2> QED
    BY <1>3, <2>1, <2>2, <2>3, <2>4, <2>5, <2>6 DEF ConnStep
<1>4. ASSUME NEW f \in Fwds, FwdStep(f)
      PROVE  KeysKnown' /\ LockOwner'
  BY <1>4 DEF FwdStep, ForwardFails, ForwardCheck, ForwardRegister
<1> QED
  BY <1>1, <1>2, <1>3, <1>4 DEF Next

\* A step that stops the forwards of k, with the mutex free, leaves no forward
\* of k in hand; the pending stops of the other keys are still pending.
LEMMA StopStep ==
    ASSUME ForwardInv, NEW k \in Keys, fwLock = None,
           fwd' = WithoutForwardsOf(k),
           UNCHANGED <<sessions, fkey, key>>,
           \A l \in Keys \ {k} : StopPending(l) => StopPending(l)'
    PROVE  InHandCovered'
<1> SUFFICES ASSUME NEW f \in Fwds, fwd'[f] \in {"locked", "registered"}
             PROVE  Covered(fkey[f])'
  BY DEF InHandCovered, Covered
<1>1. fwd[f] = "registered" /\ fkey[f] # k /\ fwd'[f] = fwd[f]
  BY NoneAssumption
  DEF ForwardInv, TypeOK, FwdStates, LockOwner, WithoutForwardsOf
<1>2. fkey[f] \in Keys \ {k} /\ fkey'[f] = fkey[f]
  BY <1>1 DEF ForwardInv, KeysKnown
<1>3. Covered(fkey[f])
  BY <1>1 DEF ForwardInv, InHandCovered
<1> QED
  BY <1>2, <1>3 DEF Covered

\* Steps that leave the forwards alone and uncover no key keep the promise.
LEMMA FrameStep ==
    ASSUME InHandCovered, KeysKnown,
           UNCHANGED <<fwd, fkey>>,
           \A k \in Keys : Covered(k) => Covered(k)'
    PROVE  InHandCovered'
BY DEF InHandCovered, KeysKnown, Covered

LEMMA CoveredStep ==
    ForwardInv /\ [Next]_vars => InHandCovered'
<1> SUFFICES ASSUME ForwardInv, [Next]_vars PROVE InHandCovered'
  OBVIOUS
<1>0. InHandCovered /\ KeysKnown
  BY DEF ForwardInv
<1>1. CASE UNCHANGED vars
  BY <1>0, <1>1, FrameStep DEF vars, Covered, StopPending
<1>2. CASE LoopStep
  <2>1. ASSUME NEW k \in Keys, NEW c \in Conns, ConnectCmd(k, c)
        PROVE  InHandCovered'
    <3>1. \A d \in Conns : pump[d] = "removed" => key'[d] = key[d]
      BY <2>1, <1>0 DEF ConnectCmd, KeysKnown, ForwardInv, TypeOK
    <3>2. UNCHANGED <<sessions, stopping, pump, fwd, fkey>>
      BY <2>1 DEF ConnectCmd, fwdVars
    <3> QED
      BY <1>0, <3>1, <3>2, FrameStep DEF Covered, StopPending
  <2>2. ASSUME NEW k \in Keys, DisconnectTake(k)
        PROVE  InHandCovered'
    <3>1. \A l \in Keys : Covered(l) => Covered(l)'
      BY <2>2, NoneAssumption
      DEF DisconnectTake, LoopIdle, Covered, StopPending, ForwardInv, TypeOK
    <3> QED
      BY <1>0, <2>2, <3>1, FrameStep DEF DisconnectTake, fwdVars
  <2>3. CASE DisconnectStop
    <3>1. stopping \in Keys
      BY <2>3 DEF DisconnectStop, ForwardInv, TypeOK
    <3>2. \A l \in Keys \ {stopping} : StopPending(l) => StopPending(l)'
      BY <2>3 DEF DisconnectStop, StopPending, connVars
    <3> QED
      BY <2>3, <3>1, <3>2, StopStep DEF DisconnectStop, connVars
  <2>4. ASSUME NEW k \in Keys, NEW f \in Fwds, ForwardStart(k, f)
        PROVE  InHandCovered'
    BY <2>4, <1>0
    DEF ForwardStart, InHandCovered, Covered, StopPending, connVars,
        ForwardInv, TypeOK
  <2>5. ASSUME NEW f \in Fwds, ForwardStop(f)
        PROVE  InHandCovered'
    BY <2>5, <1>0
    DEF ForwardStop, InHandCovered, Covered, StopPending, connVars,
        ForwardInv, TypeOK
  <2> QED
    BY <1>2, <2>1, <2>2, <2>3, <2>4, <2>5 DEF LoopStep
<1>3. ASSUME NEW c \in Conns, ConnStep(c)
      PROVE  InHandCovered'
  <2>1. CASE \/ ConnectOk(c) \/ ConnectFails(c) \/ OpenShellFails(c)
             \/ TypingDone(c) \/ CloseForget(c) \/ CloseDisconnect(c)
             \/ ShellExit(c)
    <3>1. UNCHANGED <<sessions, stopping, pump, key, fwd, fkey>>
      BY <2>1 DEF ConnectOk, ConnectFails, OpenShellFails, TypingDone,
                  CloseForget, CloseDisconnect, ShellExit, fwdVars
    <3> QED
      BY <1>0, <3>1, FrameStep DEF Covered, StopPending
  <2>2. ASSUME NEW sudo \in BOOLEAN, OpenShellOk(c, sudo)
        PROVE  InHandCovered'
    <3>1. pump[c] = "none" /\ UNCHANGED <<sessions, stopping, key, fwd, fkey>>
      BY <2>2, <1>0
      DEF OpenShellOk, KeysKnown, fwdVars, ForwardInv, TypeOK, PumpStates
    <3>2. \A d \in Conns : pump[d] = "removed" => pump'[d] = "removed"
      BY <2>2, <3>1 DEF OpenShellOk, ForwardInv, TypeOK
    <3> QED
      BY <1>0, <3>1, <3>2, FrameStep DEF Covered, StopPending
  <2>3. CASE Register(c)
    <3>1. \A l \in Keys : Covered(l) => Covered(l)'
      BY <2>3, NoneAssumption
      DEF Register, Covered, StopPending, fwdVars, ForwardInv, TypeOK
    <3> QED
      BY <1>0, <2>3, <3>1, FrameStep DEF Register, fwdVars
  <2>4. CASE PumpReadEnd(c)
    <3>1. \A l \in Keys : Covered(l) => Covered(l)'
      BY <2>4
      DEF PumpReadEnd, Covered, StopPending, connVars, ForwardInv, TypeOK
    <3> QED
      BY <1>0, <2>4, <3>1, FrameStep DEF PumpReadEnd, fwdVars
  <2>5. CASE PumpStop(c)
    <3>1. key[c] \in Keys
      BY <2>5, <1>0 DEF PumpStop, KeysKnown
    <3>2. \A l \in Keys \ {key[c]} : StopPending(l) => StopPending(l)'
      BY <2>5 DEF PumpStop, StopPending, connVars, ForwardInv, TypeOK
    <3> QED
      BY <2>5, <3>1, <3>2, StopStep DEF PumpStop, connVars
  <2>6. CASE PumpQuiet(c)
    <3>1. \A l \in Keys : Covered(l) => Covered(l)'
      BY <2>6
      DEF PumpQuiet, Covered, StopPending, connVars, ForwardInv, TypeOK
    <3> QED
      BY <1>0, <2>6, <3>1, FrameStep DEF PumpQuiet, fwdVars
  <2> QED
    BY <1>3, <2>1, <2>2, <2>3, <2>4, <2>5, <2>6 DEF ConnStep
<1>4. ASSUME NEW f \in Fwds, FwdStep(f)
      PROVE  InHandCovered'
  <2>1. UNCHANGED <<sessions, stopping, pump, key, fkey>>
    BY <1>4 DEF FwdStep, ForwardFails, ForwardCheck, ForwardRegister, connVars
  <2>2. \A g \in Fwds : Covered(fkey[g]) => Covered(fkey[g])'
    BY <2>1 DEF Covered, StopPending
  <2>3. \A g \in Fwds : fwd'[g] \in {"locked", "registered"} =>
                          Covered(fkey[g])
    BY <1>4, <1>0
    DEF FwdStep, ForwardFails, ForwardCheck, ForwardRegister, InHandCovered,
        Covered, ForwardInv, TypeOK
  <2> QED
    BY <2>2, <2>3 DEF InHandCovered
<1> QED
  BY <1>1, <1>2, <1>3, <1>4 DEF Next

LEMMA ForwardInvInit == Init => ForwardInv
BY NoneAssumption
DEF Init, ForwardInv, TypeOK, TaskStates, PumpStates, FwdStates, KeysKnown,
    LockOwner, InHandCovered

\* No forward is ever registered without a session under its key or a teardown
\* that is about to stop it: the argument of the comment in "forward_start",
\* which checks the membership under the forwards mutex.
THEOREM NoOrphanedForward == Spec => []ForwardsHaveSession
<1>1. ForwardInv /\ [Next]_vars => ForwardInv'
  BY TypeStep, KeysAndLockStep, CoveredStep DEF ForwardInv
<1>2. ForwardInv => ForwardsHaveSession
  BY DEF ForwardInv, InHandCovered, Covered, ForwardsHaveSession
<1> QED
  BY ForwardInvInit, <1>1, <1>2, PTL DEF Spec

-----------------------------------------------------------------------------
\* The inductive invariant behind SessionsHaveConnection: a connection is in
\* the map under its own key only, after its task registered it, and from its
\* connect to its registration nobody else can have asked to close it.
EntriesOwned ==
    \A k \in Keys : sessions[k] # None =>
        /\ task[sessions[k]] = "done"
        /\ key[sessions[k]] = k
        /\ sessions[k] \in manager \ closing

InFlightHeld ==
    \A c \in Conns : task[c] \in {"opening", "shell"} => c \in manager \ closing

ConnInv == TypeOK /\ KeysKnown /\ EntriesOwned /\ InFlightHeld

\* Only a finished attempt is ever closed.
ClosingBegun == \A c \in Conns : c \in closing => task[c] \in {"done", "failed"}

LEMMA ConnStepInv ==
    ConnInv /\ ClosingBegun /\ [Next]_vars
        => EntriesOwned' /\ InFlightHeld' /\ ClosingBegun'
<1> SUFFICES ASSUME ConnInv, ClosingBegun, [Next]_vars
             PROVE  EntriesOwned' /\ InFlightHeld' /\ ClosingBegun'
  OBVIOUS
<1> USE NoneAssumption
    DEF ConnInv, TypeOK, TaskStates, KeysKnown, EntriesOwned, InFlightHeld,
        ClosingBegun, fwdVars
<1>1. CASE UNCHANGED vars
  BY <1>1 DEF vars
<1>2. CASE LoopStep
  <2>1. ASSUME NEW k \in Keys, NEW c \in Conns, ConnectCmd(k, c)
        PROVE  EntriesOwned' /\ InFlightHeld' /\ ClosingBegun'
    BY <2>1 DEF ConnectCmd
  <2>2. ASSUME NEW k \in Keys, DisconnectTake(k)
        PROVE  EntriesOwned' /\ InFlightHeld' /\ ClosingBegun'
    BY <2>2 DEF DisconnectTake
  <2>3. CASE \/ DisconnectStop
             \/ \E k \in Keys, f \in Fwds : ForwardStart(k, f)
             \/ \E f \in Fwds : ForwardStop(f)
    BY <2>3 DEF DisconnectStop, ForwardStart, ForwardStop, connVars
  <2> QED
    BY <1>2, <2>1, <2>2, <2>3 DEF LoopStep
<1>3. ASSUME NEW c \in Conns, ConnStep(c)
      PROVE  EntriesOwned' /\ InFlightHeld' /\ ClosingBegun'
  <2>1. CASE ConnectOk(c) \/ ConnectFails(c)
    BY <2>1 DEF ConnectOk, ConnectFails
  <2>2. ASSUME NEW sudo \in BOOLEAN, OpenShellOk(c, sudo)
        PROVE  EntriesOwned' /\ InFlightHeld' /\ ClosingBegun'
    BY <2>2 DEF OpenShellOk
  <2>3. CASE OpenShellFails(c)
    BY <2>3 DEF OpenShellFails
  <2>4. CASE Register(c)
    BY <2>4 DEF Register
  <2>5. CASE TypingDone(c) \/ CloseDisconnect(c) \/ ShellExit(c)
    BY <2>5 DEF TypingDone, CloseDisconnect, ShellExit
  <2>6. CASE CloseForget(c)
    BY <2>6 DEF CloseForget
  <2>7. CASE PumpReadEnd(c)
    BY <2>7 DEF PumpReadEnd, connVars
  <2>8. CASE PumpStop(c) \/ PumpQuiet(c)
    BY <2>8 DEF PumpStop, PumpQuiet, connVars
  <2> QED
    BY <1>3, <2>1, <2>2, <2>3, <2>4, <2>5, <2>6, <2>7, <2>8 DEF ConnStep
<1>4. ASSUME NEW f \in Fwds, FwdStep(f)
      PROVE  EntriesOwned' /\ InFlightHeld' /\ ClosingBegun'
  BY <1>4 DEF FwdStep, ForwardFails, ForwardCheck, ForwardRegister, connVars
<1> QED
  BY <1>1, <1>2, <1>3, <1>4 DEF Next

\* Every session in the map has its connection in the manager, and nobody is
\* about to close it.
THEOREM OpenTabsHaveConnections == Spec => []SessionsHaveConnection
<1> DEFINE Inv == ConnInv /\ ClosingBegun /\ LockOwner
<1>1. Init => Inv
  BY NoneAssumption, ForwardInvInit
  DEF Init, ForwardInv, ConnInv, EntriesOwned, InFlightHeld, ClosingBegun
<1>2. Inv /\ [Next]_vars => Inv'
  BY TypeStep, KeysAndLockStep, ConnStepInv DEF ConnInv
<1>3. Inv => SessionsHaveConnection
  BY DEF ConnInv, EntriesOwned, SessionsHaveConnection
<1> QED
  BY <1>1, <1>2, <1>3, PTL DEF Spec

-----------------------------------------------------------------------------
\* The invariant behind the refinement: what was told to abort was registered
\* and is in the map no more.
AbortedGone ==
    \A c \in aborted : task[c] = "done" /\ \A k \in Keys : sessions[k] # c

LifeInv == ConnInv /\ ClosingBegun /\ LockOwner /\ AbortedGone

LEMMA AbortedStep ==
    ConnInv /\ AbortedGone /\ [Next]_vars => AbortedGone'
<1> SUFFICES ASSUME ConnInv, AbortedGone, [Next]_vars PROVE AbortedGone'
  OBVIOUS
<1> USE NoneAssumption
    DEF ConnInv, TypeOK, EntriesOwned, AbortedGone, fwdVars, connVars
<1>1. CASE UNCHANGED vars
  BY <1>1 DEF vars
<1>2. CASE LoopStep
  <2>1. ASSUME NEW k \in Keys, NEW c \in Conns, ConnectCmd(k, c)
        PROVE  AbortedGone'
    BY <2>1 DEF ConnectCmd
  <2>2. ASSUME NEW k \in Keys, DisconnectTake(k) PROVE AbortedGone'
    BY <2>2 DEF DisconnectTake
  <2>3. CASE \/ DisconnectStop
             \/ \E k \in Keys, f \in Fwds : ForwardStart(k, f)
             \/ \E f \in Fwds : ForwardStop(f)
    BY <2>3 DEF DisconnectStop, ForwardStart, ForwardStop
  <2> QED
    BY <1>2, <2>1, <2>2, <2>3 DEF LoopStep
<1>3. ASSUME NEW c \in Conns, ConnStep(c) PROVE AbortedGone'
  <2>1. CASE ConnectOk(c) \/ ConnectFails(c) \/ OpenShellFails(c)
    BY <2>1 DEF ConnectOk, ConnectFails, OpenShellFails
  <2>2. ASSUME NEW sudo \in BOOLEAN, OpenShellOk(c, sudo) PROVE AbortedGone'
    BY <2>2 DEF OpenShellOk
  <2>3. CASE Register(c)
    BY <2>3 DEF Register
  <2>4. CASE \/ TypingDone(c) \/ CloseForget(c) \/ CloseDisconnect(c)
             \/ ShellExit(c)
    BY <2>4 DEF TypingDone, CloseForget, CloseDisconnect, ShellExit
  <2>5. CASE PumpReadEnd(c)
    BY <2>5 DEF PumpReadEnd
  <2>6. CASE PumpStop(c) \/ PumpQuiet(c)
    BY <2>6 DEF PumpStop, PumpQuiet
  <2> QED
    BY <1>3, <2>1, <2>2, <2>3, <2>4, <2>5, <2>6 DEF ConnStep
<1>4. ASSUME NEW f \in Fwds, FwdStep(f) PROVE AbortedGone'
  BY <1>4 DEF FwdStep, ForwardFails, ForwardCheck, ForwardRegister
<1> QED
  BY <1>1, <1>2, <1>3, <1>4 DEF Next

\* Every step of Sessions is a step of SessionLife or changes nothing of it.
LEMMA LifeStep == LifeInv /\ [Next]_vars => [Life!Next]_Life!vars
<1> SUFFICES ASSUME LifeInv, [Next]_vars
             PROVE  Life!Next \/ UNCHANGED Life!vars
  OBVIOUS
<1> USE DEF Life!vars, fwdVars, connVars
<1>1. CASE UNCHANGED vars
  BY <1>1 DEF vars
<1>2. CASE LoopStep
  <2>1. ASSUME NEW k \in Keys, NEW c \in Conns, ConnectCmd(k, c)
        PROVE  Life!Next
    BY <2>1 DEF ConnectCmd, Life!Begin, Life!Next
  <2>2. ASSUME NEW k \in Keys, DisconnectTake(k) PROVE Life!Next
    BY <2>2 DEF DisconnectTake, Life!Drop, Life!Next
  <2>3. CASE \/ DisconnectStop
             \/ \E k \in Keys, f \in Fwds : ForwardStart(k, f)
             \/ \E f \in Fwds : ForwardStop(f)
    BY <2>3 DEF DisconnectStop, ForwardStart, ForwardStop
  <2> QED
    BY <1>2, <2>1, <2>2, <2>3 DEF LoopStep
<1>3. ASSUME NEW c \in Conns, ConnStep(c)
      PROVE  Life!Next \/ UNCHANGED Life!vars
  <2>1. CASE ConnectOk(c)
    BY <2>1 DEF ConnectOk, Life!Up, Life!Next
  <2>2. CASE ConnectFails(c) \/ OpenShellFails(c)
    BY <2>2 DEF ConnectFails, OpenShellFails, Life!Fail, Life!Next
  <2>3. ASSUME NEW sudo \in BOOLEAN, OpenShellOk(c, sudo) PROVE Life!Next
    BY <2>3 DEF OpenShellOk, Life!Open, Life!Next
  <2>4. CASE Register(c)
    BY <2>4 DEF Register, Life!Register, Life!Next
  <2>5. CASE \/ TypingDone(c) \/ CloseForget(c) \/ CloseDisconnect(c)
             \/ ShellExit(c)
    BY <2>5 DEF TypingDone, CloseForget, CloseDisconnect, ShellExit
  <2>6. CASE PumpReadEnd(c)
    BY <2>6 DEF PumpReadEnd, Life!End, Life!Next
  <2>7. CASE PumpStop(c)
    BY <2>7 DEF PumpStop, Life!Report, Life!Next
  <2>8. CASE PumpQuiet(c)
    <3>1. task[c] = "done" /\ \A k \in Keys : sessions[k] # c
      BY <2>8
      DEF PumpQuiet, InputOpen, LifeInv, AbortedGone, ConnInv, KeysKnown
    <3> QED
      BY <2>8, <3>1 DEF PumpQuiet, Life!Quiet, Life!Next
  <2> QED
    BY <1>3, <2>1, <2>2, <2>3, <2>4, <2>5, <2>6, <2>7, <2>8 DEF ConnStep
<1>4. ASSUME NEW f \in Fwds, FwdStep(f) PROVE UNCHANGED Life!vars
  BY <1>4 DEF FwdStep, ForwardFails, ForwardCheck, ForwardRegister
<1> QED
  BY <1>1, <1>2, <1>3, <1>4 DEF Next

\* Sessions implements SessionLife, for any number of keys, attempts and
\* forwards: in particular shell_pump stops without a "closed" only for a session
\* that was disconnected or replaced.
THEOREM SessionsImplementLife == Spec => ImplementsLife
<1>1. Init => Life!Init
  BY DEF Init, Life!Init
<1>2. Init => LifeInv
  BY NoneAssumption, ForwardInvInit
  DEF Init, ForwardInv, LifeInv, ConnInv, EntriesOwned, InFlightHeld,
      ClosingBegun, AbortedGone
<1>3. LifeInv /\ [Next]_vars => LifeInv'
  BY TypeStep, KeysAndLockStep, ConnStepInv, AbortedStep DEF LifeInv, ConnInv
<1> QED
  BY <1>1, <1>2, <1>3, LifeStep, PTL DEF Spec, ImplementsLife, Life!Spec

-----------------------------------------------------------------------------
\* What the liveness properties of Sessions rest on besides fairness: as long as
\* something is to be released, whoever is to release it is there and can.

\* An attempt whose pump was told to abort has one, and its connection is closed
\* already or about to be.
ReleaseOwed ==
    \A c \in aborted : pump[c] # "none" /\ (c \in manager => c \in closing)

\* What is released stays so: the connection never comes back to the manager, and
\* the pump has ended for good.
ReleasedForGood ==
    [][\A c \in aborted : /\ c \in aborted'
                          /\ c \notin manager => c \notin manager'
                          /\ pump[c] = "ended" => pump'[c] = "ended"]_vars

\* The forward of a removed session has somebody to stop it, and the forwards mutex
\* he needs is free or with a task that is about to give it back.
StopOwed ==
    \A f \in Fwds : OrphanForward(f) =>
        /\ StopPending(fkey[f])
        /\ fwLock = None \/ \E g \in Fwds : fwLock = g /\ fwd[g] = "locked"

\* The pump is spawned before the session can be in the map.
PumpSpawned == \A c \in Conns : task[c] \in {"shell", "done"} => pump[c] # "none"

ReleaseInv == LifeInv /\ PumpSpawned /\ ReleaseOwed

LEMMA ReleaseStep == ReleaseInv /\ [Next]_vars => PumpSpawned' /\ ReleaseOwed'
<1> SUFFICES ASSUME ReleaseInv, [Next]_vars PROVE PumpSpawned' /\ ReleaseOwed'
  OBVIOUS
<1> USE NoneAssumption
    DEF ReleaseInv, LifeInv, ConnInv, TypeOK, EntriesOwned, AbortedGone,
        PumpSpawned, ReleaseOwed, fwdVars, connVars
<1>1. CASE UNCHANGED vars
  BY <1>1 DEF vars
<1>2. CASE LoopStep
  <2>1. ASSUME NEW k \in Keys, NEW c \in Conns, ConnectCmd(k, c)
        PROVE  PumpSpawned' /\ ReleaseOwed'
    BY <2>1 DEF ConnectCmd
  <2>2. ASSUME NEW k \in Keys, DisconnectTake(k)
        PROVE  PumpSpawned' /\ ReleaseOwed'
    BY <2>2 DEF DisconnectTake
  <2>3. CASE \/ DisconnectStop
             \/ \E k \in Keys, f \in Fwds : ForwardStart(k, f)
             \/ \E f \in Fwds : ForwardStop(f)
    BY <2>3 DEF DisconnectStop, ForwardStart, ForwardStop
  <2> QED
    BY <1>2, <2>1, <2>2, <2>3 DEF LoopStep
<1>3. ASSUME NEW c \in Conns, ConnStep(c)
      PROVE  PumpSpawned' /\ ReleaseOwed'
  <2>1. CASE ConnectOk(c) \/ ConnectFails(c)
    BY <2>1 DEF ConnectOk, ConnectFails
  <2>2. CASE OpenShellFails(c) \/ Register(c)
    BY <2>2 DEF OpenShellFails, Register
  <2>3. ASSUME NEW sudo \in BOOLEAN, OpenShellOk(c, sudo)
        PROVE  PumpSpawned' /\ ReleaseOwed'
    BY <2>3 DEF OpenShellOk
  <2>4. CASE CloseForget(c)
    BY <2>4 DEF CloseForget
  <2>5. CASE TypingDone(c) \/ CloseDisconnect(c) \/ ShellExit(c)
    BY <2>5 DEF TypingDone, CloseDisconnect, ShellExit
  <2>6. CASE PumpReadEnd(c)
    BY <2>6 DEF PumpReadEnd
  <2>7. CASE PumpStop(c) \/ PumpQuiet(c)
    BY <2>7 DEF PumpStop, PumpQuiet
  <2> QED
    BY <1>3, <2>1, <2>2, <2>3, <2>4, <2>5, <2>6, <2>7 DEF ConnStep
<1>4. ASSUME NEW f \in Fwds, FwdStep(f)
      PROVE  PumpSpawned' /\ ReleaseOwed'
  BY <1>4 DEF FwdStep, ForwardFails, ForwardCheck, ForwardRegister
<1> QED
  BY <1>1, <1>2, <1>3, <1>4 DEF Next

LEMMA ReleasedStep ==
    ASSUME LifeInv, [Next]_vars, NEW c \in aborted
    PROVE  /\ c \in aborted'
           /\ c \notin manager => c \notin manager'
           /\ pump[c] = "ended" => pump'[c] = "ended"
<1> USE DEF LifeInv, ConnInv, TypeOK, AbortedGone, fwdVars, connVars
<1>1. CASE UNCHANGED vars
  BY <1>1 DEF vars
<1>2. CASE LoopStep
  BY <1>2 DEF LoopStep, ConnectCmd, DisconnectTake, DisconnectStop, ForwardStart,
              ForwardStop
<1>3. ASSUME NEW d \in Conns, ConnStep(d)
      PROVE  /\ c \in aborted'
             /\ c \notin manager => c \notin manager'
             /\ pump[c] = "ended" => pump'[c] = "ended"
  <2>1. CASE ConnectOk(d)
    BY <2>1 DEF ConnectOk
  <2>2. CASE ConnectFails(d) \/ OpenShellFails(d) \/ Register(d)
    BY <2>2 DEF ConnectFails, OpenShellFails, Register
  <2>3. ASSUME NEW sudo \in BOOLEAN, OpenShellOk(d, sudo)
        PROVE  /\ c \in aborted'
               /\ c \notin manager => c \notin manager'
               /\ pump[c] = "ended" => pump'[c] = "ended"
    BY <2>3 DEF OpenShellOk
  <2>4. CASE TypingDone(d) \/ CloseForget(d) \/ CloseDisconnect(d) \/ ShellExit(d)
    BY <2>4 DEF TypingDone, CloseForget, CloseDisconnect, ShellExit
  <2>5. CASE PumpReadEnd(d) \/ PumpStop(d) \/ PumpQuiet(d)
    BY <2>5 DEF PumpReadEnd, PumpStop, PumpQuiet
  <2> QED
    BY <1>3, <2>1, <2>2, <2>3, <2>4, <2>5 DEF ConnStep
<1>4. ASSUME NEW f \in Fwds, FwdStep(f)
      PROVE  /\ c \in aborted'
             /\ c \notin manager => c \notin manager'
             /\ pump[c] = "ended" => pump'[c] = "ended"
  BY <1>4 DEF FwdStep, ForwardFails, ForwardCheck, ForwardRegister
<1> QED
  BY <1>1, <1>2, <1>3, <1>4 DEF Next

\* The safety half of DisconnectReleases: "disconnect" never loses the close it owes
\* a connection, whatever pump and shell were doing, and nothing undoes it.
THEOREM DisconnectOwed == Spec => []ReleaseOwed /\ ReleasedForGood
<1>1. Init => ReleaseInv
  BY NoneAssumption, ForwardInvInit
  DEF Init, ForwardInv, LifeInv, ConnInv, EntriesOwned, InFlightHeld,
      ClosingBegun, AbortedGone, ReleaseInv, PumpSpawned, ReleaseOwed
<1>2. ReleaseInv /\ [Next]_vars => ReleaseInv'
  BY TypeStep, KeysAndLockStep, ConnStepInv, AbortedStep, ReleaseStep
  DEF ReleaseInv, LifeInv, ConnInv
<1>3. ReleaseInv => ReleaseOwed
  BY DEF ReleaseInv
<1>4. ReleaseInv /\ [Next]_vars =>
        [\A c \in aborted : /\ c \in aborted'
                            /\ c \notin manager => c \notin manager'
                            /\ pump[c] = "ended" => pump'[c] = "ended"]_vars
  BY ReleasedStep DEF ReleaseInv
<1> QED
  BY <1>1, <1>2, <1>3, <1>4, PTL DEF Spec, ReleasedForGood

\* The safety half of OrphanForwardsReaped: no stop is lost on its way to the mutex,
\* and nobody keeps the mutex from it for longer than an insert.
THEOREM OrphansOwed == Spec => []StopOwed
<1>1. ForwardInv /\ [Next]_vars => ForwardInv'
  BY TypeStep, KeysAndLockStep, CoveredStep DEF ForwardInv
<1>2. ForwardInv => StopOwed
  BY DEF ForwardInv, InHandCovered, Covered, StopOwed, OrphanForward, LockOwner,
         TypeOK
<1> QED
  BY ForwardInvInit, <1>1, <1>2, PTL DEF Spec
=============================================================================
