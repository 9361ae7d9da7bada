----------------------------- MODULE TabsProofs -----------------------------
(***************************************************************************)
(* Theorems about Tabs, for any keys, attempts and quick commands, and     *)
(* queues of any length: type correctness, no tab that waits for an answer *)
(* which nobody owes it, and no quick command typed twice.                 *)
(***************************************************************************)
EXTENDS Tabs, TLAPS

\* Facts about the two queues.
LEMMA AppendFacts ==
    ASSUME NEW T, NEW s \in Seq(T), NEW e \in T
    PROVE  /\ Append(s, e) \in Seq(T)
           /\ DOMAIN s \subseteq DOMAIN Append(s, e)
           /\ DOMAIN s = 1 .. Len(s)
           /\ DOMAIN Append(s, e) = 1 .. Len(s) + 1
           /\ \A i \in DOMAIN s : Append(s, e)[i] = s[i]
           /\ Append(s, e)[Len(s) + 1] = e
           /\ Len(s) \in Nat
OBVIOUS

LEMMA TailFacts ==
    ASSUME NEW T, NEW s \in Seq(T), s # <<>>
    PROVE  /\ Tail(s) \in Seq(T)
           /\ Head(s) = s[1]
           /\ Len(s) \in Nat \ {0}
           /\ DOMAIN s = 1 .. Len(s)
           /\ DOMAIN Tail(s) = 1 .. Len(s) - 1
           /\ \A i \in 1 .. Len(s) - 1 : Tail(s)[i] = s[i + 1]
OBVIOUS

LEMMA SendType ==
    ASSUME cmds \in Seq(Command), NEW c \in Command, Send(c)
    PROVE  cmds' \in Seq(Command)
BY AppendFacts DEF Send

LEMMA EmitType ==
    ASSUME events \in Seq(Event), NEW k \in Keys,
           NEW ev \in {"busy", "up", "error", "connected", "output", "closed"},
           Emit(ev, k)
    PROVE  events' \in Seq(Event)
<1>1. [ev |-> ev, id |-> k] \in Event
  BY DEF Event
<1> QED
  BY <1>1, AppendFacts DEF Emit

LEMMA TakeType ==
    ASSUME events \in Seq(Event), NEW k \in Keys, NEW ev, Take(ev, k)
    PROVE  events' \in Seq(Event)
BY TailFacts DEF Take

LEMMA ReceiveType ==
    ASSUME cmds \in Seq(Command), NEW c, Receive(c)
    PROVE  cmds' \in Seq(Command)
BY TailFacts DEF Receive

-----------------------------------------------------------------------------
\* What the steps of an attempt rely on: it has a key once it has begun, its
\* pump runs after its shell was opened, and it is registered before it says so.
Attempts ==
    /\ \A c \in Conns : task[c] # "idle" => key[c] \in Keys
    /\ \A c \in Conns : pump[c] # "none" => task[c] \in {"shell", "done"}
    /\ \A c \in unsaid : task[c] = "done"

TypeInv == TypeOK /\ Attempts

LEMMA TypeStep == TypeInv /\ [Next]_vars => TypeInv'
<1> SUFFICES ASSUME TypeInv, [Next]_vars PROVE TypeInv'
  OBVIOUS
<1> USE TabsAssumption DEF TypeInv, Attempts, sessionVars, scriptVars
<1>0. /\ Life!TypeOK
      /\ cmds \in Seq(Command)
      /\ events \in Seq(Event)
  BY DEF TypeOK
<1>1. CASE UNCHANGED vars
  BY <1>1 DEF vars, TypeOK, Life!TypeOK
<1>2. CASE UserStep
  <2>1. ASSUME NEW k \in Keys, OpenTab(k) \/ CloseTab(k) PROVE TypeInv'
    <3>1. Connect(k) \in Command /\ Disconnect(k) \in Command
      BY DEF Command, Connect, Disconnect
    <3>2. cmds' \in Seq(Command)
      BY <2>1, <3>1, <1>0, SendType DEF OpenTab, CloseTab
    <3>3. tab' \in [Keys -> TabStates]
      BY <2>1 DEF OpenTab, CloseTab, TypeOK, TabStates
    <3>4. UNCHANGED <<sessionVars, unsaid, events, pending, timers, asked, ran>>
      BY <2>1 DEF OpenTab, CloseTab
    <3> QED
      BY <3>2, <3>3, <3>4 DEF TypeOK, Life!TypeOK
  <2>2. ASSUME NEW k \in Keys, NEW q \in Runs,
               RunOnLive(k, q) \/ RunDeferred(k, q)
        PROVE  TypeInv'
    <3>1. Connect(k) \in Command /\ Input(k, q) \in Command
      BY DEF Command, Connect, Input
    <3>2. cmds' \in Seq(Command)
      BY <2>2, <3>1, <1>0, SendType DEF RunOnLive, RunDeferred
    <3>3. tab' \in [Keys -> TabStates]
      BY <2>2 DEF RunOnLive, RunDeferred, TypeOK, TabStates
    <3>4. /\ asked' \in SUBSET Runs
          /\ pending' \in [Keys -> Runs \cup {None}]
      BY <2>2 DEF RunOnLive, RunDeferred, TypeOK
    <3>5. UNCHANGED <<sessionVars, unsaid, events, timers, ran>>
      BY <2>2 DEF RunOnLive, RunDeferred
    <3> QED
      BY <3>2, <3>3, <3>4, <3>5 DEF TypeOK, Life!TypeOK
  <2> QED
    BY <1>2, <2>1, <2>2 DEF UserStep
<1>3. CASE ScriptStep
  <2>1. ASSUME NEW k \in Keys, NEW q \in Runs, TimerFires(k, q)
        PROVE  TypeInv'
    <3>1. Input(k, q) \in Command
      BY DEF Command, Input
    <3>2. cmds' \in Seq(Command)
      BY <2>1, <3>1, <1>0, SendType DEF TimerFires
    <3> QED
      BY <2>1, <3>2 DEF TimerFires, TypeOK, Life!TypeOK
  <2>2. ASSUME NEW k \in Keys,
               OnOutput(k) \/ OnConnected(k) \/ OnState(k) \/ OnClosed(k)
        PROVE  TypeInv'
    <3>1. events' \in Seq(Event)
      BY <2>2, <1>0, TakeType DEF OnOutput, OnConnected, OnState, OnClosed
    <3>2. UNCHANGED <<sessionVars, unsaid, cmds, asked, ran>>
      BY <2>2 DEF OnOutput, OnConnected, OnState, OnClosed, Take
    <3>3. tab' \in [Keys -> TabStates]
      BY <2>2 DEF OnOutput, OnConnected, OnState, OnClosed, TypeOK, TabStates
    <3>4. /\ pending' \in [Keys -> Runs \cup {None}]
          /\ timers' \in SUBSET (Keys \X Runs)
      BY <2>2 DEF OnOutput, OnConnected, OnState, OnClosed, TypeOK
    <3> QED
      BY <3>1, <3>2, <3>3, <3>4 DEF TypeOK, Life!TypeOK
  <2> QED
    BY <1>3, <2>1, <2>2 DEF ScriptStep
<1>4. CASE LoopStep
  <2>1. ASSUME NEW k \in Keys, ConnectSwitches(k) \/ ConnectUnresolved(k)
        PROVE  TypeInv'
    <3>1. cmds' \in Seq(Command)
      BY <2>1, <1>0, ReceiveType DEF ConnectSwitches, ConnectUnresolved
    <3>2. events' \in Seq(Event)
      BY <2>1, <1>0, EmitType DEF ConnectSwitches, ConnectUnresolved
    <3> QED
      BY <2>1, <3>1, <3>2
      DEF ConnectSwitches, ConnectUnresolved, TypeOK, Life!TypeOK
  <2>2. ASSUME NEW k \in Keys,
               \/ ConnectSpawns(k)
               \/ ConnectUnknown(k)
               \/ DisconnectHandled(k)
        PROVE  TypeInv'
    <3>1. cmds' \in Seq(Command)
      BY <2>2, <1>0, ReceiveType
      DEF ConnectSpawns, ConnectUnknown, DisconnectHandled
    <3>2. UNCHANGED <<unsaid, events, scriptVars, ran>>
      BY <2>2 DEF ConnectSpawns, ConnectUnknown, DisconnectHandled
    <3>3. CASE \E c \in Conns : Life!Begin(k, c)
      <4>1. PICK c \in Conns : Life!Begin(k, c)
        BY <3>3
      <4>2. Life!TypeOK' /\ Attempts'
        BY <3>2, <4>1, <1>0 DEF Life!Begin, Life!TypeOK, TypeOK
      <4> QED
        BY <3>1, <3>2, <4>2 DEF TypeOK
    <3>4. CASE Life!Drop(k)
      <4>1. Life!TypeOK' /\ Attempts'
        BY <3>2, <3>4, <1>0 DEF Life!Drop, Life!TypeOK
      <4> QED
        BY <3>1, <3>2, <4>1 DEF TypeOK
    <3>5. CASE UNCHANGED sessionVars
      BY <3>1, <3>2, <3>5 DEF TypeOK, Life!TypeOK
    <3> QED
      BY <2>2, <3>3, <3>4, <3>5
      DEF ConnectSpawns, ConnectUnknown, DisconnectHandled
  <2>3. ASSUME NEW k \in Keys, NEW q \in Runs, TypeInput(k, q)
        PROVE  TypeInv'
    <3>1. cmds' \in Seq(Command)
      BY <2>3, <1>0, ReceiveType DEF TypeInput
    <3>2. ran' \in [Runs -> Nat]
      BY <2>3 DEF TypeInput, TypeOK
    <3> QED
      BY <2>3, <3>1, <3>2 DEF TypeInput, TypeOK, Life!TypeOK
  <2> QED
    BY <1>4, <2>1, <2>2, <2>3 DEF LoopStep
<1>5. ASSUME NEW c \in Conns, ConnStep(c) PROVE TypeInv'
  <2>1. CASE Progress(c) \/ Output(c) \/ SayConnected(c)
    <3>1. key[c] \in Keys
      BY <2>1 DEF Progress, Output, SayConnected
    <3>2. events' \in Seq(Event)
      BY <2>1, <3>1, <1>0, EmitType DEF Progress, Output, SayConnected
    <3> QED
      BY <2>1, <3>2 DEF Progress, Output, SayConnected, TypeOK, Life!TypeOK
  <2>2. CASE ConnectOk(c) \/ AttemptFails(c) \/ PumpReports(c)
    <3>1. key[c] \in Keys
      BY <2>2 DEF ConnectOk, AttemptFails, PumpReports, Life!Up, Life!Fail,
                  Life!Report
    <3>2. events' \in Seq(Event)
      BY <2>2, <3>1, <1>0, EmitType DEF ConnectOk, AttemptFails, PumpReports
    <3>3. UNCHANGED <<unsaid, cmds, scriptVars, ran>>
      BY <2>2 DEF ConnectOk, AttemptFails, PumpReports
    <3>4. CASE Life!Up(c)
      <4>1. Life!TypeOK' /\ Attempts'
        BY <3>3, <3>4, <1>0 DEF Life!Up, Life!TypeOK, TypeOK
      <4> QED
        BY <3>2, <3>3, <4>1 DEF TypeOK
    <3>5. CASE Life!Fail(c)
      <4>1. Life!TypeOK' /\ Attempts'
        BY <3>3, <3>5, <1>0 DEF Life!Fail, Life!TypeOK, TypeOK
      <4> QED
        BY <3>2, <3>3, <4>1 DEF TypeOK
    <3>6. CASE Life!Report(c)
      <4>1. Life!TypeOK' /\ Attempts'
        BY <3>3, <3>6, <1>0 DEF Life!Report, Life!TypeOK, TypeOK
      <4> QED
        BY <3>2, <3>3, <4>1 DEF TypeOK
    <3> QED
      BY <2>2, <3>4, <3>5, <3>6 DEF ConnectOk, AttemptFails, PumpReports
  <2>3. CASE Register(c)
    <3>1. Life!TypeOK' /\ Attempts'
      BY <2>3, <1>0 DEF Register, Life!Register, Life!TypeOK
    <3> QED
      BY <2>3, <3>1 DEF Register, TypeOK
  <2>4. CASE SilentStep(c)
    <3>1. UNCHANGED <<unsaid, cmds, events, scriptVars, ran>>
      BY <2>4 DEF SilentStep
    <3>2. CASE Life!Open(c)
      BY <3>1, <3>2 DEF Life!Open, TypeOK, Life!TypeOK
    <3>3. CASE Life!End(c)
      BY <3>1, <3>3 DEF Life!End, TypeOK, Life!TypeOK
    <3>4. CASE Life!Quiet(c)
      BY <3>1, <3>4 DEF Life!Quiet, TypeOK, Life!TypeOK
    <3> QED
      BY <2>4, <3>2, <3>3, <3>4 DEF SilentStep
  <2> QED
    BY <1>5, <2>1, <2>2, <2>3, <2>4 DEF ConnStep
<1> QED
  BY <1>1, <1>2, <1>3, <1>4, <1>5 DEF Next

LEMMA TypeInit == Init => TypeInv
BY TabsAssumption
DEF Init, Life!Init, TypeInv, TypeOK, Life!TypeOK, Attempts, TabStates

\* The variables keep the types the code gives them.
THEOREM TypeCorrect == Spec => []TypeOK
<1>1. TypeInv => TypeOK
  BY DEF TypeInv
<1> QED
  BY <1>1, TypeInit, TypeStep, PTL DEF Spec

-----------------------------------------------------------------------------
\* Why NoTabForgotten holds.  A tab that waits is not enough to argue with: a
\* "busy" of an older attempt can make it wait again after its own answer was
\* read.  So every "busy" on its way must be followed by an answer too.
Requested(k) == \E i \in DOMAIN cmds : cmds[i] = Connect(k)

InFlight(k) ==
    \E c \in Conns :
        /\ key[c] = k
        /\ task[c] \in {"connecting", "opening", "shell"} \/ c \in unsaid

AnswerAfter(i, k) ==
    \/ InFlight(k)
    \/ \E j \in DOMAIN events :
          j > i /\ events[j].id = k /\ events[j].ev \notin {"busy", "output"}

BusyAnswered(k) ==
    \A i \in DOMAIN events :
        events[i] = [ev |-> "busy", id |-> k] => AnswerAfter(i, k)

WaitAnswered(k) == tab[k] = "waiting" => Requested(k) \/ AnswerAfter(0, k)

TabInv ==
    /\ TypeInv
    /\ \A k \in Keys : BusyAnswered(k)
    /\ \A k \in Hosts : WaitAnswered(k)

LEMMA SendRequests ==
    ASSUME cmds \in Seq(Command), NEW c \in Command, Send(c), NEW k \in Keys
    PROVE  /\ Requested(k) => Requested(k)'
           /\ c = Connect(k) => Requested(k)'
<1>1. cmds' = Append(cmds, c)
  BY DEF Send
<1>2. /\ DOMAIN cmds \subseteq DOMAIN cmds'
      /\ \A i \in DOMAIN cmds : cmds'[i] = cmds[i]
      /\ Len(cmds) + 1 \in DOMAIN cmds'
      /\ cmds'[Len(cmds) + 1] = c
  BY <1>1, AppendFacts
<1> QED
  BY <1>2 DEF Requested, Connect

LEMMA ReceiveRequests ==
    ASSUME cmds \in Seq(Command), NEW c, Receive(c), NEW k, c # Connect(k),
           Requested(k)
    PROVE  Requested(k)'
<1>1. PICK i \in DOMAIN cmds : cmds[i] = Connect(k)
  BY DEF Requested
<1>2. i \in 1 .. Len(cmds) /\ i # 1 /\ Len(cmds) \in Nat
  BY <1>1, TailFacts DEF Receive
<1>3. i - 1 \in DOMAIN cmds' /\ cmds'[i - 1] = cmds[i]
  BY <1>2, TailFacts DEF Receive
<1> QED
  BY <1>1, <1>3 DEF Requested, Connect

\* What is owed stays owed when an event is emitted, an answer pays for all
\* that was emitted before it, and a "busy" needs an attempt under way.
LEMMA EmitAnswers ==
    ASSUME events \in Seq(Event), NEW k \in Keys, NEW h \in Keys, NEW ev,
           ev \in {"busy", "up", "error", "connected", "output", "closed"},
           Emit(ev, h),
           InFlight(k) => InFlight(k)' \/ (h = k /\ ev \notin {"busy", "output"}),
           h = k /\ ev = "busy" => InFlight(k)',
           BusyAnswered(k)
    PROVE  /\ BusyAnswered(k)'
           /\ AnswerAfter(0, k) => AnswerAfter(0, k)'
           /\ h = k /\ ev \notin {"busy", "output"} => AnswerAfter(0, k)'
<1> DEFINE e == [ev |-> ev, id |-> h]
           n == Len(events) + 1
<1>1. /\ DOMAIN events = 1 .. Len(events)
      /\ Len(events) \in Nat
      /\ DOMAIN events' = 1 .. n
      /\ \A i \in DOMAIN events : events'[i] = events[i]
      /\ events'[n] = e
  <2>1. e \in Event
    BY DEF Event
  <2> QED
    BY <2>1, AppendFacts DEF Emit
<1>2. h = k /\ ev \notin {"busy", "output"}
      => \A i \in 0 .. Len(events) : AnswerAfter(i, k)'
  BY <1>1 DEF AnswerAfter
<1>3. \A i \in 0 .. Len(events) : AnswerAfter(i, k) => AnswerAfter(i, k)'
  <2> SUFFICES ASSUME NEW i \in 0 .. Len(events), AnswerAfter(i, k)
               PROVE  AnswerAfter(i, k)'
    OBVIOUS
  <2>1. CASE InFlight(k)
    BY <2>1, <1>2 DEF AnswerAfter
  <2>2. ASSUME NEW j \in DOMAIN events, j > i, events[j].id = k,
               events[j].ev \notin {"busy", "output"}
        PROVE  AnswerAfter(i, k)'
    <3>1. j \in DOMAIN events' /\ events'[j] = events[j]
      BY <1>1
    <3> QED
      BY <3>1, <2>2 DEF AnswerAfter
  <2> QED
    BY <2>1, <2>2 DEF AnswerAfter
<1>4. BusyAnswered(k)'
  <2> SUFFICES ASSUME NEW i \in DOMAIN events',
                      events'[i] = [ev |-> "busy", id |-> k]
               PROVE  AnswerAfter(i, k)'
    BY DEF BusyAnswered
  <2>1. CASE i = n
    BY <2>1, <1>1 DEF AnswerAfter
  <2>2. CASE i # n
    <3>1. i \in DOMAIN events /\ i \in 0 .. Len(events)
      BY <2>2, <1>1
    <3> QED
      BY <3>1, <1>1, <1>3 DEF BusyAnswered
  <2> QED
    BY <2>1, <2>2
<1> QED
  BY <1>1, <1>2, <1>3, <1>4

\* Reading an event leaves what was owed after it, one place nearer.
LEMMA TakeAnswers ==
    ASSUME events \in Seq(Event), NEW k \in Keys, NEW h, NEW ev, Take(ev, h),
           BusyAnswered(k)
    PROVE  /\ BusyAnswered(k)'
           /\ AnswerAfter(0, k) /\ (h = k => ev \in {"busy", "output"})
              => AnswerAfter(0, k)'
           /\ h = k /\ ev = "busy" => AnswerAfter(0, k)'
<1>1. /\ DOMAIN events = 1 .. Len(events)
      /\ Len(events) \in Nat \ {0}
      /\ DOMAIN events' = 1 .. Len(events) - 1
      /\ \A i \in 1 .. Len(events) - 1 : events'[i] = events[i + 1]
      /\ events[1] = [ev |-> ev, id |-> h]
  BY TailFacts DEF Take
<1>2. InFlight(k) => InFlight(k)'
  BY DEF Take, InFlight, sessionVars
<1>3. ASSUME NEW i \in Nat, AnswerAfter(i + 1, k) PROVE AnswerAfter(i, k)'
  <2>1. CASE InFlight(k)
    BY <2>1, <1>2 DEF AnswerAfter
  <2>2. ASSUME NEW j \in DOMAIN events, j > i + 1, events[j].id = k,
               events[j].ev \notin {"busy", "output"}
        PROVE  AnswerAfter(i, k)'
    <3>1. /\ j - 1 \in DOMAIN events'
          /\ j - 1 > i
          /\ events'[j - 1] = events[j]
      BY <2>2, <1>1
    <3> QED
      BY <3>1, <2>2 DEF AnswerAfter
  <2> QED
    BY <1>3, <2>1, <2>2 DEF AnswerAfter
<1>4. BusyAnswered(k)'
  <2> SUFFICES ASSUME NEW i \in DOMAIN events',
                      events'[i] = [ev |-> "busy", id |-> k]
               PROVE  AnswerAfter(i, k)'
    BY DEF BusyAnswered
  <2>1. i \in Nat /\ i + 1 \in DOMAIN events /\ events'[i] = events[i + 1]
    BY <1>1
  <2> QED
    BY <2>1, <1>3 DEF BusyAnswered
<1>5. AnswerAfter(0, k) /\ (h = k => ev \in {"busy", "output"})
      => AnswerAfter(0 + 1, k)
  BY <1>1 DEF AnswerAfter
<1>6. h = k /\ ev = "busy" => AnswerAfter(0 + 1, k)
  BY <1>1 DEF BusyAnswered
<1> QED
  BY <1>3, <1>4, <1>5, <1>6

\* Nothing is lost in a step that emits and reads nothing.
LEMMA SilenceAnswers ==
    ASSUME NEW k, events' = events, InFlight(k) => InFlight(k)',
           BusyAnswered(k)
    PROVE  /\ BusyAnswered(k)'
           /\ AnswerAfter(0, k) => AnswerAfter(0, k)'
BY DEF BusyAnswered, AnswerAfter

-----------------------------------------------------------------------------
Answered(k) == BusyAnswered(k) /\ (k \in Hosts => WaitAnswered(k))

LEMMA TabStep == TabInv /\ [Next]_vars => TabInv'
<1> SUFFICES ASSUME TabInv, [Next]_vars PROVE TabInv'
  OBVIOUS
<1>0. /\ TypeInv
      /\ Hosts \subseteq Keys
      /\ cmds \in Seq(Command)
      /\ events \in Seq(Event)
      /\ \A c \in Conns : task[c] # "idle" => key[c] \in Keys
      /\ task \in [Conns -> {"idle", "connecting", "opening", "shell", "done",
                             "failed"}]
      /\ key \in [Conns -> Keys \cup {None}]
      /\ unsaid \subseteq Conns
      /\ tab \in [Keys -> TabStates]
      /\ \A c \in unsaid : task[c] = "done"
      /\ \A c \in Conns : pump[c] # "none" => task[c] # "idle"
  BY TabsAssumption DEF TabInv, TypeInv, TypeOK, Attempts, Life!TypeOK
<1> SUFFICES ASSUME NEW k \in Keys PROVE Answered(k)'
  BY <1>0, TypeStep DEF TabInv, Answered
<1>1. BusyAnswered(k) /\ (k \in Hosts => WaitAnswered(k))
  BY DEF TabInv
<1>2. CASE UNCHANGED vars
  <2>1. BusyAnswered(k)' /\ (AnswerAfter(0, k) => AnswerAfter(0, k)')
    BY <1>1, <1>2, SilenceAnswers DEF vars, InFlight, sessionVars
  <2> QED
    BY <1>1, <1>2, <2>1
    DEF vars, scriptVars, Answered, WaitAnswered, Requested
<1>3. CASE UserStep \/ \E h \in Keys, q \in Runs : TimerFires(h, q)
  <2>1. UNCHANGED <<sessionVars, unsaid, events>>
    BY <1>3 DEF UserStep, OpenTab, CloseTab, RunOnLive, RunDeferred, TimerFires
  <2>2. BusyAnswered(k)' /\ (AnswerAfter(0, k) => AnswerAfter(0, k)')
    BY <1>1, <2>1, SilenceAnswers DEF InFlight, sessionVars
  <2>3. \A h \in Keys, q \in Runs :
           {Connect(h), Disconnect(h), Input(h, q)} \subseteq Command
    BY DEF Command, Connect, Disconnect, Input
  <2>4. \A h \in Keys : {Connect(h), Disconnect(h)} \subseteq Command
    BY DEF Command, Connect, Disconnect
  <2>5. Requested(k) => Requested(k)'
    <3>1. cmds' = cmds \/ \E c \in Command : Send(c)
      BY <1>3, <2>3, <2>4
      DEF UserStep, OpenTab, CloseTab, RunOnLive, RunDeferred, TimerFires
    <3> QED
      BY <1>0, <3>1, SendRequests DEF Requested
  <2>6. tab'[k] = "waiting" => tab[k] = "waiting" \/ Requested(k)'
    <3>1. ASSUME NEW h \in Keys, OpenTab(h) \/ CloseTab(h)
          PROVE  tab'[k] = "waiting" => tab[k] = "waiting" \/ Requested(k)'
      BY <1>0, <3>1, <2>4, SendRequests DEF OpenTab, CloseTab
    <3>2. ASSUME NEW h \in Keys, NEW q \in Runs,
                 \/ RunOnLive(h, q) \/ RunDeferred(h, q) \/ TimerFires(h, q)
          PROVE  tab'[k] = "waiting" => tab[k] = "waiting" \/ Requested(k)'
      BY <1>0, <3>2, <2>4, SendRequests DEF RunOnLive, RunDeferred, TimerFires
    <3> QED
      BY <1>3, <3>1, <3>2 DEF UserStep
  <2> QED
    BY <1>1, <2>2, <2>5, <2>6 DEF Answered, WaitAnswered
<1>4. ASSUME NEW h \in Keys,
             OnOutput(h) \/ OnConnected(h) \/ OnState(h) \/ OnClosed(h)
      PROVE  Answered(k)'
  <2>1. PICK ev : /\ Take(ev, h)
                  /\ tab'[k] = "waiting" =>
                        \/ tab[k] = "waiting"
                           /\ (h = k => ev \in {"busy", "output"})
                        \/ h = k /\ ev = "busy"
    BY <1>0, <1>4 DEF OnOutput, OnConnected, OnState, OnClosed
  <2>2. /\ BusyAnswered(k)'
        /\ AnswerAfter(0, k) /\ (h = k => ev \in {"busy", "output"})
           => AnswerAfter(0, k)'
        /\ h = k /\ ev = "busy" => AnswerAfter(0, k)'
    BY <1>0, <1>1, <2>1, TakeAnswers
  <2>3. Requested(k) => Requested(k)'
    BY <2>1 DEF Take, Requested
  <2> QED
    BY <1>1, <2>1, <2>2, <2>3 DEF Answered, WaitAnswered
<1>5. CASE LoopStep
  <2>1. ASSUME NEW h \in Keys, ConnectSwitches(h) \/ ConnectUnresolved(h)
        PROVE  Answered(k)'
    <3>1. PICK ev \in {"connected", "error"} : Emit(ev, h)
      BY <2>1 DEF ConnectSwitches, ConnectUnresolved
    <3>2. UNCHANGED <<sessionVars, unsaid, tab>>
      BY <2>1 DEF ConnectSwitches, ConnectUnresolved, scriptVars
    <3>3. InFlight(k) => InFlight(k)'
      BY <3>2 DEF InFlight, sessionVars
    <3>4. /\ BusyAnswered(k)'
          /\ AnswerAfter(0, k) => AnswerAfter(0, k)'
          /\ h = k => AnswerAfter(0, k)'
      BY <1>0, <1>1, <3>1, <3>3, EmitAnswers
    <3>5. h # k /\ Requested(k) => Requested(k)'
      <4>1. Receive(Connect(h))
        BY <2>1 DEF ConnectSwitches, ConnectUnresolved
      <4>2. h # k => Connect(h) # Connect(k)
        BY DEF Connect
      <4> QED
        BY <1>0, <4>1, <4>2, ReceiveRequests
    <3> QED
      BY <1>1, <3>2, <3>4, <3>5 DEF Answered, WaitAnswered
  <2>2. ASSUME NEW h \in Keys, ConnectSpawns(h) PROVE Answered(k)'
    <3>1. PICK c \in Conns : Life!Begin(h, c)
      BY <2>2 DEF ConnectSpawns
    <3>2. UNCHANGED <<unsaid, events, tab>> /\ Receive(Connect(h))
      BY <2>2 DEF ConnectSpawns, scriptVars
    <3>3. InFlight(k) => InFlight(k)'
      <4>1. \A d \in Conns \ {c} : task'[d] = task[d] /\ key'[d] = key[d]
        BY <1>0, <3>1 DEF Life!Begin
      <4>2. task[c] = "idle" /\ c \notin unsaid
        BY <1>0, <3>1 DEF Life!Begin
      <4> QED
        BY <3>2, <4>1, <4>2 DEF InFlight
    <3>4. h = k => InFlight(k)'
      BY <1>0, <3>1 DEF Life!Begin, InFlight
    <3>5. BusyAnswered(k)' /\ (AnswerAfter(0, k) => AnswerAfter(0, k)')
      BY <1>1, <3>2, <3>3, SilenceAnswers
    <3>6. h # k /\ Requested(k) => Requested(k)'
      <4>1. h # k => Connect(h) # Connect(k)
        BY DEF Connect
      <4> QED
        BY <1>0, <3>2, <4>1, ReceiveRequests
    <3> QED
      BY <1>1, <3>2, <3>4, <3>5, <3>6 DEF Answered, WaitAnswered, AnswerAfter
  <2>3. ASSUME NEW h \in Keys, NEW c,
               /\ Receive(c)
               /\ k \in Hosts => c # Connect(k)
               /\ UNCHANGED <<key, task, unsaid, events, tab>>
        PROVE  Answered(k)'
    <3>1. BusyAnswered(k)' /\ (AnswerAfter(0, k) => AnswerAfter(0, k)')
      BY <1>1, <2>3, SilenceAnswers DEF InFlight
    <3>2. k \in Hosts /\ Requested(k) => Requested(k)'
      BY <1>0, <2>3, ReceiveRequests
    <3> QED
      BY <1>1, <2>3, <3>1, <3>2 DEF Answered, WaitAnswered
  <2>4. ASSUME NEW h \in Keys, ConnectUnknown(h) PROVE Answered(k)'
    <3>1. k \in Hosts => Connect(h) # Connect(k)
      BY <2>4 DEF ConnectUnknown, Connect
    <3> QED
      BY <2>3, <2>4, <3>1 DEF ConnectUnknown, sessionVars, scriptVars
  <2>5. ASSUME NEW h \in Keys, DisconnectHandled(h) PROVE Answered(k)'
    <3>1. Disconnect(h) # Connect(k)
      BY DEF Disconnect, Connect
    <3> QED
      BY <2>3, <2>5, <3>1 DEF DisconnectHandled, Life!Drop, scriptVars
  <2>6. ASSUME NEW h \in Keys, NEW q \in Runs, TypeInput(h, q)
        PROVE  Answered(k)'
    <3>1. Input(h, q) # Connect(k)
      BY DEF Input, Connect
    <3> QED
      BY <2>3, <2>6, <3>1 DEF TypeInput, sessionVars, scriptVars
  <2> QED
    BY <1>5, <2>1, <2>2, <2>4, <2>5, <2>6 DEF LoopStep
<1>6. ASSUME NEW c \in Conns, ConnStep(c) PROVE Answered(k)'
  <2>1. /\ tab' = tab
        /\ Requested(k) => Requested(k)'
    BY <1>6 DEF ConnStep, Progress, ConnectOk, AttemptFails, Register,
                SayConnected, Output, PumpReports, SilentStep, scriptVars,
                Requested
  <2>2. SUFFICES /\ BusyAnswered(k)'
                 /\ AnswerAfter(0, k) => AnswerAfter(0, k)'
    BY <1>1, <2>1 DEF Answered, WaitAnswered
  <2>3. \A d \in Conns \ {c} :
           /\ task'[d] = task[d] /\ key'[d] = key[d]
           /\ d \in unsaid => d \in unsaid'
    BY <1>0, <1>6
    DEF ConnStep, Progress, ConnectOk, AttemptFails, Register, SayConnected,
        Output, PumpReports, SilentStep, sessionVars, Life!Up, Life!Fail,
        Life!Open, Life!Register, Life!End, Life!Report, Life!Quiet
  <2>4. CASE Progress(c) \/ Output(c) \/ PumpReports(c)
    <3>1. UNCHANGED <<key, task, unsaid>>
      BY <2>4 DEF Progress, Output, PumpReports, sessionVars, Life!Report
    <3>2. PICK ev \in {"busy", "output", "closed"} :
             /\ Emit(ev, key[c])
             /\ ev = "busy" => task[c] = "connecting"
      BY <2>4 DEF Progress, Output, PumpReports
    <3>3. key[c] \in Keys
      BY <1>0, <2>4 DEF Progress, Output, PumpReports, Life!Report
    <3>4. /\ InFlight(k) => InFlight(k)'
          /\ key[c] = k /\ ev = "busy" => InFlight(k)'
      BY <3>1, <3>2 DEF InFlight
    <3> QED
      BY <1>0, <1>1, <3>2, <3>3, <3>4, EmitAnswers
  <2>5. CASE ConnectOk(c) \/ AttemptFails(c) \/ SayConnected(c)
    <3>1. PICK ev \in {"up", "error", "connected"} : Emit(ev, key[c])
      BY <2>5 DEF ConnectOk, AttemptFails, SayConnected
    <3>2. key[c] \in Keys /\ key' = key
      BY <1>0, <2>5
      DEF ConnectOk, AttemptFails, SayConnected, sessionVars, Life!Up,
          Life!Fail
    <3>3. InFlight(k) => InFlight(k)' \/ key[c] = k
      BY <2>3 DEF InFlight
    <3> QED
      BY <1>0, <1>1, <3>1, <3>2, <3>3, EmitAnswers
  <2>6. CASE Register(c) \/ SilentStep(c)
    <3>1. events' = events /\ key' = key
      BY <2>6 DEF Register, SilentStep, Life!Register, Life!Open, Life!End,
                  Life!Quiet
    <3>2. task[c] \in {"connecting", "opening", "shell"} \/ c \in unsaid
          => task'[c] \in {"connecting", "opening", "shell"} \/ c \in unsaid'
      BY <1>0, <2>6 DEF Register, SilentStep, Life!Register, Life!Open,
                  Life!End, Life!Quiet
    <3>3. InFlight(k) => InFlight(k)'
      BY <2>3, <3>1, <3>2 DEF InFlight
    <3> QED
      BY <1>1, <3>1, <3>3, SilenceAnswers
  <2> QED
    BY <1>6, <2>4, <2>5, <2>6 DEF ConnStep
<1> QED
  BY <1>2, <1>3, <1>4, <1>5, <1>6 DEF Next, ScriptStep

\* No tab of a host waits for an answer that nobody owes it, however tabs are
\* closed and opened again while the news of older sessions is on its way.
THEOREM NoTabIsForgotten == Spec => []NoTabForgotten
<1>1. Init => TabInv
  BY TypeInit, TabsAssumption
  DEF Init, TabInv, BusyAnswered, WaitAnswered
<1>2. TabInv => NoTabForgotten
  <2> SUFFICES ASSUME TabInv, NEW k \in Hosts, tab[k] = "waiting"
               PROVE  AnswerOwed(k)
    BY DEF NoTabForgotten
  <2>1. Requested(k) \/ AnswerAfter(0, k)
    BY DEF TabInv, WaitAnswered
  <2> QED
    BY <2>1 DEF AnswerOwed, Requested, AnswerAfter, InFlight
<1> QED
  BY <1>1, <1>2, TabStep, PTL DEF Spec

-----------------------------------------------------------------------------
\* Why CommandOnce holds: a run is in one place at most.  It waits for one key's
\* "connected", or for one timer, or is one command under way, or was typed; and
\* before the user asks for it, it is nowhere.
Waiting(q) == {k \in Keys : pending[k] = q}
Timed(q) == {k \in Keys : <<k, q>> \in timers}
Types(c, q) == \E k \in Keys : c = Input(k, q)
Sent(q) == {i \in DOMAIN cmds : Types(cmds[i], q)}
AtMostOne(S) == \A a, b \in S : a = b

OneCopy(q) ==
    /\ AtMostOne(Waiting(q)) /\ AtMostOne(Timed(q)) /\ AtMostOne(Sent(q))
    /\ ran[q] <= 1
    /\ Waiting(q) # {} => Timed(q) = {} /\ Sent(q) = {} /\ ran[q] = 0
    /\ Timed(q) # {} => Sent(q) = {} /\ ran[q] = 0
    /\ Sent(q) # {} => ran[q] = 0
    /\ q \notin asked =>
         Waiting(q) = {} /\ Timed(q) = {} /\ Sent(q) = {} /\ ran[q] = 0

CopyInv == TypeInv /\ \A q \in Runs : OneCopy(q)

LEMMA InputCopies ==
    /\ \A k, h \in Keys, q, r \in Runs : Input(k, q) = Input(h, r) => k = h /\ q = r
    /\ \A k \in Keys, q \in Runs : Types(Input(k, q), q)
    /\ \A k \in Keys, q, r \in Runs : Types(Input(k, q), r) => r = q
    /\ \A k \in Keys, q \in Runs : ~Types(Connect(k), q) /\ ~Types(Disconnect(k), q)
<1>1. \A k, h \in Keys, q, r \in Runs : Input(k, q) = Input(h, r) => k = h /\ q = r
  BY DEF Input
<1>2. \A k, h \in Keys, q \in Runs :
         Connect(k) # Input(h, q) /\ Disconnect(k) # Input(h, q)
  BY DEF Input, Connect, Disconnect
<1> QED
  BY <1>1, <1>2 DEF Types

\* A command sent is one more place for what it types, and for nothing else.
LEMMA SendCopies ==
    ASSUME cmds \in Seq(Command), NEW c \in Command, Send(c), NEW q
    PROVE  \A i \in Sent(q)' : i \in Sent(q) \/ (i = Len(cmds) + 1 /\ Types(c, q))
<1>1. cmds' = Append(cmds, c)
  BY DEF Send
<1>2. /\ DOMAIN cmds' = 1 .. Len(cmds) + 1
      /\ DOMAIN cmds = 1 .. Len(cmds) /\ Len(cmds) \in Nat
      /\ \A i \in DOMAIN cmds : cmds'[i] = cmds[i]
      /\ cmds'[Len(cmds) + 1] = c
  BY <1>1, AppendFacts
<1>3. ASSUME NEW i \in Sent(q)'
      PROVE  i \in Sent(q) \/ (i = Len(cmds) + 1 /\ Types(c, q))
  <2>1. i \in DOMAIN cmds' /\ Types(cmds'[i], q)
    BY <1>3 DEF Sent, Types
  <2>2. i \in DOMAIN cmds \/ i = Len(cmds) + 1
    BY <1>2, <2>1
  <2> QED
    BY <1>2, <2>1, <2>2 DEF Sent
<1> QED
  BY <1>3

\* A command taken moves the others one place nearer, and what it types is the first.
LEMMA ReceiveCopies ==
    ASSUME cmds \in Seq(Command), NEW c, Receive(c), NEW q
    PROVE  /\ \A i \in Sent(q)' : i \in Nat /\ i + 1 \in Sent(q) /\ i + 1 # 1
           /\ Types(c, q) => 1 \in Sent(q)
<1>1. /\ cmds # <<>> /\ cmds' = Tail(cmds) /\ c = Head(cmds)
  BY DEF Receive
<1>2. /\ DOMAIN cmds = 1 .. Len(cmds) /\ Len(cmds) \in Nat \ {0}
      /\ DOMAIN cmds' = 1 .. Len(cmds) - 1
      /\ \A i \in 1 .. Len(cmds) - 1 : cmds'[i] = cmds[i + 1]
      /\ c = cmds[1]
  BY <1>1, TailFacts
<1>3. ASSUME NEW i \in Sent(q)' PROVE i \in Nat /\ i + 1 \in Sent(q) /\ i + 1 # 1
  <2>1. i \in DOMAIN cmds' /\ Types(cmds'[i], q)
    BY <1>3 DEF Sent, Types
  <2>2. i \in 1 .. Len(cmds) - 1 /\ i + 1 \in DOMAIN cmds
    BY <1>2, <2>1
  <2> QED
    BY <1>2, <2>1, <2>2 DEF Sent
<1>4. Types(c, q) => 1 \in Sent(q)
  BY <1>2 DEF Sent
<1> QED
  BY <1>3, <1>4

\* A step that leaves a run where it is, or takes it away.
LEMMA NoNewCopy ==
    ASSUME NEW q \in Runs, OneCopy(q), ran'[q] = ran[q], asked \subseteq asked',
           Waiting(q)' \subseteq Waiting(q), Timed(q)' \subseteq Timed(q),
           AtMostOne(Sent(q)'), Sent(q)' # {} => Sent(q) # {}
    PROVE  OneCopy(q)'
<1>1. AtMostOne(Waiting(q)') /\ AtMostOne(Timed(q)')
  BY DEF OneCopy, AtMostOne
<1> QED
  BY <1>1 DEF OneCopy, AtMostOne

\* So it is, for the run's commands, when one is taken or another one is sent.
LEMMA SentStays ==
    ASSUME cmds \in Seq(Command), NEW q \in Runs, OneCopy(q),
           \/ UNCHANGED cmds
           \/ \E c \in Command : Send(c) /\ ~Types(c, q)
           \/ \E c : Receive(c)
    PROVE  AtMostOne(Sent(q)') /\ (Sent(q)' # {} => Sent(q) # {})
<1>a. AtMostOne(Sent(q))
  BY DEF OneCopy
<1>1. CASE UNCHANGED cmds
  <2>1. Sent(q)' = Sent(q)
    BY <1>1 DEF Sent, Types
  <2> QED
    BY <1>a, <2>1
<1>2. ASSUME NEW c \in Command, Send(c), ~Types(c, q)
      PROVE  AtMostOne(Sent(q)') /\ (Sent(q)' # {} => Sent(q) # {})
  <2>1. \A i \in Sent(q)' : i \in Sent(q)
    BY <1>2, SendCopies
  <2> QED
    BY <1>a, <2>1 DEF AtMostOne
<1>3. ASSUME NEW c, Receive(c)
      PROVE  AtMostOne(Sent(q)') /\ (Sent(q)' # {} => Sent(q) # {})
  <2>1. \A i \in Sent(q)' : i \in Nat /\ i + 1 \in Sent(q)
    BY <1>3, ReceiveCopies
  <2>2. ASSUME NEW a \in Sent(q)', NEW b \in Sent(q)' PROVE a = b
    <3>1. a + 1 = b + 1 /\ a \in Nat /\ b \in Nat
      BY <1>a, <2>1 DEF AtMostOne
    <3> QED
      BY <3>1
  <2> QED
    BY <2>1, <2>2 DEF AtMostOne
<1> QED
  BY <1>1, <1>2, <1>3

LEMMA CopyStep == CopyInv /\ [Next]_vars => CopyInv'
<1> SUFFICES ASSUME CopyInv, [Next]_vars, NEW q \in Runs PROVE OneCopy(q)'
  BY TypeStep DEF CopyInv
<1>a. /\ cmds \in Seq(Command) /\ OneCopy(q) /\ None \notin Runs
      /\ pending \in [Keys -> Runs \cup {None}]
      /\ timers \in SUBSET (Keys \X Runs)
      /\ ran \in [Runs -> Nat] /\ asked \subseteq Runs
  BY TabsAssumption DEF CopyInv, TypeInv, TypeOK
<1>b. \A k \in Keys, r \in Runs :
         /\ Connect(k) \in Command /\ Disconnect(k) \in Command
         /\ Input(k, r) \in Command
  BY DEF Command, Connect, Disconnect, Input
<1> USE DEF sessionVars, scriptVars
\* The run's place in the script stays as it is.
<1>1. ASSUME UNCHANGED <<pending, timers, asked, ran>>,
             \/ UNCHANGED cmds
             \/ \E c \in Command : Send(c) /\ ~Types(c, q)
             \/ \E c : Receive(c)
      PROVE  OneCopy(q)'
  <2>1. Waiting(q)' = Waiting(q) /\ Timed(q)' = Timed(q)
    BY <1>1 DEF Waiting, Timed
  <2>2. AtMostOne(Sent(q)') /\ (Sent(q)' # {} => Sent(q) # {})
    BY <1>a, <1>1, SentStays
  <2> QED
    BY <1>a, <1>1, <2>1, <2>2, NoNewCopy
<1>2. CASE UNCHANGED vars
  BY <1>1, <1>2 DEF vars
<1>3. ASSUME NEW k \in Keys, OpenTab(k) \/ CloseTab(k) PROVE OneCopy(q)'
  <2>1. /\ UNCHANGED <<pending, timers, asked, ran>>
        /\ Send(Connect(k)) \/ Send(Disconnect(k))
    BY <1>3 DEF OpenTab, CloseTab
  <2> QED
    BY <1>1, <1>b, <2>1, InputCopies
<1>4. ASSUME NEW k \in Keys, NEW r \in Runs, RunOnLive(k, r) PROVE OneCopy(q)'
  <2>1. /\ Send(Input(k, r)) /\ r \notin asked /\ asked' = asked \cup {r}
        /\ UNCHANGED <<pending, timers, ran>>
    BY <1>4 DEF RunOnLive
  <2>2. Waiting(q)' = Waiting(q) /\ Timed(q)' = Timed(q)
    BY <2>1 DEF Waiting, Timed
  <2>3. CASE r # q
    <3>1. AtMostOne(Sent(q)') /\ (Sent(q)' # {} => Sent(q) # {})
      BY <1>a, <1>b, <2>1, <2>3, InputCopies, SentStays
    <3> QED
      BY <1>a, <2>1, <2>2, <3>1, NoNewCopy
  <2>4. CASE r = q
    <3>1. Waiting(q) = {} /\ Timed(q) = {} /\ Sent(q) = {} /\ ran[q] = 0
      BY <1>a, <2>1, <2>4 DEF OneCopy
    <3>2. AtMostOne(Sent(q)')
      BY <1>a, <1>b, <2>1, <3>1, SendCopies DEF AtMostOne
    <3> QED
      BY <2>1, <2>2, <2>4, <3>1, <3>2 DEF OneCopy, AtMostOne
  <2> QED
    BY <2>3, <2>4
<1>5. ASSUME NEW k \in Keys, NEW r \in Runs, RunDeferred(k, r) PROVE OneCopy(q)'
  <2>1. /\ r \notin asked /\ asked' = asked \cup {r}
        /\ pending' = [pending EXCEPT ![k] = r]
        /\ UNCHANGED <<timers, ran>>
        /\ UNCHANGED cmds \/ Send(Connect(k))
    BY <1>5 DEF RunDeferred
  <2>2. Timed(q)' = Timed(q)
    BY <2>1 DEF Timed
  <2>3. AtMostOne(Sent(q)') /\ (Sent(q)' # {} => Sent(q) # {})
    BY <1>a, <1>b, <2>1, InputCopies, SentStays
  <2>4. CASE r # q
    <3>1. Waiting(q)' \subseteq Waiting(q)
      BY <1>a, <2>1, <2>4 DEF Waiting
    <3> QED
      BY <1>a, <2>1, <2>2, <2>3, <3>1, NoNewCopy
  <2>5. CASE r = q
    <3>1. Waiting(q) = {} /\ Timed(q) = {} /\ Sent(q) = {} /\ ran[q] = 0
      BY <1>a, <2>1, <2>5 DEF OneCopy
    <3>2. \A h \in Waiting(q)' : h = k
      BY <1>a, <2>1, <2>5, <3>1 DEF Waiting
    <3> QED
      BY <2>1, <2>2, <2>3, <2>5, <3>1, <3>2 DEF OneCopy, AtMostOne
  <2> QED
    BY <2>4, <2>5
<1>6. ASSUME NEW k \in Keys, NEW r \in Runs, TimerFires(k, r) PROVE OneCopy(q)'
  <2>1. /\ <<k, r>> \in timers /\ timers' = timers \ {<<k, r>>}
        /\ Send(Input(k, r)) /\ UNCHANGED <<pending, asked, ran>>
    BY <1>6 DEF TimerFires
  <2>2. Waiting(q)' = Waiting(q) /\ Timed(q)' \subseteq Timed(q)
    BY <2>1 DEF Waiting, Timed
  <2>3. CASE r # q
    <3>1. AtMostOne(Sent(q)') /\ (Sent(q)' # {} => Sent(q) # {})
      BY <1>a, <1>b, <2>1, <2>3, InputCopies, SentStays
    <3> QED
      BY <1>a, <2>1, <2>2, <3>1, NoNewCopy
  <2>4. CASE r = q
    <3>1. k \in Timed(q)
      BY <2>1, <2>4 DEF Timed
    <3>2. Waiting(q) = {} /\ Sent(q) = {} /\ ran[q] = 0 /\ q \in asked
      BY <1>a, <3>1 DEF OneCopy
    <3>3. Timed(q)' = {}
      BY <1>a, <2>1, <2>4, <3>1 DEF Timed, OneCopy, AtMostOne
    <3>4. AtMostOne(Sent(q)')
      BY <1>a, <1>b, <2>1, <3>2, SendCopies DEF AtMostOne
    <3> QED
      BY <2>1, <2>2, <3>2, <3>3, <3>4 DEF OneCopy, AtMostOne
  <2> QED
    BY <2>3, <2>4
<1>7. ASSUME NEW k \in Keys, OnOutput(k) \/ OnState(k) \/ OnClosed(k)
      PROVE  OneCopy(q)'
  <2>1. UNCHANGED <<pending, timers, asked, ran, cmds>>
    BY <1>7 DEF OnOutput, OnState, OnClosed, Take
  <2> QED
    BY <1>1, <2>1
<1>8. ASSUME NEW k \in Keys, OnConnected(k) PROVE OneCopy(q)'
  <2>1. /\ timers' = timers \cup ({<<k, pending[k]>>} \ {<<k, None>>})
        /\ pending' = [pending EXCEPT ![k] = None]
        /\ UNCHANGED <<asked, ran, cmds>>
    BY <1>8 DEF OnConnected, Take
  <2>2. Sent(q)' = Sent(q)
    BY <2>1 DEF Sent, Types
  <2>3. Waiting(q)' = Waiting(q) \ {k}
    BY <1>a, <2>1 DEF Waiting
  <2>4. CASE pending[k] # q
    <3>1. Timed(q)' = Timed(q)
      BY <1>a, <2>1, <2>4 DEF Timed
    <3> QED
      BY <1>a, <2>1, <2>2, <2>3, <3>1, NoNewCopy DEF OneCopy
  <2>5. CASE pending[k] = q
    <3>1. k \in Waiting(q)
      BY <2>5 DEF Waiting
    <3>2. Timed(q) = {} /\ Sent(q) = {} /\ ran[q] = 0 /\ q \in asked
      BY <1>a, <3>1 DEF OneCopy
    <3>3. Waiting(q)' = {}
      BY <1>a, <2>3, <3>1 DEF OneCopy, AtMostOne
    <3>4. \A h \in Timed(q)' : h = k
      BY <2>1, <2>5, <3>2 DEF Timed
    <3> QED
      BY <2>1, <2>2, <3>2, <3>3, <3>4 DEF OneCopy, AtMostOne
  <2> QED
    BY <2>4, <2>5
<1>9. ASSUME NEW k \in Keys,
             \/ ConnectSwitches(k) \/ ConnectSpawns(k) \/ ConnectUnresolved(k)
             \/ ConnectUnknown(k) \/ DisconnectHandled(k)
      PROVE  OneCopy(q)'
  <2>1. /\ UNCHANGED <<pending, timers, asked, ran>>
        /\ \E c : Receive(c)
    BY <1>9 DEF ConnectSwitches, ConnectSpawns, ConnectUnresolved, ConnectUnknown,
                DisconnectHandled
  <2> QED
    BY <1>1, <2>1
<1>10. ASSUME NEW k \in Keys, NEW r \in Runs, TypeInput(k, r) PROVE OneCopy(q)'
  <2>1. /\ Receive(Input(k, r)) /\ UNCHANGED <<pending, timers, asked>>
        /\ ran' = ran \/ ran' = [ran EXCEPT ![r] = @ + 1]
    BY <1>10 DEF TypeInput
  <2>2. CASE ran'[q] = ran[q]
    <3>1. Waiting(q)' = Waiting(q) /\ Timed(q)' = Timed(q)
      BY <2>1 DEF Waiting, Timed
    <3>2. AtMostOne(Sent(q)') /\ (Sent(q)' # {} => Sent(q) # {})
      BY <1>a, <2>1, SentStays
    <3> QED
      BY <1>a, <2>1, <2>2, <3>1, <3>2, NoNewCopy
  <2>3. CASE ran'[q] # ran[q]
    <3>1. r = q /\ ran'[q] = ran[q] + 1
      BY <1>a, <2>1, <2>3
    <3>2. 1 \in Sent(q)
      BY <1>a, <2>1, <3>1, InputCopies, ReceiveCopies
    <3>3. Waiting(q) = {} /\ Timed(q) = {} /\ ran[q] = 0 /\ q \in asked
      BY <1>a, <3>2 DEF OneCopy
    <3>4. Sent(q)' = {}
      <4>1. \A i \in Sent(q)' : i + 1 \in Sent(q) /\ i + 1 # 1
        BY <1>a, <2>1, ReceiveCopies
      <4> QED
        BY <1>a, <3>2, <4>1 DEF OneCopy, AtMostOne
    <3>5. Waiting(q)' = {} /\ Timed(q)' = {}
      BY <2>1, <3>3 DEF Waiting, Timed
    <3> QED
      BY <2>1, <3>1, <3>3, <3>4, <3>5 DEF OneCopy, AtMostOne
  <2> QED
    BY <2>2, <2>3
<1>11. ASSUME NEW c \in Conns, ConnStep(c) PROVE OneCopy(q)'
  <2>1. UNCHANGED <<pending, timers, asked, ran, cmds>>
    BY <1>11 DEF ConnStep, Progress, ConnectOk, AttemptFails, Register, SayConnected,
                 Output, PumpReports, SilentStep
  <2> QED
    BY <1>1, <2>1
<1> QED
  BY <1>2, <1>3, <1>4, <1>5, <1>6, <1>7, <1>8, <1>9, <1>10, <1>11
     DEF Next, UserStep, ScriptStep, LoopStep

\* A quick command asked for once is typed into a shell at most once, however often
\* its key connects, loses its tab or has its timers run meanwhile (runCmd and the
\* "connected" arm of onEvent in crates/ui/web/index.html).
THEOREM TypedOnce == Spec => []CommandOnce
<1>1. Init => CopyInv
  <2> SUFFICES ASSUME Init, NEW q \in Runs PROVE OneCopy(q)
    BY TypeInit DEF CopyInv
  <2>1. Waiting(q) = {} /\ Timed(q) = {} /\ Sent(q) = {} /\ ran[q] = 0
    BY TabsAssumption DEF Init, Waiting, Timed, Sent
  <2> QED
    BY <2>1 DEF OneCopy, AtMostOne
<1>2. CopyInv => CommandOnce
  BY DEF CopyInv, OneCopy, CommandOnce
<1> QED
  BY <1>1, <1>2, CopyStep, PTL DEF Spec
=============================================================================
