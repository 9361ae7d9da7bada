-------------------------------- MODULE Tabs --------------------------------
(***************************************************************************)
(* The webview's terminal tabs (crates/ui/web/index.html) on top of the    *)
(* sessions of the backend, over the two queues between them: commands go  *)
(* through an unbounded channel to the command loop, events through the    *)
(* window's event loop to the script (crates/ui/src/main.rs).              *)
(*                                                                         *)
(* The session part is SessionLife, which module Sessions implements: a    *)
(* step of it is taken here together with the command that causes it or    *)
(* the event that the code emits in it.  The script is single-threaded, so *)
(* a click, a timer or an event is one step.  Which tab is in front is a   *)
(* matter of display only.                                                 *)
(***************************************************************************)
EXTENDS Naturals, Sequences

CONSTANTS
    Keys,       \* session keys
    Hosts,      \* the keys whose profile is in the host list
    Conns,      \* connection attempts
    Runs,       \* runs of quick commands, each asked for once by the user
    None,       \* nothing
    MaxCmds,    \* bound: commands under way
    MaxEvents   \* bound: events under way

ASSUME TabsAssumption ==
    /\ None \notin Keys \cup Conns \cup Runs
    /\ Hosts \subseteq Keys
    /\ MaxCmds \in Nat
    /\ MaxEvents \in Nat

VARIABLES sessions, key, task, pump     \* as in SessionLife
VARIABLES
    unsaid,     \* attempts that are registered and have yet to say so
    cmds,       \* the commands on their way to the command loop
    events,     \* the events on their way to the script
    tab,        \* what each key's tab shows
    pending,    \* pendingCmd: the quick command deferred for each key
    timers,     \* deferred quick commands about to be sent, with their key
    asked,      \* the runs the user has asked for
    ran         \* how many times each run was typed into a shell

Life == INSTANCE SessionLife

sessionVars == <<sessions, key, task, pump>>
scriptVars == <<tab, pending, timers, asked>>
vars == <<sessionVars, unsaid, cmds, events, scriptVars, ran>>

Command == [cmd : {"connect", "disconnect"}, id : Keys]
               \cup [cmd : {"input"}, id : Keys, run : Runs]

\* "state" is three events here, after what its text tells: work under way
\* (live is false), the transport connected (live is true), an error.
Event == [ev : {"busy", "up", "error", "connected", "output", "closed"},
          id : Keys]

\* A tab whose "live" is false shows work under way, or an error or nothing.
TabStates == {"none", "waiting", "dead", "live"}

TypeOK ==
    /\ Life!TypeOK
    /\ unsaid \in SUBSET Conns
    /\ cmds \in Seq(Command)
    /\ events \in Seq(Event)
    /\ tab \in [Keys -> TabStates]
    /\ pending \in [Keys -> Runs \cup {None}]
    /\ timers \in SUBSET (Keys \X Runs)
    /\ asked \in SUBSET Runs
    /\ ran \in [Runs -> Nat]

Init ==
    /\ Life!Init
    /\ unsaid = {}
    /\ cmds = <<>>
    /\ events = <<>>
    /\ tab = [k \in Keys |-> "none"]
    /\ pending = [k \in Keys |-> None]
    /\ timers = {}
    /\ asked = {}
    /\ ran = [q \in Runs |-> 0]

Connect(k) == [cmd |-> "connect", id |-> k]
Disconnect(k) == [cmd |-> "disconnect", id |-> k]
Input(k, q) == [cmd |-> "input", id |-> k, run |-> q]

Send(c) ==
    /\ Len(cmds) < MaxCmds
    /\ cmds' = Append(cmds, c)

Emit(ev, k) ==
    /\ Len(events) < MaxEvents
    /\ events' = Append(events, [ev |-> ev, id |-> k])

-----------------------------------------------------------------------------
\* What the user and the clock do to the script.

\* openSession on a host without a tab: the tab opens, and only then is the
\* backend told.  With a tab it only comes to the front.
OpenTab(k) ==
    /\ k \in Hosts
    /\ tab[k] = "none"
    /\ tab' = [tab EXCEPT ![k] = "waiting"]
    /\ Send(Connect(k))
    /\ UNCHANGED <<sessionVars, unsaid, events, pending, timers, asked, ran>>

\* closeSession: the tab goes at once, the backend is told.
CloseTab(k) ==
    /\ tab[k] # "none"
    /\ tab' = [tab EXCEPT ![k] = "none"]
    /\ Send(Disconnect(k))
    /\ UNCHANGED <<sessionVars, unsaid, events, pending, timers, asked, ran>>

\* runCmd on a live tab: the text is sent at once.
RunOnLive(k, q) ==
    /\ tab[k] = "live"
    /\ q \notin asked
    /\ asked' = asked \cup {q}
    /\ Send(Input(k, q))
    /\ UNCHANGED <<sessionVars, unsaid, events, tab, pending, timers, ran>>

\* runCmd otherwise: openSession, and the text waits for "connected".  The
\* command may name a host that is in the list no more.
RunDeferred(k, q) ==
    /\ tab[k] # "live"
    /\ q \notin asked
    /\ asked' = asked \cup {q}
    /\ pending' = [pending EXCEPT ![k] = q]
    /\ IF tab[k] = "none"
       THEN tab' = [tab EXCEPT ![k] = "waiting"] /\ Send(Connect(k))
       ELSE UNCHANGED <<tab, cmds>>
    /\ UNCHANGED <<sessionVars, unsaid, events, timers, ran>>

\* 600 ms after "connected" the deferred text is sent, whatever became of the tab.
TimerFires(k, q) ==
    /\ <<k, q>> \in timers
    /\ timers' = timers \ {<<k, q>>}
    /\ Send(Input(k, q))
    /\ UNCHANGED <<sessionVars, unsaid, events, tab, pending, asked, ran>>

-----------------------------------------------------------------------------
\* window.hop.onEvent, one event after another.
Take(ev, k) ==
    /\ events # <<>>
    /\ Head(events) = [ev |-> ev, id |-> k]
    /\ events' = Tail(events)
    /\ UNCHANGED <<sessionVars, unsaid, cmds, asked, ran>>

\* "output": ensureSession makes a tab, not live, if there is none.
OnOutput(k) ==
    /\ Take("output", k)
    /\ tab' = [tab EXCEPT ![k] = IF @ = "none" THEN "dead" ELSE @]
    /\ UNCHANGED <<pending, timers>>

\* Mutated forms of OnConnected: the entry of pendingCmd is not looked for, or
\* not deleted.
OnConnectedUnchecked(k) ==
    /\ Take("connected", k)
    /\ tab' = [tab EXCEPT ![k] = "live"]
    /\ timers' = timers \cup {<<k, pending[k]>>}
    /\ pending' = [pending EXCEPT ![k] = None]

OnConnectedKeeps(k) ==
    /\ Take("connected", k)
    /\ tab' = [tab EXCEPT ![k] = "live"]
    /\ timers' = timers \cup ({<<k, pending[k]>>} \ {<<k, None>>})
    /\ UNCHANGED pending

\* "connected": the tab is made if there is none, and is live; a deferred
\* command is taken out and given to a timer.
OnConnected(k) ==
    /\ Take("connected", k)
    /\ tab' = [tab EXCEPT ![k] = "live"]
    /\ timers' = timers \cup ({<<k, pending[k]>>} \ {<<k, None>>})
    /\ pending' = [pending EXCEPT ![k] = None]

\* "state" sets "live" and the text of a tab that is there.
OnState(k) ==
    /\ \E ev \in {"busy", "up", "error"} :
          /\ Take(ev, k)
          /\ tab' = [tab EXCEPT ![k] =
                        IF @ = "none" THEN @
                        ELSE IF ev = "busy" THEN "waiting"
                        ELSE IF ev = "up" THEN "live" ELSE "dead"]
    /\ UNCHANGED <<pending, timers>>

\* "closed": removeSession, whichever session the tab stands for by now.
OnClosed(k) ==
    /\ Take("closed", k)
    /\ tab' = [tab EXCEPT ![k] = "none"]
    /\ UNCHANGED <<pending, timers>>

-----------------------------------------------------------------------------
\* The command loop, one command after another.
Receive(c) ==
    /\ cmds # <<>>
    /\ Head(cmds) = c
    /\ cmds' = Tail(cmds)

\* A mutated form of ConnectSwitches: nothing to do, nothing said.
ConnectSwitchesMute(k) ==
    /\ Receive(Connect(k))
    /\ sessions[k] # None
    /\ UNCHANGED <<sessionVars, unsaid, events, scriptVars, ran>>

\* "connect" with a session: it only answers.
ConnectSwitches(k) ==
    /\ Receive(Connect(k))
    /\ sessions[k] # None
    /\ Emit("connected", k)
    /\ UNCHANGED <<sessionVars, unsaid, scriptVars, ran>>

\* "connect" without one: the route resolves and a task is spawned ...
ConnectSpawns(k) ==
    /\ Receive(Connect(k))
    /\ k \in Hosts
    /\ \E c \in Conns : Life!Begin(k, c)
    /\ UNCHANGED <<unsaid, events, scriptVars, ran>>

\* ... or it does not resolve, and the user is told ...
ConnectUnresolved(k) ==
    /\ Receive(Connect(k))
    /\ k \in Hosts
    /\ sessions[k] = None
    /\ Emit("error", k)
    /\ UNCHANGED <<sessionVars, unsaid, scriptVars, ran>>

\* ... or the profile is gone, and nobody is told anything.
ConnectUnknown(k) ==
    /\ Receive(Connect(k))
    /\ k \notin Hosts
    /\ sessions[k] = None
    /\ UNCHANGED <<sessionVars, unsaid, events, scriptVars, ran>>

\* "disconnect", with or without a session.
DisconnectHandled(k) ==
    /\ Receive(Disconnect(k))
    /\ Life!Drop(k)
    /\ UNCHANGED <<unsaid, events, scriptVars, ran>>

\* "input": try_send into the session's pump, if there is one and it has room.
TypeInput(k, q) ==
    /\ Receive(Input(k, q))
    /\ \/ sessions[k] # None /\ ran' = [ran EXCEPT ![q] = @ + 1]
       \/ UNCHANGED ran
    /\ UNCHANGED <<sessionVars, unsaid, events, scriptVars>>

-----------------------------------------------------------------------------
\* The connect task and the pump, with what they emit.

\* Resolving, connecting to a hop, authenticating at it.
Progress(c) ==
    /\ task[c] = "connecting"
    /\ Emit("busy", key[c])
    /\ UNCHANGED <<sessionVars, unsaid, cmds, scriptVars, ran>>

ConnectOk(c) ==
    /\ Life!Up(c)
    /\ Emit("up", key[c])
    /\ UNCHANGED <<unsaid, cmds, scriptVars, ran>>

\* manager.connect or open_shell failed.
AttemptFails(c) ==
    /\ Life!Fail(c)
    /\ Emit("error", key[c])
    /\ UNCHANGED <<unsaid, cmds, scriptVars, ran>>

\* The session goes into the map, and then "connected" is emitted.
Register(c) ==
    /\ Life!Register(c)
    /\ unsaid' = unsaid \cup {c}
    /\ UNCHANGED <<cmds, events, scriptVars, ran>>

SayConnected(c) ==
    /\ c \in unsaid
    /\ unsaid' = unsaid \ {c}
    /\ Emit("connected", key[c])
    /\ UNCHANGED <<sessionVars, cmds, scriptVars, ran>>

Output(c) ==
    /\ pump[c] = "running"
    /\ Emit("output", key[c])
    /\ UNCHANGED <<sessionVars, unsaid, cmds, scriptVars, ran>>

\* The forwards of the key are stopped and "closed" is emitted.
PumpReports(c) ==
    /\ Life!Report(c)
    /\ Emit("closed", key[c])
    /\ UNCHANGED <<unsaid, cmds, scriptVars, ran>>

\* Steps that say nothing to the webview.
SilentStep(c) ==
    /\ Life!Open(c) \/ Life!End(c) \/ Life!Quiet(c)
    /\ UNCHANGED <<unsaid, cmds, events, scriptVars, ran>>

-----------------------------------------------------------------------------
UserStep ==
    \/ \E k \in Keys : OpenTab(k) \/ CloseTab(k)
    \/ \E k \in Keys, q \in Runs : RunOnLive(k, q) \/ RunDeferred(k, q)

ScriptStep ==
    \/ \E k \in Keys, q \in Runs : TimerFires(k, q)
    \/ \E k \in Keys : OnOutput(k) \/ OnConnected(k) \/ OnState(k) \/ OnClosed(k)

LoopStep ==
    \/ \E k \in Keys :
          \/ ConnectSwitches(k)
          \/ ConnectSpawns(k)
          \/ ConnectUnresolved(k)
          \/ ConnectUnknown(k)
          \/ DisconnectHandled(k)
    \/ \E k \in Keys, q \in Runs : TypeInput(k, q)

ConnStep(c) ==
    \/ Progress(c)
    \/ ConnectOk(c)
    \/ AttemptFails(c)
    \/ Register(c)
    \/ SayConnected(c)
    \/ Output(c)
    \/ PumpReports(c)
    \/ SilentStep(c)

Next ==
    \/ UserStep
    \/ ScriptStep
    \/ LoopStep
    \/ \E c \in Conns : ConnStep(c)

Spec == Init /\ [][Next]_vars

-----------------------------------------------------------------------------
\* An answer to the tab of k is certain: its request is still to be handled,
\* an attempt for it is under way, or news other than progress and output is.
AnswerOwed(k) ==
    \/ \E i \in DOMAIN cmds : cmds[i] = Connect(k)
    \/ \E c \in Conns :
          /\ key[c] = k
          /\ task[c] \in {"connecting", "opening", "shell"} \/ c \in unsaid
    \/ \E i \in DOMAIN events :
          events[i].id = k /\ events[i].ev \notin {"busy", "output"}

\* No tab waits for an answer that nobody will give: whatever tabs were closed
\* and opened again, and whatever news of older sessions of the same key is on
\* its way, a tab that shows a connect under way has one ("connected" is
\* answered for an open session too, by the first arm of "connect").
NoTabForgotten ==
    \A k \in Hosts : tab[k] = "waiting" => AnswerOwed(k)

\* A quick command the user asked for once is typed at most once, however often
\* its key is connected anew: the entry of pendingCmd is deleted on use.
CommandOnce == \A q \in Runs : ran[q] <= 1
=============================================================================
