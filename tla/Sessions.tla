------------------------------ MODULE Sessions ------------------------------
(***************************************************************************)
(* The life of the sessions and of the port forwards that ride on them, as *)
(* crates/ui/src/backend.rs runs it over the SessionManager of             *)
(* crates/app/src/lib.rs.                                                  *)
(*                                                                         *)
(* The command loop handles one webview command after another.  A connect  *)
(* spawns a task (spawn_connect); the task spawns a pump (shell_pump) and  *)
(* then registers the session; a forward is bound by a task of its own.    *)
(* All of them share three maps: the sessions by key, the forwards, and    *)
(* the manager's connections by id.  A critical section that takes one     *)
(* mutex and calls nothing is one step.  The forwards mutex is explicit,   *)
(* because a forward task takes the sessions mutex while it holds it and   *)
(* releases the inner one first.                                           *)
(*                                                                         *)
(* An element of Conns is one connection attempt, with the SessionId and   *)
(* the shell it may obtain; an element of Fwds is one forward request with *)
(* its fresh uuid.  Each is used once, so the pools bound the run.         *)
(***************************************************************************)
EXTENDS Naturals

CONSTANTS Keys,     \* session keys: a profile id, or a profile id with "#sudo"
          Conns,    \* connection attempts
          Fwds,     \* forward requests: ssh -L, ssh -D, or a desktop forward
          None      \* an absent map entry, an idle loop, a free mutex

ASSUME NoneAssumption == None \notin Keys \cup Conns \cup Fwds

VARIABLES
    sessions,   \* backend: key -> the Active session's connection, or None
    manager,    \* SessionManager.sessions: the connections it holds
    key,        \* the key each attempt was made for
    task,       \* where the connect task of each attempt is
    pump,       \* where the shell pump of each attempt is
    ended,      \* attempts whose shell delivers no more output
    aborted,    \* attempts whose pump was told to abort
    closing,    \* attempts for which SessionManager::close is still to run
    typing,     \* attempts whose sudo task still holds an input sender
    stopping,   \* the key whose forwards the command loop is about to stop
    fwd,        \* where each forward request is
    fkey,       \* the session key of each forward request
    fconn,      \* the connection each forward was bound on
    fwLock      \* the forward task inside its `forwards` critical section

vars == <<sessions, manager, key, task, pump, ended, aborted, closing,
          typing, stopping, fwd, fkey, fconn, fwLock>>
connVars == <<manager, key, task, ended, closing, typing>>
fwdVars == <<fwd, fkey, fconn, fwLock>>

TaskStates == {"idle", "connecting", "opening", "shell", "done", "failed"}
PumpStates == {"none", "running", "removed", "ended"}
FwdStates == {"idle", "binding", "locked", "registered", "gone"}

TypeOK ==
    /\ sessions \in [Keys -> Conns \cup {None}]
    /\ manager \in SUBSET Conns
    /\ key \in [Conns -> Keys \cup {None}]
    /\ task \in [Conns -> TaskStates]
    /\ pump \in [Conns -> PumpStates]
    /\ ended \in SUBSET Conns
    /\ aborted \in SUBSET Conns
    /\ closing \in SUBSET Conns
    /\ typing \in SUBSET Conns
    /\ stopping \in Keys \cup {None}
    /\ fwd \in [Fwds -> FwdStates]
    /\ fkey \in [Fwds -> Keys \cup {None}]
    /\ fconn \in [Fwds -> Conns \cup {None}]
    /\ fwLock \in Fwds \cup {None}

Init ==
    /\ sessions = [k \in Keys |-> None]
    /\ manager = {}
    /\ key = [c \in Conns |-> None]
    /\ task = [c \in Conns |-> "idle"]
    /\ pump = [c \in Conns |-> "none"]
    /\ ended = {}
    /\ aborted = {}
    /\ closing = {}
    /\ typing = {}
    /\ stopping = None
    /\ fwd = [f \in Fwds |-> "idle"]
    /\ fkey = [f \in Fwds |-> None]
    /\ fconn = [f \in Fwds |-> None]
    /\ fwLock = None

-----------------------------------------------------------------------------
\* The command loop: one command at a time, so a command starts only when the
\* previous handler has returned.

LoopIdle == stopping = None

\* "connect": a key with a session only switches; otherwise a task is spawned.
ConnectCmd(k, c) ==
    /\ LoopIdle
    /\ sessions[k] = None
    /\ task[c] = "idle"
    /\ task' = [task EXCEPT ![c] = "connecting"]
    /\ key' = [key EXCEPT ![c] = k]
    /\ UNCHANGED <<sessions, manager, pump, ended, aborted, closing, typing,
                   stopping, fwdVars>>

\* Mutated forms of DisconnectTake, which the properties must tell from it: the
\* missing entry is not checked, the entry is read and not removed, close is
\* not spawned.
DisconnectTakeUnchecked(k) ==
    /\ LoopIdle
    /\ aborted' = aborted \cup {sessions[k]}
    /\ closing' = closing \cup {sessions[k]}
    /\ sessions' = [sessions EXCEPT ![k] = None]
    /\ stopping' = k
    /\ UNCHANGED <<manager, key, task, pump, ended, typing, fwdVars>>

DisconnectTakeKeepsEntry(k) ==
    /\ LoopIdle
    /\ aborted' = aborted \cup ({sessions[k]} \ {None})
    /\ closing' = closing \cup ({sessions[k]} \ {None})
    /\ stopping' = k
    /\ UNCHANGED <<sessions, manager, key, task, pump, ended, typing, fwdVars>>

DisconnectTakeNoClose(k) ==
    /\ LoopIdle
    /\ aborted' = aborted \cup ({sessions[k]} \ {None})
    /\ sessions' = [sessions EXCEPT ![k] = None]
    /\ stopping' = k
    /\ UNCHANGED <<manager, key, task, pump, ended, closing, typing, fwdVars>>

\* "disconnect", up to the point where it needs the forwards mutex: the entry
\* is taken out of the map, its pump aborted and manager.close spawned.  Without
\* an entry the handler goes on to the forwards all the same.
DisconnectTake(k) ==
    /\ LoopIdle
    /\ LET taken == {sessions[k]} \ {None}
       IN  /\ aborted' = aborted \cup taken
           /\ closing' = closing \cup taken
    /\ sessions' = [sessions EXCEPT ![k] = None]
    /\ stopping' = k
    /\ UNCHANGED <<manager, key, task, pump, ended, typing, fwdVars>>

\* What stop_forwards_for leaves of the forwards: those of key k are removed,
\* their accept loops aborted.
WithoutForwardsOf(k) ==
    [f \in Fwds |-> IF fwd[f] = "registered" /\ fkey[f] = k
                    THEN "gone" ELSE fwd[f]]

\* "disconnect", its last call: stop_forwards_for(key).
DisconnectStop ==
    /\ stopping # None
    /\ fwLock = None
    /\ fwd' = WithoutForwardsOf(stopping)
    /\ stopping' = None
    /\ UNCHANGED <<sessions, aborted, pump, connVars, fkey, fconn, fwLock>>

\* "forward_start", "socks_start", "desktop_start": the connection behind the
\* key is looked up under the sessions mutex, and a task is spawned to bind.
ForwardStart(k, f) ==
    /\ LoopIdle
    /\ fwd[f] = "idle"
    /\ sessions[k] \in manager
    /\ fwd' = [fwd EXCEPT ![f] = "binding"]
    /\ fkey' = [fkey EXCEPT ![f] = k]
    /\ fconn' = [fconn EXCEPT ![f] = sessions[k]]
    /\ UNCHANGED <<sessions, aborted, pump, stopping, connVars, fwLock>>

\* "forward_stop".
ForwardStop(f) ==
    /\ LoopIdle
    /\ fwLock = None
    /\ fwd[f] = "registered"
    /\ fwd' = [fwd EXCEPT ![f] = "gone"]
    /\ UNCHANGED <<sessions, aborted, pump, stopping, connVars, fkey, fconn,
                   fwLock>>

-----------------------------------------------------------------------------
\* The connect task (spawn_connect).

\* manager.connect: the transport connects, and the manager records the
\* connection under a fresh id; or it fails, and the task reports and ends.
ConnectOk(c) ==
    /\ task[c] = "connecting"
    /\ task' = [task EXCEPT ![c] = "opening"]
    /\ manager' = manager \cup {c}
    /\ UNCHANGED <<sessions, key, pump, ended, aborted, closing, typing,
                   stopping, fwdVars>>

ConnectFails(c) ==
    /\ task[c] = "connecting"
    /\ task' = [task EXCEPT ![c] = "failed"]
    /\ UNCHANGED <<sessions, manager, key, pump, ended, aborted, closing,
                   typing, stopping, fwdVars>>

\* manager.open_shell succeeds: the pump is spawned, and so is the task that
\* types the sudo command when the session asked for it.
OpenShellOk(c, sudo) ==
    /\ task[c] = "opening"
    /\ c \in manager
    /\ task' = [task EXCEPT ![c] = "shell"]
    /\ pump' = [pump EXCEPT ![c] = "running"]
    /\ typing' = IF sudo THEN typing \cup {c} ELSE typing
    /\ UNCHANGED <<sessions, manager, key, ended, aborted, closing, stopping,
                   fwdVars>>

\* manager.open_shell fails: the task closes the connection it made.
OpenShellFails(c) ==
    /\ task[c] = "opening"
    /\ task' = [task EXCEPT ![c] = "failed"]
    /\ closing' = closing \cup {c}
    /\ UNCHANGED <<sessions, manager, key, pump, ended, aborted, typing,
                   stopping, fwdVars>>

\* sessions.insert(key, Active): whatever entry was there is dropped.
Register(c) ==
    /\ task[c] = "shell"
    /\ sessions' = [sessions EXCEPT ![key[c]] = c]
    /\ task' = [task EXCEPT ![c] = "done"]
    /\ UNCHANGED <<manager, key, pump, ended, aborted, closing, typing,
                   stopping, fwdVars>>

\* The sudo task has sent its last line and drops its sender.
TypingDone(c) ==
    /\ c \in typing
    /\ typing' = typing \ {c}
    /\ UNCHANGED <<sessions, manager, key, task, pump, ended, aborted, closing,
                   stopping, fwdVars>>

\* SessionManager::close: the connection is forgotten under the mutex ...
CloseForget(c) ==
    /\ c \in closing
    /\ closing' = closing \ {c}
    /\ manager' = manager \ {c}
    /\ UNCHANGED <<sessions, key, task, pump, ended, aborted, typing, stopping,
                   fwdVars>>

\* ... and then disconnected, which ends the shell of a session that had one.
CloseDisconnect(c) ==
    /\ task[c] = "done"
    /\ c \notin manager \cup ended
    /\ ended' = ended \cup {c}
    /\ UNCHANGED <<sessions, manager, key, task, pump, aborted, closing, typing,
                   stopping, fwdVars>>

-----------------------------------------------------------------------------
\* The shell pump (shell_pump).

\* The remote shell exits or the link is lost.
ShellExit(c) ==
    /\ task[c] \in {"shell", "done"}
    /\ c \notin ended
    /\ ended' = ended \cup {c}
    /\ UNCHANGED <<sessions, manager, key, task, pump, aborted, closing, typing,
                   stopping, fwdVars>>

\* read_output yields the end: the pump removes the entry of its KEY.  An abort
\* takes effect between two polls only, so an aborted pump may still get here.
PumpReadEnd(c) ==
    /\ pump[c] = "running"
    /\ c \in ended
    /\ sessions' = [sessions EXCEPT ![key[c]] = None]
    /\ pump' = [pump EXCEPT ![c] = "removed"]
    /\ UNCHANGED <<aborted, stopping, connVars, fwdVars>>

\* A mutated form of PumpStop: the forwards are not stopped.
PumpStopForgotten(c) ==
    /\ pump[c] = "removed"
    /\ pump' = [pump EXCEPT ![c] = "ended"]
    /\ UNCHANGED <<sessions, aborted, stopping, connVars, fwdVars>>

\* ... and stops the forwards of that key, with no await in between.
PumpStop(c) ==
    /\ pump[c] = "removed"
    /\ fwLock = None
    /\ fwd' = WithoutForwardsOf(key[c])
    /\ pump' = [pump EXCEPT ![c] = "ended"]
    /\ UNCHANGED <<sessions, aborted, stopping, connVars, fkey, fconn, fwLock>>

\* Some sender of the input channel is alive: the connect task's, the sudo
\* task's, or the one in the registered session.
InputOpen(c) ==
    \/ task[c] = "shell"
    \/ c \in typing
    \/ \E k \in Keys : sessions[k] = c

\* The pump ends without touching the maps: its last input sender was dropped,
\* or the abort was taken.
PumpQuiet(c) ==
    /\ pump[c] = "running"
    /\ ~InputOpen(c) \/ c \in aborted
    /\ pump' = [pump EXCEPT ![c] = "ended"]
    /\ UNCHANGED <<sessions, aborted, stopping, connVars, fwdVars>>

-----------------------------------------------------------------------------
\* The forward task.

\* The listener cannot be bound, or the remote side is not set up.
ForwardFails(f) ==
    /\ fwd[f] = "binding"
    /\ fwd' = [fwd EXCEPT ![f] = "gone"]
    /\ UNCHANGED <<sessions, aborted, pump, stopping, connVars, fkey, fconn,
                   fwLock>>

\* A mutated form of ForwardCheck: the membership is checked before the mutex is
\* taken.
ForwardCheckUnlocked(f) ==
    /\ fwd[f] = "binding"
    /\ fwd' = [fwd EXCEPT ![f] = IF sessions[fkey[f]] = None THEN "gone"
                                 ELSE "locked"]
    /\ UNCHANGED <<sessions, aborted, pump, stopping, connVars, fkey, fconn,
                   fwLock>>

\* Bound: the task takes the forwards mutex and asks whether the key still has
\* a session.  If not, the forward is dropped and the mutex released.
ForwardCheck(f) ==
    /\ fwd[f] = "binding"
    /\ fwLock = None
    /\ IF sessions[fkey[f]] = None
       THEN /\ fwd' = [fwd EXCEPT ![f] = "gone"]
            /\ fwLock' = None
       ELSE /\ fwd' = [fwd EXCEPT ![f] = "locked"]
            /\ fwLock' = f
    /\ UNCHANGED <<sessions, aborted, pump, stopping, connVars, fkey, fconn>>

\* fw.insert, and the mutex is released.
ForwardRegister(f) ==
    /\ fwd[f] = "locked"
    /\ fwd' = [fwd EXCEPT ![f] = "registered"]
    /\ fwLock' = None
    /\ UNCHANGED <<sessions, aborted, pump, stopping, connVars, fkey, fconn>>

-----------------------------------------------------------------------------
LoopStep ==
    \/ \E k \in Keys, c \in Conns : ConnectCmd(k, c)
    \/ \E k \in Keys : DisconnectTake(k)
    \/ DisconnectStop
    \/ \E k \in Keys, f \in Fwds : ForwardStart(k, f)
    \/ \E f \in Fwds : ForwardStop(f)

ConnStep(c) ==
    \/ ConnectOk(c)
    \/ ConnectFails(c)
    \/ \E sudo \in BOOLEAN : OpenShellOk(c, sudo)
    \/ OpenShellFails(c)
    \/ Register(c)
    \/ TypingDone(c)
    \/ CloseForget(c)
    \/ CloseDisconnect(c)
    \/ ShellExit(c)
    \/ PumpReadEnd(c)
    \/ PumpStop(c)
    \/ PumpQuiet(c)

FwdStep(f) ==
    \/ ForwardFails(f)
    \/ ForwardCheck(f)
    \/ ForwardRegister(f)

Next ==
    \/ LoopStep
    \/ \E c \in Conns : ConnStep(c)
    \/ \E f \in Fwds : FwdStep(f)

Spec == Init /\ [][Next]_vars

\* Tokio runs every task that is ready and a std mutex is handed on, so a task
\* that waits for neither the network nor the user goes on.  Nothing is assumed
\* of the user, of the servers (a connect or a shell may never answer), of the
\* command loop between two commands, or of a pump that nobody aborted: it may
\* be waiting in write_input.
Fairness ==
    /\ WF_vars(DisconnectStop)
    /\ \A c \in Conns :
          /\ WF_vars(CloseForget(c))
          /\ WF_vars(c \in aborted /\ (PumpReadEnd(c) \/ PumpQuiet(c)))
          /\ WF_vars(PumpStop(c))
    /\ \A f \in Fwds : WF_vars(ForwardRegister(f))

FairSpec == Spec /\ Fairness

-----------------------------------------------------------------------------
\* Somebody has taken the entry of k out of the map and has yet to stop the
\* forwards of k.
StopPending(k) ==
    \/ stopping = k
    \/ \E c \in Conns : pump[c] = "removed" /\ key[c] = k

\* A registered forward has a session under its key, or whoever removed that
\* session is about to stop it: the check under the forwards mutex, against a
\* teardown that removes from the sessions first, leaves no orphan (the comment
\* in "forward_start").
ForwardsHaveSession ==
    \A f \in Fwds : fwd[f] = "registered" =>
        sessions[fkey[f]] # None \/ StopPending(fkey[f])

\* The manager holds the connection of every session in the map, and nobody is
\* about to close it: a command on an open tab never finds its connection gone
\* (the (None, ..) arm of "forward_start", connection_for), however connects,
\* disconnects and shell exits interleave.
SessionsHaveConnection ==
    \A k \in Keys : sessions[k] # None =>
        sessions[k] \in manager \ closing

\* A forward left behind by a removed session is stopped in the end, unless a
\* new session has come to its key: no lost stop, no lock held for ever.
OrphanForward(f) == fwd[f] = "registered" /\ sessions[fkey[f]] = None

OrphanForwardsReaped ==
    \A f \in Fwds : OrphanForward(f) ~> ~OrphanForward(f)

\* What a disconnect took out of the map is released: the manager forgets the
\* connection and the pump stops, whatever the pump was doing at that moment.
DisconnectReleases ==
    \A c \in Conns :
        (c \in aborted) ~> (c \notin manager /\ pump[c] = "ended")

\* To those who see the map of sessions and the progress of the attempts, this
\* is SessionLife: entries come from their own attempts only, and a pump falls
\* silent, without a word to the webview, only when its session was taken out
\* of the map or replaced, whichever way its abort and its senders went.
Life == INSTANCE SessionLife

ImplementsLife == Life!Spec

\* A live session is never replaced by another one of the same key.  The header
\* of backend.rs claims it; two connects in flight for one key break it.
NeverReconnect ==
    [][\A k \in Keys : sessions[k] # None => sessions'[k] \in {sessions[k], None}]_vars
=============================================================================
