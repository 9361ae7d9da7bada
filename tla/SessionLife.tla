----------------------------- MODULE SessionLife -----------------------------
(***************************************************************************)
(* What the session layer of the backend promises to those who only see    *)
(* its map and its events: who may put an entry under a key, who may take  *)
(* it out, and when the shell pump behind it may stop.  Module Sessions    *)
(* implements it; module Tabs puts the webview on top of it.               *)
(***************************************************************************)

CONSTANTS Keys, Conns, None

VARIABLES
    sessions,   \* key -> the attempt whose session is open under it, or None
    key,        \* the key each attempt was made for
    task,       \* where the connect task of each attempt is
    pump        \* where the shell pump of each attempt is

vars == <<sessions, key, task, pump>>

TypeOK ==
    /\ sessions \in [Keys -> Conns \cup {None}]
    /\ key \in [Conns -> Keys \cup {None}]
    /\ task \in [Conns -> {"idle", "connecting", "opening", "shell", "done",
                           "failed"}]
    /\ pump \in [Conns -> {"none", "running", "removed", "ended"}]

Init ==
    /\ sessions = [k \in Keys |-> None]
    /\ key = [c \in Conns |-> None]
    /\ task = [c \in Conns |-> "idle"]
    /\ pump = [c \in Conns |-> "none"]

\* An attempt begins for a key that has no session at that moment.
Begin(k, c) ==
    /\ sessions[k] = None
    /\ task[c] = "idle"
    /\ task' = [task EXCEPT ![c] = "connecting"]
    /\ key' = [key EXCEPT ![c] = k]
    /\ UNCHANGED <<sessions, pump>>

\* The transport is up, and the shell is still to be opened.
Up(c) ==
    /\ task[c] = "connecting"
    /\ task' = [task EXCEPT ![c] = "opening"]
    /\ UNCHANGED <<sessions, key, pump>>

\* The attempt fails, at the transport or at the shell.
Fail(c) ==
    /\ task[c] \in {"connecting", "opening"}
    /\ task' = [task EXCEPT ![c] = "failed"]
    /\ UNCHANGED <<sessions, key, pump>>

\* The shell is open and its pump runs, before the session is in the map.
Open(c) ==
    /\ task[c] = "opening"
    /\ task' = [task EXCEPT ![c] = "shell"]
    /\ pump' = [pump EXCEPT ![c] = "running"]
    /\ UNCHANGED <<sessions, key>>

\* The session goes under its key, over whatever is there.
Register(c) ==
    /\ task[c] = "shell"
    /\ task' = [task EXCEPT ![c] = "done"]
    /\ sessions' = [sessions EXCEPT ![key[c]] = c]
    /\ UNCHANGED <<key, pump>>

\* The user's disconnect takes the entry of a key out, if there is one.
Drop(k) ==
    /\ sessions' = [sessions EXCEPT ![k] = None]
    /\ UNCHANGED <<key, task, pump>>

\* The shell's output ends, and the entry of its key is taken out ...
End(c) ==
    /\ pump[c] = "running"
    /\ pump' = [pump EXCEPT ![c] = "removed"]
    /\ sessions' = [sessions EXCEPT ![key[c]] = None]
    /\ UNCHANGED <<key, task>>

\* ... and the webview is told.
Report(c) ==
    /\ pump[c] = "removed"
    /\ pump' = [pump EXCEPT ![c] = "ended"]
    /\ UNCHANGED <<sessions, key, task>>

\* A pump stops without a word only when its session was registered and is in
\* the map no more: it was disconnected, or replaced.
Quiet(c) ==
    /\ pump[c] = "running"
    /\ task[c] = "done"
    /\ \A k \in Keys : sessions[k] # c
    /\ pump' = [pump EXCEPT ![c] = "ended"]
    /\ UNCHANGED <<sessions, key, task>>

Next ==
    \/ \E k \in Keys : Drop(k) \/ \E c \in Conns : Begin(k, c)
    \/ \E c \in Conns :
          \/ Up(c)
          \/ Fail(c)
          \/ Open(c)
          \/ Register(c)
          \/ End(c)
          \/ Report(c)
          \/ Quiet(c)

Spec == Init /\ [][Next]_vars
=============================================================================
