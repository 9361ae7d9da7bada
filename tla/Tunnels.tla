------------------------------ MODULE Tunnels -------------------------------
(***************************************************************************)
(* The data path of one port forward (forward_local, forward_socks and     *)
(* handle_socks_conn in crates/ssh/src/lib.rs): a loop accepts local       *)
(* clients and gives each a task of its own, a tunnel, which for a SOCKS   *)
(* forward first answers the client's greeting and request, then opens a   *)
(* channel through the connection and copies bytes both ways.  The loop    *)
(* owns its tunnels; the handle of the forward ends the loop.              *)
(*                                                                         *)
(* What a client asks for is abstracted to what is wrong with it.  Each    *)
(* name stands for one connection of a client, and a tunnel's bytes are    *)
(* two flows that end.  Clients, remote hosts and the network do or leave  *)
(* what they like.                                                         *)
(***************************************************************************)
EXTENDS Naturals, Sequences, FiniteSets

CONSTANTS Clients,      \* connections of local clients
          MaxFaults     \* bound: faults in what one client asks

ASSUME TunnelAssumption == IsFiniteSet(Clients) /\ MaxFaults \in Nat

\* In the greeting, not SOCKS 5, or no method without authentication; in the
\* request, not SOCKS 5, a kind of address unknown, or no CONNECT.
Faults == {"version", "methods", "request", "address", "command"}

VARIABLES
    socks,      \* forward_socks, or forward_local
    link,       \* whether the connection is up
    stopped,    \* the handle was stopped or dropped
    loop,       \* the accept loop: "select", "backoff", "dead"
    phase,      \* where the connection of each client is
    asks,       \* the faults in what it asks
    left,       \* the clients that have gone away
    told,       \* what each was answered, in order
    channels,   \* the clients that have an SSH channel
    opened,     \* history: the clients for which one was opened
    flows       \* the directions in which a tunnel still copies

vars == <<socks, link, stopped, loop, phase, asks, left, told, channels, opened, flows>>
forward == <<socks, link, stopped, loop>>

\* A connection waits in the backlog, has a tunnel, whose task is over in the end,
\* and is gone when that task was reaped or aborted.
TunnelPhases == {"greeting", "request", "opening", "reply", "relay"}
Phases == {"away", "backlog", "over", "gone"} \cup TunnelPhases
Answers == {"no method", "no auth", "bad address", "bad command", "refused", "granted"}

TypeOK ==
    /\ socks \in BOOLEAN
    /\ link \in {"up", "lost"}
    /\ stopped \in BOOLEAN
    /\ loop \in {"select", "backoff", "dead"}
    /\ phase \in [Clients -> Phases]
    /\ asks \in [Clients -> SUBSET Faults]
    /\ left \in SUBSET Clients
    /\ told \in [Clients -> Seq(Answers)] /\ \A c \in Clients : Len(told[c]) <= 2
    /\ channels \in SUBSET Clients
    /\ opened \in SUBSET Clients
    /\ flows \in [Clients -> SUBSET {"up", "down"}]

Init ==
    /\ socks \in BOOLEAN
    /\ link = "up"
    /\ stopped = FALSE
    /\ loop = "select"
    /\ phase = [c \in Clients |-> "away"]
    /\ asks = [c \in Clients |-> {}]
    /\ left = {}
    /\ told = [c \in Clients |-> <<>>]
    /\ channels = {}
    /\ opened = {}
    /\ flows = [c \in Clients |-> {}]

Goto(c, p) == phase' = [phase EXCEPT ![c] = p]

\* The task returns: its socket and its channel are dropped.
Finish(c) ==
    /\ Goto(c, "over")
    /\ channels' = channels \ {c}
    /\ flows' = [flows EXCEPT ![c] = {}]

-----------------------------------------------------------------------------
\* The clients, the network, and whoever holds the forward.

Connects(c) ==
    /\ phase[c] = "away"
    /\ loop # "dead"
    /\ Goto(c, "backlog")
    /\ \E f \in SUBSET Faults :
        /\ Cardinality(f) <= MaxFaults
        /\ socks \/ f = {}
        /\ asks' = [asks EXCEPT ![c] = f]
    /\ UNCHANGED <<forward, left, told, channels, opened, flows>>

Leaves(c) ==
    /\ phase[c] # "away"
    /\ left' = left \cup {c}
    /\ UNCHANGED <<forward, phase, asks, told, channels, opened, flows>>

LinkLost ==
    /\ link' = "lost"
    /\ UNCHANGED <<socks, stopped, loop, phase, asks, left, told, channels, opened, flows>>

\* RusshPortForward::stop and Drop.
Stop ==
    /\ stopped' = TRUE
    /\ UNCHANGED <<socks, link, loop, phase, asks, left, told, channels, opened, flows>>

-----------------------------------------------------------------------------
\* The accept loop.

\* A mutated form of Accept: the loop serves a client before it takes the next.
AcceptInTurn(c) ==
    /\ loop = "select"
    /\ phase[c] = "backlog"
    /\ \A d \in Clients : phase[d] \notin TunnelPhases
    /\ Goto(c, IF socks THEN "greeting" ELSE "opening")
    /\ UNCHANGED <<forward, asks, left, told, channels, opened, flows>>

Accept(c) ==
    /\ loop = "select"
    /\ phase[c] = "backlog"
    /\ Goto(c, IF socks THEN "greeting" ELSE "opening")
    /\ UNCHANGED <<forward, asks, left, told, channels, opened, flows>>

AcceptFails ==
    /\ loop = "select"
    /\ loop' = "backoff"
    /\ UNCHANGED <<socks, link, stopped, phase, asks, left, told, channels, opened, flows>>

BackoffOver ==
    /\ loop = "backoff"
    /\ loop' = "select"
    /\ UNCHANGED <<socks, link, stopped, phase, asks, left, told, channels, opened, flows>>

\* join_next.
Reap(c) ==
    /\ loop = "select"
    /\ phase[c] = "over"
    /\ Goto(c, "gone")
    /\ UNCHANGED <<forward, asks, left, told, channels, opened, flows>>

\* The abort ends the loop wherever it waits, closes the listener and with it the
\* connections that nobody accepted, and aborts the tunnels.
LoopAborted ==
    /\ stopped
    /\ loop # "dead"
    /\ loop' = "dead"
    /\ phase' = [c \in Clients |-> IF phase[c] = "backlog" THEN "gone" ELSE phase[c]]
    /\ UNCHANGED <<socks, link, stopped, asks, left, told, channels, opened, flows>>

\* A mutated form of TunnelAborted: a tunnel is detached and lives on.
TunnelAbortedUnlessRelay(c) ==
    /\ loop = "dead"
    /\ phase[c] \in (TunnelPhases \cup {"over"}) \ {"relay"}
    /\ Goto(c, "gone")
    /\ channels' = channels \ {c}
    /\ flows' = [flows EXCEPT ![c] = {}]
    /\ UNCHANGED <<forward, asks, left, told, opened>>

TunnelAborted(c) ==
    /\ loop = "dead"
    /\ phase[c] \in TunnelPhases \cup {"over"}
    /\ Goto(c, "gone")
    /\ channels' = channels \ {c}
    /\ flows' = [flows EXCEPT ![c] = {}]
    /\ UNCHANGED <<forward, asks, left, told, opened>>

-----------------------------------------------------------------------------
\* handle_socks_conn.

\* The task answers the client and goes on; the write fails when the client has
\* gone, which ends the task.
Say(c, answer, p) ==
    \/ /\ told' = [told EXCEPT ![c] = Append(@, answer)]
       /\ IF p = "over" THEN Finish(c) ELSE Goto(c, p) /\ UNCHANGED <<channels, flows>>
    \/ c \in left /\ Finish(c) /\ UNCHANGED told

Greets(c) ==
    /\ phase[c] = "greeting"
    /\ CASE "version" \in asks[c] -> Finish(c) /\ UNCHANGED told
         [] "version" \notin asks[c] /\ "methods" \in asks[c] ->
                Say(c, "no method", "over")
         [] OTHER -> Say(c, "no auth", "request")
    /\ UNCHANGED <<forward, asks, left, opened>>

\* Mutated forms of Requests: the client is told before the channel is open; a
\* refused client is served all the same.
RequestsGrant(c) ==
    /\ phase[c] = "request"
    /\ CASE "request" \in asks[c] -> Finish(c) /\ UNCHANGED told
         [] "request" \notin asks[c] /\ "address" \in asks[c] ->
                Say(c, "bad address", "over")
         [] "command" \in asks[c] /\ asks[c] \cap {"request", "address"} = {} ->
                Say(c, "bad command", "over")
         [] OTHER -> Say(c, "granted", "opening")
    /\ UNCHANGED <<forward, asks, left, opened>>

RequestsGoOn(c) ==
    /\ phase[c] = "request"
    /\ CASE "request" \in asks[c] -> Finish(c) /\ UNCHANGED told
         [] "request" \notin asks[c] /\ "address" \in asks[c] ->
                Say(c, "bad address", "opening")
         [] "command" \in asks[c] /\ asks[c] \cap {"request", "address"} = {} ->
                Say(c, "bad command", "over")
         [] OTHER -> Goto(c, "opening") /\ UNCHANGED <<told, channels, flows>>
    /\ UNCHANGED <<forward, asks, left, opened>>

Requests(c) ==
    /\ phase[c] = "request"
    /\ CASE "request" \in asks[c] -> Finish(c) /\ UNCHANGED told
         [] "request" \notin asks[c] /\ "address" \in asks[c] ->
                Say(c, "bad address", "over")
         [] "command" \in asks[c] /\ asks[c] \cap {"request", "address"} = {} ->
                Say(c, "bad command", "over")
         [] OTHER -> Goto(c, "opening") /\ UNCHANGED <<told, channels, flows>>
    /\ UNCHANGED <<forward, asks, left, opened>>

\* The client goes away, or cuts off what it was saying.
ReadFails(c) ==
    /\ phase[c] \in {"greeting", "request"}
    /\ c \in left
    /\ Finish(c)
    /\ UNCHANGED <<forward, asks, left, told, opened>>

-----------------------------------------------------------------------------
\* The channel and the relay, of either kind of forward.

Relay(c) ==
    /\ Goto(c, "relay")
    /\ flows' = [flows EXCEPT ![c] = {"up", "down"}]

Opens(c) ==
    /\ phase[c] = "opening"
    /\ link = "up"
    /\ channels' = channels \cup {c}
    /\ opened' = opened \cup {c}
    /\ IF socks THEN Goto(c, "reply") /\ UNCHANGED flows ELSE Relay(c)
    /\ UNCHANGED <<forward, asks, left, told>>

\* The remote side refuses, or the connection is gone; a client of a local forward
\* is not told.
OpenFails(c) ==
    /\ phase[c] = "opening"
    /\ IF socks THEN Say(c, "refused", "over") ELSE Finish(c) /\ UNCHANGED told
    /\ UNCHANGED <<forward, asks, left, opened>>

Grants(c) ==
    /\ phase[c] = "reply"
    /\ \/ /\ told' = [told EXCEPT ![c] = Append(@, "granted")]
          /\ Relay(c)
          /\ UNCHANGED channels
       \/ c \in left /\ Finish(c) /\ UNCHANGED told
    /\ UNCHANGED <<forward, asks, left, opened>>

\* copy_bidirectional: each side may end its flow, and an error on either side, or
\* the end of both flows, ends the task.
FlowEnds(c, dir) ==
    /\ phase[c] = "relay"
    /\ dir \in flows[c]
    /\ flows' = [flows EXCEPT ![c] = @ \ {dir}]
    /\ UNCHANGED <<forward, phase, asks, left, told, channels, opened>>

RelayOver(c) ==
    /\ phase[c] = "relay"
    /\ flows[c] = {} \/ c \in left \/ link = "lost"
    /\ Finish(c)
    /\ UNCHANGED <<forward, asks, left, told, opened>>

-----------------------------------------------------------------------------
\* The steps of a tunnel that wait for nobody who is there.
Prompt(c) ==
    \/ ReadFails(c)
    \/ link = "lost" /\ OpenFails(c)
    \/ Grants(c)
    \/ c \in left /\ FlowEnds(c, "up")
    \/ link = "lost" /\ FlowEnds(c, "down")
    \/ flows[c] = {} /\ RelayOver(c)
    \/ TunnelAborted(c)

Next ==
    \/ \E c \in Clients :
        \/ Connects(c)
        \/ Leaves(c)
        \/ Accept(c)
        \/ Reap(c)
        \/ Greets(c)
        \/ Requests(c)
        \/ ReadFails(c)
        \/ Opens(c)
        \/ OpenFails(c)
        \/ Grants(c)
        \/ \E dir \in {"up", "down"} : FlowEnds(c, dir)
        \/ RelayOver(c)
        \/ TunnelAborted(c)
    \/ LinkLost
    \/ Stop
    \/ AcceptFails
    \/ BackoffOver
    \/ LoopAborted

Spec == Init /\ [][Next]_vars

\* A task that is ready runs, a sleep ends, and select! takes a branch at random of
\* those that are ready.  Nothing is assumed of a client or of a remote host that
\* is there, nor that accepting goes well.
FairSpec ==
    /\ Spec
    /\ WF_vars(LoopAborted) /\ WF_vars(BackoffOver)
    /\ \A c \in Clients : SF_vars(Accept(c)) /\ SF_vars(Reap(c)) /\ WF_vars(Prompt(c))

-----------------------------------------------------------------------------
\* A client of the SOCKS proxy is told the truth, once: "granted" when its channel
\* is open and before any byte is copied, "refused" when the channel could not be
\* opened, and a complaint only about a request that deserves it.
AnswersHonest ==
    \A c \in Clients :
        LET said == {told[c][i] : i \in 1..Len(told[c])}
        IN  /\ Cardinality(said \ {"no auth"}) <= 1
            /\ "granted" \in said => asks[c] = {} /\ c \in opened
            /\ "refused" \in said => asks[c] = {} /\ c \notin opened
            /\ said \cap {"no method", "bad address", "bad command"} # {} => asks[c] # {}
            /\ socks /\ phase[c] = "relay" => told[c] = <<"no auth", "granted">>

\* Stopping a forward ends its loop, its tunnels and their channels, whatever they
\* wait for: nothing that the loop accepted is left behind (the comment on
\* RusshPortForward).
StopTearsDown ==
    stopped ~> /\ loop = "dead"
               /\ channels = {}
               /\ \A c \in Clients : phase[c] \in {"away", "gone"}

\* Unless accepting fails for ever, every client is accepted, even when all others
\* fall silent in the middle of their greeting; and a tunnel with nobody left at
\* either end goes by itself and is reaped.
LoopServes ==
    <>[](loop # "backoff") =>
        \A c \in Clients :
            /\ phase[c] = "backlog" ~> phase[c] # "backlog"
            /\ (phase[c] \in TunnelPhases /\ c \in left /\ link = "lost") ~> phase[c] = "gone"
=============================================================================
