----------------------------- MODULE ShellPipe ------------------------------
(***************************************************************************)
(* The way of a byte through an open terminal: the pump of                 *)
(* crates/ssh/src/shell.rs between the SSH channel and two bounded queues, *)
(* the facade (shell_pump in crates/ui/src/backend.rs) between these and   *)
(* the webview, a third bounded queue into which the command loop puts     *)
(* what the user types, and the task that types the sudo command and its   *)
(* password.                                                               *)
(*                                                                         *)
(* Each of the two tasks waits for whichever comes first, output or input, *)
(* and hands on what it took before it looks again: the pump may wait for  *)
(* room in the output queue while the facade waits for room in the input   *)
(* queue.  Output is counted in messages of the channel.  A window that    *)
(* the remote side never opens is a write that never ends.                 *)
(***************************************************************************)
EXTENDS Naturals, Sequences

CONSTANTS OutCap,    \* room in the queue to the facade (256)
          CmdCap,    \* room in the queue to the pump (64)
          InCap,     \* room in the queue from the command loop (64)
          MaxOut,    \* bound: messages of output
          MaxIn,     \* bound: pieces of input
          Sudo       \* "Connect with sudo", with a password

ASSUME ShellAssumption ==
    /\ OutCap \in Nat \ {0} /\ CmdCap \in Nat \ {0} /\ InCap \in Nat \ {0}
    /\ MaxOut \in Nat /\ MaxIn \in Nat
    /\ Sudo \in BOOLEAN

VARIABLES
    link,       \* whether the connection is up
    entry,      \* this session in the map of sessions: not yet, there, taken out
    aborted,    \* "disconnect" has aborted the facade
    pump,       \* the pump task: "select", "handing", "writing", "done"
    inHand,     \* the output it hands over (its number and kind), or <<>>
    writes,     \* the input it writes to the channel, or <<>>
    facade,     \* the facade task: "select", "writing", "done"
    passes,     \* the input it passes on to the pump, or <<>>
    out,        \* the three queues
    cmds,
    typed,
    sudo,       \* the sudo task: "cmd", "pw", "done"
    closed,     \* the webview was told "closed"
    received,   \* history: messages of output the pump has read
    shown,      \* history: what the webview was given
    accepted,   \* history: what got into the queue of the command loop
    delivered   \* history: what the remote side was given

tasks == <<pump, inHand, writes, facade, passes, sudo>>
queues == <<out, cmds, typed>>
history == <<received, shown, accepted, delivered>>
vars == <<link, entry, aborted, tasks, queues, closed, history>>

\* Input of the user (typed or pasted), a new size of the terminal, and the two
\* lines of the sudo task.
Kinds == {"keys", "size", "cmd", "pw"}
Inputs == [kind : Kinds, n : 1..(MaxIn + 2)]

TypeOK ==
    /\ link \in {"up", "lost"}
    /\ entry \in {"none", "live", "gone"}
    /\ aborted \in BOOLEAN
    /\ pump \in {"select", "handing", "writing", "done"}
    /\ inHand \in [n : 1..MaxOut, err : BOOLEAN] \cup {<<>>}
    /\ writes \in Inputs \cup {<<>>}
    /\ facade \in {"select", "writing", "done"}
    /\ passes \in Inputs \cup {<<>>}
    /\ out \in Seq(1..MaxOut) /\ Len(out) <= OutCap
    /\ cmds \in Seq(Inputs) /\ Len(cmds) <= CmdCap
    /\ typed \in Seq(Inputs) /\ Len(typed) <= InCap
    /\ sudo \in {"cmd", "pw", "done"}
    /\ closed \in BOOLEAN
    /\ received \in 0..MaxOut
    /\ shown \in Seq(1..MaxOut)
    /\ accepted \in Seq(Inputs)
    /\ delivered \in Seq(Inputs)

Init ==
    /\ link = "up"
    /\ entry = "none"
    /\ aborted = FALSE
    /\ pump = "select"
    /\ inHand = <<>>
    /\ writes = <<>>
    /\ facade = "select"
    /\ passes = <<>>
    /\ out = <<>> /\ cmds = <<>> /\ typed = <<>>
    /\ sudo = IF Sudo THEN "cmd" ELSE "done"
    /\ closed = FALSE
    /\ received = 0
    /\ shown = <<>> /\ accepted = <<>> /\ delivered = <<>>

-----------------------------------------------------------------------------
\* The command loop, and the tasks that connect.

Register ==
    /\ entry = "none"
    /\ entry' = "live"
    /\ UNCHANGED <<link, aborted, tasks, queues, closed, history>>

\* A sender of the facade's queue is alive: the entry's, the connecting task's
\* before it registers, the sudo task's.
InputOpen == entry # "gone" \/ sudo # "done"

\* The queue of the command loop takes a piece of input.
Accept(kind) ==
    LET piece == [kind |-> kind, n |-> Len(accepted) + 1]
    IN  /\ typed' = Append(typed, piece)
        /\ accepted' = Append(accepted, piece)

\* "input", "paste", "resize": try_send drops the piece when the queue is full or
\* the facade has ended, which changes nothing here.
TypeInput ==
    /\ entry = "live"
    /\ facade # "done"
    /\ Len(typed) < InCap
    /\ Len(accepted) < MaxIn
    /\ \E kind \in {"keys", "size"} : Accept(kind)
    /\ UNCHANGED <<link, entry, aborted, tasks, out, cmds, closed, received, shown,
                   delivered>>

\* The sudo task, after its pause: it waits for room, and a send to a facade that
\* has ended fails without a word.
SudoTypes ==
    /\ sudo # "done"
    /\ sudo' = IF sudo = "cmd" THEN "pw" ELSE "done"
    /\ \/ facade # "done" /\ Len(typed) < InCap /\ Accept(sudo)
       \/ facade = "done" /\ UNCHANGED <<typed, accepted>>
    /\ UNCHANGED <<link, entry, aborted, pump, inHand, writes, facade, passes, out,
                   cmds, closed, received, shown, delivered>>

\* "disconnect": the entry goes, the facade is aborted, and a task of its own
\* closes the connection.
Disconnect ==
    /\ entry = "live"
    /\ entry' = "gone"
    /\ aborted' = TRUE
    /\ UNCHANGED <<link, tasks, queues, closed, history>>

CloseConnection ==
    /\ aborted
    /\ link' = "lost"
    /\ UNCHANGED <<entry, aborted, tasks, queues, closed, history>>

\* Another connect of the same key registers over this entry.
Replaced ==
    /\ entry = "live"
    /\ entry' = "gone"
    /\ UNCHANGED <<link, aborted, tasks, queues, closed, history>>

LinkLost ==
    /\ link' = "lost"
    /\ UNCHANGED <<entry, aborted, tasks, queues, closed, history>>

-----------------------------------------------------------------------------
\* RusshShell::spawn: the pump.

\* The task is over: its ends of the queues go, and with them the input that it
\* has not written.
PumpEnds == pump' = "done" /\ cmds' = <<>>

\* A message of output, from the program's stdout or its stderr.
PumpReads ==
    /\ pump = "select"
    /\ received < MaxOut
    /\ received' = received + 1
    /\ \E err \in BOOLEAN : inHand' = [n |-> received + 1, err |-> err]
    /\ pump' = "handing"
    /\ UNCHANGED <<link, entry, aborted, writes, facade, passes, sudo, queues, closed,
                   shown, accepted, delivered>>

\* Mutated forms of PumpHands: it does not wait for room, and drops the output of
\* a full queue; or the queue has no bound.
PumpHandsTry ==
    /\ pump = "handing"
    /\ facade # "done"
    /\ out' = IF Len(out) < OutCap THEN Append(out, inHand.n) ELSE out
    /\ pump' = "select"
    /\ inHand' = <<>>
    /\ UNCHANGED <<link, entry, aborted, writes, facade, passes, sudo, cmds,
                   typed, closed, history>>

PumpHandsUnbounded ==
    /\ pump = "handing"
    /\ facade # "done"
    /\ out' = Append(out, inHand.n)
    /\ pump' = "select"
    /\ inHand' = <<>>
    /\ UNCHANGED <<link, entry, aborted, writes, facade, passes, sudo, cmds, typed,
                   closed, history>>

PumpHands ==
    /\ pump = "handing"
    /\ facade # "done"
    /\ Len(out) < OutCap
    /\ out' = Append(out, inHand.n)
    /\ pump' = "select"
    /\ inHand' = <<>>
    /\ UNCHANGED <<link, entry, aborted, writes, facade, passes, sudo, cmds,
                   typed, closed, history>>

\* The facade has ended: stdout ends the pump, stderr is thrown away.
PumpHandsNobody ==
    /\ pump = "handing"
    /\ facade = "done"
    /\ IF inHand.err THEN pump' = "select" /\ UNCHANGED cmds ELSE PumpEnds
    /\ inHand' = <<>>
    /\ UNCHANGED <<link, entry, aborted, writes, facade, passes, sudo, out,
                   typed, closed, history>>

\* Eof or Close.
PumpEof ==
    /\ pump = "select"
    /\ PumpEnds
    /\ UNCHANGED <<link, entry, aborted, inHand, writes, facade, passes, sudo, out,
                   typed, closed, history>>

\* A mutated form of PumpLinkGone: the end of the connection is not seen.
PumpLinkGoneUnseen == FALSE /\ UNCHANGED vars

\* The connection is gone: wait() returns nothing.
PumpLinkGone ==
    /\ pump = "select"
    /\ link = "lost"
    /\ PumpEnds
    /\ UNCHANGED <<link, entry, aborted, inHand, writes, facade, passes, sudo, out,
                   typed, closed, history>>

PumpTakes ==
    /\ pump = "select"
    /\ cmds # <<>>
    /\ writes' = Head(cmds)
    /\ cmds' = Tail(cmds)
    /\ pump' = "writing"
    /\ UNCHANGED <<link, entry, aborted, inHand, facade, passes, sudo, out, typed,
                   closed, history>>

\* The facade has gone, and what it had sent is written.
PumpNoInput ==
    /\ pump = "select"
    /\ cmds = <<>>
    /\ facade = "done"
    /\ PumpEnds
    /\ UNCHANGED <<link, entry, aborted, inHand, writes, facade, passes, sudo, out,
                   typed, closed, history>>

\* The remote side takes the input.
RemoteTakes ==
    /\ pump = "writing"
    /\ link = "up"
    /\ delivered' = Append(delivered, writes)
    /\ pump' = "select"
    /\ writes' = <<>>
    /\ UNCHANGED <<link, entry, aborted, inHand, facade, passes, sudo, queues,
                   closed, received, shown, accepted>>

\* The write fails, which for a new size means nothing.
WriteFails ==
    /\ pump = "writing"
    /\ link = "lost"
    /\ IF writes.kind = "size" THEN pump' = "select" /\ UNCHANGED cmds ELSE PumpEnds
    /\ writes' = <<>>
    /\ UNCHANGED <<link, entry, aborted, inHand, facade, passes, sudo, out,
                   typed, closed, history>>

-----------------------------------------------------------------------------
\* shell_pump: the facade.

FacadeEnds == facade' = "done" /\ passes' = <<>> /\ out' = <<>> /\ typed' = <<>>

FacadeShows ==
    /\ facade = "select"
    /\ out # <<>>
    /\ shown' = Append(shown, Head(out))
    /\ out' = Tail(out)
    /\ UNCHANGED <<link, entry, aborted, tasks, cmds, typed, closed, received, accepted,
                   delivered>>

\* No more output: the entry is taken out and the webview told.
FacadeSaysClosed ==
    /\ facade = "select"
    /\ out = <<>>
    /\ pump = "done"
    /\ closed' = TRUE
    /\ entry' = IF entry = "none" THEN "none" ELSE "gone"
    /\ FacadeEnds
    /\ UNCHANGED <<link, aborted, pump, inHand, writes, sudo, cmds, history>>

FacadeTakes ==
    /\ facade = "select"
    /\ typed # <<>>
    /\ passes' = Head(typed)
    /\ typed' = Tail(typed)
    /\ facade' = "writing"
    /\ UNCHANGED <<link, entry, aborted, pump, inHand, writes, sudo, out, cmds, closed,
                   history>>

\* A mutated form of FacadeWrites: it waits for a pump that has ended, too.
FacadeWritesForEver ==
    /\ facade = "writing"
    /\ pump # "done"
    /\ Len(cmds) < CmdCap
    /\ cmds' = Append(cmds, passes)
    /\ facade' = "select"
    /\ passes' = <<>>
    /\ UNCHANGED <<link, entry, aborted, pump, inHand, writes, sudo, out, typed,
                   closed, history>>

\* write_input and resize: they wait for room; a pump that has ended is an error
\* that is ignored.
FacadeWrites ==
    /\ facade = "writing"
    /\ \/ pump # "done" /\ Len(cmds) < CmdCap /\ cmds' = Append(cmds, passes)
       \/ pump = "done" /\ UNCHANGED cmds
    /\ facade' = "select"
    /\ passes' = <<>>
    /\ UNCHANGED <<link, entry, aborted, pump, inHand, writes, sudo, out, typed,
                   closed, history>>

\* Nobody can type any more: the facade ends without a word.
FacadeNoInput ==
    /\ facade = "select"
    /\ typed = <<>>
    /\ ~InputOpen
    /\ FacadeEnds
    /\ UNCHANGED <<link, entry, aborted, pump, inHand, writes, sudo, cmds,
                   closed, history>>

\* The abort takes effect wherever the facade waits.
FacadeAborted ==
    /\ aborted
    /\ facade # "done"
    /\ FacadeEnds
    /\ UNCHANGED <<link, entry, aborted, pump, inHand, writes, sudo, cmds,
                   closed, history>>

-----------------------------------------------------------------------------
World == Register \/ TypeInput \/ Disconnect \/ Replaced \/ LinkLost
         \/ PumpReads \/ PumpEof \/ RemoteTakes

PumpStep == PumpHands \/ PumpHandsNobody \/ PumpLinkGone \/ PumpNoInput \/ WriteFails

FacadeStep == FacadeSaysClosed \/ FacadeWrites \/ FacadeNoInput \/ FacadeAborted

Next ==
    \/ World
    \/ SudoTypes
    \/ CloseConnection
    \/ PumpStep
    \/ PumpTakes
    \/ FacadeStep
    \/ FacadeShows
    \/ FacadeTakes

Spec == Init /\ [][Next]_vars

\* A task that can go on does, and select! takes a branch at random of those that
\* are ready, so that one which is ready again and again is taken.  Nothing is
\* assumed of the user, the remote side or the network.
FairSpec ==
    /\ Spec
    /\ WF_vars(PumpStep) /\ WF_vars(FacadeStep) /\ WF_vars(CloseConnection)
    /\ SF_vars(PumpLinkGone) /\ SF_vars(PumpTakes)
    /\ SF_vars(FacadeShows) /\ SF_vars(FacadeTakes)

-----------------------------------------------------------------------------
\* Both directions keep their order and lose nothing in the middle, whatever is
\* full and whoever waits, and "closed" is the last the webview hears of a shell
\* that ended by itself, after all of its output.
Output == INSTANCE Fifo WITH Pieces <- 1..MaxOut,
                             sent <- [i \in 1..received |-> i],
                             got <- shown,
                             over <- closed
Input == INSTANCE Fifo WITH Pieces <- Inputs,
                            sent <- accepted,
                            got <- delivered,
                            over <- FALSE
ImplementsFifo == Output!Spec /\ Input!Spec

\* Pump and facade wait for each other.
Wedged ==
    /\ pump = "handing" /\ Len(out) = OutCap
    /\ facade = "writing" /\ Len(cmds) = CmdCap

\* What the pump has read gets to the screen, if the remote side goes on taking
\* its input, unless the facade is ended or the two queues are full at once.
OutputShown ==
    []<>(pump # "writing") =>
        \A n \in 1..MaxOut :
            received >= n ~> Len(shown) >= n \/ facade = "done" \/ Wedged

\* Closing the tab ends both tasks, even when they wait for each other or for a
\* remote side that takes nothing.  A lost connection ends them too, unless they
\* wait for each other: the pump that hands over output does not look at it.
TasksEnd ==
    /\ aborted ~> pump = "done" /\ facade = "done"
    /\ link = "lost" ~> (pump = "done" /\ facade = "done") \/ Wedged
=============================================================================
