# HopTerm: TLA+ models, checks and proofs

HopTerm is a desktop SSH client with multi-hop routes: a Rust backend on a tokio
runtime and a webview that talks to it in JSON commands and events. This
directory models the backend's own logic, and the tabs on top of it — what happens when its tasks, its user,
its disk and its network interleave — model-checks it with TLC and proves the
main safety properties with TLAPS.

    tlc -config sessions.cfg MCSessions      # any run of the table below
    tlapm SessionsProofs.tla                 # any module named ...Proofs

Paths below are relative to `src/crates/`.

## 1. The system

| component | state it keeps | operations | interacts by |
|---|---|---|---|
| command loop (`ui/src/backend.rs`, `run`) | nothing of its own; handles one webview command at a time | one arm per command | takes the shared maps' mutexes, spawns tasks |
| sessions (`backend.rs`, `app/src/lib.rs`) | `sessions` by key, `SessionManager.sessions` by id | connect, disconnect, open shell, close; a connect task and a shell pump per session | maps under mutexes, an input channel into the pump, abort handles |
| port forwards (`backend.rs`, `ssh/src/lib.rs`) | `forwards` by id | start (local, SOCKS, desktop), stop, stop all of a key | a task that takes `forwards` and then `sessions` |
| config store (`storage/src/lib.rs`) | `config.json`, `config.tmp`, a legacy `config.toml`, the key in memory | load, save, delete, migrate, seal, unseal, unlock | files; the command loop and the unlock task |
| host keys and credentials (`security/src/lib.rs`, `storage/src/lib.rs`) | `known_hosts`, the list of pins, the cache of secrets | check, remember, password, passphrase | shared by all connect tasks; asks the user through the webview |
| transport (`ssh/src/lib.rs`) | one chain of handles per connection | connect node by node: handshake, host key, authentication | calls the verifier and the credential store |
| host list (`backend.rs`) | `profiles` in memory, the config on disk | save, delete, export, import, resolve references | the store; the unlock task publishes into it |
| transfers (`ui/src/rsync.rs`, `backend.rs`, `transfer/src/lib.rs`) | `transfers` (cancel tokens), helper files on disk | start, cancel, retry, fall back to SFTP | a child process; the session's SFTP channel |
| shell channel (`ssh/src/shell.rs`, `backend.rs`, `shell_pump`) | three bounded queues, what each task holds in hand | hand on output, hand on input, type, end | the SSH channel, the command loop, the webview |
| exec streams and the glob download (`ssh/src/lib.rs`, `backend.rs`) | a bounded queue of chunks, the exit status seen | list, stream, unpack, cancel, report | a remote tar, a blocking thread, the map `transfers` |
| forward data path and SOCKS (`ssh/src/lib.rs`) | the accept loop and the tunnels it owns | accept, back off, greet, request, open, relay, reap, stop | local sockets, channels of the connection |
| webview (`ui/web/index.html`) | tabs, dialogs, cards | sends commands, renders events | two queues |

What is hard here: every handler releases its locks before the slow part and the
world changes meanwhile (a session replaced while a forward binds, a key pinned
while the user is asked); teardown is done by whoever notices first, by key;
several tasks share one file and one temp file; two tasks with bounded queues in
both directions may wait for each other; an operation may fail or the
process may die between two file steps; a transfer decides again and again
whether to go on. PROJECT.json lists each hazard at its line.

What makes the components correct, in one line each:

* sessions and forwards: no forward without a session, no open tab without its
  connection, everything taken out of the maps is released;
* store: an edit happens whole, once, on the current document, or not at all;
  encryption changes only on request;
* host keys and credentials: no secret before trust, no pin without a yes;
* host list: a route that was usable stays usable unless its own host is edited;
* transfers: cancel works and wins, secrets on disk go, retrying ends;
* shell channel: what goes in comes out, in order, and the end comes last;
* glob download: "done" is said of a whole archive only, and it always ends;
* forward data path: SOCKS answers are true, a stopped forward leaves nothing, no
  client holds up the others.

## 2. The modules

| module | models | checked by | proved in |
|---|---|---|---|
| `SessionLife` | what the session layer shows of itself (abstract) | through `Sessions` | |
| `Sessions` | sessions, pumps, forwards, the forwards mutex; implements `SessionLife` | `MCSessions` | `SessionsProofs` |
| `Tabs` | the webview's tabs over `SessionLife` and the two queues | `MCTabs` | `TabsProofs` |
| `AtomicDoc` | what a store promises (abstract) | through `ConfigStore` | |
| `ConfigStore` | the config file step by step, the PIN flow, crashes; implements `AtomicDoc` | `MCConfigStore` | `HostsProofs` |
| `Profiles` | the constants that the store and the host list share | | |
| `Connect` | connect tasks over routes, host keys, `known_hosts`, secrets, restarts | `MCConnect` | `ConnectProofs` |
| `Catalogue` | the host list and its reference algorithms | `MCCatalogue` | `HostsProofs` |
| `CopyJob` | what a copy promises: a card, a token, one last word (abstract) | through `Transfers` and `GlobDownload` | |
| `Transfers` | the rsync job and its fallback, which implements `CopyJob` | `MCTransfers` | `TransfersProofs` |
| `Fifo` | what one direction of a terminal promises (abstract) | through `ShellPipe`, twice | |
| `ShellPipe` | the two pumps of a terminal and their three queues; implements `Fifo` both ways | `MCShellPipe` | `ShellPipeProofs` |
| `GlobDownload` | the archive stream, its queue and its extractor; implements `CopyJob` | `MCGlobDownload` | `GlobDownloadProofs` |
| `Tunnels` | a forward's accept loop and its tunnels, with the SOCKS dialogue | `MCTunnels` | `TunnelsProofs` |

`PROJECT.json` maps every modelling definition to its lines.

### SessionLife and Sessions
`SessionLife` keeps of the sessions what the webview and the commands can tell
apart: the map, the progress of each attempt, and each pump. An entry comes only
from its own attempt; a pump ends with a report, or silently once its session is
out of the map. `Sessions` has everything behind that.

`sessions` is the backend's map from session key to the entry, an entry being
named by its connection attempt; `manager` is the `SessionManager`'s map; `task`
and `pump` are the program counters of `spawn_connect` and `shell_pump`; `fwd` is
that of a forward's task. A critical section under one mutex is one step. The
forwards mutex is explicit (`fwLock`): a forward task holds it while it takes the
sessions mutex, and `stop_forwards_for` waits for it, so that the order "sessions
first, forwards second" of a teardown and "forwards first, then ask the
sessions" of a start meet as in the code. `DisconnectTake`/`DisconnectStop` are
the two halves of "disconnect", `PumpReadEnd`/`PumpStop` those of the pump's end,
`CloseForget`/`CloseDisconnect` those of `SessionManager::close`. The second half
of close is also what tells the pump of a registered session that its shell is
over. An aborted pump may still finish the poll it is in (`PumpReadEnd` has no
guard on `aborted`), or end without a word (`PumpQuiet`), which is also what
happens when its last input sender is dropped. `typing` is the sudo task that
holds a second sender.

### Tabs
The script of the webview (`tab`, `pending`, `timers`), the queue of commands
(`cmds`), the queue of events (`events`), and `SessionLife` behind them. Every step
of the sessions that the code accompanies with an event is taken together with it
(`ConnectOk` emits a state that is live, `PumpReports` is "closed"); only "connected"
is emitted a step after the entry is made (`unsaid`), because the two are not under
one mutex and the pump may report in between. `OpenTab`, `CloseTab`, `RunOnLive`,
`RunDeferred` are the clicks, `On...` the arms of `onEvent`, `Connect...` the arms of
"connect". `tab` tells `live` apart, and of a tab that is not live whether its text
shows a connect under way. Hosts are not edited here; a key outside `Hosts` is a
quick command whose host was deleted, for which the backend answers nothing: its tab
says nothing for ever. The two waits of the disconnect handler and the sudo task
are below this level, `HOPTERM_AUTOCONNECT` (an attempt that no tab asked for) is
left out.

### AtomicDoc and ConfigStore
A document maps profile ids to contents. A file is absent, broken (it claims to
be an envelope and is none) or an image: a document and the key it is sealed
under. `pc` walks through `read_doc`, the migration of a `config.toml`, the edit,
`atomic_write` (temp file, rename) and the cleanup; every step may be the last one
before a `Crash`, every write may fail. Unlock tasks run beside it: an answer reads
the envelope and derives the key (`Answer`), and the key is stored later
(`Unlock`). `AtomicDoc` has one document and at most one request, which takes
effect in one step or not at all; the refinement mapping takes the document a
reader would find on disk (`DiskDoc`) and counts a request as done from the
rename on. `legacy` and `config` may both exist after a crash in the migration:
`DiskDoc` says which counts. `Crash` is the death of the process, not of the
machine: what was written stays written (the code does no fsync and promises
nothing about power loss). `config.toml.bak`, which nobody reads, is left out.

### Connect
A task of `Conns` goes through `Route[c]` node by node: `Handshake` (the server
presents any key), the three outcomes of `check` under each `TrustPolicy`, the
user's answer, `KnownHostsFile::append` call by call plus `Pin`, then
the secret from cache, stored password or dialog, and the login. The production
code passes the default policy; the other two are modelled because the verifier
implements them. `Restart`
reads the pins anew, possibly from an unreadable file, which counts as empty.
`Seed` changes the stored passwords, the nodes keeping their ids and their way to
authenticate (`ByPassword`: only those have a stored password, `backend.rs:1507-1519`,
and only the others may do without a secret). `old` and
`granted` are history: the pins of the first start and the questions answered
with yes.

`tmp` is the one temporary file that all writers share. `AppendLoads` makes the text to
write (`image`), `AppendOpens` is the open of `fs::write`, which empties the file for
everybody who has it open, `AppendPuts` writes part of the text and `AppendWrites` the
rest, `AppendRenames` renames whatever is at `known_hosts.tmp` by then, or finds nothing
there. `open` says where the file is now that a task has open: a rename takes it along,
so that a task may write on in `known_hosts` itself (`"file"`), or in a file that has no
name any more (`"nowhere"`). A write that fails, or that the end of the process cuts
short, leaves behind what was written by then. `crossed` is history: whether two tasks
have been in the temporary file at once.

Of a file the model keeps what `load` makes of it: the first key for each node. What
several writers leave in one file is given by what may be in it, not byte by byte.
`Splices` is a file in which a part of a text was put over another: each node has the
key of the one, the key of the other or none, and where the new text ends inside a line,
that line is cut in its fingerprint, `Torn`, which still parses
(`storage/src/lib.rs:401-417`), or goes on with the rest of a line of the other, which
may give its node the key of another node. `Over` is the same once the text is all there:
lines of a longer one may be left behind it, the first of them without its beginning.
`Begins` excludes joined lines where what is in the file is the writer's own text so
far. `Accounted` is what is left of a vouched key then: vouched for that node, or, after
two tasks were in the file at once, for some node. The order of lines is left out (each
load may find any that `load` could prefer), and so is a cut that gives a fingerprint no
key has, other than as `Torn`; a lost machine is, as in `ConfigStore`, not a lost process.

### Catalogue
A host is the set of hosts its route refers to; a list is a function from ids.
`Expand` is `expand_hop` with its path, a recursive function over the chains that the
recursion may meet (a list, a host, the path that led there); `Closed` is
`ref_closure`, round by round, and `RefClosure` its result. `mem` and
`disk` are edited together, an import host by host. Demo hosts are in memory
only; their ids are fresh at each start, which the model has as ids that come
back only while the disk is empty and so is referred to by nobody.

### Transfers
A transfer has two jobs at most, `rsync` and then `sftp`, each with a card in the
webview and a token in the `transfers` map. `Job::run` is `LoopHead`, `SpawnOk`,
`Progress`, `AttemptEof` or `AttemptKilled`, then `AttemptEnds`, and then exactly one of the outcomes
of `AttemptOver`, `RetryMoved`, `RetryFruitless`, `RetryGivesUp`; `launch` is `Start`,
`Release`, `Report`. How an attempt ends is free (`Outcomes`), which covers every
exit code and message `classify` tells apart. A cancel reaches a job only while its
token is in the map and is noticed only where the code looks: not in the stage `"reaping"`,
where the job waits for its child and then for the end of the child's stderr. The pipe
of that is inherited by the ssh that rsync starts, which the kill of rsync does not
reach, so that `AttemptEnds` may be a long time coming. The
copy over SFTP that takes over (`start_transfer`, `RusshSftp::upload` and `download`) goes
chunk by chunk: `CopyHead` looks at the token, `CopyReads`, `CopyWrites`, `CopyFlushes`
may each fail or take for ever. That of a wildcard is one step here and has a module of
its own, `GlobDownload`. `Copy(x)` is `CopyJob` seen in either, from the moment the rsync
job hands over. `early` is history: the jobs whose token was cancelled while they
were still to look at it.

### Fifo and ShellPipe
An open terminal is two tasks. The pump (`shell.rs`) reads the SSH channel into a queue
of output and takes input out of a queue of commands; the facade (`shell_pump`) shows
the output and passes on what the command loop, and the sudo task, put into the
queue of typed input. Each waits for whichever is ready first (`"select"`) and then
hands on what it took (`"handing"`, `"writing"`; `inHand`, `writes`, `passes`) before it
looks again. So the pump may wait for room in the output queue while the facade waits
for room in the command queue: `Wedged`. `TypeInput` is a `try_send` that found room
(one that did not changes nothing), `SudoTypes` is a `send` that waits. `PumpHandsNobody`
tells stdout from stderr as the code does: a facade that has gone ends the pump on the
former only. `Disconnect`, `Replaced` and `Register` are what the session layer does to a
terminal; which session is whose is the subject of `Sessions`. `Fifo` is instantiated
once for the output (`sent` is what the pump read, `got` what was shown, `over` is
"closed") and once for the input.

### GlobDownload
The archive is `Chunks` chunks; `script` is what the remote side sends, the exit
status before or after Eof, as an SSH server may choose. `mark` is the chunk with the
tar's end mark: the last, or the one before it when the gzip trailer has a chunk of
its own; the extractor stops there and needs everything up to there. `stage` walks
through listing, opening, and the loop of check, wait and send, then `Join`: the
sender is dropped and the extractor awaited. `ExtractEnds` is enabled only when
the sender has gone, which is what makes the order of these two matter.
`GlobMatch` is `glob_match` as a recursive function over the two strings; `pattern` is the
one asked for, dropped when the directory has been listed.

### Tunnels
`loop` is the accept loop, `phase` says where the connection of each client is: in the
backlog, in a step of `handle_socks_conn`, relaying, over, reaped. `asks` is what
is wrong with the client's greeting or request. A tunnel ends by its own steps or
by `TunnelAborted`, which is what the drop of the loop's `JoinSet` does. The link may go
at any time.

## 3. The runs

| run | instance | result |
|---|---|---|
| `sessions` | 2 keys, 2 attempts, 1 forward; fair | passes: `TypeOK`, `ForwardsHaveSession`, `SessionsHaveConnection`, `OrphanForwardsReaped`, `DisconnectReleases`, `ImplementsLife` |
| `sessions_reconnect` | 1 key, 2 attempts | violates `NeverReconnect` |
| `tabs` | 1 host, 1 deleted host, 2 attempts, 1 quick command, queues of 2 | passes: `TypeOK`, `NoTabForgotten`, `CommandOnce` |
| `store` | 2 ids, 2 contents, 2 pins, 1 salt, 2 unlock tasks | passes: `TypeOK`, `KeepsPromise`, `NoSilentUnseal`, `BrokenNeverClobbered` |
| `connect` | 2 nodes, one with a password and one with a key file, 2 host keys, 1 secret, 2 tasks: one reaches the other's target through a hop | passes: `TypeOK`, `NoSecretBeforeTrust`, `PinsVouched` |
| `connect_pin` | the same with 1 host key | violates `TrustedIsOnDisk` |
| `catalogue` | 3 hosts, one of them a demo host, 2 references per route | passes: `CatalogueOK`, `ResolveIsSound`, `EditsSpareOthers`, `ExportCarriesRefs`, `ImportKeepsRoutes` |
| `transfers` | 1 transfer of 3 chunks, 8 fruitless attempts as in the code; fair | passes: `TypeOK`, `ReleasedOnEveryPath`, `CancelWins`, `ImplementsCopy`, `CancelledEnds`, `EveryTransferEnds` |
| `shell` | queues of 1, 3 messages of output, 2 pieces typed, sudo with a password; fair | passes: `TypeOK`, `ImplementsFifo`, `OutputShown`, `TasksEnd` |
| `glob` | 4 chunks, queue of 2; fair | passes: `TypeOK`, `DoneIsWhole`, `GlobMatchSound`, `ImplementsCopy`, `DownloadEnds` |
| `glob_exit` | 3 chunks, otherwise the same | violates `FailureSurfaces` |
| `tunnels` | 2 clients, either kind of forward, at most 1 fault per client; fair | passes: `TypeOK`, `AnswersHonest`, `StopTearsDown`, `LoopServes` |

**Why the bounds are enough.** `Sessions`: two attempts are what it takes for a
race for one key, for a reconnect behind a teardown and for a teardown beside
another key; the properties speak of one key and one forward at a time. The safety
ones are proved for any number; so are all the safety properties of the other
modules. `Tabs`: two attempts overlap or follow each other, and two commands and
two events under way let a close and a reopen meet old news (the properties also
pass with queues of three). `ConfigStore`: two profiles tell a lost edit from
a kept one, two unlock tasks race with each other and with a switch of the pin;
one salt suffices because a second pin already gives a second key. `Connect`: the
two routes share a node, so that pins, secrets and the temp file are contended;
the node they share has a password, so that cache, profile and dialog
are all used for it, and the hop has a key file with or without a passphrase;
two keys let a server change its key; they are symmetric (`KeySymmetry`), being
compared and never looked into, and the run checks no liveness. `Catalogue`: three hosts are the smallest
graph with a shared hop, a chain of two references and a cycle through a third
host. `Transfers`: transfers share nothing but the map of tokens, which is keyed
by job, so one is enough; three chunks allow an attempt to fall short of, to reach
and to pass the high-water mark. `ShellPipe`: a queue of one is full after one piece, so
every wait for room happens, and three messages fill the output queue, the pump's
hand and leave one to read; the state where both tasks wait is reached. `GlobDownload`:
a queue of two under four chunks is full, holds chunks when either side gives
up, and leaves some in the stream; `GlobMatchSound` takes every pattern and name of up to
three characters over two letters. `Tunnels`: one client that is silent and one
that is served; a client's first fault ends it, so a second one could not show. The
pools (`Conns`, `Fwds`, `Tasks`, each element
of the first two used once), `MaxRefs`, `MaxCmds` and `MaxEvents` (the lengths of
queues that the code does not bound) are the only bounds; `Size` and
`MaxFruitless` are parameters of the code or its input.

**Deadlock** is checked where the system goes on for ever (`store`, `connect`,
`catalogue`: a restart is always possible). In `sessions*` and `tabs` the pools run out, and
in `transfers`, `shell`, `glob*` and `tunnels` the thing modelled ends.

**Fairness.** `Sessions` assumes that a std mutex is handed on and that tokio runs
ready tasks: weak fairness of the steps that wait for neither network nor user —
stopping the forwards, forgetting a connection, an aborted pump, the insert under
the forwards mutex. Nothing is assumed of connects, shells, the user, or a pump
that nobody aborted, which may hang in `write_input`. `Transfers` assumes that the
task's own steps and timers happen: `Prompt`. Nothing is assumed of a child, killed or
not, of those who hold its stderr, or of a server. So `CancelledEnds` has the premise that a job does not
wait for ever for a child that is gone or for its stderr, and `EveryTransferEnds` that
nothing outside goes on for ever. `ShellPipe` and `Tunnels` assume weak
fairness of a task that can go on, and strong fairness of a branch of `tokio::select!`,
because it picks at random among the branches that are ready: a branch that is
ready again and again is taken with probability one. Nothing is assumed of the
remote side; `OutputShown` has the premise that it does not stop taking
input, and excepts the state in which the two tasks wait for each other, which the
code reaches. `LoopServes` has the premise that accepting does not fail for ever.
`GlobDownload` assumes weak fairness of the task and of the blocking thread, and
`DownloadEnds` has the premise that the server does not fall silent for ever, neither when the
channel of the tar is opened (`OpenOk` and `OpenFails` are its answer, and no step of the task)
nor in the stream: the job
looks at the cancel token only between chunks.

### What the violations show

1. `NeverReconnect` — "connect" looks for a session, and its task inserts one much
   later without looking again. Two connects of one key both register; the
   first one's connection stays in the manager for good. The header of
   `backend.rs` (:4-5) says "never a reconnect".
2. `TrustedIsOnDisk` — two keys accepted at once: `KnownHostsFile::append` has no lock
   and one temp file name, so one pin is lost, against "then pins it"
   (`security/src/lib.rs:186-187`). Either both load before one renames, or one renames
   what the other has only truncated, and then every pin is gone from the disk.
3. `FailureSurfaces` — `next_chunk` stops at Eof and knows only the exit status that came
   before it. SSH leaves that order to the server, so a tar that failed may look like
   one that went well, against `domain/src/traits.rs:133-135`. `DoneIsWhole` holds in spite
   of it, because the archive itself has an end mark; but a tar that skipped files
   it could not read is reported as done.

### What else does not hold

The models reach five more states that a comment of the source rules out. Each of these
formulas, added to its module and its run (the third with two secrets), is violated;
none is an accident of the bounds.

* `Sessions`: a forward task asks whether its *key* has a session, not whether it is the one
  the forward was bound on. After a reconnect in between, the forward outlives
  its connection, against the comment at `backend.rs:96-98`.

      ForwardsHaveConnection ==
          \A f \in Fwds : fwd[f] = "registered" =>
              fconn[f] \in manager \/ StopPending(fkey[f])

* `ConfigStore`: `set_config_pin` takes the new key before the write that may fail and
  keeps it when it does: "Unlocked" over a plain file (`domain/src/traits.rs:256`), and
  the next save seals under that pin.

      UnlockedMeansSealed == pc = "idle" /\ Status = "Unlocked" => Sealed(config)

* `Connect`: the cache of secrets comes before the stored password and is never cleared,
  so a password changed by an import is not the one sent, against
  `backend.rs:200-201` and `:1504-1506`.

      ConfiguredPasswordSent ==
          [][\A c \in Conns :
                phase[c] = "auth" /\ secret'[c] # secret[c] /\ stored[Node(c)] # None
                => secret'[c] = stored[Node(c)]]_vars

* `Connect`: two tasks in the shared temp file leave `known_hosts` half-written, against the
  comment on `atomic_write` (`storage/src/lib.rs:419-420`): one truncates it, the other
  renames it, and the first writes its text, or the part of it that gets
  written, into `known_hosts` itself. A reader meanwhile, or the next start after a failure,
  finds no pins, or one whose fingerprint is cut short: a cut fingerprint is no server's, so
  that node is locked out. Where a line goes on with the rest of another one, a node may
  be pinned to the key the user accepted for another node. `PinsVouched` says that
  either takes two tasks in the file at once, and no other key gets in even then; without
  the exception (`crossed`, in `Accounted`) it fails, and with a third task, which
  connects after a restart, so does the first case of `NoSecretBeforeTrust`.

      PinsWhole == \A n \in Nodes : file[n] # Torn
      PinsStay == \A n \in Nodes : old[n] # None => file[n] # None
      PinsOfTheirNode == \A n \in Nodes, k \in HostKeys : file[n] = k => Vouched(n, k)

* `Catalogue`: a demo host may be the hop of a saved host and is gone at the next start,
  against the comment at `backend.rs:406-407`. `EditsSpareOthers` has exactly this
  exception.

      HopsStay ==
          [][\A i \in Present(mem) \cap Present(mem') : \A r \in mem[i] \cap mem'[i] :
                mem[r] # None => mem'[r] # None]_vars

Two more states contradict no comment, but a user may meet them. Without its premise
`CancelledEnds` is violated: a job is cancelled, rsync is killed, and an ssh that hangs in
its connect (the command sets no ConnectTimeout) keeps the stderr open, so that the card
says "running" and the token and the helper files stay (`ui/src/rsync.rs:406-407`).
And without `"open"` in its premise `DownloadEnds` is violated: a server that never answers
the opening of the channel holds a running card that no cancel ends
(`ui/src/backend.rs:1231`).

## 4. The proofs

TLAPS checks, for all values of the constants that satisfy the named assumptions
(`NoneAssumption`, `TornAssumption`, `StoreAssumption`, `FileAssumption`, `CatalogueAssumption`, `RouteAssumption`, `TabsAssumption`,
`TransferAssumption`, `ShellAssumption`, `GlobAssumption`, `TunnelAssumption`: the sentinels
are none of the real values, a route is a non-empty sequence of nodes, a size or a limit
is a number, a queue has room for one piece at least, an archive has two chunks at
least, there are finitely many clients and finitely many profile ids):

* `SessionsProofs`
  * `TypeCorrect`;
  * `NoOrphanedForward` (`Spec => []ForwardsHaveSession`). The property alone is not
    inductive: a forward between its check and its insert needs that its key has
    a session or a pending stop *while the mutex is held*. The invariant adds that
    the holder of `fwLock` is the only forward in state `locked`, and the same
    disjunction for it. A teardown can take the session only by
    becoming a pending stop, and the stop waits for the mutex.
  * `OpenTabsHaveConnections` (`Spec => []SessionsHaveConnection`). The invariant says
    of every attempt what its program counter implies: one that is past its shell
    and still unregistered, or in the map, is in the manager and not closing; one
    in the map is there under its own key and has registered; and only a finished
    attempt is ever being closed.
  * `SessionsImplementLife` (`Spec => ImplementsLife`): a refinement with the identity
    on the four shared variables. It needs the invariant of the previous theorem and
    that an attempt whose pump was told to abort had been registered and is in
    the map no more: only then is a pump that takes the abort one that may fall silent.
  * `DisconnectOwed` (`Spec => []ReleaseOwed /\ ReleasedForGood`, stated there) and
    `OrphansOwed` (`Spec => []StopOwed`): what `DisconnectReleases` and `OrphanForwardsReaped`
    need besides fairness. An attempt that was told to abort has a pump to end, and its
    connection is closed or about to be, and neither comes back; a forward that outlived
    its session has a stop of its key under way, and the mutex the stop waits for is free
    or held by a task whose next step gives it back.
* `HostsProofs`, the store
  * `TypeCorrect`;
  * `AtomicEdits` (`Spec => KeepsPromise`): a refinement. The invariant says that
    at each program point the local document is what the mapping needs (at
    "apply" it is the document on disk, at "write" the one with the edit applied,
    at "rename" and in a migration the temp file holds the one in hand), and what an
    operation still knows of `config.json` from its read;
  * `NeverSilentlyUnsealed`: while the file is sealed, an operation past its read
    either holds a key or is the request to unseal;
  * `BrokenStays`: no operation gets past the read of a broken file.
* `HostsProofs`, the host list, for any number of hosts and of references in a route
  * `CatalogueTypeCorrect`;
  * `ResolveSound` (`CatalogueSpec => []ResolveIsSound`). That the recursion of `expand_hop`
    defines something has to be shown first: the largest set of chains in which every
    reference is good and leads to another chain of the set obeys its rule
    (`ExpandExists`). A route it accepts is well-founded: otherwise some longest path
    outside a closed set of hosts could be followed one reference further, and a path
    holds at most all the hosts (`LongestPath` is where there have to be finitely many).
    A well-founded route is accepted: the set of hosts below which no host is met again
    is closed under the rule that well-foundedness is the least of. So a host shared by
    two hops is never taken for a circle;
  * `RefClosureIsHull`: the rounds of `ref_closure` end, and with the least set that holds the
    hosts it is given and all that its hosts refer to. Again the hull obeys the rule, and
    each round leaves fewer hosts outside;
  * `EditsSpare`, `ExportsCarry` and `ImportsKeep`. Whether a route resolves depends on the hosts of
    its hull alone (`ResolvesLocally`), so an edit outside the hull spoils nothing, and an
    edit inside it is one of a host whose own route resolves. The invariant: what is on
    the disk is in the list as well and says the same, and what an import has merged is
    on the disk as it is in the file.
* `ConnectProofs`
  * `TypeCorrect`;
  * `SecretsOnlyAfterTrust` and `PinsComeFromTheUser`. The inductive invariant follows
    a key from the user's yes to every place it can go: the image about to be
    written, the shared temp file (whoever wrote what of it), the file, the list of pins; and
    says that under AlwaysAsk only an accepted task is past the check, and
    that under Strict nothing is ever appended and no two tasks are ever in the file. A splice of two texts of vouched keys is one
    of vouched keys and cut ones, and a key changes its node only where two tasks have
    been in the file at once (`Mixed`). That this and cut keys need `crossed` is a second
    argument, `WholeOK`: as long as no two tasks were in the temp file at once, only the
    task that is writing has a file open, that file is the temp file and not `known_hosts`,
    what is in it is the beginning of that task's own text,
    and once it is to be renamed it is all written; so that nothing cut gets to where
    somebody reads it.
* `TabsProofs`
  * `TypeCorrect`, with what the steps of an attempt rely on: it has a key once it
    has begun, and its pump runs only after its shell was opened;
  * `NoTabIsForgotten` (`Spec => []NoTabForgotten`), for queues of any length. The
    property alone is not inductive: a "busy" of an older attempt, read after the
    answer to a newer one, makes the tab wait again. The invariant says that
    every "busy" on its way is followed by an answer, or its key has an attempt under
    way; with it, every step keeps that a waiting tab has a request or an answer on
    the way or an attempt under way. It holds for the keys of the host list only: `connect` on
    a deleted host answers nothing.

  * `TypedOnce` (`Spec => []CommandOnce`). A counter that is at most one is not inductive.
    The invariant says where a run can be: in `pending` under one key, or in one timer,
    or in one command under way, or typed, never in two of these, and nowhere before
    the user asks. `OnConnected`, `TimerFires` and `TypeInput` move it from each place to the
    next one; a later `RunDeferred` on the same key may only drop it.
* `TransfersProofs`
  * `TypeCorrect`;
  * `EverythingReleased` and `CancelledNeverDone`. The invariant says at each stage of a
    transfer what its two jobs hold and what their cards show, which verdicts a job that
    is over can have, and where a job can be that was cancelled while it was trying:
    not on the last stretch to a success. A copy that flushes looks at its token no
    more, which is why the invariant has to know that nothing was `early` then;
  * `TransfersImplementCopy` (`Spec => ImplementsCopy`): a refinement, for every transfer. The
    card and the token of the fallback move together as `CopyJob` allows because the
    stage tells which of its steps is the next one;
  * `RetriesBounded` (`Spec => RetriesAdvance`, stated there): each attempt that is followed by
    another one raises the pair of the high-water mark and the count of fruitless
    attempts in lexicographic order. Both are bounded, so that a job has at most
    `(Size + 1) * MaxFruitless` attempts. This is what `EveryTransferEnds` needs
    besides fairness. The invariant is that the mark never falls below what it was
    when the attempt began;
  * `CancelOwed` (`Spec => []CancelAnswered /\ CancelSticks`, stated there): what `CancelledEnds`
    needs. Wherever a cancel finds an rsync job and whatever its child does then, each
    step either leaves the stage or takes it nearer to the last word, and behind that
    the card is not left running; no attempt follows. Whether the step that ends
    `"reaping"` comes is the premise of `CancelledEnds`, not claimed here.
* `ShellPipeProofs`
  * `TypeCorrect`, which bounds the three queues. What is typed is bounded by the model;
    the sudo task's two lines come on top of it, and the invariant counts them;
  * `ShellImplementsFifo` (`Spec => ImplementsFifo`): a refinement, twice. For either direction
    the invariant says that what came out, what each task has in hand and what each
    queue holds are consecutive stretches of what went in. The stretches are claimed only
    as far as they can still come out: those of the facade while it runs, those
    of the pump while it runs and the link is up. So each end of a task, with whatever it
    drops, weakens the claim and does not break it. "Closed" needs that a pump that is done
    has nothing in hand;
  * `ShellNeverStuck` (`Spec => [](Work \in Nat /\ Progress) /\ WorkSinks`, stated there): what
    `OutputShown` and `TasksEnd` need besides fairness. What is in the queues and in the hands
    of the tasks is a number that each of their steps lowers, except that what is read
    or typed adds to it, by four at most. As long as anything is left, one task can
    go on, or the pump waits for the remote side to take input, or the two are
    `Wedged`. Once the tab is closed they are not stuck even then: whatever waits after
    that waits for the connection, which goes when the session is torn down. The
    invariant adds that a task that has ended has let go of its queues.
* `GlobDownloadProofs`
  * `TypeCorrect`;
  * `DoneMeansWhole` (`Spec => []DoneIsWhole`). The invariant: unpacked and queued are the first
    chunks, in order, as long as the extractor runs; the chunk in the task's hand is the
    one behind them; a stream sends its chunks before anything else; and an
    extractor that is content has unpacked up to the mark;
  * `DownloadImplementsCopy`: a refinement, like that of `Transfers`;
  * `DownloadNeverHangs` (`Spec => [](Effort \in Nat /\ Progress) /\ EffortSinks`, stated there):
    what `DownloadEnds` needs besides fairness. What is left to read, to unpack and to
    walk through is a number that every step lowers, except a cancel and the loss of
    the link, which leave it; and unless the task waits for the remote side, it or the
    extractor can go on: the one that waits for room and the one that waits for a chunk
    never wait for each other;
  * `GlobMatchIsSound` (`Spec => []GlobMatchSound`), for patterns and names of any length. The
    property cuts a name into the pieces that the characters of the pattern stand for.
    That reading obeys the rules of `glob_match`, character by character (`StandsEmpty`,
    `StandsStar`, `StandsOther`; the star either ends here or takes one character more), so the
    recursion has a solution; and any solution agrees with it, since in a
    counterexample of the least length the rules lead to a shorter one.
* `TunnelsProofs`
  * `TypeCorrect`;
  * `ToldTheTruth` (`Spec => []AnswersHonest`). The invariant lists the whole conversations there
    can be, seven of them, each with what makes it true, and says how far the conversation is
    at each phase: past the greeting nothing is wrong with the methods, past the
    request nothing at all;
  * `NoChannelLeftBehind` (`Spec => []ChannelsOwned`, stated there): a channel is open exactly while
    its tunnel replies or relays, and bytes flow in relays only;
  * `LoopEndsForGood` (`Spec => []NobodyWaits /\ EndIsFinal`, stated there): no client waits for
    a loop that has ended, the loop does not come back, and no tunnel that is over does
    either: the part of `StopTearsDown` that is not about time;
  * `TunnelsWearOut` (`Spec => TunnelsWear`, stated there): a connection only moves on, or stays
    at its phase with no flow more than it had. With `LoopEndsForGood`, which leaves no
    client waiting for a loop that has ended, this is what `LoopServes` needs.

Every safety invariant, safety action property and refinement that a passing run checks is
proved. Only model-checked are the liveness properties themselves
(`OrphanForwardsReaped`, `DisconnectReleases`, `CancelledEnds`, `EveryTransferEnds`, `OutputShown`,
`TasksEnd`, `DownloadEnds`, `StopTearsDown`, `LoopServes`): fairness and ENABLED are out of the
prover's reach. What is proved of them is their safety half: what is owed is never
forgotten, no work is done for ever, and somebody can go on with it. Where such a
theorem says who can go on, it names the guards of the steps (`PumpCan`, `FacadeCan`,
`Progress`); in the instances of the runs these are the states in which TLC finds the
steps enabled.

## 5. What is not modelled, and why

* the webview but for its tabs and quick commands: rendering;
* the bytes themselves: of a terminal, an archive or a tunnel; `exec`, which
  collects the output of a probe and keeps no state;
* the number of worker threads: the host-key question blocks one until the user
  answers, and the models take tasks that are ready to run;
* the unlock task's list: it loads and publishes without a wait in between, and `Catalogue`
  has an open config;
* `commands.json`, which is written in place and read as empty when it is damaged;
* the terminal engine (not used by the webview build), external viewers,
  terminals, waypipe (processes started and left alone), the list of quick commands,
  clipboard, logging, packaging;
* cryptography: a sealed image opens with its own key and no other;
* `persist = false`, routes and settings in the store: no caller;
* two instances of the program over one config directory;
* a `config.json` that is neither JSON nor an envelope: it reads as an error and
  counts as plain, and every operation on it fails.

## 6. Plan

Done, in this order: `Sessions`, `ConfigStore` over `AtomicDoc`, `Connect`,
`Catalogue`, `Transfers`, `SessionLife`, `Tabs`, and the proofs named above; then
`ShellPipe` over `Fifo`, `GlobDownload` and `Transfers` over `CopyJob`, and `Tunnels`; then
the proofs about these four, and `TypedOnce`; then the proofs about `Catalogue` and
`glob_match`, with which no safety property of a run is left unproved, and the safety
halves of the liveness properties. The next things to do:

1. `Sessions` and `Connect` are one connect task seen from two sides; a module that composes
   them would tell what a session that is torn down leaves of a question to the user;
2. `ForwardsHaveConnection` of section 3 in place of `NoOrphanedForward`, should the code come to
   compare sessions instead of keys.
