------------------------------ MODULE Connect ------------------------------
(***************************************************************************)
(* Connecting through a route: RusshTransport::connect of                  *)
(* crates/ssh/src/lib.rs with what it calls, the host key verifier and the *)
(* credential store of crates/security/src/lib.rs and the known_hosts file *)
(* of crates/storage/src/lib.rs.                                           *)
(*                                                                         *)
(* One verifier and one credential store serve every connect task, and the *)
(* tasks run in parallel.  A task goes through its route node by node:     *)
(* handshake, host key, credentials.  A critical section under one mutex   *)
(* is one step; every call on the known_hosts file or on its temporary     *)
(* file is one step, because nothing locks them.  Of a file the model      *)
(* keeps what a load makes of its text: the first key for each node.       *)
(*                                                                         *)
(* Restart is a process that dies at any point and is started again.  Each *)
(* element of Conns is used once, which bounds the run.                    *)
(***************************************************************************)
EXTENDS Naturals, Sequences

CONSTANTS Nodes,      \* host:port of the servers, with the HostId and user
          HostKeys,   \* fingerprints a server may present
          Secrets,    \* passwords, and passphrases of key files
          ByPassword, \* the nodes that authenticate with a password
          Conns,      \* connect tasks
          Route,      \* Route[c]: the hops of c and then its target
          None,       \* no key, no secret, no file
          Torn        \* a fingerprint cut short, which is no server's

ASSUME RouteAssumption ==
    \A c \in Conns : Route[c] \in Seq(Nodes) /\ Route[c] # <<>>
ASSUME NoneAssumption ==
    None \notin HostKeys \cup Secrets \cup [Nodes -> HostKeys \cup {None, Torn}]
ASSUME TornAssumption == Torn \notin HostKeys \cup {None}

Policies == {"tofu", "ask", "strict"}

VARIABLES
    policy,    \* the TrustPolicy of the verifier
    file,      \* known_hosts: node -> the key pinned there, or None
    tmp,       \* known_hosts.tmp, None when there is no such file
    open,      \* where the file is now that a task has opened for writing
    pinned,    \* KnownHostsVerifier.pinned
    cache,     \* PromptCredentialStore.cache
    stored,    \* stored_pw: the passwords of the saved profiles
    phase,     \* where each connect task is
    at,        \* the index in its route of the node it is working on
    shown,     \* the host key that node presented
    image,     \* the file contents `append` is about to write
    secret,    \* the secret about to be sent
    old,       \* history: the known_hosts of the first start
    granted,   \* history: which task's question the user accepted
    crossed    \* history: two tasks have used the temporary file at once

vars == <<policy, file, tmp, open, pinned, cache, stored, phase, at, shown,
          image, secret, old, granted, crossed>>
diskVars == <<file, tmp, open, crossed>>
keyVars == <<policy, diskVars, pinned, image, old, granted>>
passVars == <<cache, stored, secret>>

\* The phases between the user's yes and the return of `remember`, and those
\* in which the credentials of the node are being resolved and sent.
Appending == {"accepted", "loaded", "writing", "renaming", "pinning"}
Sending == {"auth", "prompting", "login"}
Phases == {"idle", "dialing", "checking", "asking", "done", "failed"}
          \cup Appending \cup Sending

Pins == [Nodes -> HostKeys \cup {None, Torn}]
Empty == [n \in Nodes |-> None]
Places == {"tmp", "file", "nowhere"}
\* Only a node that authenticates with a password has one in its profile.
Passwords == {p \in [Nodes -> Secrets \cup {None}] :
                 \A n \in Nodes \ ByPassword : p[n] = None}

TypeOK ==
    /\ policy \in Policies
    /\ file \in Pins
    /\ tmp \in Pins \cup {None}
    /\ open \in [Conns -> Places]
    /\ pinned \in Pins
    /\ cache \in [Nodes -> Secrets \cup {None}]
    /\ stored \in Passwords
    /\ phase \in [Conns -> Phases]
    /\ at \in [Conns -> Nat]
    /\ \A c \in Conns : at[c] \in 1..Len(Route[c])
    /\ shown \in [Conns -> HostKeys \cup {None}]
    /\ image \in [Conns -> Pins \cup {None}]
    /\ secret \in [Conns -> Secrets \cup {None}]
    /\ old \in Pins
    /\ granted \in SUBSET (Conns \X Nodes \X HostKeys)
    /\ crossed \in BOOLEAN

Init ==
    /\ policy \in Policies
    /\ file \in [Nodes -> HostKeys \cup {None}]
    /\ tmp = None
    /\ open = [c \in Conns |-> "nowhere"]
    /\ pinned = file
    /\ cache = [n \in Nodes |-> None]
    /\ stored \in Passwords
    /\ phase = [c \in Conns |-> "idle"]
    /\ at = [c \in Conns |-> 1]
    /\ shown = [c \in Conns |-> None]
    /\ image = [c \in Conns |-> None]
    /\ secret = [c \in Conns |-> None]
    /\ old = file
    /\ granted = {}
    /\ crossed = FALSE

Node(c) == Route[c][at[c]]

Goto(c, p) == phase' = [phase EXCEPT ![c] = p]

\* The connect of c returns an error, and what it held is dropped.
Fail(c) ==
    /\ Goto(c, "failed")
    /\ shown' = [shown EXCEPT ![c] = None]
    /\ secret' = [secret EXCEPT ![c] = None]
    /\ UNCHANGED <<at, cache, stored>>

-----------------------------------------------------------------------------
\* The transport.

Begin(c) ==
    /\ phase[c] = "idle"
    /\ Goto(c, "dialing")
    /\ UNCHANGED <<at, shown, keyVars, passVars>>

\* The TCP connection, or the direct-tcpip channel over the hop before, is up
\* and the handshake is through: check_server_key has captured the node's key.
\* The library hands the session over only after that call, so that the arm of
\* verify_host_key for a server without a key is never taken.
Handshake(c, k) ==
    /\ phase[c] = "dialing"
    /\ Goto(c, "checking")
    /\ shown' = [shown EXCEPT ![c] = k]
    /\ UNCHANGED <<at, keyVars, passVars>>

DialFails(c) ==
    /\ phase[c] = "dialing"
    /\ Fail(c)
    /\ UNCHANGED keyVars

-----------------------------------------------------------------------------
\* KnownHostsVerifier::check inside InteractiveHostVerifier::check.

\* A mutated form of KeyTrusted: any pinned key will do.
KeyTrustedAny(c) ==
    /\ phase[c] = "checking"
    /\ pinned[Node(c)] # None
    /\ policy # "ask"
    /\ Goto(c, "auth")
    /\ UNCHANGED <<at, shown, keyVars, passVars>>

KeyTrusted(c) ==
    /\ phase[c] = "checking"
    /\ pinned[Node(c)] = shown[c]
    /\ policy # "ask"
    /\ Goto(c, "auth")
    /\ UNCHANGED <<at, shown, keyVars, passVars>>

\* Unknown, or known under AlwaysAsk: the user is asked.
KeyAsked(c) ==
    /\ phase[c] = "checking"
    /\ \/ pinned[Node(c)] = None /\ policy # "strict"
       \/ pinned[Node(c)] = shown[c] /\ policy = "ask"
    /\ Goto(c, "asking")
    /\ UNCHANGED <<at, shown, keyVars, passVars>>

\* Another key is pinned, or none under Strict.
KeyRefused(c) ==
    /\ phase[c] = "checking"
    /\ \/ pinned[Node(c)] \notin {None, shown[c]}
       \/ pinned[Node(c)] = None /\ policy = "strict"
    /\ Fail(c)
    /\ UNCHANGED keyVars

\* "hostkey_reply".
UserAccepts(c) ==
    /\ phase[c] = "asking"
    /\ Goto(c, "accepted")
    /\ granted' = granted \cup {<<c, Node(c), shown[c]>>}
    /\ UNCHANGED <<policy, diskVars, pinned, image, old, at, shown, passVars>>

UserDeclines(c) ==
    /\ phase[c] = "asking"
    /\ Fail(c)
    /\ UNCHANGED keyVars

-----------------------------------------------------------------------------
\* KnownHostsVerifier::remember: KnownHostsFile::append, then the pinned list.

AppendLoads(c) ==
    /\ phase[c] = "accepted"
    /\ Goto(c, "loaded")
    /\ image' = [image EXCEPT ![c] = [file EXCEPT ![Node(c)] = shown[c]]]
    /\ UNCHANGED <<policy, diskVars, pinned, old, granted, at, shown, passVars>>

\* The text q is what a writer of p may have written by itself so far.
Begins(q, p) ==
    \A n \in Nodes : q[n] = p[n] \/ (p[n] # None /\ q[n] \in {None, Torn})

\* What a file may hold in which a writer of p has put some of its text over
\* the text q: lines of either, some lost, and one line that starts in what is
\* written and is cut there, or goes on with the rest of some line of q.
Splices(p, q) ==
    {r \in Pins : \E m \in Nodes :
        /\ \A n \in Nodes \ {m} : r[n] \in {p[n], q[n], None}
        /\ \/ r[m] \in {p[m], q[m], None}
           \/ r[m] = Torn /\ p[m] # None
           \/ r[m] \in {Torn} \cup {q[n] : n \in Nodes} /\ ~Begins(q, p)}

\* The same once all of p is written: lines of q may be left behind it, the
\* first of them without its beginning.
Over(p, q) ==
    {r \in Pins : \E m \in Nodes : \A n \in Nodes :
        \/ r[n] = p[n]
        \/ p[n] = None /\ r[n] \in {q[n], None}
        \/ p[n] = None /\ n = m /\ r[n] \in {q[l] : l \in Nodes} /\ ~Begins(q, p)}

\* The file a task has open holds r from now on.
Put(c, r) ==
    /\ tmp' = IF open[c] = "tmp" THEN r ELSE tmp
    /\ file' = IF open[c] = "file" THEN r ELSE file

Held(c) == IF open[c] = "file" THEN file ELSE tmp

\* A mutated form of AppendOpens: the file is opened without being truncated.
AppendOpensKeeping(c) ==
    /\ phase[c] = "loaded"
    /\ Goto(c, "writing")
    /\ tmp' = IF tmp = None THEN Empty ELSE tmp
    /\ open' = [open EXCEPT ![c] = "tmp"]
    /\ crossed' = (crossed \/ \E d \in Conns : phase[d] \in {"writing", "renaming"})
    /\ UNCHANGED <<policy, file, pinned, image, old, granted, at, shown, passVars>>

\* atomic_write: fs::write opens known_hosts.tmp, which is empty from now on
\* whoever else has it open ...
AppendOpens(c) ==
    /\ phase[c] = "loaded"
    /\ Goto(c, "writing")
    /\ tmp' = Empty
    /\ open' = [open EXCEPT ![c] = "tmp"]
    /\ crossed' = (crossed \/ \E d \in Conns : phase[d] \in {"writing", "renaming"})
    /\ UNCHANGED <<policy, file, pinned, image, old, granted, at, shown, passVars>>

\* ... writes a part of the text to the file it has open, wherever that file
\* has been renamed to since ...
AppendPuts(c) ==
    /\ phase[c] = "writing"
    /\ open[c] # "nowhere"
    /\ \E r \in Splices(image[c], Held(c)) : Put(c, r)
    /\ UNCHANGED <<policy, open, crossed, pinned, image, old, granted, phase, at,
                   shown, passVars>>

\* ... and then the rest ...
AppendWrites(c) ==
    /\ phase[c] = "writing"
    /\ Goto(c, "renaming")
    /\ IF open[c] = "nowhere" THEN UNCHANGED <<file, tmp>>
       ELSE \E r \in Over(image[c], Held(c)) : Put(c, r)
    /\ open' = [open EXCEPT ![c] = "nowhere"]
    /\ image' = [image EXCEPT ![c] = None]
    /\ UNCHANGED <<policy, crossed, pinned, old, granted, at, shown, passVars>>

\* A mutated form of AppendRenames: nobody looks whether the file is there.
AppendRenamesBlind(c) ==
    /\ phase[c] = "renaming"
    /\ Goto(c, "pinning")
    /\ file' = tmp
    /\ tmp' = None
    /\ open' = [d \in Conns |-> IF open[d] = "tmp" THEN "file" ELSE "nowhere"]
    /\ UNCHANGED <<policy, crossed, pinned, image, old, granted, at, shown, passVars>>

\* ... and renames what is at known_hosts.tmp by then onto known_hosts.  A file
\* that another task has open goes along; the known_hosts before is unlinked.
AppendRenames(c) ==
    /\ phase[c] = "renaming"
    /\ tmp # None
    /\ Goto(c, "pinning")
    /\ file' = tmp
    /\ tmp' = None
    /\ open' = [d \in Conns |-> IF open[d] = "tmp" THEN "file" ELSE "nowhere"]
    /\ UNCHANGED <<policy, crossed, pinned, image, old, granted, at, shown, passVars>>

\* A call on the files fails, as the rename does when another task has already
\* renamed the file away: the key counts as rejected, and what was written
\* stays where it is.
AppendFails(c) ==
    /\ phase[c] \in {"accepted", "loaded", "writing", "renaming"}
    /\ Fail(c)
    /\ open' = [open EXCEPT ![c] = "nowhere"]
    /\ image' = [image EXCEPT ![c] = None]
    /\ UNCHANGED <<policy, file, tmp, crossed, pinned, old, granted>>

Pin(c) ==
    /\ phase[c] = "pinning"
    /\ Goto(c, "auth")
    /\ pinned' = [pinned EXCEPT ![Node(c)] = shown[c]]
    /\ UNCHANGED <<policy, diskVars, image, old, granted, at, shown, passVars>>

-----------------------------------------------------------------------------
\* authenticate, over PromptCredentialStore and WebPrompter.

\* PromptCredentialStore::password: the cache first ...
SecretFromCache(c) ==
    /\ phase[c] = "auth"
    /\ cache[Node(c)] # None
    /\ Goto(c, "login")
    /\ secret' = [secret EXCEPT ![c] = cache[Node(c)]]
    /\ UNCHANGED <<at, shown, keyVars, cache, stored>>

\* ... then, through the prompter, the password of the saved profile ...
SecretFromProfile(c) ==
    /\ phase[c] = "auth"
    /\ cache[Node(c)] = None
    /\ stored[Node(c)] # None
    /\ Goto(c, "login")
    /\ secret' = [secret EXCEPT ![c] = stored[Node(c)]]
    /\ cache' = [cache EXCEPT ![Node(c)] = stored[Node(c)]]
    /\ UNCHANGED <<at, shown, keyVars, stored>>

\* ... and then the dialog, which a passphrase goes to at once.
SecretPrompt(c) ==
    /\ phase[c] = "auth"
    /\ cache[Node(c)] = None
    /\ stored[Node(c)] = None
    /\ Goto(c, "prompting")
    /\ UNCHANGED <<at, shown, keyVars, passVars>>

\* "secret_reply" with a value, or with none.
SecretTyped(c, s) ==
    /\ phase[c] = "prompting"
    /\ Goto(c, "login")
    /\ secret' = [secret EXCEPT ![c] = s]
    /\ cache' = [cache EXCEPT ![Node(c)] = s]
    /\ UNCHANGED <<at, shown, keyVars, stored>>

SecretRefused(c) ==
    /\ phase[c] = "prompting"
    /\ Fail(c)
    /\ UNCHANGED keyVars

\* A key without a passphrase, or an agent: nothing is resolved.
NoSecretNeeded(c) ==
    /\ phase[c] = "auth"
    /\ Node(c) \notin ByPassword
    /\ Goto(c, "login")
    /\ UNCHANGED <<at, shown, keyVars, passVars>>

\* The server lets the user in: on to the next node, or connected.
LoginOk(c) ==
    /\ phase[c] = "login"
    /\ shown' = [shown EXCEPT ![c] = None]
    /\ secret' = [secret EXCEPT ![c] = None]
    /\ IF at[c] = Len(Route[c])
       THEN Goto(c, "done") /\ UNCHANGED at
       ELSE Goto(c, "dialing") /\ at' = [at EXCEPT ![c] = at[c] + 1]
    /\ UNCHANGED <<keyVars, cache, stored>>

\* Refused, the link lost, the key file unreadable: the secret stays cached.
LoginFails(c) ==
    /\ phase[c] \in {"auth", "login"}
    /\ Fail(c)
    /\ UNCHANGED keyVars

-----------------------------------------------------------------------------
\* seed_stored_passwords, after every change of the profiles.  An edit gives the
\* nodes new HostIds, and so takes the passwords away from the old ones; an
\* import and the unlock of the config leave the ids as they are.
Seed(n, s) ==
    /\ n \in ByPassword
    /\ stored[n] # s
    /\ stored' = [stored EXCEPT ![n] = s]
    /\ UNCHANGED <<phase, at, shown, keyVars, cache, secret>>

\* KnownHostsVerifier::new in a new process: a file that cannot be read counts
\* as empty.  What the tasks were at is lost, and the files are as they were:
\* a write that the end of the process cuts short is an AppendPuts before it.
Restart(readable) ==
    /\ pinned' = IF readable THEN file ELSE Empty
    /\ open' = [c \in Conns |-> "nowhere"]
    /\ cache' = [n \in Nodes |-> None]
    /\ phase' = [c \in Conns |-> IF phase[c] \in {"idle", "done"} THEN phase[c]
                                 ELSE "failed"]
    /\ shown' = [c \in Conns |-> None]
    /\ secret' = [c \in Conns |-> None]
    /\ image' = [c \in Conns |-> None]
    /\ UNCHANGED <<policy, file, tmp, crossed, stored, at, old, granted>>

KeyStep(c) ==
    \/ KeyTrusted(c)
    \/ KeyAsked(c)
    \/ KeyRefused(c)
    \/ UserAccepts(c)
    \/ UserDeclines(c)
    \/ AppendLoads(c)
    \/ AppendOpens(c)
    \/ AppendPuts(c)
    \/ AppendWrites(c)
    \/ AppendRenames(c)
    \/ AppendFails(c)
    \/ Pin(c)

TaskStep(c) ==
    \/ Begin(c)
    \/ \E k \in HostKeys : Handshake(c, k)
    \/ DialFails(c)
    \/ SecretFromCache(c)
    \/ SecretFromProfile(c)
    \/ SecretPrompt(c)
    \/ \E s \in Secrets : SecretTyped(c, s)
    \/ SecretRefused(c)
    \/ NoSecretNeeded(c)
    \/ LoginOk(c)
    \/ LoginFails(c)

Next ==
    \/ \E c \in Conns : KeyStep(c) \/ TaskStep(c)
    \/ \E n \in Nodes, s \in Secrets \cup {None} : Seed(n, s)
    \/ \E readable \in BOOLEAN : Restart(readable)

Spec == Init /\ [][Next]_vars

-----------------------------------------------------------------------------
\* The key of node n was known before the first start, or some task's question
\* about it was answered with yes.
Vouched(n, k) == old[n] = k \/ \E c \in Conns : <<c, n, k>> \in granted

\* That, or two tasks have been in the temporary file at once, where the lines of
\* two nodes may have been joined, and the key of the other one was known.
Accounted(n, k) == Vouched(n, k) \/ (crossed /\ \E m \in Nodes : Vouched(m, k))

\* No secret before trust (CaptureHandler's comment): a task resolves and sends
\* credentials only to a node whose key the policy admits.  Trust on first use
\* needs a key that was pinned or accepted, whoever asked and however many
\* writers and restarts lie in between; AlwaysAsk needs a yes to this very
\* task; Strict needs a key that was in known_hosts from the start.
NoSecretBeforeTrust ==
    \A c \in Conns : phase[c] \in Sending =>
        CASE policy = "tofu"   -> Accounted(Node(c), shown[c])
          [] policy = "ask"    -> <<c, Node(c), shown[c]>> \in granted
          [] policy = "strict" -> old[Node(c)] = shown[c]

\* No pin is invented: every key in known_hosts and in the verifier was there
\* at the first start or was accepted by the user, and for that very node; an
\* append alone, with whatever failures and restarts, publishes its text whole
\* (atomic_write's comment).  The tasks share one temporary file, and one may
\* rename what another has only half written and write on in what another has
\* renamed.  It takes two in it at once to pin a key for the wrong node, or a
\* key cut short, which locks its node out.
PinsVouched ==
    \A n \in Nodes : \A k \in {file[n], pinned[n]} :
        /\ k \in HostKeys => Accounted(n, k)
        /\ k = Torn => crossed

\* A key the verifier trusts is on disk once no append is under way: accepted
\* means pinned (InteractiveHostVerifier's comment).  Two appends that both
\* load before either renames lose a key.
TrustedIsOnDisk ==
    (\A c \in Conns : phase[c] \notin Appending) =>
        \A n \in Nodes : pinned[n] # None => file[n] = pinned[n]
=============================================================================
