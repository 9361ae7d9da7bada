----------------------------- MODULE ConfigStore ----------------------------
(***************************************************************************)
(* The config file of crates/storage/src/lib.rs (JsonStore), file step by  *)
(* file step, with the PIN flow of crates/ui/src/backend.rs around it:     *)
(* reading (with the migration of a legacy config.toml), editing,          *)
(* switching encryption on and off, unlocking, failing writes and crashes. *)
(*                                                                         *)
(* The command loop runs one store operation at a time; an unlock task     *)
(* derives its key beside it.  A document maps profile ids to what the     *)
(* profiles say.  A file image records the key it is sealed under, or      *)
(* Plain.  A key stands for argon2(pin, salt).  A crash is one of the      *)
(* process: what was written stays written.                                *)
(***************************************************************************)
EXTENDS Naturals, Profiles

CONSTANTS Vals,         \* what a profile may say
          Pins, Salts,  \* a key is a pin and a salt
          Tasks,        \* unlock tasks, each asking for the PIN
          Asking,       \* an unlock task that waits for the PIN
          Absent,       \* there is no such file
          Broken,       \* a config.json with an unusable envelope
          Junk,         \* a temp file that nobody will read
          Plain         \* in the place of a key: not sealed

Keys == Pins \X Salts

ASSUME StoreAssumption ==
    /\ None \notin Vals
    /\ {None, Asking, Plain} \cap Keys = {}
    /\ None # Asking /\ None # Plain

Docs == [Ids -> Vals \cup {None}]
EmptyDoc == [i \in Ids |-> None]
Images == [key : Keys \cup {Plain}, doc : Docs]

Puts == [kind : {"put"}, id : Ids, val : Vals \cup {None}]
Requests == Puts \cup [kind : {"load", "seal", "unseal"}]

ASSUME FileAssumption ==
    /\ Absent \notin Images /\ Broken \notin Images /\ Junk \notin Images
    /\ Absent # Broken /\ Absent # Junk
    /\ Absent \notin Docs /\ Broken \notin Docs
    /\ None \notin Requests

VARIABLES
    config,   \* config.json
    tmp,      \* config.tmp, the temp file of atomic_write
    legacy,   \* the document in config.toml
    crypto,   \* JsonStore.crypto: the key, or None
    pc,       \* where the operation of the command loop is
    req,      \* the request it serves
    doc,      \* its local document
    unlock    \* each unlock task: None, Asking, or the key it found

files == <<config, tmp, legacy>>
vars == <<config, tmp, legacy, crypto, pc, req, doc, unlock>>

Steps == {"boot", "idle", "read", "migrate", "mrename", "mremove", "apply",
          "write", "rename", "cleanup"}

TypeOK ==
    /\ config \in Images \cup {Absent, Broken}
    /\ tmp \in Images \cup {Absent, Junk}
    /\ legacy \in Docs \cup {Absent}
    /\ crypto \in Keys \cup {None}
    /\ pc \in Steps
    /\ req \in Requests
    /\ doc \in Docs
    /\ unlock \in [Tasks -> {None, Asking} \cup Keys]

\* An install of this version, one of a version that kept config.toml, or
\* none.
Init ==
    /\ \/ config \in Images \cup {Absent, Broken} /\ legacy = Absent
       \/ config = Absent /\ legacy \in Docs
    /\ tmp = Absent
    /\ crypto = None
    /\ pc = "boot"
    /\ req = [kind |-> "load"]
    /\ doc = EmptyDoc
    /\ unlock = [t \in Tasks |-> None]

Sealed(file) == file \in Images /\ file.key # Plain

\* config_encryption(): a broken envelope counts as encrypted.
Status ==
    CASE crypto # None -> "Unlocked"
      [] crypto = None /\ (Sealed(config) \/ config = Broken) -> "Locked"
      [] OTHER -> "Plain"

\* What write_doc puts into the file: sealed iff a key is held.
Image(d) == [key |-> IF crypto = None THEN Plain ELSE crypto, doc |-> d]

\* What a reader with the right PIN finds: config.json, else config.toml.
DiskDoc ==
    CASE config \in Images -> config.doc
      [] config = Broken -> Broken
      [] config = Absent /\ legacy # Absent -> legacy
      [] OTHER -> EmptyDoc

-----------------------------------------------------------------------------
\* The command loop.

Ask(t) == unlock[t] = None /\ unlock' = [unlock EXCEPT ![t] = Asking]

Accept(r) == req' = r /\ pc' = "read"

\* run(): a locked config asks for the PIN, any other is loaded.
Boot ==
    /\ pc = "boot"
    /\ \/ Status = "Locked" /\ pc' = "idle" /\ UNCHANGED req
          /\ \E t \in Tasks : Ask(t)
       \/ Status # "Locked" /\ Accept([kind |-> "load"]) /\ UNCHANGED unlock
    /\ UNCHANGED <<files, crypto, doc>>

\* save_host, delete_host and import_hosts: save_profile or delete_profile.
Put(r) ==
    /\ pc = "idle"
    /\ r \in Puts
    /\ Accept(r)
    /\ UNCHANGED <<files, crypto, doc, unlock>>

\* "config_pin": a locked store asks for the PIN again; otherwise
\* set_config_pin(Some(pin)) seals and set_config_pin(None) unseals.
ConfigPin(kind) ==
    /\ pc = "idle"
    /\ \/ Status = "Locked" /\ UNCHANGED <<pc, req>>
          /\ \E t \in Tasks : Ask(t)
       \/ Status # "Locked" /\ Accept([kind |-> kind]) /\ UNCHANGED unlock
    /\ UNCHANGED <<files, crypto, doc>>

\* The operation returns to the loop: done, or with an error.
Return == pc' = "idle"

-----------------------------------------------------------------------------
\* A mutated form of ReadDoc: a broken envelope reads as an empty plain config.
ReadDocBrokenAsEmpty ==
    /\ pc = "read"
    /\ doc' = IF config = Broken THEN EmptyDoc ELSE DiskDoc
    /\ pc' = "apply"
    /\ UNCHANGED <<files, crypto, req, unlock>>

\* A mutated form of ReadDoc: a config.toml wins over the config.json.
ReadDocLegacyFirst ==
    /\ pc = "read"
    /\ config # Broken
    /\ doc' = IF legacy # Absent THEN legacy ELSE DiskDoc
    /\ pc' = "apply"
    /\ UNCHANGED <<files, crypto, req, unlock>>

\* read_doc, up to the migration.  A sealed config opens with its key only.
ReadDoc ==
    /\ pc = "read"
    /\ \/ config \in Images /\ config.key \in {Plain, crypto}
          /\ doc' = config.doc /\ pc' = "apply"
       \/ config \in Images /\ config.key \notin {Plain, crypto}
          /\ Return /\ UNCHANGED doc
       \/ config = Broken
          /\ Return /\ UNCHANGED doc
       \/ config = Absent /\ legacy = Absent
          /\ doc' = EmptyDoc /\ pc' = "apply"
       \/ config = Absent /\ legacy # Absent
          /\ doc' = legacy /\ pc' = "migrate"
    /\ UNCHANGED <<files, crypto, req, unlock>>

\* atomic_write, its first half: the image goes to the temp file.
WriteTmp(from, to) ==
    /\ pc = from
    /\ tmp' = Image(doc)
    /\ pc' = to
    /\ UNCHANGED <<config, legacy, crypto, req, doc, unlock>>

\* atomic_write, its second half: the temp file takes the config's place.
Rename(from, to) ==
    /\ pc = from
    /\ config' = tmp
    /\ tmp' = Absent
    /\ pc' = to
    /\ UNCHANGED <<legacy, crypto, req, doc, unlock>>

\* A mutated form of WriteFails: the config is written in place, without the
\* temp file.
WriteFailsInPlace ==
    /\ pc \in {"migrate", "mrename", "write", "rename"}
    /\ config' = Junk
    /\ Return
    /\ UNCHANGED <<tmp, legacy, crypto, req, doc, unlock>>

\* Either half fails; the operation ends with the error.
WriteFails ==
    /\ pc \in {"migrate", "mrename", "write", "rename"}
    /\ tmp' = Junk
    /\ Return
    /\ UNCHANGED <<config, legacy, crypto, req, doc, unlock>>

\* read_legacy_or_default: the migrated config.toml is removed; a failure to
\* remove it is ignored.
RemoveLegacy ==
    /\ pc = "mremove"
    /\ legacy' \in {Absent, legacy}
    /\ pc' = "apply"
    /\ UNCHANGED <<config, tmp, crypto, req, doc, unlock>>

\* save_profile and delete_profile, between the read and the write.  Deleting
\* what is not there is an error and writes nothing.
ApplyPut ==
    /\ pc = "apply" /\ req.kind = "put"
    /\ IF req.val = None /\ doc[req.id] = None
       THEN Return /\ UNCHANGED doc
       ELSE doc' = [doc EXCEPT ![req.id] = req.val] /\ pc' = "write"
    /\ UNCHANGED <<files, crypto, req, unlock>>

\* A mutated form of ApplySeal: a key is set for "unseal" and dropped for
\* every other switch.
ApplySealSwapped(k) ==
    /\ pc = "apply" /\ req.kind \in {"seal", "unseal"}
    /\ crypto' = IF req.kind = "unseal" THEN k ELSE None
    /\ pc' = "write"
    /\ UNCHANGED <<files, req, doc, unlock>>

\* set_config_pin, between the read and the write: the key is replaced, with a
\* fresh salt, or dropped.  It stays so if the write fails.
ApplySeal(k) ==
    /\ pc = "apply" /\ req.kind \in {"seal", "unseal"}
    /\ crypto' = IF req.kind = "seal" THEN k ELSE None
    /\ pc' = "write"
    /\ UNCHANGED <<files, req, doc, unlock>>

ApplyLoad ==
    /\ pc = "apply" /\ req.kind = "load"
    /\ Return
    /\ UNCHANGED <<files, crypto, req, doc, unlock>>

\* set_config_pin(Some): plaintext leftovers are removed, failures ignored.
\* (The config.toml.bak removed beside it is read by nobody.)
Cleanup ==
    /\ pc = "cleanup"
    /\ legacy' \in IF req.kind = "seal" THEN {Absent, legacy} ELSE {legacy}
    /\ Return
    /\ UNCHANGED <<config, tmp, crypto, req, doc, unlock>>

-----------------------------------------------------------------------------
\* An unlock task (spawn_config_unlock, unlock_config).

\* The user answers: the envelope is read and the key derived from the pin.  A
\* wrong pin asks again.  Without an envelope the answer is accepted as it is;
\* with a broken one the task gives up.
Answer(t, pin) ==
    /\ unlock[t] = Asking
    /\ \/ Sealed(config) /\ config.key[1] = pin
          /\ unlock' = [unlock EXCEPT ![t] = config.key]
       \/ ~Sealed(config)
          /\ unlock' = [unlock EXCEPT ![t] = None]
    /\ UNCHANGED <<files, crypto, pc, req, doc>>

Dismiss(t) ==
    /\ unlock[t] = Asking
    /\ unlock' = [unlock EXCEPT ![t] = None]
    /\ UNCHANGED <<files, crypto, pc, req, doc>>

\* The key has opened the envelope read before, and is kept; the profiles are
\* loaded with it.
Unlock(t) ==
    /\ unlock[t] \in Keys
    /\ crypto' = unlock[t]
    /\ unlock' = [unlock EXCEPT ![t] = None]
    /\ UNCHANGED <<files, pc, req, doc>>

-----------------------------------------------------------------------------
\* The process dies, perhaps with the temp file half written, and starts anew.
Crash ==
    /\ \/ tmp = Absent /\ tmp' = Absent
       \/ (tmp # Absent \/ pc \in {"migrate", "write"}) /\ tmp' = Junk
    /\ crypto' = None
    /\ pc' = "boot"
    /\ unlock' = [t \in Tasks |-> None]
    /\ UNCHANGED <<config, legacy, req, doc>>

StoreStep ==
    \/ ReadDoc
    \/ WriteTmp("migrate", "mrename")
    \/ Rename("mrename", "mremove")
    \/ RemoveLegacy
    \/ ApplyPut
    \/ \E k \in Keys : ApplySeal(k)
    \/ ApplyLoad
    \/ WriteTmp("write", "rename")
    \/ Rename("rename", "cleanup")
    \/ WriteFails
    \/ Cleanup

Next ==
    \/ Boot
    \/ \E r \in Puts : Put(r)
    \/ \E kind \in {"seal", "unseal"} : ConfigPin(kind)
    \/ StoreStep
    \/ \E t \in Tasks, pin \in Pins : Answer(t, pin)
    \/ \E t \in Tasks : Dismiss(t) \/ Unlock(t)
    \/ Crash

Spec == Init /\ [][Next]_vars

-----------------------------------------------------------------------------
\* The request is in effect once the rename has put it on the disk.
InEffect == {"boot", "idle", "cleanup"}

Promise == INSTANCE AtomicDoc
    WITH doc <- DiskDoc, pending <- IF pc \in InEffect THEN None ELSE req

\* Every edit reaches the disk whole and once, on top of what is there, or not
\* at all: read-modify-write, migration, temp file and rename, with failing
\* writes and crashes at every step, implement AtomicDoc.
KeepsPromise == Promise!Spec

\* A sealed config becomes a plain one only when the user switched encryption
\* off, whatever unlock tasks and crashes do in the meantime.
NoSilentUnseal ==
    [][Sealed(config) /\ ~Sealed(config') => req.kind = "unseal"]_vars

\* A broken envelope is never overwritten (the comment on parse_envelope: it
\* must never read as an empty plain config, or a later save would clobber it).
BrokenNeverClobbered == [][config = Broken => config' = Broken]_vars
=============================================================================
