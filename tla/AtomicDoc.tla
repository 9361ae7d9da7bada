----------------------------- MODULE AtomicDoc ------------------------------
(***************************************************************************)
(* What the config store promises its callers (ProfileStore in             *)
(* crates/domain/src/traits.rs): one document, edited by one request at a  *)
(* time.  A request takes effect at once and as a whole, on the document   *)
(* as it is at that moment, or it does not take effect at all, whether the *)
(* disk fails or the process dies.                                         *)
(***************************************************************************)
CONSTANTS Ids,      \* profile ids
          Vals,     \* what a profile may say
          None      \* an absent profile, no request

VARIABLES doc,      \* the document, or something no request can read
          pending   \* the request in progress, or None

\* save_profile inserts or replaces, delete_profile (val = None) removes; any
\* other request leaves the document as it is.
Apply(r, d) ==
    IF r.kind = "put" THEN [d EXCEPT ![r.id] = r.val] ELSE d

Docs == [Ids -> Vals \cup {None}]

Submit(r) == pending = None /\ pending' = r /\ UNCHANGED doc

Commit ==
    /\ pending # None
    /\ doc \in Docs
    /\ doc' = Apply(pending, doc)
    /\ pending' = None

\* The request has failed, found nothing to do, or been lost in a crash.
Abort == pending' = None /\ UNCHANGED doc

Next == (\E r \in [kind : {"put"}, id : Ids, val : Vals \cup {None}]
                  \cup [kind : {"load", "seal", "unseal"}] : Submit(r))
        \/ Commit
        \/ Abort

Spec == [][Next]_<<doc, pending>>
=============================================================================
