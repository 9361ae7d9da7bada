------------------------------ MODULE CopyJob -------------------------------
(***************************************************************************)
(* What a copy promises the user and the command loop (start_transfer and  *)
(* start_glob_download in crates/ui/src/backend.rs): a card that runs and  *)
(* gets one last word, and a token that can be cancelled as long as the    *)
(* card is running and the copy still holds it.  What a copy that failed   *)
(* or was cancelled has left on the disk is not promised.                  *)
(***************************************************************************)
VARIABLES card,        \* the card in the webview: "none", "running", "done", "error"
          token,       \* the copy is in the map of transfers
          cancelled    \* its token was cancelled

Init == card = "none" /\ token = FALSE /\ cancelled = FALSE

Start ==
    /\ card = "none"
    /\ token' = TRUE
    /\ card' = "running"
    /\ UNCHANGED cancelled

Cancel ==
    /\ token
    /\ cancelled' = TRUE
    /\ UNCHANGED <<card, token>>

Release ==
    /\ card = "running"
    /\ token' = FALSE
    /\ UNCHANGED <<card, cancelled>>

Report ==
    /\ card = "running"
    /\ ~token
    /\ card' \in {"done", "error"}
    /\ UNCHANGED <<token, cancelled>>

Next == Start \/ Cancel \/ Release \/ Report

Spec == Init /\ [][Next]_<<card, token, cancelled>>
=============================================================================
