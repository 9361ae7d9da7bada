-------------------------------- MODULE Fifo --------------------------------
(***************************************************************************)
(* What one direction of a terminal promises (ShellChannel in              *)
(* crates/domain/src/traits.rs, and the pump in crates/ssh/src/shell.rs):  *)
(* what goes in comes out in the order it went in, each piece once and     *)
(* none left out in the middle, and the end comes after the last piece.    *)
(* The direction may be cut at any point without being told.               *)
(***************************************************************************)
EXTENDS Naturals, Sequences

CONSTANT Pieces     \* what may be sent

VARIABLES sent,     \* all that was sent
          got,      \* all that came out at the other end
          over      \* the other end was told that there is no more

Init == sent = <<>> /\ got = <<>> /\ over = FALSE

Send ==
    /\ ~over
    /\ \E p \in Pieces : sent' = Append(sent, p)
    /\ UNCHANGED <<got, over>>

Receive ==
    /\ ~over
    /\ Len(got) < Len(sent)
    /\ got' = Append(got, sent[Len(got) + 1])
    /\ UNCHANGED <<sent, over>>

End ==
    /\ got = sent
    /\ over' = TRUE
    /\ UNCHANGED <<sent, got>>

Next == Send \/ Receive \/ End

Spec == Init /\ [][Next]_<<sent, got, over>>
=============================================================================
