------------------------------ MODULE Subject ------------------------------
(***************************************************************************)
(* Parts that share no state are checked side by side: a behaviour         *)
(* exercises one of them, its subject, and the others rest (Parts).        *)
(***************************************************************************)

VARIABLE subject

=============================================================================
