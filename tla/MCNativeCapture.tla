--------------------------- MODULE MCNativeCapture ---------------------------
(* Instances for TLC of NativeCapture. *)
EXTENDS NativeCapture, TLC

MCRows == {"note", "film", "chat"}
MCFull == {[r \in MCRows |-> 1]}
=============================================================================
