------------------------------ MODULE Handoff ------------------------------
(***************************************************************************)
(* What the native mirror and the cache promise together: the source is    *)
(* captured one cut after another. A cut on offer is captured before the   *)
(* next is offered, exactly as it was offered and exactly once, however    *)
(* often the process dies or its policy changes in between.                *)
(***************************************************************************)
CONSTANTS Cuts,   \* states the source may be captured in
          NoCut

VARIABLES offered,    \* the cut being captured, or NoCut
          captured    \* the cut the cache last captured whole

Init == offered = NoCut /\ captured = NoCut

Offer(cut) ==
  /\ offered = NoCut
  /\ offered' = cut
  /\ UNCHANGED captured

Capture ==
  /\ offered # NoCut
  /\ captured' = offered
  /\ offered' = NoCut

Next == Capture \/ \E cut \in Cuts : Offer(cut)

Spec == Init /\ [][Next]_<<offered, captured>>
=============================================================================
