---------------------------- MODULE MCChangefeed ----------------------------
(* Instances of Changefeed for TLC. *)
EXTENDS Changefeed

\* Events of one size: MaxMemberBytes says how many fit one archive member.
UnitBytes == [e \in Event |-> 1]

=============================================================================
