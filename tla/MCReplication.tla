--------------------------- MODULE MCReplication ---------------------------
(* Instances of Replication for TLC. *)
EXTENDS Replication
LOCAL INSTANCE TLC

\* Sound: no property tells one content from the other where Tombstones is empty.
ContentSymmetry == Permutations(Contents)

=============================================================================
