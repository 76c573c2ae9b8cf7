---------------------------- MODULE MCTableMerge ----------------------------
(* Values and symmetry for the runs of TableMerge. *)
EXTENDS TableMerge, TLC

\* Any two values: their order is all that counts.
TwoValues == {1, 2}
TwoTimes == {1, 2}

ReplicaSymmetry == Permutations(Replicas)
=============================================================================
