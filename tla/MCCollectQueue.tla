--------------------------- MODULE MCCollectQueue ---------------------------
(* Instances of CollectQueue for TLC.                                      *)
EXTENDS CollectQueue, TLC

CONSTANTS w1, w2, o1, t1, s1, s2, s3, b1

MCTaskOf    == [s \in Slices |-> t1]
MCBindingOf == [t \in Tasks |-> b1]
\* One planned slice whose full page continues in s2.
MCPaged     == s1 :> s2 @@ [s \in Slices |-> NoSlice]
MCNoPages   == [s \in Slices |-> NoSlice]
MCRank      == s1 :> 1 @@ [s \in Slices |-> 2]

WorkerSymmetry == Permutations(Workers)
=============================================================================
