---------------------------- MODULE MCGovernance ----------------------------
(* Instances of Governance for TLC.                                        *)
EXTENDS Governance, TLC

CONSTANTS w1, w2, c1, c2, c3, k1, k2

R(k, v) == [key |-> k, val |-> v]

\* All sources are collections of the same trade date.
MCScopeOf   == [c \in Sources |-> "day"]
\* An empty answer, one with a row that is skipped, one with a rejected row.
MCMixed     == {{}, {R(k1, 1), R(k2, 1)}, {R(k1, 2), R(k2, 2)}}
MCSkipped   == {R(k2, 1)}
MCRejected  == {R(k1, 2)}
\* One value of one key that is corrected and corrected back.
MCCorrected == {{R(k1, 1)}, {R(k1, 2)}}

\* Claims: every slice twice, or only the quality slices.
MCTwice        == [j \in Jobs |-> 2]
MCQualityTwice == [j \in Jobs |-> IF j[1] = "CLEAN" THEN 1 ELSE 2]
MCOnce         == [j \in Jobs |-> 1]

WorkerSymmetry == Permutations(Workers)
SourceSymmetry == Permutations(Sources)
BothSymmetries == WorkerSymmetry \cup SourceSymmetry
=============================================================================
