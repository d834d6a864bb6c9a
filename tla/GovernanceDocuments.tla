------------------------- MODULE GovernanceDocuments -------------------------
(***************************************************************************)
(* What the design documents say of the clean and quality stages, and the  *)
(* code does not do.  The statement's run ends in a counterexample.        *)
(***************************************************************************)
EXTENDS MCGovernance

\* Detailed design 15, section 34: a source revision that passes quality
\* updates the current official row.  The raw table drops a row it has seen
\* before, so a value that is corrected back never reaches the batch.
RevisionReachesTable ==
  LET c == collected[Len(collected)]
  IN /\ Len(collected) > 0 /\ batch[c] = "PUBLISHED"
     /\ \A d \in Sources : source[d] # "OPEN" => batch[d] \in {"PUBLISHED", "SUPERSEDED"}
     => \A r \in answer[c] \ (Skipped \cup Rejected) : ValueIn(r)
=============================================================================
