--------------------------- MODULE QueueDocuments ---------------------------
(***************************************************************************)
(* What the repository's documents say of the queue, and the code does not *)
(* do.  The statement's run ends in a counterexample.                      *)
(***************************************************************************)
EXTENDS MCCollectQueue

\* Detailed design 07, chapter 61: all leaf slices SUCCEEDED makes the task
\* SUCCEEDED.  Two workers under different runs may each count the other's
\* slice as unfinished, and nobody counts again.
FinishedTaskIsClosed ==
  \A t \in Tasks :
    /\ \A s \in SlicesOf(t) : slice[s] = "SUCCEEDED"
    /\ \A w \in Workers : wk[w].pc = "idle"
    => task[t] \notin ClaimableTask
=============================================================================
