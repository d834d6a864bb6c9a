--------------------------- MODULE ReadsDocuments ---------------------------
(***************************************************************************)
(* What the documents and the comments say of the readers, and the code    *)
(* does not do.  Each statement is checked by a run of its own, which ends *)
(* in a counterexample.                                                    *)
(***************************************************************************)
EXTENDS MCDataReads

\* Design DD-CORE-006: the query layer of DataContext always attaches
\* available_at <= min(as_of_time, available_at_cutoff).  The API accepts an
\* as_of_time, and its DataContext is in research mode, which ignores it.
AsOfBoundsAnswer ==
  \A r \in Readers :
    rd[r].req.endpoint \in {"daily", "events"} /\ rd[r].req.asOf # Null =>
      \A t \in rd[r].rows : t.avail <= rd[r].req.asOf

ReadsDaily(r) == At(r, "daily") /\ rd'[r].pc # "done"

\* query.py: the policy STANDARD exposes the rows that passed, also with a
\* warning.  What a publication writes for these is PASS and WARN.
StandardExposesPublished ==
  [][\A r \in Readers :
       ReadsDaily(r) /\ rd[r].req.policy = "standard" =>
         \A t \in AsOf("stock_daily", Cutoff(rd[r].req)) :
           t.key \in rd[r].req.keys => t \in rd'[r].rows]_rd

\* The API's requests: what the API passes on of a replay is its as_of_time.
ApiRequests ==
  {q \in MCRequests : q.mode = "research"} \cup
    {[Query(endpoint, "lenient") EXCEPT !.asOf = 0] : endpoint \in {"daily", "events"}}
=============================================================================
