---------------------------- MODULE PublishedStore ----------------------------
(***************************************************************************)
(* What the clean and quality stages promise the readers of schema clean,  *)
(* without tasks, leases, workers, locks or candidate rows.                *)
(*                                                                         *)
(* A source offers a set of rows, once.  Its batch is staged, and then     *)
(* judged any number of times: blocked, which touches no row, or           *)
(* published, which in one step puts rows of the offer in the place of the *)
(* rows with their keys, opens a version of each, and replaces other       *)
(* batches of the scope that were published before.  The rows of a batch   *)
(* enter the table in one publication and never again, and a batch whose   *)
(* offer is faulty is not published.                                       *)
(*                                                                         *)
(* Which rows of the offer are written is left open: the code leaves out   *)
(* those it found in the table before it waited for the locks.  So are     *)
(* the versions that are closed and the batches that are replaced.         *)
(***************************************************************************)
CONSTANTS Sources, ScopeOf, Keys, Vals, Historic, NoSource

VARIABLES
  offer,        \* the rows a source offers
  faulty,       \* the sources with a row that must not be passed over
  batch,        \* "ABSENT", "CANDIDATE", "BLOCKED", "PUBLISHED", "SUPERSEDED"
  approved,     \* the batches that were published at some time
  supersededBy, \* the batch that replaced a batch last
  table,        \* the published rows
  history       \* their versions

vars == <<offer, faulty, batch, approved, supersededBy, table, history>>

Row == [key : Keys, val : Vals]

Init ==
  /\ offer = [c \in Sources |-> {}] /\ faulty = {}
  /\ batch = [c \in Sources |-> "ABSENT"]
  /\ approved = {} /\ supersededBy = [c \in Sources |-> NoSource]
  /\ table = {} /\ history = {}

Offer(c, rows) ==
  /\ batch[c] = "ABSENT" /\ offer[c] = {} /\ c \notin faulty
  /\ offer' = [offer EXCEPT ![c] = rows]
  /\ faulty' = faulty \/ faulty' = faulty \cup {c}
  /\ UNCHANGED <<batch, approved, supersededBy, table, history>>

Stage(c) ==
  /\ batch[c] = "ABSENT"
  /\ batch' = [batch EXCEPT ![c] = "CANDIDATE"]
  /\ UNCHANGED <<offer, faulty, approved, supersededBy, table, history>>

Block(c) ==
  /\ batch[c] # "ABSENT"
  /\ batch' = [batch EXCEPT ![c] = "BLOCKED"]
  /\ UNCHANGED <<offer, faulty, approved, supersededBy, table, history>>

KeysIn(rows) == {r.key : r \in rows}
Upserted(c, rows) ==
  {t \in table : t.key \notin KeysIn(rows)}
    \cup {[key |-> r.key, val |-> r.val, from |-> c] : r \in rows}
Versions(c, rows, closed) ==
  {h \in history : h \notin closed}
    \cup {[h EXCEPT !.open = FALSE] : h \in closed}
    \cup {[key |-> r.key, val |-> r.val, from |-> c, open |-> TRUE] : r \in rows}
Replaceable(c) == {d \in approved \ {c} : ScopeOf[d] = ScopeOf[c]}

Publish(c, rows, closed, replaced) ==
  /\ batch[c] # "ABSENT" /\ c \notin faulty
  /\ c \in approved => rows = {}
  /\ \A h \in closed : h.open /\ h.key \in KeysIn(rows)
  /\ approved' = approved \cup {c}
  /\ table' = Upserted(c, rows)
  /\ history' = IF Historic THEN Versions(c, rows, closed) ELSE history
  /\ batch' = [d \in Sources |-> IF d = c THEN "PUBLISHED"
                                 ELSE IF d \in replaced THEN "SUPERSEDED"
                                 ELSE batch[d]]
  /\ supersededBy' = [d \in Sources |-> IF d \in replaced THEN c ELSE supersededBy[d]]
  /\ UNCHANGED <<offer, faulty>>

Next ==
  \E c \in Sources :
    \/ \E rows \in SUBSET Row : Offer(c, rows)
    \/ Stage(c) \/ Block(c)
    \/ \E rows \in SUBSET offer[c], closed \in SUBSET history,
          replaced \in SUBSET Replaceable(c) : Publish(c, rows, closed, replaced)

Spec == Init /\ [][Next]_vars
=============================================================================
