---------------------------- MODULE ReadsProofs ----------------------------
(***************************************************************************)
(* Theorems of DataReads: its types, that a replay sees no later content,  *)
(* that the metadata of an answer covers its rows, and that a lineage      *)
(* shows the quality run that approved the row.                            *)
(*                                                                         *)
(* The four rest on one invariant of a row (Sound), which holds of the     *)
(* rows in the tables and of those that a session has read from them, and  *)
(* which no later step takes from a row.                                   *)
(***************************************************************************)
EXTENDS DataReads, TLAPS

Approved(judged, quality) == \E n \in DOMAIN judged : judged[n] = Verdict(quality)
Sound(t) ==
  /\ t \in FormalRow
  /\ t.avail <= now
  /\ t.avail = decided[t.from]
  /\ Approved(runs[t.from], t.quality)

Replays(q) == q.endpoint \in {"daily", "events"} /\ q.mode # "research"
Queries(q) == q.endpoint \notin {"lineage", "batch"}

PubOK(b) ==
  pub[b].run # 0 =>
    /\ pub[b].run \in DOMAIN runs[b] /\ runs[b][pub[b].run] = "RUNNING"
    /\ pub[b].changed \subseteq RowsOf[b]
    /\ pub[b].at <= now
    /\ ~IsPublished(b)

SessionOK(s, a) ==
  /\ s \in Session /\ a.status \in Status /\ a.cutoff \in Instant
  /\ s.pc \in {"idle", "read"} => s.rows = {} /\ s.factors = {}
  /\ s.pc \in {"factors", "dates"} => s.req.endpoint = "daily" /\ Anchored(s.req)
  /\ s.pc = "more" => /\ s.req.endpoint = "events" /\ Anchored(s.req)
                      /\ Replays(s.req) => s.cutoff <= s.req.asOf
  /\ s.pc = "respond" => Queries(s.req)
  /\ s.pc = "runs" => s.req.endpoint = "lineage" /\ \E t \in FormalRow : s.rows = {t}
  /\ Replays(s.req) => \A t \in s.rows \cup s.factors : t.avail <= s.req.asOf
  /\ s.pc = "done" /\ a.status = "200" /\ s.req.asOf = Null /\ Queries(s.req) =>
       \A t \in s.rows \cup s.factors : t.avail <= a.cutoff
  /\ s.pc = "done" /\ a.status = "200" /\ s.req.endpoint = "lineage" =>
       \A t \in s.rows : Approved(s.runs, t.quality)

MarketOK ==
  /\ now \in Instant
  /\ \A t, u \in table : t.item = u.item /\ t.key = u.key => t = u
  /\ runs \in [Batches -> Seq(RunStatus)]
  /\ \A b \in Batches : Len(runs[b]) <= MaxRuns
  /\ pub \in [Batches -> Pub]
  /\ decided \in [Batches -> Instant]
  /\ \A b \in Batches : PubOK(b)
  /\ \A t \in table : Sound(t)
ReadersOK ==
  /\ rd \in [Readers -> Session]
  /\ ans = [r \in Readers |-> ans[r]]
  /\ \A r \in Readers : SessionOK(rd[r], ans[r])
  /\ \A r \in Readers : \A t \in rd[r].rows \cup rd[r].factors : Sound(t)
IInv == MarketOK /\ ReadersOK

-----------------------------------------------------------------------------
(***************************************************************************)
(* The first state.                                                        *)
(***************************************************************************)
LEMMA FetchingFits ==
  ASSUME NEW q \in Requests
  PROVE  Fetching(q) \in Session
BY DataReadsConstants DEF Fetching, Session, Steps, Instant

LEMMA InitOK == Init => IInv
<1>1. SUFFICES ASSUME Init PROVE IInv
  OBVIOUS
<1>2. MarketOK
  <2>1. now \in Instant
    BY <1>1, DataReadsConstants DEF Init, Instant
  <2>2. runs \in [Batches -> Seq(RunStatus)] /\ \A b \in Batches : Len(runs[b]) <= MaxRuns
    BY <1>1, DataReadsConstants DEF Init
  <2>3. pub \in [Batches -> Pub] /\ decided \in [Batches -> Instant]
    BY <1>1, DataReadsConstants DEF Init, Pub, NoPub, Instant, Quality
  <2>4. \A b \in Batches : PubOK(b)
    BY <1>1 DEF Init, PubOK, NoPub
  <2> QED BY <1>1, <2>1, <2>2, <2>3, <2>4 DEF MarketOK, Init
<1>3. ReadersOK
  <2> DEFINE first == CHOOSE q \in Requests : TRUE
             start == [Fetching(first) EXCEPT !.pc = "idle"]
  <2>1. first \in Requests
    BY DataReadsConstants
  <2>2. Fetching(first) \in Session
    BY <2>1, FetchingFits
  <2>3. start \in Session
    BY <2>2 DEF Session, Steps
  <2>4. start.pc = "idle" /\ start.rows = {} /\ start.factors = {}
    BY DEF Fetching
  <2>5. SessionOK(start, NoAnswer)
    BY <2>3, <2>4, DataReadsConstants DEF SessionOK, NoAnswer, Status, Instant
  <2>6. rd = [r \in Readers |-> start] /\ ans = [r \in Readers |-> NoAnswer]
    BY <1>1 DEF Init
  <2> HIDE DEF start
  <2> QED BY <2>3, <2>4, <2>5, <2>6 DEF ReadersOK
<1> QED BY <1>2, <1>3 DEF IInv

-----------------------------------------------------------------------------
(***************************************************************************)
(* A step of the publishers.                                               *)
(***************************************************************************)
\* What a quality run may do with the market without losing a sound row.
Keeps ==
  /\ now <= now'
  /\ \A b \in Batches : IsPublished(b) =>
       /\ decided'[b] = decided[b]
       /\ \A n \in DOMAIN runs[b] : runs[b][n] \in {"PASSED", "WARNED"} =>
            n \in DOMAIN runs'[b] /\ runs'[b][n] = runs[b][n]

LEMMA VerdictIsFinal ==
  ASSUME NEW quality
  PROVE  Verdict(quality) \in {"PASSED", "WARNED"}
BY DEF Verdict

LEMMA SoundStays ==
  ASSUME NEW t, Sound(t), Keeps, now \in Instant, now' \in Instant
  PROVE  Sound(t)'
<1>1. t \in FormalRow /\ t.from \in Batches /\ t.avail \in Instant
  BY DEF Sound, FormalRow
<1>2. PICK n \in DOMAIN runs[t.from] : runs[t.from][n] = Verdict(t.quality)
  BY DEF Sound, Approved
<1>3. runs[t.from][n] \in {"PASSED", "WARNED"}
  BY <1>2, VerdictIsFinal
<1>4. IsPublished(t.from)
  BY <1>2, <1>3 DEF IsPublished
<1>5. decided'[t.from] = decided[t.from]
  BY <1>1, <1>4 DEF Keeps
<1>6. n \in DOMAIN runs'[t.from] /\ runs'[t.from][n] = Verdict(t.quality)
  BY <1>1, <1>2, <1>3, <1>4 DEF Keeps
<1>7. t.avail <= now'
  BY <1>1, DataReadsConstants DEF Sound, Keeps, Instant
<1> QED BY <1>1, <1>5, <1>6, <1>7 DEF Sound, Approved

\* A session is not touched, and what it has read stays sound.
LEMMA ReadersStay ==
  ASSUME ReadersOK, Keeps, now \in Instant, now' \in Instant, UNCHANGED <<rd, ans>>
  PROVE  ReadersOK'
<1>1. \A r \in Readers : \A t \in rd[r].rows \cup rd[r].factors : Sound(t)'
  BY SoundStays DEF ReadersOK
<1>2. \A r \in Readers : SessionOK(rd[r], ans[r])'
  BY DEF ReadersOK, SessionOK, Session, FormalRow, Instant, Anchored, Replays, Queries,
         Approved, Verdict, Status, Steps
<1> QED BY <1>1, <1>2 DEF ReadersOK, Session, FormalRow

LEMMA TickKeeps ==
  ASSUME MarketOK, Tick
  PROVE  MarketOK' /\ Keeps
<1>1. now' \in Instant /\ now \in Nat /\ now' = now + 1
  BY DataReadsConstants DEF MarketOK, Tick, Instant
<1>2. UNCHANGED <<table, runs, pub, decided>>
  BY DEF Tick
<1>3. Keeps
  BY <1>1, <1>2 DEF Keeps
<1>4. \A t \in table : Sound(t)'
  BY <1>1, <1>3, SoundStays DEF MarketOK
<1>5. \A b \in Batches : PubOK(b)'
  <2>1. ASSUME NEW b \in Batches, pub[b].run # 0
        PROVE  PubOK(b)'
    <3>1. pub[b].at \in Instant /\ PubOK(b)
      BY DEF MarketOK, Pub
    <3>2. pub[b].at <= now'
      BY <3>1, <2>1, <1>1, DataReadsConstants DEF PubOK, Instant
    <3> QED BY <3>1, <3>2, <2>1, <1>2 DEF PubOK, IsPublished
  <2> QED BY <2>1, <1>2 DEF PubOK
<1> QED BY <1>1, <1>2, <1>3, <1>4, <1>5 DEF MarketOK

LEMMA PrepareKeeps ==
  ASSUME MarketOK, NEW b \in Batches, Prepare(b)
  PROVE  MarketOK' /\ Keeps
<1>1. UNCHANGED <<now, table, pub, decided>>
  BY DEF Prepare
<1>2. /\ runs[b] \in Seq(RunStatus) /\ Len(runs[b]) < MaxRuns
      /\ runs' = [runs EXCEPT ![b] = Append(runs[b], "RUNNING")]
  BY DEF Prepare, MarketOK
<1>3. "RUNNING" \in RunStatus
  BY DEF RunStatus
<1>4. /\ Append(runs[b], "RUNNING") \in Seq(RunStatus)
      /\ Len(Append(runs[b], "RUNNING")) = Len(runs[b]) + 1
      /\ DOMAIN Append(runs[b], "RUNNING") = 1 .. Len(runs[b]) + 1
      /\ \A n \in 1 .. Len(runs[b]) : Append(runs[b], "RUNNING")[n] = runs[b][n]
      /\ Append(runs[b], "RUNNING")[Len(runs[b]) + 1] = "RUNNING"
  BY <1>2, <1>3
<1>5. \A d \in Batches : d # b => runs'[d] = runs[d]
  BY <1>2 DEF MarketOK
<1>6. runs'[b] = Append(runs[b], "RUNNING")
  BY <1>2 DEF MarketOK
<1>7. DOMAIN runs[b] = 1 .. Len(runs[b])
  BY <1>2
<1>8. Keeps
  <2>1. now <= now'
    BY <1>1 DEF MarketOK, Instant
  <2>2. ASSUME NEW d \in Batches, NEW n \in DOMAIN runs[d]
        PROVE  n \in DOMAIN runs'[d] /\ runs'[d][n] = runs[d][n]
    <3>1. CASE d = b
      BY <3>1, <2>2, <1>2, <1>4, <1>6, <1>7
    <3>2. CASE d # b
      BY <3>2, <2>2, <1>5
    <3> QED BY <3>1, <3>2
  <2> QED BY <2>1, <2>2, <1>1 DEF Keeps
<1>9. runs' \in [Batches -> Seq(RunStatus)] /\ \A d \in Batches : Len(runs'[d]) <= MaxRuns
  <2>1. runs' \in [Batches -> Seq(RunStatus)]
    BY <1>2, <1>4 DEF MarketOK
  <2>2. Len(runs'[b]) <= MaxRuns
    BY <1>2, <1>4, <1>6, DataReadsConstants
  <2> QED BY <2>1, <2>2, <1>5 DEF MarketOK
<1>10. ASSUME NEW d \in Batches, pub[d].run # 0
       PROVE  PubOK(d)'
  <2>1. PubOK(d) /\ pub' = pub /\ now' = now
    BY <1>1 DEF MarketOK
  <2>2. CASE d # b
    BY <2>1, <2>2, <1>5, <1>10 DEF PubOK, IsPublished
  <2>3. CASE d = b
    <3>1. ~IsPublished(b)'
      BY <2>1, <2>3, <1>10, <1>4, <1>6, <1>7, <1>2 DEF PubOK, IsPublished
    <3>2. pub[b].run \in DOMAIN runs'[b] /\ runs'[b][pub[b].run] = "RUNNING"
      BY <2>1, <2>3, <1>10, <1>4, <1>6, <1>7, <1>2 DEF PubOK
    <3> QED BY <3>1, <3>2, <2>1, <2>3, <1>10 DEF PubOK
  <2> QED BY <2>2, <2>3
<1>11. \A d \in Batches : PubOK(d)'
  BY <1>10, <1>1 DEF PubOK
<1>12. \A t \in table : Sound(t)'
  BY <1>1, <1>8, SoundStays DEF MarketOK
<1> QED BY <1>1, <1>8, <1>9, <1>11, <1>12 DEF MarketOK

\* One run of a batch gets a final status.
Closes(b, n, status) ==
  runs' = [runs EXCEPT ![b] = [runs[b] EXCEPT ![n] = status]]

LEMMA CloseFits ==
  ASSUME MarketOK, NEW b \in Batches, NEW n \in DOMAIN runs[b],
         NEW status \in RunStatus, Closes(b, n, status)
  PROVE  /\ runs' \in [Batches -> Seq(RunStatus)]
         /\ \A d \in Batches : Len(runs'[d]) <= MaxRuns
         /\ \A d \in Batches : d # b => runs'[d] = runs[d]
         /\ DOMAIN runs'[b] = DOMAIN runs[b]
         /\ runs'[b][n] = status
         /\ \A k \in DOMAIN runs[b] : k # n => runs'[b][k] = runs[b][k]
<1>1. runs[b] \in Seq(RunStatus) /\ runs \in [Batches -> Seq(RunStatus)]
  BY DEF MarketOK
<1>2. [runs[b] EXCEPT ![n] = status] \in Seq(RunStatus)
  BY <1>1
<1>3. runs'[b] = [runs[b] EXCEPT ![n] = status] /\ \A d \in Batches : d # b => runs'[d] = runs[d]
  BY <1>1 DEF Closes
<1>4. runs' \in [Batches -> Seq(RunStatus)]
  BY <1>1, <1>2 DEF Closes
<1>5. Len(runs'[b]) = Len(runs[b]) /\ DOMAIN runs'[b] = DOMAIN runs[b]
  BY <1>1, <1>2, <1>3
<1> QED BY <1>1, <1>3, <1>4, <1>5 DEF MarketOK

LEMMA CloseKeeps ==
  ASSUME MarketOK, NEW b \in Batches, NEW n \in DOMAIN runs[b], runs[b][n] = "RUNNING",
         NEW status \in RunStatus, Closes(b, n, status), now' = now,
         \A d \in Batches : IsPublished(d) => decided'[d] = decided[d]
  PROVE  Keeps
<1>1. ASSUME NEW d \in Batches, NEW k \in DOMAIN runs[d],
             runs[d][k] \in {"PASSED", "WARNED"}
      PROVE  k \in DOMAIN runs'[d] /\ runs'[d][k] = runs[d][k]
  <2>1. CASE d = b
    <3>1. k # n /\ k \in DOMAIN runs[b]
      BY <2>1, <1>1
    <3> QED BY <3>1, <2>1, CloseFits
  <2>2. CASE d # b
    BY <2>2, <1>1, CloseFits
  <2> QED BY <2>1, <2>2
<1>2. now <= now'
  BY DEF MarketOK, Instant
<1> QED BY <1>1, <1>2 DEF Keeps

LEMMA BlockKeeps ==
  ASSUME MarketOK, NEW b \in Batches, NEW n \in 1 .. MaxRuns, Block(b, n)
  PROVE  MarketOK' /\ Keeps
<1>1. UNCHANGED <<now, table, pub, decided>> /\ pub[b].run = 0
  BY DEF Block, Judges
<1>2. n \in DOMAIN runs[b] /\ runs[b][n] = "RUNNING" /\ Closes(b, n, "BLOCKED")
  BY DEF Block, Judges, Closes
<1>3. "BLOCKED" \in RunStatus
  BY DEF RunStatus
<1>4. /\ runs' \in [Batches -> Seq(RunStatus)]
      /\ \A d \in Batches : Len(runs'[d]) <= MaxRuns
      /\ \A d \in Batches : d # b => runs'[d] = runs[d]
      /\ DOMAIN runs'[b] = DOMAIN runs[b]
      /\ \A k \in DOMAIN runs[b] : k # n => runs'[b][k] = runs[b][k]
  BY <1>2, <1>3, CloseFits
<1>5. Keeps
  BY <1>1, <1>2, <1>3, CloseKeeps
<1>6. \A d \in Batches : PubOK(d)'
  BY <1>1, <1>4 DEF MarketOK, PubOK, IsPublished
<1>7. \A t \in table : Sound(t)'
  BY <1>1, <1>5, SoundStays DEF MarketOK
<1> QED BY <1>1, <1>4, <1>5, <1>6, <1>7 DEF MarketOK

LEMMA StampKeeps ==
  ASSUME MarketOK, NEW b \in Batches, NEW n \in 1 .. MaxRuns, NEW quality \in Quality,
         Stamp(b, n, quality)
  PROVE  MarketOK' /\ Keeps
<1> DEFINE new == [run |-> n, at |-> now, quality |-> quality,
                   changed |-> {p \in RowsOf[b] : ~Unchanged(b, p)}]
<1>1. UNCHANGED <<now, table, runs, decided>> /\ pub' = [pub EXCEPT ![b] = new]
  BY DEF Stamp
<1>2. n \in DOMAIN runs[b] /\ runs[b][n] = "RUNNING" /\ ~IsPublished(b)
  BY DEF Stamp, Judges
<1>3. new.changed \subseteq RowsOf[b] /\ new.changed \in SUBSET Candidate
  BY DataReadsConstants
<1>4. new \in Pub
  BY <1>3, DataReadsConstants DEF Pub, MarketOK
<1>5. pub' \in [Batches -> Pub] /\ pub'[b] = new /\ \A d \in Batches : d # b => pub'[d] = pub[d]
  BY <1>1, <1>4 DEF MarketOK
<1>6. new.run = n /\ new.at = now
  OBVIOUS
<1> HIDE DEF new
<1>7. Keeps
  BY <1>1 DEF Keeps, MarketOK, Instant
<1>8. PubOK(b)'
  BY <1>1, <1>2, <1>3, <1>5, <1>6 DEF PubOK, IsPublished, MarketOK, Instant
<1>9. \A d \in Batches : PubOK(d)'
  BY <1>1, <1>5, <1>8 DEF MarketOK, PubOK, IsPublished
<1>10. \A t \in table : Sound(t)'
  BY <1>1, <1>7, SoundStays DEF MarketOK
<1> QED BY <1>1, <1>5, <1>7, <1>9, <1>10 DEF MarketOK

LEMMA NoPubFits == NoPub \in Pub /\ NoPub.run = 0
BY DataReadsConstants DEF NoPub, Pub, Instant, Quality

LEMMA RollbackKeeps ==
  ASSUME MarketOK, NEW b \in Batches, Rollback(b)
  PROVE  MarketOK' /\ Keeps
<1> DEFINE n == pub[b].run
<1>1. UNCHANGED <<now, table, decided>> /\ pub' = [pub EXCEPT ![b] = NoPub] /\ n # 0
  BY DEF Rollback
<1>2. n \in DOMAIN runs[b] /\ runs[b][n] = "RUNNING" /\ Closes(b, n, "FAILED")
  BY <1>1 DEF Rollback, MarketOK, PubOK, Closes
<1> HIDE DEF n
<1>3. "FAILED" \in RunStatus
  BY DEF RunStatus
<1>4. /\ runs' \in [Batches -> Seq(RunStatus)]
      /\ \A d \in Batches : Len(runs'[d]) <= MaxRuns
      /\ \A d \in Batches : d # b => runs'[d] = runs[d]
      /\ DOMAIN runs'[b] = DOMAIN runs[b]
      /\ \A k \in DOMAIN runs[b] : k # n => runs'[b][k] = runs[b][k]
  BY <1>2, <1>3, CloseFits
<1>5. Keeps
  BY <1>1, <1>2, <1>3, CloseKeeps
<1>6. pub' \in [Batches -> Pub] /\ pub'[b] = NoPub /\ \A d \in Batches : d # b => pub'[d] = pub[d]
  BY <1>1, NoPubFits DEF MarketOK
<1>7. \A d \in Batches : PubOK(d)'
  BY <1>1, <1>4, <1>6, NoPubFits DEF MarketOK, PubOK, IsPublished
<1>8. \A t \in table : Sound(t)'
  BY <1>1, <1>5, SoundStays DEF MarketOK
<1> QED BY <1>1, <1>4, <1>5, <1>6, <1>7, <1>8 DEF MarketOK

LEMMA CommitKeeps ==
  ASSUME MarketOK, NEW b \in Batches, Commit(b)
  PROVE  MarketOK' /\ Keeps
<1> DEFINE n == pub[b].run
           status == Verdict(pub[b].quality)
<1>1. /\ now' = now /\ table' = Upserted(b) /\ pub' = [pub EXCEPT ![b] = NoPub] /\ n # 0
      /\ decided' = [decided EXCEPT ![b] = pub[b].at]
  BY DEF Commit
<1>2. /\ n \in DOMAIN runs[b] /\ runs[b][n] = "RUNNING" /\ Closes(b, n, status)
      /\ pub[b].changed \subseteq RowsOf[b] /\ pub[b].at <= now /\ ~IsPublished(b)
  BY <1>1 DEF Commit, MarketOK, PubOK, Closes
<1>3. status \in RunStatus
  BY VerdictIsFinal DEF RunStatus
<1> HIDE DEF n, status
<1>4. /\ runs' \in [Batches -> Seq(RunStatus)]
      /\ \A d \in Batches : Len(runs'[d]) <= MaxRuns
      /\ \A d \in Batches : d # b => runs'[d] = runs[d]
      /\ DOMAIN runs'[b] = DOMAIN runs[b]
      /\ runs'[b][n] = status
  BY <1>2, <1>3, CloseFits
<1>5. pub[b] \in Pub /\ pub[b].at \in Instant /\ pub[b].quality \in Quality
  BY DEF MarketOK, Pub
<1>6. /\ decided' \in [Batches -> Instant] /\ decided'[b] = pub[b].at
      /\ \A d \in Batches : d # b => decided'[d] = decided[d]
  BY <1>1, <1>5 DEF MarketOK
<1>7. Keeps
  <2>1. \A d \in Batches : IsPublished(d) => decided'[d] = decided[d]
    BY <1>2, <1>6
  <2> QED BY <2>1, <1>1, <1>2, <1>3, CloseKeeps
<1>8. pub' \in [Batches -> Pub] /\ pub'[b] = NoPub /\ \A d \in Batches : d # b => pub'[d] = pub[d]
  BY <1>1, NoPubFits DEF MarketOK
<1>9. \A d \in Batches : PubOK(d)'
  BY <1>1, <1>4, <1>8, NoPubFits DEF MarketOK, PubOK, IsPublished
<1>10. \A t \in table : Sound(t)'
  BY <1>1, <1>7, SoundStays DEF MarketOK
<1>11. ASSUME NEW u \in Written(b)
       PROVE  /\ Sound(u)' /\ u.item = ItemOf[b]
              /\ \E p \in pub[b].changed : p.key = u.key /\ p.val = u.val
              /\ u.avail = pub[b].at /\ u.quality = pub[b].quality /\ u.from = b
  <2>1. PICK p \in pub[b].changed :
          u = [item |-> ItemOf[b], key |-> p.key, val |-> p.val, avail |-> pub[b].at,
               quality |-> pub[b].quality, from |-> b]
    BY DEF Written
  <2>2. p \in Candidate
    BY <1>2, DataReadsConstants
  <2>3. u \in FormalRow
    BY <2>1, <2>2, <1>5, DataReadsConstants DEF FormalRow, Candidate
  <2>4. Approved(runs'[b], pub[b].quality)
    BY <1>2, <1>4 DEF Approved, status
  <2>5. Sound(u)'
    BY <2>1, <2>3, <2>4, <1>1, <1>2, <1>6 DEF Sound, Approved, Verdict
  <2> QED BY <2>1, <2>5
<1>12. \A t \in table' : Sound(t)'
  BY <1>1, <1>10, <1>11 DEF Upserted
<1>13. ASSUME NEW t \in table', NEW u \in table', t.item = u.item, t.key = u.key
       PROVE  t = u
  <2>1. CASE t \in table /\ u \in table
    BY <2>1, <1>13 DEF MarketOK
  <2>2. CASE t \in Written(b) /\ u \in Written(b)
    <3>1. PICK p \in pub[b].changed :
            t = [item |-> ItemOf[b], key |-> p.key, val |-> p.val, avail |-> pub[b].at,
                 quality |-> pub[b].quality, from |-> b]
      BY <2>2 DEF Written
    <3>2. PICK q \in pub[b].changed :
            u = [item |-> ItemOf[b], key |-> q.key, val |-> q.val, avail |-> pub[b].at,
                 quality |-> pub[b].quality, from |-> b]
      BY <2>2 DEF Written
    <3>3. p = q
      BY <3>1, <3>2, <1>13, <1>2, DataReadsConstants
    <3> QED BY <3>1, <3>2, <3>3
  <2>3. ASSUME NEW v \in table, NEW w \in Written(b), v.item = w.item, v.key = w.key
        PROVE  v \in Replaced(b)
    BY <2>3, <1>11 DEF Replaced
  <2> QED BY <2>1, <2>2, <2>3, <1>13, <1>1 DEF Upserted
<1> QED BY <1>1, <1>4, <1>6, <1>7, <1>8, <1>9, <1>12, <1>13 DEF MarketOK

LEMMA PublisherOK ==
  ASSUME IInv, Tick \/ \E b \in Batches : Publisher(b)
  PROVE  IInv'
<1>1. MarketOK' /\ Keeps
  BY TickKeeps, PrepareKeeps, BlockKeeps, StampKeeps, RollbackKeeps, CommitKeeps
     DEF IInv, Publisher
<1>2. UNCHANGED <<rd, ans>>
  BY DEF Tick, Publisher, Prepare, Block, Stamp, Rollback, Commit
<1>3. now \in Instant /\ now' \in Instant
  BY <1>1 DEF IInv, MarketOK
<1>4. ReadersOK'
  BY <1>1, <1>2, <1>3, ReadersStay DEF IInv
<1> QED BY <1>1, <1>4 DEF IInv

-----------------------------------------------------------------------------
(***************************************************************************)
(* A step of a session.                                                    *)
(***************************************************************************)
LEMMA SessionStep ==
  ASSUME IInv, NEW r \in Readers, NEW s, NEW a, UNCHANGED market,
         rd' = [rd EXCEPT ![r] = s], ans' = [ans EXCEPT ![r] = a],
         SessionOK(s, a), \A t \in s.rows \cup s.factors : Sound(t)
  PROVE  IInv'
<1>1. MarketOK'
  BY DEF IInv, MarketOK, market, PubOK, IsPublished, Sound
<1>2. \A t : Sound(t) => Sound(t)'
  BY DEF Sound, market
<1>3. s \in Session
  BY DEF SessionOK
<1>4. rd' \in [Readers -> Session] /\ rd'[r] = s /\ \A k \in Readers : k # r => rd'[k] = rd[k]
  BY <1>3 DEF IInv, ReadersOK
<1>5. /\ ans' = [k \in Readers |-> ans'[k]] /\ ans'[r] = a
      /\ \A k \in Readers : k # r => ans'[k] = ans[k]
  BY DEF IInv, ReadersOK
<1>6. \A k \in Readers : SessionOK(rd'[k], ans'[k])
  BY <1>4, <1>5 DEF IInv, ReadersOK
<1>7. \A k \in Readers : \A t \in rd'[k].rows \cup rd'[k].factors : Sound(t)'
  BY <1>2, <1>4 DEF IInv, ReadersOK
<1>8. ReadersOK'
  BY <1>4, <1>5, <1>6, <1>7 DEF ReadersOK, SessionOK, Anchored, Replays, Queries, Approved
<1> QED BY <1>1, <1>8 DEF IInv

LEMMA ContinueOK ==
  ASSUME IInv, NEW r \in Readers, NEW s, UNCHANGED market, Continue(r, s),
         SessionOK(s, ans[r]), \A t \in s.rows \cup s.factors : Sound(t)
  PROVE  IInv'
<1>1. rd' = [rd EXCEPT ![r] = s] /\ ans' = ans
  BY DEF Continue
<1>2. ans' = [ans EXCEPT ![r] = ans[r]]
  BY <1>1 DEF IInv, ReadersOK
<1> QED BY <1>1, <1>2, SessionStep

\* A session that ends keeps its rows.  An answer 200 needs a cutoff for them.
LEMMA AnswerOK ==
  ASSUME IInv, NEW r \in Readers, UNCHANGED market,
         NEW status \in Status, NEW rows, NEW cutoff \in Instant, NEW quality,
         Answer(r, status, rows, cutoff, quality),
         status = "200" => /\ Queries(rd[r].req)
                           /\ rd[r].req.asOf = Null => now <= cutoff
  PROVE  IInv'
<1> DEFINE s == [rd[r] EXCEPT !.pc = "done"]
           a == [status |-> status, rows |-> rows, cutoff |-> cutoff, quality |-> quality]
<1>1. rd[r] \in Session /\ SessionOK(rd[r], ans[r])
      /\ \A t \in rd[r].rows \cup rd[r].factors : Sound(t)
  BY DEF IInv, ReadersOK
<1>2. s \in Session /\ s.pc = "done" /\ s.req = rd[r].req /\ s.rows = rd[r].rows
      /\ s.factors = rd[r].factors
  BY <1>1 DEF Session, Steps
<1>3. rd' = [rd EXCEPT ![r] = s] /\ ans' = [ans EXCEPT ![r] = a]
  BY DEF Answer, IInv, ReadersOK
<1>4. a.status = status /\ a.cutoff = cutoff
  OBVIOUS
<1> HIDE DEF s, a
<1>5. \A t \in s.rows \cup s.factors : Sound(t)
  BY <1>1, <1>2
<1>6. \A t \in s.rows \cup s.factors : t.avail \in Int /\ t.avail <= now
  BY <1>5, DataReadsConstants DEF Sound, FormalRow, Instant
<1>7. now \in Int
  BY DataReadsConstants DEF IInv, MarketOK, Instant
<1>8. cutoff \in Int
  BY DataReadsConstants DEF Instant
<1>9. a.status = "200" /\ s.req.asOf = Null => \A t \in s.rows \cup s.factors : t.avail <= a.cutoff
  BY <1>2, <1>4, <1>6, <1>7, <1>8
<1>10. s.req.endpoint = "lineage" => a.status # "200"
  BY <1>2, <1>4 DEF Queries
<1>11. Replays(s.req) => \A t \in s.rows \cup s.factors : t.avail <= s.req.asOf
  BY <1>1, <1>2 DEF SessionOK
<1>12. SessionOK(s, a)
  BY <1>2, <1>4, <1>9, <1>10, <1>11 DEF SessionOK
<1> QED BY <1>3, <1>5, <1>12, SessionStep

LEMMA RefuseOK ==
  ASSUME IInv, NEW r \in Readers, UNCHANGED market,
         NEW status \in Status \ {"200"}, Refuse(r, status)
  PROVE  IInv'
<1>1. 0 \in Instant
  BY DataReadsConstants DEF Instant
<1> QED BY <1>1, AnswerOK DEF Refuse

LEMMA CutoffFits ==
  ASSUME NEW q \in Requests, Anchored(q), now \in Instant
  PROVE  Cutoff(q) \in Instant /\ (Replays(q) => Cutoff(q) <= q.asOf)
<1>1. /\ q.mode \in {"research", "strategy", "backtest"}
      /\ q.asOf \in Instant \cup {Null} /\ q.cutoff \in Instant \cup {Null}
  BY DataReadsConstants DEF Request
<1>2. CASE q.mode = "research"
  BY <1>1, <1>2, DataReadsConstants DEF Cutoff, Least, Replays, Instant
<1>3. CASE q.mode = "strategy"
  BY <1>1, <1>3, DataReadsConstants DEF Cutoff, Least, Replays, Instant, Anchored
<1>4. CASE q.mode = "backtest"
  BY <1>1, <1>4, DataReadsConstants DEF Cutoff, Least, Replays, Instant, Anchored
<1> QED BY <1>1, <1>2, <1>3, <1>4

\* What holds of a session, opened up.
LEMMA SessionFacts ==
  ASSUME IInv, NEW r \in Readers
  PROVE  /\ rd[r] \in Session /\ rd[r].req \in Requests /\ rd[r].req \in Request
         /\ SessionOK(rd[r], ans[r])
         /\ now \in Instant
         /\ \A t \in table : t \in FormalRow /\ Sound(t)
         /\ \A t \in rd[r].rows \cup rd[r].factors : Sound(t)
         /\ ans[r].status \in Status /\ ans[r].cutoff \in Instant
<1>1. rd[r] \in Session
  BY DEF IInv, ReadersOK
<1> QED BY <1>1, DataReadsConstants DEF IInv, ReadersOK, MarketOK, Session, Sound, SessionOK

LEMMA AskOK ==
  ASSUME IInv, NEW r \in Readers, UNCHANGED market, NEW q \in Requests, Ask(r, q)
  PROVE  IInv'
<1>1. Fetching(q) \in Session
  BY FetchingFits
<1>2. Fetching(q).pc = "read" /\ Fetching(q).rows = {} /\ Fetching(q).factors = {}
  BY DEF Fetching
<1>3. SessionOK(Fetching(q), ans[r])
  BY <1>1, <1>2, SessionFacts DEF SessionOK
<1> QED BY <1>2, <1>3, ContinueOK DEF Ask

LEMMA DailyOK ==
  ASSUME IInv, NEW r \in Readers, UNCHANGED market, Daily(r)
  PROVE  IInv'
<1> DEFINE q == rd[r].req
           s == [rd[r] EXCEPT !.rows = Passing(q, "stock_daily"), !.pc = AfterRows(q)]
<1>1. q.endpoint = "daily" /\ Anchored(q) /\ rd[r].pc = "read" /\ Continue(r, s)
  BY DEF Daily, At, Raises
<1>2. rd[r].factors = {} /\ rd[r] \in Session /\ now \in Instant /\ q \in Requests
  BY <1>1, SessionFacts DEF SessionOK
<1>3. \A t \in Passing(q, "stock_daily") : t \in FormalRow /\ Sound(t) /\ t.avail <= Cutoff(q)
  BY SessionFacts DEF Passing, AsOf
<1>4. AfterRows(q) \in {"factors", "dates", "respond"}
  BY DEF AfterRows, AfterFactors
<1>5. /\ s \in Session /\ s.pc = AfterRows(q) /\ s.rows = Passing(q, "stock_daily")
      /\ s.factors = {} /\ s.req = q
  <2>1. Passing(q, "stock_daily") \in SUBSET FormalRow /\ AfterRows(q) \in Steps
    BY <1>3, <1>4 DEF Steps
  <2> QED BY <2>1, <1>2 DEF Session
<1>6. Replays(q) => \A t \in Passing(q, "stock_daily") : t.avail <= q.asOf
  <2>1. SUFFICES ASSUME Replays(q), NEW t \in Passing(q, "stock_daily")
                 PROVE  t.avail <= q.asOf
    OBVIOUS
  <2>2. Cutoff(q) \in Instant /\ Cutoff(q) <= q.asOf
    BY <1>1, <1>2, <2>1, CutoffFits
  <2>3. q.asOf \in Instant
    BY <1>1, <1>2, <2>1, DataReadsConstants DEF Replays, Anchored, Request
  <2>4. t.avail \in Instant /\ t.avail <= Cutoff(q)
    BY <1>3 DEF FormalRow
  <2> QED BY <2>2, <2>3, <2>4, DataReadsConstants DEF Instant
<1> HIDE DEF s
<1>7. SessionOK(s, ans[r])
  BY <1>1, <1>4, <1>5, <1>6, SessionFacts DEF SessionOK, Queries
<1>8. \A t \in s.rows \cup s.factors : Sound(t)
  BY <1>3, <1>5
<1> QED BY <1>1, <1>7, <1>8, ContinueOK

LEMMA ReadAdjFactorsOK ==
  ASSUME IInv, NEW r \in Readers, UNCHANGED market, ReadAdjFactors(r)
  PROVE  IInv'
<1> DEFINE q == rd[r].req
           s == [rd[r] EXCEPT !.factors = Factors(q), !.pc = AfterFactors(q)]
<1>1. rd[r].pc = "factors" /\ Continue(r, s)
  BY DEF ReadAdjFactors
<1>2. /\ rd[r] \in Session /\ now \in Instant /\ q \in Requests
      /\ q.endpoint = "daily" /\ Anchored(q)
      /\ \A t \in rd[r].rows : Sound(t) /\ (Replays(q) => t.avail <= q.asOf)
  BY <1>1, SessionFacts DEF SessionOK
<1>3. \A t \in Factors(q) : t \in FormalRow /\ Sound(t) /\ t.avail <= Cutoff(q)
  BY SessionFacts DEF Factors, AsOf
<1>4. AfterFactors(q) \in {"dates", "respond"}
  BY DEF AfterFactors
<1>5. /\ s \in Session /\ s.pc = AfterFactors(q) /\ s.rows = rd[r].rows
      /\ s.factors = Factors(q) /\ s.req = q
  <2>1. Factors(q) \in SUBSET FormalRow /\ AfterFactors(q) \in Steps
    BY <1>3, <1>4 DEF Steps
  <2> QED BY <2>1, <1>2 DEF Session
<1>6. Replays(q) => \A t \in Factors(q) : t.avail <= q.asOf
  <2>1. SUFFICES ASSUME Replays(q), NEW t \in Factors(q)
                 PROVE  t.avail <= q.asOf
    OBVIOUS
  <2>2. Cutoff(q) \in Instant /\ Cutoff(q) <= q.asOf
    BY <1>2, <2>1, CutoffFits
  <2>3. q.asOf \in Instant
    BY <1>2, <2>1, DataReadsConstants DEF Replays, Anchored, Request
  <2>4. t.avail \in Instant /\ t.avail <= Cutoff(q)
    BY <1>3 DEF FormalRow
  <2> QED BY <2>2, <2>3, <2>4, DataReadsConstants DEF Instant
<1> HIDE DEF s
<1>7. SessionOK(s, ans[r])
  BY <1>2, <1>4, <1>5, <1>6, SessionFacts DEF SessionOK, Queries
<1>8. \A t \in s.rows \cup s.factors : Sound(t)
  BY <1>2, <1>3, <1>5
<1> QED BY <1>1, <1>7, <1>8, ContinueOK

LEMMA ReadCalendarOK ==
  ASSUME IInv, NEW r \in Readers, UNCHANGED market, ReadCalendar(r)
  PROVE  IInv'
<1> DEFINE q == rd[r].req
           s == [rd[r] EXCEPT !.dates = OpenDays(q), !.pc = "respond"]
<1>1. rd[r].pc = "dates" /\ Continue(r, s)
  BY DEF ReadCalendar
<1>2. /\ rd[r] \in Session /\ q.endpoint = "daily"
      /\ \A t \in rd[r].rows \cup rd[r].factors :
           Sound(t) /\ (Replays(q) => t.avail <= q.asOf)
  BY <1>1, SessionFacts DEF SessionOK
<1>3. OpenDays(q) \in SUBSET Nat
  <2>1. \A t \in AsOf("trade_calendar", Cutoff(q)) : t.key \in Keys
    BY SessionFacts DEF AsOf, FormalRow
  <2>2. \A k \in Keys : k.day \in Nat
    BY DataReadsConstants
  <2> QED BY <2>1, <2>2 DEF OpenDays
<1>4. /\ s \in Session /\ s.pc = "respond" /\ s.rows = rd[r].rows
      /\ s.factors = rd[r].factors /\ s.req = q
  BY <1>2, <1>3 DEF Session, Steps
<1> HIDE DEF s
<1>5. SessionOK(s, ans[r])
  BY <1>2, <1>4, SessionFacts DEF SessionOK, Queries
<1>6. \A t \in s.rows \cup s.factors : Sound(t)
  BY <1>2, <1>4
<1> QED BY <1>1, <1>5, <1>6, ContinueOK

LEMMA SuspendOK ==
  ASSUME IInv, NEW r \in Readers, UNCHANGED market, Suspend(r)
  PROVE  IInv'
<1> DEFINE q == rd[r].req
           s == [rd[r] EXCEPT !.rows = Passing(q, "stock_suspend"),
                              !.cutoff = Cutoff(q), !.pc = "more"]
<1>1. q.endpoint = "events" /\ Anchored(q) /\ rd[r].pc = "read" /\ Continue(r, s)
  BY DEF Suspend, At, Raises
<1>2. rd[r].factors = {} /\ rd[r] \in Session /\ now \in Instant /\ q \in Requests
  BY <1>1, SessionFacts DEF SessionOK
<1>3. \A t \in Passing(q, "stock_suspend") : t \in FormalRow /\ Sound(t) /\ t.avail <= Cutoff(q)
  BY SessionFacts DEF Passing, AsOf
<1>4. Cutoff(q) \in Instant /\ (Replays(q) => Cutoff(q) <= q.asOf)
  BY <1>1, <1>2, CutoffFits
<1>5. /\ s \in Session /\ s.pc = "more" /\ s.rows = Passing(q, "stock_suspend")
      /\ s.factors = {} /\ s.req = q /\ s.cutoff = Cutoff(q)
  <2>1. Passing(q, "stock_suspend") \in SUBSET FormalRow
    BY <1>3
  <2> QED BY <2>1, <1>2, <1>4 DEF Session, Steps
<1>6. Replays(q) => \A t \in Passing(q, "stock_suspend") : t.avail <= q.asOf
  <2>1. SUFFICES ASSUME Replays(q), NEW t \in Passing(q, "stock_suspend")
                 PROVE  t.avail <= q.asOf
    OBVIOUS
  <2>2. q.asOf \in Instant
    BY <1>1, <1>2, <2>1, DataReadsConstants DEF Replays, Anchored, Request
  <2>3. t.avail \in Instant /\ t.avail <= Cutoff(q)
    BY <1>3 DEF FormalRow
  <2> QED BY <2>1, <2>2, <2>3, <1>4, DataReadsConstants DEF Instant
<1> HIDE DEF s
<1>7. SessionOK(s, ans[r])
  BY <1>1, <1>4, <1>5, <1>6, SessionFacts DEF SessionOK, Queries
<1>8. \A t \in s.rows \cup s.factors : Sound(t)
  BY <1>3, <1>5
<1> QED BY <1>1, <1>7, <1>8, ContinueOK

LEMMA LimitPriceOK ==
  ASSUME IInv, NEW r \in Readers, UNCHANGED market, LimitPrice(r)
  PROVE  IInv'
<1> DEFINE q == rd[r].req
           more == {t \in AsOf("stock_limit_price", rd[r].cutoff) :
                      t.key \in q.keys /\ Allows(q.policy, t.quality)}
           s == [rd[r] EXCEPT !.rows = rd[r].rows \cup more, !.pc = "respond"]
<1>1. rd[r].pc = "more" /\ Continue(r, s)
  BY DEF LimitPrice
<1>2. /\ rd[r] \in Session /\ q.endpoint = "events" /\ q \in Requests /\ Anchored(q)
      /\ Replays(q) => rd[r].cutoff <= q.asOf
      /\ \A t \in rd[r].rows \cup rd[r].factors :
           Sound(t) /\ (Replays(q) => t.avail <= q.asOf)
  BY <1>1, SessionFacts DEF SessionOK
<1>3. \A t \in more : t \in FormalRow /\ Sound(t) /\ t.avail <= rd[r].cutoff
  BY SessionFacts DEF AsOf
<1> HIDE DEF more
<1>4. /\ s \in Session /\ s.pc = "respond" /\ s.rows = rd[r].rows \cup more
      /\ s.factors = rd[r].factors /\ s.req = q
  <2>1. rd[r].rows \cup more \in SUBSET FormalRow
    BY <1>2, <1>3 DEF Session
  <2> QED BY <2>1, <1>2 DEF Session, Steps
<1>5. Replays(q) => \A t \in more : t.avail <= q.asOf
  <2>1. SUFFICES ASSUME Replays(q), NEW t \in more
                 PROVE  t.avail <= q.asOf
    OBVIOUS
  <2>2. q.asOf \in Instant
    BY <1>2, <2>1, DataReadsConstants DEF Replays, Anchored, Request
  <2>3. t.avail \in Instant /\ t.avail <= rd[r].cutoff /\ rd[r].cutoff \in Instant
    BY <1>2, <1>3 DEF FormalRow, Session
  <2> QED BY <2>1, <2>2, <2>3, <1>2, DataReadsConstants DEF Instant
<1> HIDE DEF s
<1>6. SessionOK(s, ans[r])
  BY <1>2, <1>4, <1>5, SessionFacts DEF SessionOK, Queries
<1>7. \A t \in s.rows \cup s.factors : Sound(t)
  BY <1>2, <1>3, <1>4
<1> QED BY <1>1, <1>6, <1>7, ContinueOK

LEMMA PlainOK ==
  ASSUME IInv, NEW r \in Readers, UNCHANGED market,
         NEW endpoint \in {"calendar", "securities"}, NEW item, Plain(r, endpoint, item)
  PROVE  IInv'
<1> DEFINE q == rd[r].req
           found == {t \in table : t.item = item /\ t.key \in q.keys}
           s == [rd[r] EXCEPT !.rows = found, !.pc = "respond"]
<1>1. q.endpoint = endpoint /\ rd[r].pc = "read" /\ Continue(r, s)
  BY DEF Plain, At
<1>2. rd[r].factors = {} /\ rd[r] \in Session
  BY <1>1, SessionFacts DEF SessionOK
<1>3. \A t \in found : t \in FormalRow /\ Sound(t)
  BY SessionFacts
<1> HIDE DEF found
<1>4. /\ s \in Session /\ s.pc = "respond" /\ s.rows = found
      /\ s.factors = {} /\ s.req = q
  BY <1>2, <1>3 DEF Session, Steps
<1> HIDE DEF s
<1>5. SessionOK(s, ans[r])
  BY <1>1, <1>4, SessionFacts DEF SessionOK, Queries, Replays
<1>6. \A t \in s.rows \cup s.factors : Sound(t)
  BY <1>3, <1>4
<1> QED BY <1>1, <1>5, <1>6, ContinueOK

LEMMA RespondOK ==
  ASSUME IInv, NEW r \in Readers, UNCHANGED market, Respond(r)
  PROVE  IInv'
<1> DEFINE q == rd[r].req
<1>1. rd[r].pc = "respond" /\ Queries(q) /\ q \in Request /\ now \in Instant
  BY SessionFacts DEF Respond, SessionOK
<1>2. MetadataCutoff(q) \in Instant /\ (q.asOf = Null => now <= MetadataCutoff(q))
  BY <1>1, DataReadsConstants DEF MetadataCutoff, Request, Instant
<1>3. CASE Refuse(r, "500")
  BY <1>3, RefuseOK DEF Status
<1>4. CASE Answer(r, "200", Bars(rd[r]), MetadataCutoff(q), Null)
  BY <1>1, <1>2, <1>4, AnswerOK DEF Status
<1> QED BY <1>3, <1>4 DEF Respond

LEMMA FindRowOK ==
  ASSUME IInv, NEW r \in Readers, UNCHANGED market, FindRow(r)
  PROVE  IInv'
<1>1. CASE Refuse(r, "422") \/ Refuse(r, "404")
  BY <1>1, RefuseOK DEF Status
<1>2. ASSUME NEW t \in table, Continue(r, [rd[r] EXCEPT !.rows = {t}, !.pc = "runs"]),
             rd[r].pc = "read", rd[r].req.endpoint = "lineage"
      PROVE  IInv'
  <2> DEFINE s == [rd[r] EXCEPT !.rows = {t}, !.pc = "runs"]
  <2>1. rd[r].factors = {} /\ rd[r] \in Session /\ t \in FormalRow /\ Sound(t)
    BY <1>2, SessionFacts DEF SessionOK
  <2>2. /\ s \in Session /\ s.pc = "runs" /\ s.rows = {t} /\ s.factors = {}
        /\ s.req = rd[r].req
    BY <2>1 DEF Session, Steps
  <2> HIDE DEF s
  <2>3. SessionOK(s, ans[r])
    BY <1>2, <2>2, SessionFacts DEF SessionOK, Replays
  <2>4. Continue(r, s)
    BY <1>2 DEF s
  <2> QED BY <2>1, <2>2, <2>3, <2>4, ContinueOK
<1> QED BY <1>1, <1>2 DEF FindRow, At

\* The runs of a batch are read while what the session holds is sound.
LEMMA TraceOK ==
  ASSUME IInv, NEW r \in Readers, UNCHANGED market, NEW b \in Batches, NEW quality,
         Trace(r, b, quality), ~Queries(rd[r].req),
         rd[r].req.endpoint = "lineage" => \A t \in rd[r].rows : t.from = b
  PROVE  IInv'
<1> DEFINE s == [rd[r] EXCEPT !.runs = runs[b], !.pc = "done"]
           a == [NoAnswer EXCEPT !.status = "200", !.quality = quality]
<1>1. rd[r] \in Session /\ runs[b] \in Seq(RunStatus)
      /\ \A t \in rd[r].rows \cup rd[r].factors : Sound(t)
  BY SessionFacts DEF IInv, MarketOK
<1>2. /\ s \in Session /\ s.pc = "done" /\ s.rows = rd[r].rows
      /\ s.factors = rd[r].factors /\ s.req = rd[r].req /\ s.runs = runs[b]
  BY <1>1 DEF Session, Steps
<1>3. a.status = "200" /\ a.cutoff = 0 /\ 0 \in Instant
  BY DataReadsConstants DEF NoAnswer, Instant
<1>4. rd' = [rd EXCEPT ![r] = s] /\ ans' = [ans EXCEPT ![r] = a]
  BY DEF Trace, IInv, ReadersOK
<1> HIDE DEF s, a
<1>5. s.req.endpoint = "lineage" => \A t \in s.rows : Approved(s.runs, t.quality)
  BY <1>1, <1>2 DEF Sound
<1>6. SessionOK(s, a)
  BY <1>2, <1>3, <1>5 DEF SessionOK, Queries, Replays, Status
<1>7. \A t \in s.rows \cup s.factors : Sound(t)
  BY <1>1, <1>2
<1> QED BY <1>4, <1>6, <1>7, SessionStep

LEMMA DataLineageOK ==
  ASSUME IInv, NEW r \in Readers, UNCHANGED market, DataLineage(r)
  PROVE  IInv'
<1>1. rd[r].pc = "runs" /\ rd[r].req.endpoint = "lineage" /\ ~Queries(rd[r].req)
  BY SessionFacts DEF DataLineage, SessionOK, Queries
<1>2. PICK t \in rd[r].rows :
        Trace(r, t.from, IF t.item = "stock_minute" THEN LatestQuality(runs[t.from])
                         ELSE t.quality)
  BY DEF DataLineage
<1>3. t.from \in Batches /\ \A u \in rd[r].rows : u.from = t.from
  BY <1>1, <1>2, SessionFacts DEF SessionOK, FormalRow
<1> QED BY <1>1, <1>2, <1>3, TraceOK

LEMMA BatchLineageOK ==
  ASSUME IInv, NEW r \in Readers, UNCHANGED market, BatchLineage(r)
  PROVE  IInv'
<1>1. rd[r].req.endpoint = "batch" /\ ~Queries(rd[r].req)
  BY DEF BatchLineage, At, Queries
<1>2. rd[r].req.batch \in Batches \cup {Null}
  BY SessionFacts DEF SessionOK, Request
<1>3. CASE Refuse(r, "404")
  BY <1>3, RefuseOK DEF Status
<1>4. CASE rd[r].req.batch # Null /\ Trace(r, rd[r].req.batch, Null)
  BY <1>1, <1>2, <1>4, TraceOK
<1> QED BY <1>3, <1>4 DEF BatchLineage

LEMMA ReaderOK ==
  ASSUME IInv, NEW r \in Readers, Reader(r)
  PROVE  IInv'
<1>1. UNCHANGED market
  BY DEF Reader
<1>2. CASE \E q \in Requests : Ask(r, q)
  BY <1>1, <1>2, AskOK
<1>3. CASE Reject(r)
  BY <1>1, <1>3, RefuseOK DEF Reject, Status
<1>4. CASE StatementFails(r)
  BY <1>1, <1>4, RefuseOK DEF StatementFails, Status
<1>5. CASE Respond(r)
  BY <1>1, <1>5, RespondOK
<1>6. CASE Daily(r)
  BY <1>1, <1>6, DailyOK
<1>7. CASE ReadAdjFactors(r)
  BY <1>1, <1>7, ReadAdjFactorsOK
<1>8. CASE ReadCalendar(r)
  BY <1>1, <1>8, ReadCalendarOK
<1>9. CASE Suspend(r)
  BY <1>1, <1>9, SuspendOK
<1>10. CASE LimitPrice(r)
  BY <1>1, <1>10, LimitPriceOK
<1>11. CASE Plain(r, "calendar", "trade_calendar") \/ Plain(r, "securities", "stock_basic")
  BY <1>1, <1>11, PlainOK
<1>12. CASE FindRow(r)
  BY <1>1, <1>12, FindRowOK
<1>13. CASE DataLineage(r)
  BY <1>1, <1>13, DataLineageOK
<1>14. CASE BatchLineage(r)
  BY <1>1, <1>14, BatchLineageOK
<1> QED BY <1>2, <1>3, <1>4, <1>5, <1>6, <1>7, <1>8, <1>9, <1>10, <1>11, <1>12, <1>13,
           <1>14 DEF Reader

LEMMA StepOK == IInv /\ [Next]_vars => IInv'
<1>1. SUFFICES ASSUME IInv, [Next]_vars PROVE IInv'
  OBVIOUS
<1>2. CASE UNCHANGED vars
  <2>1. UNCHANGED <<now, table, runs, pub, decided, rd, ans>>
    BY <1>2 DEF vars, market
  <2>2. MarketOK'
    BY <1>1, <2>1 DEF IInv, MarketOK, PubOK, IsPublished, Sound
  <2>3. ReadersOK'
    BY <1>1, <2>1 DEF IInv, ReadersOK, Sound
  <2> QED BY <2>2, <2>3 DEF IInv
<1>3. CASE Tick
  BY <1>1, <1>3, PublisherOK, TickKeeps
<1>4. ASSUME NEW b \in Batches, Publisher(b) PROVE IInv'
  BY <1>1, <1>4, PublisherOK
<1>5. ASSUME NEW r \in Readers, Reader(r) PROVE IInv'
  BY <1>1, <1>5, ReaderOK
<1> QED BY <1>1, <1>2, <1>3, <1>4, <1>5 DEF Next

LEMMA Inductive == Spec => []IInv
BY InitOK, StepOK, PTL DEF Spec

-----------------------------------------------------------------------------
(***************************************************************************)
(* Theorems.                                                               *)
(***************************************************************************)
\* The tables, the quality runs and the sessions keep their types, and no two
\* formal rows share a business key, whatever the publications overwrite.
THEOREM ReadTypes == Spec => []TypeOK
<1>1. IInv => TypeOK
  <2>1. SUFFICES ASSUME IInv PROVE TypeOK
    OBVIOUS
  <2>2. table \subseteq FormalRow
    BY <2>1 DEF IInv, MarketOK, Sound
  <2>3. \A r \in Readers : ans[r].status \in Status /\ ans[r].cutoff \in Instant
    BY <2>1 DEF IInv, ReadersOK, SessionOK
  <2> QED BY <2>1, <2>2, <2>3 DEF IInv, MarketOK, ReadersOK, TypeOK
<1> QED BY <1>1, Inductive, PTL

\* No publication that was stamped after a strategy's or a backtest's
\* as_of_time shows in its rows or factors (resolve_cutoff, _publish).
THEOREM ReplaysDoNotLookAhead == Spec => []NoLookahead
<1>1. IInv => NoLookahead
  <2>1. SUFFICES ASSUME IInv, NEW r \in Readers, Replays(rd[r].req),
                        NEW t \in rd[r].rows \cup rd[r].factors
                 PROVE  decided[t.from] <= rd[r].req.asOf
    BY DEF NoLookahead, Replays
  <2>2. t.avail = decided[t.from] /\ t.avail <= rd[r].req.asOf
    BY <2>1 DEF IInv, ReadersOK, SessionOK, Sound
  <2> QED BY <2>2
<1> QED BY <1>1, Inductive, PTL

\* Without an as_of_time the cutoff in the metadata is no earlier than any row
\* that was read for the answer (_build_metadata).
THEOREM MetadataCovers == Spec => []MetadataCoversAnswer
<1>1. IInv => MetadataCoversAnswer
  <2>1. SUFFICES ASSUME IInv, NEW r \in Readers,
                        rd[r].pc = "done", ans[r].status = "200",
                        rd[r].req.asOf = Null, Queries(rd[r].req),
                        NEW t \in rd[r].rows \cup rd[r].factors
                 PROVE  t.avail <= ans[r].cutoff
    BY DEF MetadataCoversAnswer, Queries
  <2> QED BY <2>1 DEF IInv, ReadersOK, SessionOK
<1> QED BY <1>1, Inductive, PTL

\* The quality runs in a row's lineage include one that approved it with its
\* own verdict, although they are read after the row (data_lineage).
THEOREM LineageShowsApproval == Spec => []LineageOnRecord
<1>1. IInv => LineageOnRecord
  <2>1. SUFFICES ASSUME IInv, NEW r \in Readers,
                        rd[r].pc = "done", ans[r].status = "200",
                        rd[r].req.endpoint = "lineage", NEW t \in rd[r].rows
                 PROVE  Approved(rd[r].runs, t.quality)
    BY DEF LineageOnRecord, Approved
  <2> QED BY <2>1 DEF IInv, ReadersOK, SessionOK
<1> QED BY <1>1, Inductive, PTL
=============================================================================
