--------------------------- MODULE ProviderProofs ---------------------------
(***************************************************************************)
(* Proofs about ProviderAccess, for all workers, bindings, slices, limits, *)
(* periods, leases, attempts and answers.                                  *)
(***************************************************************************)
EXTENDS ProviderAccess, TLAPS

\* The tuples of UNCHANGED.
USE DEF window, counts

Callers == Workers \X Bindings

\* The deque of a limiter has every call of the last Period, and no later one.
Window(calls, h) ==
  /\ h <= Len(calls) + 1
  /\ \A i \in 1 .. Len(calls) : calls[i].at <= now
  /\ \A i \in 1 .. h - 1 : now - calls[i].at >= Period
Windows == \A c \in Callers : Window(log[c], head[c])

\* Since a worker began to wait, nobody has extended the window it waits for.
Waiting(w) ==
  wk[w].pc \in {"acquiring", "sleeping"} =>
    /\ wk[w].since <= now
    /\ \A i \in 1 .. Len(Calls(w)) : Calls(w)[i].at <= wk[w].since

\* The limit a worker goes by was in the column when it looked.
LimitsRead == \A w \in Workers : wk[w].limit \in Limits \cup {0}

\* A slice that waits, or that runs under a lease nobody holds any more, has an
\* attempt left.
Unheld(s) ==
  \/ slice[s].status \in {"PENDING", "RETRY_WAIT"}
  \/ slice[s].status = "RUNNING" /\ ~Held(s)
Bound == MaxAttempts + crashes + late + requests
AttemptLeft(s) == Unheld(s) => slice[s].attempts < Bound
\* No worker has a claim that was not made, and the attempt_count it compares
\* was read after its claim: of one that holds the lease it is the slice's.
ClaimCounted(w) ==
  wk[w].pc # "idle" =>
    /\ wk[w].claim <= slice[wk[w].slice].attempts
    /\ wk[w].pc \in {"loaded", "acquiring", "sleeping", "calling"} => wk[w].claim <= wk[w].att

WindowInv ==
  /\ Windows /\ LimitsRead /\ RateKept /\ SlotWithinPeriod
  /\ \A w \in Workers : Waiting(w)
AttemptInv ==
  /\ ClaimsBounded
  /\ \A s \in Slices : AttemptLeft(s)
  /\ \A w \in Workers : ClaimCounted(w)
\* A thread without a slice has none in its record.
Empty == \A w \in Workers : wk[w].pc = "idle" => wk[w].slice = NoSlice
Inv == TypeOK /\ WindowInv /\ AttemptInv /\ Empty
-----------------------------------------------------------------------------
(***************************************************************************)
(* Answers.                                                                *)
(***************************************************************************)
LEMMA ClassifyType == ASSUME NEW says PROVE Classify(says) \in ErrorTypes
<1>1. CASE \A i \in DOMAIN Mentions : Mentions[i] \notin says
  BY <1>1 DEF Classify, ErrorTypes, Retryable
<1>2. CASE ~ \A i \in DOMAIN Mentions : Mentions[i] \notin says
  <2>1. DOMAIN Mentions = 1 .. 5 /\ DOMAIN ErrorOf = 1 .. 5
    BY DEF Mentions, ErrorOf
  <2>2. \E i \in 1 .. 5 :
          Mentions[i] \in says /\ \A j \in 1 .. i - 1 : Mentions[j] \notin says
    <3>1. CASE Mentions[1] \in says  BY <3>1
    <3>2. CASE Mentions[1] \notin says /\ Mentions[2] \in says  BY <3>2
    <3>3. CASE Mentions[1] \notin says /\ Mentions[2] \notin says /\ Mentions[3] \in says
      BY <3>3
    <3>4. CASE /\ Mentions[1] \notin says /\ Mentions[2] \notin says
               /\ Mentions[3] \notin says /\ Mentions[4] \in says
      BY <3>4
    <3>5. CASE /\ Mentions[1] \notin says /\ Mentions[2] \notin says
               /\ Mentions[3] \notin says /\ Mentions[4] \notin says
      BY <3>5, <1>2, <2>1
    <3> QED BY <3>1, <3>2, <3>3, <3>4, <3>5
  <2> DEFINE i == CHOOSE i \in 1 .. 5 :
                    Mentions[i] \in says /\ \A j \in 1 .. i - 1 : Mentions[j] \notin says
  <2>3. i \in 1 .. 5
    BY <2>2
  <2>4. Classify(says) = ErrorOf[i]
    BY <1>2, <2>1 DEF Classify
  <2> QED BY <2>1, <2>3, <2>4 DEF ErrorTypes
<1> QED BY <1>1, <1>2

LEMMA OutcomeType ==
  ASSUME NEW s \in Slices, NEW a \in Answers PROVE Outcome(s, a) \in ErrorTypes \cup {"OK"}
BY ClassifyType DEF Outcome, ErrorTypes, Retryable

LEMMA CapabilityType ==
  ASSUME NEW outcome, NEW old \in Capability PROVE CapabilityAfter(outcome, old) \in Capability
BY DEF CapabilityAfter, Capability, Blocked

LEMMA ProbeType == ASSUME NEW a \in Answers PROVE ProbeStatus(a) \in Capability
BY DEF ProbeStatus, Capability, Blocked

LEMMA BackoffType == ASSUME NEW n \in Nat PROVE Backoff(n) \in Nat
BY ProviderConstants DEF Backoff

-----------------------------------------------------------------------------
(***************************************************************************)
(* Types.                                                                  *)
(***************************************************************************)
Counters == now \in Nat /\ crashes \in Nat /\ requests \in Nat /\ late \in Nat
Threads == /\ wk \in [Workers -> Thread]
           /\ \A w \in Workers : wk[w].pc # "idle" => wk[w].slice \in Slices
Logs == /\ log \in [Callers -> Seq(Call)]
        /\ head \in [Callers -> Nat \ {0}]

LEMMA TypeParts ==
  TypeOK <=> /\ Counters /\ Threads /\ Logs
             /\ limit \in [Bindings -> Limits]
             /\ cap \in [Bindings -> Capability]
             /\ slice \in [Slices -> SliceRow] /\ failed \subseteq Slices
BY DEF TypeOK, Counters, Threads, Logs, Callers

\* A thread with a field changed.
LEMMA ThreadPc ==
  ASSUME Threads, NEW w \in Workers, wk[w].pc # "idle",
         NEW pc \in {"acquiring", "sleeping", "calling", "failing"},
         NEW time \in Nat,
         \/ wk' = [wk EXCEPT ![w].pc = pc]
         \/ wk' = [wk EXCEPT ![w].pc = pc, ![w].until = time]
         \/ wk' = [wk EXCEPT ![w].pc = pc, ![w].since = time]
  PROVE  Threads'
<1>1. wk' = [wk EXCEPT ![w] = wk'[w]] /\ wk'[w] \in Thread /\ wk'[w].slice = wk[w].slice
  BY DEF Threads, Thread
<1> QED BY <1>1 DEF Threads

LEMMA KeyType ==
  ASSUME Threads, NEW w \in Workers, wk[w].pc # "idle"
  PROVE  /\ BindingAt(w) \in Bindings /\ wk[w].slice \in Slices
         /\ Key(w) \in Callers
BY ProviderConstants DEF Threads, BindingAt, Key, Callers

LEMMA InitTypes == Init => TypeOK
BY ProviderConstants DEF Init, TypeOK, SliceRow, SliceStatus, Idle, Thread, Capability, Blocked

LEMMA ClaimTypes ==
  ASSUME TypeOK, NEW w \in Workers, NEW s \in Slices, Claim(w, s) PROVE TypeOK'
<1>0. slice[s].attempts + 1 \in Nat /\ now + Lease \in Nat
  BY ProviderConstants DEF TypeOK, SliceRow
<1>1. /\ wk' = [wk EXCEPT ![w] = wk'[w]] /\ wk'[w] \in Thread /\ wk'[w].slice = s
  BY <1>0 DEF Claim, TypeOK, Thread, Idle, Capability
<1>2. Threads'
  BY <1>1 DEF TypeOK, Threads
<1>3. slice' \in [Slices -> SliceRow]
  <2>1. slice[s] \in SliceRow
    BY DEF TypeOK
  <2>2. slice' = [slice EXCEPT ![s] = [slice[s] EXCEPT !.status = "RUNNING",
                                         !.at = now + Lease, !.attempts = @ + 1]]
    BY DEF Claim, TypeOK
  <2>3. [slice[s] EXCEPT !.status = "RUNNING", !.at = now + Lease, !.attempts = @ + 1]
          \in SliceRow
    BY <1>0, <2>1 DEF SliceRow, SliceStatus
  <2> QED BY <2>2, <2>3 DEF TypeOK
<1> QED BY <1>2, <1>3 DEF Claim, TypeOK, Threads

LEMMA RowTypes ==
  ASSUME TypeOK, NEW s \in Slices, Recover(s) \/ Retry(s) PROVE TypeOK'
<1>1. slice' = [slice EXCEPT ![s] = slice'[s]] /\ slice'[s] \in SliceRow
  <2>1. CASE Recover(s)
    <3>1. slice[s] \in SliceRow /\ now \in Nat
      BY DEF TypeOK
    <3>2. slice' = [slice EXCEPT ![s] = [slice[s] EXCEPT !.status = "RETRY_WAIT", !.at = now]]
      BY <2>1 DEF Recover, TypeOK
    <3>3. [slice[s] EXCEPT !.status = "RETRY_WAIT", !.at = now] \in SliceRow
      BY <3>1 DEF SliceRow, SliceStatus
    <3> QED BY <3>2, <3>3 DEF TypeOK
  <2>2. CASE Retry(s)
    <3>1. slice[s] \in SliceRow
      BY DEF TypeOK
    <3>2. slice' = [slice EXCEPT ![s] = [slice[s] EXCEPT !.status = "PENDING", !.at = 0]]
      BY <2>2 DEF Retry, TypeOK
    <3>3. [slice[s] EXCEPT !.status = "PENDING", !.at = 0] \in SliceRow
      BY <3>1 DEF SliceRow, SliceStatus
    <3> QED BY <3>2, <3>3 DEF TypeOK
  <2> QED BY <2>1, <2>2
<1>2. slice' \in [Slices -> SliceRow]
  BY <1>1 DEF TypeOK
<1> QED BY <1>2 DEF Recover, Retry, Requested, TypeOK

LEMMA LoadThread ==
  ASSUME TypeOK, NEW w \in Workers, Load(w)
  PROVE  /\ wk[w].pc # "idle"
         /\ DOMAIN wk' = Workers /\ \A v \in Workers \ {w} : wk'[v] = wk[v]
         /\ wk' = [wk EXCEPT ![w] = wk'[w]] /\ wk'[w] \in Thread
         /\ wk'[w].pc = "loaded" /\ wk'[w].att = slice[wk[w].slice].attempts
         /\ wk'[w].limit \in Limits
         /\ wk'[w].slice = wk[w].slice /\ wk'[w].claim = wk[w].claim
<1> DEFINE th == [wk[w] EXCEPT !.pc = "loaded", !.att = slice[wk[w].slice].attempts,
                               !.limit = limit[BindingAt(w)], !.cap = cap[BindingAt(w)]]
<1>1. wk' = [wk EXCEPT ![w] = th] /\ wk[w].pc = "claimed" /\ wk[w] \in Thread
  BY DEF Load, TypeOK
<1>2. BindingAt(w) \in Bindings /\ wk[w].slice \in Slices
  BY KeyType, TypeParts DEF Load
<1>3. /\ slice[wk[w].slice].attempts \in Nat
      /\ limit[BindingAt(w)] \in Limits /\ limit[BindingAt(w)] \in Nat
      /\ cap[BindingAt(w)] \in Capability
  BY <1>2, ProviderConstants DEF TypeOK, SliceRow
<1>4. /\ th \in Thread
      /\ th.pc = "loaded" /\ th.att = slice[wk[w].slice].attempts
      /\ th.limit = limit[BindingAt(w)] /\ th.slice = wk[w].slice /\ th.claim = wk[w].claim
  BY <1>1, <1>3 DEF Thread
<1> HIDE DEF th
<1>5. /\ wk[w].pc # "idle" /\ wk'[w] = th /\ DOMAIN wk' = Workers
      /\ \A v \in Workers \ {w} : wk'[v] = wk[v]
      /\ wk' = [wk EXCEPT ![w] = wk'[w]]
  BY <1>1 DEF TypeOK
<1> QED BY <1>3, <1>4, <1>5

LEMMA LoadTypes ==
  ASSUME TypeOK, NEW w \in Workers, Load(w), LimitsRead PROVE TypeOK' /\ LimitsRead'
<1>1. Threads'
  <2>1. wk[w].slice \in Slices
    BY KeyType, TypeParts DEF Load
  <2> QED BY <2>1, LoadThread DEF TypeOK, Threads
<1>2. LimitsRead'
  BY LoadThread DEF LimitsRead
<1> QED BY <1>1, <1>2 DEF Load, TypeOK, Threads

LEMMA OpenTypes ==
  ASSUME TypeOK, NEW w \in Workers, Open(w) \/ Raise(w) PROVE TypeOK'
<1>0. now \in Nat
  BY DEF TypeOK
<1>1. Threads'
  <2>1. CASE Open(w)  BY <1>0, <2>1, ThreadPc, TypeParts DEF Open
  <2>2. CASE Raise(w)  BY <1>0, <2>2, ThreadPc, TypeParts DEF Raise
  <2> QED BY <2>1, <2>2
<1> QED BY <1>1 DEF Open, Raise, TypeOK, Threads

LEMMA FailTypes == ASSUME TypeOK, NEW w \in Workers, FailClaim(w) PROVE TypeOK'
<1> DEFINE s == wk[w].slice
<1>0. Threads /\ s \in Slices /\ slice[s] \in SliceRow
  BY TypeParts, KeyType DEF FailClaim
<1>1. Threads'
  <2>1. Idle \in Thread /\ Idle.pc = "idle"
    BY DEF Idle, Thread, Capability
  <2> QED BY <1>0, <2>1 DEF FailClaim, Threads
<1>2. slice' \in [Slices -> SliceRow] /\ failed' \subseteq Slices
  <2>1. CASE Holds(w, s)
    <3>1. slice' = [slice EXCEPT ![s] = [slice[s] EXCEPT !.status = "FAILED", !.at = 0]]
      BY <2>1 DEF FailClaim, TypeOK
    <3>2. [slice[s] EXCEPT !.status = "FAILED", !.at = 0] \in SliceRow
      BY <1>0 DEF SliceRow, SliceStatus
    <3> QED BY <1>0, <2>1, <3>1, <3>2 DEF FailClaim, TypeOK
  <2>2. CASE ~Holds(w, s)
    BY <2>2 DEF FailClaim, TypeOK
  <2> QED BY <2>1, <2>2
<1> QED BY <1>1, <1>2 DEF FailClaim, TypeOK, Threads

LEMMA PassTypes ==
  ASSUME TypeOK, NEW w \in Workers, PassUnlimited(w) \/ Wake(w) PROVE TypeOK'
<1>1. Threads'
  <2>1. CASE PassUnlimited(w)
    <3>1. wk[w].pc # "idle" /\ wk' = [wk EXCEPT ![w].pc = "calling", ![w].since = 0]
      BY <2>1 DEF PassUnlimited, Acquired
    <3> QED BY <3>1, ThreadPc, TypeParts
  <2>2. CASE Wake(w)  BY <2>2, ThreadPc, TypeParts DEF Wake
  <2> QED BY <2>1, <2>2
<1> QED BY <1>1 DEF PassUnlimited, Wake, TypeOK, Threads

LEMMA CallFields ==
  ASSUME NEW calls \in Seq(Call), NEW i \in 1 .. Len(calls)
  PROVE  calls[i].at \in Nat /\ calls[i].limit \in Nat \ {0}
<1>1. calls[i] \in Call
  OBVIOUS
<1> QED BY <1>1 DEF Call

\* The heads a pass may leave, and what lies before them.
LEMMA HeadsType ==
  ASSUME TypeOK, NEW w \in Workers, wk[w].pc # "idle", NEW n \in Heads(w)
  PROVE  /\ Calls(w) \in Seq(Call) /\ n \in Nat \ {0} /\ n <= Len(Calls(w)) + 1
         /\ head[Key(w)] \in Nat \ {0} /\ head[Key(w)] <= n
         /\ \A i \in head[Key(w)] .. n - 1 : Calls(w)[i].at <= now - Period
<1>1. Key(w) \in Callers
  BY KeyType, TypeParts
<1>2. Calls(w) \in Seq(Call) /\ head[Key(w)] \in Nat \ {0}
  BY <1>1, TypeParts DEF Logs, Calls
<1>3. Len(Calls(w)) \in Nat
  BY <1>2
<1> QED BY <1>2, <1>3 DEF Heads, Popped

LEMMA GrantTypes ==
  ASSUME TypeOK, NEW w \in Workers, Grant(w) PROVE TypeOK'
<1>0. Threads /\ Logs /\ Counters
  BY TypeParts
<1>1. Key(w) \in Callers
  BY <1>0, KeyType DEF Grant
<1>2. [at |-> now, limit |-> wk[w].limit] \in Call
  BY <1>0 DEF Grant, Call, Threads, Thread, Counters
<1>3. log' \in [Callers -> Seq(Call)]
  BY <1>0, <1>1, <1>2 DEF Grant, Logs
<1>4. PICK n \in Heads(w) : head' = [head EXCEPT ![Key(w)] = n]
  BY DEF Grant
<1>5. head' \in [Callers -> Nat \ {0}]
  BY <1>0, <1>4, HeadsType DEF Logs, Grant
<1>6. Threads'
  BY <1>0, ThreadPc DEF Grant, Acquired
<1> QED BY <1>3, <1>5, <1>6 DEF Grant, TypeOK, Threads, Callers

LEMMA WaitTypes ==
  ASSUME TypeOK, NEW w \in Workers, Wait(w) PROVE TypeOK'
<1>0. Threads /\ Logs /\ Counters
  BY TypeParts
<1>1. PICK n \in Heads(w) : /\ ~HasRoom(w, n) /\ head' = [head EXCEPT ![Key(w)] = n]
                            /\ wk' = [wk EXCEPT ![w].pc = "sleeping",
                                                ![w].until = UntilOldest(w, n)]
  BY DEF Wait
<1>2. /\ Calls(w) \in Seq(Call) /\ n \in Nat \ {0} /\ n <= Len(Calls(w)) + 1
  BY HeadsType DEF Wait
<1>3. n <= Len(Calls(w)) /\ wk[w].limit \in Nat \ {0}
  BY <1>0, <1>1, <1>2 DEF HasRoom, Threads, Thread, Wait
<1>4. Calls(w)[n] \in Call
  BY <1>2, <1>3
<1>5. UntilOldest(w, n) \in Nat
  BY <1>4, ProviderConstants DEF UntilOldest, Call
<1>6. Threads'
  BY <1>0, <1>1, <1>5, ThreadPc DEF Wait
<1>7. head' \in [Callers -> Nat \ {0}]
  BY <1>0, <1>1, <1>2 DEF Logs
<1> QED BY <1>6, <1>7 DEF Wait, TypeOK, Threads, Callers

LEMMA AnswerTypes ==
  ASSUME TypeOK, NEW w \in Workers, NEW a \in Answers, Answered(w, a) PROVE TypeOK'
<1> DEFINE s == wk[w].slice
           outcome == Outcome(s, a)
<1>0. Threads /\ s \in Slices /\ BindingAt(w) \in Bindings
  BY TypeParts, KeyType DEF Answered
<1>1. outcome \in ErrorTypes \cup {"OK"}
  BY <1>0, OutcomeType
<1>2. Backoff(wk[w].att) \in Nat /\ now \in Nat /\ slice[s] \in SliceRow
  BY <1>0, BackoffType DEF TypeOK, Thread
<1>3. slice' \in [Slices -> SliceRow]
  <2> DEFINE st == IF outcome = "OK" THEN "SUCCEEDED"
                   ELSE IF Retries(w, outcome) THEN "RETRY_WAIT" ELSE "FAILED"
             at == IF Retries(w, outcome) THEN now + Backoff(wk[w].att) ELSE 0
  <2>1. \/ slice' = slice
        \/ slice' = [slice EXCEPT ![s] = [slice[s] EXCEPT !.status = st, !.at = at]]
    BY <1>0 DEF Answered, Settled, TypeOK
  <2>2. st \in SliceStatus /\ at \in Nat
    BY <1>1, <1>2 DEF SliceStatus
  <2> HIDE DEF st, at
  <2>3. [slice[s] EXCEPT !.status = st, !.at = at] \in SliceRow
    BY <1>2, <2>2 DEF SliceRow
  <2> QED BY <1>0, <2>1, <2>3 DEF TypeOK
<1>4. cap' \in [Bindings -> Capability]
  <2>1. CapabilityAfter(outcome, wk[w].cap) \in Capability
    BY <1>0, CapabilityType DEF Threads, Thread
  <2> QED BY <1>0, <2>1 DEF Answered, Observed, TypeOK
<1>5. Threads'
  <2>1. Idle \in Thread /\ Idle.pc = "idle"
    BY DEF Idle, Thread, Capability
  <2>2. wk' = [wk EXCEPT ![w] = Idle]
    BY DEF Answered
  <2> QED BY <1>0, <2>1, <2>2 DEF Threads
<1>6. failed' \subseteq Slices
  BY <1>0 DEF Answered, TaskAfter, TypeOK
<1> QED BY <1>3, <1>4, <1>5, <1>6 DEF Answered, TypeOK, Threads

LEMMA CrashTypes == ASSUME TypeOK, NEW w \in Workers, Crash(w) PROVE TypeOK'
<1>1. Idle \in Thread /\ Idle.pc = "idle"
  BY DEF Idle, Thread, Capability
<1>2. Threads'
  BY <1>1 DEF Crash, TypeOK, Threads
<1>3. /\ log' \in [Workers \X Bindings -> Seq(Call)]
      /\ head' \in [Workers \X Bindings -> Nat \ {0}]
  BY DEF Crash, TypeOK
<1> QED BY <1>2, <1>3 DEF Crash, TypeOK, Threads

LEMMA OperatorTypes ==
  ASSUME TypeOK, NEW b \in Bindings,
         (\E n \in Limits : SetLimit(b, n)) \/ (\E a \in Answers : Probe(b, a))
  PROVE  TypeOK'
<1>1. CASE \E n \in Limits : SetLimit(b, n)
  BY <1>1 DEF SetLimit, Requested, TypeOK
<1>2. CASE \E a \in Answers : Probe(b, a)
  BY <1>2, ProbeType DEF Probe, Requested, TypeOK
<1> QED BY <1>1, <1>2

LEMMA TickTypes == ASSUME TypeOK, Tick PROVE TypeOK'
BY DEF Tick, TypeOK

-----------------------------------------------------------------------------
(***************************************************************************)
(* Windows and waits.                                                      *)
(***************************************************************************)
Rated(calls) ==
  \A i \in DOMAIN calls :
    i > calls[i].limit => calls[i].at - calls[i - calls[i].limit].at >= Period

LEMMA WindowsFrame ==
  ASSUME TypeOK, WindowInv, UNCHANGED <<now, log, head, wk>> PROVE WindowInv'
BY DEF WindowInv, Windows, Window, LimitsRead, RateKept, SlotWithinPeriod, Waiting, Calls,
       Key, BindingAt

\* A thread that does not wait after the step.
LEMMA ThreadFrame ==
  ASSUME TypeOK, WindowInv, UNCHANGED <<now, log, head>>, NEW w \in Workers,
         \A v \in Workers \ {w} : wk'[v] = wk[v],
         wk'[w].pc \notin {"acquiring", "sleeping"},
         wk'[w].limit \in Limits \cup {0}
  PROVE  WindowInv'
<1>1. Windows' /\ RateKept'
  BY DEF WindowInv, Windows, Window, RateKept
<1>2. LimitsRead' /\ SlotWithinPeriod'
  BY DEF WindowInv, LimitsRead, SlotWithinPeriod
<1>3. ASSUME NEW v \in Workers PROVE Waiting(v)'
  <2>1. CASE v = w  BY <2>1 DEF Waiting
  <2>2. CASE v # w  BY <2>2 DEF WindowInv, Waiting, Calls, Key, BindingAt
  <2> QED BY <2>1, <2>2
<1> QED BY <1>1, <1>2, <1>3 DEF WindowInv

LEMMA QuietWindows ==
  ASSUME TypeOK, WindowInv, NEW w \in Workers,
         \/ \E s \in Slices : Claim(w, s)
         \/ Load(w) \/ Raise(w) \/ FailClaim(w) \/ PassUnlimited(w)
         \/ \E a \in Answers : Answered(w, a)
  PROVE  WindowInv'
<1>0. Threads
  BY TypeParts
<1>1. CASE \E s \in Slices : Claim(w, s)
  <2>1. PICK s \in Slices : Claim(w, s)
    BY <1>1
  <2>2. wk' = [wk EXCEPT ![w] = [Idle EXCEPT !.pc = "claimed", !.slice = s,
                                             !.claim = slice[s].attempts + 1]]
        /\ UNCHANGED <<now, log, head>>
    BY <2>1 DEF Claim
  <2>3. wk'[w].pc = "claimed" /\ wk'[w].limit = 0 /\ \A v \in Workers \ {w} : wk'[v] = wk[v]
    BY <1>0, <2>2 DEF Idle, Threads
  <2> QED BY <2>2, <2>3, ThreadFrame
<1>2. CASE PassUnlimited(w) \/ Raise(w)
  <2>1. /\ wk'[w].pc \in {"calling", "failing"} /\ wk'[w].limit = wk[w].limit
        /\ \A v \in Workers \ {w} : wk'[v] = wk[v]
        /\ UNCHANGED <<now, log, head>>
    BY <1>0, <1>2 DEF PassUnlimited, Raise, Acquired, Threads, Thread
  <2> QED BY <2>1, ThreadFrame DEF WindowInv, LimitsRead
<1>3. CASE FailClaim(w) \/ \E a \in Answers : Answered(w, a)
  <2>1. wk' = [wk EXCEPT ![w] = Idle] /\ UNCHANGED <<now, log, head>>
    BY <1>3 DEF Answered, FailClaim
  <2>2. /\ wk'[w].pc = "idle" /\ wk'[w].limit = 0
        /\ \A v \in Workers \ {w} : wk'[v] = wk[v]
    BY <1>0, <2>1 DEF Idle, Threads
  <2> QED BY <2>1, <2>2, ThreadFrame
<1>4. CASE Load(w)
  <2>1. wk'[w].limit \in Limits \cup {0}
    BY <1>4, LoadTypes DEF WindowInv, LimitsRead
  <2>2. wk'[w].pc = "loaded" /\ (\A v \in Workers \ {w} : wk'[v] = wk[v])
        /\ UNCHANGED <<now, log, head>>
    BY <1>0, <1>4, LoadThread DEF Load
  <2> QED BY <2>1, <2>2, ThreadFrame
<1> QED BY <1>1, <1>2, <1>3, <1>4

LEMMA OpenWindows ==
  ASSUME TypeOK, WindowInv, NEW w \in Workers, Open(w) PROVE WindowInv'
<1>0. Threads /\ Key(w) \in Callers
  BY TypeParts, KeyType DEF Open
<1>1. Windows' /\ RateKept'
  BY DEF WindowInv, Windows, Window, RateKept, Open
<1>3. /\ \A v \in Workers \ {w} : wk'[v] = wk[v]
      /\ wk'[w].pc = "acquiring" /\ wk'[w].since = now /\ wk'[w].slice = wk[w].slice
      /\ wk'[w].limit = wk[w].limit
      /\ UNCHANGED <<now, log>>
  BY <1>0 DEF Open, Threads, Thread
<1>2. LimitsRead'
  BY <1>3 DEF WindowInv, LimitsRead
<1>4. SlotWithinPeriod'
  BY <1>3 DEF WindowInv, SlotWithinPeriod
<1>5. ASSUME NEW v \in Workers PROVE Waiting(v)'
  <2>1. CASE v = w
    <3>1. Calls(w)' = Calls(w)
      BY <1>3 DEF Calls, Key, BindingAt
    <3>2. now \in Nat /\ \A i \in 1 .. Len(Calls(w)) : Calls(w)[i].at <= now
      BY <1>0 DEF WindowInv, Windows, Window, Calls, TypeOK
    <3> QED BY <1>3, <2>1, <3>1, <3>2 DEF Waiting
  <2>2. CASE v # w
    BY <1>3, <2>2 DEF WindowInv, Waiting, Calls, Key, BindingAt
  <2> QED BY <2>1, <2>2
<1> QED BY <1>1, <1>2, <1>4, <1>5 DEF WindowInv

LEMMA WakeWindows ==
  ASSUME TypeOK, WindowInv, NEW w \in Workers, Wake(w) PROVE WindowInv'
<1>0. Threads
  BY TypeParts
<1>1. /\ \A v \in Workers \ {w} : wk'[v] = wk[v]
      /\ wk'[w].pc = "acquiring" /\ wk'[w].since = wk[w].since
      /\ wk'[w].slice = wk[w].slice /\ wk'[w].limit = wk[w].limit
      /\ wk[w].pc = "sleeping"
      /\ UNCHANGED <<now, log, head>>
  BY <1>0 DEF Wake, Threads, Thread
<1>2. Windows' /\ RateKept'
  BY <1>1 DEF WindowInv, Windows, Window, RateKept
<1>3. LimitsRead' /\ SlotWithinPeriod'
  BY <1>1 DEF WindowInv, LimitsRead, SlotWithinPeriod
<1>4. ASSUME NEW v \in Workers PROVE Waiting(v)'
  <2>1. Calls(v)' = Calls(v)
    BY <1>1 DEF Calls, Key, BindingAt
  <2>2. Waiting(v)
    BY DEF WindowInv
  <2> QED BY <1>1, <2>1, <2>2 DEF Waiting
<1> QED BY <1>2, <1>3, <1>4 DEF WindowInv

\* A pass of the loop keeps the window.
LEMMA PassWindow ==
  ASSUME TypeOK, WindowInv, NEW w \in Workers, wk[w].pc # "idle", NEW n \in Heads(w)
  PROVE  Window(Calls(w), n)
<1>1. /\ Calls(w) \in Seq(Call) /\ n \in Nat \ {0} /\ n <= Len(Calls(w)) + 1
      /\ head[Key(w)] \in Nat \ {0} /\ head[Key(w)] <= n
      /\ \A i \in head[Key(w)] .. n - 1 : Calls(w)[i].at <= now - Period
  BY HeadsType
<1>2. Window(Calls(w), head[Key(w)])
  BY KeyType, TypeParts DEF WindowInv, Windows, Calls
<1>3. now \in Nat /\ Period \in Nat /\ Len(Calls(w)) \in Nat
      /\ \A i \in 1 .. Len(Calls(w)) : Calls(w)[i].at \in Nat
  BY <1>1, CallFields, ProviderConstants DEF TypeOK
<1>4. ASSUME NEW i \in 1 .. n - 1 PROVE now - Calls(w)[i].at >= Period
  <2>1. CASE i < head[Key(w)]
    BY <1>1, <1>2, <2>1 DEF Window
  <2>2. CASE i >= head[Key(w)]
    BY <1>1, <1>3, <2>2
  <2> QED BY <1>1, <2>1, <2>2
<1> QED BY <1>1, <1>2, <1>4 DEF Window

LEMMA WaitWindows ==
  ASSUME TypeOK, WindowInv, NEW w \in Workers, Wait(w) PROVE WindowInv'
<1>0. Threads /\ Logs /\ Key(w) \in Callers
  BY TypeParts, KeyType DEF Wait
<1>1. PICK n \in Heads(w) : /\ ~HasRoom(w, n) /\ head' = [head EXCEPT ![Key(w)] = n]
                            /\ wk' = [wk EXCEPT ![w].pc = "sleeping",
                                                ![w].until = UntilOldest(w, n)]
  BY DEF Wait
<1>2. /\ Calls(w) \in Seq(Call) /\ n \in Nat \ {0} /\ n <= Len(Calls(w)) + 1
  BY HeadsType DEF Wait
<1>3. /\ \A v \in Workers \ {w} : wk'[v] = wk[v]
      /\ wk'[w].pc = "sleeping" /\ wk'[w].since = wk[w].since
      /\ wk'[w].slice = wk[w].slice /\ wk'[w].limit = wk[w].limit
      /\ wk'[w].until = UntilOldest(w, n)
      /\ wk[w].pc = "acquiring"
      /\ UNCHANGED <<now, log>>
  BY <1>0, <1>1 DEF Wait, Threads, Thread
<1>4. Windows'
  <2>1. Window(Calls(w), n)
    BY <1>1, PassWindow DEF Wait
  <2> QED BY <1>0, <1>1, <1>3, <2>1 DEF WindowInv, Windows, Window, Logs, Calls
<1>5. RateKept' /\ LimitsRead'
  BY <1>3 DEF WindowInv, RateKept, LimitsRead
<1>6. ASSUME NEW v \in Workers PROVE Waiting(v)'
  <2>1. Calls(v)' = Calls(v)
    BY <1>3 DEF Calls, Key, BindingAt
  <2>2. Waiting(v)
    BY DEF WindowInv
  <2> QED BY <1>3, <2>1, <2>2 DEF Waiting
<1>7. SlotWithinPeriod'
  <2>1. n \in 1 .. Len(Calls(w))
    BY <1>0, <1>1, <1>2 DEF HasRoom, Threads, Thread, Wait
  <2>2. Calls(w)[n].at <= wk[w].since
    BY <1>3, <2>1 DEF WindowInv, Waiting
  <2>3. Calls(w)[n].at \in Nat /\ wk[w].since \in Nat /\ Period \in Nat
    BY <1>0, <1>2, <2>1, CallFields, ProviderConstants DEF Threads, Thread
  <2>4. UntilOldest(w, n) <= wk[w].since + Period
    BY <2>2, <2>3 DEF UntilOldest
  <2> QED BY <1>3, <2>4 DEF WindowInv, SlotWithinPeriod
<1> QED BY <1>4, <1>5, <1>6, <1>7 DEF WindowInv

\* The call a limiter grants is a Period after the limit-th before it.
LEMMA GrantRoom ==
  ASSUME TypeOK, WindowInv, NEW w \in Workers, Grant(w)
  PROVE  /\ wk[w].limit \in Nat \ {0} /\ Calls(w) \in Seq(Call)
         /\ Len(Calls(w)) >= wk[w].limit =>
              now - Calls(w)[Len(Calls(w)) - wk[w].limit + 1].at >= Period
<1>1. PICK n \in Heads(w) : HasRoom(w, n)
  BY DEF Grant
<1>2. Window(Calls(w), n) /\ Calls(w) \in Seq(Call) /\ n \in Nat \ {0}
  BY <1>1, PassWindow, HeadsType DEF Grant
<1>3. wk[w].limit \in Nat \ {0}
  BY TypeParts DEF Grant, Threads, Thread
<1>4. ASSUME Len(Calls(w)) >= wk[w].limit
      PROVE  Len(Calls(w)) - wk[w].limit + 1 \in 1 .. n - 1
  BY <1>1, <1>2, <1>3, <1>4 DEF HasRoom
<1> QED BY <1>2, <1>3, <1>4 DEF Window

LEMMA GrantWindows ==
  ASSUME TypeOK, WindowInv, NEW w \in Workers, Grant(w) PROVE WindowInv'
<1> DEFINE new == [at |-> now, limit |-> wk[w].limit]
           calls == Append(Calls(w), new)
<1>0. Threads /\ Logs /\ Key(w) \in Callers /\ now \in Nat
  BY TypeParts, KeyType DEF Grant, Counters
<1>1. PICK n \in Heads(w) : HasRoom(w, n) /\ head' = [head EXCEPT ![Key(w)] = n]
  BY DEF Grant
<1>2. Window(Calls(w), n) /\ Calls(w) \in Seq(Call) /\ n \in Nat \ {0}
      /\ n <= Len(Calls(w)) + 1
  BY <1>1, PassWindow, HeadsType DEF Grant
<1>3. /\ log' = [log EXCEPT ![Key(w)] = calls] /\ now' = now
      /\ \A v \in Workers \ {w} : wk'[v] = wk[v]
      /\ wk'[w].pc = "calling" /\ wk'[w].limit = wk[w].limit
  BY <1>0 DEF Grant, Acquired, Calls, Threads, Thread
<1>4. /\ new.at = now /\ new.limit = wk[w].limit
      /\ calls \in Seq(Call) /\ Len(calls) = Len(Calls(w)) + 1
      /\ \A i \in 1 .. Len(Calls(w)) : calls[i] = Calls(w)[i]
      /\ calls[Len(Calls(w)) + 1] = new
  <2>1. new \in Call
    BY <1>0, GrantRoom DEF Call
  <2> QED BY <1>2, <2>1
<1> HIDE DEF calls, new
<1>5. Windows'
  <2>1. Window(calls, n)
    BY <1>0, <1>2, <1>4 DEF Window
  <2> QED BY <1>0, <1>1, <1>3, <2>1 DEF WindowInv, Windows, Window, Logs
<1>6. RateKept'
  <2>1. Rated(Calls(w))
    BY <1>0 DEF WindowInv, RateKept, Rated, Callers, Calls
  <2>2. Rated(calls)
    <3> SUFFICES ASSUME NEW i \in 1 .. Len(Calls(w)) + 1, i > calls[i].limit
                 PROVE  calls[i].at - calls[i - calls[i].limit].at >= Period
      BY <1>4 DEF Rated
    <3>1. CASE i \in 1 .. Len(Calls(w))
      <4>1. calls[i] = Calls(w)[i] /\ Calls(w)[i].limit \in Nat \ {0}
        BY <1>2, <1>4, <3>1, CallFields
      <4>2. i - Calls(w)[i].limit \in 1 .. Len(Calls(w))
        BY <1>2, <3>1, <4>1
      <4> QED BY <1>2, <1>4, <2>1, <3>1, <4>1, <4>2 DEF Rated
    <3>2. CASE i = Len(Calls(w)) + 1
      <4>1. wk[w].limit \in Nat \ {0} /\ Len(Calls(w)) \in Nat
        BY <1>2, GrantRoom
      <4>2. calls[i].at = now /\ calls[i].limit = wk[w].limit
        BY <1>4, <3>2
      <4>3. i - wk[w].limit \in 1 .. Len(Calls(w)) /\ Len(Calls(w)) >= wk[w].limit
            /\ i - wk[w].limit = Len(Calls(w)) - wk[w].limit + 1
        BY <3>2, <4>1, <4>2
      <4> QED BY <1>4, <4>2, <4>3, GrantRoom
    <3> QED BY <1>2, <3>1, <3>2
  <2> QED BY <1>0, <1>3, <2>2 DEF WindowInv, RateKept, Rated, Logs, Callers
<1>7. LimitsRead' /\ SlotWithinPeriod'
  BY <1>3 DEF WindowInv, LimitsRead, SlotWithinPeriod
<1>8. ASSUME NEW v \in Workers PROVE Waiting(v)'
  <2>1. CASE v = w  BY <1>3, <2>1 DEF Waiting
  <2>2. CASE v # w
    <3>1. CASE wk[v].pc = "idle"
      BY <1>3, <2>2, <3>1 DEF Waiting
    <3>2. CASE wk[v].pc # "idle"
      <4>1. Key(v) \in Callers /\ Key(v) # Key(w) /\ Key(v)' = Key(v)
        BY <1>0, <1>3, <2>2, <3>2, KeyType DEF Key, BindingAt
      <4>2. Calls(v)' = Calls(v)
        BY <1>0, <1>3, <4>1 DEF Calls, Logs
      <4> QED BY <1>3, <2>2, <4>2 DEF WindowInv, Waiting
    <3> QED BY <3>1, <3>2
  <2> QED BY <2>1, <2>2
<1> QED BY <1>5, <1>6, <1>7, <1>8 DEF WindowInv

LEMMA CrashWindows ==
  ASSUME TypeOK, WindowInv, NEW w \in Workers, Crash(w) PROVE WindowInv'
<1>0. Threads /\ Logs /\ now \in Nat
  BY TypeParts DEF Counters
<1>1. /\ \A v \in Workers \ {w} : wk'[v] = wk[v]
      /\ wk'[w] = Idle /\ now' = now
      /\ \A c \in Callers : log'[c] = (IF c[1] = w THEN <<>> ELSE log[c])
      /\ \A c \in Callers : head'[c] = (IF c[1] = w THEN 1 ELSE head[c])
  BY <1>0 DEF Crash, Threads, Callers
<1>2. ASSUME NEW c \in Callers PROVE Window(log[c], head[c])' /\ Rated(log[c])'
  <2>1. CASE c[1] = w
    BY <1>1, <2>1 DEF Window, Rated
  <2>2. CASE c[1] # w
    BY <1>1, <2>2 DEF WindowInv, Windows, Window, RateKept, Rated, Callers
  <2> QED BY <2>1, <2>2
<1>3. LimitsRead' /\ SlotWithinPeriod'
  BY <1>1 DEF WindowInv, LimitsRead, SlotWithinPeriod, Idle
<1>4. ASSUME NEW v \in Workers PROVE Waiting(v)'
  <2>1. CASE v = w  BY <1>1, <2>1 DEF Waiting, Idle
  <2>2. CASE v # w
    <3>1. CASE wk[v].pc = "idle"
      BY <1>1, <2>2, <3>1 DEF Waiting
    <3>2. CASE wk[v].pc # "idle"
      <4>1. Key(v) \in Callers /\ Key(v)[1] # w /\ Key(v)' = Key(v)
        BY <1>0, <1>1, <2>2, <3>2, KeyType DEF Key, BindingAt
      <4>2. Calls(v)' = Calls(v)
        BY <1>1, <4>1 DEF Calls
      <4> QED BY <1>1, <2>2, <4>2 DEF WindowInv, Waiting
    <3> QED BY <3>1, <3>2
  <2> QED BY <2>1, <2>2
<1>5. Windows' /\ RateKept'
  BY <1>2 DEF Windows, RateKept, Rated, Callers
<1> QED BY <1>3, <1>4, <1>5 DEF WindowInv

LEMMA TickWindows == ASSUME TypeOK, WindowInv, Tick PROVE WindowInv'
<1>0. Threads /\ Logs /\ now \in Nat /\ now' = now + 1 /\ Period \in Nat
      /\ UNCHANGED <<wk, log, head>>
  BY TypeParts, ProviderConstants DEF Tick, Counters
<1>1. ASSUME NEW c \in Callers PROVE Window(log[c], head[c])'
  <2>1. /\ Len(log[c]) \in Nat /\ head[c] \in Nat
        /\ \A i \in 1 .. Len(log[c]) : log[c][i].at \in Nat
    <3>1. log[c] \in Seq(Call) /\ head[c] \in Nat
      BY <1>0 DEF Logs
    <3> QED BY <3>1, CallFields
  <2>2. Window(log[c], head[c])
    BY DEF WindowInv, Windows
  <2> QED BY <1>0, <2>1, <2>2 DEF Window
<1>2. ASSUME NEW v \in Workers PROVE Waiting(v)'
  <2>1. Waiting(v) /\ wk[v].since \in Nat /\ Calls(v)' = Calls(v)
    BY <1>0 DEF WindowInv, Threads, Thread, Calls, Key, BindingAt
  <2> QED BY <1>0, <2>1 DEF Waiting
<1>3. RateKept' /\ LimitsRead' /\ SlotWithinPeriod'
  BY <1>0 DEF WindowInv, RateKept, LimitsRead, SlotWithinPeriod
<1> QED BY <1>0, <1>1, <1>2, <1>3 DEF WindowInv, Windows

-----------------------------------------------------------------------------
(***************************************************************************)
(* Attempts.                                                               *)
(***************************************************************************)
LEMMA Numbers ==
  ASSUME TypeOK PROVE /\ crashes \in Nat /\ requests \in Nat /\ late \in Nat
                      /\ MaxAttempts \in Nat \ {0} /\ Bound \in Nat
                      /\ \A s \in Slices : slice[s].attempts \in Nat
                      /\ \A w \in Workers : wk[w].claim \in Nat /\ wk[w].att \in Nat
BY ProviderConstants DEF TypeOK, SliceRow, Thread, Bound

\* What a worker has of its claim, and whose slice is held.
LEMMA HeldFrame ==
  ASSUME NEW s \in Slices, slice'[s] = slice[s],
         \A w \in Workers : \/ wk'[w].slice = wk[w].slice /\ wk'[w].claim = wk[w].claim
                            \/ wk[w].slice # s /\ wk'[w].slice # s
  PROVE  Unheld(s)' <=> Unheld(s)
<1>1. ASSUME NEW w \in Workers PROVE Holds(w, s)' <=> Holds(w, s)
  BY DEF Holds
<1> QED BY <1>1 DEF Unheld, Held

\* A step that only moves a thread along, or the clock.
LEMMA AttemptFrame ==
  ASSUME AttemptInv, UNCHANGED <<slice, crashes, requests, late>>,
         \A w \in Workers : /\ wk'[w].slice = wk[w].slice /\ wk'[w].claim = wk[w].claim
                            /\ wk'[w].pc # "idle" => ClaimCounted(w)'
  PROVE  AttemptInv'
<1>1. ASSUME NEW s \in Slices PROVE AttemptLeft(s)'
  BY HeldFrame DEF AttemptInv, AttemptLeft, Bound
<1>2. ASSUME NEW w \in Workers PROVE ClaimCounted(w)'
  BY DEF ClaimCounted
<1> QED BY <1>1, <1>2 DEF AttemptInv, ClaimsBounded

LEMMA MovesKeepAttempts ==
  ASSUME TypeOK, AttemptInv, NEW w \in Workers,
         Load(w) \/ Open(w) \/ Raise(w) \/ PassUnlimited(w) \/ Grant(w) \/ Wait(w) \/ Wake(w)
  PROVE  AttemptInv'
<1>0. Threads
  BY TypeParts
<1>1. /\ UNCHANGED <<slice, crashes, requests, late>>
      /\ \A v \in Workers \ {w} : wk'[v] = wk[v]
      /\ wk'[w].slice = wk[w].slice /\ wk'[w].claim = wk[w].claim
      /\ wk[w].pc # "idle"
  <2>1. CASE Load(w)
    BY <1>0, <2>1, LoadThread DEF Load
  <2>5. CASE Open(w) \/ Raise(w)
    BY <1>0, <2>5 DEF Open, Raise, Threads, Thread
  <2>2. CASE PassUnlimited(w) \/ Grant(w)
    BY <1>0, <2>2 DEF PassUnlimited, Grant, Acquired, Threads, Thread
  <2>3. CASE Wait(w)
    <3>1. PICK n \in Heads(w) : wk' = [wk EXCEPT ![w].pc = "sleeping",
                                                 ![w].until = UntilOldest(w, n)]
      BY <2>3 DEF Wait
    <3>2. wk'[w].slice = wk[w].slice /\ wk'[w].claim = wk[w].claim
          /\ \A v \in Workers \ {w} : wk'[v] = wk[v]
      BY <1>0, <3>1 DEF Threads, Thread
    <3> QED BY <2>3, <3>2 DEF Wait
  <2>4. CASE Wake(w)
    BY <1>0, <2>4 DEF Wake, Threads, Thread
  <2> QED BY <2>1, <2>2, <2>3, <2>4, <2>5
<1>2. wk[w].slice \in Slices /\ wk[w].claim <= slice[wk[w].slice].attempts
  BY <1>0, <1>1 DEF Threads, AttemptInv, ClaimCounted
<1>3. CASE Load(w)
  <2>1. wk'[w].att = slice[wk[w].slice].attempts
    BY <1>0, <1>3, LoadThread
  <2> QED BY <1>1, <1>2, <2>1, AttemptFrame DEF AttemptInv, ClaimCounted
<1>4. CASE Raise(w)
  <2>1. wk'[w].pc = "failing"
    BY <1>0, <1>4 DEF Raise, Threads, Thread
  <2> QED BY <1>1, <1>2, <2>1, AttemptFrame DEF AttemptInv, ClaimCounted
<1>5. CASE Open(w) \/ PassUnlimited(w) \/ Grant(w) \/ Wait(w) \/ Wake(w)
  <2>1. /\ wk[w].pc \in {"loaded", "acquiring", "sleeping"}
        /\ wk'[w].att = wk[w].att
    <3>1. CASE Open(w)  BY <1>0, <3>1 DEF Open, Threads, Thread
    <3>2. CASE PassUnlimited(w) \/ Grant(w)
      BY <1>0, <3>2 DEF PassUnlimited, Grant, Acquired, Threads, Thread
    <3>3. CASE Wait(w)  BY <1>0, <3>3 DEF Wait, Threads, Thread
    <3>4. CASE Wake(w)  BY <1>0, <3>4 DEF Wake, Threads, Thread
    <3> QED BY <1>5, <3>1, <3>2, <3>3, <3>4
  <2>2. wk[w].claim <= wk[w].att
    BY <2>1 DEF AttemptInv, ClaimCounted
  <2> QED BY <1>1, <1>2, <2>1, <2>2, AttemptFrame DEF AttemptInv, ClaimCounted
<1> QED BY <1>3, <1>4, <1>5

LEMMA ClaimAttempts ==
  ASSUME TypeOK, AttemptInv, NEW w \in Workers, NEW s \in Slices, Claim(w, s), Empty
  PROVE  AttemptInv'
<1>1. /\ \A r \in Slices \ {s} : slice'[r] = slice[r]
      /\ slice'[s].status = "RUNNING" /\ slice'[s].attempts = slice[s].attempts + 1
      /\ wk'[w].pc = "claimed" /\ wk'[w].slice = s /\ wk'[w].claim = slice[s].attempts + 1
      /\ \A v \in Workers \ {w} : wk'[v] = wk[v]
      /\ UNCHANGED <<crashes, requests, late>>
  BY DEF Claim, TypeOK, SliceRow, Thread, Idle
<1>2. slice[s].attempts < Bound /\ Bound' = Bound
  BY <1>1 DEF AttemptInv, AttemptLeft, Claim, Ready, Unheld, Bound
<1>3. ASSUME NEW r \in Slices PROVE slice'[r].attempts <= Bound /\ AttemptLeft(r)'
  <2>1. CASE r = s
    <3>1. Holds(w, s)'
      BY <1>1 DEF Holds
    <3> QED BY <1>1, <1>2, <2>1, <3>1, Numbers DEF AttemptLeft, Unheld, Held
  <2>2. CASE r # s
    <3>1. wk[w].slice # r
      BY ProviderConstants DEF Claim, Empty
    <3>2. Unheld(r)' <=> Unheld(r)
      BY <1>1, <2>2, <3>1, HeldFrame
    <3> QED BY <1>1, <1>2, <2>2, <3>2 DEF AttemptInv, ClaimsBounded, AttemptLeft, Bound
  <2> QED BY <2>1, <2>2
<1>4. ASSUME NEW v \in Workers PROVE ClaimCounted(v)'
  <2>1. CASE v = w
    BY <1>1, <2>1, Numbers DEF ClaimCounted
  <2>2. CASE v # w
    <3>1. ClaimCounted(v) /\ wk'[v] = wk[v] /\ (wk[v].pc # "idle" => wk[v].slice \in Slices)
      BY <1>1, <2>2 DEF AttemptInv, TypeOK
    <3>2. \A r \in Slices : slice[r].attempts <= slice'[r].attempts
      BY <1>1, Numbers
    <3> QED BY <1>1, <3>1, <3>2, Numbers DEF ClaimCounted
  <2> QED BY <2>1, <2>2
<1> QED BY <1>2, <1>3, <1>4 DEF AttemptInv, ClaimsBounded, Bound

\* Rows of slices that stay as they are, but for one whose claims are not counted up.
LEMMA SliceFrame ==
  ASSUME TypeOK, AttemptInv, NEW s \in Slices, UNCHANGED <<crashes, requests>>,
         Bound' \in Nat, Bound <= Bound',
         \A r \in Slices \ {s} : slice'[r] = slice[r],
         slice'[s].attempts = slice[s].attempts,
         NEW w \in Workers, wk'[w].pc = "idle" \/ wk' = wk,
         \A v \in Workers \ {w} : wk'[v] = wk[v],
         wk[w].slice = s \/ wk' = wk, wk'[w].slice = NoSlice \/ wk' = wk,
         AttemptLeft(s)'
  PROVE  AttemptInv'
<1>1. ASSUME NEW r \in Slices \ {s} PROVE AttemptLeft(r)'
  <2>1. Unheld(r)' <=> Unheld(r)
    BY HeldFrame, ProviderConstants
  <2> QED BY <2>1, Numbers DEF AttemptInv, AttemptLeft
<1>2. ASSUME NEW v \in Workers PROVE ClaimCounted(v)'
  BY DEF AttemptInv, ClaimCounted, TypeOK
<1> QED BY <1>1, <1>2, Numbers DEF AttemptInv, ClaimsBounded, Bound

LEMMA RecoverAttempts ==
  ASSUME TypeOK, AttemptInv, NEW s \in Slices, Recover(s) PROVE AttemptInv'
<1>1. /\ \A r \in Slices \ {s} : slice'[r] = slice[r]
      /\ slice'[s].attempts = slice[s].attempts
      /\ slice[s].status = "RUNNING"
      /\ UNCHANGED <<wk, crashes, requests>>
      /\ IF Held(s) THEN late' = late + 1 ELSE late' = late
  BY DEF Recover, Expired, TypeOK, SliceRow
<1>2. Bound' \in Nat /\ Bound <= Bound' /\ slice[s].attempts < Bound'
  <2>1. CASE Held(s)
    BY <1>1, <2>1, Numbers DEF AttemptInv, ClaimsBounded, Bound
  <2>2. CASE ~Held(s)
    BY <1>1, <2>2, Numbers DEF AttemptInv, AttemptLeft, Unheld, Bound
  <2> QED BY <2>1, <2>2
<1>3. PICK w \in Workers : wk[w].pc = "idle"
  BY DEF Recover
<1> QED BY <1>1, <1>2, <1>3, SliceFrame DEF AttemptLeft

LEMMA FailAttempts ==
  ASSUME TypeOK, AttemptInv, NEW w \in Workers, FailClaim(w) PROVE AttemptInv'
<1> SUFFICES ASSUME NEW s \in Slices, s = wk[w].slice PROVE AttemptInv'
  BY DEF FailClaim, TypeOK
<1>1. /\ \A r \in Slices \ {s} : slice'[r] = slice[r]
      /\ slice'[s].attempts = slice[s].attempts
      /\ wk'[w].pc = "idle" /\ wk'[w].slice = NoSlice
      /\ \A v \in Workers \ {w} : wk'[v] = wk[v]
      /\ UNCHANGED <<crashes, requests, late>>
      /\ IF Holds(w, s) THEN slice'[s].status = "FAILED" ELSE slice' = slice
  <2>1. /\ wk'[w].pc = "idle" /\ wk'[w].slice = NoSlice
        /\ \A v \in Workers \ {w} : wk'[v] = wk[v]
        /\ UNCHANGED <<crashes, requests, late>>
    BY DEF FailClaim, TypeOK, Idle
  <2>2. CASE Holds(w, s)
    <3>1. slice' = [slice EXCEPT ![s].status = "FAILED", ![s].at = 0]
      BY <2>2 DEF FailClaim
    <3> QED BY <2>1, <2>2, <3>1 DEF TypeOK, SliceRow
  <2>3. CASE ~Holds(w, s)
    BY <2>1, <2>3 DEF FailClaim
  <2> QED BY <2>2, <2>3
<1>2. Bound' = Bound /\ Bound \in Nat
  BY <1>1, Numbers DEF Bound
<1>3. AttemptLeft(s)'
  <2>1. CASE Holds(w, s)
    BY <1>1, <2>1 DEF AttemptLeft, Unheld
  <2>2. CASE ~Holds(w, s)
    <3>1. ASSUME NEW v \in Workers, Holds(v, s) PROVE Holds(v, s)'
      BY <1>1, <2>2, <3>1 DEF Holds
    <3>2. Unheld(s)' => Unheld(s)
      BY <1>1, <2>2, <3>1 DEF Unheld, Held
    <3> QED BY <1>1, <1>2, <2>2, <3>2 DEF AttemptInv, AttemptLeft
  <2> QED BY <2>1, <2>2
<1> QED BY <1>1, <1>2, <1>3, SliceFrame

LEMMA AnswerAttempts ==
  ASSUME TypeOK, AttemptInv, NEW w \in Workers, NEW a \in Answers, Answered(w, a)
  PROVE  AttemptInv'
<1> SUFFICES ASSUME NEW s \in Slices, s = wk[w].slice,
                    NEW outcome, outcome = Outcome(s, a)
             PROVE  AttemptInv'
  BY DEF Answered, TypeOK
<1>1. /\ \A r \in Slices \ {s} : slice'[r] = slice[r]
      /\ slice'[s].attempts = slice[s].attempts
      /\ Holds(w, s) => /\ slice'[s].status \in {"SUCCEEDED", "RETRY_WAIT", "FAILED"}
                        /\ slice'[s].status = "RETRY_WAIT" => Retries(w, outcome)
      /\ ~Holds(w, s) => slice' = slice
  <2>1. slice[s] \in SliceRow /\ DOMAIN slice = Slices /\ slice' = Settled(w, outcome)
    BY DEF TypeOK, Answered
  <2>2. CASE Holds(w, s)
    BY <2>1, <2>2 DEF Settled, SliceRow
  <2>3. CASE ~Holds(w, s)
    BY <2>1, <2>3 DEF Settled
  <2> QED BY <2>2, <2>3
<1>2. /\ wk'[w].pc = "idle" /\ wk'[w].slice = NoSlice
      /\ \A v \in Workers \ {w} : wk'[v] = wk[v]
      /\ UNCHANGED <<crashes, requests, late>>
  BY DEF Answered, TypeOK, Idle
<1>3. Bound' = Bound /\ Bound \in Nat
  BY <1>2, Numbers DEF Bound
<1>4. AttemptLeft(s)'
  <2>1. CASE Holds(w, s)
    <3>1. slice[s].attempts = wk[w].claim /\ wk[w].claim <= wk[w].att
      BY <2>1 DEF Holds, AttemptInv, ClaimCounted, Answered
    <3>2. Retries(w, outcome) => slice[s].attempts < MaxAttempts
      BY <3>1, Numbers DEF Retries
    <3>3. MaxAttempts <= Bound
      BY Numbers DEF Bound
    <3> QED BY <1>1, <1>3, <2>1, <3>2, <3>3, Numbers DEF AttemptLeft, Unheld
  <2>2. CASE ~Holds(w, s)
    <3>1. ASSUME NEW v \in Workers, Holds(v, s) PROVE Holds(v, s)'
      BY <1>1, <1>2, <2>2, <3>1 DEF Holds
    <3>2. Unheld(s)' => Unheld(s)
      BY <1>1, <2>2, <3>1 DEF Unheld, Held
    <3> QED BY <1>1, <1>3, <2>2, <3>2 DEF AttemptInv, AttemptLeft
  <2> QED BY <2>1, <2>2
<1> QED BY <1>1, <1>2, <1>3, <1>4, SliceFrame

\* A death or a request makes room for a claim of any slice.
LEMMA RoomForClaim ==
  ASSUME TypeOK, AttemptInv, \A s \in Slices : slice'[s].attempts = slice[s].attempts,
         \A v \in Workers : wk'[v] = wk[v] \/ wk'[v].pc = "idle",
         Bound' = Bound + 1
  PROVE  AttemptInv'
<1>1. ASSUME NEW s \in Slices PROVE slice'[s].attempts < Bound'
  BY Numbers DEF AttemptInv, ClaimsBounded, Bound
<1>2. ASSUME NEW v \in Workers PROVE ClaimCounted(v)'
  BY DEF AttemptInv, ClaimCounted, TypeOK
<1> QED BY <1>1, <1>2, Numbers DEF AttemptInv, ClaimsBounded, AttemptLeft, Bound

LEMMA CrashAttempts ==
  ASSUME TypeOK, AttemptInv, NEW w \in Workers, Crash(w) PROVE AttemptInv'
<1>1. slice' = slice /\ Bound' = Bound + 1
      /\ \A v \in Workers : wk'[v] = wk[v] \/ wk'[v].pc = "idle"
  BY Numbers DEF Crash, Bound, TypeOK, Idle
<1> QED BY <1>1, RoomForClaim

LEMMA RetryAttempts ==
  ASSUME TypeOK, AttemptInv, NEW s \in Slices, Retry(s) PROVE AttemptInv'
<1>1. wk' = wk /\ Bound' = Bound + 1
  BY Numbers DEF Retry, Requested, Bound
<1>2. \A r \in Slices : slice'[r].attempts = slice[r].attempts
  BY DEF Retry, TypeOK, SliceRow
<1> QED BY <1>1, <1>2, RoomForClaim

LEMMA OperatorAttempts ==
  ASSUME TypeOK, AttemptInv, UNCHANGED <<slice, wk, crashes, late>>, requests' = requests + 1
  PROVE  AttemptInv'
<1>1. Bound' = Bound + 1
  BY Numbers DEF Bound
<1> QED BY <1>1, RoomForClaim
-----------------------------------------------------------------------------
(***************************************************************************)
(* The invariant, and the theorems.                                        *)
(***************************************************************************)
LEMMA InvInit == Init => Inv
<1> SUFFICES ASSUME Init PROVE Inv
  OBVIOUS
<1>1. TypeOK
  BY InitTypes
<1>2. WindowInv
  BY DEF Init, WindowInv, Windows, Window, LimitsRead, RateKept, SlotWithinPeriod, Waiting, Idle,
         Callers
<1>3. AttemptInv
  BY ProviderConstants DEF Init, AttemptInv, ClaimsBounded, AttemptLeft, Bound, ClaimCounted, Idle
<1>4. Empty
  BY DEF Init, Empty, Idle
<1> QED BY <1>1, <1>2, <1>3, <1>4 DEF Inv

LEMMA EmptyStep ==
  ASSUME TypeOK, Empty, [Next]_vars PROVE Empty'
<1>0. Threads
  BY TypeParts
<1>1. \/ wk' = wk
      \/ \E w \in Workers : /\ wk'[w].pc # "idle" \/ wk'[w] = Idle
                           /\ \A v \in Workers \ {w} : wk'[v] = wk[v]
  <2>1. ASSUME NEW w \in Workers, NEW s \in Slices, Claim(w, s)
        PROVE  /\ wk'[w].pc # "idle" /\ \A v \in Workers \ {w} : wk'[v] = wk[v]
    BY <1>0, <2>1 DEF Claim, Threads, Idle
  <2>2. ASSUME NEW w \in Workers,
               Load(w) \/ Open(w) \/ Raise(w) \/ PassUnlimited(w) \/ Grant(w) \/ Wake(w)
        PROVE  /\ wk'[w].pc # "idle" /\ \A v \in Workers \ {w} : wk'[v] = wk[v]
    BY <1>0, <2>2 DEF Load, Open, Raise, PassUnlimited, Grant, Acquired, Wake, Threads, Thread
  <2>3. ASSUME NEW w \in Workers, Wait(w)
        PROVE  /\ wk'[w].pc # "idle" /\ \A v \in Workers \ {w} : wk'[v] = wk[v]
    BY <1>0, <2>3 DEF Wait, Threads, Thread
  <2>4. ASSUME NEW w \in Workers,
               (\E a \in Answers : Answered(w, a)) \/ FailClaim(w) \/ Crash(w)
        PROVE  /\ wk'[w] = Idle /\ \A v \in Workers \ {w} : wk'[v] = wk[v]
    BY <1>0, <2>4 DEF Answered, FailClaim, Crash, Threads
  <2>5. CASE \E w \in Workers : WorkerStep(w) \/ Raise(w) \/ Crash(w)
    BY <2>1, <2>2, <2>3, <2>4, <2>5 DEF WorkerStep
  <2> QED
    BY <2>5 DEF Next, vars, Recover, Retry, SetLimit, Probe, Requested, Tick
<1> QED BY <1>1 DEF Empty, Idle

LEMMA InvStep == Inv /\ [Next]_vars => Inv'
<1> SUFFICES ASSUME Inv, [Next]_vars PROVE Inv'
  OBVIOUS
<1>0. TypeOK /\ WindowInv /\ AttemptInv /\ LimitsRead /\ Empty /\ Empty'
  BY EmptyStep DEF Inv, WindowInv
<1>1. CASE UNCHANGED vars
  <2>1. TypeOK'
    BY <1>0, <1>1 DEF vars, TypeOK
  <2>2. WindowInv'
    BY <1>0, <1>1, WindowsFrame DEF vars
  <2>3. AttemptInv'
    BY <1>0, <1>1, AttemptFrame DEF vars, AttemptInv, ClaimCounted
  <2> QED BY <1>0, <2>1, <2>2, <2>3 DEF Inv
<1>2. CASE \E w \in Workers : \E s \in Slices : Claim(w, s)
  BY <1>0, <1>2, ClaimTypes, QuietWindows, ClaimAttempts DEF Inv
<1>3. CASE \E w \in Workers : Load(w)
  BY <1>0, <1>3, LoadTypes, QuietWindows, MovesKeepAttempts DEF Inv
<1>13. CASE \E w \in Workers : Open(w)
  BY <1>0, <1>13, OpenTypes, OpenWindows, MovesKeepAttempts DEF Inv
<1>14. CASE \E w \in Workers : Raise(w)
  BY <1>0, <1>14, OpenTypes, QuietWindows, MovesKeepAttempts DEF Inv
<1>15. CASE \E w \in Workers : FailClaim(w)
  BY <1>0, <1>15, FailTypes, QuietWindows, FailAttempts DEF Inv
<1>4. CASE \E w \in Workers : PassUnlimited(w)
  BY <1>0, <1>4, PassTypes, QuietWindows, MovesKeepAttempts DEF Inv
<1>5. CASE \E w \in Workers : Grant(w)
  BY <1>0, <1>5, GrantTypes, GrantWindows, MovesKeepAttempts DEF Inv
<1>6. CASE \E w \in Workers : Wait(w)
  BY <1>0, <1>6, WaitTypes, WaitWindows, MovesKeepAttempts DEF Inv
<1>7. CASE \E w \in Workers : Wake(w)
  BY <1>0, <1>7, PassTypes, WakeWindows, MovesKeepAttempts DEF Inv
<1>8. CASE \E w \in Workers : \E a \in Answers : Answered(w, a)
  BY <1>0, <1>8, AnswerTypes, QuietWindows, AnswerAttempts DEF Inv
<1>9. CASE \E w \in Workers : Crash(w)
  BY <1>0, <1>9, CrashTypes, CrashWindows, CrashAttempts DEF Inv
<1>10. CASE \E s \in Slices : Recover(s) \/ Retry(s)
  <2>1. PICK s \in Slices : Recover(s) \/ Retry(s)
    BY <1>10
  <2>2. UNCHANGED <<now, log, head, wk>>
    BY <2>1 DEF Recover, Retry, Requested
  <2> QED
    BY <1>0, <2>1, <2>2, RowTypes, WindowsFrame, RecoverAttempts, RetryAttempts DEF Inv
<1>11. CASE \E b \in Bindings : \/ \E n \in Limits : SetLimit(b, n)
                                \/ \E a \in Answers : Probe(b, a)
  <2>1. UNCHANGED <<now, log, head, wk, slice, crashes, late>> /\ requests' = requests + 1
    BY <1>11 DEF SetLimit, Probe, Requested
  <2> QED BY <1>0, <1>11, <2>1, OperatorTypes, WindowsFrame, OperatorAttempts DEF Inv
<1>12. CASE Tick
  <2>1. AttemptInv'
    BY <1>0, <1>12, AttemptFrame DEF Tick, AttemptInv, ClaimCounted
  <2> QED BY <1>0, <1>12, <2>1, TickTypes, TickWindows DEF Inv
<1> QED
  BY <1>1, <1>2, <1>3, <1>4, <1>5, <1>6, <1>7, <1>8, <1>9, <1>10, <1>11, <1>12,
     <1>13, <1>14, <1>15
  DEF Next, WorkerStep

LEMMA InvAlways == Spec => []Inv
<1>1. Init => Inv
  BY InvInit
<1>2. Inv /\ [Next]_vars => Inv'
  BY InvStep
<1> QED BY <1>1, <1>2, PTL DEF Spec

\* Every variable keeps its type.
THEOREM ProviderTypes == Spec => []TypeOK
<1>1. Inv => TypeOK
  BY DEF Inv
<1> QED BY <1>1, InvAlways, PTL

\* LocalRateLimiter grants no call before the limit-th last one is a Period old.
THEOREM LimiterKeepsRate == Spec => []RateKept
<1>1. Inv => RateKept
  BY DEF Inv, WindowInv
<1> QED BY <1>1, InvAlways, PTL

\* acquire never sleeps past a Period after it was called.
THEOREM LimiterWaitIsBounded == Spec => []SlotWithinPeriod
<1>1. Inv => SlotWithinPeriod
  BY DEF Inv, WindowInv
<1> QED BY <1>1, InvAlways, PTL

\* attempt_count counts at most the attempts, the deaths, the leases that ran out
\* of living workers and the requests.
THEOREM AttemptsAreBounded == Spec => []ClaimsBounded
<1>1. Inv => ClaimsBounded
  BY DEF Inv, AttemptInv
<1> QED BY <1>1, InvAlways, PTL

-----------------------------------------------------------------------------
(***************************************************************************)
(* ProviderAccess implements CallBudget.                                   *)
(***************************************************************************)
LEMMA BudgetInit == Init => Budget!Init
BY DEF Init, Budget!Init

LEMMA BudgetGrant ==
  ASSUME TypeOK, WindowInv, NEW w \in Workers, Grant(w) PROVE Budget!Next
<1>1. Key(w) \in Workers \X Bindings
  BY TypeParts, KeyType DEF Grant, Callers
<1>2. wk[w].limit \in Limits \ {0}
  BY GrantRoom DEF WindowInv, LimitsRead
<1>3. Budget!Room(log[Key(w)], wk[w].limit)
  BY GrantRoom DEF Budget!Room, Calls
<1>4. Budget!Call(Key(w), wk[w].limit)
  BY <1>3 DEF Budget!Call, Grant
<1> QED BY <1>1, <1>2, <1>4 DEF Budget!Next

LEMMA BudgetCrash ==
  ASSUME TypeOK, NEW w \in Workers, Crash(w) PROVE Budget!Next
<1> DEFINE cs == {c \in Workers \X Bindings : c[1] = w}
<1>1. cs \in SUBSET (Workers \X Bindings)
  OBVIOUS
<1>2. log' = [c \in Workers \X Bindings |-> IF c \in cs THEN <<>> ELSE log[c]]
  BY DEF Crash
<1>3. Budget!Restart(cs)
  BY <1>2 DEF Budget!Restart, Crash
<1> QED BY <1>1, <1>3 DEF Budget!Next

LEMMA BudgetStep == Inv /\ [Next]_vars => [Budget!Next]_<<now, log>>
<1> SUFFICES ASSUME Inv, [Next]_vars PROVE [Budget!Next]_<<now, log>>
  OBVIOUS
<1>0. TypeOK /\ WindowInv
  BY DEF Inv
<1>1. CASE \E w \in Workers : Grant(w)
  BY <1>0, <1>1, BudgetGrant
<1>2. CASE \E w \in Workers : Crash(w)
  BY <1>0, <1>2, BudgetCrash
<1>3. CASE Tick
  BY <1>3 DEF Tick, Budget!Next, Budget!Tick
<1>4. CASE UNCHANGED <<now, log>>
  BY <1>4
<1>5. (\E w \in Workers : Grant(w)) \/ (\E w \in Workers : Crash(w)) \/ Tick
        \/ UNCHANGED <<now, log>>
  BY DEF Next, WorkerStep, vars, Claim, Load, Open, Raise, FailClaim, PassUnlimited, Wait, Wake,
         Answered, Recover, Retry, SetLimit, Probe, Requested
<1> QED BY <1>1, <1>2, <1>3, <1>4, <1>5

\* The limiters of all processes together are a CallBudget.
THEOREM LimiterImplementsBudget == Spec => KeepsBudget
<1>1. Init => Budget!Init
  BY BudgetInit
<1>2. Inv /\ [Next]_vars => [Budget!Next]_<<now, log>>
  BY BudgetStep
<1> QED BY <1>1, <1>2, InvAlways, PTL DEF Spec, KeepsBudget, Budget!Spec
=============================================================================
