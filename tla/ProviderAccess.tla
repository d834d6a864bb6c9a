--------------------------- MODULE ProviderAccess ---------------------------
(***************************************************************************)
(* How the workers reach the provider: the sliding window of               *)
(* LocalRateLimiter (app/collect/rate_limit.py), one in each worker        *)
(* process, the classification of what the provider says                   *)
(* (app/datasource/errors.py, tushare.py), and what an answer does to the  *)
(* slice, its retries and its binding (app/collect/executor.py), in time.  *)
(*                                                                         *)
(* Module CollectQueue has the rows of the queue, without a clock.  Here a *)
(* slice is the only one of its task, and what no answer decides (runs,    *)
(* pages, cancellation) is left out.  A lease runs out by the clock, and   *)
(* the next poll takes the slice back, whether or not its worker lives:    *)
(* only from the insert of an attempt to the end of its transaction does   *)
(* the attempt's foreign key keep the row from recover_expired_claims.     *)
(***************************************************************************)
EXTENDS Integers, Sequences, FiniteSets

CONSTANTS
  Workers,      \* worker processes, each with one thread
  Bindings,     \* SourceBindings; their codes are the keys of the limiter
  Slices, BindingOf,
  Limits,       \* values of the calls-per-minute columns; 0 for NULL
  Period,       \* the 60 seconds of the window
  Lease,        \* worker_lease_seconds
  MaxAttempts,  \* retry_max_attempts
  BackoffCap,   \* the 300 seconds
  NonEmpty,     \* bindings of EXPECTED_NON_EMPTY_ITEMS
  Paged,        \* bindings with pagination_mode "offset"
  Continuation, \* slices that ask for a later page
  Answers,      \* what the provider may answer
  NoSlice,
  MaxCrashes, MaxLate, MaxRequests, MaxTroubles
                \* bounds of the model: deaths, leases that run out while the
                \* worker lives, operator requests, and all of these together

ASSUME ProviderConstants ==
  /\ BindingOf \in [Slices -> Bindings]
  /\ Limits \subseteq Nat
  /\ Period \in Nat \ {0} /\ Lease \in Nat \ {0}
  /\ MaxAttempts \in Nat \ {0} /\ BackoffCap \in Nat \ {0}
  /\ NonEmpty \subseteq Bindings /\ Paged \subseteq Bindings
  /\ Continuation \subseteq Slices
  /\ NoSlice \notin Slices

-----------------------------------------------------------------------------
(***************************************************************************)
(* Answers.  Of an exception, what its message and its class mention.      *)
(***************************************************************************)
Mentions == <<"permission", "frequency", "token", "parameter", "network">>
ErrorOf  == <<"PERMISSION_DENIED", "RATE_LIMITED", "AUTH_ERROR",
              "INVALID_REQUEST", "NETWORK_ERROR">>
Answer ==
  [kind : {"rows", "full", "empty", "missing", "error"},
   says : SUBSET {Mentions[i] : i \in DOMAIN Mentions}]

ASSUME AnswersAssumption == Answers \subseteq Answer

\* classify_provider_exception: the first test that holds.
Classify(says) ==
  IF \A i \in DOMAIN Mentions : Mentions[i] \notin says THEN "PROVIDER_ERROR"
  ELSE ErrorOf[CHOOSE i \in DOMAIN Mentions :
                 /\ Mentions[i] \in says
                 /\ \A j \in 1 .. i - 1 : Mentions[j] \notin says]

Retryable == {"RATE_LIMITED", "NETWORK_ERROR", "PROVIDER_ERROR", "SOURCE_EMPTY"}
ErrorTypes == {ErrorOf[i] : i \in DOMAIN ErrorOf} \cup Retryable \cup
              {"SCHEMA_CHANGED", "POSSIBLE_TRUNCATION"}

\* What execute_claimed_slice makes of an answer, in the order of its tests.
Outcome(s, a) ==
  CASE a.kind = "error"   -> Classify(a.says)
    [] a.kind = "missing" -> "SCHEMA_CHANGED"
    [] a.kind = "full" /\ BindingOf[s] \notin Paged -> "POSSIBLE_TRUNCATION"
    [] a.kind = "empty" /\ BindingOf[s] \in NonEmpty /\ s \notin Continuation ->
         "SOURCE_EMPTY"
    [] OTHER -> "OK"

\* What a final failure makes of the binding, and a probe's answer.
Blocked == {"permission_denied", "schema_changed", "temporarily_unavailable"}
Capability == Blocked \cup {"unknown", "available", "rate_limited", "provider_error"}
CapabilityAfter(outcome, old) ==
  CASE outcome = "OK"                -> "available"
    [] outcome = "PERMISSION_DENIED" -> "permission_denied"
    [] outcome = "SCHEMA_CHANGED"    -> "schema_changed"
    [] outcome = "AUTH_ERROR"        -> "temporarily_unavailable"
    [] OTHER                         -> old
ProbeStatus(a) ==
  CASE a.kind = "missing" -> "schema_changed"
    [] a.kind = "error" ->
         (CASE Classify(a.says) = "PERMISSION_DENIED" -> "permission_denied"
            [] Classify(a.says) = "RATE_LIMITED" -> "rate_limited"
            [] Classify(a.says) = "PROVIDER_ERROR" -> "provider_error"
            [] OTHER -> "temporarily_unavailable")
    [] OTHER -> "available"

Backoff(attempt) ==
  LET delay == 2 ^ (attempt - 1)
  IN IF delay \in 0 .. BackoffCap THEN delay ELSE BackoffCap

-----------------------------------------------------------------------------
VARIABLES
  now,       \* seconds
  limit,     \* effective_calls_per_minute or max_calls_per_minute of a binding
  cap,       \* its capability_status
  slice,     \* request_slice rows
  failed,    \* slices whose task is FAILED, whatever they are themselves
  wk,        \* the thread of each worker process
  log,       \* history variable: the calls a limiter granted, [at, limit]
  head,      \* its deque is the part of the log that begins here
  crashes, requests,
  late       \* history variable: recoveries from a worker that lives

window == <<log, head>>
counts == <<crashes, requests, late>>
vars == <<now, limit, cap, slice, failed, wk, window, counts>>

SliceStatus == {"PENDING", "RUNNING", "RETRY_WAIT", "SUCCEEDED", "FAILED"}
\* at is lease_expires_at of a RUNNING slice and next_retry_at of a waiting one:
\* nothing reads the other, or either of them when the slice has ended.
SliceRow == [status : SliceStatus, attempts : Nat, at : Nat]
\* claim is the lease token, as the number of the claim it was made for; att,
\* limit and cap are copies of columns.
Idle == [pc |-> "idle", slice |-> NoSlice, claim |-> 0, att |-> 0, limit |-> 0,
         cap |-> "unknown", since |-> 0, until |-> 0]
Thread ==
  [pc : {"idle", "claimed", "loaded", "acquiring", "sleeping", "calling", "failing"},
   slice : Slices \cup {NoSlice}, claim : Nat, att : Nat, limit : Nat,
   cap : Capability, since : Nat, until : Nat]
Call == [at : Nat, limit : Nat \ {0}]

TypeOK ==
  /\ now \in Nat
  /\ limit \in [Bindings -> Limits]
  /\ cap \in [Bindings -> Capability]
  /\ slice \in [Slices -> SliceRow]
  /\ failed \subseteq Slices
  /\ wk \in [Workers -> Thread]
  /\ \A w \in Workers : wk[w].pc # "idle" => wk[w].slice \in Slices
  /\ log \in [Workers \X Bindings -> Seq(Call)]
  /\ head \in [Workers \X Bindings -> Nat \ {0}]
  /\ crashes \in Nat /\ requests \in Nat /\ late \in Nat

Init ==
  /\ now = 0
  /\ limit \in [Bindings -> Limits]
  /\ cap = [b \in Bindings |-> "unknown"]
  /\ slice = [s \in Slices |-> [status |-> "PENDING", attempts |-> 0, at |-> 0]]
  /\ failed = {}
  /\ wk = [w \in Workers |-> Idle]
  /\ log = [c \in Workers \X Bindings |-> <<>>]
  /\ head = [c \in Workers \X Bindings |-> 1]
  /\ crashes = 0 /\ requests = 0 /\ late = 0

MoreTroubles == crashes + late + requests < MaxTroubles

BindingAt(w) == BindingOf[wk[w].slice]
Key(w) == <<w, BindingAt(w)>>
\* The execution transaction is open and has inserted its attempt.
Executing(w) == wk[w].pc \in {"acquiring", "sleeping", "calling"}
\* Its claim is the last one of the slice, and nobody took the slice back.
Holds(w, s) ==
  /\ wk[w].slice = s
  /\ slice[s].status = "RUNNING" /\ slice[s].attempts = wk[w].claim
-----------------------------------------------------------------------------
(***************************************************************************)
(* Claims.                                                                 *)
(***************************************************************************)
BindingRowFree(b) == \A w \in Workers : Executing(w) => BindingAt(w) # b

SliceRowFree(s) == \A w \in Workers : Executing(w) => wk[w].slice # s

Ready(s) ==
  /\ s \notin failed
  /\ slice[s].status \in {"PENDING", "RETRY_WAIT"} /\ slice[s].at <= now
  /\ cap[BindingOf[s]] \notin Blocked /\ BindingRowFree(BindingOf[s])

\* Which of the ready slices is left open: their priorities are CollectQueue's.
Claim(w, s) ==
  /\ wk[w].pc = "idle" /\ Ready(s)
  /\ slice' = [slice EXCEPT ![s].status = "RUNNING", ![s].at = now + Lease,
                            ![s].attempts = @ + 1]
  /\ wk' = [wk EXCEPT ![w] = [Idle EXCEPT !.pc = "claimed", !.slice = s,
                                          !.claim = slice[s].attempts + 1]]
  /\ UNCHANGED <<now, limit, cap, failed, window, counts>>

\* recover_expired_claims, in a poll of a worker that has nothing to do.  The
\* task becomes PARTIAL.
Expired(s) ==
  /\ slice[s].status = "RUNNING" /\ slice[s].at <= now
  /\ SliceRowFree(s)
Held(s) == \E w \in Workers : Holds(w, s)
Recover(s) ==
  /\ Expired(s)
  /\ \E w \in Workers : wk[w].pc = "idle"
  /\ slice' = [slice EXCEPT ![s].status = "RETRY_WAIT", ![s].at = now]
  /\ failed' = failed \ {s}
  /\ IF Held(s) THEN MoreTroubles /\ late < MaxLate /\ late' = late + 1 ELSE UNCHANGED late
  /\ UNCHANGED <<now, limit, cap, wk, window, crashes, requests>>

\* The execution transaction reads the slice and the binding, and goes by these
\* copies until it ends.
Load(w) ==
  /\ wk[w].pc = "claimed"
  /\ wk' = [wk EXCEPT ![w].pc = "loaded", ![w].att = slice[wk[w].slice].attempts,
                      ![w].limit = limit[BindingAt(w)], ![w].cap = cap[BindingAt(w)]]
  /\ UNCHANGED <<now, limit, cap, slice, failed, window, counts>>

\* The attempt is inserted, under a number no other open transaction inserts.
Open(w) ==
  /\ wk[w].pc = "loaded"
  /\ \A v \in Workers \ {w} :
       Executing(v) /\ wk[v].slice = wk[w].slice => wk[v].att # wk[w].att
  /\ wk' = [wk EXCEPT ![w].pc = "acquiring", ![w].since = now]
  /\ UNCHANGED <<now, limit, cap, slice, failed, window, counts>>

\* An exception in the transaction, a unique key that another worker's run or
\* attempt has taken among them: it is rolled back.
Raise(w) ==
  /\ wk[w].pc \in {"claimed", "loaded", "calling"}
  /\ wk' = [wk EXCEPT ![w].pc = "failing"]
  /\ UNCHANGED <<now, limit, cap, slice, failed, window, counts>>

\* fail_claim_after_unhandled: nothing without the lease.
FailClaim(w) ==
  LET s == wk[w].slice
  IN /\ wk[w].pc = "failing"
     /\ IF Holds(w, s)
        THEN /\ SliceRowFree(s)
             /\ slice' = [slice EXCEPT ![s].status = "FAILED", ![s].at = 0]
             /\ failed' = failed \cup {s}
        ELSE UNCHANGED <<slice, failed>>
     /\ wk' = [wk EXCEPT ![w] = Idle]
     /\ UNCHANGED <<now, limit, cap, window, counts>>

-----------------------------------------------------------------------------
(***************************************************************************)
(* LocalRateLimiter.acquire: each pass of its loop holds the lock.         *)
(***************************************************************************)
\* acquire returns, and its times with it.
Acquired(w) == [wk EXCEPT ![w].pc = "calling", ![w].since = 0]

\* No limit: the window is neither read nor extended.
PassUnlimited(w) ==
  /\ wk[w].pc = "acquiring" /\ wk[w].limit = 0
  /\ wk' = Acquired(w)
  /\ UNCHANGED <<now, limit, cap, slice, failed, window, counts>>

Calls(w) == log[Key(w)]

\* popleft while window[0] <= now - 60: where the deque begins afterwards.
\* mutant: a call is dropped a second early
PoppedEarly(calls, h, n) ==
  /\ \A i \in h .. n - 1 : calls[i].at <= now - Period + 1
  /\ n \in DOMAIN calls => calls[n].at > now - Period + 1
\* mutant: the window is never emptied
PoppedNever(calls, h, n) == n = h
Popped(calls, h, n) ==
  /\ \A i \in h .. n - 1 : calls[i].at <= now - Period
  /\ n \in DOMAIN calls => calls[n].at > now - Period
Heads(w) == {n \in head[Key(w)] .. Len(Calls(w)) + 1 : Popped(Calls(w), head[Key(w)], n)}

\* mutant: a call more than the limit has room
RoomForOneMore(w, n) == Len(Calls(w)) - n + 1 <= wk[w].limit
HasRoom(w, n) == Len(Calls(w)) - n + 1 < wk[w].limit

Grant(w) ==
  /\ wk[w].pc = "acquiring" /\ wk[w].limit > 0
  /\ \E n \in Heads(w) : HasRoom(w, n) /\ head' = [head EXCEPT ![Key(w)] = n]
  /\ log' = [log EXCEPT ![Key(w)] = Append(@, [at |-> now, limit |-> wk[w].limit])]
  /\ wk' = Acquired(w)
  /\ UNCHANGED <<now, limit, cap, slice, failed, counts>>

\* wait_for: until the oldest call of the window is 60 seconds old
\* mutant: and a second more
UntilPadded(w, n) == Calls(w)[n].at + Period + 1
UntilOldest(w, n) == Calls(w)[n].at + Period

Wait(w) ==
  /\ wk[w].pc = "acquiring" /\ wk[w].limit > 0
  /\ \E n \in Heads(w) :
       /\ ~HasRoom(w, n)
       /\ head' = [head EXCEPT ![Key(w)] = n]
       /\ wk' = [wk EXCEPT ![w].pc = "sleeping", ![w].until = UntilOldest(w, n)]
  /\ UNCHANGED <<now, limit, cap, slice, failed, log, counts>>

Wake(w) ==
  /\ wk[w].pc = "sleeping" /\ wk[w].until <= now
  /\ wk' = [wk EXCEPT ![w].pc = "acquiring", ![w].until = 0]
  /\ UNCHANGED <<now, limit, cap, slice, failed, window, counts>>

-----------------------------------------------------------------------------
(***************************************************************************)
(* The answer, and the commit of the execution transaction.                *)
(***************************************************************************)
\* The column is written only if it differs from the copy that was loaded.
Observed(w, outcome) ==
  LET after == CapabilityAfter(outcome, wk[w].cap)
  IN IF after = wk[w].cap THEN cap ELSE [cap EXCEPT ![BindingAt(w)] = after]

\* mutant: a retryable failure is retried for ever
RetryAlways(w, outcome) == outcome \in Retryable
Retries(w, outcome) == outcome \in Retryable /\ wk[w].att < MaxAttempts

\* complete_slice, release_slice_for_retry or fail_slice: nothing without the lease.
Settled(w, outcome) ==
  LET s == wk[w].slice
  IN IF ~Holds(w, s) THEN slice
     ELSE [slice EXCEPT
             ![s].status = IF outcome = "OK" THEN "SUCCEEDED"
                           ELSE IF Retries(w, outcome) THEN "RETRY_WAIT" ELSE "FAILED",
             ![s].at = IF Retries(w, outcome) THEN now + Backoff(wk[w].att) ELSE 0]

\* The task is written with or without the lease: FAILED by a final failure,
\* RUNNING or SUCCEEDED by another outcome, and only if that differs from the
\* copy, which depends on the runs.
TaskAfter(w, outcome) ==
  IF outcome = "OK" \/ Retries(w, outcome)
  THEN {failed, failed \ {wk[w].slice}} ELSE {failed, failed \cup {wk[w].slice}}

Answered(w, a) ==
  LET outcome == Outcome(wk[w].slice, a)
  IN /\ wk[w].pc = "calling"
     /\ slice' = Settled(w, outcome)
     /\ failed' \in TaskAfter(w, outcome)
     /\ cap' = Observed(w, outcome)
     /\ wk' = [wk EXCEPT ![w] = Idle]
     /\ UNCHANGED <<now, limit, window, counts>>

-----------------------------------------------------------------------------
(***************************************************************************)
(* Deaths, the operator, the clock.                                        *)
(***************************************************************************)
\* The process starts again, with an empty window.
Crash(w) ==
  /\ MoreTroubles /\ crashes < MaxCrashes /\ crashes' = crashes + 1
  /\ wk' = [wk EXCEPT ![w] = Idle]
  /\ log' = [c \in Workers \X Bindings |-> IF c[1] = w THEN <<>> ELSE log[c]]
  /\ head' = [c \in Workers \X Bindings |-> IF c[1] = w THEN 1 ELSE head[c]]
  /\ UNCHANGED <<now, limit, cap, slice, failed, requests, late>>

Requested ==
  /\ MoreTroubles /\ requests < MaxRequests /\ requests' = requests + 1
  /\ UNCHANGED <<now, wk, window, crashes, late>>

SetLimit(b, n) ==
  Requested /\ limit' = [limit EXCEPT ![b] = n] /\ UNCHANGED <<cap, slice, failed>>

\* probe_binding asks the provider past every limiter.
Probe(b, a) ==
  Requested /\ cap' = [cap EXCEPT ![b] = ProbeStatus(a)] /\ UNCHANGED <<limit, slice, failed>>

\* retry_task leaves attempt_count as it is.
Retry(s) ==
  /\ slice[s].status = "FAILED"
  /\ Requested
  /\ slice' = [slice EXCEPT ![s].status = "PENDING", ![s].at = 0]
  /\ failed' = failed \ {s}
  /\ UNCHANGED <<limit, cap>>

\* Time passes while something waits for it.
Waits ==
  \/ \E w \in Workers : wk[w].pc = "sleeping" /\ wk[w].until > now
  \/ \E s \in Slices : slice[s].status \in {"RUNNING", "RETRY_WAIT"} /\ slice[s].at > now
Tick ==
  /\ Waits
  /\ now' = now + 1
  /\ UNCHANGED <<limit, cap, slice, failed, wk, window, counts>>

WorkerStep(w) ==
  \/ \E s \in Slices : Claim(w, s)
  \/ Load(w) \/ Open(w) \/ FailClaim(w)
  \/ PassUnlimited(w) \/ Grant(w) \/ Wait(w) \/ Wake(w)
  \/ \E a \in Answers : Answered(w, a)

Next ==
  \/ \E w \in Workers : WorkerStep(w) \/ Raise(w) \/ Crash(w)
  \/ \E s \in Slices : Recover(s) \/ Retry(s)
  \/ \E b \in Bindings : \/ \E n \in Limits : SetLimit(b, n)
                         \/ \E a \in Answers : Probe(b, a)
  \/ Tick

Spec == Init /\ [][Next]_vars

\* Workers go on unless they die, each of their polls recovers what has expired,
\* the provider answers at last, and time passes.
Fairness ==
  /\ \A w \in Workers : WF_vars(WorkerStep(w))
  /\ \A s \in Slices : SF_vars(Recover(s))
  /\ WF_vars(Tick)
FairSpec == Spec /\ Fairness

-----------------------------------------------------------------------------
(***************************************************************************)
(* Properties.                                                             *)
(***************************************************************************)
\* A process makes no more calls of a binding in a Period than the limit that
\* held for the last of them, whatever limits were set in between: the limiter
\* forgets only calls that are a Period old, and looks again after each sleep.
RateKept ==
  \A c \in Workers \X Bindings : \A i \in DOMAIN log[c] :
    i > log[c][i].limit => log[c][i].at - log[c][i - log[c][i].limit].at >= Period

\* A worker sleeps at most a Period for one call, in all its sleeps, even if
\* the limit was lowered with more calls in the window than it now allows: the
\* whole window expires within a Period and nobody else extends it.
SlotWithinPeriod ==
  \A w \in Workers : wk[w].pc = "sleeping" => wk[w].until <= wk[w].since + Period

\* However answers, deaths, expired leases and requests follow each other, a
\* slice is claimed at most MaxAttempts times, and once more for each death,
\* each request and each lease that ran out while its worker lived.
ClaimsBounded ==
  \A s \in Slices : slice[s].attempts <= MaxAttempts + crashes + late + requests

\* The limiters keep the promise of CallBudget.
Budget == INSTANCE CallBudget WITH Callers <- Workers \X Bindings, Limits <- Limits \ {0}
KeepsBudget == Budget!Spec

\* Every slice is collected or given up at last, or its binding is blocked, or
\* its task was failed by a worker that had lost the lease: no order of answers,
\* deaths, expired leases and waits leaves one claimed, sleeping or waiting for
\* ever.
SliceSettles ==
  \A s \in Slices :
    [](slice[s].status \in {"PENDING", "RUNNING", "RETRY_WAIT"} =>
         <>(\/ slice[s].status \in {"SUCCEEDED", "FAILED"}
            \/ cap[BindingOf[s]] \in Blocked \/ s \in failed))
=============================================================================
