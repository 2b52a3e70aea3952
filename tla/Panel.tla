------------------------------- MODULE Panel --------------------------------
(***************************************************************************)
(* The panel library: panel_query checks every model, fans the requests    *)
(* out to a pool of worker threads, each of which calls its provider       *)
(* through the shared throttle and the retry loop, and the main thread     *)
(* collects the results in submission order and writes one record each.    *)
(*                                                                         *)
(* Time is counted in ticks.  Instead of timestamps the throttle's deques  *)
(* hold ages, which Tick advances and which saturate just past the window: *)
(* nothing in throttle.py tells older events apart.                        *)
(***************************************************************************)
EXTENDS Naturals, Sequences, FiniteSets, FiniteSetsExt

CONSTANTS
  N,                  \* requests of the batch, in submission order 1..N
  Estimate,           \* [1..N -> Nat]: estimate_tokens(prompt)
  UnknownModel,       \* requests whose model no adapter is registered for
  Options,            \* the max_rps, max_tpm and max_workers callers pass
  RpsWindow,          \* ticks in the 1-second window
  TpmWindow,          \* ticks in the 60-second window
  RateLimitAttempts,  \* RATE_LIMIT_ATTEMPTS
  TransientAttempts,  \* TRANSIENT_ATTEMPTS
  None,               \* Python's None: no bound, no result
  BackoffCap          \* BACKOFF_CAP_SECONDS, in units of BACKOFF_BASE_SECONDS

Request == 1..N
Bound == Nat \cup {None}

ASSUME PanelConstants ==
  /\ None \notin Nat \cup {"answer", "exhausted", "non_retryable"}
  /\ N \in Nat /\ UnknownModel \subseteq Request
  /\ Estimate \in [Request -> Nat \ {0}]
  /\ Options \subseteq [max_rps : Bound, max_tpm : Bound, max_workers : Nat \ {0}]
  /\ {RpsWindow, TpmWindow, RateLimitAttempts, TransientAttempts, BackoffCap}
      \subseteq Nat \ {0}

VARIABLES
  main,      \* panel_query: "validate", "collect", "record", "returned" or "raised"
  req,       \* req[r]: the worker of r, and its meta entry once done
  options,   \* the options of this batch
  calls,     \* Throttle._calls: ages, oldest first
  tokens,    \* Throttle._tokens: ages and estimates, oldest first
  records,   \* records written, in order
  provider,  \* history: provider[r], how often the adapter was invoked for r
  admitted   \* history: what was admitted within the larger window

vars == <<main, req, options, calls, tokens, records, provider, admitted>>
throttle == <<options, calls, tokens, admitted>>

Phase == {"unsubmitted", "queued", "acquire", "throttled", "invoke", "backoff", "done"}
Result == {None, "answer", "exhausted", "non_retryable"}

Idle == [pc |-> "unsubmitted", sleep |-> 0, rate_limit_used |-> 0,
         transient_used |-> 0, attempts |-> 0, result |-> None, meta |-> 0]

Init ==
  /\ main = "validate"
  /\ req = [r \in Request |-> Idle]
  /\ options \in Options
  /\ calls = <<>> /\ tokens = <<>> /\ records = <<>> /\ admitted = <<>>
  /\ provider = [r \in Request |-> 0]
-----------------------------------------------------------------------------
(***************************************************************************)
(* panel_query and fan_out.                                                *)
(***************************************************************************)
\* Every model is resolved and every adapter built before a worker starts;
\* either may raise (ValueError, a missing API key).
Reject ==
  /\ main = "validate" /\ main' = "raised"
  /\ UNCHANGED <<req, throttle, records, provider>>

Submit ==
  /\ main = "validate" /\ UnknownModel = {}
  /\ main' = IF N = 0 THEN "returned" ELSE "collect"
  /\ req' = [r \in Request |-> [Idle EXCEPT !.pc = "queued"]]
  /\ UNCHANGED <<throttle, records, provider>>

Busy == {r \in Request : req[r].pc \in {"acquire", "throttled", "invoke", "backoff"}}
Done(r) == req[r].pc = "done"

\* The pool takes submissions in order; call_once counts an attempt first.
Start(r) ==
  /\ req[r].pc = "queued"
  /\ \A q \in Request : req[q].pc = "queued" => r <= q
  /\ Cardinality(Busy) < options.max_workers
  /\ req' = [req EXCEPT ![r].pc = "acquire", ![r].attempts = 1]
  /\ UNCHANGED <<main, throttle, records, provider>>

CollectFirst ==
  /\ main = "collect" /\ Done(1)
  /\ main' = "record"
  /\ UNCHANGED <<req, throttle, records, provider>>
\* future.result() of every request, and the pool's shutdown.
Collect ==
  /\ main = "collect" /\ \A r \in Request : Done(r)
  /\ main' = "record"
  /\ UNCHANGED <<req, throttle, records, provider>>

\* The main thread writes the records in submission order.
WriteRecord ==
  LET r == Len(records) + 1 IN
  /\ main = "record" /\ r \in Request
  /\ records' = Append(records, [request |-> r, attempts |-> req[r].meta,
                                 result |-> req[r].result])
  /\ UNCHANGED <<main, req, throttle, provider>>

\* A write that raises takes the results of the whole batch with it.
WriteFails ==
  /\ main = "record" /\ Len(records) < N
  /\ main' = "raised"
  /\ UNCHANGED <<req, throttle, records, provider>>

\* Without a record_writer nothing is written.
Return ==
  /\ main = "record" /\ Len(records) \in {0, N}
  /\ main' = "returned"
  /\ UNCHANGED <<req, throttle, records, provider>>
-----------------------------------------------------------------------------
(***************************************************************************)
(* Throttle.acquire: the body of the loop runs under the lock, the sleep   *)
(* outside it.                                                             *)
(***************************************************************************)
\* The tokens of the first i events of a log.
TokenSums(log) ==
  LET sum[i \in 0..Len(log)] == IF i = 0 THEN 0 ELSE sum[i - 1] + log[i].tokens
  IN  sum
TokenSum(log) == TokenSums(log)[Len(log)]

\* _prune: popleft until the first event that is not strictly older than its
\* window.
Since(log, live) == IF live = {} THEN <<>> ELSE SubSeq(log, Min(live), Len(log))
PrunedCalls == Since(calls, {i \in DOMAIN calls : calls[i] <= RpsWindow})
PrunedTokens == Since(tokens, {i \in DOMAIN tokens : tokens[i].age <= TpmWindow})

RpsFull == options.max_rps # None /\ Len(PrunedCalls) >= options.max_rps
TpmFullForAny(r) ==
  options.max_tpm # None /\ TokenSum(PrunedTokens) + Estimate[r] > options.max_tpm
TpmFull(r) ==
  /\ options.max_tpm # None
  /\ Estimate[r] <= options.max_tpm
  /\ TokenSum(PrunedTokens) + Estimate[r] > options.max_tpm
Oversize(r) == options.max_tpm # None /\ Estimate[r] > options.max_tpm

\* How long until the oldest event is strictly out of its window.
Until(window, age) == window + 1 - age
WaitNeeded(r) ==
  LET rps == IF RpsFull THEN Until(RpsWindow, PrunedCalls[1]) ELSE 0
      tpm == IF ~TpmFull(r) THEN 0
             ELSE IF PrunedTokens = <<>> THEN Until(TpmWindow, 0)
             ELSE Until(TpmWindow, PrunedTokens[1].age)
  IN  IF rps > tpm THEN rps ELSE tpm

\* max_rps = 0 looks at the oldest of no calls and raises IndexError, which
\* the retry loop does not retry.
Unanswerable == RpsFull /\ PrunedCalls = <<>>

Ended(r, result, meta) ==
  req' = [req EXCEPT ![r].pc = "done", ![r].result = result, ![r].meta = meta]

Admit(r) ==
  /\ calls' = Append(PrunedCalls, 0)
  /\ tokens' = Append(PrunedTokens, [age |-> 0, tokens |-> Estimate[r]])
  /\ admitted' = Append(admitted, [age |-> 0, tokens |-> Estimate[r],
                                   oversize |-> Oversize(r)])
  /\ req' = [req EXCEPT ![r].pc = "invoke"]
  /\ UNCHANGED options

Acquire(r) ==
  /\ req[r].pc = "acquire"
  /\ \/ /\ Unanswerable
        /\ calls' = PrunedCalls /\ tokens' = PrunedTokens
        /\ Ended(r, "non_retryable", 1)
        /\ UNCHANGED <<options, admitted>>
     \/ /\ ~Unanswerable /\ WaitNeeded(r) > 0
        /\ calls' = PrunedCalls /\ tokens' = PrunedTokens
        /\ req' = [req EXCEPT ![r].pc = "throttled", ![r].sleep = WaitNeeded(r)]
        /\ UNCHANGED <<options, admitted>>
     \/ ~Unanswerable /\ WaitNeeded(r) = 0 /\ Admit(r)
  /\ UNCHANGED <<main, records, provider>>

\* The sleeper has slept at least its wait: it takes the lock and looks again.
WakeAdmits(r) ==
  /\ req[r].pc = "throttled" /\ req[r].sleep = 0
  /\ Admit(r)
  /\ UNCHANGED <<main, records, provider>>
Wake(r) ==
  /\ req[r].pc = "throttled" /\ req[r].sleep = 0
  /\ req' = [req EXCEPT ![r].pc = "acquire"]
  /\ UNCHANGED <<main, throttle, records, provider>>
-----------------------------------------------------------------------------
(***************************************************************************)
(* retry_with_backoff around adapter.invoke.                               *)
(***************************************************************************)
BackoffDelay(n) == IF 2^(n - 1) < BackoffCap THEN 2^(n - 1) ELSE BackoffCap

\* The provider call returns or raises; the adapter made it RateLimitError,
\* TransientError or something else.
Called(r) ==
  /\ req[r].pc = "invoke"
  /\ provider' = [provider EXCEPT ![r] = @ + 1]
  /\ UNCHANGED <<main, throttle, records>>

Succeeds(r) == Called(r) /\ Ended(r, "answer", req[r].attempts)

Raises(r) == Called(r) /\ Ended(r, "non_retryable", 1)

BudgetSpentLate(used, budget) == used > budget
BudgetSpent(used, budget) == used >= budget

\* One more error of a retryable kind: the budget of that kind decides.
Retry(r, used, budget) ==
  IF BudgetSpent(used, budget)
  THEN [req[r] EXCEPT !.pc = "done", !.result = "exhausted", !.meta = req[r].attempts]
  ELSE [req[r] EXCEPT !.pc = "backoff", !.sleep = BackoffDelay(req[r].attempts)]

RateLimited(r) ==
  LET used == req[r].rate_limit_used + 1 IN
  /\ Called(r)
  /\ req' = [req EXCEPT ![r] = [Retry(r, used, RateLimitAttempts)
                                EXCEPT !.rate_limit_used = used]]

FailsTransiently(r) ==
  LET used == req[r].transient_used + 1 IN
  /\ Called(r)
  /\ req' = [req EXCEPT ![r] = [Retry(r, used, TransientAttempts)
                                EXCEPT !.transient_used = used]]

\* The next attempt goes through the throttle again.
BackoffOver(r) ==
  /\ req[r].pc = "backoff" /\ req[r].sleep = 0
  /\ req' = [req EXCEPT ![r].pc = "acquire", ![r].attempts = @ + 1]
  /\ UNCHANGED <<main, throttle, records, provider>>

\* Time passes for the throttle's windows and for every sleeper.
Older(age, window) == IF age > window THEN age ELSE age + 1
Tick ==
  /\ calls' = [i \in DOMAIN calls |-> Older(calls[i], RpsWindow)]
  /\ tokens' = [i \in DOMAIN tokens |->
                  [tokens[i] EXCEPT !.age = Older(@, TpmWindow)]]
  /\ admitted' = Since([i \in DOMAIN admitted |-> [admitted[i] EXCEPT !.age = @ + 1]],
                       {i \in DOMAIN admitted : admitted[i].age + 1 <= TpmWindow})
  /\ req' = [r \in Request |-> [req[r] EXCEPT !.sleep = IF @ = 0 THEN 0 ELSE @ - 1]]
  /\ <<calls, tokens, admitted, req>>' # <<calls, tokens, admitted, req>>
  /\ UNCHANGED <<main, options, records, provider>>
-----------------------------------------------------------------------------
Worker(r) ==
  \/ Start(r) \/ Acquire(r) \/ Wake(r) \/ BackoffOver(r)
  \/ Succeeds(r) \/ Raises(r) \/ RateLimited(r) \/ FailsTransiently(r)

MainThread == Reject \/ Submit \/ Collect \/ WriteRecord \/ WriteFails \/ Return

Next == MainThread \/ Tick \/ \E r \in Request : Worker(r)

Spec == Init /\ [][Next]_vars

(***************************************************************************)
(* Time passes, and every thread that can run runs.  The provider's answer *)
(* is a step of the worker: the adapters' SDK clients have timeouts.       *)
(***************************************************************************)
FairSpec ==
  Spec /\ WF_vars(MainThread) /\ WF_vars(Tick) /\ \A r \in Request : WF_vars(Worker(r))
-----------------------------------------------------------------------------
MaxCalls == RateLimitAttempts + TransientAttempts - 1
Ages(window) == 0..window + 1
MaxSleep == BackoffCap + TpmWindow + RpsWindow + 1

TypeOK ==
  /\ main \in {"validate", "collect", "record", "returned", "raised"}
  /\ req \in [Request -> [pc : Phase, sleep : 0..MaxSleep,
                          rate_limit_used : 0..RateLimitAttempts,
                          transient_used : 0..TransientAttempts,
                          attempts : 0..MaxCalls, result : Result, meta : 0..MaxCalls]]
  /\ options \in Options
  /\ calls \in Seq(Ages(RpsWindow))
  /\ tokens \in Seq([age : Ages(TpmWindow), tokens : Nat])
  /\ records \in Seq([request : Request, attempts : 0..MaxCalls, result : Result])
  /\ provider \in [Request -> 0..MaxCalls]
  /\ Len(records) <= N

\* However the workers wake up, no window ever holds more calls than max_rps,
\* and whenever a call fits max_tpm at all, it was admitted only with all that
\* was admitted before it in the window still under max_tpm
\* (Throttle.acquire checks and records under one lock, and checks again after
\* every sleep).
WindowsRespected ==
  LET recent == {i \in DOMAIN admitted : admitted[i].age <= RpsWindow} IN
  /\ options.max_rps # None => Cardinality(recent) <= options.max_rps
  /\ options.max_tpm # None =>
       \A i \in DOMAIN admitted :
         admitted[i].oversize \/ TokenSums(admitted)[i] <= options.max_tpm

\* The two budgets are independent but bounded together: a request costs the
\* provider at most one call less than both budgets, and it is given up only
\* when one of them is spent (retry_with_backoff).
BudgetsRespected ==
  \A r \in Request :
    /\ provider[r] <= RateLimitAttempts + TransientAttempts - 1
    /\ req[r].result = "exhausted" <=>
         \/ req[r].rate_limit_used = RateLimitAttempts
         \/ req[r].transient_used = TransientAttempts

\* When panel_query has collected, every request has a result, and what is
\* on file is a prefix of the batch in submission order whose attempts are
\* the provider calls made, for answered and for exhausted requests.
RecordsTellTheTruth ==
  /\ main \in {"record", "returned"} => \A r \in Request : req[r].result # None
  /\ \A i \in DOMAIN records :
       /\ records[i].request = i
       /\ records[i].result \in {"answer", "exhausted"} => records[i].attempts = provider[i]

\* panel_query returns or raises: no wait of a worker is for ever, however
\* large a prompt and however small the options.
PanelReturns == main = "collect" ~> main \in {"returned", "raised"}

\* What record.py says of the field: "number of provider call attempts made".
AttemptsAreProviderCalls ==
  \A i \in DOMAIN records : records[i].attempts = provider[records[i].request]
=============================================================================
