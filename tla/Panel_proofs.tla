---------------------------- MODULE Panel_proofs ----------------------------
(***************************************************************************)
(* The panel library, for any batch, any options, any windows and any      *)
(* retry budgets.                                                          *)
(*                                                                         *)
(*   Types     what every variable ranges over;                            *)
(*   Spent     how a worker's counters, its place in the retry loop and    *)
(*             the provider calls made for it hang together: from it the   *)
(*             budgets and the truth of the records follow;                *)
(*   Aligned   how the throttle's two deques and what was really admitted  *)
(*             hang together: from it the windows follow.                  *)
(***************************************************************************)
EXTENDS Panel, Sequences, Induction

-----------------------------------------------------------------------------
InAttempt == {"acquire", "throttled", "invoke"}

ReqRecord == [pc : Phase, sleep : Int, rate_limit_used : Nat, transient_used : Nat,
              attempts : Nat, result : Result, meta : Nat]

Types ==
  /\ main \in {"validate", "collect", "record", "returned", "raised"}
  /\ req \in [Request -> ReqRecord]
  /\ options \in Options
  /\ calls \in Seq(Nat)
  /\ tokens \in Seq([age : Nat, tokens : Nat])
  /\ admitted \in Seq([age : Nat, tokens : Nat, oversize : BOOLEAN])
  /\ records \in Seq([request : Request, attempts : Nat, result : Result])
  /\ provider \in [Request -> Nat]

Spent(r) ==
  LET q == req[r]
      used == q.rate_limit_used + q.transient_used
  IN
  /\ q.pc # "done" =>
       /\ provider[r] = used
       /\ q.rate_limit_used < RateLimitAttempts
       /\ q.transient_used < TransientAttempts
       /\ q.result = None
  /\ q.pc \in {"unsubmitted", "queued"} => used = 0
  /\ q.pc \in InAttempt => q.attempts = used + 1
  /\ q.pc = "backoff" => q.attempts = used
  /\ q.pc = "done" =>
       /\ provider[r] <= RateLimitAttempts + TransientAttempts - 1
       /\ q.result # None
       /\ q.result = "exhausted" <=> \/ q.rate_limit_used = RateLimitAttempts
                                     \/ q.transient_used = TransientAttempts
       /\ q.result \in {"answer", "exhausted"} => q.meta = provider[r]

Filed ==
  /\ main = "validate" => records = <<>> /\ \A r \in Request : req[r].pc = "unsubmitted"
  /\ main \in {"record", "returned"} => \A r \in Request : Done(r)
  /\ \A i \in DOMAIN records :
       /\ i \in Request /\ Done(i)
       /\ records[i] = [request |-> i, attempts |-> req[i].meta, result |-> req[i].result]

BatchInv == Filed /\ \A r \in Request : Spent(r)

\* _calls is never longer than max_rps, and its tail is what was admitted
\* within the window, with the ages it really has.
CallsAligned ==
  /\ options.max_rps # None => Len(calls) <= options.max_rps
  /\ \A i \in DOMAIN admitted :
       LET k == Len(calls) - Len(admitted) + i IN
       admitted[i].age <= RpsWindow => k >= 1 /\ calls[k] = admitted[i].age

\* _tokens ends with everything admitted within the window.
TokensAligned ==
  /\ Len(admitted) <= Len(tokens)
  /\ \A i \in DOMAIN admitted :
       LET k == Len(tokens) - Len(admitted) + i IN
       tokens[k].age = admitted[i].age /\ tokens[k].tokens = admitted[i].tokens

\* What was admitted within the window, oldest first, and the budget it kept.
AdmittedInOrder ==
  /\ \A i \in DOMAIN admitted : admitted[i].age <= TpmWindow
  /\ \A i, j \in DOMAIN admitted : i <= j => admitted[j].age <= admitted[i].age
WithinTpm ==
  options.max_tpm # None =>
    \A i \in DOMAIN admitted :
      admitted[i].oversize \/ TokenSums(admitted)[i] <= options.max_tpm

ThrottleInv == CallsAligned /\ TokensAligned /\ AdmittedInOrder /\ WithinTpm
-----------------------------------------------------------------------------
(***************************************************************************)
(* Pruning.                                                                *)
(***************************************************************************)
\* Since keeps the log from the least live index on.
LEMMA SinceKeeps ==
  ASSUME NEW S, NEW log \in Seq(S), NEW live \in SUBSET (1..Len(log))
  PROVE  /\ Since(log, live) \in Seq(S)
         /\ Len(Since(log, live)) <= Len(log)
         /\ live = {} => Since(log, live) = <<>>
         /\ live # {} =>
              \E m \in live :
                /\ \A i \in live : m <= i
                /\ Len(Since(log, live)) = Len(log) - m + 1
                /\ \A j \in 1..(Len(log) - m + 1) : Since(log, live)[j] = log[m + j - 1]
  <1>1. CASE live = {}
    BY <1>1 DEF Since
  <1>2. CASE live # {}
    <2>1. \E m \in live : \A i \in live : m <= i
      BY <1>2, LeastElement
    <2>2. Min(live) \in live /\ \A i \in live : Min(live) <= i
      BY <2>1 DEF Min
    <2>3. Since(log, live) = SubSeq(log, Min(live), Len(log))
      BY <1>2 DEF Since
    <2>4. PICK first \in live : first = Min(live) /\ first \in 1..Len(log)
      BY <2>2
    <2>5. /\ SubSeq(log, first, Len(log)) \in Seq(S)
          /\ Len(SubSeq(log, first, Len(log))) = Len(log) - first + 1
          /\ \A j \in 1..(Len(log) - first + 1) :
               SubSeq(log, first, Len(log))[j] = log[first + j - 1]
      BY <2>4
    <2>6. Since(log, live) = SubSeq(log, first, Len(log))
      BY <2>3, <2>4
    <2>7. /\ \A i \in live : first <= i
          /\ Len(Since(log, live)) = Len(log) - first + 1
          /\ \A j \in 1..(Len(log) - first + 1) : Since(log, live)[j] = log[first + j - 1]
      BY <2>2, <2>4, <2>5, <2>6
    <2>8. Since(log, live) \in Seq(S) /\ Len(Since(log, live)) <= Len(log)
      BY <2>4, <2>5, <2>6
    <2> QED BY <1>2, <2>7, <2>8
  <1> QED BY <1>1, <1>2

\* A sequence that is not empty has a first element.
LEMMA FirstOf ==
  ASSUME NEW S, NEW s \in Seq(S), s # <<>>
  PROVE  Len(s) > 0 /\ s[1] \in S
  OBVIOUS

\* A sequence holds elements of its type.
LEMMA ElementTyped ==
  ASSUME NEW S, NEW s \in Seq(S), NEW i \in DOMAIN s
  PROVE  s[i] \in S
  OBVIOUS

\* A sequence grown by one element.
LEMMA AppendTyped ==
  ASSUME NEW S, NEW s \in Seq(S), NEW e \in S
  PROVE  Append(s, e) \in Seq(S)
  OBVIOUS

\* A sequence rebuilt element by element.
LEMMA MapTyped ==
  ASSUME NEW S, NEW T, NEW s \in Seq(S), NEW f \in [DOMAIN s -> T]
  PROVE  f \in Seq(T) /\ Len(f) = Len(s) /\ DOMAIN f = DOMAIN s
  OBVIOUS

\* What is left of the deques after _prune.
LEMMA PrunedTypes ==
  ASSUME Types
  PROVE  PrunedCalls \in Seq(Nat) /\ PrunedTokens \in Seq([age : Nat, tokens : Nat])
  <1>1. calls \in Seq(Nat) /\ tokens \in Seq([age : Nat, tokens : Nat])
    BY DEF Types
  <1>2. /\ {i \in DOMAIN calls : calls[i] <= RpsWindow} \in SUBSET (1..Len(calls))
        /\ {i \in DOMAIN tokens : tokens[i].age <= TpmWindow} \in SUBSET (1..Len(tokens))
    BY <1>1
  <1>3. PrunedCalls \in Seq(Nat)
    BY <1>1, <1>2, SinceKeeps DEF PrunedCalls
  <1>4. PrunedTokens \in Seq([age : Nat, tokens : Nat])
    BY <1>1, <1>2, SinceKeeps DEF PrunedTokens
  <1> QED BY <1>3, <1>4

\* How long a worker is told to sleep is a number.
LEMMA WaitIsInteger ==
  ASSUME Types, NEW r \in Request, ~Unanswerable
  PROVE  WaitNeeded(r) \in Int
  <1>1. RpsFull => PrunedCalls[1] \in Nat
    BY PrunedTypes DEF Unanswerable
  <1>2. PrunedTokens # <<>> => PrunedTokens[1].age \in Nat
    <2>1. PICK s \in Seq([age : Nat, tokens : Nat]) : s = PrunedTokens
      BY PrunedTypes
    <2>2. s # <<>> => s[1] \in [age : Nat, tokens : Nat]
      BY FirstOf
    <2> QED BY <2>1, <2>2
  <1>3. RpsWindow \in Nat /\ TpmWindow \in Nat
    BY PanelConstants
  <1>4. /\ RpsFull => Until(RpsWindow, PrunedCalls[1]) \in Int
        /\ PrunedTokens # <<>> => Until(TpmWindow, PrunedTokens[1].age) \in Int
        /\ Until(TpmWindow, 0) \in Int
    BY <1>1, <1>2, <1>3 DEF Until
  <1> DEFINE rps == IF RpsFull THEN Until(RpsWindow, PrunedCalls[1]) ELSE 0
             tpm == IF ~TpmFull(r) THEN 0
                    ELSE IF PrunedTokens = <<>> THEN Until(TpmWindow, 0)
                    ELSE Until(TpmWindow, PrunedTokens[1].age)
  <1>5. rps \in Int
    BY <1>4
  <1>6. tpm \in Int
    BY <1>4
  <1>7. WaitNeeded(r) = IF rps > tpm THEN rps ELSE tpm
    BY DEF WaitNeeded
  <1> HIDE DEF rps, tpm
  <1> QED BY <1>5, <1>6, <1>7

-----------------------------------------------------------------------------
(***************************************************************************)
(* What the steps of a worker do to its record, field by field.            *)
(***************************************************************************)
Turned(r, pc, limited, transient, attempts, result, meta) ==
  /\ req' \in [Request -> ReqRecord]
  /\ \A q \in Request \ {r} : req'[q] = req[q]
  /\ req'[r].pc = pc
  /\ req'[r].rate_limit_used = limited
  /\ req'[r].transient_used = transient
  /\ req'[r].attempts = attempts
  /\ req'[r].result = result
  /\ req'[r].meta = meta

\* A worker that only moves, with or without a sleep ahead of it.
LEMMA PlaceTurns ==
  ASSUME Types, NEW r \in Request, NEW pc \in Phase, NEW sleep \in Int,
         \/ req' = [req EXCEPT ![r].pc = pc]
         \/ req' = [req EXCEPT ![r].pc = pc, ![r].sleep = sleep]
  PROVE  Turned(r, pc, req[r].rate_limit_used, req[r].transient_used, req[r].attempts,
                req[r].result, req[r].meta)
  <1>1. req \in [Request -> ReqRecord]
    BY DEF Types
  <1> QED BY <1>1 DEF ReqRecord, Turned

\* A worker that begins an attempt.
LEMMA AttemptTurns ==
  ASSUME Types, NEW r \in Request, NEW n \in Nat,
         req' = [req EXCEPT ![r].pc = "acquire", ![r].attempts = n]
  PROVE  Turned(r, "acquire", req[r].rate_limit_used, req[r].transient_used, n,
                req[r].result, req[r].meta)
  <1>1. req \in [Request -> ReqRecord] /\ "acquire" \in Phase
    BY DEF Types, Phase
  <1> QED BY <1>1 DEF ReqRecord, Turned

\* A worker that is done.
LEMMA EndedTurns ==
  ASSUME Types, NEW r \in Request, NEW result \in Result, NEW meta \in Nat,
         Ended(r, result, meta)
  PROVE  Turned(r, "done", req[r].rate_limit_used, req[r].transient_used, req[r].attempts,
                result, meta)
  <1>1. req \in [Request -> ReqRecord] /\ "done" \in Phase
    BY DEF Types, Phase
  <1> QED BY <1>1 DEF ReqRecord, Turned, Ended

\* The backoff delay is a number.
LEMMA DelayIsInteger ==
  ASSUME NEW n \in Nat
  PROVE  BackoffDelay(n) \in Int
  <1>1. BackoffCap \in Int
    BY PanelConstants
  <1>2. 2^(n - 1) \in Int
    OBVIOUS
  <1> QED BY <1>1, <1>2 DEF BackoffDelay

\* The record of a retryable error, but for the counter of its kind.
LEMMA RetryRecord ==
  ASSUME Types, NEW r \in Request, NEW used \in Nat, NEW budget \in Nat
  PROVE  LET q == Retry(r, used, budget) IN
         /\ q \in ReqRecord
         /\ q.rate_limit_used = req[r].rate_limit_used
         /\ q.transient_used = req[r].transient_used
         /\ q.attempts = req[r].attempts
         /\ used >= budget =>
              q.pc = "done" /\ q.result = "exhausted" /\ q.meta = req[r].attempts
         /\ used < budget =>
              q.pc = "backoff" /\ q.result = req[r].result /\ q.meta = req[r].meta
  <1>1. req[r] \in ReqRecord
    BY DEF Types
  <1>2. {"done", "backoff"} \subseteq Phase /\ "exhausted" \in Result
    BY DEF Phase, Result
  <1>3. req[r].attempts \in Nat
    BY <1>1 DEF ReqRecord
  <1>4. PICK delay \in Int : delay = BackoffDelay(req[r].attempts)
    BY <1>3, DelayIsInteger
  <1>5. CASE used >= budget
    <2>1. Retry(r, used, budget) = [req[r] EXCEPT !.pc = "done", !.result = "exhausted",
                                                  !.meta = req[r].attempts]
      BY <1>5 DEF Retry, BudgetSpent
    <2>2. Retry(r, used, budget) \in ReqRecord
      BY <1>1, <1>2, <1>3, <2>1 DEF ReqRecord
    <2>3. /\ Retry(r, used, budget).pc = "done"
          /\ Retry(r, used, budget).result = "exhausted"
          /\ Retry(r, used, budget).meta = req[r].attempts
          /\ Retry(r, used, budget).rate_limit_used = req[r].rate_limit_used
          /\ Retry(r, used, budget).transient_used = req[r].transient_used
          /\ Retry(r, used, budget).attempts = req[r].attempts
      BY <1>1, <2>1 DEF ReqRecord
    <2> QED BY <1>5, <2>2, <2>3
  <1>6. CASE used < budget
    <2>1. Retry(r, used, budget) = [req[r] EXCEPT !.pc = "backoff", !.sleep = delay]
      BY <1>4, <1>6 DEF Retry, BudgetSpent
    <2>2. Retry(r, used, budget) \in ReqRecord
      BY <1>1, <1>2, <2>1 DEF ReqRecord
    <2>3. /\ Retry(r, used, budget).pc = "backoff"
          /\ Retry(r, used, budget).result = req[r].result
          /\ Retry(r, used, budget).meta = req[r].meta
          /\ Retry(r, used, budget).rate_limit_used = req[r].rate_limit_used
          /\ Retry(r, used, budget).transient_used = req[r].transient_used
          /\ Retry(r, used, budget).attempts = req[r].attempts
      BY <1>1, <2>1 DEF ReqRecord
    <2> QED BY <1>6, <2>2, <2>3
  <1> QED BY <1>5, <1>6

\* A retryable error: the counter of its kind goes up by one, and its budget
\* decides between another attempt and giving up.
LEMMA LimitedTurns ==
  ASSUME Types, NEW r \in Request, RateLimited(r)
  PROVE  LET used == req[r].rate_limit_used + 1 IN
         \/ /\ used >= RateLimitAttempts
            /\ Turned(r, "done", used, req[r].transient_used, req[r].attempts, "exhausted",
                      req[r].attempts)
         \/ /\ used < RateLimitAttempts
            /\ Turned(r, "backoff", used, req[r].transient_used, req[r].attempts,
                      req[r].result, req[r].meta)
  <1>1. req \in [Request -> ReqRecord]
    BY DEF Types
  <1>2. PICK used \in Nat : used = req[r].rate_limit_used + 1
    BY <1>1 DEF ReqRecord
  <1>3. RateLimitAttempts \in Nat
    BY PanelConstants
  <1>4. PICK q \in ReqRecord :
          /\ q = Retry(r, used, RateLimitAttempts)
          /\ q.transient_used = req[r].transient_used
          /\ q.attempts = req[r].attempts
          /\ used >= RateLimitAttempts =>
               q.pc = "done" /\ q.result = "exhausted" /\ q.meta = req[r].attempts
          /\ used < RateLimitAttempts =>
               q.pc = "backoff" /\ q.result = req[r].result /\ q.meta = req[r].meta
    BY <1>2, <1>3, RetryRecord
  <1>5. req' = [req EXCEPT ![r] = [q EXCEPT !.rate_limit_used = used]]
    BY <1>2, <1>4 DEF RateLimited
  <1>6. Turned(r, q.pc, used, q.transient_used, q.attempts, q.result, q.meta)
    BY <1>1, <1>2, <1>5 DEF ReqRecord, Turned
  <1> QED BY <1>2, <1>3, <1>4, <1>6

\* The same for the other kind.
LEMMA TransientTurns ==
  ASSUME Types, NEW r \in Request, FailsTransiently(r)
  PROVE  LET used == req[r].transient_used + 1 IN
         \/ /\ used >= TransientAttempts
            /\ Turned(r, "done", req[r].rate_limit_used, used, req[r].attempts, "exhausted",
                      req[r].attempts)
         \/ /\ used < TransientAttempts
            /\ Turned(r, "backoff", req[r].rate_limit_used, used, req[r].attempts,
                      req[r].result, req[r].meta)
  <1>1. req \in [Request -> ReqRecord]
    BY DEF Types
  <1>2. PICK used \in Nat : used = req[r].transient_used + 1
    BY <1>1 DEF ReqRecord
  <1>3. TransientAttempts \in Nat
    BY PanelConstants
  <1>4. PICK q \in ReqRecord :
          /\ q = Retry(r, used, TransientAttempts)
          /\ q.rate_limit_used = req[r].rate_limit_used
          /\ q.attempts = req[r].attempts
          /\ used >= TransientAttempts =>
               q.pc = "done" /\ q.result = "exhausted" /\ q.meta = req[r].attempts
          /\ used < TransientAttempts =>
               q.pc = "backoff" /\ q.result = req[r].result /\ q.meta = req[r].meta
    BY <1>2, <1>3, RetryRecord
  <1>5. req' = [req EXCEPT ![r] = [q EXCEPT !.transient_used = used]]
    BY <1>2, <1>4 DEF FailsTransiently
  <1>6. Turned(r, q.pc, q.rate_limit_used, used, q.attempts, q.result, q.meta)
    BY <1>1, <1>2, <1>5 DEF ReqRecord, Turned
  <1> QED BY <1>2, <1>3, <1>4, <1>6

\* Going through the throttle moves the worker on, or ends it on max_rps = 0.
LEMMA AcquireTurns ==
  ASSUME Types, NEW r \in Request, Acquire(r)
  PROVE  \/ Turned(r, "done", req[r].rate_limit_used, req[r].transient_used,
                   req[r].attempts, "non_retryable", 1)
         \/ \E pc \in {"throttled", "invoke"} :
              Turned(r, pc, req[r].rate_limit_used, req[r].transient_used,
                     req[r].attempts, req[r].result, req[r].meta)
  <1>1. CASE Unanswerable /\ Ended(r, "non_retryable", 1)
    <2>1. "non_retryable" \in Result /\ 1 \in Nat
      BY DEF Result
    <2> QED BY <1>1, <2>1, EndedTurns
  <1>2. CASE /\ ~Unanswerable
             /\ req' = [req EXCEPT ![r].pc = "throttled", ![r].sleep = WaitNeeded(r)]
    <2>1. PICK sleep \in Int : sleep = WaitNeeded(r)
      BY <1>2, WaitIsInteger
    <2>2. req' = [req EXCEPT ![r].pc = "throttled", ![r].sleep = sleep]
      BY <1>2, <2>1
    <2>3. "throttled" \in Phase
      BY DEF Phase
    <2>4. Turned(r, "throttled", req[r].rate_limit_used, req[r].transient_used,
                 req[r].attempts, req[r].result, req[r].meta)
      BY <2>2, <2>3, PlaceTurns
    <2> QED BY <2>4
  <1>3. CASE req' = [req EXCEPT ![r].pc = "invoke"]
    <2>1. "invoke" \in Phase /\ 0 \in Int
      BY DEF Phase
    <2>2. Turned(r, "invoke", req[r].rate_limit_used, req[r].transient_used,
                 req[r].attempts, req[r].result, req[r].meta)
      BY <1>3, <2>1, PlaceTurns
    <2> QED BY <2>2
  <1> QED BY <1>1, <1>2, <1>3 DEF Acquire, Admit

-----------------------------------------------------------------------------
(***************************************************************************)
(* Types are preserved.                                                    *)
(***************************************************************************)
\* The throttle's side of a worker's step.
LEMMA ThrottleTypes ==
  ASSUME Types, NEW r \in Request, Acquire(r)
  PROVE  /\ options' \in Options /\ calls' \in Seq(Nat)
         /\ tokens' \in Seq([age : Nat, tokens : Nat])
         /\ admitted' \in Seq([age : Nat, tokens : Nat, oversize : BOOLEAN])
  <1>1. options \in Options /\ admitted \in Seq([age : Nat, tokens : Nat, oversize : BOOLEAN])
    BY DEF Types
  <1>2. PrunedCalls \in Seq(Nat) /\ PrunedTokens \in Seq([age : Nat, tokens : Nat])
    BY PrunedTypes
  <1>3. Estimate[r] \in Nat
    BY PanelConstants
  <1>4. CASE calls' = PrunedCalls /\ tokens' = PrunedTokens /\ UNCHANGED <<options, admitted>>
    BY <1>1, <1>2, <1>4
  <1>5. CASE Admit(r)
    <2>1. calls' \in Seq(Nat)
      BY <1>2, <1>5 DEF Admit
    <2>2. PICK event \in [age : Nat, tokens : Nat] :
            event = [age |-> 0, tokens |-> Estimate[r]]
      BY <1>3
    <2>3. tokens' \in Seq([age : Nat, tokens : Nat])
      <3>1. tokens' = Append(PrunedTokens, event)
        BY <1>5, <2>2 DEF Admit
      <3> QED BY <1>2, <3>1, AppendTyped
    <2>4. Oversize(r) \in BOOLEAN
      BY DEF Oversize
    <2>5. PICK call \in [age : Nat, tokens : Nat, oversize : BOOLEAN] :
            call = [age |-> 0, tokens |-> Estimate[r], oversize |-> Oversize(r)]
      BY <1>3, <2>4
    <2>6. admitted' \in Seq([age : Nat, tokens : Nat, oversize : BOOLEAN])
      <3>1. admitted' = Append(admitted, call)
        BY <1>5, <2>5 DEF Admit
      <3> QED BY <1>1, <3>1, AppendTyped
    <2> QED BY <1>1, <1>5, <2>1, <2>3, <2>6 DEF Admit
  <1> QED BY <1>4, <1>5 DEF Acquire

\* Time only makes ages larger.
LEMMA TickTypes ==
  ASSUME Types, Tick
  PROVE  Types'
  <1>1. \A age \in Nat : \A window : Older(age, window) \in Nat
    BY DEF Older
  <1>2. calls' \in Seq(Nat)
    <2>1. calls \in Seq(Nat) /\ calls' = [i \in DOMAIN calls |-> Older(calls[i], RpsWindow)]
      BY DEF Types, Tick
    <2> QED BY <1>1, <2>1
  <1>3. tokens' \in Seq([age : Nat, tokens : Nat])
    <2>1. /\ tokens \in Seq([age : Nat, tokens : Nat])
          /\ tokens' = [i \in DOMAIN tokens |->
                          [tokens[i] EXCEPT !.age = Older(@, TpmWindow)]]
      BY DEF Types, Tick
    <2>2. \A i \in DOMAIN tokens :
            [tokens[i] EXCEPT !.age = Older(@, TpmWindow)] \in [age : Nat, tokens : Nat]
      <3> TAKE i \in DOMAIN tokens
      <3>1. PICK e \in [age : Nat, tokens : Nat] : e = tokens[i]
        BY <2>1, ElementTyped
      <3>2. PICK age \in Nat : age = Older(e.age, TpmWindow)
        BY <1>1
      <3>3. [e EXCEPT !.age = age] \in [age : Nat, tokens : Nat]
        OBVIOUS
      <3> QED BY <3>1, <3>2, <3>3
    <2> DEFINE Event == [age : Nat, tokens : Nat]
    <2>3. \A i \in DOMAIN tokens : [tokens[i] EXCEPT !.age = Older(@, TpmWindow)] \in Event
      BY <2>2
    <2>4. tokens \in Seq(Event)
      BY <2>1
    <2> HIDE DEF Event
    <2>5. tokens' \in [DOMAIN tokens -> Event]
      BY <2>1, <2>3
    <2>6. tokens' \in Seq(Event)
      BY <2>4, <2>5, MapTyped
    <2> QED BY <2>6 DEF Event
  <1>4. admitted' \in Seq([age : Nat, tokens : Nat, oversize : BOOLEAN])
    <2> DEFINE Admission == [age : Nat, tokens : Nat, oversize : BOOLEAN]
               aged == [i \in DOMAIN admitted |-> [admitted[i] EXCEPT !.age = @ + 1]]
               live == {i \in DOMAIN admitted : admitted[i].age + 1 <= TpmWindow}
    <2>1. admitted \in Seq(Admission)
      BY DEF Types
    <2>2. \A i \in DOMAIN admitted : [admitted[i] EXCEPT !.age = @ + 1] \in Admission
      <3> TAKE i \in DOMAIN admitted
      <3>1. PICK e \in Admission : e = admitted[i]
        BY <2>1, ElementTyped
      <3>2. [e EXCEPT !.age = e.age + 1] \in Admission
        OBVIOUS
      <3> QED BY <3>1, <3>2
    <2>3. aged \in Seq(Admission) /\ live \in SUBSET (1..Len(aged))
      <3>1. aged \in [DOMAIN admitted -> Admission]
        <4> HIDE DEF Admission
        <4> QED BY <2>2
      <3>2. live \in SUBSET DOMAIN admitted
        OBVIOUS
      <3>3. DOMAIN admitted = 1..Len(admitted)
        <4> HIDE DEF aged, live, Admission
        <4> QED BY <2>1
      <3> HIDE DEF aged, live, Admission
      <3> QED BY <2>1, <3>1, <3>2, <3>3, MapTyped
    <2>4. admitted' = Since(aged, live)
      BY DEF Tick
    <2> HIDE DEF aged, live, Admission
    <2>5. admitted' \in Seq(Admission)
      BY <2>3, <2>4, SinceKeeps
    <2> QED BY <2>5 DEF Admission
  <1>5. req' \in [Request -> ReqRecord]
    <2>1. /\ req \in [Request -> ReqRecord]
          /\ req' = [r \in Request |->
                       [req[r] EXCEPT !.sleep = IF @ = 0 THEN 0 ELSE @ - 1]]
      BY DEF Types, Tick
    <2>2. \A r \in Request :
            [req[r] EXCEPT !.sleep = IF @ = 0 THEN 0 ELSE @ - 1] \in ReqRecord
      BY <2>1 DEF ReqRecord
    <2> QED BY <2>1, <2>2
  <1> QED BY <1>2, <1>3, <1>4, <1>5 DEF Types, Tick

\* Every step of a worker gives its record fields of their types.
LEMMA WorkerRecord ==
  ASSUME Types, NEW r \in Request, Worker(r)
  PROVE  req' \in [Request -> ReqRecord]
  <1>1. req[r] \in ReqRecord
    BY DEF Types
  <1>2. req[r].attempts \in Nat /\ req[r].attempts + 1 \in Nat /\ 1 \in Nat /\ 0 \in Int
    BY <1>1 DEF ReqRecord
  <1>3. {"acquire"} \subseteq Phase /\ {"answer", "non_retryable"} \subseteq Result
    BY DEF Phase, Result
  <1>4. CASE Start(r)
    BY <1>2, <1>4, AttemptTurns DEF Start, Turned
  <1>5. CASE Acquire(r)
    BY <1>5, AcquireTurns DEF Turned
  <1>6. CASE Wake(r)
    <2>1. req' = [req EXCEPT ![r].pc = "acquire"]
      BY <1>6 DEF Wake
    <2> QED BY <1>2, <1>3, <2>1, PlaceTurns DEF Turned
  <1>7. CASE BackoffOver(r)
    <2>1. req' = [req EXCEPT ![r].pc = "acquire", ![r].attempts = req[r].attempts + 1]
      BY <1>1, <1>7 DEF BackoffOver
    <2> QED BY <1>2, <2>1, AttemptTurns DEF Turned
  <1>8. CASE Succeeds(r)
    BY <1>2, <1>3, <1>8, EndedTurns DEF Succeeds, Turned
  <1>9. CASE Raises(r)
    BY <1>2, <1>3, <1>9, EndedTurns DEF Raises, Turned
  <1>10. CASE RateLimited(r)
    BY <1>10, LimitedTurns DEF Turned
  <1>11. CASE FailsTransiently(r)
    BY <1>11, TransientTurns DEF Turned
  <1> QED BY <1>4, <1>5, <1>6, <1>7, <1>8, <1>9, <1>10, <1>11 DEF Worker

LEMMA TypesInvariant ==
  ASSUME Types, [Next]_vars
  PROVE  Types'
  <1>1. CASE Tick
    BY <1>1, TickTypes
  <1>2. ASSUME NEW r \in Request, Worker(r)
        PROVE  Types'
    <2>1. req' \in [Request -> ReqRecord]
      BY <1>2, WorkerRecord
    <2>2. main' = main /\ records' = records
      BY <1>2 DEF Worker, Start, Acquire, Wake, BackoffOver, Succeeds, Raises, RateLimited,
                  FailsTransiently, Called
    <2>3. provider' \in [Request -> Nat]
      <3>1. provider \in [Request -> Nat]
        BY DEF Types
      <3>2. provider' = provider \/ provider' = [provider EXCEPT ![r] = @ + 1]
        BY <1>2 DEF Worker, Start, Acquire, Wake, BackoffOver, Succeeds, Raises, RateLimited,
                    FailsTransiently, Called
      <3> QED BY <3>1, <3>2
    <2>4. Acquire(r) \/ UNCHANGED throttle
      BY <1>2 DEF Worker, Start, Wake, BackoffOver, Succeeds, Raises, RateLimited,
                  FailsTransiently, Called
    <2>5. /\ options' \in Options /\ calls' \in Seq(Nat)
          /\ tokens' \in Seq([age : Nat, tokens : Nat])
          /\ admitted' \in Seq([age : Nat, tokens : Nat, oversize : BOOLEAN])
      BY <2>4, ThrottleTypes DEF Types, throttle
    <2> QED BY <2>1, <2>2, <2>3, <2>5 DEF Types
  <1>3. CASE Submit
    <2>1. Idle \in ReqRecord /\ "queued" \in Phase
      BY DEF Idle, ReqRecord, Phase, Result
    <2>2. [Idle EXCEPT !.pc = "queued"] \in ReqRecord
      BY <2>1 DEF ReqRecord
    <2>3. req' \in [Request -> ReqRecord]
      BY <1>3, <2>2 DEF Submit
    <2> QED BY <1>3, <2>3 DEF Submit, Types, throttle
  <1>4. CASE WriteRecord
    <2> DEFINE r == Len(records) + 1
    <2>1. r \in Request /\ req[r] \in ReqRecord
      BY <1>4 DEF WriteRecord, Types
    <2>2. PICK entry \in [request : Request, attempts : Nat, result : Result] :
            entry = [request |-> r, attempts |-> req[r].meta, result |-> req[r].result]
      BY <2>1 DEF ReqRecord
    <2>3. records' = Append(records, entry)
      BY <1>4, <2>2 DEF WriteRecord
    <2>4. records' \in Seq([request : Request, attempts : Nat, result : Result])
      <3>1. records \in Seq([request : Request, attempts : Nat, result : Result])
        BY DEF Types
      <3> QED BY <2>3, <3>1, AppendTyped
    <2> QED BY <1>4, <2>4 DEF WriteRecord, Types, throttle
  <1>5. CASE Reject \/ Collect \/ WriteFails \/ Return
    BY <1>5 DEF Reject, Collect, WriteFails, Return, Types, throttle
  <1>6. CASE UNCHANGED vars
    BY <1>6 DEF vars, Types
  <1> QED BY <1>1, <1>2, <1>3, <1>4, <1>5, <1>6 DEF Next, MainThread

LEMMA TypesInitially ==
  ASSUME Init
  PROVE  Types
  <1>1. Idle \in ReqRecord
    BY DEF Idle, ReqRecord, Phase, Result
  <1> QED BY <1>1 DEF Init, Types

-----------------------------------------------------------------------------
(***************************************************************************)
(* Budgets and records.                                                    *)
(***************************************************************************)
LEMMA BatchInitially ==
  ASSUME Init
  PROVE  BatchInv
  <1>1. Filed
    BY DEF Init, Filed, Idle
  <1>2. ASSUME NEW r \in Request
        PROVE  Spent(r)
    <2>1. req[r] = Idle /\ provider[r] = 0
      BY DEF Init
    <2> QED BY <2>1, PanelConstants DEF Spent, Idle, InAttempt
  <1> QED BY <1>1, <1>2 DEF BatchInv

\* A worker that steps is neither waiting for submission nor done, so the main
\* thread is neither before the fan-out nor at the records, and no record is
\* this worker's.
LEMMA WorkerFiles ==
  ASSUME Types, BatchInv, NEW r \in Request, Worker(r)
  PROVE  Filed'
  <1>1. req[r].pc \notin {"unsubmitted", "done"}
    BY DEF Worker, Start, Acquire, Wake, BackoffOver, Succeeds, Raises, RateLimited,
           FailsTransiently, Called
  <1>2. main' = main /\ records' = records
    BY DEF Worker, Start, Acquire, Wake, BackoffOver, Succeeds, Raises, RateLimited,
           FailsTransiently, Called
  <1>3. \A q \in Request \ {r} : req'[q] = req[q]
    <2>1. req \in [Request -> ReqRecord]
      BY DEF Types
    <2>2. \E e : req' = [req EXCEPT ![r] = e]
      BY DEF Worker, Start, Acquire, Admit, Wake, BackoffOver, Succeeds, Raises, RateLimited,
             FailsTransiently, Ended
    <2> QED BY <2>1, <2>2
  <1>4. main \notin {"validate", "record", "returned"}
    BY <1>1 DEF BatchInv, Filed, Done
  <1>5. ASSUME NEW i \in DOMAIN records
        PROVE  /\ i \in Request /\ Done(i)'
               /\ records[i] = [request |-> i, attempts |-> req'[i].meta,
                                result |-> req'[i].result]
    <2>1. /\ i \in Request /\ Done(i)
          /\ records[i] = [request |-> i, attempts |-> req[i].meta, result |-> req[i].result]
      BY <1>5 DEF BatchInv, Filed
    <2>2. i # r
      BY <1>1, <2>1 DEF Done
    <2>3. req'[i] = req[i]
      BY <1>3, <2>1, <2>2
    <2> QED BY <2>1, <2>3 DEF Done
  <1> QED BY <1>2, <1>4, <1>5 DEF Filed

\* The provider is called for one worker at a time, and only that worker's
\* record changes.
LEMMA WorkerAlone ==
  ASSUME Types, NEW r \in Request, Worker(r), NEW q \in Request, q # r, Spent(q)
  PROVE  Spent(q)'
  <1>1. req \in [Request -> ReqRecord] /\ provider \in [Request -> Nat]
    BY DEF Types
  <1>2. \E e : req' = [req EXCEPT ![r] = e]
    BY DEF Worker, Start, Acquire, Admit, Wake, BackoffOver, Succeeds, Raises, RateLimited,
           FailsTransiently, Ended
  <1>3. provider' = provider \/ \E n : provider' = [provider EXCEPT ![r] = n]
    BY DEF Worker, Start, Acquire, Wake, BackoffOver, Succeeds, Raises, RateLimited,
           FailsTransiently, Called
  <1>4. req'[q] = req[q] /\ provider'[q] = provider[q]
    BY <1>1, <1>2, <1>3
  <1> QED BY <1>4 DEF Spent

\* The worker's own budget and history, action by action.
LEMMA WorkerSpends ==
  ASSUME Types, NEW r \in Request, Worker(r), Spent(r)
  PROVE  Spent(r)'
  <1>1. req[r] \in ReqRecord /\ provider \in [Request -> Nat]
    BY DEF Types
  <1>2. /\ req[r].rate_limit_used \in Nat /\ req[r].transient_used \in Nat
        /\ req[r].attempts \in Nat /\ provider[r] \in Nat
    BY <1>1 DEF ReqRecord
  <1>3. /\ RateLimitAttempts \in Nat \ {0} /\ TransientAttempts \in Nat \ {0}
        /\ None \notin {"answer", "exhausted", "non_retryable"}
    BY PanelConstants
  <1>4. /\ {"acquire", "throttled", "invoke"} \subseteq Phase
        /\ {"answer", "non_retryable"} \subseteq Result /\ 1 \in Nat /\ 0 \in Int
    BY DEF Phase, Result
  <1>5. CASE Start(r)
    <2>1. Turned(r, "acquire", req[r].rate_limit_used, req[r].transient_used, 1,
                 req[r].result, req[r].meta)
      BY <1>4, <1>5, AttemptTurns DEF Start
    <2>2. provider' = provider /\ req[r].pc = "queued"
      BY <1>5 DEF Start
    <2> QED BY <1>2, <2>1, <2>2 DEF Turned, Spent, InAttempt
  <1>6. CASE Acquire(r)
    <2>1. provider' = provider /\ req[r].pc = "acquire"
      BY <1>6 DEF Acquire
    <2>2. CASE Turned(r, "done", req[r].rate_limit_used, req[r].transient_used,
                      req[r].attempts, "non_retryable", 1)
      BY <1>2, <1>3, <2>1, <2>2 DEF Turned, Spent, InAttempt
    <2>3. ASSUME NEW pc \in {"throttled", "invoke"},
                 Turned(r, pc, req[r].rate_limit_used, req[r].transient_used,
                        req[r].attempts, req[r].result, req[r].meta)
          PROVE  Spent(r)'
      BY <1>2, <2>1, <2>3 DEF Turned, Spent, InAttempt
    <2> QED BY <1>6, <2>2, <2>3, AcquireTurns
  <1>7. CASE Wake(r)
    <2>1. /\ provider' = provider /\ req[r].pc = "throttled"
          /\ req' = [req EXCEPT ![r].pc = "acquire"]
      BY <1>7 DEF Wake
    <2>2. Turned(r, "acquire", req[r].rate_limit_used, req[r].transient_used,
                 req[r].attempts, req[r].result, req[r].meta)
      BY <1>4, <2>1, PlaceTurns
    <2> QED BY <1>2, <2>1, <2>2 DEF Turned, Spent, InAttempt
  <1>8. CASE BackoffOver(r)
    <2>1. req' = [req EXCEPT ![r].pc = "acquire", ![r].attempts = req[r].attempts + 1]
      BY <1>1, <1>8 DEF BackoffOver
    <2>2. PICK n \in Nat : n = req[r].attempts + 1
      BY <1>2
    <2>3. Turned(r, "acquire", req[r].rate_limit_used, req[r].transient_used,
                 n, req[r].result, req[r].meta)
      BY <2>1, <2>2, AttemptTurns
    <2>4. provider' = provider /\ req[r].pc = "backoff"
      BY <1>8 DEF BackoffOver
    <2> QED BY <1>2, <2>2, <2>3, <2>4 DEF Turned, Spent, InAttempt
  <1>9. ASSUME Called(r)
        PROVE  req[r].pc = "invoke" /\ provider'[r] = provider[r] + 1
    BY <1>1, <1>9 DEF Called
  <1>10. CASE Succeeds(r)
    <2>1. Turned(r, "done", req[r].rate_limit_used, req[r].transient_used,
                 req[r].attempts, "answer", req[r].attempts)
      BY <1>2, <1>4, <1>10, EndedTurns DEF Succeeds
    <2>2. Called(r)
      BY <1>10 DEF Succeeds
    <2> QED BY <1>2, <1>3, <1>9, <2>1, <2>2 DEF Turned, Spent, InAttempt
  <1>11. CASE Raises(r)
    <2>1. Turned(r, "done", req[r].rate_limit_used, req[r].transient_used,
                 req[r].attempts, "non_retryable", 1)
      BY <1>4, <1>11, EndedTurns DEF Raises
    <2>2. Called(r)
      BY <1>11 DEF Raises
    <2> QED BY <1>2, <1>3, <1>9, <2>1, <2>2 DEF Turned, Spent, InAttempt
  <1>12. CASE RateLimited(r)
    <2>1. Called(r)
      BY <1>12 DEF RateLimited
    <2> DEFINE used == req[r].rate_limit_used + 1
    <2>2. CASE /\ used >= RateLimitAttempts
               /\ Turned(r, "done", used, req[r].transient_used, req[r].attempts,
                         "exhausted", req[r].attempts)
      BY <1>2, <1>3, <1>9, <2>1, <2>2 DEF Turned, Spent, InAttempt
    <2>3. CASE /\ used < RateLimitAttempts
               /\ Turned(r, "backoff", used, req[r].transient_used, req[r].attempts,
                         req[r].result, req[r].meta)
      BY <1>2, <1>3, <1>9, <2>1, <2>3 DEF Turned, Spent, InAttempt
    <2> QED BY <1>12, <2>2, <2>3, LimitedTurns
  <1>13. CASE FailsTransiently(r)
    <2>1. Called(r)
      BY <1>13 DEF FailsTransiently
    <2> DEFINE used == req[r].transient_used + 1
    <2>2. CASE /\ used >= TransientAttempts
               /\ Turned(r, "done", req[r].rate_limit_used, used, req[r].attempts,
                         "exhausted", req[r].attempts)
      BY <1>2, <1>3, <1>9, <2>1, <2>2 DEF Turned, Spent, InAttempt
    <2>3. CASE /\ used < TransientAttempts
               /\ Turned(r, "backoff", req[r].rate_limit_used, used, req[r].attempts,
                         req[r].result, req[r].meta)
      BY <1>2, <1>3, <1>9, <2>1, <2>3 DEF Turned, Spent, InAttempt
    <2> QED BY <1>13, <2>2, <2>3, TransientTurns
  <1> QED BY <1>5, <1>6, <1>7, <1>8, <1>10, <1>11, <1>12, <1>13 DEF Worker

LEMMA BatchInvariant ==
  ASSUME Types, BatchInv, [Next]_vars
  PROVE  BatchInv'
  <1>1. CASE Tick
    <2>1. /\ req \in [Request -> ReqRecord]
          /\ main' = main /\ records' = records /\ provider' = provider
          /\ req' = [r \in Request |->
                       [req[r] EXCEPT !.sleep = IF @ = 0 THEN 0 ELSE @ - 1]]
      BY <1>1 DEF Types, Tick
    <2>2. ASSUME NEW r \in Request
          PROVE  /\ req'[r].pc = req[r].pc /\ req'[r].attempts = req[r].attempts
                 /\ req'[r].rate_limit_used = req[r].rate_limit_used
                 /\ req'[r].transient_used = req[r].transient_used
                 /\ req'[r].result = req[r].result /\ req'[r].meta = req[r].meta
      BY <2>1 DEF ReqRecord
    <2>3. Filed'
      BY <2>1, <2>2 DEF BatchInv, Filed, Done
    <2>4. ASSUME NEW r \in Request
          PROVE  Spent(r)'
      <3>1. Spent(r)
        BY DEF BatchInv
      <3> QED BY <2>1, <2>2, <3>1 DEF Spent
    <2> QED BY <2>3, <2>4 DEF BatchInv
  <1>2. ASSUME NEW r \in Request, Worker(r)
        PROVE  BatchInv'
    <2>1. Filed'
      BY <1>2, WorkerFiles
    <2>2. ASSUME NEW q \in Request
          PROVE  Spent(q)'
      BY <1>2, WorkerAlone, WorkerSpends DEF BatchInv
    <2> QED BY <2>1, <2>2 DEF BatchInv
  <1>3. CASE Submit
    <2>1. /\ main = "validate" /\ provider' = provider /\ records' = records
          /\ req' = [r \in Request |-> [Idle EXCEPT !.pc = "queued"]]
          /\ main' = IF N = 0 THEN "returned" ELSE "collect"
      BY <1>3 DEF Submit
    <2>2. N = 0 => Request = {}
      BY DEF Request
    <2>3. records = <<>> /\ \A r \in Request : req[r].pc = "unsubmitted"
      BY <2>1 DEF BatchInv, Filed
    <2>4. Filed'
      BY <2>1, <2>2, <2>3 DEF Filed
    <2>5. ASSUME NEW r \in Request
          PROVE  Spent(r)'
      <3>1. /\ req'[r].pc = "queued" /\ req'[r].rate_limit_used = 0
            /\ req'[r].transient_used = 0 /\ req'[r].result = None
        BY <2>1 DEF Idle
      <3>2. req[r] \in ReqRecord /\ Spent(r)
        BY DEF Types, BatchInv
      <3>3. provider[r] = 0
        BY <2>3, <3>2 DEF Spent, ReqRecord
      <3>4. RateLimitAttempts \in Nat \ {0} /\ TransientAttempts \in Nat \ {0}
        BY PanelConstants
      <3> QED BY <2>1, <3>1, <3>3, <3>4 DEF Spent, InAttempt
    <2> QED BY <2>4, <2>5 DEF BatchInv
  <1>4. CASE WriteRecord
    <2> DEFINE r == Len(records) + 1
               entry == [request |-> r, attempts |-> req[r].meta, result |-> req[r].result]
    <2>1. /\ main = "record" /\ main' = main /\ req' = req /\ provider' = provider
          /\ r \in Request /\ records' = Append(records, entry)
      BY <1>4 DEF WriteRecord
    <2>2. \A q \in Request : Done(q)
      BY <2>1 DEF BatchInv, Filed
    <2>3. records \in Seq([request : Request, attempts : Nat, result : Result])
      BY DEF Types
    <2>4. ASSUME NEW i \in DOMAIN records'
          PROVE  /\ i \in Request
                 /\ records'[i] = [request |-> i, attempts |-> req[i].meta,
                                   result |-> req[i].result]
      <3>1. CASE i \in DOMAIN records
        <4>1. records'[i] = records[i]
          <5> HIDE DEF entry
          <5> QED BY <2>1, <2>3, <3>1
        <4> QED BY <3>1, <4>1 DEF BatchInv, Filed
      <3>2. CASE i = r
        <4>1. records'[i] = entry
          <5> HIDE DEF entry
          <5> QED BY <2>1, <2>3, <3>2
        <4> QED BY <2>1, <3>2, <4>1
      <3>3. DOMAIN records' = DOMAIN records \cup {r}
        <4> HIDE DEF entry
        <4> QED BY <2>1, <2>3
      <3> QED BY <2>4, <3>1, <3>2, <3>3
    <2>5. Filed'
      BY <2>1, <2>2, <2>4 DEF Filed, Done
    <2>6. \A q \in Request : Spent(q)'
      BY <2>1 DEF BatchInv, Spent
    <2> QED BY <2>5, <2>6 DEF BatchInv
  <1>5. CASE Collect
    BY <1>5 DEF Collect, BatchInv, Filed, Spent, Done
  <1>6. CASE Reject \/ WriteFails \/ Return
    <2>1. /\ req' = req /\ provider' = provider /\ records' = records
          /\ main' = "raised" \/ (main = "record" /\ main' = "returned")
      BY <1>6 DEF Reject, WriteFails, Return
    <2> QED BY <2>1 DEF BatchInv, Filed, Spent, Done
  <1>7. CASE UNCHANGED vars
    BY <1>7 DEF vars, BatchInv, Filed, Spent, Done
  <1> QED BY <1>1, <1>2, <1>3, <1>4, <1>5, <1>6, <1>7 DEF Next, MainThread

-----------------------------------------------------------------------------
LEMMA BatchAlways == Spec => [](Types /\ BatchInv)
  <1>1. Init => Types /\ BatchInv
    BY TypesInitially, BatchInitially
  <1>2. Types /\ BatchInv /\ [Next]_vars => (Types /\ BatchInv)'
    BY TypesInvariant, BatchInvariant
  <1> QED BY <1>1, <1>2, PTL DEF Spec

\* However many retries of either kind, a request never costs the provider
\* more than the two budgets together less one, and it is given up exactly
\* when one of them is spent (retry_with_backoff).
THEOREM WithinBudgets == Spec => []BudgetsRespected
  <1>1. Types /\ BatchInv => BudgetsRespected
    <2> SUFFICES ASSUME Types, BatchInv, NEW r \in Request
                 PROVE  /\ provider[r] <= RateLimitAttempts + TransientAttempts - 1
                        /\ req[r].result = "exhausted" <=>
                             \/ req[r].rate_limit_used = RateLimitAttempts
                             \/ req[r].transient_used = TransientAttempts
      BY DEF BudgetsRespected
    <2>1. Spent(r) /\ req[r] \in ReqRecord
      BY DEF BatchInv, Types
    <2>2. /\ RateLimitAttempts \in Nat \ {0} /\ TransientAttempts \in Nat \ {0}
          /\ None # "exhausted"
      BY PanelConstants
    <2> QED BY <2>1, <2>2 DEF Spent, ReqRecord
  <1> QED BY <1>1, BatchAlways, PTL

\* Whatever order the workers finish in, a batch that is collected has every
\* result, and the records on file are those of the first requests, in
\* submission order, with the provider calls really made (fan_out, panel_query).
THEOREM RecordsTrue == Spec => []RecordsTellTheTruth
  <1>1. Types /\ BatchInv => RecordsTellTheTruth
    <2> SUFFICES ASSUME Types, BatchInv PROVE RecordsTellTheTruth
      OBVIOUS
    <2>1. \A r \in Request : Done(r) => req[r].result # None
      BY DEF BatchInv, Spent, Done
    <2>2. ASSUME NEW i \in DOMAIN records
          PROVE  /\ records[i].request = i
                 /\ records[i].result \in {"answer", "exhausted"} =>
                      records[i].attempts = provider[i]
      <3>1. /\ i \in Request /\ Done(i)
            /\ records[i] = [request |-> i, attempts |-> req[i].meta, result |-> req[i].result]
        BY DEF BatchInv, Filed
      <3>2. Spent(i)
        BY <3>1 DEF BatchInv
      <3> QED BY <3>1, <3>2 DEF Spent, Done
    <2> QED BY <2>1, <2>2 DEF RecordsTellTheTruth, BatchInv, Filed
  <1> QED BY <1>1, BatchAlways, PTL

-----------------------------------------------------------------------------
(***************************************************************************)
(* Running sums.                                                           *)
(***************************************************************************)
\* TokenSums is the function its equations say it is.
LEMMA SumsDefined ==
  ASSUME NEW log, Len(log) \in Nat, \A i \in 1..Len(log) : log[i].tokens \in Nat
  PROVE  /\ TokenSums(log) \in [0..Len(log) -> Nat]
         /\ TokenSums(log)[0] = 0
         /\ \A i \in 1..Len(log) :
              TokenSums(log)[i] = TokenSums(log)[i - 1] + log[i].tokens
  <1> DEFINE n == Len(log)
             step == [i \in 1..n |-> [t \in Nat |-> t + log[i].tokens]]
             IsSum(f) == f = [i \in 0..n |-> IF i = 0 THEN 0 ELSE f[i - 1] + log[i].tokens]
  <1>1. n \in Nat /\ 0 \in Nat
    OBVIOUS
  <1>2. step \in [1..n -> [Nat -> Nat]]
    OBVIOUS
  <1>3. PICK g \in [0..n -> Nat] : g[0] = 0 /\ \A i \in 1..n : g[i] = step[i][g[i - 1]]
    <2>1. PICK g : Runs(g, n, Nat, 0, step)
      <3> HIDE DEF n, step
      <3> QED BY <1>1, <1>2, Recursion
    <2> QED BY <2>1 DEF Runs
  <1>4. \A i \in 1..n : g[i] = g[i - 1] + log[i].tokens
    <2> TAKE i \in 1..n
    <2>1. i - 1 \in 0..n
      OBVIOUS
    <2>2. PICK t \in Nat : t = g[i - 1]
      BY <1>3, <2>1
    <2>3. step[i][t] = t + log[i].tokens
      OBVIOUS
    <2>4. g[i] = step[i][t]
      <3> HIDE DEF step
      <3> QED BY <1>3, <2>2
    <2> QED BY <2>2, <2>3, <2>4
  <1>5. IsSum(g)
    <2>1. ASSUME NEW i \in 0..n
          PROVE  g[i] = IF i = 0 THEN 0 ELSE g[i - 1] + log[i].tokens
      BY <1>3, <1>4
    <2> QED BY <1>3, <2>1
  <1>6. TokenSums(log) = CHOOSE f : IsSum(f)
    BY DEF TokenSums
  <1>7. IsSum(TokenSums(log))
    <2> HIDE DEF IsSum
    <2> QED BY <1>5, <1>6
  <1> DEFINE f == TokenSums(log)
  <1>8. \A i \in 0..n : f[i] = IF i = 0 THEN 0 ELSE f[i - 1] + log[i].tokens
    BY <1>7
  <1>9. DOMAIN f = 0..n /\ f = [i \in 0..n |-> f[i]]
    BY <1>7
  <1>10. f[0] = 0 /\ \A i \in 1..n : f[i] = f[i - 1] + log[i].tokens
    <2> HIDE DEF f
    <2> QED BY <1>8
  <1>11. \A i \in 0..n : f[i] \in Nat
    <2> DEFINE S == {i \in 0..n : f[i] \in Nat}
    <2> HIDE DEF f
    <2>1. 0 \in S
      BY <1>1, <1>10
    <2>2. \A i \in 0..(n - 1) : i \in S => i + 1 \in S
      <3> TAKE i \in 0..(n - 1)
      <3> HAVE i \in S
      <3>1. i + 1 \in 1..n /\ i + 1 \in 0..n /\ (i + 1) - 1 = i /\ f[i] \in Nat
        OBVIOUS
      <3>2. f[i + 1] = f[i] + log[i + 1].tokens /\ log[i + 1].tokens \in Nat
        BY <1>10, <3>1
      <3> QED BY <3>1, <3>2
    <2>3. 0..n \subseteq S
      <3> HIDE DEF S, n
      <3> QED BY <1>1, <2>1, <2>2, InductiveInterval
    <2> QED BY <2>3
  <1> QED BY <1>9, <1>10, <1>11

\* The first n events of b are those of a from the one after d on.
Stretch(a, b, d, n) ==
  /\ d \in Nat /\ n \in Nat
  /\ Len(a) \in Nat /\ Len(b) \in Nat /\ d + n <= Len(a) /\ n <= Len(b)
  /\ \A i \in 1..Len(a) : a[i].tokens \in Nat
  /\ \A i \in 1..Len(b) : b[i].tokens \in Nat
  /\ \A i \in 1..n : b[i].tokens = a[d + i].tokens

\* A stretch adds the same to the sums of every log it is in.
LEMMA StretchSums ==
  ASSUME NEW a, NEW b, NEW d, NEW n, Stretch(a, b, d, n)
  PROVE  \A i \in 0..n : TokenSums(a)[d + i] = TokenSums(a)[d] + TokenSums(b)[i]
  <1> USE DEF Stretch
  <1>1. /\ TokenSums(a) \in [0..Len(a) -> Nat]
        /\ \A i \in 1..Len(a) : TokenSums(a)[i] = TokenSums(a)[i - 1] + a[i].tokens
    BY SumsDefined
  <1>2. /\ TokenSums(b) \in [0..Len(b) -> Nat] /\ TokenSums(b)[0] = 0
        /\ \A i \in 1..Len(b) : TokenSums(b)[i] = TokenSums(b)[i - 1] + b[i].tokens
    BY SumsDefined
  <1> DEFINE f == TokenSums(a)
             g == TokenSums(b)
             S == {i \in 0..n : f[d + i] = f[d] + g[i]}
  <1>3. 0 \in S
    <2>1. d \in 0..Len(a) /\ d + 0 = d
      OBVIOUS
    <2>2. f[d] \in Nat
      BY <1>1, <2>1
    <2> QED BY <1>2, <2>1, <2>2
  <1> HIDE DEF f, g
  <1>4. ASSUME NEW i \in 0..(n - 1), i \in S
        PROVE  i + 1 \in S
    <2>1. i \in 0..Len(b) /\ i + 1 \in 1..n /\ i + 1 \in 0..n /\ (i + 1) - 1 = i
      OBVIOUS
    <2>2. /\ d + (i + 1) \in 1..Len(a) /\ (d + (i + 1)) - 1 = d + i
          /\ d + i \in 0..Len(a) /\ d \in 0..Len(a)
      OBVIOUS
    <2>3. f[d + (i + 1)] = f[d + i] + a[d + (i + 1)].tokens
      BY <1>1, <2>2 DEF f
    <2>4. i + 1 \in 1..Len(b)
      OBVIOUS
    <2>5. g[i + 1] = g[i] + b[i + 1].tokens
      BY <1>2, <2>1, <2>4 DEF g
    <2>6. b[i + 1].tokens = a[d + (i + 1)].tokens /\ b[i + 1].tokens \in Nat
      BY <2>1, <2>4
    <2>7. f[d + i] \in Nat /\ f[d] \in Nat /\ g[i] \in Nat
      BY <1>1, <1>2, <2>1, <2>2 DEF f, g
    <2>8. f[d + i] = f[d] + g[i]
      BY <1>4
    <2>9. PICK t \in Nat : t = b[i + 1].tokens /\ t = a[d + (i + 1)].tokens
      BY <2>6
    <2>10. f[d + (i + 1)] = f[d] + g[i + 1]
      <3>1. f[d + (i + 1)] = f[d + i] + t /\ g[i + 1] = g[i] + t
        BY <2>3, <2>5, <2>9
      <3>2. \A x, y \in Nat : (x + y) + t = x + (y + t)
        OBVIOUS
      <3> QED BY <2>7, <2>8, <3>1, <3>2, SMTT(60)
    <2> QED BY <2>1, <2>10
  <1>5. 0..n \subseteq S
    <2> HIDE DEF S
    <2> QED BY <1>3, <1>4, InductiveInterval
  <1> QED BY <1>5 DEF f, g

\* grown is the log of n events with one more.
Longer(log, grown, n) ==
  /\ Len(log) = n /\ Len(grown) = n + 1
  /\ \A i \in 1..n : log[i].tokens \in Nat /\ grown[i].tokens = log[i].tokens
  /\ grown[n + 1].tokens \in Nat

\* A log one event longer: the sums so far, and one more.
LEMMA GrownSums ==
  ASSUME NEW log, NEW grown, NEW n \in Nat, Longer(log, grown, n)
  PROVE  /\ \A i \in 0..n : TokenSums(grown)[i] = TokenSums(log)[i]
         /\ TokenSums(grown)[n + 1] = TokenSums(log)[n] + grown[n + 1].tokens
  <1> USE DEF Longer
  <1>1. /\ n + 1 \in Nat /\ 0 \in Nat /\ 0 + n <= Len(grown) /\ n <= Len(log)
        /\ Len(log) \in Nat /\ Len(grown) \in Nat
    OBVIOUS
  <1>2. \A i \in 1..(n + 1) : i \in 1..n \/ i = n + 1
    OBVIOUS
  <1>3. \A i \in 1..Len(grown) : grown[i].tokens \in Nat
    BY <1>2
  <1>4. /\ \A i \in 1..n : log[i].tokens = grown[0 + i].tokens
        /\ \A i \in 1..Len(log) : log[i].tokens \in Nat
    OBVIOUS
  <1>5. \A i \in 0..n : TokenSums(grown)[0 + i] = TokenSums(grown)[0] + TokenSums(log)[i]
    <2>1. Stretch(grown, log, 0, n)
      BY <1>1, <1>3, <1>4 DEF Stretch
    <2> QED BY <2>1, StretchSums
  <1>6. /\ TokenSums(grown)[0] = 0
        /\ \A i \in 1..Len(grown) :
             TokenSums(grown)[i] = TokenSums(grown)[i - 1] + grown[i].tokens
    BY <1>1, <1>3, SumsDefined
  <1>7. TokenSums(log) \in [0..n -> Nat]
    BY SumsDefined
  <1>8. ASSUME NEW i \in 0..n
        PROVE  TokenSums(grown)[i] = TokenSums(log)[i]
    <2>1. TokenSums(grown)[0 + i] = 0 + TokenSums(log)[i]
      BY <1>5, <1>6
    <2>2. TokenSums(log)[i] \in Nat
      BY <1>7
    <2> QED BY <2>1, <2>2
  <1>9. n + 1 \in 1..Len(grown) /\ (n + 1) - 1 = n /\ n \in 0..n
    BY <1>1
  <1> QED BY <1>6, <1>8, <1>9

\* A log that is the tail of another: its sums are no larger.
LEMMA TailSums ==
  ASSUME NEW log, NEW tail, NEW d \in Nat, NEW n \in Nat, Len(tail) = n, Len(log) = d + n,
         \A i \in 1..Len(log) : log[i].tokens \in Nat,
         \A i \in 1..n : tail[i].tokens = log[d + i].tokens
  PROVE  \A i \in 0..n : /\ TokenSums(tail)[i] \in Nat /\ TokenSums(log)[d + i] \in Nat
                         /\ TokenSums(tail)[i] <= TokenSums(log)[d + i]
  <1>1. Len(log) \in Nat /\ Len(tail) \in Nat /\ d + n <= Len(log) /\ n <= Len(tail)
    OBVIOUS
  <1>2. \A i \in 1..Len(tail) : tail[i].tokens \in Nat
    <2> TAKE i \in 1..Len(tail)
    <2>1. d + i \in 1..Len(log)
      OBVIOUS
    <2> QED BY <2>1
  <1>3. \A i \in 0..n : TokenSums(log)[d + i] = TokenSums(log)[d] + TokenSums(tail)[i]
    <2>1. \A i \in 1..n : tail[i].tokens = log[d + i].tokens
      OBVIOUS
    <2>2. \A i \in 1..Len(log) : log[i].tokens \in Nat
      OBVIOUS
    <2>3. Stretch(log, tail, d, n)
      BY <1>1, <1>2, <2>1, <2>2 DEF Stretch
    <2> QED BY <2>3, StretchSums
  <1>4. TokenSums(log) \in [0..Len(log) -> Nat] /\ TokenSums(tail) \in [0..n -> Nat]
    BY <1>1, <1>2, SumsDefined
  <1> TAKE i \in 0..n
  <1>5. d \in 0..Len(log) /\ d + i \in 0..Len(log)
    BY <1>1
  <1>6. /\ TokenSums(log)[d] \in Nat /\ TokenSums(tail)[i] \in Nat
        /\ TokenSums(log)[d + i] \in Nat
    BY <1>4, <1>5
  <1> QED BY <1>3, <1>6

-----------------------------------------------------------------------------
(***************************************************************************)
(* The throttle's windows.                                                 *)
(***************************************************************************)
\* Whoever is admitted fits both windows, unless it could never fit max_tpm.
LEMMA AdmitsWhatFits ==
  ASSUME Types, NEW r \in Request, ~Unanswerable, WaitNeeded(r) = 0
  PROVE  /\ options.max_rps # None => Len(PrunedCalls) < options.max_rps
         /\ options.max_tpm # None =>
              \/ Oversize(r)
              \/ TokenSum(PrunedTokens) + Estimate[r] <= options.max_tpm
  <1>1. /\ PrunedCalls \in Seq(Nat) /\ PrunedTokens \in Seq([age : Nat, tokens : Nat])
        /\ RpsWindow \in Nat /\ TpmWindow \in Nat /\ Estimate[r] \in Nat
    BY PrunedTypes, PanelConstants
  <1>2. options.max_rps \in Bound /\ options.max_tpm \in Bound
    BY PanelConstants DEF Types
  <1>3. PrunedCalls # <<>> => PrunedCalls[1] <= RpsWindow
    <2> DEFINE live == {i \in DOMAIN calls : calls[i] <= RpsWindow}
    <2>1. calls \in Seq(Nat) /\ live \in SUBSET (1..Len(calls))
      BY DEF Types
    <2> SUFFICES ASSUME PrunedCalls # <<>> PROVE PrunedCalls[1] <= RpsWindow
      OBVIOUS
    <2>2. live # {}
      BY DEF PrunedCalls, Since
    <2>3. PrunedCalls = Since(calls, live)
      BY DEF PrunedCalls
    <2>4. PICK m \in live :
            \A j \in 1..(Len(calls) - m + 1) : Since(calls, live)[j] = calls[m + j - 1]
      <3> HIDE DEF live
      <3> QED BY <2>1, <2>2, SinceKeeps
    <2>5. m \in 1..Len(calls) /\ 1 \in 1..(Len(calls) - m + 1) /\ m + 1 - 1 = m
      BY <2>1, <2>4
    <2> QED BY <2>3, <2>4, <2>5
  <1>4. PrunedTokens # <<>> => PrunedTokens[1].age <= TpmWindow
    <2> DEFINE live == {i \in DOMAIN tokens : tokens[i].age <= TpmWindow}
    <2>1. tokens \in Seq([age : Nat, tokens : Nat]) /\ live \in SUBSET (1..Len(tokens))
      BY DEF Types
    <2> SUFFICES ASSUME PrunedTokens # <<>> PROVE PrunedTokens[1].age <= TpmWindow
      OBVIOUS
    <2>2. live # {}
      BY DEF PrunedTokens, Since
    <2>3. PrunedTokens = Since(tokens, live)
      BY DEF PrunedTokens
    <2>4. PICK m \in live :
            \A j \in 1..(Len(tokens) - m + 1) : Since(tokens, live)[j] = tokens[m + j - 1]
      <3> HIDE DEF live
      <3> QED BY <2>1, <2>2, SinceKeeps, SMTT(60)
    <2>5. m \in 1..Len(tokens) /\ 1 \in 1..(Len(tokens) - m + 1) /\ m + 1 - 1 = m
      BY <2>1, <2>4
    <2> QED BY <2>3, <2>4, <2>5
  <1> DEFINE rps == IF RpsFull THEN Until(RpsWindow, PrunedCalls[1]) ELSE 0
             tpm == IF ~TpmFull(r) THEN 0
                    ELSE IF PrunedTokens = <<>> THEN Until(TpmWindow, 0)
                    ELSE Until(TpmWindow, PrunedTokens[1].age)
  <1>5. /\ rps \in Int /\ rps >= 0 /\ (RpsFull => rps > 0)
    <2>1. RpsFull => PrunedCalls[1] \in Nat
      BY <1>1 DEF Unanswerable
    <2> QED BY <1>1, <1>3, <2>1 DEF Until, Unanswerable
  <1>6. /\ tpm \in Int /\ tpm >= 0 /\ (TpmFull(r) => tpm > 0)
    <2>1. PrunedTokens # <<>> => PrunedTokens[1].age \in Nat
      <3>1. PICK s \in Seq([age : Nat, tokens : Nat]) : s = PrunedTokens
        BY <1>1
      <3>2. s # <<>> => s[1] \in [age : Nat, tokens : Nat]
        BY FirstOf
      <3> QED BY <3>1, <3>2
    <2> QED BY <1>1, <1>4, <2>1, SMTT(60) DEF Until
  <1>7. 0 = IF rps > tpm THEN rps ELSE tpm
    BY DEF WaitNeeded
  <1>8. ~RpsFull /\ ~TpmFull(r)
    <2> HIDE DEF rps, tpm
    <2> QED BY <1>5, <1>6, <1>7
  <1>9. options.max_rps # None => Len(PrunedCalls) < options.max_rps
    BY <1>1, <1>2, <1>8 DEF RpsFull, Bound
  <1>10. TokenSum(PrunedTokens) \in Nat
    <2>1. ASSUME NEW i \in 1..Len(PrunedTokens)
          PROVE  PrunedTokens[i].tokens \in Nat
      <3>1. DOMAIN PrunedTokens = 1..Len(PrunedTokens)
        BY <1>1
      <3>2. PICK event \in [age : Nat, tokens : Nat] : event = PrunedTokens[i]
        BY <1>1, <3>1, ElementTyped
      <3> QED BY <3>2
    <2>2. Len(PrunedTokens) \in Nat
      BY <1>1
    <2> QED BY <2>1, <2>2, SumsDefined DEF TokenSum
  <1>11. options.max_tpm # None =>
           \/ Oversize(r)
           \/ TokenSum(PrunedTokens) + Estimate[r] <= options.max_tpm
    BY <1>1, <1>2, <1>8, <1>10 DEF TpmFull, Oversize, Bound
  <1> QED BY <1>9, <1>11

\* Pruning drops no call that is still in its window.
LEMMA CallsPruned ==
  ASSUME Types, CallsAligned
  PROVE  /\ Len(PrunedCalls) \in Nat /\ Len(PrunedCalls) <= Len(calls)
         /\ \A i \in DOMAIN admitted : admitted[i].age <= RpsWindow =>
              LET k == Len(PrunedCalls) - Len(admitted) + i IN
              k >= 1 /\ PrunedCalls[k] = admitted[i].age
  <1> DEFINE live == {i \in DOMAIN calls : calls[i] <= RpsWindow}
  <1>1. calls \in Seq(Nat) /\ live \in SUBSET (1..Len(calls)) /\ Len(admitted) \in Nat
    BY DEF Types
  <1>2. PrunedCalls = Since(calls, live)
    BY DEF PrunedCalls
  <1>3. /\ Len(PrunedCalls) \in Nat /\ Len(PrunedCalls) <= Len(calls)
        /\ live # {} =>
              \E m \in live :
                /\ \A i \in live : m <= i
                /\ Len(PrunedCalls) = Len(calls) - m + 1
                /\ \A j \in 1..(Len(calls) - m + 1) : PrunedCalls[j] = calls[m + j - 1]
    <2> HIDE DEF live
    <2>1. /\ Since(calls, live) \in Seq(Nat)
          /\ Len(Since(calls, live)) <= Len(calls)
          /\ live # {} =>
               \E m \in live :
                 /\ \A i \in live : m <= i
                 /\ Len(Since(calls, live)) = Len(calls) - m + 1
                 /\ \A j \in 1..(Len(calls) - m + 1) : Since(calls, live)[j] = calls[m + j - 1]
      BY <1>1, SinceKeeps
    <2>2. Len(Since(calls, live)) \in Nat
      BY <2>1
    <2> QED BY <1>2, <2>1, <2>2
  <1>4. ASSUME NEW i \in DOMAIN admitted, admitted[i].age <= RpsWindow
        PROVE  LET k == Len(PrunedCalls) - Len(admitted) + i IN
               k >= 1 /\ PrunedCalls[k] = admitted[i].age
    <2>1. i \in 1..Len(admitted)
      BY DEF Types
    <2>2. PICK n \in Int : n = Len(calls) - Len(admitted) + i
      BY <1>1, <2>1
    <2>3. n \in 1..Len(calls) /\ calls[n] = admitted[i].age
      BY <1>1, <1>4, <2>1, <2>2 DEF CallsAligned
    <2>4. n \in live
      BY <1>1, <1>4, <2>3
    <2>5. PICK m \in live :
                /\ m <= n
                /\ Len(PrunedCalls) = Len(calls) - m + 1
                /\ \A j \in 1..(Len(calls) - m + 1) : PrunedCalls[j] = calls[m + j - 1]
      BY <1>3, <2>4
    <2>6. m \in 1..Len(calls)
      BY <1>1
    <2> HIDE DEF live
    <2>7. n - m + 1 \in 1..(Len(calls) - m + 1) /\ m + (n - m + 1) - 1 = n
      BY <1>1, <2>3, <2>5, <2>6, SMTT(60)
    <2>8. PrunedCalls[n - m + 1] = calls[n]
      BY <2>5, <2>7
    <2>9. Len(PrunedCalls) - Len(admitted) + i = n - m + 1
      BY <1>1, <2>1, <2>2, <2>5, <2>6
    <2> QED BY <2>3, <2>7, <2>8, <2>9, SMTT(60)
  <1> QED BY <1>3, <1>4

\* Pruning drops none of the events still in their window.
LEMMA TokensPruned ==
  ASSUME Types, TokensAligned, AdmittedInOrder
  PROVE  /\ Len(PrunedTokens) \in Nat /\ Len(admitted) <= Len(PrunedTokens)
         /\ \A i \in DOMAIN admitted :
              LET k == Len(PrunedTokens) - Len(admitted) + i IN
              /\ PrunedTokens[k].age = admitted[i].age
              /\ PrunedTokens[k].tokens = admitted[i].tokens
  <1> DEFINE live == {i \in DOMAIN tokens : tokens[i].age <= TpmWindow}
  <1>1. /\ tokens \in Seq([age : Nat, tokens : Nat]) /\ live \in SUBSET (1..Len(tokens))
    BY DEF Types
  <1>2. /\ Len(admitted) \in Nat /\ Len(tokens) \in Nat
        /\ DOMAIN tokens = 1..Len(tokens) /\ DOMAIN admitted = 1..Len(admitted)
    BY DEF Types
  <1>3. PrunedTokens = Since(tokens, live)
    BY DEF PrunedTokens
  <1>4. /\ Len(PrunedTokens) \in Nat
        /\ live # {} =>
              \E m \in live :
                /\ \A i \in live : m <= i
                /\ Len(PrunedTokens) = Len(tokens) - m + 1
                /\ \A j \in 1..(Len(tokens) - m + 1) : PrunedTokens[j] = tokens[m + j - 1]
    <2> HIDE DEF live
    <2>1. /\ Since(tokens, live) \in Seq([age : Nat, tokens : Nat])
          /\ Len(Since(tokens, live)) <= Len(tokens)
          /\ live # {} =>
               \E m \in live :
                 /\ \A i \in live : m <= i
                 /\ Len(Since(tokens, live)) = Len(tokens) - m + 1
                 /\ \A j \in 1..(Len(tokens) - m + 1) : Since(tokens, live)[j] = tokens[m + j - 1]
      BY <1>1, SinceKeeps
    <2>2. Len(Since(tokens, live)) \in Nat
      BY <2>1
    <2> QED BY <1>3, <2>1, <2>2
  <1>5. ASSUME NEW i \in DOMAIN admitted
        PROVE  /\ Len(admitted) <= Len(PrunedTokens)
               /\ PrunedTokens[Len(PrunedTokens) - Len(admitted) + i].age = admitted[i].age
               /\ PrunedTokens[Len(PrunedTokens) - Len(admitted) + i].tokens
                    = admitted[i].tokens
    <2>1. i \in 1..Len(admitted) /\ 1 \in DOMAIN admitted
      BY DEF Types
    <2>2. PICK d \in Nat : d = Len(tokens) - Len(admitted)
      <3>1. Len(admitted) <= Len(tokens)
        BY DEF TokensAligned
      <3>2. Len(tokens) - Len(admitted) \in Nat
        BY <1>2, <3>1
      <3> QED BY <3>2
    <2>3. \A j \in DOMAIN admitted : /\ tokens[d + j].age = admitted[j].age
                                     /\ tokens[d + j].tokens = admitted[j].tokens
      BY <2>2 DEF TokensAligned
    <2>4. d + 1 \in 1..Len(tokens) /\ d + i \in 1..Len(tokens)
      BY <1>2, <2>1, <2>2
    <2>5. d + 1 \in live
      <3>1. tokens[d + 1].age <= TpmWindow
        BY <2>1, <2>3 DEF AdmittedInOrder
      <3> QED BY <1>2, <2>4, <3>1
    <2>6. PICK m \in live :
                /\ m <= d + 1
                /\ Len(PrunedTokens) = Len(tokens) - m + 1
                /\ \A j \in 1..(Len(tokens) - m + 1) : PrunedTokens[j] = tokens[m + j - 1]
      BY <1>4, <2>5
    <2>7. m \in 1..Len(tokens)
      BY <1>1
    <2> HIDE DEF live
    <2>8. /\ d + i - m + 1 \in 1..(Len(tokens) - m + 1) /\ m + (d + i - m + 1) - 1 = d + i
          /\ Len(admitted) <= Len(PrunedTokens)
          /\ Len(PrunedTokens) - Len(admitted) + i = d + i - m + 1
      BY <1>2, <2>1, <2>2, <2>6, <2>7, SMTT(60)
    <2>9. PrunedTokens[d + i - m + 1] = tokens[d + i]
      BY <2>6, <2>8
    <2> QED BY <2>1, <2>3, <2>8, <2>9
  <1>6. Len(admitted) <= Len(PrunedTokens)
    <2>1. CASE Len(admitted) = 0
      BY <1>4, <2>1
    <2>2. CASE Len(admitted) > 0
      <3>1. 1 \in DOMAIN admitted
        BY <2>2 DEF Types
      <3> QED BY <1>5, <3>1
    <2> QED BY <1>2, <2>1, <2>2
  <1> QED BY <1>4, <1>5, <1>6

\* A worker that only prunes.
LEMMA PruningAligned ==
  ASSUME Types, ThrottleInv,
         calls' = PrunedCalls, tokens' = PrunedTokens, UNCHANGED <<options, admitted>>
  PROVE  ThrottleInv'
  <1>1. CallsAligned'
    <2>1. options.max_rps \in Bound /\ calls \in Seq(Nat)
      BY PanelConstants DEF Types
    <2>2. /\ Len(PrunedCalls) \in Nat /\ Len(PrunedCalls) <= Len(calls)
          /\ \A i \in DOMAIN admitted : admitted[i].age <= RpsWindow =>
               LET k == Len(PrunedCalls) - Len(admitted) + i IN
               k >= 1 /\ PrunedCalls[k] = admitted[i].age
      BY CallsPruned DEF ThrottleInv
    <2>3. options.max_rps # None => Len(PrunedCalls) <= options.max_rps
      BY <2>1, <2>2 DEF ThrottleInv, CallsAligned, Bound
    <2> QED BY <2>2, <2>3 DEF CallsAligned
  <1>2. TokensAligned'
    BY TokensPruned DEF ThrottleInv, TokensAligned
  <1>3. AdmittedInOrder' /\ WithinTpm'
    BY DEF ThrottleInv, AdmittedInOrder, WithinTpm
  <1> QED BY <1>1, <1>2, <1>3 DEF ThrottleInv

\* What admitting a call does to the three logs, index by index.
LEMMA AdmitAppends ==
  ASSUME Types, NEW r \in Request, Admit(r)
  PROVE  /\ Len(calls') = Len(PrunedCalls) + 1 /\ calls'[Len(PrunedCalls) + 1] = 0
         /\ \A i \in 1..Len(PrunedCalls) : calls'[i] = PrunedCalls[i]
         /\ Len(tokens') = Len(PrunedTokens) + 1
         /\ tokens'[Len(PrunedTokens) + 1] = [age |-> 0, tokens |-> Estimate[r]]
         /\ \A i \in 1..Len(PrunedTokens) : tokens'[i] = PrunedTokens[i]
         /\ Len(admitted') = Len(admitted) + 1
         /\ admitted'[Len(admitted) + 1]
              = [age |-> 0, tokens |-> Estimate[r], oversize |-> Oversize(r)]
         /\ \A i \in 1..Len(admitted) : admitted'[i] = admitted[i]
  <1>1. ASSUME NEW S, NEW T, NEW s \in Seq(S), NEW e
        PROVE  /\ Len(Append(s, e)) = Len(s) + 1 /\ Append(s, e)[Len(s) + 1] = e
               /\ \A i \in 1..Len(s) : Append(s, e)[i] = s[i]
    OBVIOUS
  <1>2. PrunedCalls \in Seq(Nat) /\ PrunedTokens \in Seq([age : Nat, tokens : Nat])
    BY PrunedTypes
  <1>3. admitted \in Seq([age : Nat, tokens : Nat, oversize : BOOLEAN])
    BY DEF Types
  <1>4. PICK a : a = [age |-> 0, tokens |-> Estimate[r]]
    OBVIOUS
  <1>5. PICK b : b = [age |-> 0, tokens |-> Estimate[r], oversize |-> Oversize(r)]
    OBVIOUS
  <1>6. /\ calls' = Append(PrunedCalls, 0) /\ tokens' = Append(PrunedTokens, a)
        /\ admitted' = Append(admitted, b)
    BY <1>4, <1>5 DEF Admit
  <1>7. /\ Len(calls') = Len(PrunedCalls) + 1 /\ calls'[Len(PrunedCalls) + 1] = 0
        /\ \A i \in 1..Len(PrunedCalls) : calls'[i] = PrunedCalls[i]
    BY <1>1, <1>2, <1>6
  <1>8. /\ Len(tokens') = Len(PrunedTokens) + 1 /\ tokens'[Len(PrunedTokens) + 1] = a
        /\ \A i \in 1..Len(PrunedTokens) : tokens'[i] = PrunedTokens[i]
    BY <1>1, <1>2, <1>6
  <1>9. /\ Len(admitted') = Len(admitted) + 1 /\ admitted'[Len(admitted) + 1] = b
        /\ \A i \in 1..Len(admitted) : admitted'[i] = admitted[i]
    BY <1>1, <1>3, <1>6
  <1> QED BY <1>4, <1>5, <1>7, <1>8, <1>9

\* A worker that is admitted.
LEMMA AdmittingAligned ==
  ASSUME Types, ThrottleInv, NEW r \in Request, ~Unanswerable, WaitNeeded(r) = 0, Admit(r)
  PROVE  CallsAligned' /\ TokensAligned' /\ AdmittedInOrder'
  <1>1. /\ options' = options /\ options.max_rps \in Bound
    BY PanelConstants DEF Types, Admit
  <1>2. Len(admitted) \in Nat /\ Len(PrunedCalls) \in Nat /\ Len(PrunedTokens) \in Nat
    BY PrunedTypes DEF Types
  <1>3. /\ DOMAIN admitted = 1..Len(admitted)
        /\ DOMAIN admitted' = 1..(Len(admitted) + 1)
    BY AdmitAppends, TypesInvariant, <1>2 DEF Types, Admit
  <1>4. /\ admitted'[Len(admitted) + 1].age = 0
        /\ admitted'[Len(admitted) + 1].tokens = Estimate[r]
    <2>1. admitted'[Len(admitted) + 1]
            = [age |-> 0, tokens |-> Estimate[r], oversize |-> Oversize(r)]
      BY AdmitAppends
    <2> QED BY <2>1
  <1>5. \A i \in 1..(Len(admitted) + 1) : i \in 1..Len(admitted) \/ i = Len(admitted) + 1
    BY <1>2
  <1>6. CallsAligned'
    <2>1. options'.max_rps # None => Len(calls') <= options'.max_rps
      <3>1. options.max_rps # None => Len(PrunedCalls) < options.max_rps
        BY AdmitsWhatFits
      <3>2. Len(calls') = Len(PrunedCalls) + 1
        BY AdmitAppends
      <3>3. options.max_rps # None => options.max_rps \in Nat
        BY <1>1 DEF Bound
      <3>4. options.max_rps # None => Len(calls') <= options.max_rps
        BY <1>2, <3>1, <3>2, <3>3
      <3> QED BY <1>1, <3>4
    <2>2. ASSUME NEW i \in 1..(Len(admitted) + 1), admitted'[i].age <= RpsWindow
          PROVE  LET k == Len(calls') - Len(admitted') + i IN
                 k >= 1 /\ calls'[k] = admitted'[i].age
      <3> DEFINE k == Len(calls') - Len(admitted') + i
      <3>1. Len(calls') = Len(PrunedCalls) + 1 /\ Len(admitted') = Len(admitted) + 1
        BY AdmitAppends
      <3>2. k = Len(PrunedCalls) - Len(admitted) + i
        BY <1>2, <3>1
      <3>3. CASE i \in 1..Len(admitted)
        <4>1. admitted'[i] = admitted[i]
          BY <3>3, AdmitAppends
        <4>2. /\ Len(PrunedCalls) - Len(admitted) + i >= 1
              /\ PrunedCalls[Len(PrunedCalls) - Len(admitted) + i] = admitted[i].age
          BY <1>3, <2>2, <3>3, <4>1, CallsPruned DEF ThrottleInv
        <4>3. k \in 1..Len(PrunedCalls) /\ PrunedCalls[k] = admitted[i].age
          BY <1>2, <3>2, <3>3, <4>2
        <4> HIDE DEF k
        <4>4. calls'[k] = PrunedCalls[k]
          BY <4>3, AdmitAppends
        <4> QED BY <1>2, <4>1, <4>3, <4>4 DEF k
      <3>4. CASE i = Len(admitted) + 1
        <4>1. k = Len(PrunedCalls) + 1 /\ k >= 1
          BY <1>2, <3>2, <3>4
        <4> HIDE DEF k
        <4>2. calls'[k] = 0
          BY <4>1, AdmitAppends
        <4> QED BY <1>4, <3>4, <4>1, <4>2 DEF k
      <3> QED BY <1>5, <3>3, <3>4
    <2> QED BY <1>3, <2>1, <2>2 DEF CallsAligned
  <1>7. TokensAligned'
    <2>1. Len(tokens') = Len(PrunedTokens) + 1 /\ Len(admitted') = Len(admitted) + 1
      BY AdmitAppends
    <2>2. /\ Len(admitted) <= Len(PrunedTokens)
          /\ \A i \in DOMAIN admitted :
              LET k == Len(PrunedTokens) - Len(admitted) + i IN
              /\ PrunedTokens[k].age = admitted[i].age
              /\ PrunedTokens[k].tokens = admitted[i].tokens
      BY TokensPruned DEF ThrottleInv
    <2>3. ASSUME NEW i \in 1..(Len(admitted) + 1)
          PROVE  LET k == Len(tokens') - Len(admitted') + i IN
                 tokens'[k].age = admitted'[i].age /\ tokens'[k].tokens = admitted'[i].tokens
      <3> DEFINE k == Len(tokens') - Len(admitted') + i
      <3>1. k = Len(PrunedTokens) - Len(admitted) + i
        BY <1>2, <2>1
      <3>2. CASE i \in 1..Len(admitted)
        <4>1. /\ PrunedTokens[k].age = admitted[i].age
              /\ PrunedTokens[k].tokens = admitted[i].tokens
          BY <1>3, <2>2, <3>1, <3>2
        <4>2. k \in 1..Len(PrunedTokens)
          BY <1>2, <2>2, <3>1, <3>2
        <4> HIDE DEF k
        <4>3. tokens'[k] = PrunedTokens[k] /\ admitted'[i] = admitted[i]
          BY <3>2, <4>2, AdmitAppends
        <4> QED BY <4>1, <4>3 DEF k
      <3>3. CASE i = Len(admitted) + 1
        <4>1. k = Len(PrunedTokens) + 1
          BY <1>2, <3>1, <3>3
        <4> HIDE DEF k
        <4>2. tokens'[k] = [age |-> 0, tokens |-> Estimate[r]]
          BY <4>1, AdmitAppends
        <4> QED BY <1>4, <3>3, <4>2 DEF k
      <3> QED BY <1>5, <3>2, <3>3
    <2>4. Len(admitted') <= Len(tokens')
      BY <1>2, <2>1, <2>2
    <2> QED BY <1>3, <2>3, <2>4 DEF TokensAligned
  <1>8. AdmittedInOrder'
    <2>1. \A i \in 1..Len(admitted) : admitted[i].age \in Nat
      <3> TAKE i \in 1..Len(admitted)
      <3>1. admitted \in Seq([age : Nat, tokens : Nat, oversize : BOOLEAN])
        BY DEF Types
      <3>2. admitted[i] \in [age : Nat, tokens : Nat, oversize : BOOLEAN]
        BY <1>3, <3>1, ElementTyped
      <3> QED BY <3>2
    <2>2. \A i \in 1..Len(admitted) : admitted'[i] = admitted[i]
      BY AdmitAppends
    <2>3. /\ \A i \in 1..Len(admitted) : admitted[i].age <= TpmWindow
          /\ \A i, j \in 1..Len(admitted) : i <= j => admitted[j].age <= admitted[i].age
      BY <1>3 DEF ThrottleInv, AdmittedInOrder
    <2>4. TpmWindow \in Nat
      BY PanelConstants
    <2>5. \A i \in 1..(Len(admitted) + 1) : admitted'[i].age <= TpmWindow
      BY <1>4, <1>5, <2>2, <2>3, <2>4
    <2>6. ASSUME NEW i \in 1..(Len(admitted) + 1), NEW j \in 1..(Len(admitted) + 1), i <= j
          PROVE  admitted'[j].age <= admitted'[i].age
      <3>1. CASE j \in 1..Len(admitted)
        <4>1. i \in 1..Len(admitted)
          BY <2>6, <3>1
        <4> QED BY <2>2, <2>3, <2>6, <3>1, <4>1
      <3>2. CASE j = Len(admitted) + 1
        <4>1. admitted'[i].age \in Nat
          BY <1>4, <1>5, <2>1, <2>2
        <4> QED BY <1>4, <3>2, <4>1
      <3> QED BY <1>5, <3>1, <3>2
    <2> QED BY <1>1, <1>3, <2>5, <2>6 DEF AdmittedInOrder
  <1> QED BY <1>6, <1>7, <1>8

\* Every estimate on record is a natural number.
LEMMA TokensTyped ==
  ASSUME Types
  PROVE  /\ Len(admitted) \in Nat /\ \A i \in 1..Len(admitted) : admitted[i].tokens \in Nat
         /\ Len(PrunedTokens) \in Nat
         /\ \A i \in 1..Len(PrunedTokens) : PrunedTokens[i].tokens \in Nat
  <1>1. /\ admitted \in Seq([age : Nat, tokens : Nat, oversize : BOOLEAN])
        /\ DOMAIN admitted = 1..Len(admitted) /\ Len(admitted) \in Nat
    BY DEF Types
  <1>2. PrunedTokens \in Seq([age : Nat, tokens : Nat])
    BY PrunedTypes
  <1>3. DOMAIN PrunedTokens = 1..Len(PrunedTokens) /\ Len(PrunedTokens) \in Nat
    BY <1>2
  <1>4. ASSUME NEW i \in 1..Len(admitted)
        PROVE  admitted[i].tokens \in Nat
    <2>1. admitted[i] \in [age : Nat, tokens : Nat, oversize : BOOLEAN]
      BY <1>1, ElementTyped
    <2> QED BY <2>1
  <1>5. ASSUME NEW i \in 1..Len(PrunedTokens)
        PROVE  PrunedTokens[i].tokens \in Nat
    <2>1. PrunedTokens[i] \in [age : Nat, tokens : Nat]
      BY <1>2, <1>3, ElementTyped
    <2> QED BY <2>1
  <1> QED BY <1>1, <1>3, <1>4, <1>5

\* The budget of max_tpm is kept by every admission that could keep it.
LEMMA AdmittingWithinTpm ==
  ASSUME Types, ThrottleInv, NEW r \in Request, ~Unanswerable, WaitNeeded(r) = 0, Admit(r)
  PROVE  WithinTpm'
  <1>1. PICK A \in Nat : A = Len(admitted)
    BY TokensTyped
  <1>2. /\ A + 1 \in Nat /\ Len(PrunedTokens) \in Nat /\ Estimate[r] \in Nat
        /\ \A i \in 1..A : admitted[i].tokens \in Nat
        /\ \A i \in 1..Len(PrunedTokens) : PrunedTokens[i].tokens \in Nat
    BY <1>1, TokensTyped, PanelConstants
  <1>3. PICK grown : grown = admitted'
    OBVIOUS
  <1>4. /\ Len(grown) = A + 1
        /\ grown[A + 1].tokens = Estimate[r] /\ grown[A + 1].oversize = Oversize(r)
        /\ \A i \in 1..A : grown[i] = admitted[i]
    <2>1. /\ Len(grown) = A + 1
          /\ grown[A + 1] = [age |-> 0, tokens |-> Estimate[r], oversize |-> Oversize(r)]
          /\ \A i \in 1..A : grown[i] = admitted[i]
      BY <1>1, <1>3, AdmitAppends
    <2> QED BY <2>1
  <1>5. /\ \A i \in 0..A : TokenSums(grown)[i] = TokenSums(admitted)[i]
        /\ TokenSums(grown)[A + 1] = TokenSums(admitted)[A] + Estimate[r]
    <2>1. \A i \in 1..A : grown[i].tokens = admitted[i].tokens
      BY <1>4
    <2>2. grown[A + 1].tokens \in Nat
      BY <1>2, <1>4
    <2>3. /\ \A i \in 0..A : TokenSums(grown)[i] = TokenSums(admitted)[i]
          /\ TokenSums(grown)[A + 1] = TokenSums(admitted)[A] + grown[A + 1].tokens
      <3>1. \A i \in 1..A : admitted[i].tokens \in Nat /\ grown[i].tokens = admitted[i].tokens
        BY <1>2, <2>1
      <3>2. Longer(admitted, grown, A)
        BY <1>1, <1>4, <2>2, <3>1 DEF Longer
      <3> QED BY <3>2, GrownSums
    <2> QED BY <1>4, <2>3
  <1>6. /\ TokenSums(admitted)[A] \in Nat /\ TokenSum(PrunedTokens) \in Nat
        /\ TokenSums(admitted)[A] <= TokenSum(PrunedTokens)
    <2>1. /\ A <= Len(PrunedTokens)
          /\ \A i \in DOMAIN admitted :
               PrunedTokens[Len(PrunedTokens) - A + i].tokens = admitted[i].tokens
      BY <1>1, TokensPruned DEF ThrottleInv
    <2>2. Len(PrunedTokens) - A \in Nat
      BY <1>2, <2>1
    <2>3. PICK d \in Nat : d = Len(PrunedTokens) - A
      BY <2>2
    <2>4. \A i \in 1..A : admitted[i].tokens = PrunedTokens[d + i].tokens
      <3>1. DOMAIN admitted = 1..A
        BY <1>1 DEF Types
      <3> QED BY <2>1, <2>3, <3>1
    <2>5. Len(PrunedTokens) = d + A /\ A \in 0..A
      BY <1>2, <2>3
    <2>6. /\ TokenSums(admitted)[A] \in Nat /\ TokenSums(PrunedTokens)[d + A] \in Nat
          /\ TokenSums(admitted)[A] <= TokenSums(PrunedTokens)[d + A]
      BY <1>1, <1>2, <2>4, <2>5, TailSums, ZenonT(60)
    <2> QED BY <2>5, <2>6 DEF TokenSum
  <1>7. options' = options /\ options.max_tpm \in Bound
    BY PanelConstants DEF Types, Admit
  <1>8. ASSUME options.max_tpm # None, NEW i \in 1..(A + 1)
        PROVE  grown[i].oversize \/ TokenSums(grown)[i] <= options.max_tpm
    <2>1. CASE i \in 1..A
      <3>1. DOMAIN admitted = 1..A
        BY <1>1 DEF Types
      <3>2. admitted[i].oversize \/ TokenSums(admitted)[i] <= options.max_tpm
        BY <1>8, <2>1, <3>1 DEF ThrottleInv, WithinTpm
      <3>3. i \in 0..A
        BY <2>1
      <3> QED BY <1>4, <1>5, <2>1, <3>2, <3>3
    <2>2. CASE i = A + 1
      <3>1. Oversize(r) \/ TokenSum(PrunedTokens) + Estimate[r] <= options.max_tpm
        BY <1>8, AdmitsWhatFits
      <3>2. options.max_tpm \in Nat
        BY <1>7, <1>8 DEF Bound
      <3>3. Oversize(r) \/ TokenSums(admitted)[A] + Estimate[r] <= options.max_tpm
        BY <1>2, <1>6, <3>1, <3>2
      <3> QED BY <1>4, <1>5, <2>2, <3>3
    <2> QED BY <2>1, <2>2
  <1>9. DOMAIN admitted' = 1..(A + 1)
    <2>1. Oversize(r) \in BOOLEAN
      BY DEF Oversize
    <2>2. PICK call \in [age : Nat, tokens : Nat, oversize : BOOLEAN] :
            call = [age |-> 0, tokens |-> Estimate[r], oversize |-> Oversize(r)]
      BY <1>2, <2>1
    <2>3. admitted \in Seq([age : Nat, tokens : Nat, oversize : BOOLEAN])
      BY DEF Types
    <2>4. admitted' = Append(admitted, call)
      BY <2>2 DEF Admit
    <2>5. admitted' \in Seq([age : Nat, tokens : Nat, oversize : BOOLEAN])
      BY <2>3, <2>4, AppendTyped
    <2> QED BY <1>3, <1>4, <2>5
  <1> QED BY <1>3, <1>7, <1>8, <1>9 DEF WithinTpm

\* Time ages what was admitted and drops, from the front, what leaves the
\* window.
LEMMA TickShifts ==
  ASSUME Types, Tick
  PROVE  \E m \in Nat :
           /\ m <= Len(admitted) /\ Len(admitted') = Len(admitted) - m
           /\ DOMAIN admitted' = 1..(Len(admitted) - m)
           /\ \A j \in 1..(Len(admitted) - m) :
                /\ admitted'[j].age = admitted[m + j].age + 1
                /\ admitted'[j].tokens = admitted[m + j].tokens
                /\ admitted'[j].oversize = admitted[m + j].oversize
           /\ m < Len(admitted) => admitted[m + 1].age + 1 <= TpmWindow
  <1> DEFINE Admission == [age : Nat, tokens : Nat, oversize : BOOLEAN]
             aged == [i \in DOMAIN admitted |-> [admitted[i] EXCEPT !.age = @ + 1]]
             live == {i \in DOMAIN admitted : admitted[i].age + 1 <= TpmWindow}
  <1>1. admitted \in Seq(Admission)
    BY DEF Types
  <1>2. /\ DOMAIN admitted = 1..Len(admitted) /\ Len(admitted) \in Nat
    <2> HIDE DEF Admission
    <2> QED BY <1>1
  <1>3. ASSUME NEW i \in DOMAIN admitted
        PROVE  /\ aged[i] \in Admission /\ aged[i].age = admitted[i].age + 1
               /\ aged[i].tokens = admitted[i].tokens
               /\ aged[i].oversize = admitted[i].oversize
    <2>1. PICK e \in Admission : e = admitted[i]
      <3> HIDE DEF Admission
      <3> QED BY <1>1, ElementTyped
    <2>2. aged[i] = [e EXCEPT !.age = e.age + 1]
      BY <2>1
    <2> HIDE DEF aged
    <2> QED BY <2>1, <2>2
  <1>4. admitted' = Since(aged, live)
    BY DEF Tick
  <1>5. live \in SUBSET (1..Len(admitted))
    <2>1. live \in SUBSET DOMAIN admitted
      OBVIOUS
    <2> HIDE DEF live
    <2> QED BY <1>2, <2>1
  <1>6. DOMAIN aged = 1..Len(admitted)
    BY <1>2
  <1>7. \A i \in live : admitted[i].age + 1 <= TpmWindow
    OBVIOUS
  <1> HIDE DEF aged, live, Admission
  <1>8. aged \in Seq(Admission) /\ Len(aged) = Len(admitted)
    <2>1. aged \in [DOMAIN admitted -> Admission]
      <3>1. aged = [i \in DOMAIN admitted |-> aged[i]]
        BY DEF aged
      <3> QED BY <1>3, <3>1
    <2> QED BY <1>1, <2>1, MapTyped
  <1>9. admitted' \in Seq(Admission)
    BY <1>4, <1>5, <1>8, SinceKeeps
  <1>10. DOMAIN admitted' = 1..Len(admitted') /\ Len(admitted') \in Nat
    BY <1>9
  <1>11. CASE live = {}
    <2>1. Len(admitted') = 0
      BY <1>4, <1>11 DEF Since
    <2>2. Len(admitted) - Len(admitted) = 0 /\ 1..0 = {}
      BY <1>2
    <2> WITNESS Len(admitted) \in Nat
    <2> QED BY <1>2, <1>10, <2>1, <2>2
  <1>12. CASE live # {}
    <2>1. PICK first \in live :
            /\ Len(Since(aged, live)) = Len(aged) - first + 1
            /\ \A j \in 1..(Len(aged) - first + 1) : Since(aged, live)[j] = aged[first + j - 1]
      BY <1>5, <1>8, <1>12, SinceKeeps
    <2>2. first \in 1..Len(admitted)
      BY <1>5
    <2>3. PICK m \in Nat : m = first - 1 /\ m < Len(admitted)
      BY <1>2, <2>2
    <2>4. Len(admitted') = Len(admitted) - m
      BY <1>2, <1>4, <1>8, <2>1, <2>2, <2>3
    <2>5. ASSUME NEW j \in 1..(Len(admitted) - m)
          PROVE  /\ admitted'[j].age = admitted[m + j].age + 1
                 /\ admitted'[j].tokens = admitted[m + j].tokens
                 /\ admitted'[j].oversize = admitted[m + j].oversize
      <3>1. /\ j \in 1..(Len(aged) - first + 1) /\ first + j - 1 = m + j
            /\ m + j \in DOMAIN admitted
        BY <1>2, <1>8, <2>2, <2>3
      <3>2. admitted'[j] = aged[m + j]
        BY <1>4, <2>1, <3>1
      <3> QED BY <1>3, <3>1, <3>2
    <2>6. m + 1 = first /\ admitted[m + 1].age + 1 <= TpmWindow
      BY <1>7, <2>2, <2>3
    <2>7. m <= Len(admitted)
      BY <1>2, <2>3
    <2> WITNESS m \in Nat
    <2> QED BY <1>10, <2>4, <2>5, <2>6, <2>7
  <1> QED BY <1>11, <1>12

\* Time keeps the logs aligned.
LEMMA TickAligned ==
  ASSUME Types, ThrottleInv, Tick
  PROVE  ThrottleInv'
  <1>1. PICK A \in Nat : A = Len(admitted) /\ DOMAIN admitted = 1..A
    BY DEF Types
  <1>2. PICK m \in Nat :
           /\ m <= A /\ Len(admitted') = A - m
           /\ DOMAIN admitted' = 1..(A - m)
           /\ \A j \in 1..(A - m) : /\ admitted'[j].age = admitted[m + j].age + 1
                                    /\ admitted'[j].tokens = admitted[m + j].tokens
                                    /\ admitted'[j].oversize = admitted[m + j].oversize
           /\ m < A => admitted[m + 1].age + 1 <= TpmWindow
    BY <1>1, TickShifts
  <1>3. \A j \in 1..(A - m) : m + j \in 1..A
    BY <1>1, <1>2
  <1>4. /\ \A i \in 1..A : admitted[i].age \in Nat
        /\ RpsWindow \in Nat /\ TpmWindow \in Nat
    <2>1. admitted \in Seq([age : Nat, tokens : Nat, oversize : BOOLEAN])
      BY DEF Types
    <2>2. ASSUME NEW i \in 1..A
          PROVE  admitted[i].age \in Nat
      <3>1. admitted[i] \in [age : Nat, tokens : Nat, oversize : BOOLEAN]
        BY <1>1, <2>1, ElementTyped
      <3> QED BY <3>1
    <2> QED BY <2>2, PanelConstants
  <1>5. options' = options
    BY DEF Tick
  <1>6. CallsAligned'
    <2>1. /\ calls \in Seq(Nat)
          /\ calls' = [i \in DOMAIN calls |-> Older(calls[i], RpsWindow)]
      BY DEF Types, Tick
    <2>2. /\ Len(calls) \in Nat /\ DOMAIN calls = 1..Len(calls)
      BY <2>1
    <2>3. calls' \in [DOMAIN calls -> Nat]
      BY <1>4, <2>1 DEF Older
    <2>4. Len(calls') = Len(calls)
      BY <2>1, <2>3, MapTyped
    <2>5. ASSUME NEW j \in 1..(A - m), admitted'[j].age <= RpsWindow
          PROVE  LET k == Len(calls') - Len(admitted') + j IN
                 k >= 1 /\ calls'[k] = admitted'[j].age
      <3>1. admitted[m + j].age <= RpsWindow /\ m + j \in 1..A
        BY <1>2, <1>3, <1>4, <2>5
      <3>2. PICK n \in Int : n = Len(calls) - A + (m + j)
        BY <2>2
      <3>3. n >= 1 /\ calls[n] = admitted[m + j].age
        BY <1>1, <3>1, <3>2 DEF ThrottleInv, CallsAligned
      <3>4. n \in DOMAIN calls
        BY <1>1, <1>2, <2>2, <3>1, <3>2, <3>3
      <3>5. calls'[n] = Older(calls[n], RpsWindow)
        BY <2>1, <3>4
      <3>6. calls'[n] = admitted[m + j].age + 1
        BY <1>4, <3>1, <3>3, <3>5 DEF Older
      <3>7. Len(calls') - Len(admitted') + j = n
        BY <1>2, <2>2, <2>4, <3>2
      <3> QED BY <1>2, <3>3, <3>6, <3>7
    <2>6. options.max_rps # None => Len(calls) <= options.max_rps
      BY DEF ThrottleInv, CallsAligned
    <2> QED BY <1>2, <1>5, <2>4, <2>5, <2>6 DEF CallsAligned
  <1>7. TokensAligned'
    <2>1. /\ tokens \in Seq([age : Nat, tokens : Nat])
          /\ tokens' = [i \in DOMAIN tokens |->
                          [tokens[i] EXCEPT !.age = Older(@, TpmWindow)]]
      BY DEF Types, Tick
    <2>2. Len(tokens) \in Nat /\ DOMAIN tokens = 1..Len(tokens)
      BY <2>1
    <2>3. ASSUME NEW n \in DOMAIN tokens
          PROVE  /\ tokens'[n].age = Older(tokens[n].age, TpmWindow)
                 /\ tokens'[n].tokens = tokens[n].tokens
      <3>1. PICK e \in [age : Nat, tokens : Nat] : e = tokens[n]
        BY <2>1, ElementTyped
      <3>2. tokens'[n] = [e EXCEPT !.age = Older(e.age, TpmWindow)]
        BY <2>1, <3>1
      <3> QED BY <3>1, <3>2
    <2>4. Len(tokens') = Len(tokens)
      <3>1. PICK f : f = tokens'
        OBVIOUS
      <3>2. DOMAIN f = 1..Len(tokens)
        BY <2>1, <2>2, <3>1
      <3>3. Types'
        BY TickTypes
      <3>4. f \in Seq([age : Nat, tokens : Nat])
        BY <3>1, <3>3 DEF Types
      <3>5. DOMAIN f = 1..Len(f) /\ Len(f) \in Nat
        BY <3>4
      <3> QED BY <2>2, <3>1, <3>2, <3>5
    <2>5. Len(admitted') <= Len(tokens')
      <3>1. A <= Len(tokens)
        BY <1>1 DEF ThrottleInv, TokensAligned
      <3> QED BY <1>2, <2>2, <2>4, <3>1
    <2>6. ASSUME NEW j \in 1..(A - m)
          PROVE  LET k == Len(tokens') - Len(admitted') + j IN
                 tokens'[k].age = admitted'[j].age /\ tokens'[k].tokens = admitted'[j].tokens
      <3>1. m + j \in 1..A
        BY <1>3
      <3>2. PICK n \in Int : n = Len(tokens) - A + (m + j)
        BY <2>2
      <3>3. /\ tokens[n].age = admitted[m + j].age /\ tokens[n].tokens = admitted[m + j].tokens
            /\ A <= Len(tokens)
        BY <1>1, <3>1, <3>2 DEF ThrottleInv, TokensAligned
      <3>4. n \in DOMAIN tokens
        BY <1>1, <2>2, <3>1, <3>2, <3>3
      <3>5. admitted[m + j].age <= TpmWindow
        BY <1>1, <3>1 DEF ThrottleInv, AdmittedInOrder
      <3>6. tokens'[n].age = admitted[m + j].age + 1
        BY <1>4, <2>3, <3>1, <3>3, <3>4, <3>5 DEF Older
      <3>7. Len(tokens') - Len(admitted') + j = n
        BY <1>2, <2>2, <2>4, <3>2
      <3> QED BY <1>2, <2>3, <3>3, <3>4, <3>6, <3>7
    <2> QED BY <1>2, <2>5, <2>6 DEF TokensAligned
  <1>8. AdmittedInOrder'
    <2>1. \A i, j \in 1..A : i <= j => admitted[j].age <= admitted[i].age
      BY <1>1 DEF ThrottleInv, AdmittedInOrder
    <2>2. ASSUME NEW i \in 1..(A - m), NEW j \in 1..(A - m), i <= j
          PROVE  admitted'[j].age <= admitted'[i].age
      <3>1. m + i \in 1..A /\ m + j \in 1..A /\ m + i <= m + j
        BY <1>3, <2>2
      <3>2. admitted[m + j].age <= admitted[m + i].age
        BY <2>1, <3>1
      <3>3. admitted[m + j].age \in Nat /\ admitted[m + i].age \in Nat
        BY <1>4, <3>1
      <3>4. /\ admitted'[j].age = admitted[m + j].age + 1
            /\ admitted'[i].age = admitted[m + i].age + 1
        BY <1>2, <2>2
      <3> QED BY <3>2, <3>3, <3>4
    <2>3. ASSUME NEW j \in 1..(A - m)
          PROVE  admitted'[j].age <= TpmWindow
      <3>1. m + j \in 1..A /\ m + 1 \in 1..A /\ m + 1 <= m + j /\ m < A
        BY <1>2, <1>3
      <3> QED BY <1>2, <1>4, <2>1, <3>1, SMTT(60)
    <2> QED BY <1>2, <2>2, <2>3 DEF AdmittedInOrder
  <1>9. WithinTpm'
    <2>1. \A i \in 1..A : admitted[i].tokens \in Nat
      BY <1>1, TokensTyped
    <2>2. PICK n \in Nat : n = A - m
      BY <1>2
    <2>3. PICK tail : tail = admitted'
      OBVIOUS
    <2>4. Len(tail) = n /\ Len(admitted) = m + n
      BY <1>1, <1>2, <2>2, <2>3
    <2>5. \A i \in 1..n : tail[i].tokens = admitted[m + i].tokens
      BY <1>2, <2>2, <2>3
    <2>6. \A i \in 1..Len(admitted) : admitted[i].tokens \in Nat
      BY <1>1, <2>1
    <2>7. \A i \in 0..n : /\ TokenSums(tail)[i] \in Nat /\ TokenSums(admitted)[m + i] \in Nat
                          /\ TokenSums(tail)[i] <= TokenSums(admitted)[m + i]
      BY <2>4, <2>5, <2>6, TailSums
    <2>8. options.max_tpm \in Bound
      BY PanelConstants DEF Types
    <2>9. ASSUME options.max_tpm # None, NEW i \in 1..n
          PROVE  tail[i].oversize \/ TokenSums(tail)[i] <= options.max_tpm
      <3>1. m + i \in 1..A /\ i \in 0..n
        BY <1>3, <2>2
      <3>2. admitted[m + i].oversize \/ TokenSums(admitted)[m + i] <= options.max_tpm
        BY <1>1, <2>9, <3>1 DEF ThrottleInv, WithinTpm
      <3>3. options.max_tpm \in Nat
        BY <2>8, <2>9 DEF Bound
      <3>4. tail[i].oversize = admitted[m + i].oversize
        BY <1>2, <2>2, <2>3
      <3> QED BY <2>7, <3>1, <3>2, <3>3, <3>4
    <2> QED BY <1>2, <1>5, <2>2, <2>3, <2>9 DEF WithinTpm
  <1> QED BY <1>6, <1>7, <1>8, <1>9 DEF ThrottleInv

LEMMA ThrottleInitially ==
  ASSUME Init
  PROVE  ThrottleInv
  <1>1. /\ calls = <<>> /\ tokens = <<>> /\ admitted = <<>> /\ options \in Options
        /\ Len(calls) = 0 /\ Len(tokens) = 0 /\ Len(admitted) = 0 /\ DOMAIN admitted = {}
    BY DEF Init
  <1>2. options.max_rps \in Bound
    BY <1>1, PanelConstants
  <1> QED BY <1>1, <1>2
          DEF ThrottleInv, CallsAligned, TokensAligned, AdmittedInOrder, WithinTpm, Bound

LEMMA ThrottleInvariant ==
  ASSUME Types, ThrottleInv, [Next]_vars
  PROVE  ThrottleInv'
  <1>1. CASE Tick
    BY <1>1, TickAligned
  <1>2. ASSUME NEW r \in Request, Acquire(r)
        PROVE  ThrottleInv'
    <2>1. CASE calls' = PrunedCalls /\ tokens' = PrunedTokens /\ UNCHANGED <<options, admitted>>
      BY <2>1, PruningAligned
    <2>2. CASE ~Unanswerable /\ WaitNeeded(r) = 0 /\ Admit(r)
      BY <2>2, AdmittingAligned, AdmittingWithinTpm DEF ThrottleInv
    <2> QED BY <1>2, <2>1, <2>2 DEF Acquire
  <1>3. CASE UNCHANGED throttle
    BY <1>3 DEF throttle, ThrottleInv, CallsAligned, TokensAligned, AdmittedInOrder, WithinTpm
  <1>4. Tick \/ (\E r \in Request : Acquire(r)) \/ UNCHANGED throttle
    BY DEF Next, MainThread, Reject, Submit, Collect, WriteRecord, WriteFails, Return,
           Worker, Start, Wake, BackoffOver, Succeeds, Raises, RateLimited, FailsTransiently,
           Called, vars, throttle
  <1> QED BY <1>1, <1>2, <1>3, <1>4

\* However many workers share the throttle and whenever they wake, no window
\* ever holds more calls than max_rps, nor, apart from single calls larger than
\* the whole budget, more tokens than max_tpm (Throttle.acquire).
THEOREM WindowsKept == Spec => []WindowsRespected
  <1>1. Types /\ ThrottleInv => WindowsRespected
    <2> SUFFICES ASSUME Types, ThrottleInv PROVE WindowsRespected
      OBVIOUS
    <2> DEFINE recent == {i \in DOMAIN admitted : admitted[i].age <= RpsWindow}
               late == (Len(admitted) - Len(calls) + 1)..Len(admitted)
    <2>1. /\ Len(admitted) \in Nat /\ Len(calls) \in Nat
          /\ DOMAIN admitted = 1..Len(admitted)
      BY DEF Types
    <2>2. ASSUME NEW i \in recent
          PROVE  i \in late
      <3>1. i \in 1..Len(admitted) /\ admitted[i].age <= RpsWindow
        BY <2>1
      <3>2. Len(calls) - Len(admitted) + i >= 1
        BY <2>1, <3>1 DEF ThrottleInv, CallsAligned
      <3> QED BY <2>1, <3>1, <3>2
    <2>3. IsFiniteSet(late) /\ Cardinality(late) = Len(calls)
      <3>1. Len(admitted) - Len(calls) + 1 \in Int /\ Len(admitted) \in Int
        BY <2>1
      <3>2. PICK lo \in Int : lo = Len(admitted) - Len(calls) + 1
        BY <3>1
      <3>3. PICK hi \in Int : hi = Len(admitted)
        BY <3>1
      <3>4. /\ IsFiniteSet(lo..hi)
            /\ Cardinality(lo..hi) = IF lo > hi THEN 0 ELSE hi - lo + 1
        BY FS_Interval
      <3> QED BY <2>1, <3>2, <3>3, <3>4
    <2> HIDE DEF recent, late
    <2>4. IsFiniteSet(recent) /\ Cardinality(recent) <= Cardinality(late)
      <3>1. recent \in SUBSET late
        BY <2>2
      <3> QED BY <2>3, <3>1, FS_Subset
    <2>5. Cardinality(recent) \in Nat
      BY <2>4, FS_CardinalityType
    <2>6. options.max_rps \in Bound
      BY PanelConstants DEF Types
    <2>7. options.max_rps # None => Cardinality(recent) <= options.max_rps
      BY <2>1, <2>3, <2>4, <2>5, <2>6 DEF ThrottleInv, CallsAligned, Bound
    <2> QED BY <2>7 DEF WindowsRespected, ThrottleInv, WithinTpm, recent
  <1>2. Init => Types /\ ThrottleInv
    BY TypesInitially, ThrottleInitially
  <1>3. Types /\ ThrottleInv /\ [Next]_vars => (Types /\ ThrottleInv)'
    BY TypesInvariant, ThrottleInvariant
  <1> QED BY <1>1, <1>2, <1>3, PTL DEF Spec
=============================================================================
