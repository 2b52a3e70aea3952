# Formal model of the megálos server

TLA+ modules, TLC runs and TLAPS proofs for `megalos_server` (the session store, the
tools that drive workflow sessions over it, the remote calls they make, the loader
that decides which workflows they see, the rate limiter in front of them, the dry run
on top of them) and for the panel library `megalos_panel`. `PROJECT.json` lists components, runs,
mutants, the map from definitions to source lines, findings, hazards and theorems.

Run a model with `tlc -config X.cfg M`, check proofs with `tlapm` on `Induction.tla` and
on each `*_proofs.tla` (the longest, RateLimiter_proofs, takes two minutes).

## 1. Inventory of the system

| part | state | operations | talks to |
|---|---|---|---|
| session store (`state.py`, `db.py`) | SQLite tables `sessions`, `session_stack` | create (with eviction), update, invalidate, counters, escalation, link/unlink, artifacts, delete, expire; stack accessors | called by the tools; one `BEGIN IMMEDIATE` transaction per call |
| tools (`tools.py`) | none of their own: a row snapshot per call | `start_workflow`, `submit_step`, `revise_step`, `enter_sub_workflow`, `push_flow`, `pop_flow`, `delete_session`; read-only: `list_workflows`, `list_sessions`, `get_state`, `get_guidelines`, `generate_artifact` | store, remote MCP servers, sibling sessions (parent/child hand-off) |
| step routing (part of `tools.py`) | pure | preconditions, skip loop, guardrails, branches | used by submission, hand-off and automatic execution |
| application factory (`__init__.py`, `main.py`) | loaded workflows and fingerprints | load, validate, refuse to start | restart keeps the database and replaces the workflows |
| rate limiter, middleware (`ratelimit.py`, `middleware.py`) | token buckets per session and per address, LRU stores, deny-log cache | consult up to three axes per tool call, sweep, log | in front of every tool call |
| remote MCP calls (`mcp_client.py`, `mcp_executor.py`, `mcp_registry.py`) | validator cache of the process, an attempt counter per call | resolve arguments, fetch and cache the tool's schema, validate, call under a timeout, retry, wrap the outcome in an envelope | called from automatic steps; several threads share the cache; remote servers |
| schema (`schema.py`) | colours and stack of the cycle search | validate workflow documents, search the call graph, fingerprint | load time, from the factory; `validate.py` checks one file |
| dry run (`dryrun.py`) | its own stack of sessions, the current step id, the position in the responses file | prompt, submit, re-prompt, descend, ascend, exit code | drives the tools in process; learns only from their envelopes |
| diagram, validate, static files | none that lasts | command line tools, rendering | schema |
| identity, canonical ids, errors | a context variable, none | normalise ids, build envelopes | everywhere |
| panel library (`megalos_panel`) | rolling windows of the shared throttle, two retry counters per request, result and attempt tables | `panel_query`: resolve adapters, fan out to a thread pool, throttle, retry with two budgets, collect, write records | model providers through adapters; a JSONL file |

What is hard:

* **Interleaving.** FastMCP runs synchronous tools in worker threads. A tool call
  reads a row, decides, and then writes in up to six separate transactions. No
  transaction rechecks what an earlier one read, except the stack depth in
  `create_session`.
* **Addressing by position.** A stack frame stores a root and a depth. "The frame
  above" and "the session below" are looked up by position, while deletions,
  evictions and unlinking remove frames from the middle.
* **Hand-off between sessions.** Completing a child ends in changes of another
  session; a digression ends differently from a call; failures escalate one level.
* **Eviction** removes any session, also one that a call is working on.
* **Restart** loses the calls in flight and may load other workflow versions.
* **Remote calls.** An attempt that timed out may still be executed; the schema cache
  is read, filled over the network and written without a lock.
* **Second-hand state.** The dry run reconstructs the server's stack from answers; the
  loader's verdict is what every other part takes for granted.
* **Waiting.** Panel workers sleep outside the lock and wake together; a prompt may be
  larger than the window it waits for.
* **Clock.** Timestamps are read before the write lock is taken; the rate limiter
  tolerates readings that jump back; idle buckets are forgotten.

What makes each part correct: the store keeps its caps and a stack in which
positions mean something; a session moves in order, never stands where no client can
submit, and leaves no stale data; a session under a frame stands still until the frame
is gone; a completed child reaches the session below it; a changed workflow is
terminal; every call returns; the limiter grants no more than burst plus rate; a
remote tool runs again only for an attempt that was given up; the loader accepts
exactly the acyclic sets of workflows; the throttle's windows and the retry budgets
hold for all workers together; the dry run knows where the server is and its exit code
can be trusted.

## 2. Modules

```
StoreOps ──────┬── SessionStore ── SessionStore_proofs
               │        └───────── MCSessionStore
StepRouting ───┴── ToolCalls ──┬── DocumentedBehaviour ── MCToolCalls
                       │       └── ToolCalls_proofs ── OneThread_proofs
                       └ refines SessionStore
RateLimiter ───┬── RateLimiter_proofs
               └── MCRateLimiter
ToolCalls ──────── DryRun ── MCDryRun
StepRouting ────── Loader ──┬── MCLoader
                            └── Loader_proofs
RemoteCall  <──refines── McpClient ──┬── MCMcpClient
                                     └── McpClient_proofs
Panel ──────────┬─ MCPanel
                └─ Panel_proofs
Induction ──────── Loader_proofs, Panel_proofs, ToolCalls_proofs
```

* **StoreOps**: what the statements of one transaction do to the two tables, as
  operators on `[sessions, stack]`. Shared by the two specifications below, so the
  refinement compares two uses of one translation. `ORDER BY ... LIMIT` with ties is
  a set of choices (`EvictionChoices`); accessors that `fetchone()` are sets of
  candidates (`TopFrames`, `ParentsOf`).
* **SessionStore**: the abstract specification of the store. One action per
  transaction, taken by anybody at any time, with stale parents, a wall clock and
  timestamps up to `LockWait` ticks old. JSON columns are left out; their writers are
  the action `Touch`. `expire_sessions` is included although nothing in the server
  calls it.
* **StepRouting**: preconditions, skip loop, guardrails and branch choice as pure
  operators.
* **ToolCalls**: worker threads over the store. `th[t]` is what a thread still has to
  do. The first operation is a *decision* (the checks on the snapshot and the reads of
  the stack; it yields the next operations) or a *transaction* of `state.py`.
  A call is `StartWorkflow`, `SubmitStep`, ... (the row snapshot is taken here), then
  `Decide...`, then `Transact...` steps, each a separate step that others may precede.
  `RowGone` is the `SessionNotFoundError` path of every write. `AutoExecute` is one
  turn of the loop over mcp steps; the remote call's result is any envelope.
  `Restart` drops all threads' work and loads any loadable choice of versions.
* **DocumentedBehaviour**: what documentation, docstrings and tests say where the code
  does something else.
* **RateLimiter**: the middleware and the limiter. The middleware has no `await`
  between reading and writing buckets, so a call is one action. `ledger` and
  `emitted` are history variables that only the properties read.
* **RemoteCall**: the promise that an automatic step relies on. A call returns once, a
  success means that the server ran the tool, and it runs at most `MaxAttempts` times;
  it may run although the step reports an error, and after the step has returned. This
  is why `AutoExecute` in ToolCalls may take any envelope.
* **McpClient**: one thread per call. `call[c].pc` is where the code stands: resolving
  arguments, looking the validator up, waiting for `tools/list`, writing the cache,
  validating, sending, waiting for the answer, or in the retry loop. Each step ends
  where the code awaits the network or touches the cache. The server handles or
  refuses a request at any time, also after the client gave up; it may be redeployed
  with another listing, and the operator may set or unset the token.
* **Panel**: the main thread, one state per request (queued, in `acquire`, sleeping,
  at the provider, in backoff, done) and the throttle's two deques. Time is a tick;
  the deques hold ages, which saturate just past their window, so the model is finite
  without a clock bound. The body of `acquire` is one step because it runs under the
  lock, the sleep is not part of it.
* **Loader**: `create_app`. `validate_workflow` is the set of defects of a parsed file,
  the files arrive in any order, and `validate_workflow_calls` is modelled turn by turn
  of its loop, because its invariant is what makes it right. Names are numbers in
  sorted order.
* **DryRun**: the loop of `main()` on top of ToolCalls, whose actions are the calls. An
  envelope is not a variable of ToolCalls; `Status` reads it off what the call did to
  the rows, so an envelope that misstates the next step is outside the model. It
  starts on an empty store, where the `start_workflow` of `Launch` is never refused. An answer is classified in the order of the code: ascend, validation
  error, terminal, advance.
* **Induction**: induction on the naturals for sets of numbers, least and greatest
  elements, and that a function defined by recursion exists and obeys its equations.
  It models nothing; three of the proofs rest on it.
* **MC modules** hold the small workflows and symmetry sets.

Abstractions: content is a token; a step reference with fields below the id is the
token itself; an escalation is a flag; `called_session` is dropped (write-only);
in ToolCalls all timestamps are equal, so eviction chooses freely inside a class;
session ids are drawn when the call begins; calls that a check on the snapshot refuses
without a write are not steps; branch arguments that name no branch are not
enumerated (they change nothing). The caller identity check compares with an identity
nothing sets, and is left out. In RateLimiter, tokens are counted in units (a call
costs `Cost`) so that a tick may refill a fraction of a call, one reading of the clock
serves a whole call, and a restart is `Init`. In McpClient an argument tree is a
value that a schema accepts or not; the backoff sleep is part of the step that starts
the next attempt. In Panel request ids are distinct, a provider call ends in an answer
or one of the three error classes the adapters map to, and a throttle that is not
passed is one without bounds. In Loader a value of the wrong type or shape is one flag
per key. In DryRun the operator answers with good or bad content, chooses a branch or
closes the input; what is printed is left out.

## 3. Runs

Passing runs (states are distinct states):

| run | checks | instance |
|---|---|---|
| store | `TypeOK CapRespected FramesHaveSessions RootsUnframed ParentColumnAgrees DigressionsWithinCap CompletedEvictedFirst` | 3 ids, cap 2: the third creation evicts, possibly its own parent; digressions meet a depth cap of 1; clock and lock wait; 40 000 states |
| nested | `OrderEnforced NoStaleData CompletedFrameHandedOver` | one thread and four ids, calls two deep with retries, revisions and deletions; a child is entered again below an orphaned grandchild; 985 000 states |
| stack | `TypeOK OneFramePerSlot FramedOuterParked PausedNeverAdvances WorkflowChangedTerminal` | one thread, every tool, digressions on calls on digressions, depth cap 2, active cap 3, and one restart at any point of a call, with two versions of a workflow; 755 000 states |
| routed | `RestsOnRunnable RevisitGuardStopsLoops EscalatedNeverAdvances` | five workflows: loop with a revisit guardrail, forced branch with artifacts, mcp steps around a step that may escalate, two cascades; 2 500 states |
| races | `ImplementsStore EveryCallReturns` | two threads under fairness, three ids and a cap of 2: submissions, called sessions and an mcp step that leads back to the call-step, against deletions and evictions by the other thread between any two transactions; 54 500 states |
| handoff | `ArtifactReachesParent` | one thread, calls two deep under fairness; a cap of 2 lets a call evict its own session; 6 100 states |
| rates | `StoresBounded SessionRateBounded IpRateBounded RetryAfterSuffices LogLinesSpaced` | one session, two addresses, stores of one entry, sweep every second access; 451 000 states |
| remote | `RunsAccountedFor VerdictFromOwnSchema ImplementsRemoteCall EveryCallReturns` | two calls, of one tool or of two tools of one server whose schemas disagree, or with an unresolved argument; two attempts; one change of a listing or the token; 276 000 states |
| panel | `WindowsRespected BudgetsRespected RecordsTellTheTruth PanelReturns` | two requests, two attempts per budget; five sets of options, among them `max_rps` 0 and 1, a `max_tpm` smaller than a prompt, one worker; 200 000 states |
| loader | `CallGraphVerdict SearchSound SkipLoopAgrees LoaderDecides` | all 4 096 call graphs over three workflows and an unknown target, all pairs of preconditions over three steps, 18 documents at or just past each defect, equal names, five registries, every order of the files; 268 000 states |
| repl | `ReplMatchesServer ExitZeroMeansComplete` | a workflow that branches and calls a workflow that calls a third; an operator, or any of 7 000 responses files within two edits of a complete one; 150 000 states |

Conditions stated inside a property are conditions of the code's guarantee, met by
the run: `OrderEnforced` and `NoStaleData` are about workflows without branches and
between calls; `RestsOnRunnable` about workflows whose references avoid skippable
steps (the others are cascades, see MCDocMcpCascade); `IpRateBounded` needs an idle
TTL in which a bucket refills, less what a reading of the clock may lie back (the
sweep compares readings, so a bucket may be dropped that much early), and holds as
long as the store has room for every address seen so far (the run goes on past that
point); `LogLinesSpaced` likewise with the dedupe cache, whose TTL must exceed its
window by that much (300 s and 60 s in the code); `RetryAfterSuffices` needs a bucket that can hold one call;
`ImplementsStore` is checked in `races` for four of the tools and proved for all of them
(`ToolsImplementStore`). `EveryCallReturns` is about workflows whose mcp steps lead on, or back to a step that
waits for its client (`AutomaticStepsEnd`): the loop of `_auto_execute_mcp_steps`
(tools.py:185) follows `default_branch`, schema.py:678 checks only that its target
exists, and an mcp step that leads to itself, or over mcp steps back to it, is run again
and again until the row is deleted (no run shows it: every turn counts a visit, so the
circle has infinitely many states);
`RecordsTellTheTruth` is about answered and exhausted requests, and
`ExitZeroMeansComplete` about workflows without a tail call (the other cases are in
the table below). `RestsOnRunnable` is about where starting and submitting lead, the
tools of its run: `revise_step` to an mcp step (tools.py:1497), and entering or pushing
a workflow whose first step is one (tools.py:1594), do leave the pointer on an mcp step.
`BudgetsRespected` counts the calls of `adapter.invoke`; what the SDK behind an adapter
retries by itself is not seen. In `rates` the buckets of axis `ip` meet the bound
`MaxGrants` before the clock's, those of `ip_session_create` do not; the theorem about
`IpRateBounded` covers both for any constants.

`OrderEnforced`, `OneFramePerSlot`, `EscalatedNeverAdvances`,
`CompletedFrameHandedOver` and `ArtifactReachesParent` hold in the runs above and fail
in a second configuration each (below): a digression, a second thread, a failing child, a
tail call, a cascade breaks them. `OrderEnforced` also needs that no workflow of the run
has two call-steps (with the child of the first still there, the second can be revised)
or more than one step in front of its call-step (a revision to the first step drops the
others, and the call-step can then be revised ahead of the pointer while its child is
there), and, where `revise_step` is offered, no restart: one between the invalidation and
the move of the pointer (tools.py:1482) leaves the session beyond a step whose data is
gone. `nested` with `MaxRestarts = 1` shows it.

Bounds: `MaxClock`, `LockWait`, `ClockSkew`, `MaxGrants` (every bucket key stops at
that many grants, above what the clock of the run allows), `CountBound` (a session
whose counters reach it takes no further call), `MaxRestarts`, and `Tools` (which
tools the clients of a run call), `MaxChanges` (changes of the remote server's listing
or the token). `MaxAttempts`, the two retry budgets and the two windows are the code's
constants made small: two is the first value at which a retry, a mixed sequence of
errors and a window with an age in it exist. Two or three session ids are enough for a parent, a
child and a grandchild or a competitor; three levels are the shortest chain with a
middle to delete. `nested` needs a fourth, for the child that the root enters anew while
the grandchild of the deleted one is still on the stack. The theorems of section 4 hold
for any number of ids. Ids are interchangeable and a safety run uses that as symmetry;
the runs of liveness properties use none.

Deadlock checking is off where the system may stop: a server whose ids are used up or
whose clock is at its bound, calls that have all returned, a batch or a loader that is
done. It is on in `repl`: a dry run that has not exited can always go on, and since
every response that is read uses up an entry or a retry, a scripted run comes to an end.

Fairness (`FairSpec`): weak fairness of `Work(t)` for each thread, that is, a worker
thread that can take its next step eventually does. The interpreter schedules its
threads, and the write lock is held for one transaction. Clients owe nothing: no
fairness on calls, and none on `Restart`, which those runs bound to zero. In McpClient
it is the client's own steps (every await is under `wait_for` or an httpx timeout, so
`GiveUp` is always possible while it waits) and nothing of the server or the operator:
`EveryCallReturns` holds against a server that never answers. In Panel it is the main
thread, each worker, whose provider call returns or raises because the SDK clients have
timeouts, and the passing of time; that no worker overtakes another for ever is not
assumed, it follows because a batch is finite. In Loader it is the only thread.

### Where code and documentation disagree

Each configuration below checks one formula, which states a sentence of the
repository, and TLC finds a behaviour of the code against it. MCDocLostUpdate is a run
of `PROJECT.json`, with the quotation as a finding; the others are run by hand
(`tlc -config <cfg> <module>`).

| configuration (module) | the sentence | what the code does |
|---|---|---|
| MCDocReviseAhead (MCToolCalls) `OrderEnforced` | README.md:106 "`submit_step` rejects out-of-order submissions"; tools.py:1423 "Revise a previously completed step" | with a session above (a digression, or the child of an earlier call-step), `revise_step` on a call-step ahead of the pointer skips steps |
| MCDocLostUpdate (MCToolCalls) `NoLostUpdates` | tests/test_concurrency.py:12 "no corruption, no partial rows, no lost updates" | a submission that was overtaken writes its old `step_data` back |
| MCDocTailCall (MCToolCalls) `CompletedFrameHandedOver` | docs/AUTHORING.md:338 "the parent auto-resumes on the child's completion" | a called workflow that ends in a call-step completes and never reaches its caller |
| MCDocArtifactLost (MCToolCalls) `ArtifactReachesParent` | tools.py:678 "writes child artifact to parent.step_data[call_step_id], deletes child" | a cascade in the parent's skip loop returns after the child was deleted and before anything is persisted |
| MCDocTwoFrames (MCToolCalls) `OneFramePerSlot` | tools.py:1685 "outer must itself be at the top of its chain" | two concurrent pushes share one position |
| MCDocCleanSlate (MCToolCalls) `FreshChildHasCleanSlate` | docs/AUTHORING.md:322 "re-spawns a fresh child on the next submission — clean slate" | a grandchild's frame survives the revision and stands above the next child; once that grandchild is complete nothing hands it over, and the next child takes no submission until it is deleted (`nested`) |
| MCDocEscalated (MCToolCalls) `EscalatedNeverAdvances` | docs/AUTHORING.md:326 "the retained child is available for inspection, not continued interaction" | the escalated parent advances when the failed child completes after all |
| MCDocPausedStep (MCToolCalls) `ResumesAtPausedStep` | docs/AUTHORING.md:348 "Outer session simply resumes at `paused_at_step`" | a submission in flight moves the session a digression has paused |
| MCDocStackDepth (MCToolCalls) `StackDepthCapped` | README.md:109 "the sub-workflow stack depth caps at three" | `enter_sub_workflow` passes no depth cap |
| MCDocActiveCap (MCToolCalls) `ActiveSessionsCapped` | README.md:109 "Active sessions cap at five" | `enter_sub_workflow` does not count |
| MCDocActiveCap with this invariant in place of its own (MCToolCalls) `ChainHoldsTwoSlots` | docs/AUTHORING.md:332 "stays bounded at **two active session-cap slots**" | a chain holds a slot per level |
| MCDocRootDeletion (MCToolCalls) `RootDeletionTearsDown` | docs/AUTHORING.md:359 "When called on the root of a stack, the whole chain is torn down." | the sessions above a deleted root stay |
| MCDocMcpCascade (MCToolCalls) `McpStepNeverRestedOn` | megalos_server/MCP.md:117 "the current step is also skipped, no envelope is written" | the pointer is persisted on the mcp step |
| MCDocCheckpoints (MCToolCalls) `NoStaleCheckpoints` | README.md:107 "No stale reads survive a revision." | artifact checkpoints survive a revision |
| MCSessionStoreReopened (MCSessionStore) `ActiveEvictedByUpdatedAt` | state.py:130 "falling through to oldest active sessions (by updated_at ASC)" | a reopened session is evicted by its old `completed_at` |
| MCDocDenialCharged (MCRateLimiter) `DenialChargesNothing` | docs/rate-limits.md:25 "the first denial wins and the others aren't charged" | axes consulted before the denial were charged |
| MCDocSessionBuckets (MCRateLimiter) `SessionBucketsBounded` | ratelimit.py:201 "bounded elsewhere by SESSION_CAP" | session buckets are never dropped |
| MCDocPopulatedOnce (MCMcpClient) `PopulatedOnce` | mcp_client.py:90 "Populated on first successful fetch-and-compile for a pair; never evicted or invalidated" | two calls that miss together both write; the later one replaces the entry, possibly with the older listing |
| MCDocUniqueIds (MCLoader) `StepIdsUnique` | megalos_server/SCHEMA.md:23 "Unique step identifier within the workflow." | nothing checks it |
| MCDocAttempts (MCPanel) `AttemptsAreProviderCalls` | megalos_panel/record.py:18 "number of provider call attempts made" | a non-retryable error after retries is recorded with 1 |
| MCDocRootCompletes (MCDryRun) `CompletionIsOfTheRoot` | dryrun.py, module docstring: the loop runs "until the workflow completes or errors" | a called workflow that ends in a call-step completes, and the run exits with 0 while the target workflow is unfinished |
| MCDocBranchKept (MCDryRun) `BranchChoiceKept` | the prompt confirms the chosen branch (dryrun.py:279) | the re-prompt after a validation error submits without it, and the default branch is taken |

## 4. Proofs

The assumptions are the named `ASSUME`s of the modules (`StoreAssumption`,
`SessionStoreAssumption`, `ToolCallsAssumption`, `WorkflowsAssumption`,
`RateLimiterAssumption`, `McpClientConstants`, `McpClientChoices`, `PanelConstants`,
`LoaderConstants`); TLC evaluates them in every run. No constant is bounded by them: the theorems hold for any number of sessions, threads,
addresses, calls, requests, workers, files, and any caps, rates, windows and budgets.
`WorkflowsAssumption` says of a workflow what `create_app` lets through, and that no step
is called `__workflow_changed__`, which nothing checks.

**`SessionStore_proofs`** proves every property of the run `store`.

* `TypeCorrect`, `FramesKeepSessions`, `RootsStayUnframed`, `StackAgreesWithColumn`
  from one inductive invariant
  `IInv == TypeOK /\ FramesHaveSessions /\ RootsUnframed /\ ParentColumnAgrees`.
  None of the last three is inductive alone: a new frame copies the root of its
  parent's frame, so that its root is unframed needs `RootsUnframed` of the parent and
  that the new id, not minted before, is nobody's root (`TypeOK`); the agreement with
  the parent column needs that frames have rows. All steps but the creations only take
  rows and frames away or rewrite columns the invariant does not read; one lemma
  (`ShrinkIInv`) covers them, and `NextShape` splits the steps that way.
* `CapHolds`, with finiteness of the table as the strengthening, from a lemma that
  an eviction choice leaves fewer than `SessionCap` rows.
* `EvictionTakesCompletedFirst` and `DigressionsStayWithinCap`, properties of steps.

**`RateLimiter_proofs`** proves every property of the run `rates`. What was granted
says nothing of what a bucket still holds, nor of buckets that were dropped, so no
bound is inductive. The invariant keeps books per key of an axis (`Books`): for a
bucket that is held, what was granted plus what is left is at most the burst plus what
was refilled up to `last_refill`, and `last_refill` is never in the future
(`Balanced`); a bucket that was dropped by a sweep has been idle long enough to have
refilled, so the same holds of the full bucket it comes back as (`Forgotten`); and a
denied key will have enough tokens at the promised time (`Promises`). That an eviction
by count never drops a bucket while the store has room is a counting argument over
distinct keys (`NoMoreThanKeys`). The lemmas on ordered dicts (`StoreWritten`,
`StoreKept`) carry the invariant through access, sweep and eviction, and
`ConsultEffect` says that a consultation changes its own axis only, so the axes are
treated alike. `LogInv` is the same idea for the deny log: what the cache no longer
knows was logged longer than its TTL ago. Two conditions were found by these proofs,
those on the clock skew in `IpRateBounded` and `LogLinesSpaced` (section 3).

**`McpClient_proofs`** proves every safety property of the run `remote`, in layers: `AccountInv`
counts the requests still on the wire as runs that may come and bounds them by the
attempts given up (`RunsAccountedFor` does not mention the wire, so it is not
inductive); `JudgeInv` says that the cache and the validator a call holds come from the
tool's own listings. `RefinesRemoteCall` is step by step: the client's steps map to
begin, run or return of `RemoteCall`, the rest to stutters; that an attempt past
`MaxAttempts` never runs is the second half of `Accounted`.

**`Panel_proofs`** proves the three safety properties of the run `panel`. `Spent`
relates a worker's place in the retry loop, its two counters and the provider calls
made for it, and from it come `WithinBudgets` and `RecordsTrue`. `WindowsKept` relates the
two deques, which a thread prunes at its own pace, to what was really admitted: the
deque of calls ends with what lies in the window (`CallsAligned`), the deque of tokens
with everything admitted in its window (`TokensAligned`), and each admission kept the
sum of the tokens from the oldest entry in the window on within `max_tpm`. Sums over
a deque are running sums (`TokenSums`), a recursive function whose equations
`Induction!Recursion` provides.

**`Loader_proofs`** proves the two properties of `validate_workflow_calls` for every set of workflow
files. `SearchIsSound` needs what every white-gray-black search keeps: the gray nodes
are the stack, each once, a chain of calls (`Open`); what black nodes call is black and
none of them reaches itself (`Closed`); errors have reasons (`Reported`). `VerdictIsRight`
is the argument why that is enough: when the stack is empty every node is black, and a
set closed under calls in which no node reaches itself has no cycle; conversely a
reported cycle can be walked, so its first node reaches itself. `Within`, the set of
nodes reachable in so many calls, is a recursive function; `Recursion` shows that it
obeys its equations and `InductiveSet` carries the induction on the length of a walk.

It also proves `SkipLoopAgrees` (`ReadingsAgree`): the two places of `tools.py` that judge a
precondition agree on every workflow the loader accepts. The invariant is `Loaded`: what was
accepted refers backward only (`AcceptedIsBackward`, from `validate_workflow`'s own test), so
what `_compute_skipped_steps` adds at or after a step is never what that step's precondition
asks about. The hypothesis `AllParsed` says what no check of the loader does and the model's
documents satisfy: ids are distinct, none is `__complete__` (with either, `IndexOf` finds
another step), and the precondition of an mcp step, which is not validated, is not one on
which the evaluator raises.

**`ToolCalls_proofs`** proves what the tools keep for any number of threads, whatever they
interleave: `TypeOK` (`TypeCorrect`), `WorkflowChangedTerminal` (`MarkerIsTerminal`) and the
refinement `ImplementsStore` (`ToolsImplementStore`). A thread acts on a snapshot that may
be long out of date, so the invariant must say why a plan still fits the row when it is
carried out. `IInv == StoreOK /\ LiveOK /\ ThreadsOK /\ IdsOK`: a session never changes its
workflow or the version it was resolved with, so a step that was valid when it was chosen
is valid when it is written; the marker `__workflow_changed__` is only written to a session
that no longer resolves, and nothing that no longer resolves is moved by any plan; an id is
drawn once (`Reserved`), so a plan for a deleted session meets no row and never another
session. Lemmas on step routing (a branch, a loop and the skip loop end on a step of the
same workflow or at `__complete__`; the step where the skip loop stops is a least element,
from `Induction`) and
one lemma per operation and per decision feed the step lemma. The refinement is step by
step: a transaction that writes a JSON column is a `Touch` of SessionStore, one that changes
rows or frames is its namesake, decisions and new calls stutter. Every theorem of
`SessionStore_proofs` therefore holds of the server: its caps, frames, roots and evictions.

Its last part proves what holds while one call runs at a time, under the
hypothesis `OneThread` (any two threads are equal): `OneFramePerSlot` (`SlotsAreDistinct`) and
`FramedOuterParked` (`InterruptedStaysParked`), with any workflows and a restart between any
two operations. The hypothesis is the weakest, MCDocTwoFrames breaks the first with two
threads. Neither property is inductive: frames are found by position, so the
invariant `SoloInv` also says that positions agree with `parent_session_id` (`InPlace`) and
that no root has a frame (`RootsFree`), and of the plan of the running call that whoever is about to
create a session has seen the position above its parent empty (`CreationOK`), and that no
plan moves a session a digression stands on (`Free`). The case that needs most is
eviction: the creation of a frame may evict the frame's own parent, and then `RootsFree`
shows that the copied root is still nobody's frame.

It ends with workflows that do not branch.
Under `LinearWorkflows` (no step has branches, no guardrail forces one;
ids are distinct and none is `__complete__`), it proves `NoStaleData` (`NothingStale`)
and `PausedNeverAdvances` (`PausedStaysPut`). Branches are excluded because one may lead
back to an earlier step, whose successors then keep their data; the definitions of the
runs `nested` and `stack` satisfy the hypothesis. The invariant `BehindInv` says that
the data of every session lies behind its pointer, and of what is left of the running call's plan
(`Course`) that it moves at most one session, once, after everything it drops or unlinks
(`Ordered`), to a place beyond all the data it does not drop (`Reaches`), and forward only
when no frame is above the session or the plan has unlinked it by then (`Cleared`). A
restart drops what is left of a plan, which the invariant allows at any point:
`revise_step` drops data first and moves the pointer last
(`DecideReviseStepBehind`), `_propagate_to_parent` unlinks the frame before it advances
the parent (`PropagateOnward`). `NoStaleData` is
stated between calls; the invariant shows that it holds during one as well.

**`OneThread_proofs`** takes four more properties of one call at a time, each under its own
hypotheses on the workflows and on the tools called.

`EscalatedNeverAdvances` (`EscalatedStandsStill`) is proved where no step is a call-step:
the artifact of a child that outlives the escalation of its caller moves the caller on
(MCDocEscalated), so the hypothesis is needed. Workflows may branch and loop as long as
`revise_step` is not among the tools; where it is, they have to be linear, since only
`BehindInv` shows that a revision leads back. The invariant `HaltInv` says that all frames
are digressions (`Digressions`), and of the plan of the running call (`Halted`) that a move
of an escalated session, or an acceptance of its content, is a revision that leads back,
and that the plan that escalates a session moves none.

`RevisitGuardStopsLoops` (`GuardedLoopsStop`) is proved with branches, call-steps, mcp steps and
digressions, under two hypotheses. `GuardedLoops`: step ids are distinct, `max_visits` is positive
(no check of the schema says so), and no guardrail before the one on visits has another
action, since `_evaluate_guardrails` returns the first that fires and one that does not
escalate hides those behind it. `NoReturn`: a restart between the visit and the move leaves a
visit that is counted again, and `revise_step` returns to a step whose visits may be used
up. The count is compared when a submission arrives, after the visits of the last one were
written and before those of the next, so the invariant `VisitInv` says of every session
that no step is at its limit but the one it stands on (`Rested`), or, while a plan stands
between the count and the move, the one it is about to move to; and of what is left of the
plan that whatever it visits is below every limit (`Landing`), that a step is
counted where the pointer is or is about to be (`StandsAt`), and that no second visit of
the session follows but of an mcp step, which a client does not submit (`Arrives`). A step at its limit escalates
(`RevisitEscalates`), so an accepted submission starts from a session without one.

`OrderEnforced` (`OrderKept`) is proved for linear workflows. Where `revise_step` is offered,
`OrderlyRevisions` excludes the three ways around it that section 3 names, each of which TLC
shows to break the property: restarts, a call-step that is not the only one or not within the
first two steps, digressions over workflows with call-steps. Without `revise_step` nothing is
excluded, restarts may come at any point. `NullIsNoDict` says that the None of a missing
argument is no dict. The invariant `OrderInv` says that every
session has the data of all that lies before its pointer and that no precondition may skip
(`InOrder`), or that the running call is a revision which has dropped data and still owes the
session its way back (`Owed`); of what is left of a plan, that a move takes no data away and
brings what the place it leads to asks for (`Gathered`), and that what a revision drops lies
neither before its target nor before a call-step (`Spares`); and of each session at the bottom
of a stack that it could be revised to its call-step (`RootsReady`), which is what
`revise_step` allows ahead of the pointer while a frame is above. The skip loop passes over
nothing but steps with a precondition (`FullLanding`), every plan of `submit_step`, of a remote
step and of a hand-off moves at most one place beyond the data it writes (`AcceptGathers`,
`AdvanceGathers`, `PropagateGathers`), and `BehindInv` supplies that a step with data lies
behind the pointer, so a revision to it leads back.

`CompletedFrameHandedOver` (`CompletedHandedOver`) is proved with branches, mcp steps, digressions,
revisions and deletions, under `NoTailCalls` and without restarts. `NoTailCalls`: somewhere behind
every call-step of a workflow comes a step that a client submits or another call, without
a precondition (`Stops`), only steps of a client branch, ids are distinct and none is
`__complete__`. Where it fails, `_advance_parent`
may complete the parent and hand nothing over (MCDocTailCall); the definitions of the run
`nested` satisfy it. A restart between a completion and its hand-off loses the hand-off.
The completion, the hand-off it
leads to and the deletion of the child are decisions and transactions of their own, so
the invariant `HandInv` says of every framed session that it is not completed or has an excuse
(`Paid`), or that the running call does next what settles it (`Owes`): the hand-off, the
escalation of the parent, or the deletion. Of what is left of the plan (`Handing`) it says that
a move to the end is followed by that hand-off unless the session has no frame, that an mcp
step run for a parent which is being advanced has a stop ahead (`May`), and that frames
are unlinked only right behind the deletion of the child they belong to; and of the frames
that the one above a session without a frame stands first on it (`OnParent`), so that
`parent_of` finds the parent the property is about (`ParentKnown`). The skip loop
comes to rest at the stop at the latest (`StopsAhead`).

Model-checked only:

* DryRun, and the property of ToolCalls that holds under conditions on the workflows and
  the tools called: `RestsOnRunnable` (section 6). Where workflows branch or
  several calls run at a time, `NoStaleData` and `PausedNeverAdvances` are not claimed;
* all liveness properties (`EveryCallReturns`, `ArtifactReachesParent`, `PanelReturns`,
  `LoaderDecides`): liveness under fairness and `ENABLED` are beyond the prover;
* that a backoff sleep is not negative (a conjunct of `Panel!TypeOK`): the backends know
  `2^n` only as an integer.

## 5. Not modelled

* What ToolCalls and DryRun assume of a workflow is what Loader lets through: existing
  targets, an acyclic call graph, backward preconditions. One assumption more, that the
  ids of a workflow's steps are distinct, is checked by nothing (MCDocUniqueIds), nor is
  that no step is called `__workflow_changed__`.
* The format of values (YAML, ref-paths, JSON Schema, the responses file), which is one
  flag or a token in the modules above; the records of the panel once written, and
  reading them back; the provider SDKs behind the adapters.
* `diagram.py`, `validate.py` (a command line over `validate_workflow`),
  `static_handler.py`; `session_canon.py`, `identity.py`; `errors.py`: pure functions
  without state.
* Rendering, error texts, logging, HTTP transport, static files, canonical ids.
* `push_frame`, `pop_frame`, `peek_frame`, `clear_sessions`, `drop_session`: no code
  of the server calls them.
* A lock timeout (`OperationalError`) that abandons one call while other threads go on;
  with one thread it leaves what `Restart` leaves.

Seen while modelling, without a run: `pop_flow` on a digression that has a child above
leaves the child orphaned; a front mcp step is counted twice by `start_workflow`;
`expire_sessions` is never called although the README names a TTL; a restart between
the completion of a child and its hand-off leaves the session below blocked;
docs/IDE_SETUP.md:5 says that `megalos_server.validate` checks call targets and cycles,
but only `create_app` does; SCHEMA.md:129 lets an mcp step branch on its envelope, the
code takes the default branch; the optional fields of an mcp step are not validated; a
precondition that refers to no step at all passes; two files of one name replace each
other in directory order; entries of a responses file that are walked past in a
sub-workflow count as used (dryrun.py:450 says "unconsumed" entries end the run with 1);
an mcp step whose
`default_branch` leads back over mcp steps alone never ends (section 3); `revise_step` to
an mcp step moves the pointer and then fails on the missing `directive_template`;
docs/panel.md:116 gives 3 rate-limit attempts, retry.py:29 says 5; `max_rps=0` ends
every request with an `IndexError`.

## 6. Plan

1. `RestsOnRunnable` under the conditions of its run, stated as hypotheses on
   `Definition`.
2. DryRun: `ReplMatchesServer`, on top of `SoloInv`.
3. A lock timeout of one thread among several as an action of ToolCalls.
