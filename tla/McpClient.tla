----------------------------- MODULE McpClient ------------------------------
(***************************************************************************)
(* The remote half of an mcp_tool_call step: mcp_executor resolves the     *)
(* arguments, mcp_client looks the tool's inputSchema up in a process-wide *)
(* cache (fetching it with tools/list on a miss), validates the arguments, *)
(* sends tools/call under a timeout and retries what looks transient.      *)
(* Calls of several server threads share the cache and nothing else: no    *)
(* lock covers the path from the lookup to the write.                      *)
(*                                                                         *)
(* A step of this module ends where the code awaits the network or where   *)
(* another thread can see its effect.  The remote server and the network   *)
(* are external: a request may be answered late, after the client gave up, *)
(* or never.                                                               *)
(***************************************************************************)
EXTENDS Naturals, FiniteSets

CONSTANTS
  Call,         \* invocations of execute_mcp_tool_call_step
  Key,          \* (server, tool) pairs, records with those two fields
  Args,         \* fully resolved argument trees
  Schema,       \* well-formed inputSchemas
  Accepts,      \* [Schema -> SUBSET Args]
  Wants,        \* what the calls may be for: key and arguments of each step
  Listings,     \* what the server may list when the process starts
  MaxAttempts,  \* _RETRY_MAX_ATTEMPTS
  MaxChanges    \* bound: changes of the environment (listings, token)

ASSUME McpClientConstants ==
  /\ Accepts \in [Schema -> SUBSET Args]
  /\ MaxAttempts \in Nat \ {0}
  /\ MaxChanges \in Nat

VARIABLES
  want,     \* want[c]: the step's key and arguments
  call,     \* call[c]: where the call is, its attempt, validator and outcome,
            \* and (history) whether the outcome is the server's answer
  cache,    \* _validator_cache
  token,    \* is the bearer-token environment variable set
  listed,   \* listed[k]: what tools/list says of k now
  wire,     \* tools/call requests the server may still handle
  replies,  \* answers a waiting call has not read yet
  runs,     \* runs[c]: how often the server ran the tool for c
  lost,     \* history: attempts of c given up while waiting for the answer
  history,  \* history[k]: everything tools/list ever said of k
  changes

vars == <<want, call, cache, token, listed, wire, replies, runs, lost,
          history, changes>>
env == <<listed, history, token, changes>>
net == <<wire, replies, runs, lost>>

None == "none"
Unresolved == "unresolved"     \* an argument tree with a _REF_ABSENT leaf

(***************************************************************************)
(* What tools/list may say of a tool besides a good schema.  A "shapeless" *)
(* one has no 'type'; an "unknowable" one has a type that the validator    *)
(* does not know, which Draft7Validator(...) accepts and .validate raises  *)
(* on.                                                                     *)
(***************************************************************************)
Unfetchable == {"unlisted", "shapeless"}
Compiled == Schema \cup {"unknowable"}
Listing == Compiled \cup Unfetchable

Retriable == {"transport_error", "timeout"}
Outcome == {None, "ok", "tool_execution_error", "protocol_error",
            "schema_validation_error", "unresolved_ref"} \cup Retriable
Place == {"idle", "resolve", "lookup", "fetch", "store", "validate", "send",
          "waiting", "settle", "done"}
Request == [call : Call, attempt : 1..MaxAttempts]
Reply == [call : Call, attempt : 1..MaxAttempts,
          result : {"text", "non_text", "is_error", "invalid_params", "rpc_error"}]

Fresh == [pc |-> "idle", attempt |-> 0, validator |-> None, outcome |-> None,
          answered |-> FALSE]

ASSUME McpClientChoices ==
  /\ Wants \subseteq [Call -> [key : Key, args : Args \cup {Unresolved}]]
  /\ Listings \subseteq [Key -> Listing]

Init ==
  /\ want \in Wants
  /\ call = [c \in Call |-> Fresh]
  /\ cache = [k \in Key |-> None]
  /\ token = TRUE
  /\ listed \in Listings
  /\ history = [k \in Key |-> {listed[k]}]
  /\ wire = {} /\ replies = {}
  /\ runs = [c \in Call |-> 0] /\ lost = [c \in Call |-> 0]
  /\ changes = 0
-----------------------------------------------------------------------------
At(c, pc) == call[c].pc = pc
Goto(c, pc) == call' = [call EXCEPT ![c].pc = pc]
Ends(c, outcome) ==
  call' = [call EXCEPT ![c].pc = "settle", ![c].outcome = outcome]

\* The step is dispatched to the executor.
Begin(c) ==
  /\ At(c, "idle") /\ Goto(c, "resolve")
  /\ UNCHANGED <<want, cache, env, net>>

\* An argument reference that does not resolve becomes an error envelope
\* without any call; otherwise call() starts its first attempt.
Resolve(c) ==
  /\ At(c, "resolve")
  /\ call' = [call EXCEPT ![c] =
       IF want[c].args = Unresolved
       THEN [@ EXCEPT !.pc = "done", !.outcome = "unresolved_ref"]
       ELSE [@ EXCEPT !.pc = "lookup", !.attempt = 1]]
  /\ UNCHANGED <<want, cache, env, net>>

CacheKeyOfServer(k) == CHOOSE l \in Key : l.server = k.server
CacheKey(k) == k

\* The lookup that precedes every attempt: a hit skips tools/list.
LookUp(c) ==
  LET found == cache[CacheKey(want[c].key)] IN
  /\ At(c, "lookup")
  /\ call' = [call EXCEPT ![c].pc = IF found = None THEN "fetch" ELSE "validate",
                          ![c].validator = found]
  /\ UNCHANGED <<want, cache, env, net>>

\* tools/list cannot be reached, or answers with something other than a list.
\* An unexpected RuntimeError is re-raised up to call()'s catch-all.
FetchFails(c) ==
  /\ At(c, "fetch")
  /\ Ends(c, "transport_error") \/ (token /\ Ends(c, "protocol_error"))
  /\ UNCHANGED <<want, cache, env, net>>

\* tools/list answers with what the server lists now.
FetchAnswered(c) ==
  LET schema == listed[want[c].key] IN
  /\ At(c, "fetch") /\ token
  /\ IF schema \in Unfetchable
       THEN Ends(c, "protocol_error")
       ELSE call' = [call EXCEPT ![c].pc = "store", ![c].validator = schema]
  /\ UNCHANGED <<want, cache, env, net>>

\* The compiled validator is written over whatever another call wrote since.
Store(c) ==
  /\ At(c, "store")
  /\ cache' = [cache EXCEPT ![CacheKey(want[c].key)] = call[c].validator]
  /\ Goto(c, "validate")
  /\ UNCHANGED <<want, env, net>>

\* Local validation; what .validate raises besides ValidationError ends in
\* call()'s catch-all.
Validate(c) ==
  LET schema == call[c].validator IN
  /\ At(c, "validate")
  /\ CASE schema = "unknowable" -> Ends(c, "protocol_error")
       [] schema \in Schema /\ want[c].args \in Accepts[schema] -> Goto(c, "send")
       [] OTHER -> Ends(c, "schema_validation_error")
  /\ UNCHANGED <<want, cache, env, net>>

\* The token is read again, at call time; the connection may fail, or the
\* client library may refuse the call (ToolError, an unexpected RuntimeError).
SendFails(c) ==
  /\ At(c, "send")
  /\ \/ Ends(c, "transport_error")
     \/ /\ token
        /\ \E outcome \in {"timeout", "protocol_error", "tool_execution_error"} :
             Ends(c, outcome)
  /\ UNCHANGED <<want, cache, env, net>>

Send(c) ==
  /\ At(c, "send") /\ token
  /\ wire' = wire \cup {[call |-> c, attempt |-> call[c].attempt]}
  /\ Goto(c, "waiting")
  /\ UNCHANGED <<want, cache, env, replies, runs, lost>>

\* _classify_result and the McpError branch.
ClassifyResult(result) ==
  CASE result = "text" -> "ok"
    [] result = "is_error" -> "tool_execution_error"
    [] result = "invalid_params" -> "schema_validation_error"
    [] result \in {"non_text", "rpc_error"} -> "protocol_error"

Receive(c) ==
  /\ At(c, "waiting")
  /\ \E r \in replies :
       /\ r.call = c /\ r.attempt = call[c].attempt
       /\ call' = [call EXCEPT ![c].pc = "settle", ![c].answered = TRUE,
                               ![c].outcome = ClassifyResult(r.result)]
       /\ replies' = replies \ {r}
  /\ UNCHANGED <<want, cache, env, wire, runs, lost>>

GiveUpNever(c) == FALSE /\ UNCHANGED vars
\* wait_for or httpx times out, the stream breaks, or the client library
\* raises something else.  The request stays where it is, the answer to it
\* will find nobody.
GiveUp(c) ==
  /\ At(c, "waiting")
  /\ \E outcome \in Retriable \cup {"protocol_error"} : Ends(c, outcome)
  /\ lost' = [lost EXCEPT ![c] = @ + 1]
  /\ replies' = {r \in replies : r.call # c}
  /\ UNCHANGED <<want, cache, env, wire, runs>>

RetriableOrProtocol(c) ==
  /\ call[c].outcome \in Retriable \cup {"protocol_error"}
  /\ call[c].attempt < MaxAttempts
RetriableForever(c) == call[c].outcome \in Retriable
\* Whether the retry loop goes round again.
Retries(c) == call[c].outcome \in Retriable /\ call[c].attempt < MaxAttempts

\* The retry loop: after the backoff sleep a retry starts over at the lookup.
Settle(c) ==
  /\ At(c, "settle")
  /\ call' = [call EXCEPT ![c] =
       IF Retries(c)
       THEN [Fresh EXCEPT !.pc = "lookup", !.attempt = call[c].attempt + 1]
       ELSE [@ EXCEPT !.pc = "done"]]
  /\ UNCHANGED <<want, cache, env, net>>
-----------------------------------------------------------------------------
(***************************************************************************)
(* The remote server and the operator (external).                          *)
(***************************************************************************)
\* The server answers a request; it cannot know whether anyone still waits.
Answer(r, results) ==
  /\ r \in wire
  /\ wire' = wire \ {r}
  /\ IF At(r.call, "waiting") /\ call[r.call].attempt = r.attempt
       THEN \E result \in results :
              replies' = replies \cup {[call |-> r.call, attempt |-> r.attempt,
                                        result |-> result]}
       ELSE UNCHANGED replies

\* The server runs the tool.
Handle(r) ==
  /\ Answer(r, {"text", "non_text", "is_error", "rpc_error"})
  /\ runs' = [runs EXCEPT ![r.call] = @ + 1]
  /\ UNCHANGED <<want, call, cache, env, lost>>

\* The server answers with a JSON-RPC error without running the tool.
Refuse(r) ==
  /\ Answer(r, {"invalid_params", "rpc_error"})
  /\ UNCHANGED <<want, call, cache, env, runs, lost>>

\* The server is redeployed with another listing.
ChangeListing(k) ==
  /\ changes < MaxChanges /\ changes' = changes + 1
  /\ \E l \in Listing \ {listed[k]} :
       /\ listed' = [listed EXCEPT ![k] = l]
       /\ history' = [history EXCEPT ![k] = @ \cup {l}]
  /\ UNCHANGED <<want, call, cache, token, net>>

FlipToken ==
  /\ changes < MaxChanges /\ changes' = changes + 1
  /\ token' = ~token
  /\ UNCHANGED <<want, call, cache, listed, history, net>>
-----------------------------------------------------------------------------
ClientStep(c) ==
  \/ Resolve(c) \/ LookUp(c) \/ FetchFails(c) \/ FetchAnswered(c) \/ Store(c)
  \/ Validate(c) \/ SendFails(c) \/ Send(c) \/ Receive(c) \/ GiveUp(c) \/ Settle(c)

Next ==
  \/ \E c \in Call : Begin(c) \/ ClientStep(c)
  \/ \E r \in wire : Handle(r) \/ Refuse(r)
  \/ \E k \in Key : ChangeListing(k)
  \/ FlipToken

Spec == Init /\ [][Next]_vars

(***************************************************************************)
(* A thread that has something to do does it: every await of the client is *)
(* under asyncio.wait_for or an httpx timeout and the backoff sleeps are   *)
(* finite.  Nothing is assumed of the server.                              *)
(***************************************************************************)
FairSpec == Spec /\ \A c \in Call : WF_vars(ClientStep(c))
-----------------------------------------------------------------------------
TypeOK ==
  /\ want \in Wants
  /\ call \in [Call -> [pc : Place, attempt : 0..MaxAttempts,
                        validator : Compiled \cup {None}, outcome : Outcome,
                        answered : BOOLEAN]]
  /\ cache \in [Key -> Compiled \cup {None}]
  /\ token \in BOOLEAN
  /\ listed \in [Key -> Listing]
  /\ history \in [Key -> SUBSET Listing]
  /\ wire \subseteq Request /\ replies \subseteq Reply
  /\ runs \in [Call -> 0..MaxAttempts] /\ lost \in [Call -> 0..MaxAttempts]
  /\ changes \in 0..MaxChanges

\* A tool runs more than once for one step only because the client gave up
\* waiting: every run is one that an attempt lost, or the one whose answer the
\* call waits for or has read.  In particular a tool whose answer is an error
\* or is not text is not run again (_call_with_retry_async retries transport
\* errors and timeouts only).
RunsAccountedFor ==
  \A c \in Call :
    runs[c] <= lost[c] + IF At(c, "waiting") \/ call[c].answered THEN 1 ELSE 0

\* The verdict on the arguments comes from a schema that the server has
\* listed for this very tool, although every server and tool shares one cache:
\* what goes out passes such a schema, what is held back fails one.
VerdictFromOwnSchema ==
  \A c \in Call :
    LET seen == history[want[c].key] \cap Schema IN
    /\ At(c, "waiting") \/ lost[c] > 0 \/ call[c].answered =>
         \E s \in seen : want[c].args \in Accepts[s]
    /\ call[c].outcome = "schema_validation_error" /\ ~call[c].answered =>
         \E s \in seen : want[c].args \notin Accepts[s]

StatusOf(c) ==
  CASE call[c].pc = "idle" -> "idle"
    [] call[c].pc = "done" -> IF call[c].outcome = "ok" THEN "ok" ELSE "error"
    [] OTHER -> "open"

\* execute_mcp_tool_call_step keeps the promise of RemoteCall.
Abstract == INSTANCE RemoteCall WITH status <- [c \in Call |-> StatusOf(c)]
ImplementsRemoteCall == Abstract!Spec

\* Every dispatched call returns an envelope whatever the server does.
EveryCallReturns == \A c \in Call : call[c].pc = "resolve" ~> call[c].pc = "done"

\* What the comment on _validator_cache says: populated on the first
\* successful fetch for a pair, never evicted or invalidated.
PopulatedOnce ==
  [][\A k \in Key : cache[k] # None => cache'[k] = cache[k]]_vars
=============================================================================
