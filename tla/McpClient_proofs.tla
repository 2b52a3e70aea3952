-------------------------- MODULE McpClient_proofs --------------------------
(***************************************************************************)
(* The remote call, for any set of calls, tools, schemas and listings and  *)
(* any number of attempts.                                                 *)
(*                                                                         *)
(* Three layers, each resting on the ones before it:                       *)
(*   Types       what every variable ranges over;                          *)
(*   Accounted   where the runs of a call come from.  RunsAccountedFor is  *)
(*               not inductive, since it does not say how many requests    *)
(*               the server may still handle: those count as runs here;    *)
(*   Judged      where a verdict comes from.  VerdictFromOwnSchema needs   *)
(*               the cache and the validators that calls hold to come from *)
(*               the tool's own listings.                                  *)
(* The refinement of RemoteCall follows from the first two.                *)
(***************************************************************************)
EXTENDS McpClient, FiniteSetTheorems, TLAPS

-----------------------------------------------------------------------------
Trying == {"lookup", "fetch", "store", "validate", "send", "waiting", "settle"}

CallRecord == [pc : Place, attempt : 0..MaxAttempts, validator : Compiled \cup {None},
               outcome : Outcome, answered : BOOLEAN]

Types ==
  /\ want \in Wants
  /\ call \in [Call -> CallRecord]
  /\ cache \in [Key -> Compiled \cup {None}]
  /\ token \in BOOLEAN
  /\ listed \in [Key -> Listing]
  /\ history \in [Key -> SUBSET Listing]
  /\ wire \subseteq Request /\ replies \subseteq Reply
  /\ runs \in [Call -> Nat] /\ lost \in [Call -> Nat]
  /\ changes \in 0..MaxChanges
  /\ \A c \in Call : call[c].pc \in Trying => call[c].attempt # 0

\* Requests of c that the server may still handle.
Pending(c) == {r \in wire : r.call = c}

\* The attempt whose answer c waits for or has read.
Current(c) == IF At(c, "waiting") \/ call[c].answered THEN 1 ELSE 0

Accounted(c) ==
  /\ runs[c] + Cardinality(Pending(c)) <= lost[c] + Current(c)
  /\ lost[c] + Current(c) <= call[c].attempt
  /\ call[c].pc \in Trying \ {"settle"} => lost[c] < call[c].attempt
  /\ call[c].pc \in {"idle", "resolve"} => call[c].attempt = 0
  /\ call[c].answered => /\ call[c].pc \in {"settle", "done"}
                         /\ call[c].outcome \notin Retriable
  /\ call[c].outcome = "ok" => runs[c] > 0

AccountInv ==
  /\ IsFiniteSet(wire)
  /\ \A c \in Call : Accounted(c)
  /\ \A r \in replies : r.result = "text" => runs[r.call] > 0

Seen(c) == history[want[c].key]
Passed(c) == \E s \in Seen(c) \cap Schema : want[c].args \in Accepts[s]
Failed(c) == \E s \in Seen(c) \cap Schema : want[c].args \notin Accepts[s]

Judged(c) ==
  /\ call[c].pc \in {"store", "validate"} =>
       call[c].validator \in Seen(c) \cap Compiled
  /\ call[c].pc \in {"send", "waiting"} \/ lost[c] > 0 \/ call[c].answered => Passed(c)
  /\ call[c].outcome = "schema_validation_error" /\ ~call[c].answered => Failed(c)

JudgeInv ==
  /\ \A k \in Key : cache[k] # None => cache[k] \in history[k]
  /\ \A k \in Key : listed[k] \in history[k]
  /\ \A c \in Call : Judged(c)

-----------------------------------------------------------------------------
(***************************************************************************)
(* What the steps of a call do to its record, field by field.              *)
(***************************************************************************)
Moved(c, pc, attempt, validator, outcome, answered) ==
  /\ call' \in [Call -> CallRecord]
  /\ \A d \in Call \ {c} : call'[d] = call[d]
  /\ call'[c].pc = pc
  /\ call'[c].attempt = attempt
  /\ call'[c].validator = validator
  /\ call'[c].outcome = outcome
  /\ call'[c].answered = answered

\* Goto changes the place only.
LEMMA GotoMoves ==
  ASSUME Types, NEW c \in Call, NEW pc \in Place, Goto(c, pc)
  PROVE  Moved(c, pc, call[c].attempt, call[c].validator, call[c].outcome, call[c].answered)
  BY DEF Goto, CallRecord, Moved, Types

\* Ends goes to the retry loop with an outcome.
LEMMA EndsMoves ==
  ASSUME Types, NEW c \in Call, NEW outcome \in Outcome, Ends(c, outcome)
  PROVE  Moved(c, "settle", call[c].attempt, call[c].validator, outcome, call[c].answered)
  BY ZenonT(60) DEF Ends, CallRecord, Place, Moved, Types

\* Resolve returns an error at once or starts the first attempt.
LEMMA ResolveMoves ==
  ASSUME Types, NEW c \in Call, Resolve(c)
  PROVE  \/ Moved(c, "done", call[c].attempt, call[c].validator, "unresolved_ref",
                  call[c].answered)
         \/ Moved(c, "lookup", 1, call[c].validator, call[c].outcome, call[c].answered)
  <1>1. CASE want[c].args = Unresolved
    <2>1. call' = [call EXCEPT ![c] = [call[c] EXCEPT !.pc = "done", !.outcome = "unresolved_ref"]]
      BY <1>1 DEF Resolve
    <2>2. Moved(c, "done", call[c].attempt, call[c].validator, "unresolved_ref", call[c].answered)
      BY <2>1, ZenonT(60) DEF CallRecord, Moved, Types, Place, Outcome
    <2> QED BY <2>2
  <1>2. CASE want[c].args # Unresolved
    <2>1. call' = [call EXCEPT ![c] = [call[c] EXCEPT !.pc = "lookup", !.attempt = 1]]
      BY <1>2 DEF Resolve
    <2>2. 1 \in 0..MaxAttempts
      BY McpClientConstants
    <2>3. Moved(c, "lookup", 1, call[c].validator, call[c].outcome, call[c].answered)
      BY <2>1, <2>2 DEF CallRecord, Moved, Types, Place
    <2> QED BY <2>3
  <1> QED BY <1>1, <1>2

\* LookUp takes what the cache has for the call's own key.
LEMMA LookUpMoves ==
  ASSUME Types, NEW c \in Call, LookUp(c)
  PROVE  LET found == cache[want[c].key]
         IN  Moved(c, IF found = None THEN "fetch" ELSE "validate", call[c].attempt, found,
                   call[c].outcome, call[c].answered)
  <1>1. cache[want[c].key] \in Compiled \cup {None}
    BY McpClientChoices DEF Types
  <1> QED BY <1>1, ZenonT(60) DEF LookUp, CacheKey, Moved, CallRecord, Types, Place

\* tools/list leads to a validator or to an error.
LEMMA FetchAnsweredMoves ==
  ASSUME Types, NEW c \in Call, FetchAnswered(c)
  PROVE  \/ Moved(c, "settle", call[c].attempt, call[c].validator, "protocol_error",
                  call[c].answered)
         \/ /\ listed[want[c].key] \in Compiled
            /\ Moved(c, "store", call[c].attempt, listed[want[c].key], call[c].outcome,
                     call[c].answered)
  <1> DEFINE schema == listed[want[c].key]
  <1>1. CASE schema \in Unfetchable
    BY <1>1, EndsMoves DEF FetchAnswered, Outcome
  <1>2. CASE schema \notin Unfetchable
    <2>1. schema \in Compiled
      BY <1>2, McpClientChoices DEF Types, Listing
    <2> QED BY <1>2, <2>1, SMTT(60) DEF FetchAnswered, Moved, CallRecord, Types, Place
  <1> QED BY <1>1, <1>2

\* Receive takes the classified answer as the outcome.
LEMMA ReceiveMoves ==
  ASSUME Types, NEW c \in Call, Receive(c)
  PROVE  \E r \in replies :
           /\ r.call = c
           /\ replies' = replies \ {r}
           /\ Moved(c, "settle", call[c].attempt, call[c].validator,
                    ClassifyResult(r.result), TRUE)
  <1>1. PICK r \in replies :
          /\ r.call = c
          /\ replies' = replies \ {r}
          /\ call' = [call EXCEPT ![c].pc = "settle", ![c].answered = TRUE,
                                  ![c].outcome = ClassifyResult(r.result)]
    BY DEF Receive
  <1>2. ClassifyResult(r.result) \in Outcome
    BY DEF ClassifyResult, Types, Reply, Outcome
  <1>3. Moved(c, "settle", call[c].attempt, call[c].validator, ClassifyResult(r.result), TRUE)
    <2>1. call \in [Call -> CallRecord]
      BY DEF Types
    <2> QED BY <1>1, <1>2, <2>1, ZenonT(60) DEF Moved, CallRecord, Place
  <1> QED BY <1>1, <1>3

\* Settle starts a fresh attempt or returns.
LEMMA SettleMoves ==
  ASSUME Types, NEW c \in Call, Settle(c)
  PROVE  \/ /\ Retries(c)
            /\ Moved(c, "lookup", call[c].attempt + 1, None, None, FALSE)
         \/ /\ ~Retries(c)
            /\ Moved(c, "done", call[c].attempt, call[c].validator, call[c].outcome,
                     call[c].answered)
  <1>1. CASE Retries(c)
    <2>1. call' = [call EXCEPT ![c] = [Fresh EXCEPT !.pc = "lookup",
                                                    !.attempt = call[c].attempt + 1]]
      BY <1>1 DEF Settle
    <2>2. call[c].attempt + 1 \in 0..MaxAttempts
      BY <1>1, McpClientConstants DEF Types, CallRecord, Retries
    <2>3. None \in Outcome /\ "lookup" \in Place
      BY DEF Outcome, Place
    <2> QED BY <1>1, <2>1, <2>2, <2>3 DEF Fresh, Moved, CallRecord, Types
  <1>2. CASE ~Retries(c)
    <2>1. call' = [call EXCEPT ![c] = [call[c] EXCEPT !.pc = "done"]]
      BY <1>2 DEF Settle
    <2> QED BY <1>2, <2>1 DEF Moved, CallRecord, Types, Place
  <1> QED BY <1>1, <1>2

\* Validate passes the arguments, holds them back, or trips over the schema.
LEMMA ValidateMoves ==
  ASSUME Types, NEW c \in Call, Validate(c)
  PROVE  LET schema == call[c].validator
             args == want[c].args
             To(pc, outcome) == Moved(c, pc, call[c].attempt, schema, outcome, call[c].answered)
         IN  \/ schema = "unknowable" /\ To("settle", "protocol_error")
             \/ schema \in Schema /\ args \in Accepts[schema] /\ To("send", call[c].outcome)
             \/ /\ schema # "unknowable"
                /\ ~(schema \in Schema /\ args \in Accepts[schema])
                /\ To("settle", "schema_validation_error")
  <1> DEFINE schema == call[c].validator
             fits == schema \in Schema /\ want[c].args \in Accepts[schema]
  <1>1. /\ Ends(c, "protocol_error") => Moved(c, "settle", call[c].attempt, schema,
                                             "protocol_error", call[c].answered)
        /\ Ends(c, "schema_validation_error") =>
             Moved(c, "settle", call[c].attempt, schema, "schema_validation_error",
                   call[c].answered)
    BY EndsMoves DEF Outcome
  <1>2. Goto(c, "send") => Moved(c, "send", call[c].attempt, schema, call[c].outcome,
                                 call[c].answered)
    BY GotoMoves DEF Place
  <1>3. \/ schema = "unknowable" /\ Ends(c, "protocol_error")
        \/ fits /\ Goto(c, "send")
        \/ schema # "unknowable" /\ ~fits /\ Ends(c, "schema_validation_error")
    BY DEF Validate
  <1> QED BY <1>1, <1>2, <1>3

-----------------------------------------------------------------------------
(***************************************************************************)
(* Layer 1: types.                                                         *)
(***************************************************************************)
\* A fresh process is well typed.
LEMMA InitTypes == Init => Types
  BY McpClientConstants, McpClientChoices
  DEF Init, Types, CallRecord, Fresh, Place, Outcome, Listing, Trying, None

\* The answer to a request leaves requests and replies what they were.
LEMMA AnswerTypes ==
  ASSUME Types, NEW r \in wire, NEW results,
         results \subseteq {"text", "non_text", "is_error", "invalid_params", "rpc_error"},
         Answer(r, results)
  PROVE  wire' \subseteq Request /\ replies' \subseteq Reply
  BY DEF Types, Answer, Request, Reply

\* A call that moves keeps the types if it has begun an attempt.
LEMMA MovedTypes ==
  ASSUME Types, NEW c \in Call, NEW pc, NEW attempt, NEW validator, NEW outcome, NEW answered,
         Moved(c, pc, attempt, validator, outcome, answered),
         pc \in Trying => attempt # 0
  PROVE  /\ call' \in [Call -> CallRecord]
         /\ \A d \in Call : call'[d].pc \in Trying => call'[d].attempt # 0
  BY DEF Types, Moved

\* A step of a call keeps the types.
LEMMA ClientTypes ==
  ASSUME Types, NEW c \in Call, Begin(c) \/ ClientStep(c)
  PROVE  Types'
  <1> DEFINE CallTypes == /\ call' \in [Call -> CallRecord]
                          /\ \A d \in Call : call'[d].pc \in Trying => call'[d].attempt # 0
  <1>1. call[c].pc \in Trying => call[c].attempt # 0
    BY DEF Types
  <1>2. ASSUME NEW outcome \in Outcome, Ends(c, outcome), call[c].pc \in Trying
        PROVE  CallTypes
    BY <1>1, <1>2, EndsMoves, MovedTypes
  <1>3. ASSUME NEW pc \in Place, Goto(c, pc), pc \in Trying => call[c].pc \in Trying
        PROVE  CallTypes
    BY <1>1, <1>3, GotoMoves, MovedTypes
  <1> HIDE DEF CallTypes
  <1> USE DEF At, Trying, Place, Outcome
  <1>4. CASE Begin(c)
    <2>1. CallTypes
      BY <1>3, <1>4 DEF Begin
    <2> QED BY <1>4, <2>1 DEF Begin, Types, CallTypes, env, net
  <1>5. CASE Resolve(c)
    <2>1. CallTypes
      BY <1>5, ResolveMoves, MovedTypes DEF CallTypes
    <2> QED BY <1>5, <2>1 DEF Resolve, Types, CallTypes, env, net
  <1>6. CASE LookUp(c)
    <2>1. CallTypes
      BY <1>1, <1>6, LookUpMoves, MovedTypes DEF CallTypes, LookUp
    <2> QED BY <1>6, <2>1 DEF LookUp, Types, CallTypes, env, net
  <1>7. CASE FetchFails(c)
    <2>1. CallTypes
      BY <1>2, <1>7 DEF FetchFails, Retriable
    <2> QED BY <1>7, <2>1 DEF FetchFails, Types, CallTypes, env, net
  <1>8. CASE FetchAnswered(c)
    <2>1. CallTypes
      BY <1>1, <1>8, FetchAnsweredMoves, MovedTypes DEF CallTypes, FetchAnswered
    <2> QED BY <1>8, <2>1 DEF FetchAnswered, Types, CallTypes, env, net
  <1>9. CASE Store(c)
    <2>1. CallTypes
      BY <1>3, <1>9 DEF Store
    <2>2. cache' \in [Key -> Compiled \cup {None}]
      BY <1>9 DEF Store, Types, CallRecord
    <2> QED BY <1>9, <2>1, <2>2 DEF Store, Types, CallTypes, env, net
  <1>10. CASE Validate(c)
    <2>1. CallTypes
      BY <1>1, <1>10, ValidateMoves, MovedTypes DEF CallTypes, Validate
    <2> QED BY <1>10, <2>1 DEF Validate, Types, CallTypes, env, net
  <1>11. CASE SendFails(c)
    <2>1. CallTypes
      BY <1>2, <1>11 DEF SendFails, Retriable
    <2> QED BY <1>11, <2>1 DEF SendFails, Types, CallTypes, env, net
  <1>12. CASE Send(c)
    <2>1. CallTypes
      BY <1>3, <1>12 DEF Send
    <2>2. [call |-> c, attempt |-> call[c].attempt] \in Request
      BY <1>1, <1>12, McpClientConstants DEF Send, Types, CallRecord, Request
    <2> QED BY <1>12, <2>1, <2>2 DEF Send, Types, CallTypes, env
  <1>13. CASE Receive(c)
    <2>1. CallTypes /\ replies' \subseteq replies
      BY <1>1, <1>13, ReceiveMoves, MovedTypes DEF CallTypes, Receive
    <2> QED BY <1>13, <2>1 DEF Receive, Types, CallTypes, env
  <1>14. CASE GiveUp(c)
    <2>1. CallTypes
      BY <1>2, <1>14 DEF GiveUp, Retriable
    <2>2. lost' \in [Call -> Nat] /\ replies' \subseteq Reply
      BY <1>14 DEF GiveUp, Types
    <2> QED BY <1>14, <2>1, <2>2 DEF GiveUp, Types, CallTypes, env
  <1>15. CASE Settle(c)
    <2>1. call[c].attempt + 1 # 0
      BY McpClientConstants DEF Types, CallRecord
    <2>2. CallTypes
      BY <1>15, <2>1, SettleMoves, MovedTypes DEF CallTypes
    <2> QED BY <1>15, <2>2 DEF Settle, Types, CallTypes, env, net
  <1> QED
    BY <1>4, <1>5, <1>6, <1>7, <1>8, <1>9, <1>10, <1>11, <1>12, <1>13, <1>14, <1>15
    DEF ClientStep

\* So does every other step.
LEMMA NextTypes == Types /\ [Next]_vars => Types'
  <1> SUFFICES ASSUME Types, [Next]_vars PROVE Types'
    OBVIOUS
  <1>1. ASSUME NEW c \in Call, Begin(c) \/ ClientStep(c) PROVE Types'
    BY <1>1, ClientTypes
  <1>2. ASSUME NEW r \in wire, Handle(r) PROVE Types'
    <2>1. wire' \subseteq Request /\ replies' \subseteq Reply
      BY <1>2, AnswerTypes DEF Handle
    <2>2. r.call \in Call
      BY DEF Types, Request
    <2> QED BY <1>2, <2>1, <2>2 DEF Handle, Types, env
  <1>3. ASSUME NEW r \in wire, Refuse(r) PROVE Types'
    <2>1. wire' \subseteq Request /\ replies' \subseteq Reply
      BY <1>3, AnswerTypes DEF Refuse
    <2> QED BY <1>3, <2>1 DEF Refuse, Types, env
  <1>4. ASSUME NEW k \in Key, ChangeListing(k) PROVE Types'
    BY <1>4, McpClientConstants DEF ChangeListing, Types, net
  <1>5. CASE FlipToken
    BY <1>5, McpClientConstants DEF FlipToken, Types, net
  <1>6. CASE UNCHANGED vars
    BY <1>6 DEF vars, Types
  <1> QED BY <1>1, <1>2, <1>3, <1>4, <1>5, <1>6 DEF Next
-----------------------------------------------------------------------------
(***************************************************************************)
(* Layer 2: where the runs come from.                                      *)
(***************************************************************************)
\* The pending requests of a call can be counted.
LEMMA PendingCounts ==
  ASSUME AccountInv, NEW c
  PROVE  IsFiniteSet(Pending(c)) /\ Cardinality(Pending(c)) \in Nat
  <1>1. IsFiniteSet(wire) /\ Pending(c) \in SUBSET wire
    BY DEF AccountInv, Pending
  <1>2. IsFiniteSet(Pending(c))
    BY <1>1, FS_Subset
  <1> QED BY <1>2, FS_CardinalityType

\* Nothing is on the wire at first.
LEMMA InitAccounts == Init => AccountInv
  <1> SUFFICES ASSUME Init PROVE AccountInv
    OBVIOUS
  <1>1. \A c \in Call : Pending(c) = {}
    BY DEF Init, Pending
  <1>2. \A c \in Call : Accounted(c)
    <2>1. \A c \in Call : Cardinality(Pending(c)) = 0
      BY <1>1, FS_EmptySet
    <2>2. \A c \in Call : call[c] = Fresh /\ runs[c] = 0 /\ lost[c] = 0
      BY DEF Init
    <2> QED BY <2>1, <2>2 DEF Accounted, Current, At, Fresh, Trying, None
  <1> QED BY <1>2, FS_EmptySet DEF AccountInv, Init

\* A step of c that leaves the network alone has to keep the books of c only.
LEMMA QuietStep ==
  ASSUME Types, AccountInv, NEW c \in Call, NEW pc, NEW attempt, NEW validator, NEW outcome,
         NEW answered, Moved(c, pc, attempt, validator, outcome, answered),
         UNCHANGED <<wire, runs, lost>>, replies' \subseteq replies, Accounted(c)'
  PROVE  AccountInv'
  <1>1. ASSUME NEW d \in Call PROVE Accounted(d)'
    <2>1. CASE d # c
      <3>1. call'[d] = call[d] /\ Pending(d)' = Pending(d) /\ Accounted(d)
        BY <2>1 DEF Moved, AccountInv, Pending
      <3> QED BY <3>1 DEF Accounted, Current, At
    <2> QED BY <2>1
  <1>2. IsFiniteSet(wire')
    BY DEF AccountInv
  <1>3. \A r \in replies' : r.result = "text" => runs'[r.call] > 0
    BY DEF AccountInv
  <1> QED BY <1>1, <1>2, <1>3 DEF AccountInv

\* Steps that neither send, nor receive, nor give up, nor settle.
LEMMA LocalAccounts ==
  ASSUME Types, AccountInv, NEW c \in Call,
         \/ Begin(c) \/ Resolve(c) \/ LookUp(c) \/ FetchFails(c) \/ FetchAnswered(c)
         \/ Store(c) \/ Validate(c) \/ SendFails(c)
  PROVE  AccountInv'
  <1>1. /\ Accounted(c) /\ call[c] \in CallRecord /\ runs[c] \in Nat /\ lost[c] \in Nat
        /\ Cardinality(Pending(c)) \in Nat
    BY PendingCounts DEF AccountInv, Types
  <1>2. ~call[c].answered /\ call[c].pc \in {"idle", "resolve", "lookup", "fetch", "store",
                                             "validate", "send"}
    BY <1>1 DEF Begin, Resolve, LookUp, FetchFails, FetchAnswered, Store, Validate, SendFails,
                At, Accounted
  <1>3. UNCHANGED <<wire, replies, runs, lost>>
    BY DEF Begin, Resolve, LookUp, FetchFails, FetchAnswered, Store, Validate, SendFails, net
  <1>4. Pending(c)' = Pending(c)
    BY <1>3 DEF Pending
  <1>5. ASSUME NEW pc \in Place \ {"idle", "resolve", "waiting"}, NEW validator,
               call[c].pc \notin {"idle", "resolve"}, NEW outcome, outcome # "ok" \/ outcome = call[c].outcome,
               Moved(c, pc, call[c].attempt, validator, outcome, call[c].answered)
        PROVE  AccountInv'
    <2>1. Accounted(c)'
      BY <1>1, <1>2, <1>3, <1>4, <1>5
      DEF Moved, Accounted, Current, At, Trying, Place, CallRecord
    <2> QED BY <1>3, <1>5, <2>1, QuietStep
  <1>6. ASSUME NEW outcome \in Outcome \ {"ok"}, Ends(c, outcome),
               call[c].pc \notin {"idle", "resolve"}
        PROVE  AccountInv'
    BY <1>5, <1>6, EndsMoves DEF Place
  <1>7. CASE Begin(c)
    <2>1. Moved(c, "resolve", call[c].attempt, call[c].validator, call[c].outcome, call[c].answered)
      BY <1>7, GotoMoves DEF Begin, Place
    <2>2. Accounted(c)'
      BY <1>1, <1>2, <1>3, <1>4, <1>7, <2>1
      DEF Begin, Moved, Accounted, Current, At, Trying, CallRecord
    <2> QED BY <1>3, <2>1, <2>2, QuietStep
  <1>8. CASE Resolve(c)
    <2>1. ASSUME Moved(c, "done", call[c].attempt, call[c].validator, "unresolved_ref",
                       call[c].answered)
          PROVE  AccountInv'
      <3>1. Accounted(c)'
        BY <1>1, <1>2, <1>3, <1>4, <1>8, <2>1
        DEF Resolve, Moved, Accounted, Current, At, Trying, CallRecord
      <3> QED BY <1>3, <2>1, <3>1, QuietStep
    <2>2. ASSUME Moved(c, "lookup", 1, call[c].validator, call[c].outcome, call[c].answered)
          PROVE  AccountInv'
      <3>1. Accounted(c)'
        BY <1>1, <1>2, <1>3, <1>4, <1>8, <2>2
        DEF Resolve, Moved, Accounted, Current, At, Trying, CallRecord
      <3> QED BY <1>3, <2>2, <3>1, QuietStep
    <2> QED BY <1>8, <2>1, <2>2, ResolveMoves
  <1>9. CASE LookUp(c)
    BY <1>5, <1>9, LookUpMoves DEF LookUp, At, Place
  <1>10. CASE FetchFails(c)
    BY <1>6, <1>10 DEF FetchFails, At, Outcome, Retriable
  <1>11. CASE FetchAnswered(c)
    BY <1>5, <1>11, FetchAnsweredMoves DEF FetchAnswered, At, Place
  <1>12. CASE Store(c)
    BY <1>5, <1>12, GotoMoves DEF Store, At, Place
  <1>13. CASE Validate(c)
    BY <1>5, <1>13, ValidateMoves DEF Validate, At, Place
  <1>14. CASE SendFails(c)
    BY <1>6, <1>14 DEF SendFails, At, Outcome, Retriable
  <1> QED BY <1>7, <1>8, <1>9, <1>10, <1>11, <1>12, <1>13, <1>14

\* A request goes out: one more pending, for the attempt now waiting.
LEMMA SendAccounts ==
  ASSUME Types, AccountInv, NEW c \in Call, Send(c)
  PROVE  AccountInv'
  <1> DEFINE r == [call |-> c, attempt |-> call[c].attempt]
  <1>1. /\ Accounted(c) /\ call[c] \in CallRecord /\ runs[c] \in Nat /\ lost[c] \in Nat
        /\ IsFiniteSet(Pending(c)) /\ Cardinality(Pending(c)) \in Nat
    BY PendingCounts DEF AccountInv, Types
  <1>2. Moved(c, "waiting", call[c].attempt, call[c].validator, call[c].outcome, call[c].answered)
    BY GotoMoves DEF Send, Place
  <1>3. Pending(c)' = Pending(c) \cup {r}
    BY DEF Send, Pending
  <1>4. Cardinality(Pending(c)') <= Cardinality(Pending(c)) + 1 /\ Cardinality(Pending(c)') \in Nat
    <2> HIDE DEF r
    <2>1. Cardinality(Pending(c) \cup {r}) =
            IF r \in Pending(c) THEN Cardinality(Pending(c)) ELSE Cardinality(Pending(c)) + 1
      BY <1>1, FS_AddElement
    <2> QED BY <1>1, <1>3, <2>1
  <1>5. Accounted(c)'
    BY <1>1, <1>2, <1>4 DEF Send, Moved, Accounted, Current, At, Trying, CallRecord
  <1>6. ASSUME NEW d \in Call \ {c} PROVE Accounted(d)'
    <2>1. call'[d] = call[d] /\ Pending(d)' = Pending(d) /\ Accounted(d)
      BY <1>2 DEF Send, Moved, AccountInv, Pending
    <2> QED BY <2>1 DEF Send, Accounted, Current, At
  <1>7. IsFiniteSet(wire')
    <2> HIDE DEF r
    <2> QED BY FS_AddElement DEF Send, AccountInv, r
  <1> QED BY <1>5, <1>6, <1>7 DEF AccountInv, Send

\* The answer is read: the attempt that waited becomes the one answered.
LEMMA ReceiveAccounts ==
  ASSUME Types, AccountInv, NEW c \in Call, Receive(c)
  PROVE  AccountInv'
  <1>1. /\ Accounted(c) /\ call[c] \in CallRecord /\ runs[c] \in Nat /\ lost[c] \in Nat
        /\ Cardinality(Pending(c)) \in Nat
    BY PendingCounts DEF AccountInv, Types
  <1>2. PICK r \in replies :
          /\ r.call = c
          /\ replies' = replies \ {r}
          /\ Moved(c, "settle", call[c].attempt, call[c].validator, ClassifyResult(r.result), TRUE)
    BY ReceiveMoves
  <1>3. /\ ClassifyResult(r.result) \notin Retriable
        /\ ClassifyResult(r.result) = "ok" => runs[c] > 0
    BY <1>2 DEF ClassifyResult, Types, Reply, Retriable, AccountInv
  <1>4. Pending(c)' = Pending(c)
    BY DEF Receive, Pending
  <1>5. Accounted(c)'
    BY <1>1, <1>2, <1>3, <1>4 DEF Receive, Moved, Accounted, Current, At, Trying, CallRecord
  <1> QED BY <1>2, <1>5, QuietStep DEF Receive

\* The client gives up: the attempt that waited becomes a lost one.
LEMMA GiveUpAccounts ==
  ASSUME Types, AccountInv, NEW c \in Call, GiveUp(c)
  PROVE  AccountInv'
  <1>1. /\ Accounted(c) /\ call[c] \in CallRecord /\ runs[c] \in Nat /\ lost[c] \in Nat
        /\ Cardinality(Pending(c)) \in Nat
    BY PendingCounts DEF AccountInv, Types
  <1>2. PICK outcome \in Retriable \cup {"protocol_error"} :
          Moved(c, "settle", call[c].attempt, call[c].validator, outcome, call[c].answered)
    BY EndsMoves DEF GiveUp, Outcome
  <1>3. /\ lost'[c] = lost[c] + 1 /\ \A d \in Call \ {c} : lost'[d] = lost[d]
        /\ wire' = wire /\ runs' = runs /\ replies' \subseteq replies
    BY DEF GiveUp, Types
  <1>4. \A d \in Call : Pending(d)' = Pending(d)
    BY <1>3 DEF Pending
  <1>5. Accounted(c)'
    <2>1. outcome # "ok"
      BY <1>2 DEF Retriable
    <2> QED BY <1>1, <1>2, <1>3, <1>4, <2>1 DEF GiveUp, Moved, Accounted, Current, At, Trying, CallRecord
  <1>6. ASSUME NEW d \in Call \ {c} PROVE Accounted(d)'
    <2>1. call'[d] = call[d] /\ Accounted(d)
      BY <1>2 DEF Moved, AccountInv
    <2> QED BY <1>3, <1>4, <2>1 DEF Accounted, Current, At
  <1> QED BY <1>3, <1>5, <1>6 DEF AccountInv

\* The retry loop goes round only when no answer was read.
LEMMA SettleAccounts ==
  ASSUME Types, AccountInv, NEW c \in Call, Settle(c)
  PROVE  AccountInv'
  <1>1. /\ Accounted(c) /\ call[c] \in CallRecord /\ runs[c] \in Nat /\ lost[c] \in Nat
        /\ Cardinality(Pending(c)) \in Nat
    BY PendingCounts DEF AccountInv, Types
  <1>2. UNCHANGED <<wire, replies, runs, lost>> /\ Pending(c)' = Pending(c)
    BY DEF Settle, net, Pending
  <1>3. ASSUME Retries(c), Moved(c, "lookup", call[c].attempt + 1, None, None, FALSE)
        PROVE  AccountInv'
    <2>1. Accounted(c)'
      BY <1>1, <1>2, <1>3
      DEF Settle, Retries, Moved, Accounted, Current, At, Trying, CallRecord, None
    <2> QED BY <1>2, <1>3, <2>1, QuietStep
  <1>4. ASSUME Moved(c, "done", call[c].attempt, call[c].validator, call[c].outcome,
                     call[c].answered)
        PROVE  AccountInv'
    <2>1. Accounted(c)'
      BY <1>1, <1>2, <1>4 DEF Settle, Moved, Accounted, Current, At, Trying, CallRecord
    <2> QED BY <1>2, <1>4, <2>1, QuietStep
  <1> QED BY <1>3, <1>4, SettleMoves

\* The server takes a request off the wire, and runs the tool or does not.
LEMMA ServerAccounts ==
  ASSUME Types, AccountInv, NEW r \in wire, Handle(r) \/ Refuse(r)
  PROVE  AccountInv'
  <1> DEFINE c == r.call
  <1>1. c \in Call
    BY DEF Types, Request
  <1>2. /\ Accounted(c) /\ runs[c] \in Nat /\ lost[c] \in Nat
        /\ IsFiniteSet(Pending(c)) /\ Cardinality(Pending(c)) \in Nat
    BY <1>1, PendingCounts DEF AccountInv, Types
  <1>3. wire' = wire \ {r} /\ call' = call /\ lost' = lost
    BY DEF Handle, Refuse, Answer
  <1>4. /\ runs'[c] \in {runs[c], runs[c] + 1} /\ \A d \in Call \ {c} : runs'[d] = runs[d]
    BY <1>1 DEF Handle, Refuse, Types
  <1>5. Pending(c)' = Pending(c) \ {r} /\ r \in Pending(c)
    BY <1>3 DEF Pending
  <1>6. Cardinality(Pending(c)') = Cardinality(Pending(c)) - 1
    BY <1>2, <1>5, FS_RemoveElement
  <1>7. Accounted(c)'
    <2>1. runs'[c] + Cardinality(Pending(c)') <= runs[c] + Cardinality(Pending(c))
      BY <1>2, <1>4, <1>6
    <2>2. Current(c)' = Current(c) /\ Current(c) \in Nat
      BY <1>3 DEF Current, At
    <2>3. runs'[c] >= runs[c] /\ runs'[c] \in Nat /\ Cardinality(Pending(c)') \in Int
      BY <1>2, <1>4, <1>6
    <2> HIDE DEF c
    <2> QED BY <1>2, <1>3, <2>1, <2>2, <2>3 DEF Accounted
  <1>8. ASSUME NEW d \in Call \ {c} PROVE Accounted(d)'
    <2>1. Pending(d)' = Pending(d) /\ Accounted(d)
      BY <1>3, <1>8 DEF Pending, AccountInv
    <2> QED BY <1>3, <1>4, <2>1 DEF Accounted, Current, At
  <1>9. ASSUME NEW q \in replies', q.result = "text" PROVE runs'[q.call] > 0
    <2>1. CASE q \in replies
      <3>1. runs[q.call] > 0 /\ q.call \in Call
        BY <1>9, <2>1 DEF AccountInv, Types, Reply
      <3> QED BY <1>2, <1>4, <3>1
    <2>2. CASE q \notin replies
      <3>1. q.call = c /\ q.result \in {"text", "non_text", "is_error", "rpc_error", "invalid_params"}
        BY <2>2 DEF Handle, Refuse, Answer
      <3>2. CASE Handle(r)
        BY <1>1, <1>2, <3>1, <3>2 DEF Handle, Types
      <3>3. CASE Refuse(r)
        BY <1>9, <2>2, <3>3 DEF Refuse, Answer
      <3> QED BY <3>2, <3>3
    <2> QED BY <2>1, <2>2
  <1>10. IsFiniteSet(wire')
    BY <1>3, FS_RemoveElement DEF AccountInv
  <1> QED BY <1>7, <1>8, <1>9, <1>10 DEF AccountInv

\* Every step keeps the accounts.
LEMMA NextAccounts == Types /\ AccountInv /\ [Next]_vars => AccountInv'
  <1> SUFFICES ASSUME Types, AccountInv, [Next]_vars PROVE AccountInv'
    OBVIOUS
  <1>1. ASSUME NEW c \in Call, Begin(c) \/ ClientStep(c) PROVE AccountInv'
    BY <1>1, LocalAccounts, SendAccounts, ReceiveAccounts, GiveUpAccounts, SettleAccounts
    DEF ClientStep
  <1>2. ASSUME NEW r \in wire, Handle(r) \/ Refuse(r) PROVE AccountInv'
    BY <1>2, ServerAccounts
  <1>3. CASE UNCHANGED <<call, wire, replies, runs, lost>>
    BY <1>3 DEF AccountInv, Accounted, Pending, Current, At
  <1>4. ASSUME NEW k \in Key, ChangeListing(k) PROVE UNCHANGED <<call, wire, replies, runs, lost>>
    BY <1>4 DEF ChangeListing, net
  <1>5. FlipToken \/ UNCHANGED vars => UNCHANGED <<call, wire, replies, runs, lost>>
    BY DEF FlipToken, vars, net
  <1> QED BY <1>1, <1>2, <1>3, <1>4, <1>5 DEF Next
-----------------------------------------------------------------------------
(***************************************************************************)
(* Layer 3: where the verdicts come from.                                  *)
(***************************************************************************)
\* The cache is empty and no call has judged anything.
LEMMA InitJudges == Init => JudgeInv
  <1> SUFFICES ASSUME Init PROVE JudgeInv
    OBVIOUS
  <1>1. \A c \in Call : call[c] = Fresh /\ lost[c] = 0
    BY DEF Init
  <1>2. \A c \in Call : Judged(c)
    BY <1>1 DEF Judged, Fresh, None
  <1> QED BY <1>2, McpClientChoices DEF Init, JudgeInv

\* A step of c that leaves the listings alone has to justify c's verdict only.
LEMMA QuietVerdict ==
  ASSUME Types, JudgeInv, NEW c \in Call, NEW pc, NEW attempt, NEW validator, NEW outcome,
         NEW answered, Moved(c, pc, attempt, validator, outcome, answered),
         UNCHANGED <<want, listed, history>>,
         \A d \in Call \ {c} : lost'[d] = lost[d],
         \A k \in Key : cache'[k] # None => cache'[k] \in history[k],
         Judged(c)'
  PROVE  JudgeInv'
  <1>1. ASSUME NEW d \in Call PROVE Judged(d)'
    <2>1. CASE d # c
      <3>1. call'[d] = call[d] /\ lost'[d] = lost[d] /\ Judged(d)
        BY <2>1 DEF Moved, JudgeInv
      <3> QED BY <3>1 DEF Judged, Seen, Passed, Failed
    <2> QED BY <2>1
  <1> QED BY <1>1 DEF JudgeInv

\* Every step of a call justifies its verdict.
LEMMA ClientJudges ==
  ASSUME Types, AccountInv, JudgeInv, NEW c \in Call, Begin(c) \/ ClientStep(c)
  PROVE  JudgeInv'
  <1>1. /\ Judged(c) /\ call[c] \in CallRecord /\ lost[c] \in Nat /\ want[c].key \in Key
        /\ Accounted(c)
    BY McpClientChoices DEF JudgeInv, AccountInv, Types
  <1>2. UNCHANGED <<want, listed, history>> /\ \A d \in Call \ {c} : lost'[d] = lost[d]
    BY DEF ClientStep, Begin, Resolve, LookUp, FetchFails, FetchAnswered, Store, Validate,
           SendFails, Send, Receive, GiveUp, Settle, env, net, Types
  <1>3. Seen(c)' = Seen(c) /\ Passed(c)' = Passed(c) /\ Failed(c)' = Failed(c)
    BY <1>2 DEF Seen, Passed, Failed
  <1>4. \A k \in Key : cache[k] # None => cache[k] \in history[k]
    BY DEF JudgeInv
  <1>5. ASSUME NEW pc, NEW attempt, NEW validator, NEW outcome,
               Moved(c, pc, attempt, validator, outcome, call[c].answered),
               lost' = lost, cache' = cache,
               pc \in {"store", "validate"} => validator \in Seen(c) \cap Compiled,
               pc \in {"send", "waiting"} => Passed(c),
               outcome = "schema_validation_error" =>
                 Failed(c) \/ outcome = call[c].outcome
        PROVE  JudgeInv'
    <2>1. Judged(c)'
      BY <1>1, <1>3, <1>5 DEF Judged, Moved
    <2> QED BY <1>2, <1>4, <1>5, <2>1, QuietVerdict
  <1>6. ASSUME NEW outcome \in Outcome \ {"schema_validation_error"}, Ends(c, outcome),
               lost' = lost, cache' = cache
        PROVE  JudgeInv'
    BY <1>5, <1>6, EndsMoves
  <1>7. CASE Begin(c)
    BY <1>5, <1>7, GotoMoves DEF Begin, Place, net
  <1>8. CASE Resolve(c)
    <2>1. lost' = lost /\ cache' = cache
      BY <1>8 DEF Resolve, net
    <2>2. ASSUME Moved(c, "done", call[c].attempt, call[c].validator, "unresolved_ref",
                       call[c].answered)
          PROVE  JudgeInv'
      BY <1>5, <2>1, <2>2
    <2>3. ASSUME Moved(c, "lookup", 1, call[c].validator, call[c].outcome, call[c].answered)
          PROVE  JudgeInv'
      BY <1>5, <2>1, <2>3
    <2> QED BY <1>8, <2>2, <2>3, ResolveMoves
  <1>9. CASE LookUp(c)
    <2> DEFINE found == cache[want[c].key]
               pc == IF found = None THEN "fetch" ELSE "validate"
    <2>1. cache[want[c].key] # None => cache[want[c].key] \in Seen(c) \cap Compiled
      BY <1>1, <1>4 DEF Seen, Types
    <2>2. Moved(c, pc, call[c].attempt, found, call[c].outcome, call[c].answered)
      BY <1>9, LookUpMoves
    <2>3. /\ pc \in {"store", "validate"} => found \in Seen(c) \cap Compiled
          /\ pc \notin {"send", "waiting"}
      BY <2>1
    <2>4. lost' = lost /\ cache' = cache
      BY <1>9 DEF LookUp, net
    <2> HIDE DEF pc, found
    <2> QED BY <1>5, <2>2, <2>3, <2>4
  <1>10. CASE FetchFails(c)
    BY <1>6, <1>10 DEF FetchFails, Outcome, Retriable, net
  <1>11. CASE FetchAnswered(c)
    <2>1. listed[want[c].key] \in Seen(c)
      BY <1>1 DEF JudgeInv, Seen
    <2> QED BY <1>5, <1>11, <2>1, FetchAnsweredMoves DEF FetchAnswered, net
  <1>12. CASE Store(c)
    <2>1. Moved(c, "validate", call[c].attempt, call[c].validator, call[c].outcome,
                call[c].answered)
      BY <1>12, GotoMoves DEF Store, Place
    <2>2. call[c].validator \in Seen(c) \cap Compiled
      BY <1>1, <1>12 DEF Store, At, Judged
    <2>3. \A k \in Key : cache'[k] # None => cache'[k] \in history[k]
      BY <1>1, <1>4, <1>12, <2>2 DEF Store, CacheKey, Seen, Types
    <2>4. Judged(c)'
      BY <1>1, <1>3, <1>12, <2>1, <2>2 DEF Store, Judged, Moved, net
    <2> QED BY <1>2, <2>1, <2>3, <2>4, QuietVerdict
  <1>13. CASE Validate(c)
    <2> DEFINE schema == call[c].validator
    <2>1. schema \in Seen(c) \cap Compiled
      BY <1>1, <1>13 DEF Validate, At, Judged
    <2>2. schema \in Schema /\ want[c].args \in Accepts[schema] => Passed(c)
      BY <2>1 DEF Passed
    <2>3. schema # "unknowable" /\ ~(schema \in Schema /\ want[c].args \in Accepts[schema]) => Failed(c)
      BY <2>1 DEF Failed, Compiled
    <2>4. lost' = lost /\ cache' = cache
      BY <1>13 DEF Validate, net
    <2> QED BY <1>5, <1>13, <2>2, <2>3, <2>4, ValidateMoves
  <1>14. CASE SendFails(c)
    BY <1>6, <1>14 DEF SendFails, Outcome, Retriable, net
  <1>15. CASE Send(c)
    <2>1. Passed(c)
      BY <1>1, <1>15 DEF Send, At, Judged
    <2> QED BY <1>5, <1>15, <2>1, GotoMoves DEF Send, Place
  <1>16. CASE Receive(c)
    <2>1. PICK r \in replies : Moved(c, "settle", call[c].attempt, call[c].validator,
                                     ClassifyResult(r.result), TRUE)
      BY <1>16, ReceiveMoves
    <2>2. Passed(c)
      BY <1>1, <1>16 DEF Receive, At, Judged
    <2>3. Judged(c)'
      BY <1>3, <2>1, <2>2 DEF Judged, Moved
    <2> QED BY <1>2, <1>4, <1>16, <2>1, <2>3, QuietVerdict DEF Receive
  <1>17. CASE GiveUp(c)
    <2>1. PICK outcome \in Retriable \cup {"protocol_error"} :
            Moved(c, "settle", call[c].attempt, call[c].validator, outcome, call[c].answered)
      BY <1>17, EndsMoves DEF GiveUp, Outcome
    <2>2. Passed(c)
      BY <1>1, <1>17 DEF GiveUp, At, Judged
    <2>3. Judged(c)'
      BY <1>3, <2>1, <2>2 DEF Judged, Moved, Retriable
    <2> QED BY <1>2, <1>4, <1>17, <2>1, <2>3, QuietVerdict DEF GiveUp
  <1>18. CASE Settle(c)
    <2>1. lost' = lost /\ cache' = cache
      BY <1>18 DEF Settle, net
    <2>2. ASSUME Retries(c), Moved(c, "lookup", call[c].attempt + 1, None, None, FALSE)
          PROVE  JudgeInv'
      <3>1. call[c].answered = FALSE
        BY <1>1, <2>2 DEF Retries, Accounted, CallRecord
      <3>2. Moved(c, "lookup", call[c].attempt + 1, None, None, call[c].answered)
        BY <2>2, <3>1
      <3>3. None # "schema_validation_error"
        BY DEF None
      <3> QED BY <1>5, <2>1, <3>2, <3>3
    <2>3. ASSUME Moved(c, "done", call[c].attempt, call[c].validator, call[c].outcome,
                       call[c].answered)
          PROVE  JudgeInv'
      BY <1>5, <2>1, <2>3
    <2> QED BY <1>18, <2>2, <2>3, SettleMoves
  <1> QED
    BY <1>7, <1>8, <1>9, <1>10, <1>11, <1>12, <1>13, <1>14, <1>15, <1>16, <1>17, <1>18
    DEF ClientStep

\* What was once listed stays in the history, so nothing else unsettles a verdict.
LEMMA NextJudges == Types /\ AccountInv /\ JudgeInv /\ [Next]_vars => JudgeInv'
  <1> SUFFICES ASSUME Types, AccountInv, JudgeInv, [Next]_vars PROVE JudgeInv'
    OBVIOUS
  <1>1. ASSUME NEW c \in Call, Begin(c) \/ ClientStep(c) PROVE JudgeInv'
    BY <1>1, ClientJudges
  <1>2. CASE UNCHANGED <<want, call, cache, listed, lost, history>>
    BY <1>2 DEF JudgeInv, Judged, Seen, Passed, Failed
  <1>3. ASSUME NEW r \in wire, Handle(r) \/ Refuse(r)
        PROVE  UNCHANGED <<want, call, cache, listed, lost, history>>
    BY <1>3 DEF Handle, Refuse, env
  <1>4. ASSUME NEW k \in Key, ChangeListing(k) PROVE JudgeInv'
    <2>1. UNCHANGED <<want, call, cache, lost>>
      BY <1>4 DEF ChangeListing, net
    <2>2. \A l \in Key : history[l] \subseteq history'[l] /\ listed'[l] \in history'[l]
      BY <1>4 DEF ChangeListing, Types, JudgeInv
    <2>3. ASSUME NEW c \in Call PROVE Judged(c)'
      <3>1. Judged(c) /\ want[c].key \in Key
        BY McpClientChoices DEF JudgeInv, Types
      <3>2. Seen(c) \subseteq Seen(c)'
        BY <2>1, <2>2, <3>1 DEF Seen
      <3>3. (Passed(c) => Passed(c)') /\ (Failed(c) => Failed(c)')
        BY <2>1, <3>2 DEF Passed, Failed
      <3> QED BY <2>1, <3>1, <3>2, <3>3 DEF Judged
    <2> QED BY <2>1, <2>2, <2>3 DEF JudgeInv
  <1>5. FlipToken \/ UNCHANGED vars => UNCHANGED <<want, call, cache, listed, lost, history>>
    BY DEF FlipToken, vars, net
  <1> QED BY <1>1, <1>2, <1>3, <1>4, <1>5 DEF Next

-----------------------------------------------------------------------------
(***************************************************************************)
(* The theorems.                                                           *)
(***************************************************************************)
IInv == Types /\ AccountInv /\ JudgeInv

\* The three layers together are an invariant of the remote call.
LEMMA Inductive == Spec => []IInv
  <1>1. Init => IInv
    BY InitTypes, InitAccounts, InitJudges DEF IInv
  <1>2. IInv /\ [Next]_vars => IInv'
    BY NextTypes, NextAccounts, NextJudges DEF IInv
  <1> QED BY <1>1, <1>2, PTL DEF Spec

\* Every variable keeps its type; in particular no call is run, and no attempt
\* lost, more than MaxAttempts times (_RETRY_MAX_ATTEMPTS).
THEOREM TypeCorrect == Spec => []TypeOK
  <1>1. IInv => TypeOK
    <2> SUFFICES ASSUME IInv PROVE TypeOK
      OBVIOUS
    <2>1. ASSUME NEW c \in Call PROVE runs[c] \in 0..MaxAttempts /\ lost[c] \in 0..MaxAttempts
      <3>1. /\ Accounted(c) /\ Cardinality(Pending(c)) \in Nat
            /\ runs[c] \in Nat /\ lost[c] \in Nat /\ call[c].attempt \in 0..MaxAttempts
        BY PendingCounts DEF IInv, AccountInv, Types, CallRecord
      <3> QED BY <3>1, McpClientConstants DEF Accounted, Current
    <2>2. runs \in [Call -> 0..MaxAttempts] /\ lost \in [Call -> 0..MaxAttempts]
      BY <2>1 DEF IInv, Types
    <2> QED BY <2>2 DEF IInv, Types, TypeOK, CallRecord
  <1> QED BY <1>1, Inductive, PTL

\* A tool runs more than once for one step only because the client gave up
\* waiting: _call_with_retry_async never repeats an attempt whose answer it read.
THEOREM RunsHaveReasons == Spec => []RunsAccountedFor
  <1>1. IInv => RunsAccountedFor
    <2> SUFFICES ASSUME IInv, NEW c \in Call
                 PROVE  runs[c] <= lost[c] + IF At(c, "waiting") \/ call[c].answered THEN 1 ELSE 0
      BY DEF RunsAccountedFor
    <2>1. /\ Accounted(c) /\ Cardinality(Pending(c)) \in Nat
          /\ runs[c] \in Nat /\ lost[c] \in Nat
      BY PendingCounts DEF IInv, AccountInv, Types
    <2> QED BY <2>1 DEF Accounted, Current
  <1> QED BY <1>1, Inductive, PTL

\* The verdict on a call's arguments comes from a schema listed for its own
\* tool, although all calls share _validator_cache without a lock.
THEOREM VerdictsAreOwn == Spec => []VerdictFromOwnSchema
  <1>1. IInv => VerdictFromOwnSchema
    BY DEF IInv, JudgeInv, Judged, Passed, Failed, Seen, VerdictFromOwnSchema, At
  <1> QED BY <1>1, Inductive, PTL
-----------------------------------------------------------------------------
(***************************************************************************)
(* The refinement of RemoteCall.                                           *)
(***************************************************************************)
Status == [c \in Call |-> StatusOf(c)]

\* A call that moves changes the status of no other.
LEMMA MovedStatus ==
  ASSUME NEW c \in Call, NEW pc, NEW attempt, NEW validator, NEW outcome, NEW answered,
         Moved(c, pc, attempt, validator, outcome, answered)
  PROVE  /\ Status' = [Status EXCEPT ![c] = StatusOf(c)']
         /\ StatusOf(c)' = CASE pc = "idle" -> "idle"
                             [] pc = "done" -> IF outcome = "ok" THEN "ok" ELSE "error"
                             [] OTHER -> "open"
  BY DEF Moved, Status, StatusOf

\* A call that stays open stutters.
LEMMA OpenStutters ==
  ASSUME NEW c \in Call, call[c].pc \notin {"idle", "done"},
         NEW pc \in Place \ {"idle", "done"}, NEW attempt, NEW validator, NEW outcome,
         NEW answered, Moved(c, pc, attempt, validator, outcome, answered), runs' = runs
  PROVE  UNCHANGED <<Status, runs>>
  <1>1. StatusOf(c) = "open" /\ StatusOf(c)' = "open"
    BY MovedStatus DEF StatusOf
  <1>2. Status' = [Status EXCEPT ![c] = "open"]
    BY <1>1, MovedStatus
  <1> QED BY <1>1, <1>2 DEF Status

\* A call that is done has returned what its outcome says.
LEMMA DoneReturns ==
  ASSUME NEW c \in Call, call[c].pc \notin {"idle", "done"},
         NEW attempt, NEW validator, NEW outcome, NEW answered,
         Moved(c, "done", attempt, validator, outcome, answered), runs' = runs,
         outcome = "ok" => runs[c] > 0
  PROVE  Abstract!Return(c)
  <1>1. Status[c] = "open"
    BY DEF Status, StatusOf
  <1>2. StatusOf(c)' = IF outcome = "ok" THEN "ok" ELSE "error"
    BY MovedStatus
  <1>3. Status' = [Status EXCEPT ![c] = IF outcome = "ok" THEN "ok" ELSE "error"]
    BY <1>2, MovedStatus
  <1> QED BY <1>1, <1>3 DEF Abstract!Return, Status

\* The steps of a call are steps of RemoteCall, or none.
LEMMA ClientRefines ==
  ASSUME Types, AccountInv, NEW c \in Call, Begin(c) \/ ClientStep(c)
  PROVE  Abstract!Next \/ UNCHANGED <<Status, runs>>
  <1>1. runs' = runs
    BY DEF ClientStep, Begin, Resolve, LookUp, FetchFails, FetchAnswered, Store, Validate,
           SendFails, Send, Receive, GiveUp, Settle, net
  <1>2. ASSUME NEW pc \in Place \ {"idle", "done"}, Goto(c, pc), call[c].pc \notin {"idle", "done"}
        PROVE  UNCHANGED <<Status, runs>>
    BY <1>1, <1>2, GotoMoves, OpenStutters
  <1>3. ASSUME NEW outcome \in Outcome, Ends(c, outcome), call[c].pc \notin {"idle", "done"}
        PROVE  UNCHANGED <<Status, runs>>
    BY <1>1, <1>3, EndsMoves, OpenStutters DEF Place
  <1>4. CASE Begin(c)
    <2>1. Moved(c, "resolve", call[c].attempt, call[c].validator, call[c].outcome,
                call[c].answered)
      BY <1>4, GotoMoves DEF Begin, Place
    <2>2. StatusOf(c) = "idle" /\ StatusOf(c)' = "open"
      BY <1>4, <2>1, MovedStatus DEF Begin, At, StatusOf
    <2>3. Abstract!Begin(c)
      BY <1>1, <2>1, <2>2, MovedStatus DEF Abstract!Begin, Status
    <2> QED BY <2>3 DEF Abstract!Next
  <1>5. CASE Resolve(c)
    <2>1. call[c].pc \notin {"idle", "done"}
      BY <1>5 DEF Resolve, At
    <2>2. ASSUME Moved(c, "done", call[c].attempt, call[c].validator, "unresolved_ref",
                       call[c].answered)
          PROVE  Abstract!Return(c)
      BY <1>1, <2>1, <2>2, DoneReturns
    <2>3. ASSUME Moved(c, "lookup", 1, call[c].validator, call[c].outcome, call[c].answered)
          PROVE  UNCHANGED <<Status, runs>>
      BY <1>1, <2>1, <2>3, OpenStutters DEF Place
    <2> QED BY <1>5, <2>2, <2>3, ResolveMoves DEF Abstract!Next
  <1>6. CASE LookUp(c)
    <2>1. call[c].pc \notin {"idle", "done"}
      BY <1>6 DEF LookUp, At
    <2>2. PICK pc, validator : pc \in {"fetch", "validate"} /\
            Moved(c, pc, call[c].attempt, validator, call[c].outcome, call[c].answered)
      BY <1>6, LookUpMoves
    <2> QED BY <1>1, <2>1, <2>2, OpenStutters DEF Place
  <1>7. CASE FetchFails(c)
    BY <1>3, <1>7 DEF FetchFails, At, Outcome, Retriable
  <1>8. CASE FetchAnswered(c)
    <2>1. call[c].pc \notin {"idle", "done"}
      BY <1>8 DEF FetchAnswered, At
    <2>2. PICK pc, validator, outcome : pc \in {"settle", "store"} /\
            Moved(c, pc, call[c].attempt, validator, outcome, call[c].answered)
      BY <1>8, FetchAnsweredMoves
    <2> QED BY <1>1, <2>1, <2>2, OpenStutters DEF Place
  <1>9. CASE Store(c)
    BY <1>2, <1>9 DEF Store, At, Place
  <1>10. CASE Validate(c)
    <2>1. call[c].pc \notin {"idle", "done"}
      BY <1>10 DEF Validate, At
    <2>2. PICK pc, validator, outcome : pc \in {"settle", "send"} /\
            Moved(c, pc, call[c].attempt, validator, outcome, call[c].answered)
      BY <1>10, ValidateMoves
    <2> QED BY <1>1, <2>1, <2>2, OpenStutters DEF Place
  <1>11. CASE SendFails(c)
    BY <1>3, <1>11 DEF SendFails, At, Outcome, Retriable
  <1>12. CASE Send(c)
    BY <1>2, <1>12 DEF Send, At, Place
  <1>13. CASE Receive(c)
    <2>1. call[c].pc \notin {"idle", "done"}
      BY <1>13 DEF Receive, At
    <2>2. PICK r \in replies : Moved(c, "settle", call[c].attempt, call[c].validator,
                                     ClassifyResult(r.result), TRUE)
      BY <1>13, ReceiveMoves
    <2> QED BY <1>1, <2>1, <2>2, OpenStutters DEF Place
  <1>14. CASE GiveUp(c)
    BY <1>3, <1>14 DEF GiveUp, At, Outcome, Retriable
  <1>15. CASE Settle(c)
    <2>1. call[c].pc \notin {"idle", "done"}
      BY <1>15 DEF Settle, At
    <2>2. ASSUME Moved(c, "lookup", call[c].attempt + 1, None, None, FALSE)
          PROVE  UNCHANGED <<Status, runs>>
      BY <1>1, <2>1, <2>2, OpenStutters DEF Place
    <2>3. ASSUME Moved(c, "done", call[c].attempt, call[c].validator, call[c].outcome,
                       call[c].answered)
          PROVE  Abstract!Return(c)
      <3>1. call[c].outcome = "ok" => runs[c] > 0
        BY DEF AccountInv, Accounted
      <3> QED BY <1>1, <2>1, <2>3, <3>1, DoneReturns
    <2> QED BY <1>15, <2>2, <2>3, SettleMoves DEF Abstract!Next
  <1> QED
    BY <1>4, <1>5, <1>6, <1>7, <1>8, <1>9, <1>10, <1>11, <1>12, <1>13, <1>14, <1>15
    DEF ClientStep

\* The server runs a tool only for a call that has begun, and within its attempts.
LEMMA HandleRefines ==
  ASSUME Types, AccountInv, NEW r \in wire, Handle(r)
  PROVE  Abstract!Next
  <1> DEFINE c == r.call
  <1>1. c \in Call
    BY DEF Types, Request
  <1>2. /\ Accounted(c) /\ runs[c] \in Nat /\ lost[c] \in Nat /\ call[c] \in CallRecord
        /\ IsFiniteSet(Pending(c)) /\ Cardinality(Pending(c)) \in Nat
    BY <1>1, PendingCounts DEF AccountInv, Types
  <1>3. Cardinality(Pending(c)) # 0
    <2>1. r \in Pending(c)
      BY DEF Pending
    <2> QED BY <1>2, <2>1, FS_EmptySet
  <1>4. runs[c] < call[c].attempt /\ call[c].attempt \in 0..MaxAttempts
    BY <1>2, <1>3 DEF Accounted, Current, CallRecord
  <1>5. runs[c] < MaxAttempts /\ call[c].pc # "idle"
    BY <1>2, <1>4, McpClientConstants DEF Accounted
  <1>6. Status' = Status /\ runs' = [runs EXCEPT ![c] = @ + 1]
    BY DEF Handle, Status, StatusOf
  <1>7. Status[c] # "idle"
    BY <1>1, <1>5 DEF Status, StatusOf
  <1>8. Abstract!RunTool(c)
    BY <1>5, <1>6, <1>7 DEF Abstract!RunTool, Status
  <1> QED BY <1>1, <1>8 DEF Abstract!Next

\* execute_mcp_tool_call_step keeps the promise of RemoteCall: a call returns
\* once, a success means that the tool ran, and it runs at most MaxAttempts times.
THEOREM RefinesRemoteCall == Spec => ImplementsRemoteCall
  <1>1. Init => Abstract!Init
    BY DEF Init, Abstract!Init, StatusOf, Fresh
  <1>2. Types /\ AccountInv /\ [Next]_vars => [Abstract!Next]_(Abstract!vars)
    <2> SUFFICES ASSUME Types, AccountInv, [Next]_vars
                 PROVE  Abstract!Next \/ UNCHANGED <<Status, runs>>
      BY DEF Abstract!vars, Status
    <2>1. ASSUME NEW c \in Call, Begin(c) \/ ClientStep(c)
          PROVE  Abstract!Next \/ UNCHANGED <<Status, runs>>
      BY <2>1, ClientRefines
    <2>2. ASSUME NEW r \in wire, Handle(r) PROVE Abstract!Next
      BY <2>2, HandleRefines
    <2>3. ASSUME UNCHANGED <<call, runs>> PROVE UNCHANGED <<Status, runs>>
      BY <2>3 DEF Status, StatusOf
    <2>4. ASSUME NEW r \in wire, Refuse(r) PROVE UNCHANGED <<call, runs>>
      BY <2>4 DEF Refuse
    <2>5. ASSUME NEW k \in Key, ChangeListing(k) PROVE UNCHANGED <<call, runs>>
      BY <2>5 DEF ChangeListing, net
    <2>6. FlipToken \/ UNCHANGED vars => UNCHANGED <<call, runs>>
      BY DEF FlipToken, vars, net
    <2> QED BY <2>1, <2>2, <2>3, <2>4, <2>5, <2>6 DEF Next
  <1> QED BY <1>1, <1>2, Inductive, PTL DEF Spec, IInv, ImplementsRemoteCall, Abstract!Spec
=============================================================================
