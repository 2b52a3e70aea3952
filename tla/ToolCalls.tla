----------------------------- MODULE ToolCalls ------------------------------
(***************************************************************************)
(* The MCP tools of megalos_server/tools.py, run by a pool of worker       *)
(* threads over the session store.                                         *)
(*                                                                         *)
(* A tool call reads the store, decides, and then writes in several        *)
(* separate transactions (state.py opens one BEGIN IMMEDIATE per call).    *)
(* A thread is therefore the list of what it still has to do: th[t] is a   *)
(* sequence of operations, <<>> when the thread waits for a call.  The     *)
(* first operation is either a decision (the reads and checks of a tool,   *)
(* taken on the row snapshot _resolve_session returned) or one store       *)
(* transaction.  Between any two operations other threads may run, and the *)
(* process may be restarted, which loses th and keeps the database.        *)
(***************************************************************************)
EXTENDS StoreOps, Sequences

INSTANCE StepRouting

CONSTANTS
    Thread,          \* worker threads of the FastMCP server
    Definition,      \* Definition[w][v]: version v of the YAML of workflow w
    Content,         \* tokens a client may submit
    ValidContent,    \* those that satisfy an output_schema or artifact schema
    MaxStackDepth,   \* max_stack_depth (3)
    ActiveCap,       \* active-session cap (5)
    CountBound,      \* bound on retry and visit counters
    MaxRestarts,     \* bound on restarts of the process
    Tools            \* which tools the clients of a run call

ASSUME ToolCallsAssumption ==
    /\ ValidContent \subseteq Content
    /\ {MaxStackDepth, ActiveCap, CountBound, MaxRestarts} \subseteq Nat

VARIABLES
    sessions, stack, minted,   \* as in SessionStore
    live,                      \* version of each workflow loaded by create_app
    th,                        \* what each worker thread still has to do
    restarts

vars == <<sessions, stack, minted, live, th, restarts>>

Workflow == DOMAIN Definition
Version(w) == DOMAIN Definition[w]

\* What validate_workflow and create_app let through of a workflow that the
\* tools rely on.  (That no step is called __workflow_changed__ is checked
\* nowhere.)
WellFormed(wf) ==
    /\ wf.steps \in Seq(Range(wf.steps)) /\ wf.steps # <<>>
    /\ wf.guardrails \in Seq(Range(wf.guardrails))
    /\ StepIds(wf) \cap {WORKFLOW_CHANGED, Null} = {}
    /\ \A step \in Range(wf.steps) :
          /\ step.branches \cup {step.default_branch} \subseteq StepIds(wf) \cup {Null}
          /\ step.kind = "call" => step.call \in Workflow
    /\ \A g \in Range(wf.guardrails) :
          g.action = "force_branch" => g.target_step \in StepIds(wf)

ASSUME WorkflowsAssumption ==
    /\ Null \notin Nat \cup {COMPLETE, WORKFLOW_CHANGED}
    /\ \A w \in Workflow :
          /\ 1 \in Version(w) /\ Null \notin Version(w)
          /\ \A v \in Version(w) : WellFormed(Definition[w][v])

\* The parsed workflow of a row, the one loaded when the row was resolved.
WorkflowOf(row) == Definition[row.workflow_type][row.workflow_fingerprint]

db == [sessions |-> sessions, stack |-> stack]
Idle(t) == th[t] = <<>>
Quiet == \A t \in Thread : Idle(t)

StepsOf(w) == UNION {Range(Definition[w][v].steps) : v \in Version(w)}
StepNames == {s.id : s \in UNION {StepsOf(w) : w \in Workflow}}
ArtifactNames == UNION {s.artifacts : s \in UNION {StepsOf(w) : w \in Workflow}}

\* Timestamps are abstracted: all transactions share one instant, so eviction
\* picks any row of the class (completed or not) it has to take from.
Now == 0

NewRowInheritingFingerprint(w, parent) ==
    [workflow_type |-> w, current_step |-> FirstStep(Definition[w][live[w]]).id,
     step_data |-> <<>>, retry_counts |-> <<>>, step_visit_counts |-> <<>>,
     escalation |-> FALSE, artifact_checkpoints |-> {},
     updated_at |-> Now, completed_at |-> Null, parent_session_id |-> parent,
     workflow_fingerprint |-> IF parent = Null THEN live[w]
                              ELSE sessions[parent].workflow_fingerprint]
NewRow(w, parent) ==
    [workflow_type |-> w, current_step |-> FirstStep(Definition[w][live[w]]).id,
     step_data |-> <<>>, retry_counts |-> <<>>, step_visit_counts |-> <<>>,
     escalation |-> FALSE, artifact_checkpoints |-> {},
     updated_at |-> Now, completed_at |-> Null,
     parent_session_id |-> parent, workflow_fingerprint |-> live[w]]

Count(counts, step) == IF step \in DOMAIN counts THEN counts[step] ELSE 0
Increment(counts, step) == Put(counts, step, Count(counts, step) + 1)

\* count_active: every row that is not COMPLETE, workflow_changed rows included.
CountActive == Cardinality({s \in DOMAIN sessions : ~IsComplete(sessions[s])})

---------------------------------------------------------------------------
(***************************************************************************)
(* Operations.  A write names a transaction of state.py; a decision names  *)
(* the code that reads, checks and yields the next operations.             *)
(***************************************************************************)
CreateOp(sid, row, type, call, max) ==
    [op |-> "create_session", sid |-> sid, row |-> row, type |-> type,
     call |-> call, max |-> max]
VisitOp(sid, step) == [op |-> "increment_visit", sid |-> sid, step |-> step]
RetryOp(sid, step, max) ==
    [op |-> "increment_retry", sid |-> sid, step |-> step, max |-> max]
UpdateOp(sid, step, data) ==
    [op |-> "update_session", sid |-> sid, step |-> step, data |-> data]
EscalateOp(sid) == [op |-> "set_escalation", sid |-> sid]
LinkOp(sid, child, call) ==
    [op |-> "set_called_session", sid |-> sid, child |-> child, call |-> call]
ClearOp(sid) == [op |-> "clear_called_session", sid |-> sid]
DeleteOp(sid, tolerant) ==
    [op |-> "delete_session", sid |-> sid, tolerant |-> tolerant]
InvalidateOp(sid, steps) ==
    [op |-> "invalidate_steps", sid |-> sid, steps |-> steps]
ArtifactOp(sid, step, art) ==
    [op |-> "store_artifact", sid |-> sid, step |-> step, art |-> art]

EscalateParentOp(sid) == [op |-> "escalate_parent", sid |-> sid]
AutoOp(cont, sid, wf, at, data) ==
    [op |-> "auto_execute", cont |-> cont, sid |-> sid, wf |-> wf, at |-> at, data |-> data]
HandoffOp(sid, wf, data) == [op |-> "auto_resume", sid |-> sid, wf |-> wf, data |-> data]

\* Session ids a thread has drawn and not inserted yet.
Reserved ==
    LET pending == UNION {Range(th[t]) : t \in Thread}
    IN  {o.sid : o \in {p \in pending : p.op = "create_session"}}
          \cup {o.child : o \in {p \in pending : p.op \in {"enter_sub_workflow", "push_flow"}}}

---------------------------------------------------------------------------
(***************************************************************************)
(* What is left to do once a decision is taken.                            *)
(***************************************************************************)

\* _resolve_session, first half: what the lookup finds.
Resolve(sid) ==
    IF sid \notin DOMAIN sessions THEN "session_not_found"
    ELSE LET row == sessions[sid] IN
         IF row.current_step = WORKFLOW_CHANGED THEN "workflow_changed"
         ELSE IF live[row.workflow_type] = Null THEN "workflow_not_loaded"
         ELSE IF live[row.workflow_type] # row.workflow_fingerprint THEN "mismatch"
         ELSE "ok"

\* _resolve_session, second half: go on, write the terminal marker, or refuse.
ThenOn(sid, plan) ==
    IF Resolve(sid) = "ok" THEN plan
    ELSE IF Resolve(sid) = "mismatch" THEN <<UpdateOp(sid, WORKFLOW_CHANGED, Null)>>
    ELSE <<>>

\* The pointer has come to rest at `at`: count the visit and persist.  cont
\* says on whose behalf: start_workflow persists first and counts after, and
\* only a submission hands a completed session over to the frame below.
ArriveWithoutHandoff(cont, sid, wf, at, data) ==
    LET visit  == IF at = COMPLETE THEN <<>> ELSE <<VisitOp(sid, at)>>
        update == <<UpdateOp(sid, at, data)>>
    IN  IF cont = "start" THEN update \o visit ELSE visit \o update
Arrive(cont, sid, wf, at, data) ==
    LET visit  == IF at = COMPLETE THEN <<>> ELSE <<VisitOp(sid, at)>>
        update == <<UpdateOp(sid, at, data)>>
        resume == IF at = COMPLETE THEN <<HandoffOp(sid, wf, data)>> ELSE <<>>
    IN  CASE cont = "start"   -> update \o visit
          [] cont = "submit"  -> visit \o update \o resume
          [] cont = "advance" -> visit \o update

\* An mcp_tool_call step is executed in line instead of being rested on.
Proceed(cont, sid, wf, at, data) ==
    IF at # COMPLETE /\ StepAt(wf, at).kind = "mcp"
    THEN <<AutoOp(cont, sid, wf, at, data)>>
    ELSE Arrive(cont, sid, wf, at, data)

\* submit_step from the accepted content on: guardrails, branch, skip loop.
AcceptPlan(sid, row, step, content, branch) ==
    LET wf        == WorkflowOf(row)
        data      == Put(row.step_data, step.id, content)
        guardrail == EvaluateGuardrails(wf, content, data,
                                        Count(row.step_visit_counts, step.id))
        target    == BranchTarget(wf, step, branch, guardrail)
        landing   == ApplySkipLoop(wf, target, data, ForceBranched(guardrail))
    IN  IF guardrail # Null /\ guardrail.action = "escalate"
        THEN <<EscalateOp(sid), UpdateOp(sid, Null, data), EscalateParentOp(sid)>>
        ELSE IF target = Null THEN <<>>
        ELSE IF landing.cascade THEN <<EscalateParentOp(sid)>>
        ELSE Proceed("submit", sid, wf, landing.step, data)

\* submit_step after the checks on the snapshot: the pending guard, the
\* call-step guard, intermediate artifacts, output_schema.
SubmitPlanWithoutPendingGuard(sid, row, content, branch, art) ==
    LET step == StepAt(WorkflowOf(row), row.current_step)
    IN  IF step.kind = "call" THEN <<>>
        ELSE AcceptPlan(sid, row, step, content, branch)
SubmitPlan(sid, row, content, branch, art) ==
    LET step       == StepAt(WorkflowOf(row), row.current_step)
        checkpoint == IF art \in step.checkpoints
                      THEN <<ArtifactOp(sid, step.id, art)>> ELSE <<>>
        accept     == AcceptPlan(sid, row, step, content, branch)
    IN  IF TopFrames(stack, sid) # {} \/ step.kind = "call" THEN <<>>
        ELSE IF step.artifacts # {}
        THEN IF art \notin step.artifacts \/ content \notin ValidContent THEN <<>>
             ELSE IF art = step.output_from THEN checkpoint \o accept
             ELSE checkpoint
        ELSE IF step.output_schema /\ content \notin ValidContent
        THEN <<RetryOp(sid, step.id, step.max_retries)>>
        ELSE accept

\* _advance_parent: a cascade in the skip loop returns before anything is
\* persisted.
AdvancePlanWithoutData(parent, wf, step, data) ==
    Proceed("advance", parent, wf, ApplySkipLoop(wf, DefaultTarget(wf, step), data, FALSE).step,
            Without(data, {step.id}))
AdvancePlan(parent, wf, step, data) ==
    LET landing == ApplySkipLoop(wf, DefaultTarget(wf, step), data, FALSE)
    IN  IF landing.cascade THEN <<>>
        ELSE Proceed("advance", parent, wf, landing.step, data)

\* _propagate_to_parent, the parent resolved: drift, the call-step's
\* output_schema, or delete the child, drop its frame and advance the parent.
Artifact(wf, data) ==
    IF LastStep(wf).id \in DOMAIN data THEN data[LastStep(wf).id] ELSE ""
PropagatePlan(child, childWf, childData, parent) ==
    LET row      == sessions[parent]
        wf       == WorkflowOf(row)
        at       == row.current_step
        artifact == Artifact(childWf, childData)
    IN  IF at \notin StepIds(wf) \/ StepAt(wf, at).kind # "call"
        THEN <<EscalateOp(parent)>>
        ELSE IF StepAt(wf, at).output_schema /\ artifact \notin ValidContent
        THEN <<EscalateParentOp(child)>>
        ELSE <<DeleteOp(child, FALSE), ClearOp(parent)>>
               \o AdvancePlan(parent, wf, StepAt(wf, at), Put(row.step_data, at, artifact))

\* revise_step after the checks: the steps after the target lose their data; a
\* call-step also loses its child, the frame above and its own data.
RevisePlan(sid, wf, step, child) ==
    LET after    == StepsAfter(wf, step.id)
        unlink   == IF child = Null THEN <<>> ELSE <<DeleteOp(child, TRUE), ClearOp(sid)>>
        callStep == IF step.kind = "call"
                    THEN unlink \o <<InvalidateOp(sid, {step.id})>> ELSE <<>>
    IN  <<InvalidateOp(sid, after)>> \o callStep \o <<UpdateOp(sid, step.id, Null)>>

---------------------------------------------------------------------------
Init ==
    /\ sessions = <<>>
    /\ stack = <<>>
    /\ minted = {}
    /\ live \in [Workflow -> {1}]
    /\ th = [t \in Thread |-> <<>>]
    /\ restarts = 0

Do(t, plan) == th' = [th EXCEPT ![t] = plan]
UnchangedStore == UNCHANGED <<sessions, stack, minted>>
UnchangedServer == UNCHANGED <<live, restarts>>

\* Bound: a session whose counters are at CountBound takes no further call.
BelowBound(row) ==
    /\ \A s \in DOMAIN row.step_visit_counts : row.step_visit_counts[s] < CountBound
    /\ \A s \in DOMAIN row.retry_counts : row.retry_counts[s] < CountBound

(***************************************************************************)
(* The calls.  A call whose arguments the snapshot already rules out       *)
(* returns an error and changes nothing, so it is not a step.              *)
(***************************************************************************)
StartWorkflow(t, w, sid) ==
    LET wf == Definition[w][live[w]]
    IN  /\ "start_workflow" \in Tools
        /\ Idle(t)
        /\ live[w] # Null
        /\ CountActive < ActiveCap
        /\ sid \notin minted \cup Reserved
        /\ Do(t, <<CreateOp(sid, NewRow(w, Null), "call", Null, Null),
                   VisitOp(sid, FirstStep(wf).id)>>
                 \o IF FirstStep(wf).kind = "mcp"
                    THEN <<AutoOp("start", sid, wf, FirstStep(wf).id, <<>>)>> ELSE <<>>)
        /\ UnchangedStore /\ UnchangedServer

\* Every session tool (get_state, get_guidelines and generate_artifact too)
\* goes through _resolve_session; this is the call that finds another workflow.
ResolveMismatch(t, sid) ==
    /\ Idle(t)
    /\ Resolve(sid) = "mismatch"
    /\ Do(t, ThenOn(sid, <<>>))
    /\ UnchangedStore /\ UnchangedServer

\* A session tool whose session resolves: the thread keeps the snapshot and
\* goes on to the checks that read the stack.
ResolvedIgnoringError(t, tool, sid, call) ==
    /\ tool \in Tools
    /\ Idle(t)
    /\ Resolve(sid) # "session_not_found"
    /\ Do(t, <<call>>)
    /\ UnchangedStore /\ UnchangedServer
Resolved(t, tool, sid, call) ==
    /\ tool \in Tools
    /\ Idle(t)
    /\ Resolve(sid) = "ok"
    /\ Do(t, <<call>>)
    /\ UnchangedStore /\ UnchangedServer

\* submit_step refuses an escalated session, a completed one, and any step but
\* the current one.
SubmittableWhenEscalated(row) == row.current_step \in StepIds(WorkflowOf(row))
Submittable(row) == ~row.escalation /\ row.current_step \in StepIds(WorkflowOf(row))

SubmitStep(t, sid, content, branch, art) ==
    LET row == sessions[sid]
    IN  /\ Resolved(t, "submit_step", sid,
              [op |-> "submit_step", sid |-> sid, row |-> row,
               content |-> content, branch |-> branch, art |-> art])
        /\ Submittable(row)
        /\ LET step == StepAt(WorkflowOf(row), row.current_step)
           IN  /\ branch \in step.branches \cup {Null}
               /\ IF step.artifacts = {} THEN art = Null ELSE art \in step.artifacts
        /\ BelowBound(row)

ReviseStep(t, sid, step) ==
    /\ Resolved(t, "revise_step", sid,
          [op |-> "revise_step", sid |-> sid, row |-> sessions[sid], step |-> step])
    /\ step \in StepIds(WorkflowOf(sessions[sid]))
    /\ BelowBound(sessions[sid])

EnterSubWorkflow(t, sid, child) ==
    LET row == sessions[sid]
    IN  /\ Resolved(t, "enter_sub_workflow", sid,
              [op |-> "enter_sub_workflow", sid |-> sid, row |-> row, child |-> child])
        /\ row.current_step \in StepIds(WorkflowOf(row))
        /\ ~row.escalation
        /\ StepAt(WorkflowOf(row), row.current_step).kind = "call"
        /\ child \notin minted \cup Reserved
        /\ BelowBound(row)

PushFlow(t, sid, w, child) ==
    LET row == sessions[sid]
    IN  /\ Resolved(t, "push_flow", sid,
              [op |-> "push_flow", sid |-> sid, row |-> row, w |-> w, child |-> child])
        /\ row.current_step # COMPLETE
        /\ ~row.escalation
        /\ child \notin minted \cup Reserved

PopFlow(t, sid) ==
    /\ Resolved(t, "pop_flow", sid, [op |-> "pop_flow", sid |-> sid])
    /\ ~sessions[sid].escalation

\* delete_session does not resolve; it refuses a framed session.
DeleteSession(t, sid) ==
    /\ "delete_session" \in Tools
    /\ Idle(t)
    /\ sid \in DOMAIN sessions
    /\ sid \notin DOMAIN stack
    /\ Do(t, <<DeleteOp(sid, FALSE)>>)
    /\ UnchangedStore /\ UnchangedServer

---------------------------------------------------------------------------
(***************************************************************************)
(* The decisions: reads of the stack and of other rows, then a plan.       *)
(***************************************************************************)
Pending(t, name) == th[t] # <<>> /\ Head(th[t]).op = name

Decide(t, plan) ==
    /\ Do(t, plan)
    /\ UnchangedStore /\ UnchangedServer

DecideSubmitStep(t) ==
    /\ Pending(t, "submit_step")
    /\ LET o == Head(th[t])
       IN  Decide(t, SubmitPlan(o.sid, o.row, o.content, o.branch, o.art))

\* Refused: the session is framed, or the target was not completed and is not
\* a call-step with a frame above.
DecideReviseStep(t) ==
    /\ Pending(t, "revise_step")
    /\ LET o        == Head(th[t])
           wf       == WorkflowOf(o.row)
           step     == StepAt(wf, o.step)
           children == TopFrames(stack, o.sid)
           allowed  == /\ o.sid \notin DOMAIN stack
                       /\ \/ o.step \in DOMAIN o.row.step_data
                          \/ step.kind = "call" /\ children # {}
       IN  \E child \in IF children = {} THEN {Null} ELSE children :
              Decide(t, IF allowed THEN RevisePlan(o.sid, wf, step, child) ELSE <<>>)

\* Refused: a frame above, the target not loaded, call_context_from absent.
DecideEnterSubWorkflow(t) ==
    /\ Pending(t, "enter_sub_workflow")
    /\ LET o       == Head(th[t])
           step    == StepAt(WorkflowOf(o.row), o.row.current_step)
           row     == NewRow(step.call, o.sid)
           allowed == /\ TopFrames(stack, o.sid) = {}
                      /\ live[step.call] # Null
                      /\ step.ref = Null \/ step.ref \in DOMAIN o.row.step_data
       IN  Decide(t, IF allowed
                     THEN <<CreateOp(o.child, row, "call", Null, Null),
                            VisitOp(o.child, row.current_step),
                            LinkOp(o.sid, o.child, step.id)>>
                     ELSE <<>>)

\* Refused: a frame above, not loaded, stack full, active cap.
DecidePushFlow(t) ==
    /\ Pending(t, "push_flow")
    /\ LET o       == Head(th[t])
           row     == NewRow(o.w, o.sid)
           root    == ChildSlot(stack, o.sid).root
           allowed == /\ TopFrames(stack, o.sid) = {}
                      /\ live[o.w] # Null
                      /\ Cardinality(FramesOf(stack, root)) < MaxStackDepth
                      /\ CountActive < ActiveCap
       IN  Decide(t, IF allowed
                     THEN <<CreateOp(o.child, row, "digression", o.row.current_step,
                                     MaxStackDepth),
                            VisitOp(o.child, row.current_step)>>
                     ELSE <<>>)

\* _resume_parent_after_digression: the session below resumes as it is.
ResumePlan(child, outer) == ThenOn(outer, <<DeleteOp(child, FALSE)>>)

\* Refused: no frame of its own, or a call-frame.  A digression whose position
\* below is empty fails the assertion of the resume and ends the call.
DecidePopFlow(t) ==
    /\ Pending(t, "pop_flow")
    /\ LET sid      == Head(th[t]).sid
           poppable == sid \in DOMAIN stack /\ stack[sid].frame_type = "digression"
           below    == IF poppable THEN ParentsOf(stack, sid) ELSE {}
       IN  \/ below = {} /\ Decide(t, <<>>)
           \/ \E p \in below : Decide(t, ResumePlan(sid, p))

\* _auto_resume_on_top_frame_complete: a completed session with a frame below.
DecideAutoResume(t) ==
    /\ Pending(t, "auto_resume")
    /\ LET o == Head(th[t])
       IN  \/ /\ ParentsOf(stack, o.sid) = {}
              /\ Decide(t, <<>>)
           \/ \E p \in ParentsOf(stack, o.sid) :
                 Decide(t, IF stack[o.sid].frame_type = "digression" THEN ResumePlan(o.sid, p)
                           ELSE ThenOn(p, PropagatePlan(o.sid, o.wf, o.data, p)))

\* _wrap_child_failure_into_parent_escalation: only the frame directly below.
DecideEscalateParent(t) ==
    /\ Pending(t, "escalate_parent")
    /\ LET sid == Head(th[t]).sid
       IN  \/ ParentsOf(stack, sid) = {} /\ Decide(t, <<>>)
           \/ \E p \in ParentsOf(stack, sid) : Decide(t, <<EscalateOp(p)>>)

---------------------------------------------------------------------------
(***************************************************************************)
(* The transactions.                                                       *)
(***************************************************************************)

\* Run the transaction at the head of th[t] on a row that exists.
Transact(t, name, new, rest) ==
    /\ Pending(t, name)
    /\ Head(th[t]).sid \in DOMAIN sessions
    /\ sessions' = new.sessions
    /\ stack' = new.stack
    /\ Do(t, rest)
    /\ UNCHANGED minted /\ UnchangedServer

\* The same for a transaction that changes one row.
WriteRow(t, name, row, rest) ==
    Transact(t, name, [db EXCEPT !.sessions[Head(th[t]).sid] = row], rest)

TransactUpdateSession(t) ==
    LET o   == Head(th[t])
        row == sessions[o.sid]
        moved == IF o.step = Null THEN row ELSE SetCurrentStep(row, o.step, Now)
    IN  WriteRow(t, "update_session",
                 IF o.data = Null THEN moved ELSE [moved EXCEPT !.step_data = o.data],
                 Tail(th[t]))

TransactIncrementVisit(t) ==
    LET o == Head(th[t])
    IN  WriteRow(t, "increment_visit",
                 [sessions[o.sid] EXCEPT !.step_visit_counts = Increment(@, o.step)],
                 Tail(th[t]))

\* Retries used up: the frame below is escalated, the session is not.
TransactIncrementRetry(t) ==
    LET o   == Head(th[t])
        row == [sessions[o.sid] EXCEPT !.retry_counts = Increment(@, o.step)]
    IN  WriteRow(t, "increment_retry", row,
                 IF row.retry_counts[o.step] >= o.max
                 THEN <<EscalateParentOp(o.sid)>> ELSE <<>>)

TransactSetEscalation(t) ==
    WriteRow(t, "set_escalation",
             [sessions[Head(th[t]).sid] EXCEPT !.escalation = TRUE], Tail(th[t]))

\* invalidate_steps_after and clear_step_data_key.
TransactInvalidateSteps(t) ==
    LET o == Head(th[t])
    IN  WriteRow(t, "invalidate_steps",
                 [sessions[o.sid] EXCEPT !.step_data = Without(@, o.steps)], Tail(th[t]))

TransactStoreArtifact(t) ==
    LET o == Head(th[t])
    IN  WriteRow(t, "store_artifact",
                 [sessions[o.sid] EXCEPT !.artifact_checkpoints = @ \cup {<<o.step, o.art>>}],
                 Tail(th[t]))

TransactSetCalledSession(t) ==
    LET o == Head(th[t])
    IN  Transact(t, "set_called_session", LinkChild(db, o.sid, o.child, o.call, Now), Tail(th[t]))

TransactClearCalledSession(t) ==
    Transact(t, "clear_called_session", UnlinkChild(db, Head(th[t]).sid, Now), Tail(th[t]))

TransactDeleteSessionRow(t) ==
    Transact(t, "delete_session", DeleteRowsOnly(db, {Head(th[t]).sid}), Tail(th[t]))
TransactDeleteSession(t) ==
    Transact(t, "delete_session", DeleteSessions(db, {Head(th[t]).sid}), Tail(th[t]))

\* create_session; StackFull rolls back and ends the call.
TransactCreateSession(t, evicted) ==
    LET o    == Head(th[t])
        full == /\ o.max # Null
                /\ StackFull(db, evicted, o.row.parent_session_id, o.max)
        new  == CreateSession(db, evicted, o.sid, o.row, o.type, o.call)
    IN  /\ Pending(t, "create_session")
        /\ evicted \in EvictionChoices(sessions)
        /\ IF full THEN UnchangedStore /\ Do(t, <<>>)
           ELSE /\ sessions' = new.sessions
                /\ stack' = new.stack
                /\ minted' = minted \cup {o.sid}
                /\ Do(t, Tail(th[t]))
        /\ UnchangedServer

\* One turn of _auto_execute_mcp_steps: the args, the remote call, the
\* envelope, the visit, the next pointer.
Envelope == {"mcp_ok", "mcp_error"}
AutoExecute(t, envelope) ==
    LET o      == Head(th[t])
        step   == StepAt(o.wf, o.at)
        data   == Put(o.data, o.at, envelope)
        next   == DefaultTarget(o.wf, step)
        landing == ApplySkipLoop(o.wf, next, data, FALSE)
        Cascade(at, d) == <<UpdateOp(o.sid, at, d)>>
                            \o IF o.cont = "submit" THEN <<EscalateParentOp(o.sid)>> ELSE <<>>
    IN  /\ Pending(t, "auto_execute")
        /\ IF step.ref # Null /\ step.ref \in ComputeSkipped(o.wf, o.data)
           THEN /\ envelope = "mcp_error"
                /\ Do(t, Cascade(o.at, o.data))
                /\ UnchangedStore /\ UnchangedServer
           ELSE /\ (step.ref # Null /\ step.ref \notin DOMAIN o.data) => envelope = "mcp_error"
                /\ WriteRow(t, "auto_execute",
                     [sessions[o.sid] EXCEPT !.step_visit_counts = Increment(@, o.at)],
                     IF landing.cascade THEN Cascade(next, data)
                     ELSE Proceed(o.cont, o.sid, o.wf, landing.step, data))

\* A write finds no row: SessionNotFoundError ends the call, except where
\* revise_step catches it.
RowGoneUntrapped(t) ==
    /\ Pending(t, "delete_session")
    /\ Head(th[t]).tolerant
    /\ Head(th[t]).sid \notin DOMAIN sessions
    /\ Do(t, Tail(th[t]))
    /\ UnchangedStore /\ UnchangedServer
RowGone(t) ==
    /\ ~Idle(t)
    /\ Head(th[t]).op \in {"update_session", "increment_visit", "increment_retry",
          "set_escalation", "invalidate_steps", "store_artifact", "set_called_session",
          "clear_called_session", "delete_session", "auto_execute"}
    /\ Head(th[t]).sid \notin DOMAIN sessions
    /\ Do(t, IF Head(th[t]).op = "delete_session" /\ Head(th[t]).tolerant
             THEN Tail(th[t]) ELSE <<>>)
    /\ UnchangedStore /\ UnchangedServer

\* create_app refuses to start without a workflow, and with a call-step whose
\* target is not loaded.
Loadable(f) ==
    /\ \E w \in Workflow : f[w] # Null
    /\ \A w \in Workflow : f[w] # Null =>
          \A step \in Range(Definition[w][f[w]].steps) :
             step.kind = "call" => f[step.call] # Null

\* The process stops between any two operations and starts again on the same
\* database file, with whatever YAML is on disk then.
Restart ==
    /\ restarts < MaxRestarts
    /\ restarts' = restarts + 1
    /\ live' \in {f \in [Workflow -> UNION {Version(w) : w \in Workflow} \cup {Null}] :
                    (\A w \in Workflow : f[w] \in Version(w) \cup {Null}) /\ Loadable(f)}
    /\ th' = [t \in Thread |-> <<>>]
    /\ UnchangedStore

---------------------------------------------------------------------------
Call(t) ==
    \/ \E w \in Workflow, sid \in Sid : StartWorkflow(t, w, sid)
    \/ \E sid \in Sid : ResolveMismatch(t, sid)
    \/ \E sid \in DOMAIN sessions, content \in Content :
          \E branch \in StepNames \cup {Null}, art \in ArtifactNames \cup {Null} :
             SubmitStep(t, sid, content, branch, art)
    \/ \E sid \in DOMAIN sessions, step \in StepNames : ReviseStep(t, sid, step)
    \/ \E sid \in DOMAIN sessions, child \in Sid : EnterSubWorkflow(t, sid, child)
    \/ \E sid \in DOMAIN sessions, child \in Sid, w \in Workflow : PushFlow(t, sid, w, child)
    \/ \E sid \in DOMAIN sessions : PopFlow(t, sid)
    \/ \E sid \in DOMAIN sessions : DeleteSession(t, sid)

Work(t) ==
    \/ DecideSubmitStep(t)
    \/ DecideReviseStep(t)
    \/ DecideEnterSubWorkflow(t)
    \/ DecidePushFlow(t)
    \/ DecidePopFlow(t)
    \/ DecideAutoResume(t)
    \/ DecideEscalateParent(t)
    \/ TransactUpdateSession(t)
    \/ TransactIncrementVisit(t)
    \/ TransactIncrementRetry(t)
    \/ TransactSetEscalation(t)
    \/ TransactInvalidateSteps(t)
    \/ TransactStoreArtifact(t)
    \/ TransactSetCalledSession(t)
    \/ TransactClearCalledSession(t)
    \/ TransactDeleteSession(t)
    \/ \E evicted \in SUBSET Sid : TransactCreateSession(t, evicted)
    \/ \E envelope \in Envelope : AutoExecute(t, envelope)
    \/ RowGone(t)

Next == (\E t \in Thread : Call(t) \/ Work(t)) \/ Restart

Spec == Init /\ [][Next]_vars

\* The server finishes what a client asked for: a worker thread that can go on
\* does go on.  Clients owe nothing.
FairSpec == Spec /\ \A t \in Thread : WF_vars(Work(t))

---------------------------------------------------------------------------
(***************************************************************************)
(* Properties.                                                             *)
(***************************************************************************)
StepIndex(row) ==
    IF row.current_step = COMPLETE THEN Len(WorkflowOf(row).steps) + 1
    ELSE FindStep(WorkflowOf(row), row.current_step)

\* Rows and threads have the shape the code gives them; a session stands on a
\* step of its own workflow version, or on one of the two terminal markers.
TypeOK ==
    /\ minted \subseteq Sid
    /\ DOMAIN sessions \subseteq minted
    /\ DOMAIN stack \subseteq minted
    /\ \A s \in DOMAIN sessions :
          LET row == sessions[s]
          IN  /\ row.workflow_type \in Workflow
              /\ row.workflow_fingerprint \in Version(row.workflow_type)
              /\ row.current_step \in StepIds(WorkflowOf(row)) \cup {COMPLETE, WORKFLOW_CHANGED}
              /\ DOMAIN row.step_data \subseteq StepIds(WorkflowOf(row))
              /\ row.escalation \in BOOLEAN
              /\ row.parent_session_id \in minted \cup {Null}
    /\ \A w \in Workflow : live[w] \in Version(w) \cup {Null}
    /\ \A t \in Thread : \A i \in DOMAIN th[t] : th[t][i].sid \in minted \cup Reserved

\* One thread at a time: no two sessions ever stand at the same position of a
\* stack, although frames are addressed by position and pushed, popped, deleted
\* and unlinked in separate transactions (top_frame_for and parent_of fetch one
\* row and would pick either).
OneFramePerSlot ==
    \A r, s \in DOMAIN stack :
        stack[r].root = stack[s].root /\ stack[r].depth = stack[s].depth => r = s

\* A session with a frame above it never moves forward: submit_step refuses it
\* (sub_workflow_pending), the frame has to go first.  (revise_step may move a
\* root back.)
PausedNeverAdvances ==
    [][\A s \in DOMAIN sessions \cap DOMAIN sessions' :
          /\ TopFrames(stack, s) # {}
          /\ TopFrames(stack', s) # {}
          /\ sessions'[s].current_step # WORKFLOW_CHANGED
          => StepIndex(sessions'[s]) <= StepIndex(sessions[s])]_vars

\* A digression resumes where it interrupted: while a digression stands on a
\* framed session, that session is at the step recorded in the frame
\* (paused_at_step), or its workflow has changed.
FramedOuterParked ==
    \A s \in DOMAIN stack :
        LET p == sessions[s].parent_session_id
        IN  stack[s].frame_type = "digression" /\ p \in DOMAIN stack =>
               sessions[p].current_step \in {stack[s].call_step, WORKFLOW_CHANGED}

\* Order is enforced (workflows without branches, with at most one call-step
\* and at most one step in front of it, and without digressions): between
\* calls, every step before the pointer has data unless a precondition may skip
\* it ("Enforces ordering - no skips, no backwards"), whatever was revised,
\* propagated from a child or abandoned in between.
OrderEnforced ==
    Quiet =>
    \A s \in DOMAIN sessions :
        LET row == sessions[s]
            wf  == WorkflowOf(row)
        IN  row.current_step # WORKFLOW_CHANGED =>
            \A i \in DOMAIN wf.steps :
               i < StepIndex(row) /\ wf.steps[i].precondition = Null =>
                  wf.steps[i].id \in DOMAIN row.step_data

\* No stale reads survive a revision (workflows without branches): between
\* calls, no step behind the pointer has data, although revise_step drops data,
\* frame and child in up to five transactions.
NoStaleData ==
    Quiet =>
    \A s \in DOMAIN sessions :
        LET row == sessions[s]
            wf  == WorkflowOf(row)
        IN  row.current_step # WORKFLOW_CHANGED =>
            \A i \in DOMAIN wf.steps :
               i > StepIndex(row) => wf.steps[i].id \notin DOMAIN row.step_data

\* A completed child does not linger (workflows that do not end in a call-step):
\* between calls of one client, a framed session that reached __complete__ was kept on purpose, because its parent is
\* escalated, can not be resolved any more (_propagate_to_parent,
\* _resume_parent_after_digression) or is gone.  Otherwise the parent would
\* refuse every submission (sub_workflow_pending) with nobody left to unblock
\* it.
CompletedFrameHandedOver ==
    Quiet =>
    \A s \in DOMAIN stack :
        LET parent == sessions[s].parent_session_id
        IN  IsComplete(sessions[s]) /\ Resolve(parent) = "ok" =>
               sessions[parent].escalation

\* An escalated session without a child stands still (README: "escalate
\* (irrecoverable)"): only a revision moves it, and only back.
EscalatedNeverAdvances ==
    [][\A s \in DOMAIN sessions \cap DOMAIN sessions' :
          /\ sessions[s].escalation
          /\ sessions'[s].current_step # WORKFLOW_CHANGED
          => StepIndex(sessions'[s]) <= StepIndex(sessions[s])]_vars

\* A workflow in which no reference leads to a step that may be skipped, and no
\* guardrail jumps over preconditions.
RefsSafe(wf) ==
    LET skippable == {s.id : s \in {x \in Range(wf.steps) : x.precondition # Null}}
    IN  /\ \A s \in Range(wf.steps) :
              /\ s.ref \notin skippable
              /\ s.precondition # Null => s.precondition.ref \notin skippable
        /\ \A g \in Range(wf.guardrails) : g.action # "force_branch"

\* The pointer rests on a step a client can submit (sessions that are started
\* and submitted to, not revised, called or pushed): between calls it is on no
\* mcp_tool_call step and on no step whose precondition the data now denies,
\* whichever of submission, branch, loop or automatic execution led there.
RestsOnRunnable ==
    Quiet =>
    \A s \in DOMAIN sessions :
        LET row == sessions[s]
            wf  == WorkflowOf(row)
        IN  RefsSafe(wf) /\ row.current_step \in StepIds(wf) =>
            LET step == StepAt(wf, row.current_step)
            IN  /\ step.kind # "mcp"
                /\ EvaluatePrecondition(step.precondition, row.step_data,
                                        ComputeSkipped(wf, row.step_data)) = "run"

\* A step_revisit guardrail that escalates stops every loop (no revisions): a
\* step a client submits is visited at most max_visits times, visits being
\* counted in one transaction and compared in a later call.
RevisitGuardStopsLoops ==
    \A s \in DOMAIN sessions :
        LET row == sessions[s]
            wf  == WorkflowOf(row)
        IN  \A g \in Range(wf.guardrails) :
               g.trigger = "step_revisit" /\ g.action = "escalate" =>
                  \A step \in Range(wf.steps) :
                     step.kind = "llm" => Count(row.step_visit_counts, step.id) <= g.max

\* A call-step is answered (FairSpec, one client): once a called session is
\* complete and its parent is still there, its artifact reaches the step_data
\* of the parent, or the parent is escalated; the completion, the deletion of
\* the child, the unlinking and the parent's update are four transactions.
HasCallData(row) ==
    \E step \in Range(WorkflowOf(row).steps) :
        step.kind = "call" /\ step.id \in DOMAIN row.step_data
ArtifactReachesParent ==
    \A parent \in Sid :
        (\E child \in DOMAIN stack :
            /\ stack[child].frame_type = "call"
            /\ IsComplete(sessions[child])
            /\ sessions[child].parent_session_id = parent
            /\ parent \in DOMAIN sessions)
        ~> (/\ parent \in DOMAIN sessions
            /\ sessions[parent].escalation \/ HasCallData(sessions[parent]))

\* workflow_changed is terminal: once _resolve_session has written the marker,
\* no call moves the session again or touches its data, neither one of its own
\* nor one of a child that lives on and hands its artifact over.
WorkflowChangedTerminal ==
    [][\A s \in DOMAIN sessions \cap DOMAIN sessions' :
          sessions[s].current_step = WORKFLOW_CHANGED =>
             /\ sessions'[s].current_step = WORKFLOW_CHANGED
             /\ sessions'[s].step_data = sessions[s].step_data]_vars

\* The tools use the store only through its transactions: every step of every
\* interleaving is a transaction of SessionStore on the columns it keeps, or
\* leaves them alone.  What SessionStore guarantees, the server guarantees.
StoreRow(row) ==
    [current_step |-> row.current_step, updated_at |-> row.updated_at,
     completed_at |-> row.completed_at, parent_session_id |-> row.parent_session_id]
Store == INSTANCE SessionStore
    WITH sessions <- [s \in DOMAIN sessions |-> StoreRow(sessions[s])],
         clock <- Now, MaxClock <- 0, LockWait <- 0, Step <- StepNames
ImplementsStore == Store!Spec

\* No chain of mcp steps runs for ever: an mcp step leads on, or back to a step
\* that waits for its client.  (The loader checks only that the target exists.)
AutomaticStepsEnd(wf) ==
    \A i \in DOMAIN wf.steps :
        LET next == FindStep(wf, DefaultTarget(wf, wf.steps[i]))
        IN  wf.steps[i].kind = "mcp" /\ next \in 1..i =>
               wf.steps[next].kind # "mcp" /\ wf.steps[next].precondition = Null

\* Every tool call returns (FairSpec, workflows whose mcp steps lead on or to a
\* waiting step): a worker thread that was given a call becomes idle again,
\* although other threads delete or evict the row of its session, or of the
\* session it hands over to, between any two of its transactions.  Where a
\* default_branch leads from mcp step to mcp step in a circle, the loop of
\* _auto_execute_mcp_steps ends only when the row is deleted.
EveryCallReturns ==
    (\A w \in Workflow : \A v \in Version(w) : AutomaticStepsEnd(Definition[w][v]))
    => \A t \in Thread : ~Idle(t) ~> Idle(t)
=============================================================================
