-------------------------- MODULE ToolCalls_proofs --------------------------
(***************************************************************************)
(* The MCP tools, for any number of worker threads and sessions and any    *)
(* set of workflow files.  The last parts are about one call at a time,    *)
(* with restarts between any two operations: positions of a stack are      *)
(* taken once, and an interrupted session stays where it was interrupted;  *)
(* where workflows have no branches, what a session knows lies behind its  *)
(* pointer, and a session with a frame above it never moves forward.       *)
(***************************************************************************)
EXTENDS ToolCalls, Induction

---------------------------------------------------------------------------
(***************************************************************************)
(* Sequences of operations.                                                *)
(***************************************************************************)
IsSeq(s) == s \in Seq(Range(s))

LEMMA AnySeq ==
    ASSUME NEW S, NEW s \in Seq(S)
    PROVE  IsSeq(s)
    BY DEF IsSeq, Range

LEMMA Empty == IsSeq(<<>>) /\ Range(<<>>) = {}
    BY DEF IsSeq, Range

LEMMA One ==
    ASSUME NEW x
    PROVE  /\ IsSeq(<<x>>) /\ Range(<<x>>) = {x}
           /\ <<x>> # <<>> /\ Head(<<x>>) = x /\ Tail(<<x>>) = <<>>
    BY DEF IsSeq, Range

LEMMA Two ==
    ASSUME NEW x, NEW y
    PROVE  /\ IsSeq(<<x, y>>) /\ Range(<<x, y>>) = {x, y}
           /\ <<x, y>> # <<>> /\ Head(<<x, y>>) = x /\ Tail(<<x, y>>) = <<y>>
    BY DEF IsSeq, Range

LEMMA Three ==
    ASSUME NEW x, NEW y, NEW z
    PROVE  /\ IsSeq(<<x, y, z>>) /\ Range(<<x, y, z>>) = {x, y, z}
           /\ <<x, y, z>> # <<>> /\ Head(<<x, y, z>>) = x /\ Tail(<<x, y, z>>) = <<y, z>>
    BY DEF IsSeq, Range

LEMMA Joined ==
    ASSUME NEW s, NEW u, IsSeq(s), IsSeq(u)
    PROVE  IsSeq(s \o u) /\ Range(s \o u) = Range(s) \cup Range(u)
    <1> DEFINE S == Range(s) \cup Range(u)
    <1>1. s \in Seq(S) /\ u \in Seq(S)
        BY DEF IsSeq, Range
    <1>2. s \o u \in Seq(S)
        BY <1>1
    <1>3. \A e \in S : e \in Range(s \o u)
        <2> TAKE e \in S
        <2>1. CASE e \in Range(s)
            BY <2>1, <1>1 DEF Range
        <2>2. CASE e \in Range(u)
            <3>1. PICK i \in DOMAIN u : u[i] = e
                BY <2>2 DEF Range
            <3>2. (s \o u)[Len(s) + i] = e /\ Len(s) + i \in DOMAIN (s \o u)
                BY <3>1, <1>1
            <3> QED BY <3>2 DEF Range
        <2> QED BY <2>1, <2>2
    <1>4. \A e \in Range(s \o u) : e \in S
        BY <1>1, <1>2 DEF Range
    <1>5. Range(s \o u) = S
        BY <1>3, <1>4
    <1> QED BY <1>2, <1>5 DEF IsSeq

LEMMA HeadAndTail ==
    ASSUME NEW s, IsSeq(s), s # <<>>
    PROVE  /\ Head(s) \in Range(s) /\ IsSeq(Tail(s)) /\ Range(Tail(s)) \subseteq Range(s)
           /\ Range(s) \subseteq {Head(s)} \cup Range(Tail(s))
    <1>1. Tail(s) \in Seq(Range(s)) /\ Head(s) = s[1] /\ 1 \in DOMAIN s
        BY DEF IsSeq
    <1>2. \A i \in DOMAIN Tail(s) : Tail(s)[i] = s[i + 1] /\ i + 1 \in DOMAIN s
        BY DEF IsSeq
    <1>3. IsSeq(Tail(s))
        BY <1>1, AnySeq
    <1>4. Range(Tail(s)) \subseteq Range(s)
        BY <1>2 DEF Range
    <1>5. Range(s) \subseteq {Head(s)} \cup Range(Tail(s))
        <2> SUFFICES ASSUME NEW i \in DOMAIN s, i # 1 PROVE s[i] \in Range(Tail(s))
            BY <1>1 DEF Range
        <2>1. i - 1 \in DOMAIN Tail(s) /\ Tail(s)[i - 1] = s[i]
            BY DEF IsSeq
        <2> QED BY <2>1 DEF Range
    <1> QED BY <1>1, <1>3, <1>4, <1>5 DEF Range

\* Putting a first operation in front of the rest.
LEMMA HeadOfJoined ==
    ASSUME NEW x, NEW y, NEW u, IsSeq(u)
    PROVE  /\ <<x, y>> \o u # <<>> /\ Head(<<x, y>> \o u) = x
           /\ IsSeq(Tail(<<x, y>> \o u)) /\ Range(Tail(<<x, y>> \o u)) = {y} \cup Range(u)
    <1>1. Tail(<<x, y>> \o u) = <<y>> \o u
        BY DEF IsSeq
    <1>2. <<x, y>> \o u # <<>> /\ Head(<<x, y>> \o u) = x
        BY DEF IsSeq
    <1>3. IsSeq(<<y>>) /\ Range(<<y>>) = {y}
        BY One
    <1>4. IsSeq(<<y>> \o u) /\ Range(<<y>> \o u) = {y} \cup Range(u)
        BY <1>3, Joined
    <1> QED BY <1>1, <1>2, <1>4

---------------------------------------------------------------------------
(***************************************************************************)
(* Routing stays inside the workflow.                                      *)
(***************************************************************************)
Places(wf) == StepIds(wf) \cup {COMPLETE}

LEMMA FoundStep ==
    ASSUME NEW wf, WellFormed(wf), NEW id \in StepIds(wf)
    PROVE  /\ FindStep(wf, id) \in 1..Len(wf.steps)
           /\ StepAt(wf, id) \in Range(wf.steps)
           /\ StepAt(wf, id).id = id
    <1>1. \E i \in DOMAIN wf.steps : wf.steps[i].id = id
        BY DEF StepIds
    <1>2. FindStep(wf, id) \in DOMAIN wf.steps /\ wf.steps[FindStep(wf, id)].id = id
        BY <1>1 DEF FindStep
    <1>3. DOMAIN wf.steps = 1..Len(wf.steps)
        BY DEF WellFormed
    <1> QED BY <1>2, <1>3 DEF StepAt, Range

LEMMA StepNamed ==
    ASSUME NEW wf, WellFormed(wf), NEW i \in 1..Len(wf.steps)
    PROVE  wf.steps[i].id \in StepIds(wf)
    BY DEF WellFormed, StepIds

LEMMA FirstStepNamed ==
    ASSUME NEW wf, WellFormed(wf)
    PROVE  FirstStep(wf).id \in StepIds(wf) /\ FirstStep(wf) \in Range(wf.steps)
    BY DEF WellFormed, StepIds, FirstStep, Range

LEMMA NextIsPlace ==
    ASSUME NEW wf, WellFormed(wf), NEW id \in StepIds(wf)
    PROVE  LinearNext(wf, id) \in Places(wf)
    <1>1. FindStep(wf, id) \in 1..Len(wf.steps) /\ Len(wf.steps) \in Nat
        BY FoundStep DEF WellFormed
    <1>2. CASE FindStep(wf, id) = Len(wf.steps)
        BY <1>2 DEF LinearNext, Places, Complete, COMPLETE
    <1>3. CASE FindStep(wf, id) # Len(wf.steps)
        <2>1. FindStep(wf, id) + 1 \in 1..Len(wf.steps)
            BY <1>1, <1>3
        <2> QED BY <2>1, <1>3, StepNamed DEF LinearNext, Places
    <1> QED BY <1>2, <1>3

LEMMA MinIsMember ==
    ASSUME NEW S \in SUBSET Nat, S # {}
    PROVE  Min(S) \in S
    BY LeastElement DEF Min

LEMMA GuardrailFound ==
    ASSUME NEW wf, WellFormed(wf), NEW content, NEW data, NEW visits
    PROVE  EvaluateGuardrails(wf, content, data, visits) \in Range(wf.guardrails) \cup {Null}
    <1> DEFINE fired == {i \in DOMAIN wf.guardrails :
                            Fires(wf.guardrails[i], content, data, visits)}
    <1>1. fired \in SUBSET Nat
        BY DEF WellFormed
    <1>2. CASE fired = {}
        BY <1>2 DEF EvaluateGuardrails
    <1>3. CASE fired # {}
        <2>1. Min(fired) \in fired
            BY <1>1, <1>3, MinIsMember
        <2>2. EvaluateGuardrails(wf, content, data, visits) = wf.guardrails[Min(fired)]
            BY <1>3 DEF EvaluateGuardrails
        <2> QED BY <2>1, <2>2 DEF Range
    <1> QED BY <1>2, <1>3

LEMMA TargetIsPlace ==
    ASSUME NEW wf, WellFormed(wf), NEW step \in Range(wf.steps), NEW branch,
           NEW guardrail \in Range(wf.guardrails) \cup {Null}
    PROVE  BranchTarget(wf, step, branch, guardrail) \in Places(wf) \cup {Null}
    <1>1. step.id \in StepIds(wf)
        BY DEF StepIds, Range
    <1>2. LinearNext(wf, step.id) \in Places(wf)
        BY <1>1, NextIsPlace
    <1>3. ForceBranched(guardrail) => guardrail.target_step \in StepIds(wf)
        BY DEF ForceBranched, WellFormed
    <1>4. step.branches \subseteq StepIds(wf) \cup {Null}
        BY DEF WellFormed
    <1> QED BY <1>2, <1>3, <1>4 DEF BranchTarget, Places

LEMMA DefaultIsPlace ==
    ASSUME NEW wf, WellFormed(wf), NEW step \in Range(wf.steps)
    PROVE  DefaultTarget(wf, step) \in Places(wf)
    <1>1. step.id \in StepIds(wf)
        BY DEF StepIds, Range
    <1>2. LinearNext(wf, step.id) \in Places(wf)
        BY <1>1, NextIsPlace
    <1>3. step.default_branch \in StepIds(wf) \cup {Null}
        BY DEF WellFormed
    <1> QED BY <1>2, <1>3 DEF DefaultTarget, Places, Complete, COMPLETE

LEMMA LandingIsPlace ==
    ASSUME NEW wf, WellFormed(wf), NEW from \in Places(wf), NEW data, NEW forced
    PROVE  ApplySkipLoop(wf, from, data, forced).step \in Places(wf)
    <1> DEFINE i == FindStep(wf, from)
               base == ComputeSkipped(wf, data)
               Verdict(k) == EvaluatePrecondition(wf.steps[k].precondition, data,
                                 base \cup {wf.steps[j].id : j \in i..(k - 1)})
               stops == {k \in i..Len(wf.steps) : Verdict(k) # "skip"}
    <1>1. CASE forced \/ from = COMPLETE
        <2>1. ApplySkipLoop(wf, from, data, forced) = [step |-> from, cascade |-> FALSE]
            BY <1>1 DEF ApplySkipLoop, Complete, COMPLETE
        <2> QED BY <2>1
    <1>2. CASE ~(forced \/ from = COMPLETE) /\ stops = {}
        <2>1. ApplySkipLoop(wf, from, data, forced) = [step |-> COMPLETE, cascade |-> FALSE]
            BY <1>2 DEF ApplySkipLoop, Complete, COMPLETE
        <2> QED BY <2>1 DEF Places
    <1>3. CASE ~(forced \/ from = COMPLETE) /\ stops # {}
        <2>1. i \in 1..Len(wf.steps) /\ Len(wf.steps) \in Nat
            BY <1>3, FoundStep DEF Places, WellFormed
        <2>2. stops \in SUBSET Nat /\ stops \subseteq 1..Len(wf.steps)
            BY <2>1
        <2>3. Min(stops) \in 1..Len(wf.steps)
            BY <2>2, <1>3, MinIsMember
        <2>4. ApplySkipLoop(wf, from, data, forced).step = wf.steps[Min(stops)].id
            BY <1>3 DEF ApplySkipLoop, Complete, COMPLETE
        <2> QED BY <2>3, <2>4, StepNamed DEF Places
    <1> QED BY <1>1, <1>2, <1>3

---------------------------------------------------------------------------
(***************************************************************************)
(* The invariant.  A thread's plan was made for the workflow a session     *)
(* had when the call began.  It still fits, because a session never        *)
(* changes its workflow, no other call moves it to or from the marker, and *)
(* ids are never used twice.                                               *)
(***************************************************************************)
Column == {"workflow_type", "current_step", "step_data", "retry_counts",
           "step_visit_counts", "escalation", "artifact_checkpoints", "updated_at",
           "completed_at", "parent_session_id", "workflow_fingerprint"}

Frame == [root : Sid, depth : Nat \ {0}, frame_type : {"call", "digression"},
          call_step : StepNames \cup {Null}]

RowOK(row) ==
    /\ DOMAIN row = Column
    /\ row.workflow_type \in Workflow
    /\ row.workflow_fingerprint \in Version(row.workflow_type)
    /\ row.current_step \in Places(WorkflowOf(row)) \cup {WORKFLOW_CHANGED}
    /\ DOMAIN row.step_data \subseteq StepIds(WorkflowOf(row))
    /\ row.escalation \in BOOLEAN

StoreOK ==
    /\ minted \subseteq Sid
    /\ DOMAIN sessions \subseteq minted
    /\ \A s \in DOMAIN sessions :
          RowOK(sessions[s]) /\ sessions[s].parent_session_id \in minted \cup {Null}
    /\ DOMAIN stack \subseteq minted
    /\ stack \in [DOMAIN stack -> Frame]
    /\ \A s \in DOMAIN stack : stack[s].root \in minted

LiveOK == \A w \in Workflow : live[w] \in Version(w) \cup {Null}

\* _resolve_session finds a row that is not marked, of the loaded version.
Resolvable(row) ==
    row.current_step # WORKFLOW_CHANGED /\ live[row.workflow_type] = row.workflow_fingerprint

SameWorkflow(r1, r2) ==
    /\ r1.workflow_type = r2.workflow_type
    /\ r1.workflow_fingerprint = r2.workflow_fingerprint

DataOf(data, wf) == data # Null => DOMAIN data \subseteq StepIds(wf)

\* What an operation needs of the row it will write.
Fits(o, row) ==
    /\ o.op = "update_session" =>
          \/ o.step = WORKFLOW_CHANGED /\ o.data = Null /\ ~Resolvable(row)
          \/ /\ Resolvable(row)
             /\ o.step \in Places(WorkflowOf(row)) \cup {Null}
             /\ DataOf(o.data, WorkflowOf(row))
    /\ o.op = "invalidate_steps" => Resolvable(row)
    /\ o.op = "auto_execute" =>
          /\ Resolvable(row)
          /\ o.wf = WorkflowOf(row)
          /\ o.at \in StepIds(o.wf)
          /\ DOMAIN o.data \subseteq StepIds(o.wf)
    /\ o.op \in {"submit_step", "revise_step"} => Resolvable(row) /\ SameWorkflow(o.row, row)

Conts == {"start", "submit", "advance"}

\* The arguments of create_session: start_workflow and enter_sub_workflow, or
\* push_flow.
CreateArgs(o) ==
    /\ o.sid \in Sid
    /\ RowOK(o.row) /\ Resolvable(o.row)
    /\ o.row.current_step \in StepIds(WorkflowOf(o.row))
    /\ o.row.updated_at = Now /\ o.row.completed_at = Null
    /\ \/ /\ o.type = "call" /\ o.call = Null /\ o.max = Null
          /\ o.row.parent_session_id \in minted \cup {Null}
       \/ /\ o.type = "digression" /\ o.call \in StepNames /\ o.max = MaxStackDepth
          /\ o.row.parent_session_id \in minted

\* The snapshot a decision rests on.
SnapshotOK(o) ==
    /\ RowOK(o.row)
    /\ o.op # "revise_step" => o.row.current_step \in StepIds(WorkflowOf(o.row))
    /\ o.op = "revise_step" => o.step \in StepIds(WorkflowOf(o.row))
    /\ o.op = "enter_sub_workflow" =>
          StepAt(WorkflowOf(o.row), o.row.current_step).kind = "call"
    /\ o.op = "push_flow" => o.w \in Workflow
    /\ o.op \in {"enter_sub_workflow", "push_flow"} => o.child \in Sid

OpOK(o) ==
    /\ o.op = "create_session" => CreateArgs(o)
    /\ o.op \in {"submit_step", "revise_step", "enter_sub_workflow", "push_flow"} => SnapshotOK(o)
    /\ o.op = "set_called_session" => o.call \in StepNames
    /\ o.op = "auto_execute" => o.cont \in Conts

\* The plan q begins with the creation of s.
Creates(q, s) == q # <<>> /\ Head(q).op = "create_session" /\ Head(q).sid = s

Drawing == {"create_session", "enter_sub_workflow", "push_flow"}
Drawn(q) ==
    IF q = <<>> \/ Head(q).op \notin Drawing THEN {}
    ELSE IF Head(q).op = "create_session" THEN {Head(q).sid} ELSE {Head(q).child}

Known(q, s) == s \in minted \/ Creates(q, s)

StepOK(q, o) ==
    /\ OpOK(o)
    /\ Known(q, o.sid)
    /\ o.op = "set_called_session" => Known(q, o.child)
    /\ o.sid \in DOMAIN sessions => Fits(o, sessions[o.sid])
    /\ Creates(q, o.sid) => Fits(o, Head(q).row)

WorkOK(q) ==
    /\ IsSeq(q)
    /\ \A o \in Range(q) : StepOK(q, o)
    /\ q # <<>> => \A o \in Range(Tail(q)) : o.op \notin Drawing

IdsOK ==
    /\ \A t \in Thread : Drawn(th[t]) \subseteq Sid \ minted
    /\ \A t, u \in Thread : t # u => Drawn(th[t]) \cap Drawn(th[u]) = {}

ThreadsOK ==
    /\ DOMAIN th = Thread
    /\ \A t \in Thread : WorkOK(th[t])

IInv == StoreOK /\ LiveOK /\ ThreadsOK /\ IdsOK

---------------------------------------------------------------------------
(***************************************************************************)
(* Plans for one session.                                                  *)
(***************************************************************************)
Writing == {"increment_visit", "increment_retry", "update_session", "set_escalation",
            "clear_called_session", "delete_session", "invalidate_steps", "store_artifact",
            "escalate_parent", "auto_execute", "auto_resume"}

Suits(o, sid, wf) ==
    /\ o.op \in Writing
    /\ o.sid \in minted
    /\ o.op \in {"update_session", "invalidate_steps", "auto_execute"} => o.sid = sid
    /\ o.op = "update_session" => o.step \in Places(wf) \cup {Null} /\ DataOf(o.data, wf)
    /\ o.op = "auto_execute" =>
          /\ o.wf = wf /\ o.at \in StepIds(wf) /\ DOMAIN o.data \subseteq StepIds(wf)
          /\ o.cont \in Conts

Suited(plan, sid, wf) == IsSeq(plan) /\ \A o \in Range(plan) : Suits(o, sid, wf)

LEMMA SuitedEmpty == ASSUME NEW sid, NEW wf PROVE Suited(<<>>, sid, wf)
    BY Empty DEF Suited

LEMMA SuitedOne ==
    ASSUME NEW o, NEW sid, NEW wf, Suits(o, sid, wf)
    PROVE  Suited(<<o>>, sid, wf)
    BY One DEF Suited

LEMMA SuitedTwo ==
    ASSUME NEW a, NEW b, NEW sid, NEW wf, Suits(a, sid, wf), Suits(b, sid, wf)
    PROVE  Suited(<<a, b>>, sid, wf)
    <1>1. IsSeq(<<a, b>>) /\ Range(<<a, b>>) = {a, b}
        BY Two
    <1> QED BY <1>1 DEF Suited

LEMMA SuitedThree ==
    ASSUME NEW a, NEW b, NEW c, NEW sid, NEW wf,
           Suits(a, sid, wf), Suits(b, sid, wf), Suits(c, sid, wf)
    PROVE  Suited(<<a, b, c>>, sid, wf)
    <1>1. IsSeq(<<a, b, c>>) /\ Range(<<a, b, c>>) = {a, b, c}
        BY Three
    <1> QED BY <1>1 DEF Suited

LEMMA SuitedJoined ==
    ASSUME NEW p, NEW q, NEW sid, NEW wf, Suited(p, sid, wf), Suited(q, sid, wf)
    PROVE  Suited(p \o q, sid, wf)
    BY Joined DEF Suited

\* The operations, one by one.
LEMMA PlainSuit ==
    ASSUME NEW s \in minted, NEW sid, NEW wf, NEW step, NEW max, NEW tolerant, NEW art,
           NEW w, NEW data
    PROVE  /\ Suits(VisitOp(s, step), sid, wf)
           /\ Suits(RetryOp(s, step, max), sid, wf)
           /\ Suits(EscalateOp(s), sid, wf)
           /\ Suits(ClearOp(s), sid, wf)
           /\ Suits(DeleteOp(s, tolerant), sid, wf)
           /\ Suits(ArtifactOp(s, step, art), sid, wf)
           /\ Suits(EscalateParentOp(s), sid, wf)
           /\ Suits(HandoffOp(s, w, data), sid, wf)
    BY DEF Suits, Writing, VisitOp, RetryOp, EscalateOp, ClearOp, DeleteOp, ArtifactOp,
           EscalateParentOp, HandoffOp

LEMMA UpdateSuits ==
    ASSUME NEW sid \in minted, NEW wf, NEW at \in Places(wf) \cup {Null}, NEW data,
           DataOf(data, wf)
    PROVE  Suits(UpdateOp(sid, at, data), sid, wf)
    BY DEF Suits, Writing, UpdateOp

LEMMA InvalidateSuits ==
    ASSUME NEW sid \in minted, NEW wf, NEW steps
    PROVE  Suits(InvalidateOp(sid, steps), sid, wf)
    BY DEF Suits, Writing, InvalidateOp

LEMMA AutoSuits ==
    ASSUME NEW sid \in minted, NEW wf, NEW cont \in Conts, NEW at \in StepIds(wf), NEW data,
           DOMAIN data \subseteq StepIds(wf)
    PROVE  Suits(AutoOp(cont, sid, wf, at, data), sid, wf)
    BY DEF Suits, Writing, AutoOp

LEMMA ArriveSuits ==
    ASSUME NEW sid \in minted, NEW wf, NEW cont \in Conts, NEW at \in Places(wf), NEW data,
           DOMAIN data \subseteq StepIds(wf)
    PROVE  Suited(Arrive(cont, sid, wf, at, data), sid, wf)
    <1> DEFINE visit  == IF at = COMPLETE THEN <<>> ELSE <<VisitOp(sid, at)>>
               update == <<UpdateOp(sid, at, data)>>
               resume == IF at = COMPLETE THEN <<HandoffOp(sid, wf, data)>> ELSE <<>>
    <1>1. Suited(visit, sid, wf) /\ Suited(resume, sid, wf)
        BY PlainSuit, SuitedOne, SuitedEmpty
    <1>2. Suited(update, sid, wf)
        BY UpdateSuits, SuitedOne DEF DataOf
    <1>3. Suited(visit \o update, sid, wf) /\ Suited(update \o visit, sid, wf)
        BY <1>1, <1>2, SuitedJoined
    <1>4. Suited(visit \o update \o resume, sid, wf)
        BY <1>1, <1>3, SuitedJoined
    <1> HIDE DEF visit, update, resume
    <1>5. CASE cont = "start"
        BY <1>3, <1>5 DEF Arrive, visit, update
    <1>6. CASE cont = "submit"
        BY <1>4, <1>6 DEF Arrive, visit, update, resume
    <1>7. CASE cont = "advance"
        BY <1>3, <1>7 DEF Arrive, visit, update
    <1> QED BY <1>5, <1>6, <1>7 DEF Conts

LEMMA ProceedSuits ==
    ASSUME NEW sid \in minted, NEW wf, NEW cont \in Conts, NEW at \in Places(wf), NEW data,
           DOMAIN data \subseteq StepIds(wf)
    PROVE  Suited(Proceed(cont, sid, wf, at, data), sid, wf)
    <1>1. Suited(Arrive(cont, sid, wf, at, data), sid, wf)
        BY ArriveSuits
    <1>2. at # COMPLETE => Suited(<<AutoOp(cont, sid, wf, at, data)>>, sid, wf)
        BY AutoSuits, SuitedOne DEF Places
    <1> QED BY <1>1, <1>2 DEF Proceed

LEMMA PutDomain ==
    ASSUME NEW f, NEW k, NEW v
    PROVE  DOMAIN Put(f, k, v) = DOMAIN f \cup {k}
    BY DEF Put

LEMMA WithoutDomain ==
    ASSUME NEW f, NEW S
    PROVE  DOMAIN Without(f, S) = DOMAIN f \ S
    BY DEF Without, Restrict

LEMMA WorkflowLoaded ==
    ASSUME NEW row, RowOK(row)
    PROVE  WellFormed(WorkflowOf(row))
    BY WorkflowsAssumption DEF RowOK, WorkflowOf

LEMMA AcceptSuits ==
    ASSUME NEW sid \in minted, NEW row, RowOK(row), NEW step \in Range(WorkflowOf(row).steps),
           NEW content, NEW branch
    PROVE  Suited(AcceptPlan(sid, row, step, content, branch), sid, WorkflowOf(row))
    <1> DEFINE wf        == WorkflowOf(row)
               data      == Put(row.step_data, step.id, content)
               guardrail == EvaluateGuardrails(wf, content, data,
                                               Count(row.step_visit_counts, step.id))
               target    == BranchTarget(wf, step, branch, guardrail)
               landing   == ApplySkipLoop(wf, target, data, ForceBranched(guardrail))
    <1>1. WellFormed(wf) /\ step.id \in StepIds(wf)
        BY WorkflowLoaded DEF StepIds, Range
    <1>2. DOMAIN data \subseteq StepIds(wf)
        <2>1. DOMAIN data = DOMAIN row.step_data \cup {step.id}
            BY PutDomain
        <2> QED BY <1>1, <2>1 DEF RowOK
    <1>3. guardrail \in Range(wf.guardrails) \cup {Null}
        BY <1>1, GuardrailFound
    <1>4. target \in Places(wf) \cup {Null}
        BY <1>1, <1>3, TargetIsPlace
    <1>5. target # Null => landing.step \in Places(wf)
        BY <1>1, <1>4, LandingIsPlace
    <1>6. target # Null => Suited(Proceed("submit", sid, wf, landing.step, data), sid, wf)
        BY <1>2, <1>5, ProceedSuits DEF Conts
    <1>7. Suited(<<EscalateOp(sid), UpdateOp(sid, Null, data), EscalateParentOp(sid)>>, sid, wf)
        <2>1. Suits(UpdateOp(sid, Null, data), sid, wf)
            BY <1>2, UpdateSuits DEF DataOf
        <2>2. Suits(EscalateOp(sid), sid, wf) /\ Suits(EscalateParentOp(sid), sid, wf)
            BY PlainSuit
        <2> QED BY <2>1, <2>2, SuitedThree
    <1>8. Suited(<<EscalateParentOp(sid)>>, sid, wf) /\ Suited(<<>>, sid, wf)
        BY PlainSuit, SuitedOne, SuitedEmpty
    <1>9. AcceptPlan(sid, row, step, content, branch) =
              IF guardrail # Null /\ guardrail.action = "escalate"
              THEN <<EscalateOp(sid), UpdateOp(sid, Null, data), EscalateParentOp(sid)>>
              ELSE IF target = Null THEN <<>>
              ELSE IF landing.cascade THEN <<EscalateParentOp(sid)>>
              ELSE Proceed("submit", sid, wf, landing.step, data)
        BY DEF AcceptPlan
    <1> HIDE DEF wf, data, guardrail, target, landing
    <1>10. Suited(AcceptPlan(sid, row, step, content, branch), sid, wf)
        BY <1>6, <1>7, <1>8, <1>9
    <1> QED BY <1>10 DEF wf

LEMMA SubmitSuits ==
    ASSUME NEW sid \in minted, NEW row, RowOK(row),
           row.current_step \in StepIds(WorkflowOf(row)), NEW content, NEW branch, NEW art
    PROVE  Suited(SubmitPlan(sid, row, content, branch, art), sid, WorkflowOf(row))
    <1> DEFINE wf         == WorkflowOf(row)
               step       == StepAt(wf, row.current_step)
               checkpoint == IF art \in step.checkpoints
                             THEN <<ArtifactOp(sid, step.id, art)>> ELSE <<>>
               accept     == AcceptPlan(sid, row, step, content, branch)
    <1>1. step \in Range(wf.steps)
        BY WorkflowLoaded, FoundStep
    <1>2. Suited(accept, sid, wf)
        BY <1>1, AcceptSuits
    <1>3. Suited(checkpoint, sid, wf) /\ Suited(<<>>, sid, wf)
          /\ Suited(<<RetryOp(sid, step.id, step.max_retries)>>, sid, wf)
        BY PlainSuit, SuitedOne, SuitedEmpty
    <1>4. Suited(checkpoint \o accept, sid, wf)
        BY <1>2, <1>3, SuitedJoined
    <1>5. SubmitPlan(sid, row, content, branch, art) =
              IF TopFrames(stack, sid) # {} \/ step.kind = "call" THEN <<>>
              ELSE IF step.artifacts # {}
              THEN IF art \notin step.artifacts \/ content \notin ValidContent THEN <<>>
                   ELSE IF art = step.output_from THEN checkpoint \o accept
                   ELSE checkpoint
              ELSE IF step.output_schema /\ content \notin ValidContent
              THEN <<RetryOp(sid, step.id, step.max_retries)>>
              ELSE accept
        BY DEF SubmitPlan
    <1> HIDE DEF wf, step, checkpoint, accept
    <1>6. Suited(SubmitPlan(sid, row, content, branch, art), sid, wf)
        BY <1>2, <1>3, <1>4, <1>5
    <1> QED BY <1>6 DEF wf

LEMMA AdvanceSuits ==
    ASSUME NEW parent \in minted, NEW wf, WellFormed(wf), NEW step \in Range(wf.steps), NEW data,
           DOMAIN data \subseteq StepIds(wf)
    PROVE  Suited(AdvancePlan(parent, wf, step, data), parent, wf)
    <1> DEFINE landing == ApplySkipLoop(wf, DefaultTarget(wf, step), data, FALSE)
    <1>1. landing.step \in Places(wf)
        BY DefaultIsPlace, LandingIsPlace
    <1>2. Suited(Proceed("advance", parent, wf, landing.step, data), parent, wf)
        BY <1>1, ProceedSuits DEF Conts
    <1> QED BY <1>2, SuitedEmpty DEF AdvancePlan

LEMMA PropagateSuits ==
    ASSUME NEW child \in minted, NEW childWf, NEW childData, NEW parent \in minted,
           RowOK(sessions[parent])
    PROVE  Suited(PropagatePlan(child, childWf, childData, parent), parent,
                  WorkflowOf(sessions[parent]))
    <1> DEFINE row      == sessions[parent]
               wf       == WorkflowOf(row)
               at       == row.current_step
               artifact == Artifact(childWf, childData)
               advance  == AdvancePlan(parent, wf, StepAt(wf, at), Put(row.step_data, at, artifact))
    <1>1. WellFormed(wf)
        BY WorkflowLoaded
    <1>2. at \in StepIds(wf) => Suited(advance, parent, wf)
        <2> SUFFICES ASSUME at \in StepIds(wf) PROVE Suited(advance, parent, wf)
            OBVIOUS
        <2>1. StepAt(wf, at) \in Range(wf.steps)
            BY <1>1, FoundStep
        <2>2. DOMAIN Put(row.step_data, at, artifact) \subseteq StepIds(wf)
            <3>1. DOMAIN Put(row.step_data, at, artifact) = DOMAIN row.step_data \cup {at}
                BY PutDomain
            <3> QED BY <3>1 DEF RowOK
        <2> QED BY <1>1, <2>1, <2>2, AdvanceSuits
    <1>3. Suited(<<EscalateOp(parent)>>, parent, wf) /\ Suited(<<EscalateParentOp(child)>>, parent, wf)
        BY PlainSuit, SuitedOne
    <1>4. Suited(<<DeleteOp(child, FALSE), ClearOp(parent)>>, parent, wf)
        BY PlainSuit, SuitedTwo
    <1>5. at \in StepIds(wf) =>
              Suited(<<DeleteOp(child, FALSE), ClearOp(parent)>> \o advance, parent, wf)
        BY <1>2, <1>4, SuitedJoined
    <1>6. PropagatePlan(child, childWf, childData, parent) =
              IF at \notin StepIds(wf) \/ StepAt(wf, at).kind # "call"
              THEN <<EscalateOp(parent)>>
              ELSE IF StepAt(wf, at).output_schema /\ artifact \notin ValidContent
              THEN <<EscalateParentOp(child)>>
              ELSE <<DeleteOp(child, FALSE), ClearOp(parent)>> \o advance
        BY DEF PropagatePlan
    <1> HIDE DEF row, wf, at, artifact, advance
    <1>7. Suited(PropagatePlan(child, childWf, childData, parent), parent, wf)
        BY <1>3, <1>5, <1>6
    <1> QED BY <1>7 DEF wf, row

LEMMA ReviseSuits ==
    ASSUME NEW sid \in minted, NEW wf, NEW step, step.id \in StepIds(wf),
           NEW child \in minted \cup {Null}
    PROVE  Suited(RevisePlan(sid, wf, step, child), sid, wf)
    <1> DEFINE after    == StepsAfter(wf, step.id)
               unlink   == IF child = Null THEN <<>> ELSE <<DeleteOp(child, TRUE), ClearOp(sid)>>
               callStep == IF step.kind = "call"
                           THEN unlink \o <<InvalidateOp(sid, {step.id})>> ELSE <<>>
    <1>1. Suited(unlink, sid, wf)
        BY PlainSuit, SuitedTwo, SuitedEmpty
    <1>2. Suited(<<InvalidateOp(sid, {step.id})>>, sid, wf) /\ Suited(<<InvalidateOp(sid, after)>>, sid, wf)
        BY InvalidateSuits, SuitedOne
    <1>3. Suited(unlink \o <<InvalidateOp(sid, {step.id})>>, sid, wf)
        BY <1>1, <1>2, SuitedJoined
    <1>4. Suited(callStep, sid, wf)
        BY <1>3, SuitedEmpty
    <1>5. Suited(<<UpdateOp(sid, step.id, Null)>>, sid, wf)
        BY UpdateSuits, SuitedOne DEF Places, DataOf
    <1>6. Suited(<<InvalidateOp(sid, after)>> \o callStep, sid, wf)
        BY <1>2, <1>4, SuitedJoined
    <1>7. Suited(<<InvalidateOp(sid, after)>> \o callStep \o <<UpdateOp(sid, step.id, Null)>>, sid, wf)
        BY <1>5, <1>6, SuitedJoined
    <1> QED BY <1>7 DEF RevisePlan

---------------------------------------------------------------------------
(***************************************************************************)
(* What a plan is worth in the state in which it is made.                  *)
(***************************************************************************)
LEMMA SameWorkflowOf ==
    ASSUME NEW r1, NEW r2, SameWorkflow(r1, r2)
    PROVE  WorkflowOf(r1) = WorkflowOf(r2)
    BY DEF SameWorkflow, WorkflowOf

LEMMA NothingDrawn ==
    ASSUME NEW q, IsSeq(q), \A o \in Range(q) : o.op \notin Drawing
    PROVE  /\ Drawn(q) = {} /\ \A s : ~Creates(q, s)
           /\ q # <<>> => \A o \in Range(Tail(q)) : o.op \notin Drawing
    <1>1. q # <<>> => Head(q) \in Range(q) /\ Range(Tail(q)) \subseteq Range(q)
        BY HeadAndTail
    <1> QED BY <1>1 DEF Drawn, Creates, Drawing

LEMMA SuitedWork ==
    ASSUME NEW plan, NEW sid, NEW wf, Suited(plan, sid, wf),
           sid \in DOMAIN sessions =>
               Resolvable(sessions[sid]) /\ WorkflowOf(sessions[sid]) = wf
    PROVE  WorkOK(plan) /\ Drawn(plan) = {}
    <1>1. IsSeq(plan) /\ \A o \in Range(plan) : o.op \notin Drawing
        BY DEF Suited, Suits, Writing, Drawing
    <1>2. /\ Drawn(plan) = {} /\ \A s : ~Creates(plan, s)
          /\ plan # <<>> => \A o \in Range(Tail(plan)) : o.op \notin Drawing
        BY <1>1, NothingDrawn
    <1>3. ASSUME NEW o \in Range(plan)
          PROVE  StepOK(plan, o)
        <2>1. Suits(o, sid, wf)
            BY DEF Suited
        <2>2. OpOK(o)
            BY <2>1 DEF OpOK, Suits, Writing
        <2>3. Known(plan, o.sid) /\ o.op # "set_called_session"
            BY <2>1 DEF Known, Suits, Writing
        <2>4. o.sid \in DOMAIN sessions => Fits(o, sessions[o.sid])
            BY <2>1 DEF Fits, Suits, Writing
        <2> QED BY <1>2, <2>2, <2>3, <2>4 DEF StepOK
    <1> QED BY <1>1, <1>2, <1>3 DEF WorkOK

LEMMA EmptyWork == WorkOK(<<>>) /\ Drawn(<<>>) = {}
    BY Empty DEF WorkOK, Drawn

\* The terminal marker, for a session that does not resolve.
LEMMA MarkerWork ==
    ASSUME NEW sid \in minted, sid \in DOMAIN sessions => ~Resolvable(sessions[sid])
    PROVE  /\ WorkOK(<<UpdateOp(sid, WORKFLOW_CHANGED, Null)>>)
           /\ Drawn(<<UpdateOp(sid, WORKFLOW_CHANGED, Null)>>) = {}
    <1> DEFINE o == UpdateOp(sid, WORKFLOW_CHANGED, Null)
    <1>1. IsSeq(<<o>>) /\ Range(<<o>>) = {o}
        BY One
    <1>2. o.op = "update_session" /\ o.sid = sid /\ o.step = WORKFLOW_CHANGED /\ o.data = Null
        BY DEF UpdateOp
    <1> HIDE DEF o
    <1>3. o.op \notin Drawing
        BY <1>2 DEF Drawing
    <1>4. /\ Drawn(<<o>>) = {} /\ \A s : ~Creates(<<o>>, s)
          /\ <<o>> # <<>> => \A p \in Range(Tail(<<o>>)) : p.op \notin Drawing
        BY <1>1, <1>3, NothingDrawn
    <1>5. StepOK(<<o>>, o)
        BY <1>2, <1>4 DEF StepOK, OpOK, Known, Fits
    <1> QED BY <1>1, <1>4, <1>5 DEF WorkOK, o

\* ThenOn, for a plan that suits the session if it resolves.
LEMMA ThenOnWork ==
    ASSUME StoreOK, NEW sid \in minted, NEW plan,
           Resolve(sid) = "ok" => Suited(plan, sid, WorkflowOf(sessions[sid]))
    PROVE  WorkOK(ThenOn(sid, plan)) /\ Drawn(ThenOn(sid, plan)) = {}
    <1>1. CASE Resolve(sid) = "ok"
        <2>1. Resolvable(sessions[sid])
            BY <1>1 DEF Resolve, Resolvable
        <2> QED BY <1>1, <2>1, SuitedWork DEF ThenOn
    <1>2. CASE Resolve(sid) = "mismatch"
        <2>1. ~Resolvable(sessions[sid])
            BY <1>2 DEF Resolve, Resolvable
        <2> QED BY <1>2, <2>1, MarkerWork DEF ThenOn
    <1>3. CASE Resolve(sid) \notin {"ok", "mismatch"}
        BY <1>3, EmptyWork DEF ThenOn
    <1> QED BY <1>1, <1>2, <1>3

\* What is left after the first operation, once that has not created a session.
LEMMA RestWork ==
    ASSUME NEW q, WorkOK(q), q # <<>>, Head(q).op # "create_session"
    PROVE  WorkOK(Tail(q)) /\ Drawn(Tail(q)) = {}
    <1>1. IsSeq(Tail(q)) /\ Range(Tail(q)) \subseteq Range(q)
        BY HeadAndTail DEF WorkOK
    <1>2. \A o \in Range(Tail(q)) : o.op \notin Drawing
        BY DEF WorkOK
    <1>3. /\ Drawn(Tail(q)) = {} /\ \A s : ~Creates(Tail(q), s)
          /\ Tail(q) # <<>> => \A o \in Range(Tail(Tail(q))) : o.op \notin Drawing
        BY <1>1, <1>2, NothingDrawn
    <1>4. \A s : ~Creates(q, s)
        BY DEF Creates
    <1>5. \A o \in Range(Tail(q)) : StepOK(Tail(q), o)
        BY <1>1, <1>3, <1>4 DEF WorkOK, StepOK, Known
    <1> QED BY <1>1, <1>3, <1>5 DEF WorkOK

---------------------------------------------------------------------------
(***************************************************************************)
(* Steps that create no session.                                           *)
(***************************************************************************)

\* What every such step leaves of a row.
Kin(r1, r2) ==
    /\ SameWorkflow(r1, r2)
    /\ r2.parent_session_id = r1.parent_session_id
    /\ Resolvable(r2) = Resolvable(r1)
    /\ r1.current_step = WORKFLOW_CHANGED =>
          r2.current_step = WORKFLOW_CHANGED /\ r2.step_data = r1.step_data

RowsKept ==
    /\ DOMAIN sessions' \subseteq DOMAIN sessions
    /\ \A s \in DOMAIN sessions' : RowOK(sessions'[s]) /\ Kin(sessions[s], sessions'[s])
FramesKept ==
    /\ DOMAIN stack' \subseteq DOMAIN stack
    /\ stack' \in [DOMAIN stack' -> Frame]
    /\ \A s \in DOMAIN stack' : stack'[s].root = stack[s].root

LEMMA FitsKin ==
    ASSUME NEW o, NEW r1, NEW r2, Fits(o, r1), Kin(r1, r2), UNCHANGED live
    PROVE  Fits(o, r2)'
    <1>1. WorkflowOf(r1) = WorkflowOf(r2)
        BY SameWorkflowOf DEF Kin
    <1>2. Resolvable(r2)' = Resolvable(r1)
        BY DEF Kin, Resolvable
    <1>3. SameWorkflow(o.row, r1) => SameWorkflow(o.row, r2)
        BY DEF Kin, SameWorkflow
    <1> QED BY <1>1, <1>2, <1>3 DEF Fits

LEMMA WorkKept ==
    ASSUME NEW q, WorkOK(q), RowsKept, UNCHANGED <<minted, live>>
    PROVE  WorkOK(q)'
    <1>1. ASSUME NEW o \in Range(q)
          PROVE  StepOK(q, o)'
        <2>1. StepOK(q, o)
            BY DEF WorkOK
        <2>2. OpOK(o)'
            BY <2>1 DEF StepOK, OpOK, CreateArgs, SnapshotOK, RowOK, Resolvable
        <2>3. Known(q, o.sid)' /\ (o.op = "set_called_session" => Known(q, o.child)')
            BY <2>1 DEF StepOK, Known
        <2>4. (o.sid \in DOMAIN sessions => Fits(o, sessions[o.sid]))'
            <3> SUFFICES ASSUME o.sid \in DOMAIN sessions' PROVE Fits(o, sessions[o.sid])'
                OBVIOUS
            <3>1. PICK r1, r2 : r1 = sessions[o.sid] /\ r2 = sessions'[o.sid]
                OBVIOUS
            <3>2. Fits(o, r1) /\ Kin(r1, r2)
                BY <2>1, <3>1 DEF StepOK, RowsKept
            <3>3. Fits(o, r2)'
                BY <3>2, FitsKin
            <3> QED BY <3>1, <3>3
        <2>5. Creates(q, o.sid) => Fits(o, Head(q).row)'
            <3> SUFFICES ASSUME Creates(q, o.sid) PROVE Fits(o, Head(q).row)'
                OBVIOUS
            <3>1. PICK r : r = Head(q).row
                OBVIOUS
            <3>2. Fits(o, r) /\ Kin(r, r)
                BY <2>1, <3>1 DEF StepOK, Kin, SameWorkflow
            <3>3. Fits(o, r)'
                BY <3>2, FitsKin
            <3> QED BY <3>1, <3>3
        <2> QED BY <2>2, <2>3, <2>4, <2>5 DEF StepOK
    <1> QED BY <1>1 DEF WorkOK

\* What every step is shown to do.
MarkersStay ==
    \A s \in DOMAIN sessions \cap DOMAIN sessions' :
       sessions[s].current_step = WORKFLOW_CHANGED =>
          /\ sessions'[s].current_step = WORKFLOW_CHANGED
          /\ sessions'[s].step_data = sessions[s].step_data
StepSafe == IInv' /\ MarkersStay

\* A step of one thread that goes on with `plan`.
LEMMA Stepped ==
    ASSUME IInv, NEW t \in Thread, NEW plan, Do(t, plan), RowsKept, FramesKept,
           UNCHANGED <<minted, live>>, WorkOK(plan), Drawn(plan) \subseteq Sid \ minted,
           \A u \in Thread \ {t} : Drawn(plan) \cap Drawn(th[u]) = {}
    PROVE  StepSafe
    <1>1. /\ DOMAIN th' = Thread /\ th'[t] = plan
          /\ \A u \in Thread \ {t} : th'[u] = th[u]
        BY DEF Do, IInv, ThreadsOK
    <1>2. StoreOK'
        BY DEF IInv, StoreOK, RowsKept, FramesKept, Kin, RowOK
    <1>3. LiveOK'
        BY DEF IInv, LiveOK
    <1>4. ThreadsOK'
        <2>1. WorkOK(plan)' /\ \A u \in Thread \ {t} : WorkOK(th[u])
            BY WorkKept DEF IInv, ThreadsOK
        <2>2. ASSUME NEW u \in Thread \ {t} PROVE WorkOK(th[u])'
            <3>1. PICK q : q = th[u]
                OBVIOUS
            <3>2. WorkOK(q)
                BY <2>1, <3>1
            <3>3. WorkOK(q)'
                BY <3>2, WorkKept
            <3> QED BY <1>1, <3>1, <3>3
        <2> QED BY <1>1, <2>1, <2>2 DEF ThreadsOK
    <1>5. IdsOK'
        <2>1. Drawn(th'[t]) = Drawn(plan) /\ \A u \in Thread \ {t} : Drawn(th'[u]) = Drawn(th[u])
            BY <1>1
        <2> QED BY <2>1 DEF IInv, IdsOK
    <1>6. MarkersStay
        BY DEF RowsKept, Kin, MarkersStay
    <1> QED BY <1>2, <1>3, <1>4, <1>5, <1>6 DEF IInv, StepSafe

\* The same when the store is left alone.
LEMMA Decided ==
    ASSUME IInv, NEW t \in Thread, NEW plan, Do(t, plan), UnchangedStore, UnchangedServer,
           WorkOK(plan), Drawn(plan) \subseteq Drawn(th[t])
    PROVE  StepSafe
    <1>1. RowsKept /\ FramesKept
        BY DEF UnchangedStore, IInv, StoreOK, RowsKept, FramesKept, Kin, SameWorkflow
    <1>2. UNCHANGED <<minted, live>>
        BY DEF UnchangedStore, UnchangedServer
    <1>3. /\ Drawn(plan) \subseteq Sid \ minted
          /\ \A u \in Thread \ {t} : Drawn(plan) \cap Drawn(th[u]) = {}
        BY DEF IInv, IdsOK
    <1> QED BY <1>1, <1>2, <1>3, Stepped

\* The ids that threads have drawn are Reserved.
LEMMA DrawnReserved ==
    ASSUME IInv, NEW u \in Thread
    PROVE  Drawn(th[u]) \subseteq Reserved
    <1>1. CASE th[u] = <<>>
        BY <1>1 DEF Drawn
    <1>2. CASE th[u] # <<>>
        <2>1. Head(th[u]) \in Range(th[u])
            BY <1>2, HeadAndTail DEF IInv, ThreadsOK, WorkOK
        <2>2. Head(th[u]) \in UNION {Range(th[v]) : v \in Thread}
            BY <2>1
        <2> QED BY <1>2, <2>2 DEF Drawn, Drawing, Reserved
    <1> QED BY <1>1, <1>2

\* A call begins: it may draw one id that nobody has.
LEMMA Called ==
    ASSUME IInv, NEW t \in Thread, NEW plan, Do(t, plan), UnchangedStore, UnchangedServer,
           WorkOK(plan), Drawn(plan) \subseteq Sid \ (minted \cup Reserved)
    PROVE  StepSafe
    <1>1. RowsKept /\ FramesKept
        BY DEF UnchangedStore, IInv, StoreOK, RowsKept, FramesKept, Kin, SameWorkflow
    <1>2. UNCHANGED <<minted, live>>
        BY DEF UnchangedStore, UnchangedServer
    <1>3. \A u \in Thread \ {t} : Drawn(plan) \cap Drawn(th[u]) = {}
        BY DrawnReserved
    <1> QED BY <1>1, <1>2, <1>3, Stepped

\* What is known of the operation at the head.
LEMMA HeadOK ==
    ASSUME IInv, NEW t \in Thread, th[t] # <<>>
    PROVE  /\ WorkOK(th[t]) /\ StepOK(th[t], Head(th[t]))
           /\ Head(th[t]).op # "create_session" =>
                 /\ Head(th[t]).sid \in minted
                 /\ WorkOK(Tail(th[t])) /\ Drawn(Tail(th[t])) = {}
    <1>1. WorkOK(th[t])
        BY DEF IInv, ThreadsOK
    <1>2. StepOK(th[t], Head(th[t]))
        BY <1>1, HeadAndTail DEF WorkOK
    <1>3. Head(th[t]).op # "create_session" => Head(th[t]).sid \in minted
        BY <1>2 DEF StepOK, Known, Creates
    <1> QED BY <1>1, <1>2, <1>3, RestWork

\* A plan of one operation.
LEMMA SingleWork ==
    ASSUME NEW o, OpOK(o), o.sid \in minted, o.op \notin {"create_session", "set_called_session"},
           o.sid \in DOMAIN sessions => Fits(o, sessions[o.sid])
    PROVE  /\ WorkOK(<<o>>)
           /\ Drawn(<<o>>) = IF o.op \in Drawing THEN {o.child} ELSE {}
    <1>1. /\ IsSeq(<<o>>) /\ Range(<<o>>) = {o}
          /\ <<o>> # <<>> /\ Head(<<o>>) = o /\ Tail(<<o>>) = <<>>
        BY One
    <1>2. \A s : ~Creates(<<o>>, s)
        BY <1>1 DEF Creates
    <1>3. StepOK(<<o>>, o)
        BY <1>2 DEF StepOK, Known
    <1>4. WorkOK(<<o>>)
        BY <1>1, <1>3, Empty DEF WorkOK
    <1>5. Drawn(<<o>>) = IF o.op \in Drawing THEN {o.child} ELSE {}
        BY <1>1 DEF Drawn, Drawing
    <1> QED BY <1>4, <1>5

\* A plan that begins with a creation.
LEMMA CreationWork ==
    ASSUME StoreOK, NEW q, NEW c, IsSeq(q), q # <<>>, Head(q) = c,
           c.op = "create_session", CreateArgs(c), c.sid \notin minted,
           \A o \in Range(Tail(q)) :
              /\ o.op \notin Drawing /\ OpOK(o)
              /\ o.sid = c.sid => Fits(o, c.row)
              /\ o.sid # c.sid => o.sid \in minted /\ o.op = "set_called_session"
              /\ o.op = "set_called_session" => o.child = c.sid
    PROVE  WorkOK(q) /\ Drawn(q) = {c.sid}
    <1>1. c.sid \notin DOMAIN sessions
        BY DEF StoreOK
    <1>2. StepOK(q, c)
        BY <1>1 DEF StepOK, OpOK, Known, Creates, Fits
    <1>3. ASSUME NEW o \in Range(Tail(q))
          PROVE  StepOK(q, o)
        <2>1. CASE o.sid = c.sid
            BY <1>1, <2>1 DEF StepOK, Known, Creates
        <2>2. CASE o.sid # c.sid
            BY <2>2 DEF StepOK, Known, Creates, Fits
        <2> QED BY <2>1, <2>2
    <1>4. \A o \in Range(q) : StepOK(q, o)
        BY <1>2, <1>3, HeadAndTail
    <1> QED BY <1>4 DEF WorkOK, Drawn, Drawing

---------------------------------------------------------------------------
(***************************************************************************)
(* The calls.                                                              *)
(***************************************************************************)

\* The row of a session that is about to be created.
LEMMA FreshRow ==
    ASSUME LiveOK, NEW w \in Workflow, live[w] # Null, NEW parent
    PROVE  /\ RowOK(NewRow(w, parent)) /\ Resolvable(NewRow(w, parent))
           /\ NewRow(w, parent).current_step \in StepIds(WorkflowOf(NewRow(w, parent)))
           /\ WorkflowOf(NewRow(w, parent)) = Definition[w][live[w]]
           /\ NewRow(w, parent).updated_at = Now /\ NewRow(w, parent).completed_at = Null
           /\ NewRow(w, parent).parent_session_id = parent
           /\ NewRow(w, parent).current_step = FirstStep(Definition[w][live[w]]).id
    <1> DEFINE wf == Definition[w][live[w]]
    <1>1. live[w] \in Version(w) /\ WellFormed(wf)
        BY WorkflowsAssumption DEF LiveOK
    <1>2. FirstStep(wf).id \in StepIds(wf) /\ FirstStep(wf).id # WORKFLOW_CHANGED
        BY <1>1, FirstStepNamed DEF WellFormed
    <1>3. PICK row : row = NewRow(w, parent)
        OBVIOUS
    <1>4. /\ DOMAIN row = Column
          /\ row.workflow_type = w /\ row.workflow_fingerprint = live[w]
          /\ row.current_step = FirstStep(wf).id /\ row.step_data = <<>>
          /\ row.escalation = FALSE /\ row.updated_at = Now /\ row.completed_at = Null
          /\ row.parent_session_id = parent
        BY <1>3 DEF NewRow, Column
    <1>5. WorkflowOf(row) = wf
        BY <1>4 DEF WorkflowOf
    <1> HIDE DEF wf
    <1>6. RowOK(row) /\ Resolvable(row)
        <2>1. DOMAIN row.step_data = {}
            BY <1>4
        <2>2. DOMAIN row = Column /\ row.workflow_type \in Workflow
              /\ row.workflow_fingerprint \in Version(row.workflow_type) /\ row.escalation \in BOOLEAN
            BY <1>1, <1>4
        <2>3. row.current_step \in Places(WorkflowOf(row))
            BY <1>2, <1>4, <1>5 DEF Places
        <2>4. RowOK(row)
            BY <2>1, <2>2, <2>3 DEF RowOK
        <2> QED BY <1>2, <1>4, <2>4 DEF Resolvable
    <1> QED BY <1>2, <1>3, <1>4, <1>5, <1>6 DEF wf

LEMMA StartWorkflowKeeps ==
    ASSUME IInv, NEW t \in Thread, NEW w \in Workflow, NEW sid \in Sid, StartWorkflow(t, w, sid)
    PROVE  StepSafe
    <1> DEFINE wf    == Definition[w][live[w]]
               row   == NewRow(w, Null)
               c     == CreateOp(sid, row, "call", Null, Null)
               visit == VisitOp(sid, FirstStep(wf).id)
               auto  == IF FirstStep(wf).kind = "mcp"
                        THEN <<AutoOp("start", sid, wf, FirstStep(wf).id, <<>>)>> ELSE <<>>
               plan  == <<c, visit>> \o auto
    <1>1. /\ live[w] # Null /\ sid \notin minted \cup Reserved /\ Do(t, plan)
          /\ UnchangedStore /\ UnchangedServer
        BY DEF StartWorkflow
    <1>2. /\ RowOK(row) /\ Resolvable(row) /\ row.current_step \in StepIds(WorkflowOf(row))
          /\ WorkflowOf(row) = wf
          /\ row.updated_at = Now /\ row.completed_at = Null /\ row.parent_session_id = Null
          /\ row.current_step = FirstStep(wf).id
        BY <1>1, FreshRow DEF IInv
    <1> HIDE DEF wf, row
    <1>3. c.op = "create_session" /\ c.sid = sid /\ c.row = row /\ CreateArgs(c)
        BY <1>2 DEF CreateArgs, CreateOp
    <1>4. /\ visit.op \notin Drawing /\ visit.op # "set_called_session" /\ visit.sid = sid
          /\ OpOK(visit) /\ Fits(visit, row)
        BY DEF VisitOp, OpOK, Fits, Drawing
    <1>5. /\ IsSeq(auto)
          /\ \A o \in Range(auto) : /\ o.op \notin Drawing /\ o.op # "set_called_session"
                                    /\ o.sid = sid /\ OpOK(o) /\ Fits(o, row)
        <2> DEFINE o == AutoOp("start", sid, wf, FirstStep(wf).id, <<>>)
        <2>1. /\ o.op = "auto_execute" /\ o.sid = sid /\ o.wf = wf /\ o.cont = "start"
              /\ o.at = FirstStep(wf).id /\ DOMAIN o.data = {}
            BY DEF AutoOp
        <2> HIDE DEF o
        <2>2. o.op \notin Drawing /\ OpOK(o) /\ Fits(o, row)
            BY <1>2, <2>1 DEF OpOK, Fits, Drawing, Conts
        <2>3. IsSeq(<<o>>) /\ Range(<<o>>) = {o}
            BY One
        <2> QED BY <2>1, <2>2, <2>3, Empty DEF o
    <1> HIDE DEF c, visit, auto
    <1>6. /\ plan # <<>> /\ Head(plan) = c
          /\ IsSeq(Tail(plan)) /\ Range(Tail(plan)) = {visit} \cup Range(auto)
        BY <1>5, HeadOfJoined
    <1>7. IsSeq(plan)
        BY <1>5, Two, Joined
    <1> HIDE DEF plan
    <1>8. WorkOK(plan) /\ Drawn(plan) = {sid}
        BY <1>1, <1>3, <1>4, <1>5, <1>6, <1>7, CreationWork DEF IInv
    <1> QED BY <1>1, <1>8, Called

\* A call of one operation, on a session that exists.
LEMMA CallKeeps ==
    ASSUME IInv, NEW t \in Thread, NEW o, Do(t, <<o>>), UnchangedStore, UnchangedServer,
           OpOK(o), o.sid \in DOMAIN sessions, Fits(o, sessions[o.sid]),
           o.op \notin {"create_session", "set_called_session"},
           o.op \in Drawing => o.child \in Sid \ (minted \cup Reserved)
    PROVE  StepSafe
    <1>1. o.sid \in minted
        BY DEF IInv, StoreOK
    <1>2. WorkOK(<<o>>) /\ Drawn(<<o>>) = IF o.op \in Drawing THEN {o.child} ELSE {}
        BY <1>1, SingleWork
    <1> QED BY <1>2, Called

LEMMA ResolveMismatchKeeps ==
    ASSUME IInv, NEW t \in Thread, NEW sid, ResolveMismatch(t, sid)
    PROVE  StepSafe
    <1>1. sid \in minted
        BY DEF ResolveMismatch, Resolve, IInv, StoreOK
    <1>2. WorkOK(ThenOn(sid, <<>>)) /\ Drawn(ThenOn(sid, <<>>)) = {}
        BY <1>1, SuitedEmpty, ThenOnWork DEF IInv
    <1> QED BY <1>2, Decided DEF ResolveMismatch

LEMMA ResolvedRow ==
    ASSUME IInv, NEW t, NEW tool, NEW sid, NEW call, Resolved(t, tool, sid, call)
    PROVE  /\ sid \in DOMAIN sessions /\ RowOK(sessions[sid]) /\ Resolvable(sessions[sid])
           /\ Do(t, <<call>>) /\ UnchangedStore /\ UnchangedServer
    BY DEF Resolved, Resolve, Resolvable, IInv, StoreOK

LEMMA SubmitStepKeeps ==
    ASSUME IInv, NEW t \in Thread, NEW sid, NEW content, NEW branch, NEW art,
           SubmitStep(t, sid, content, branch, art)
    PROVE  StepSafe
    <1> DEFINE row == sessions[sid]
               o   == [op |-> "submit_step", sid |-> sid, row |-> row,
                       content |-> content, branch |-> branch, art |-> art]
    <1>1. /\ RowOK(row) /\ Resolvable(row) /\ sid \in DOMAIN sessions
          /\ Do(t, <<o>>) /\ UnchangedStore /\ UnchangedServer
          /\ row.current_step \in StepIds(WorkflowOf(row))
        BY ResolvedRow DEF SubmitStep, Submittable
    <1>2. o.op = "submit_step" /\ o.sid = sid /\ o.row = row
        OBVIOUS
    <1> HIDE DEF o
    <1>3. OpOK(o) /\ Fits(o, sessions[o.sid]) /\ o.op \notin Drawing
        BY <1>1, <1>2 DEF OpOK, SnapshotOK, Fits, SameWorkflow, Drawing
    <1> QED BY <1>1, <1>2, <1>3, CallKeeps

LEMMA ReviseStepKeeps ==
    ASSUME IInv, NEW t \in Thread, NEW sid, NEW step, ReviseStep(t, sid, step)
    PROVE  StepSafe
    <1> DEFINE row == sessions[sid]
               o   == [op |-> "revise_step", sid |-> sid, row |-> row, step |-> step]
    <1>1. /\ RowOK(row) /\ Resolvable(row) /\ sid \in DOMAIN sessions
          /\ Do(t, <<o>>) /\ UnchangedStore /\ UnchangedServer
          /\ step \in StepIds(WorkflowOf(row))
        BY ResolvedRow DEF ReviseStep
    <1>2. o.op = "revise_step" /\ o.sid = sid /\ o.row = row /\ o.step = step
        OBVIOUS
    <1> HIDE DEF o
    <1>3. OpOK(o) /\ Fits(o, sessions[o.sid]) /\ o.op \notin Drawing
        BY <1>1, <1>2 DEF OpOK, SnapshotOK, Fits, SameWorkflow, Drawing
    <1> QED BY <1>1, <1>2, <1>3, CallKeeps

LEMMA EnterSubWorkflowKeeps ==
    ASSUME IInv, NEW t \in Thread, NEW sid, NEW child \in Sid, EnterSubWorkflow(t, sid, child)
    PROVE  StepSafe
    <1> DEFINE row == sessions[sid]
               o   == [op |-> "enter_sub_workflow", sid |-> sid, row |-> row, child |-> child]
    <1>1. /\ RowOK(row) /\ Resolvable(row) /\ sid \in DOMAIN sessions
          /\ Do(t, <<o>>) /\ UnchangedStore /\ UnchangedServer
          /\ row.current_step \in StepIds(WorkflowOf(row))
          /\ StepAt(WorkflowOf(row), row.current_step).kind = "call"
          /\ child \notin minted \cup Reserved
        BY ResolvedRow DEF EnterSubWorkflow
    <1>2. o.op = "enter_sub_workflow" /\ o.sid = sid /\ o.row = row /\ o.child = child
        OBVIOUS
    <1> HIDE DEF o
    <1>3. OpOK(o) /\ Fits(o, sessions[o.sid])
        BY <1>1, <1>2 DEF OpOK, SnapshotOK, Fits
    <1> QED BY <1>1, <1>2, <1>3, CallKeeps

LEMMA PushFlowKeeps ==
    ASSUME IInv, NEW t \in Thread, NEW sid, NEW w \in Workflow, NEW child \in Sid,
           PushFlow(t, sid, w, child)
    PROVE  StepSafe
    <1> DEFINE row == sessions[sid]
               o   == [op |-> "push_flow", sid |-> sid, row |-> row, w |-> w, child |-> child]
    <1>1. /\ RowOK(row) /\ Resolvable(row) /\ sid \in DOMAIN sessions
          /\ Do(t, <<o>>) /\ UnchangedStore /\ UnchangedServer
          /\ row.current_step # COMPLETE /\ child \notin minted \cup Reserved
        BY ResolvedRow DEF PushFlow
    <1>2. /\ o.op = "push_flow" /\ o.sid = sid /\ o.row = row /\ o.child = child /\ o.w = w
        OBVIOUS
    <1> HIDE DEF o
    <1>3. row.current_step \in StepIds(WorkflowOf(row))
        BY <1>1 DEF RowOK, Resolvable, Places
    <1>4. OpOK(o) /\ Fits(o, sessions[o.sid])
        BY <1>1, <1>2, <1>3 DEF OpOK, SnapshotOK, Fits
    <1> QED BY <1>1, <1>2, <1>4, CallKeeps

LEMMA PopFlowKeeps ==
    ASSUME IInv, NEW t \in Thread, NEW sid, PopFlow(t, sid)
    PROVE  StepSafe
    <1> DEFINE o == [op |-> "pop_flow", sid |-> sid]
    <1>1. sid \in DOMAIN sessions /\ Do(t, <<o>>) /\ UnchangedStore /\ UnchangedServer
        BY ResolvedRow DEF PopFlow
    <1>2. o.op = "pop_flow" /\ o.sid = sid
        OBVIOUS
    <1> HIDE DEF o
    <1>3. OpOK(o) /\ Fits(o, sessions[o.sid]) /\ o.op \notin Drawing
        BY <1>2 DEF OpOK, Fits, Drawing
    <1> QED BY <1>1, <1>2, <1>3, CallKeeps

LEMMA DeleteSessionKeeps ==
    ASSUME IInv, NEW t \in Thread, NEW sid, DeleteSession(t, sid)
    PROVE  StepSafe
    <1> DEFINE o == DeleteOp(sid, FALSE)
    <1>1. sid \in DOMAIN sessions /\ Do(t, <<o>>) /\ UnchangedStore /\ UnchangedServer
        BY DEF DeleteSession
    <1>2. o.op = "delete_session" /\ o.sid = sid
        BY DEF DeleteOp
    <1> HIDE DEF o
    <1>3. OpOK(o) /\ Fits(o, sessions[o.sid]) /\ o.op \notin Drawing
        BY <1>2 DEF OpOK, Fits, Drawing
    <1> QED BY <1>1, <1>2, <1>3, CallKeeps

---------------------------------------------------------------------------
(***************************************************************************)
(* The decisions.                                                          *)
(***************************************************************************)
LEMMA TopFramesMinted ==
    ASSUME StoreOK, NEW s
    PROVE  TopFrames(stack, s) \subseteq minted
    BY DEF StoreOK, TopFrames, FramesAt

LEMMA ParentsMinted ==
    ASSUME StoreOK, NEW s
    PROVE  ParentsOf(stack, s) \subseteq minted
    BY DEF StoreOK, ParentsOf, FramesAt

\* A snapshot of a session that may be gone: what is decided from it fits.
LEMMA SnapshotFits ==
    ASSUME IInv, NEW t \in Thread, th[t] # <<>>,
           Head(th[t]).op \in {"submit_step", "revise_step"}
    PROVE  LET o == Head(th[t]) IN
           /\ o.sid \in minted /\ SnapshotOK(o)
           /\ o.sid \in DOMAIN sessions =>
                 Resolvable(sessions[o.sid]) /\ WorkflowOf(sessions[o.sid]) = WorkflowOf(o.row)
    <1>1. PICK o : o = Head(th[t])
        OBVIOUS
    <1>2. o.sid \in minted /\ StepOK(th[t], o) /\ o.op \in {"submit_step", "revise_step"}
        BY <1>1, HeadOK
    <1>3. SnapshotOK(o)
        BY <1>2 DEF StepOK, OpOK
    <1>4. o.sid \in DOMAIN sessions =>
             Resolvable(sessions[o.sid]) /\ SameWorkflow(o.row, sessions[o.sid])
        BY <1>2 DEF StepOK, Fits
    <1> QED BY <1>1, <1>2, <1>3, <1>4, SameWorkflowOf

LEMMA DecideSubmitStepKeeps ==
    ASSUME IInv, NEW t \in Thread, DecideSubmitStep(t)
    PROVE  StepSafe
    <1>1. PICK o : o = Head(th[t])
        OBVIOUS
    <1> DEFINE plan == SubmitPlan(o.sid, o.row, o.content, o.branch, o.art)
    <1>2. /\ th[t] # <<>> /\ o.op = "submit_step"
          /\ Do(t, plan) /\ UnchangedStore /\ UnchangedServer
        BY <1>1 DEF DecideSubmitStep, Pending, Decide
    <1>3. /\ o.sid \in minted /\ SnapshotOK(o)
          /\ o.sid \in DOMAIN sessions =>
                Resolvable(sessions[o.sid]) /\ WorkflowOf(sessions[o.sid]) = WorkflowOf(o.row)
        BY <1>1, <1>2, SnapshotFits
    <1>4. RowOK(o.row) /\ o.row.current_step \in StepIds(WorkflowOf(o.row))
        BY <1>2, <1>3 DEF SnapshotOK
    <1>5. Suited(plan, o.sid, WorkflowOf(o.row))
        BY <1>3, <1>4, SubmitSuits
    <1>6. WorkOK(plan) /\ Drawn(plan) = {}
        BY <1>3, <1>5, SuitedWork
    <1> QED BY <1>2, <1>6, Decided

LEMMA DecideReviseStepKeeps ==
    ASSUME IInv, NEW t \in Thread, DecideReviseStep(t)
    PROVE  StepSafe
    <1>1. PICK o : o = Head(th[t])
        OBVIOUS
    <1> DEFINE wf       == WorkflowOf(o.row)
               step     == StepAt(wf, o.step)
               children == TopFrames(stack, o.sid)
    <1>2. th[t] # <<>> /\ o.op = "revise_step"
        BY <1>1 DEF DecideReviseStep, Pending
    <1>3. PICK child, plan :
              /\ child \in IF children = {} THEN {Null} ELSE children
              /\ plan \in {RevisePlan(o.sid, wf, step, child), <<>>}
              /\ Do(t, plan) /\ UnchangedStore /\ UnchangedServer
        BY <1>1 DEF DecideReviseStep, Decide
    <1>4. /\ o.sid \in minted /\ SnapshotOK(o)
          /\ o.sid \in DOMAIN sessions =>
                Resolvable(sessions[o.sid]) /\ WorkflowOf(sessions[o.sid]) = wf
        BY <1>1, <1>2, SnapshotFits
    <1>5. WellFormed(wf) /\ o.step \in StepIds(wf)
        BY <1>2, <1>4, WorkflowLoaded DEF SnapshotOK
    <1>6. step.id \in StepIds(wf)
        BY <1>5, FoundStep
    <1>7. child \in minted \cup {Null}
        BY <1>3, TopFramesMinted DEF IInv
    <1>8. Suited(RevisePlan(o.sid, wf, step, child), o.sid, wf)
        BY <1>4, <1>6, <1>7, ReviseSuits
    <1>9. WorkOK(plan) /\ Drawn(plan) = {}
        BY <1>3, <1>4, <1>8, SuitedWork, EmptyWork
    <1> QED BY <1>3, <1>9, Decided

LEMMA DecideEnterSubWorkflowKeeps ==
    ASSUME IInv, NEW t \in Thread, DecideEnterSubWorkflow(t)
    PROVE  StepSafe
    <1>1. PICK o : o = Head(th[t])
        OBVIOUS
    <1> DEFINE step == StepAt(WorkflowOf(o.row), o.row.current_step)
               row  == NewRow(step.call, o.sid)
               c    == CreateOp(o.child, row, "call", Null, Null)
               v    == VisitOp(o.child, row.current_step)
               l    == LinkOp(o.sid, o.child, step.id)
               plan == <<c, v, l>>
    <1>2. th[t] # <<>> /\ o.op = "enter_sub_workflow"
        BY <1>1 DEF DecideEnterSubWorkflow, Pending
    <1>3. /\ \/ Do(t, plan) /\ live[step.call] # Null
             \/ Do(t, <<>>)
          /\ UnchangedStore /\ UnchangedServer
        BY <1>1 DEF DecideEnterSubWorkflow, Decide
    <1>4. o.sid \in minted /\ SnapshotOK(o)
        BY <1>1, <1>2, HeadOK DEF StepOK, OpOK
    <1>5. Drawn(th[t]) = {o.child} /\ o.child \in Sid \ minted
        <2>1. Drawn(th[t]) = {o.child}
            BY <1>1, <1>2 DEF Drawn, Drawing
        <2> QED BY <2>1 DEF IInv, IdsOK
    <1>6. CASE Do(t, <<>>)
        BY <1>3, <1>6, EmptyWork, Decided
    <1>7. CASE Do(t, plan) /\ live[step.call] # Null
        <2>1. WellFormed(WorkflowOf(o.row)) /\ o.row.current_step \in StepIds(WorkflowOf(o.row))
            BY <1>2, <1>4, WorkflowLoaded DEF SnapshotOK
        <2>2. step \in Range(WorkflowOf(o.row).steps) /\ step.kind = "call"
            BY <1>2, <1>4, <2>1, FoundStep DEF SnapshotOK
        <2>3. step.call \in Workflow
            BY <2>1, <2>2 DEF WellFormed
        <2>4. step.id \in StepNames
            <3>1. /\ o.row.workflow_type \in Workflow
                  /\ o.row.workflow_fingerprint \in Version(o.row.workflow_type)
                BY <1>4 DEF SnapshotOK, RowOK
            <3> QED BY <2>2, <3>1 DEF StepNames, StepsOf, WorkflowOf
        <2>5. /\ RowOK(row) /\ Resolvable(row) /\ row.current_step \in StepIds(WorkflowOf(row))
              /\ row.updated_at = Now /\ row.completed_at = Null
              /\ row.parent_session_id = o.sid
            BY <1>7, <2>3, FreshRow DEF IInv
        <2> HIDE DEF row, step
        <2>6. c.op = "create_session" /\ c.sid = o.child /\ c.row = row /\ CreateArgs(c)
            BY <1>4, <1>5, <2>5 DEF CreateArgs, CreateOp
        <2>7. /\ v.op \notin Drawing /\ v.op # "set_called_session" /\ v.sid = o.child
              /\ OpOK(v) /\ Fits(v, row)
            BY DEF VisitOp, OpOK, Fits, Drawing
        <2>8. /\ l.op \notin Drawing /\ l.op = "set_called_session" /\ l.sid = o.sid
              /\ l.child = o.child /\ OpOK(l) /\ Fits(l, row)
            BY <2>4 DEF LinkOp, OpOK, Fits, Drawing
        <2> HIDE DEF c, v, l
        <2>9. /\ plan # <<>> /\ Head(plan) = c /\ IsSeq(plan) /\ Tail(plan) = <<v, l>>
            BY Three
        <2>10. Range(Tail(plan)) = {v, l}
            BY <2>9, Two
        <2> HIDE DEF plan
        <2>11. WorkOK(plan) /\ Drawn(plan) = {o.child}
            BY <1>4, <1>5, <2>6, <2>7, <2>8, <2>9, <2>10, CreationWork DEF IInv
        <2> QED BY <1>3, <1>5, <1>7, <2>11, Decided
    <1> QED BY <1>3, <1>6, <1>7

LEMMA DecidePushFlowKeeps ==
    ASSUME IInv, NEW t \in Thread, DecidePushFlow(t)
    PROVE  StepSafe
    <1>1. PICK o : o = Head(th[t])
        OBVIOUS
    <1> DEFINE row  == NewRow(o.w, o.sid)
               c    == CreateOp(o.child, row, "digression", o.row.current_step, MaxStackDepth)
               v    == VisitOp(o.child, row.current_step)
               plan == <<c, v>>
    <1>2. th[t] # <<>> /\ o.op = "push_flow"
        BY <1>1 DEF DecidePushFlow, Pending
    <1>3. /\ \/ Do(t, plan) /\ live[o.w] # Null
             \/ Do(t, <<>>)
          /\ UnchangedStore /\ UnchangedServer
        BY <1>1 DEF DecidePushFlow, Decide
    <1>4. o.sid \in minted /\ SnapshotOK(o)
        BY <1>1, <1>2, HeadOK DEF StepOK, OpOK
    <1>5. Drawn(th[t]) = {o.child} /\ o.child \in Sid \ minted
        <2>1. Drawn(th[t]) = {o.child}
            BY <1>1, <1>2 DEF Drawn, Drawing
        <2> QED BY <2>1 DEF IInv, IdsOK
    <1>6. CASE Do(t, <<>>)
        BY <1>3, <1>6, EmptyWork, Decided
    <1>7. CASE Do(t, plan) /\ live[o.w] # Null
        <2>1. WellFormed(WorkflowOf(o.row)) /\ o.row.current_step \in StepIds(WorkflowOf(o.row))
            BY <1>2, <1>4, WorkflowLoaded DEF SnapshotOK
        <2>2. o.w \in Workflow
            BY <1>2, <1>4 DEF SnapshotOK
        <2>3. o.row.current_step \in StepNames
            <3>1. /\ o.row.workflow_type \in Workflow
                  /\ o.row.workflow_fingerprint \in Version(o.row.workflow_type)
                BY <1>4 DEF SnapshotOK, RowOK
            <3>2. /\ StepAt(WorkflowOf(o.row), o.row.current_step) \in Range(WorkflowOf(o.row).steps)
                  /\ StepAt(WorkflowOf(o.row), o.row.current_step).id = o.row.current_step
                BY <2>1, FoundStep
            <3> QED BY <3>1, <3>2 DEF StepNames, StepsOf, WorkflowOf
        <2>4. /\ RowOK(row) /\ Resolvable(row) /\ row.current_step \in StepIds(WorkflowOf(row))
              /\ row.updated_at = Now /\ row.completed_at = Null
              /\ row.parent_session_id = o.sid
            BY <1>7, <2>2, FreshRow DEF IInv
        <2> HIDE DEF row
        <2>5. c.op = "create_session" /\ c.sid = o.child /\ c.row = row /\ CreateArgs(c)
            BY <1>4, <1>5, <2>3, <2>4 DEF CreateArgs, CreateOp
        <2>6. /\ v.op \notin Drawing /\ v.op # "set_called_session" /\ v.sid = o.child
              /\ OpOK(v) /\ Fits(v, row)
            BY DEF VisitOp, OpOK, Fits, Drawing
        <2> HIDE DEF c, v
        <2>7. plan # <<>> /\ Head(plan) = c /\ IsSeq(plan) /\ Tail(plan) = <<v>>
            BY Two
        <2>8. Range(Tail(plan)) = {v}
            BY <2>7, One
        <2> HIDE DEF plan
        <2>9. WorkOK(plan) /\ Drawn(plan) = {o.child}
            BY <1>5, <2>5, <2>6, <2>7, <2>8, CreationWork DEF IInv
        <2> QED BY <1>3, <1>5, <1>7, <2>9, Decided
    <1> QED BY <1>3, <1>6, <1>7

\* _resume_parent_after_digression deletes the digression.
LEMMA ResumeWork ==
    ASSUME StoreOK, NEW child \in minted, NEW outer \in minted
    PROVE  WorkOK(ResumePlan(child, outer)) /\ Drawn(ResumePlan(child, outer)) = {}
    <1>1. Suited(<<DeleteOp(child, FALSE)>>, outer, WorkflowOf(sessions[outer]))
        BY PlainSuit, SuitedOne
    <1> QED BY <1>1, ThenOnWork DEF ResumePlan

LEMMA DecidePopFlowKeeps ==
    ASSUME IInv, NEW t \in Thread, DecidePopFlow(t)
    PROVE  StepSafe
    <1>1. PICK sid : sid = Head(th[t]).sid
        OBVIOUS
    <1>2. sid \in minted
        BY <1>1, HeadOK DEF DecidePopFlow, Pending
    <1>3. PICK plan : /\ Do(t, plan) /\ UnchangedStore /\ UnchangedServer
                      /\ plan = <<>> \/ \E p \in ParentsOf(stack, sid) : plan = ResumePlan(sid, p)
        BY <1>1 DEF DecidePopFlow, Decide
    <1>4. WorkOK(plan) /\ Drawn(plan) = {}
        <2>1. \A p \in ParentsOf(stack, sid) : WorkOK(ResumePlan(sid, p)) /\ Drawn(ResumePlan(sid, p)) = {}
            BY <1>2, ParentsMinted, ResumeWork DEF IInv
        <2> QED BY <1>3, <2>1, EmptyWork
    <1> QED BY <1>3, <1>4, Decided

LEMMA DecideAutoResumeKeeps ==
    ASSUME IInv, NEW t \in Thread, DecideAutoResume(t)
    PROVE  StepSafe
    <1>1. PICK o : o = Head(th[t])
        OBVIOUS
    <1> DEFINE Handoff(p) == ThenOn(p, PropagatePlan(o.sid, o.wf, o.data, p))
    <1>2. o.sid \in minted
        BY <1>1, HeadOK DEF DecideAutoResume, Pending
    <1>3. PICK plan : /\ Do(t, plan) /\ UnchangedStore /\ UnchangedServer
                      /\ \/ plan = <<>>
                         \/ \E p \in ParentsOf(stack, o.sid) :
                               plan = ResumePlan(o.sid, p) \/ plan = Handoff(p)
        BY <1>1 DEF DecideAutoResume, Decide
    <1>4. ASSUME NEW p \in ParentsOf(stack, o.sid)
          PROVE  /\ WorkOK(ResumePlan(o.sid, p)) /\ Drawn(ResumePlan(o.sid, p)) = {}
                 /\ WorkOK(Handoff(p)) /\ Drawn(Handoff(p)) = {}
        <2>1. p \in minted /\ StoreOK
            BY ParentsMinted DEF IInv
        <2>2. Resolve(p) = "ok" => RowOK(sessions[p])
            BY <2>1 DEF Resolve, StoreOK
        <2>3. Resolve(p) = "ok" =>
                 Suited(PropagatePlan(o.sid, o.wf, o.data, p), p, WorkflowOf(sessions[p]))
            BY <1>2, <2>1, <2>2, PropagateSuits
        <2>4. WorkOK(Handoff(p)) /\ Drawn(Handoff(p)) = {}
            BY <2>1, <2>3, ThenOnWork
        <2> QED BY <1>2, <2>1, <2>4, ResumeWork
    <1> HIDE DEF Handoff
    <1>5. WorkOK(plan) /\ Drawn(plan) = {}
        BY <1>3, <1>4, EmptyWork
    <1> QED BY <1>3, <1>5, Decided

LEMMA DecideEscalateParentKeeps ==
    ASSUME IInv, NEW t \in Thread, DecideEscalateParent(t)
    PROVE  StepSafe
    <1>1. PICK plan : /\ Do(t, plan) /\ UnchangedStore /\ UnchangedServer
                      /\ plan = <<>> \/ \E p \in minted : plan = <<EscalateOp(p)>>
        BY ParentsMinted DEF DecideEscalateParent, Decide, IInv
    <1>2. ASSUME NEW p \in minted
          PROVE  WorkOK(<<EscalateOp(p)>>) /\ Drawn(<<EscalateOp(p)>>) = {}
        <2>1. PICK o : o = EscalateOp(p)
            OBVIOUS
        <2>2. o.op = "set_escalation" /\ o.sid = p
            BY <2>1 DEF EscalateOp
        <2>3. OpOK(o) /\ o.op \notin Drawing
              /\ (o.sid \in DOMAIN sessions => Fits(o, sessions[o.sid]))
            BY <2>2 DEF OpOK, Fits, Drawing
        <2> QED BY <2>1, <2>2, <2>3, SingleWork
    <1>3. WorkOK(plan) /\ Drawn(plan) = {}
        BY <1>1, <1>2, EmptyWork
    <1> QED BY <1>1, <1>3, Decided

---------------------------------------------------------------------------
(***************************************************************************)
(* The transactions.                                                       *)
(***************************************************************************)

\* A write that leaves a session where it stands.
LEMMA StandsStill ==
    ASSUME NEW r1, NEW r2, RowOK(r1), DOMAIN r2 = Column, SameWorkflow(r1, r2),
           r2.parent_session_id = r1.parent_session_id, r2.current_step = r1.current_step,
           r2.escalation \in BOOLEAN, DOMAIN r2.step_data \subseteq StepIds(WorkflowOf(r1)),
           r1.current_step = WORKFLOW_CHANGED => r2.step_data = r1.step_data
    PROVE  RowOK(r2) /\ Kin(r1, r2)
    <1>1. WorkflowOf(r2) = WorkflowOf(r1)
        BY SameWorkflowOf
    <1>2. RowOK(r2)
        BY <1>1 DEF RowOK, SameWorkflow
    <1>3. Resolvable(r2) = Resolvable(r1)
        BY DEF Resolvable, SameWorkflow
    <1> QED BY <1>2, <1>3 DEF Kin

\* Any column but those that say where the session stands and what it knows.
LEMMA ColumnWritten ==
    ASSUME NEW row, RowOK(row), NEW v,
           NEW col \in {"retry_counts", "step_visit_counts", "artifact_checkpoints", "updated_at"}
    PROVE  RowOK([row EXCEPT ![col] = v]) /\ Kin(row, [row EXCEPT ![col] = v])
    <1>1. PICK new : new = [row EXCEPT ![col] = v]
        OBVIOUS
    <1>2. DOMAIN row = Column
        BY DEF RowOK
    <1>3. /\ DOMAIN new = Column
          /\ new.workflow_type = row.workflow_type
          /\ new.workflow_fingerprint = row.workflow_fingerprint
          /\ new.parent_session_id = row.parent_session_id
          /\ new.current_step = row.current_step
          /\ new.escalation = row.escalation /\ new.step_data = row.step_data
        BY <1>1, <1>2 DEF Column
    <1>4. row.escalation \in BOOLEAN /\ DOMAIN row.step_data \subseteq StepIds(WorkflowOf(row))
        BY DEF RowOK
    <1>5. RowOK(new) /\ Kin(row, new)
        BY <1>3, <1>4, StandsStill DEF SameWorkflow
    <1> QED BY <1>1, <1>5

LEMMA EscalationWritten ==
    ASSUME NEW row, RowOK(row), NEW v \in BOOLEAN
    PROVE  RowOK([row EXCEPT !.escalation = v]) /\ Kin(row, [row EXCEPT !.escalation = v])
    <1>1. PICK new : new = [row EXCEPT !.escalation = v]
        OBVIOUS
    <1>2. DOMAIN row = Column
        BY DEF RowOK
    <1>3. /\ DOMAIN new = Column
          /\ new.workflow_type = row.workflow_type
          /\ new.workflow_fingerprint = row.workflow_fingerprint
          /\ new.parent_session_id = row.parent_session_id
          /\ new.current_step = row.current_step
          /\ new.escalation = v /\ new.step_data = row.step_data
        BY <1>1, <1>2 DEF Column
    <1>4. DOMAIN row.step_data \subseteq StepIds(WorkflowOf(row))
        BY DEF RowOK
    <1>5. RowOK(new) /\ Kin(row, new)
        BY <1>3, <1>4, StandsStill DEF SameWorkflow
    <1> QED BY <1>1, <1>5

LEMMA StepDataWritten ==
    ASSUME NEW row, RowOK(row), NEW data, DOMAIN data \subseteq StepIds(WorkflowOf(row)),
           row.current_step # WORKFLOW_CHANGED
    PROVE  RowOK([row EXCEPT !.step_data = data]) /\ Kin(row, [row EXCEPT !.step_data = data])
    <1>1. PICK new : new = [row EXCEPT !.step_data = data]
        OBVIOUS
    <1>2. DOMAIN row = Column
        BY DEF RowOK
    <1>3. /\ DOMAIN new = Column
          /\ new.workflow_type = row.workflow_type
          /\ new.workflow_fingerprint = row.workflow_fingerprint
          /\ new.parent_session_id = row.parent_session_id
          /\ new.current_step = row.current_step
          /\ new.escalation = row.escalation /\ new.step_data = data
        BY <1>1, <1>2 DEF Column
    <1>4. row.escalation \in BOOLEAN
        BY DEF RowOK
    <1>5. RowOK(new) /\ Kin(row, new)
        BY <1>3, <1>4, StandsStill DEF SameWorkflow
    <1> QED BY <1>1, <1>5

LEMMA RowWritten ==
    ASSUME IInv, NEW sid \in DOMAIN sessions, NEW row, RowOK(row), Kin(sessions[sid], row),
           sessions' = [sessions EXCEPT ![sid] = row], UNCHANGED stack
    PROVE  RowsKept /\ FramesKept
    <1>1. DOMAIN sessions' = DOMAIN sessions /\ sessions'[sid] = row
          /\ \A s \in DOMAIN sessions \ {sid} : sessions'[s] = sessions[s]
        OBVIOUS
    <1>2. \A s \in DOMAIN sessions : RowOK(sessions[s]) /\ Kin(sessions[s], sessions[s])
        BY DEF IInv, StoreOK, Kin, SameWorkflow
    <1>3. RowsKept
        BY <1>1, <1>2 DEF RowsKept
    <1>4. FramesKept
        BY DEF IInv, StoreOK, FramesKept
    <1> QED BY <1>3, <1>4

LEMMA WriteRowEffect ==
    ASSUME NEW t, NEW name, NEW row, NEW rest, WriteRow(t, name, row, rest)
    PROVE  /\ th[t] # <<>> /\ Head(th[t]).op = name /\ Head(th[t]).sid \in DOMAIN sessions
           /\ sessions' = [sessions EXCEPT ![Head(th[t]).sid] = row]
           /\ UNCHANGED <<stack, minted, live, restarts>> /\ Do(t, rest)
    BY DEF WriteRow, Transact, Pending, db, UnchangedServer

LEMMA WriteRowKeeps ==
    ASSUME IInv, NEW t \in Thread, NEW name, NEW row, NEW rest, WriteRow(t, name, row, rest),
           RowOK(row), Kin(sessions[Head(th[t]).sid], row),
           WorkOK(rest), Drawn(rest) = {}
    PROVE  StepSafe
    <1>1. /\ Head(th[t]).sid \in DOMAIN sessions
          /\ sessions' = [sessions EXCEPT ![Head(th[t]).sid] = row]
          /\ UNCHANGED <<stack, minted, live, restarts>> /\ Do(t, rest)
        BY WriteRowEffect
    <1>2. RowsKept /\ FramesKept
        BY <1>1, RowWritten
    <1> QED BY <1>1, <1>2, Stepped

\* update_session, by what the operation fits.
UpdatedRow(row, o) ==
    LET moved == IF o.step = Null THEN row ELSE SetCurrentStep(row, o.step, Now)
    IN  IF o.data = Null THEN moved ELSE [moved EXCEPT !.step_data = o.data]

LEMMA UpdatedColumns ==
    ASSUME NEW row, RowOK(row), NEW o
    PROVE  LET new == UpdatedRow(row, o) IN
           /\ DOMAIN new = Column /\ SameWorkflow(row, new)
           /\ new.parent_session_id = row.parent_session_id
           /\ new.escalation = row.escalation
           /\ new.current_step = IF o.step = Null THEN row.current_step ELSE o.step
           /\ new.step_data = IF o.data = Null THEN row.step_data ELSE o.data
    <1>1. DOMAIN row = Column
        BY DEF RowOK
    <1> DEFINE moved == IF o.step = Null THEN row ELSE SetCurrentStep(row, o.step, Now)
    <1>2. /\ DOMAIN moved = Column /\ SameWorkflow(row, moved)
          /\ moved.parent_session_id = row.parent_session_id
          /\ moved.escalation = row.escalation
          /\ moved.current_step = IF o.step = Null THEN row.current_step ELSE o.step
          /\ moved.step_data = row.step_data
        <2>1. CASE o.step = Null
            BY <1>1, <2>1 DEF SameWorkflow
        <2>2. CASE o.step # Null
            BY <1>1, <2>2 DEF SetCurrentStep, SameWorkflow, Column
        <2> QED BY <2>1, <2>2
    <1> HIDE DEF moved
    <1>3. UpdatedRow(row, o) = IF o.data = Null THEN moved ELSE [moved EXCEPT !.step_data = o.data]
        BY DEF UpdatedRow, moved
    <1>4. CASE o.data = Null
        BY <1>2, <1>3, <1>4
    <1>5. CASE o.data # Null
        BY <1>2, <1>3, <1>5 DEF SameWorkflow, Column
    <1> QED BY <1>4, <1>5

LEMMA UpdatedKin ==
    ASSUME NEW row, RowOK(row), NEW o, o.op = "update_session", Fits(o, row)
    PROVE  RowOK(UpdatedRow(row, o)) /\ Kin(row, UpdatedRow(row, o))
    <1>1. PICK new : new = UpdatedRow(row, o)
        OBVIOUS
    <1>2. /\ DOMAIN new = Column /\ SameWorkflow(row, new)
          /\ new.parent_session_id = row.parent_session_id
          /\ new.escalation = row.escalation
          /\ new.current_step = IF o.step = Null THEN row.current_step ELSE o.step
          /\ new.step_data = IF o.data = Null THEN row.step_data ELSE o.data
        BY <1>1, UpdatedColumns
    <1>3. WorkflowOf(new) = WorkflowOf(row)
        BY <1>2, SameWorkflowOf
    <1>4. Null \notin {COMPLETE, WORKFLOW_CHANGED}
        BY WorkflowsAssumption
    <1>5. CASE o.step = WORKFLOW_CHANGED /\ o.data = Null /\ ~Resolvable(row)
        <2>1. new.current_step = WORKFLOW_CHANGED /\ new.step_data = row.step_data
            BY <1>2, <1>4, <1>5
        <2>2. RowOK(new)
            BY <1>2, <1>3, <2>1 DEF RowOK, SameWorkflow
        <2>3. Kin(row, new)
            BY <1>2, <1>5, <2>1 DEF Kin, Resolvable
        <2> QED BY <1>1, <2>2, <2>3
    <1>6. CASE /\ Resolvable(row) /\ o.step \in Places(WorkflowOf(row)) \cup {Null}
               /\ DataOf(o.data, WorkflowOf(row))
        <2>1. new.current_step \in Places(WorkflowOf(row))
            BY <1>2, <1>6 DEF RowOK, Resolvable
        <2>2. WORKFLOW_CHANGED \notin Places(WorkflowOf(row))
            BY WorkflowLoaded DEF WellFormed, Places, COMPLETE, WORKFLOW_CHANGED
        <2>3. DOMAIN new.step_data \subseteq StepIds(WorkflowOf(row))
            BY <1>2, <1>6 DEF DataOf, RowOK
        <2>4. RowOK(new)
            BY <1>2, <1>3, <2>1, <2>3 DEF RowOK, SameWorkflow
        <2>5. Resolvable(new) /\ row.current_step # WORKFLOW_CHANGED
            BY <1>2, <1>6, <2>1, <2>2 DEF Resolvable, SameWorkflow
        <2>6. Kin(row, new)
            BY <1>2, <1>6, <2>5 DEF Kin
        <2> QED BY <1>1, <2>4, <2>6
    <1> QED BY <1>5, <1>6 DEF Fits

\* The operation a transaction runs, and the row it finds.
LEMMA HeadOnRow ==
    ASSUME IInv, NEW t \in Thread, th[t] # <<>>, Head(th[t]).sid \in DOMAIN sessions,
           Head(th[t]).op # "create_session"
    PROVE  /\ Head(th[t]).sid \in minted
           /\ RowOK(sessions[Head(th[t]).sid])
           /\ Fits(Head(th[t]), sessions[Head(th[t]).sid])
           /\ WorkOK(Tail(th[t])) /\ Drawn(Tail(th[t])) = {}
           /\ OpOK(Head(th[t]))
    BY HeadOK DEF IInv, StoreOK, StepOK

LEMMA UpdateSessionKeeps ==
    ASSUME IInv, NEW t \in Thread, TransactUpdateSession(t)
    PROVE  StepSafe
    <1> DEFINE o == Head(th[t])
               row == sessions[o.sid]
    <1>1. WriteRow(t, "update_session", UpdatedRow(row, o), Tail(th[t]))
        BY DEF TransactUpdateSession, UpdatedRow
    <1>2. th[t] # <<>> /\ o.op = "update_session" /\ o.sid \in DOMAIN sessions
        BY <1>1, WriteRowEffect
    <1>3. /\ RowOK(row) /\ Fits(o, row) /\ WorkOK(Tail(th[t])) /\ Drawn(Tail(th[t])) = {}
        BY <1>2, HeadOnRow
    <1>4. RowOK(UpdatedRow(row, o)) /\ Kin(row, UpdatedRow(row, o))
        BY <1>2, <1>3, UpdatedKin
    <1> QED BY <1>1, <1>3, <1>4, WriteRowKeeps

LEMMA IncrementVisitKeeps ==
    ASSUME IInv, NEW t \in Thread, TransactIncrementVisit(t)
    PROVE  StepSafe
    <1> DEFINE o   == Head(th[t])
               row == sessions[o.sid]
               new == [row EXCEPT !.step_visit_counts = Increment(@, o.step)]
    <1>1. WriteRow(t, "increment_visit", new, Tail(th[t]))
        BY DEF TransactIncrementVisit
    <1>2. th[t] # <<>> /\ o.op = "increment_visit" /\ o.sid \in DOMAIN sessions
        BY <1>1, WriteRowEffect
    <1>3. RowOK(row) /\ WorkOK(Tail(th[t])) /\ Drawn(Tail(th[t])) = {}
        BY <1>2, HeadOnRow
    <1>4. RowOK(new) /\ Kin(row, new)
        BY <1>3, ColumnWritten
    <1> QED BY <1>1, <1>3, <1>4, WriteRowKeeps

LEMMA EscalateParentWork ==
    ASSUME NEW sid \in minted
    PROVE  WorkOK(<<EscalateParentOp(sid)>>) /\ Drawn(<<EscalateParentOp(sid)>>) = {}
    <1>1. PICK o : o = EscalateParentOp(sid)
        OBVIOUS
    <1>2. o.op = "escalate_parent" /\ o.sid = sid
        BY <1>1 DEF EscalateParentOp
    <1>3. OpOK(o) /\ o.op \notin Drawing /\ (o.sid \in DOMAIN sessions => Fits(o, sessions[o.sid]))
        BY <1>2 DEF OpOK, Fits, Drawing
    <1> QED BY <1>1, <1>2, <1>3, SingleWork

LEMMA IncrementRetryKeeps ==
    ASSUME IInv, NEW t \in Thread, TransactIncrementRetry(t)
    PROVE  StepSafe
    <1> DEFINE o   == Head(th[t])
               row == sessions[o.sid]
               new == [row EXCEPT !.retry_counts = Increment(@, o.step)]
               rest == IF new.retry_counts[o.step] >= o.max
                       THEN <<EscalateParentOp(o.sid)>> ELSE <<>>
    <1>1. WriteRow(t, "increment_retry", new, rest)
        BY DEF TransactIncrementRetry
    <1>2. th[t] # <<>> /\ o.op = "increment_retry" /\ o.sid \in DOMAIN sessions
        BY <1>1, WriteRowEffect, SMTT(60)
    <1>3. RowOK(row) /\ o.sid \in minted
        BY <1>2, HeadOnRow
    <1>4. RowOK(new) /\ Kin(row, new)
        BY <1>3, ColumnWritten
    <1>5. WorkOK(rest) /\ Drawn(rest) = {}
        BY <1>3, EscalateParentWork, EmptyWork
    <1> QED BY <1>1, <1>4, <1>5, WriteRowKeeps

LEMMA SetEscalationKeeps ==
    ASSUME IInv, NEW t \in Thread, TransactSetEscalation(t)
    PROVE  StepSafe
    <1> DEFINE o   == Head(th[t])
               row == sessions[o.sid]
               new == [row EXCEPT !.escalation = TRUE]
    <1>1. WriteRow(t, "set_escalation", new, Tail(th[t]))
        BY DEF TransactSetEscalation
    <1>2. th[t] # <<>> /\ o.op = "set_escalation" /\ o.sid \in DOMAIN sessions
        BY <1>1, WriteRowEffect
    <1>3. RowOK(row) /\ WorkOK(Tail(th[t])) /\ Drawn(Tail(th[t])) = {}
        BY <1>2, HeadOnRow
    <1>4. RowOK(new) /\ Kin(row, new)
        BY <1>3, EscalationWritten
    <1> QED BY <1>1, <1>3, <1>4, WriteRowKeeps

LEMMA InvalidateStepsKeeps ==
    ASSUME IInv, NEW t \in Thread, TransactInvalidateSteps(t)
    PROVE  StepSafe
    <1> DEFINE o   == Head(th[t])
               row == sessions[o.sid]
               new == [row EXCEPT !.step_data = Without(@, o.steps)]
    <1>1. WriteRow(t, "invalidate_steps", new, Tail(th[t]))
        BY DEF TransactInvalidateSteps
    <1>2. th[t] # <<>> /\ o.op = "invalidate_steps" /\ o.sid \in DOMAIN sessions
        BY <1>1, WriteRowEffect
    <1>3. RowOK(row) /\ Fits(o, row) /\ WorkOK(Tail(th[t])) /\ Drawn(Tail(th[t])) = {}
        BY <1>2, HeadOnRow
    <1>4. row.current_step # WORKFLOW_CHANGED
        BY <1>2, <1>3 DEF Fits, Resolvable
    <1>5. DOMAIN Without(row.step_data, o.steps) \subseteq StepIds(WorkflowOf(row))
        <2>1. DOMAIN Without(row.step_data, o.steps) = DOMAIN row.step_data \ o.steps
            BY WithoutDomain
        <2> QED BY <1>3, <2>1 DEF RowOK
    <1>6. RowOK(new) /\ Kin(row, new)
        BY <1>3, <1>4, <1>5, StepDataWritten
    <1> QED BY <1>1, <1>3, <1>6, WriteRowKeeps

LEMMA StoreArtifactKeeps ==
    ASSUME IInv, NEW t \in Thread, TransactStoreArtifact(t)
    PROVE  StepSafe
    <1> DEFINE o   == Head(th[t])
               row == sessions[o.sid]
               new == [row EXCEPT !.artifact_checkpoints = @ \cup {<<o.step, o.art>>}]
    <1>1. WriteRow(t, "store_artifact", new, Tail(th[t]))
        BY DEF TransactStoreArtifact
    <1>2. th[t] # <<>> /\ o.op = "store_artifact" /\ o.sid \in DOMAIN sessions
        BY <1>1, WriteRowEffect
    <1>3. RowOK(row) /\ WorkOK(Tail(th[t])) /\ Drawn(Tail(th[t])) = {}
        BY <1>2, HeadOnRow
    <1>4. RowOK(new) /\ Kin(row, new)
        BY <1>3, ColumnWritten
    <1> QED BY <1>1, <1>3, <1>4, WriteRowKeeps

LEMMA TransactEffect ==
    ASSUME NEW t, NEW name, NEW new, NEW rest, Transact(t, name, new, rest)
    PROVE  /\ th[t] # <<>> /\ Head(th[t]).op = name /\ Head(th[t]).sid \in DOMAIN sessions
           /\ sessions' = new.sessions /\ stack' = new.stack
           /\ UNCHANGED <<minted, live, restarts>> /\ Do(t, rest)
    BY DEF Transact, Pending, UnchangedServer

\* Touching the parent of a call writes its updated_at.
LEMMA Touched ==
    ASSUME IInv, NEW sid \in DOMAIN sessions,
           sessions' = [sessions EXCEPT ![sid].updated_at = Now]
    PROVE  RowsKept
    <1>1. PICK row : row = [sessions[sid] EXCEPT !["updated_at"] = Now]
        OBVIOUS
    <1>2. RowOK(row) /\ Kin(sessions[sid], row)
        BY <1>1, ColumnWritten DEF IInv, StoreOK
    <1>3. DOMAIN sessions' = DOMAIN sessions /\ sessions'[sid] = row
          /\ \A s \in DOMAIN sessions \ {sid} : sessions'[s] = sessions[s]
        BY <1>1
    <1>4. \A s \in DOMAIN sessions : RowOK(sessions[s]) /\ Kin(sessions[s], sessions[s])
        BY DEF IInv, StoreOK, Kin, SameWorkflow
    <1> QED BY <1>2, <1>3, <1>4 DEF RowsKept

LEMMA FramesDropped ==
    ASSUME IInv, NEW S, stack' = Without(stack, S)
    PROVE  FramesKept
    <1>1. DOMAIN stack' = DOMAIN stack \ S
        BY WithoutDomain
    <1>2. \A s \in DOMAIN stack' : stack'[s] = stack[s]
        BY <1>1 DEF Without, Restrict
    <1>3. stack' = [s \in DOMAIN stack' |-> stack'[s]]
        BY DEF Without, Restrict
    <1> QED BY <1>1, <1>2, <1>3 DEF FramesKept, IInv, StoreOK

LEMMA RowsDropped ==
    ASSUME IInv, NEW S, sessions' = Without(sessions, S)
    PROVE  RowsKept
    <1>1. DOMAIN sessions' = DOMAIN sessions \ S
        BY WithoutDomain
    <1>2. \A s \in DOMAIN sessions' : sessions'[s] = sessions[s]
        BY <1>1 DEF Without, Restrict
    <1>3. \A s \in DOMAIN sessions : RowOK(sessions[s]) /\ Kin(sessions[s], sessions[s])
        BY DEF IInv, StoreOK, Kin, SameWorkflow
    <1> QED BY <1>1, <1>2, <1>3 DEF RowsKept

LEMMA SetCalledSessionKeeps ==
    ASSUME IInv, NEW t \in Thread, TransactSetCalledSession(t)
    PROVE  StepSafe
    <1>1. PICK o : o = Head(th[t])
        OBVIOUS
    <1>2. /\ th[t] # <<>> /\ o.op = "set_called_session" /\ o.sid \in DOMAIN sessions
          /\ sessions' = [sessions EXCEPT ![o.sid].updated_at = Now]
          /\ stack' = IF o.child \in DOMAIN stack
                      THEN [stack EXCEPT ![o.child].call_step = o.call] ELSE stack
          /\ UNCHANGED <<minted, live, restarts>> /\ Do(t, Tail(th[t]))
        BY <1>1, TransactEffect DEF TransactSetCalledSession, LinkChild, db
    <1>3. /\ o.call \in StepNames /\ WorkOK(Tail(th[t])) /\ Drawn(Tail(th[t])) = {}
        BY <1>1, <1>2, HeadOnRow DEF OpOK
    <1>4. RowsKept
        BY <1>2, Touched
    <1>5. FramesKept
        <2>1. stack \in [DOMAIN stack -> Frame]
            BY DEF IInv, StoreOK
        <2>2. CASE o.child \notin DOMAIN stack
            BY <1>2, <2>1, <2>2 DEF FramesKept
        <2>3. CASE o.child \in DOMAIN stack
            <3>1. PICK frame : frame = [stack[o.child] EXCEPT !.call_step = o.call]
                OBVIOUS
            <3>2. frame \in Frame /\ frame.root = stack[o.child].root
                BY <1>3, <2>1, <2>3, <3>1 DEF Frame
            <3>3. stack' = [stack EXCEPT ![o.child] = frame]
                BY <1>2, <2>3, <3>1
            <3> QED BY <2>1, <2>3, <3>2, <3>3 DEF FramesKept
        <2> QED BY <2>2, <2>3
    <1> QED BY <1>2, <1>3, <1>4, <1>5, Stepped

LEMMA ClearCalledSessionKeeps ==
    ASSUME IInv, NEW t \in Thread, TransactClearCalledSession(t)
    PROVE  StepSafe
    <1>1. PICK o : o = Head(th[t])
        OBVIOUS
    <1>2. /\ th[t] # <<>> /\ o.op = "clear_called_session" /\ o.sid \in DOMAIN sessions
          /\ sessions' = [sessions EXCEPT ![o.sid].updated_at = Now]
          /\ stack' = Without(stack, TopFrames(stack, o.sid))
          /\ UNCHANGED <<minted, live, restarts>> /\ Do(t, Tail(th[t]))
        BY <1>1, TransactEffect DEF TransactClearCalledSession, UnlinkChild, db
    <1>3. WorkOK(Tail(th[t])) /\ Drawn(Tail(th[t])) = {}
        BY <1>1, <1>2, HeadOnRow
    <1>4. RowsKept /\ FramesKept
        BY <1>2, Touched, FramesDropped
    <1> QED BY <1>2, <1>3, <1>4, Stepped

LEMMA DeleteRowKeeps ==
    ASSUME IInv, NEW t \in Thread, TransactDeleteSession(t)
    PROVE  StepSafe
    <1>1. PICK o : o = Head(th[t])
        OBVIOUS
    <1> DEFINE new == DeleteSessions(db, {o.sid})
    <1>2. new.sessions = Without(sessions, {o.sid}) /\ new.stack = Without(stack, {o.sid})
        BY DEF DeleteSessions, db
    <1> HIDE DEF new
    <1>3. Transact(t, "delete_session", new, Tail(th[t]))
        BY <1>1 DEF TransactDeleteSession, new
    <1>4. /\ th[t] # <<>> /\ o.op = "delete_session" /\ o.sid \in DOMAIN sessions
          /\ sessions' = Without(sessions, {o.sid})
          /\ stack' = Without(stack, {o.sid})
          /\ UNCHANGED <<minted, live, restarts>> /\ Do(t, Tail(th[t]))
        BY <1>1, <1>2, <1>3, TransactEffect
    <1>5. WorkOK(Tail(th[t])) /\ Drawn(Tail(th[t])) = {}
        BY <1>1, <1>4, HeadOnRow
    <1>6. RowsKept /\ FramesKept
        BY <1>4, RowsDropped, FramesDropped
    <1> QED BY <1>4, <1>5, <1>6, Stepped

LEMMA RowGoneKeeps ==
    ASSUME IInv, NEW t \in Thread, RowGone(t)
    PROVE  StepSafe
    <1>1. PICK plan : /\ plan \in {Tail(th[t]), <<>>} /\ Do(t, plan)
                      /\ UnchangedStore /\ UnchangedServer
        BY DEF RowGone
    <1>2. th[t] # <<>> /\ Head(th[t]).op # "create_session"
        BY DEF RowGone, Idle
    <1>3. WorkOK(plan) /\ Drawn(plan) = {}
        BY <1>1, <1>2, HeadOK, EmptyWork
    <1> QED BY <1>1, <1>3, Decided

\* What _auto_execute_mcp_steps does after a precondition_failed.
LEMMA CascadeSuits ==
    ASSUME NEW sid \in minted, NEW wf, NEW at \in Places(wf), NEW data, NEW cont,
           DOMAIN data \subseteq StepIds(wf)
    PROVE  Suited(<<UpdateOp(sid, at, data)>>
                     \o IF cont = "submit" THEN <<EscalateParentOp(sid)>> ELSE <<>>, sid, wf)
    <1> DEFINE rest == IF cont = "submit" THEN <<EscalateParentOp(sid)>> ELSE <<>>
    <1>1. Suited(rest, sid, wf)
        BY PlainSuit, SuitedOne, SuitedEmpty
    <1>2. Suited(<<UpdateOp(sid, at, data)>>, sid, wf)
        BY UpdateSuits, SuitedOne DEF DataOf
    <1> QED BY <1>1, <1>2, SuitedJoined

\* A plan for a session whose row is gone.
LEMMA GoneWork ==
    ASSUME NEW plan, IsSeq(plan), NEW sid \in minted, sid \notin DOMAIN sessions,
           \A o \in Range(plan) : o.sid = sid /\ o.op \in {"update_session", "escalate_parent"}
    PROVE  WorkOK(plan) /\ Drawn(plan) = {}
    <1>1. \A o \in Range(plan) : o.op \notin Drawing
        BY DEF Drawing
    <1>2. /\ Drawn(plan) = {} /\ \A s : ~Creates(plan, s)
          /\ plan # <<>> => \A o \in Range(Tail(plan)) : o.op \notin Drawing
        BY <1>1, NothingDrawn
    <1>3. \A o \in Range(plan) : StepOK(plan, o)
        BY <1>2 DEF StepOK, OpOK, Known
    <1> QED BY <1>2, <1>3 DEF WorkOK

LEMMA AutoExecuteKeeps ==
    ASSUME IInv, NEW t \in Thread, NEW envelope, AutoExecute(t, envelope)
    PROVE  StepSafe
    <1>1. PICK o : o = Head(th[t])
        OBVIOUS
    <1> DEFINE step    == StepAt(o.wf, o.at)
               data    == Put(o.data, o.at, envelope)
               next    == DefaultTarget(o.wf, step)
               landing == ApplySkipLoop(o.wf, next, data, FALSE)
               tail    == IF o.cont = "submit" THEN <<EscalateParentOp(o.sid)>> ELSE <<>>
               Cascade(at, d) == <<UpdateOp(o.sid, at, d)>> \o tail
               row     == sessions[o.sid]
               new     == [row EXCEPT !.step_visit_counts = Increment(@, o.at)]
               rest    == IF landing.cascade THEN Cascade(next, data)
                          ELSE Proceed(o.cont, o.sid, o.wf, landing.step, data)
    <1>2. th[t] # <<>> /\ o.op = "auto_execute"
        BY <1>1 DEF AutoExecute, Pending
    <1>3. \/ Do(t, Cascade(o.at, o.data)) /\ UnchangedStore /\ UnchangedServer
          \/ WriteRow(t, "auto_execute", new, rest)
        BY <1>1 DEF AutoExecute
    <1>4. o.sid \in minted
        BY <1>1, <1>2, HeadOK
    <1>5. o.sid \in DOMAIN sessions =>
             /\ RowOK(row) /\ Resolvable(row) /\ o.wf = WorkflowOf(row) /\ o.cont \in Conts
             /\ o.at \in StepIds(o.wf) /\ DOMAIN o.data \subseteq StepIds(o.wf)
        BY <1>1, <1>2, HeadOnRow DEF Fits, OpOK
    <1>6. CASE o.sid \notin DOMAIN sessions /\ Do(t, Cascade(o.at, o.data))
               /\ UnchangedStore /\ UnchangedServer
        <2>1. IsSeq(<<UpdateOp(o.sid, o.at, o.data)>>)
              /\ Range(<<UpdateOp(o.sid, o.at, o.data)>>) = {UpdateOp(o.sid, o.at, o.data)}
            BY One
        <2>2. IsSeq(tail) /\ Range(tail) \subseteq {EscalateParentOp(o.sid)}
            BY One, Empty
        <2> HIDE DEF tail
        <2>3. /\ IsSeq(Cascade(o.at, o.data))
              /\ Range(Cascade(o.at, o.data))
                    \subseteq {UpdateOp(o.sid, o.at, o.data), EscalateParentOp(o.sid)}
            BY <2>1, <2>2, Joined
        <2>4. \A p \in Range(Cascade(o.at, o.data)) :
                 p.sid = o.sid /\ p.op \in {"update_session", "escalate_parent"}
            BY <2>3 DEF UpdateOp, EscalateParentOp
        <2> HIDE DEF Cascade
        <2>5. WorkOK(Cascade(o.at, o.data)) /\ Drawn(Cascade(o.at, o.data)) = {}
            BY <1>4, <1>6, <2>3, <2>4, GoneWork
        <2> QED BY <1>6, <2>5, Decided
    <1>7. CASE o.sid \in DOMAIN sessions /\ Do(t, Cascade(o.at, o.data))
               /\ UnchangedStore /\ UnchangedServer
        <2>1. Suited(Cascade(o.at, o.data), o.sid, o.wf)
            BY <1>4, <1>5, <1>7, CascadeSuits DEF Places
        <2> HIDE DEF Cascade
        <2>2. WorkOK(Cascade(o.at, o.data)) /\ Drawn(Cascade(o.at, o.data)) = {}
            BY <1>5, <1>7, <2>1, SuitedWork
        <2> QED BY <1>7, <2>2, Decided
    <1>8. CASE WriteRow(t, "auto_execute", new, rest)
        <2>1. o.sid \in DOMAIN sessions
            BY <1>1, <1>8 DEF WriteRow, Transact
        <2>2. WellFormed(o.wf) /\ step \in Range(o.wf.steps)
            BY <1>5, <2>1, WorkflowLoaded, FoundStep
        <2>3. next \in Places(o.wf)
            BY <2>2, DefaultIsPlace
        <2>4. landing.step \in Places(o.wf)
            BY <2>2, <2>3, LandingIsPlace
        <2>5. DOMAIN data \subseteq StepIds(o.wf)
            <3>1. DOMAIN data = DOMAIN o.data \cup {o.at}
                BY PutDomain
            <3> QED BY <1>5, <2>1, <3>1
        <2> HIDE DEF step, data, next, landing
        <2>6. Suited(Proceed(o.cont, o.sid, o.wf, landing.step, data), o.sid, o.wf)
            BY <1>4, <1>5, <2>1, <2>4, <2>5, ProceedSuits
        <2>7. Suited(Cascade(next, data), o.sid, o.wf)
            BY <1>4, <2>3, <2>5, CascadeSuits
        <2>8. Suited(rest, o.sid, o.wf)
            BY <2>6, <2>7
        <2> HIDE DEF rest
        <2>9. WorkOK(rest) /\ Drawn(rest) = {}
            BY <1>5, <2>1, <2>8, SuitedWork
        <2>10. RowOK(new) /\ Kin(row, new)
            BY <1>5, <2>1, ColumnWritten
        <2> QED BY <1>1, <1>8, <2>9, <2>10, WriteRowKeeps
    <1> HIDE DEF Cascade, new, rest
    <1> QED BY <1>3, <1>6, <1>7, <1>8

---------------------------------------------------------------------------
(***************************************************************************)
(* The creation of a session.                                              *)
(***************************************************************************)

\* create_session has inserted sid with `row`, dropping other rows.
Inserted(sid, row) ==
    /\ sid \in DOMAIN sessions' /\ sessions'[sid] = row
    /\ \A s \in DOMAIN sessions' \ {sid} : s \in DOMAIN sessions /\ sessions'[s] = sessions[s]
    /\ minted' = minted \cup {sid}

LEMMA FitsStill ==
    ASSUME NEW o, NEW r, Fits(o, r), UNCHANGED live
    PROVE  Fits(o, r)'
    BY FitsKin DEF Kin, SameWorkflow

\* An operation that was in order stays in order, also when its thread goes on.
LEMMA StepCarried ==
    ASSUME NEW q, NEW r, NEW o, StepOK(q, o), NEW sid, NEW row, Inserted(sid, row),
           UNCHANGED live, o.sid = sid => Fits(o, row),
           \A s : Creates(q, s) => Creates(r, s) \/ s = sid,
           \A s : Creates(r, s) => Creates(q, s) /\ Head(r) = Head(q)
    PROVE  StepOK(r, o)'
    <1>1. OpOK(o)'
        BY DEF StepOK, OpOK, CreateArgs, SnapshotOK, RowOK, Resolvable, Inserted
    <1>2. Known(r, o.sid)' /\ (o.op = "set_called_session" => Known(r, o.child)')
        BY DEF StepOK, Known, Inserted
    <1>3. (o.sid \in DOMAIN sessions => Fits(o, sessions[o.sid]))'
        <2> SUFFICES ASSUME o.sid \in DOMAIN sessions' PROVE Fits(o, sessions[o.sid])'
            OBVIOUS
        <2>1. PICK new : new = sessions'[o.sid]
            OBVIOUS
        <2>2. Fits(o, new)
            BY <2>1 DEF StepOK, Inserted
        <2>3. Fits(o, new)'
            BY <2>2, FitsStill
        <2> QED BY <2>1, <2>3
    <1>4. Creates(r, o.sid) => Fits(o, Head(r).row)'
        <2> SUFFICES ASSUME Creates(r, o.sid) PROVE Fits(o, Head(r).row)'
            OBVIOUS
        <2>1. PICK old : old = Head(r).row
            OBVIOUS
        <2>2. Fits(o, old)
            BY <2>1 DEF StepOK
        <2>3. Fits(o, old)'
            BY <2>2, FitsStill
        <2> QED BY <2>1, <2>3
    <1> QED BY <1>1, <1>2, <1>3, <1>4 DEF StepOK

\* Another thread: it knows nothing of the new id.
LEMMA OtherWorkCarried ==
    ASSUME NEW q, WorkOK(q), NEW sid, NEW row, Inserted(sid, row), UNCHANGED live,
           sid \notin minted, sid \notin Drawn(q)
    PROVE  WorkOK(q)'
    <1>1. ASSUME NEW o \in Range(q)
          PROVE  StepOK(q, o)'
        <2>1. StepOK(q, o)
            BY DEF WorkOK
        <2>2. ~Creates(q, sid)
            BY DEF Creates, Drawn, Drawing
        <2>3. o.sid # sid
            BY <2>1, <2>2 DEF StepOK, Known
        <2> QED BY <2>1, <2>3, StepCarried
    <1> QED BY <1>1 DEF WorkOK

\* The thread that created the session.
LEMMA OwnWorkCarried ==
    ASSUME NEW q, WorkOK(q), q # <<>>, Head(q).op = "create_session",
           Inserted(Head(q).sid, Head(q).row), UNCHANGED live
    PROVE  WorkOK(Tail(q))' /\ Drawn(Tail(q)) = {}
    <1>1. IsSeq(Tail(q)) /\ Range(Tail(q)) \subseteq Range(q)
        BY HeadAndTail DEF WorkOK
    <1>2. \A o \in Range(Tail(q)) : o.op \notin Drawing
        BY DEF WorkOK
    <1>3. /\ Drawn(Tail(q)) = {} /\ \A s : ~Creates(Tail(q), s)
          /\ Tail(q) # <<>> => \A o \in Range(Tail(Tail(q))) : o.op \notin Drawing
        BY <1>1, <1>2, NothingDrawn
    <1>4. PICK sid, row : sid = Head(q).sid /\ row = Head(q).row
        OBVIOUS
    <1>5. \A s : Creates(q, s) => s = sid
        BY <1>4 DEF Creates
    <1>6. ASSUME NEW o \in Range(Tail(q))
          PROVE  StepOK(Tail(q), o)'
        <2>1. StepOK(q, o)
            BY <1>1 DEF WorkOK
        <2>2. o.sid = sid => Fits(o, row)
            BY <1>4, <2>1 DEF StepOK, Creates
        <2>3. PICK r : r = Tail(q)
            OBVIOUS
        <2>4. StepOK(r, o)'
            BY <1>3, <1>4, <1>5, <2>1, <2>2, <2>3, StepCarried
        <2> QED BY <2>3, <2>4
    <1> QED BY <1>1, <1>3, <1>6 DEF WorkOK

LEMMA CreatedStore ==
    ASSUME StoreOK, NEW o, CreateArgs(o), NEW evicted, minted' = minted \cup {o.sid},
           LET new == CreateSession(db, evicted, o.sid, o.row, o.type, o.call)
           IN  sessions' = new.sessions /\ stack' = new.stack
    PROVE  Inserted(o.sid, o.row) /\ StoreOK'
    <1> DEFINE kept   == Without(stack, evicted)
               parent == o.row.parent_session_id
               slot   == ChildSlot(kept, parent)
               frame  == [root |-> slot.root, depth |-> slot.depth,
                          frame_type |-> o.type, call_step |-> o.call]
    <1>1. /\ sessions' = Put(Without(sessions, evicted), o.sid, o.row)
          /\ stack' = IF parent = Null THEN kept ELSE Put(kept, o.sid, frame)
        BY DEF CreateSession, DeleteSessions, InsertFrame, db
    <1>2. /\ DOMAIN Without(sessions, evicted) = DOMAIN sessions \ evicted
          /\ \A s \in DOMAIN sessions \ evicted : Without(sessions, evicted)[s] = sessions[s]
        BY DEF Without, Restrict
    <1>3. /\ DOMAIN sessions' = (DOMAIN sessions \ evicted) \cup {o.sid}
          /\ sessions'[o.sid] = o.row
          /\ \A s \in DOMAIN sessions' \ {o.sid} : s \in DOMAIN sessions /\ sessions'[s] = sessions[s]
        BY <1>1, <1>2 DEF Put
    <1>4. /\ DOMAIN kept = DOMAIN stack \ evicted
          /\ \A s \in DOMAIN kept : kept[s] = stack[s]
          /\ kept = [s \in DOMAIN kept |-> kept[s]]
        BY DEF Without, Restrict
    <1>5. /\ kept \in [DOMAIN kept -> Frame] /\ DOMAIN kept \subseteq minted
          /\ \A s \in DOMAIN kept : kept[s].root \in minted
        BY <1>4 DEF StoreOK
    <1>6. /\ o.sid \in Sid /\ o.type \in {"call", "digression"} /\ o.call \in StepNames \cup {Null}
          /\ parent \in minted \cup {Null}
        BY DEF CreateArgs
    <1>7. parent # Null => frame \in Frame /\ frame.root \in minted
        <2> SUFFICES ASSUME parent \in minted PROVE frame \in Frame /\ frame.root \in minted
            BY <1>6
        <2>1. slot.root \in minted /\ slot.depth \in Nat \ {0}
            <3>1. CASE parent \in DOMAIN kept
                <4>1. kept[parent] \in Frame
                    BY <1>5, <3>1
                <4>2. kept[parent].depth \in Nat
                    BY <4>1 DEF Frame
                <4>3. kept[parent].depth + 1 \in Nat \ {0}
                    BY <4>2
                <4> QED BY <1>5, <3>1, <4>3 DEF ChildSlot
            <3>2. CASE parent \notin DOMAIN kept
                BY <3>2 DEF ChildSlot
            <3> QED BY <3>1, <3>2
        <2>2. slot.root \in Sid
            BY <2>1 DEF StoreOK
        <2> HIDE DEF slot
        <2> QED BY <1>6, <2>1, <2>2 DEF Frame
    <1> HIDE DEF kept, parent, slot, frame
    <1>8. /\ DOMAIN stack' \subseteq DOMAIN kept \cup {o.sid}
          /\ stack' \in [DOMAIN stack' -> Frame]
          /\ \A s \in DOMAIN stack' : stack'[s].root \in minted
        <2>1. CASE parent = Null
            BY <1>1, <1>5, <2>1
        <2>2. CASE parent # Null
            BY <1>1, <1>5, <1>7, <2>2 DEF Put
        <2> QED BY <2>1, <2>2
    <1>9. RowOK(o.row)
        BY DEF CreateArgs
    <1>10. StoreOK'
        <2>1. minted' \subseteq Sid /\ DOMAIN sessions' \subseteq minted' /\ DOMAIN stack' \subseteq minted'
            BY <1>3, <1>5, <1>6, <1>8 DEF StoreOK
        <2>2. \A s \in DOMAIN sessions' :
                 RowOK(sessions'[s]) /\ sessions'[s].parent_session_id \in minted' \cup {Null}
            BY <1>3, <1>6, <1>9 DEF StoreOK, parent
        <2>3. \A s \in DOMAIN sessions' : RowOK(sessions[s])'
            BY <2>2 DEF RowOK
        <2> QED BY <1>8, <2>1, <2>2, <2>3 DEF StoreOK
    <1> QED BY <1>3, <1>10 DEF Inserted

LEMMA CreateSessionKeeps ==
    ASSUME IInv, NEW t \in Thread, NEW evicted, TransactCreateSession(t, evicted)
    PROVE  StepSafe
    <1>1. PICK o, q : o = Head(th[t]) /\ q = th[t]
        OBVIOUS
    <1>2. /\ q # <<>> /\ o.op = "create_session" /\ UnchangedServer
          /\ \/ UnchangedStore /\ Do(t, <<>>)
             \/ /\ LET new == CreateSession(db, evicted, o.sid, o.row, o.type, o.call)
                   IN  sessions' = new.sessions /\ stack' = new.stack
                /\ minted' = minted \cup {o.sid}
                /\ Do(t, Tail(q))
        BY <1>1 DEF TransactCreateSession, Pending
    <1>3. WorkOK(q) /\ CreateArgs(o)
        BY <1>1, <1>2, HeadOK DEF StepOK, OpOK
    <1>4. o.sid \in Drawn(q) /\ o.sid \notin minted
        <2>1. o.sid \in Drawn(q)
            BY <1>1, <1>2 DEF Drawn, Drawing
        <2> QED BY <1>1, <2>1 DEF IInv, IdsOK
    <1>5. CASE UnchangedStore /\ Do(t, <<>>)
        BY <1>2, <1>5, EmptyWork, Decided
    <1>6. CASE /\ LET new == CreateSession(db, evicted, o.sid, o.row, o.type, o.call)
                  IN  sessions' = new.sessions /\ stack' = new.stack
               /\ minted' = minted \cup {o.sid}
               /\ Do(t, Tail(q))
        <2>1. Inserted(o.sid, o.row) /\ StoreOK'
            BY <1>3, <1>6, CreatedStore DEF IInv
        <2>2. UNCHANGED live /\ LiveOK'
            BY <1>2 DEF UnchangedServer, IInv, LiveOK
        <2>3. /\ DOMAIN th' = Thread /\ th'[t] = Tail(q)
              /\ \A u \in Thread \ {t} : th'[u] = th[u]
            BY <1>6 DEF Do, IInv, ThreadsOK
        <2>4. WorkOK(Tail(q))' /\ Drawn(Tail(q)) = {}
            BY <1>1, <1>2, <1>3, <2>1, <2>2, OwnWorkCarried
        <2>5. \A u \in Thread \ {t} : o.sid \notin Drawn(th[u])
            BY <1>1, <1>4 DEF IInv, IdsOK
        <2>6. ASSUME NEW u \in Thread \ {t} PROVE WorkOK(th[u])'
            <3>1. PICK w : w = th[u]
                OBVIOUS
            <3>2. WorkOK(w) /\ o.sid \notin Drawn(w)
                BY <2>5, <3>1 DEF IInv, ThreadsOK
            <3>3. PICK sid, row : sid = o.sid /\ row = o.row
                OBVIOUS
            <3>4. WorkOK(w)'
                BY <1>4, <2>1, <2>2, <3>2, <3>3, OtherWorkCarried
            <3> QED BY <2>3, <3>1, <3>4
        <2>7. ThreadsOK'
            <3>1. WorkOK(th[t])'
                BY <2>3, <2>4
            <3> QED BY <2>3, <2>6, <3>1 DEF ThreadsOK
        <2>8. IdsOK'
            <3>1. Drawn(th'[t]) = {} /\ \A u \in Thread \ {t} : Drawn(th'[u]) = Drawn(th[u])
                BY <2>3, <2>4
            <3>2. \A u \in Thread \ {t} : Drawn(th[u]) \subseteq Sid \ minted
                BY DEF IInv, IdsOK
            <3>3. \A u \in Thread : Drawn(th'[u]) \subseteq Sid \ minted'
                BY <1>6, <2>5, <3>1, <3>2
            <3>4. \A u, v \in Thread \ {t} : u # v => Drawn(th[u]) \cap Drawn(th[v]) = {}
                BY DEF IInv, IdsOK
            <3>5. \A u, v \in Thread : u # v => Drawn(th'[u]) \cap Drawn(th'[v]) = {}
                BY <3>1, <3>4
            <3> QED BY <3>3, <3>5 DEF IdsOK
        <2>9. MarkersStay
            <3>1. o.sid \notin DOMAIN sessions
                BY <1>4 DEF IInv, StoreOK
            <3> QED BY <2>1, <3>1 DEF Inserted, MarkersStay
        <2> QED BY <2>1, <2>2, <2>7, <2>8, <2>9 DEF IInv, StepSafe
    <1> QED BY <1>2, <1>5, <1>6

---------------------------------------------------------------------------
(***************************************************************************)
(* Every step, and the theorems.                                           *)
(***************************************************************************)
LEMMA RestartKeeps ==
    ASSUME IInv, Restart
    PROVE  StepSafe
    <1>1. th' = [t \in Thread |-> <<>>] /\ UNCHANGED <<sessions, stack, minted>>
        BY DEF Restart, UnchangedStore
    <1>2. LiveOK'
        BY DEF Restart, LiveOK
    <1>3. StoreOK'
        BY <1>1 DEF IInv, StoreOK, RowOK
    <1>4. ThreadsOK' /\ IdsOK'
        <2>1. WorkOK(<<>>)' /\ Drawn(<<>>) = {}
            BY Empty DEF WorkOK, Drawn
        <2>2. DOMAIN th' = Thread /\ \A t \in Thread : th'[t] = <<>>
            BY <1>1
        <2> QED BY <2>1, <2>2 DEF ThreadsOK, IdsOK
    <1>5. MarkersStay
        BY <1>1 DEF MarkersStay
    <1> QED BY <1>2, <1>3, <1>4, <1>5 DEF IInv, StepSafe

LEMMA CallSafe ==
    ASSUME IInv, NEW t \in Thread, Call(t)
    PROVE  StepSafe
    <1>1. CASE \E w \in Workflow, sid \in Sid : StartWorkflow(t, w, sid)
        BY <1>1, StartWorkflowKeeps
    <1>2. CASE \E sid \in Sid : ResolveMismatch(t, sid)
        BY <1>2, ResolveMismatchKeeps
    <1>3. CASE \E sid \in DOMAIN sessions, content \in Content :
                 \E branch \in StepNames \cup {Null}, art \in ArtifactNames \cup {Null} :
                    SubmitStep(t, sid, content, branch, art)
        BY <1>3, SubmitStepKeeps
    <1>4. CASE \E sid \in DOMAIN sessions, step \in StepNames : ReviseStep(t, sid, step)
        BY <1>4, ReviseStepKeeps
    <1>5. CASE \E sid \in DOMAIN sessions, child \in Sid : EnterSubWorkflow(t, sid, child)
        BY <1>5, EnterSubWorkflowKeeps
    <1>6. CASE \E sid \in DOMAIN sessions, child \in Sid, w \in Workflow :
                 PushFlow(t, sid, w, child)
        BY <1>6, PushFlowKeeps
    <1>7. CASE \E sid \in DOMAIN sessions : PopFlow(t, sid)
        BY <1>7, PopFlowKeeps
    <1>8. CASE \E sid \in DOMAIN sessions : DeleteSession(t, sid)
        BY <1>8, DeleteSessionKeeps
    <1> QED BY <1>1, <1>2, <1>3, <1>4, <1>5, <1>6, <1>7, <1>8 DEF Call

LEMMA WorkSafe ==
    ASSUME IInv, NEW t \in Thread, Work(t)
    PROVE  StepSafe
    <1>1. CASE DecideSubmitStep(t) BY <1>1, DecideSubmitStepKeeps
    <1>2. CASE DecideReviseStep(t) BY <1>2, DecideReviseStepKeeps
    <1>3. CASE DecideEnterSubWorkflow(t) BY <1>3, DecideEnterSubWorkflowKeeps
    <1>4. CASE DecidePushFlow(t) BY <1>4, DecidePushFlowKeeps
    <1>5. CASE DecidePopFlow(t) BY <1>5, DecidePopFlowKeeps
    <1>6. CASE DecideAutoResume(t) BY <1>6, DecideAutoResumeKeeps
    <1>7. CASE DecideEscalateParent(t) BY <1>7, DecideEscalateParentKeeps
    <1>8. CASE TransactUpdateSession(t) BY <1>8, UpdateSessionKeeps
    <1>9. CASE TransactIncrementVisit(t) BY <1>9, IncrementVisitKeeps
    <1>10. CASE TransactIncrementRetry(t) BY <1>10, IncrementRetryKeeps
    <1>11. CASE TransactSetEscalation(t) BY <1>11, SetEscalationKeeps
    <1>12. CASE TransactInvalidateSteps(t) BY <1>12, InvalidateStepsKeeps
    <1>13. CASE TransactStoreArtifact(t) BY <1>13, StoreArtifactKeeps
    <1>14. CASE TransactSetCalledSession(t) BY <1>14, SetCalledSessionKeeps
    <1>15. CASE TransactClearCalledSession(t) BY <1>15, ClearCalledSessionKeeps
    <1>16. CASE TransactDeleteSession(t) BY <1>16, DeleteRowKeeps
    <1>17. CASE \E evicted \in SUBSET Sid : TransactCreateSession(t, evicted)
        BY <1>17, CreateSessionKeeps
    <1>18. CASE \E envelope \in Envelope : AutoExecute(t, envelope)
        BY <1>18, AutoExecuteKeeps
    <1>19. CASE RowGone(t) BY <1>19, RowGoneKeeps
    <1> QED BY <1>1, <1>2, <1>3, <1>4, <1>5, <1>6, <1>7, <1>8, <1>9, <1>10, <1>11, <1>12,
               <1>13, <1>14, <1>15, <1>16, <1>17, <1>18, <1>19 DEF Work

LEMMA NextSafe ==
    ASSUME IInv, [Next]_vars
    PROVE  StepSafe
    <1>1. CASE UNCHANGED vars
        <2>1. UNCHANGED <<sessions, stack, minted, live, th>>
            BY <1>1 DEF vars
        <2>2. StoreOK' /\ LiveOK' /\ IdsOK'
            BY <2>1 DEF IInv, StoreOK, LiveOK, IdsOK, RowOK
        <2>3. RowsKept
            BY <2>1 DEF IInv, StoreOK, RowsKept, Kin, SameWorkflow
        <2>4. \A t \in Thread : WorkOK(th[t])'
            <3> TAKE t \in Thread
            <3>1. PICK q : q = th[t]
                OBVIOUS
            <3>2. WorkOK(q)
                BY <3>1 DEF IInv, ThreadsOK
            <3>3. WorkOK(q)'
                BY <2>1, <2>3, <3>2, WorkKept
            <3> QED BY <2>1, <3>1, <3>3
        <2>5. ThreadsOK' /\ MarkersStay
            BY <2>1, <2>4 DEF IInv, ThreadsOK, MarkersStay
        <2> QED BY <2>2, <2>5 DEF IInv, StepSafe
    <1>2. CASE \E t \in Thread : Call(t) \/ Work(t)
        BY <1>2, CallSafe, WorkSafe
    <1>3. CASE Restart
        BY <1>3, RestartKeeps
    <1> QED BY <1>1, <1>2, <1>3 DEF Next

LEMMA InitSafe == Init => IInv
    <1> SUFFICES ASSUME Init PROVE IInv
        OBVIOUS
    <1>1. sessions = <<>> /\ stack = <<>> /\ minted = {} /\ th = [t \in Thread |-> <<>>]
        BY DEF Init
    <1>2. DOMAIN sessions = {} /\ DOMAIN stack = {}
        BY <1>1
    <1>3. StoreOK
        BY <1>1, <1>2 DEF StoreOK
    <1>4. LiveOK
        BY WorkflowsAssumption DEF Init, LiveOK
    <1>5. DOMAIN th = Thread /\ \A t \in Thread : th[t] = <<>>
        BY <1>1
    <1>6. ThreadsOK /\ IdsOK
        BY <1>5, EmptyWork DEF ThreadsOK, IdsOK
    <1> QED BY <1>3, <1>4, <1>6 DEF IInv

\* The invariant of the tools, whatever the threads interleave.
THEOREM Invariant == Spec => []IInv
    <1>1. IInv /\ [Next]_vars => IInv'
        BY NextSafe DEF StepSafe
    <1> QED BY InitSafe, <1>1, PTL DEF Spec

LEMMA KnownReserved ==
    ASSUME NEW t \in Thread, NEW s, IsSeq(th[t]), Known(th[t], s)
    PROVE  s \in minted \cup Reserved
    <1>1. CASE s \in minted
        BY <1>1
    <1>2. CASE Creates(th[t], s)
        <2>1. PICK c : c = Head(th[t])
            OBVIOUS
        <2>2. c \in Range(th[t]) /\ c.op = "create_session" /\ c.sid = s
            BY <1>2, <2>1, HeadAndTail DEF Creates
        <2>3. c \in {p \in UNION {Range(th[u]) : u \in Thread} : p.op = "create_session"}
            BY <2>2
        <2> QED BY <2>2, <2>3 DEF Reserved
    <1> QED BY <1>1, <1>2 DEF Known

\* Type correctness: rows and threads have the shape the code gives them, and
\* a session stands on a step of its own workflow version or on a marker, for
\* any number of threads.
THEOREM TypeCorrect == Spec => []TypeOK
    <1>1. IInv => TypeOK
        <2> SUFFICES ASSUME IInv PROVE TypeOK
            OBVIOUS
        <2>1. \A s \in DOMAIN sessions :
                 LET row == sessions[s]
                 IN  /\ row.workflow_type \in Workflow
                     /\ row.workflow_fingerprint \in Version(row.workflow_type)
                     /\ row.current_step \in StepIds(WorkflowOf(row)) \cup {COMPLETE, WORKFLOW_CHANGED}
                     /\ DOMAIN row.step_data \subseteq StepIds(WorkflowOf(row))
                     /\ row.escalation \in BOOLEAN
                     /\ row.parent_session_id \in minted \cup {Null}
            BY DEF IInv, StoreOK, RowOK, Places
        <2>2. \A t \in Thread : \A i \in DOMAIN th[t] : th[t][i].sid \in minted \cup Reserved
            <3> SUFFICES ASSUME NEW t \in Thread, NEW i \in DOMAIN th[t]
                         PROVE  th[t][i].sid \in minted \cup Reserved
                OBVIOUS
            <3>1. PICK o : o = th[t][i]
                OBVIOUS
            <3>2. o \in Range(th[t]) /\ IsSeq(th[t])
                BY <3>1 DEF Range, IInv, ThreadsOK, WorkOK
            <3>3. Known(th[t], o.sid)
                BY <3>2 DEF IInv, ThreadsOK, WorkOK, StepOK
            <3> QED BY <3>1, <3>2, <3>3, KnownReserved
        <2>3. minted \subseteq Sid /\ DOMAIN sessions \subseteq minted /\ DOMAIN stack \subseteq minted
            BY DEF IInv, StoreOK
        <2>4. \A w \in Workflow : live[w] \in Version(w) \cup {Null}
            BY DEF IInv, LiveOK
        <2> QED BY <2>1, <2>2, <2>3, <2>4 DEF TypeOK
    <1> QED BY <1>1, Invariant, PTL

\* _resolve_session's terminal marker: no call of any thread moves a session
\* on from it or writes its data, neither one that began before the marker was
\* written nor one of a child that hands its artifact over.
THEOREM MarkerIsTerminal == Spec => WorkflowChangedTerminal
    <1>1. IInv /\ [Next]_vars =>
          [\A s \in DOMAIN sessions \cap DOMAIN sessions' :
              sessions[s].current_step = WORKFLOW_CHANGED =>
                 /\ sessions'[s].current_step = WORKFLOW_CHANGED
                 /\ sessions'[s].step_data = sessions[s].step_data]_vars
        BY NextSafe DEF StepSafe, MarkersStay
    <1> QED BY <1>1, Invariant, PTL DEF Spec, WorkflowChangedTerminal

---------------------------------------------------------------------------
(***************************************************************************)
(* The tools implement the session store: every step is a transaction of   *)
(* SessionStore on the columns it keeps, or changes none of them.          *)
(***************************************************************************)
View == [s \in DOMAIN sessions |-> StoreRow(sessions[s])]

StoreStep == Store!Next \/ UNCHANGED <<View, stack, minted>>

\* The operators of the store are the same under both names.
LEMMA SameOperators ==
    /\ Store!COMPLETE = COMPLETE /\ Store!WORKFLOW_CHANGED = WORKFLOW_CHANGED
    /\ \A f, k, v : Store!Put(f, k, v) = Put(f, k, v)
    /\ \A f, S : Store!Without(f, S) = Without(f, S)
    /\ \A row, step, now : Store!SetCurrentStep(row, step, now) = SetCurrentStep(row, step, now)
    /\ \A f, s : Store!ChildSlot(f, s) = ChildSlot(f, s)
    /\ \A f, s : Store!TopFrames(f, s) = TopFrames(f, s)
    /\ \A f, r : Store!FramesOf(f, r) = FramesOf(f, r)
    <1>1. Store!COMPLETE = COMPLETE /\ Store!WORKFLOW_CHANGED = WORKFLOW_CHANGED
        BY DEF Store!COMPLETE, COMPLETE, Store!WORKFLOW_CHANGED, WORKFLOW_CHANGED
    <1>2. /\ \A f, k, v : Store!Put(f, k, v) = Put(f, k, v)
          /\ \A f, S : Store!Without(f, S) = Without(f, S)
        BY DEF Store!Put, Put, Store!Without, Without, Store!Restrict, Restrict
    <1>3. \A row, step, now : Store!SetCurrentStep(row, step, now) = SetCurrentStep(row, step, now)
        BY <1>1 DEF Store!SetCurrentStep, SetCurrentStep
    <1>4. \A f, s : Store!ChildSlot(f, s) = ChildSlot(f, s)
        BY DEF Store!ChildSlot, ChildSlot
    <1>5. \A f, s : Store!TopFrames(f, s) = TopFrames(f, s)
        BY <1>4 DEF Store!TopFrames, TopFrames, Store!FramesAt, FramesAt
    <1>6. \A f, r : Store!FramesOf(f, r) = FramesOf(f, r)
        BY DEF Store!FramesOf, FramesOf
    <1> QED BY <1>1, <1>2, <1>3, <1>4, <1>5, <1>6

LEMMA UnchangedStoreStep ==
    ASSUME UnchangedStore
    PROVE  StoreStep
    BY DEF UnchangedStore, StoreStep, View

LEMMA StepsNamed ==
    ASSUME NEW row, RowOK(row)
    PROVE  StepIds(WorkflowOf(row)) \subseteq StepNames
    <1> SUFFICES ASSUME NEW id \in StepIds(WorkflowOf(row)) PROVE id \in StepNames
        OBVIOUS
    <1>1. /\ StepAt(WorkflowOf(row), id) \in Range(WorkflowOf(row).steps)
          /\ StepAt(WorkflowOf(row), id).id = id
        BY WorkflowLoaded, FoundStep
    <1>2. row.workflow_type \in Workflow /\ row.workflow_fingerprint \in Version(row.workflow_type)
        BY DEF RowOK
    <1> QED BY <1>1, <1>2 DEF StepNames, StepsOf, WorkflowOf

\* A write to the columns the store specification does not keep.
LEMMA HiddenWrite ==
    ASSUME NEW t, NEW name, NEW row, NEW rest, WriteRow(t, name, row, rest),
           StoreRow(row) = StoreRow(sessions[Head(th[t]).sid])
    PROVE  StoreStep
    <1>1. PICK sid : sid = Head(th[t]).sid
        OBVIOUS
    <1>2. /\ sid \in DOMAIN sessions /\ sessions' = [sessions EXCEPT ![sid] = row]
          /\ UNCHANGED <<stack, minted>>
        BY <1>1, WriteRowEffect
    <1>3. DOMAIN sessions' = DOMAIN sessions /\ sessions'[sid] = row
          /\ \A s \in DOMAIN sessions \ {sid} : sessions'[s] = sessions[s]
        BY <1>2
    <1>4. \A s \in DOMAIN sessions : StoreRow(sessions'[s]) = StoreRow(sessions[s])
        BY <1>1, <1>3
    <1>5. View' = View
        BY <1>3, <1>4 DEF View
    <1> QED BY <1>2, <1>5 DEF StoreStep

LEMMA HiddenColumn ==
    ASSUME NEW row, RowOK(row), NEW v,
           NEW col \in {"step_data", "retry_counts", "step_visit_counts", "escalation",
                        "artifact_checkpoints"}
    PROVE  StoreRow([row EXCEPT ![col] = v]) = StoreRow(row)
    BY DEF RowOK, Column, StoreRow

LEMMA Overwritten ==
    ASSUME NEW S, NEW f, NEW g, NEW k \in S, NEW v, f = [s \in S |-> f[s]], g = [s \in S |-> g[s]],
           g[k] = v, \A s \in S \ {k} : g[s] = f[s]
    PROVE  g = [f EXCEPT ![k] = v]
    OBVIOUS

LEMMA MovedStoreRow ==
    ASSUME NEW row, NEW step, NEW now
    PROVE  SetCurrentStep(StoreRow(row), step, now) =
              [current_step |-> step, updated_at |-> now,
               completed_at |-> IF step = COMPLETE THEN now ELSE row.completed_at,
               parent_session_id |-> row.parent_session_id]
    <1>1. PICK r : r = StoreRow(row)
        OBVIOUS
    <1>2. /\ r = [c \in DOMAIN r |-> r[c]]
          /\ DOMAIN r = {"current_step", "updated_at", "completed_at", "parent_session_id"}
          /\ r.completed_at = row.completed_at /\ r.parent_session_id = row.parent_session_id
        BY <1>1 DEF StoreRow
    <1>3. SetCurrentStep(r, step, now) =
              [current_step |-> step, updated_at |-> now,
               completed_at |-> IF step = COMPLETE THEN now ELSE row.completed_at,
               parent_session_id |-> row.parent_session_id]
        <2> DEFINE at == IF step = COMPLETE THEN now ELSE row.completed_at
                   new == [current_step |-> step, updated_at |-> now, completed_at |-> at,
                           parent_session_id |-> row.parent_session_id]
                   set == SetCurrentStep(r, step, now)
        <2>1. /\ DOMAIN set = DOMAIN r /\ set = [c \in DOMAIN r |-> set[c]]
              /\ set.current_step = step /\ set.updated_at = now /\ set.completed_at = at
              /\ set.parent_session_id = row.parent_session_id
            BY <1>2 DEF SetCurrentStep
        <2> HIDE DEF at, set
        <2>2. /\ new = [c \in DOMAIN r |-> new[c]]
              /\ new.current_step = step /\ new.updated_at = now /\ new.completed_at = at
              /\ new.parent_session_id = row.parent_session_id
            BY <1>2
        <2> HIDE DEF new
        <2>3. \A c \in DOMAIN r : set[c] = new[c]
            BY <1>2, <2>1, <2>2
        <2>4. set = new
            BY <2>1, <2>2, <2>3
        <2> QED BY <2>4 DEF set, new, at
    <1> QED BY <1>1, <1>3

\* The clock of the refinement stands still.
LEMMA StampNow == 0 \in Store!StampsBeforeLock /\ 0 \in 0..Now
    BY DEF Store!StampsBeforeLock, Store!Time, Now

\* update_session with a step is the store's UpdateSession, without one it
\* writes step_data.
LEMMA UpdateStoreStep ==
    ASSUME IInv, NEW t \in Thread, TransactUpdateSession(t)
    PROVE  StoreStep
    <1>1. PICK o, row : o = Head(th[t]) /\ row = sessions[Head(th[t]).sid]
        OBVIOUS
    <1>2. WriteRow(t, "update_session", UpdatedRow(row, o), Tail(th[t]))
        BY <1>1 DEF TransactUpdateSession, UpdatedRow
    <1>3. th[t] # <<>> /\ o.op = "update_session" /\ o.sid \in DOMAIN sessions
          /\ sessions' = [sessions EXCEPT ![o.sid] = UpdatedRow(row, o)]
          /\ UNCHANGED <<stack, minted>>
        BY <1>1, <1>2, WriteRowEffect
    <1>4. RowOK(row) /\ Fits(o, row) /\ o.sid \in Sid
        BY <1>1, <1>3, HeadOnRow DEF IInv, StoreOK
    <1>5. DOMAIN row = Column
        BY <1>4 DEF RowOK
    <1>6. CASE o.step = Null
        <2>1. UpdatedRow(row, o) = IF o.data = Null THEN row ELSE [row EXCEPT !["step_data"] = o.data]
            BY <1>6 DEF UpdatedRow
        <2>2. StoreRow([row EXCEPT !["step_data"] = o.data]) = StoreRow(row)
            BY <1>4, HiddenColumn
        <2>3. StoreRow(UpdatedRow(row, o)) = StoreRow(row)
            BY <2>1, <2>2
        <2> QED BY <1>1, <1>2, <2>3, HiddenWrite
    <1>7. CASE o.step # Null
        <2>1. o.step \in StepNames \cup {COMPLETE, WORKFLOW_CHANGED}
            BY <1>3, <1>4, <1>7, StepsNamed DEF Fits, Places
        <2>2. PICK moved : moved = SetCurrentStep(row, o.step, Now)
            OBVIOUS
        <2>3. /\ DOMAIN moved = Column /\ moved.current_step = o.step /\ moved.updated_at = Now
              /\ moved.completed_at = IF o.step = COMPLETE THEN Now ELSE row.completed_at
              /\ moved.parent_session_id = row.parent_session_id
            BY <1>5, <2>2 DEF SetCurrentStep, Column
        <2>4. UpdatedRow(row, o) = IF o.data = Null THEN moved ELSE [moved EXCEPT !.step_data = o.data]
            BY <1>7, <2>2 DEF UpdatedRow
        <2>5. StoreRow(UpdatedRow(row, o)) = StoreRow(moved)
            <3>1. StoreRow([moved EXCEPT !.step_data = o.data]) = StoreRow(moved)
                BY <2>3 DEF StoreRow, Column
            <3> QED BY <2>4, <3>1
        <2>6. StoreRow(moved) = SetCurrentStep(StoreRow(row), o.step, Now)
            BY <2>3, MovedStoreRow DEF StoreRow
        <2>7. View' = [View EXCEPT ![o.sid] = SetCurrentStep(@, o.step, Now)]
            <3>1. /\ DOMAIN sessions' = DOMAIN sessions
                  /\ sessions'[o.sid] = UpdatedRow(row, o)
                  /\ \A s \in DOMAIN sessions \ {o.sid} : sessions'[s] = sessions[s]
                BY <1>3
            <3>2. View'[o.sid] = SetCurrentStep(View[o.sid], o.step, Now)
                BY <1>1, <1>3, <2>5, <2>6, <3>1 DEF View
            <3>3. \A s \in DOMAIN sessions \ {o.sid} : View'[s] = View[s]
                BY <3>1 DEF View
            <3>4. /\ View' = [s \in DOMAIN sessions |-> View'[s]]
                  /\ View = [s \in DOMAIN sessions |-> View[s]]
                BY <3>1 DEF View
            <3> QED BY <1>3, <3>2, <3>3, <3>4, Overwritten
        <2>8. Store!UpdateSession(o.sid, o.step, 0)
            <3>1. o.sid \in DOMAIN View
                BY <1>3 DEF View
            <3>2. View' = [View EXCEPT ![o.sid] = Store!SetCurrentStep(@, o.step, 0)]
                BY <2>7, SameOperators DEF Now
            <3> QED BY <1>3, <3>1, <3>2, StampNow DEF Store!UpdateSession, View
        <2>9. o.step \in Store!Position
            BY <2>1, SameOperators DEF Store!Position
        <2>10. Store!Next
            BY <1>4, <2>8, <2>9, StampNow DEF Store!Next
        <2> QED BY <2>10 DEF StoreStep
    <1> QED BY <1>6, <1>7

LEMMA TouchedRow ==
    ASSUME NEW row, RowOK(row), NEW now
    PROVE  StoreRow([row EXCEPT !.updated_at = now]) = [StoreRow(row) EXCEPT !.updated_at = now]
    BY DEF RowOK, Column, StoreRow

LEMMA TouchedView ==
    ASSUME IInv, NEW sid \in DOMAIN sessions,
           sessions' = [sessions EXCEPT ![sid].updated_at = Now]
    PROVE  View' = [View EXCEPT ![sid].updated_at = 0] /\ DOMAIN View = DOMAIN sessions
    <1>1. PICK old, row : old = sessions[sid] /\ row = [old EXCEPT !.updated_at = Now]
        OBVIOUS
    <1>2. /\ DOMAIN sessions' = DOMAIN sessions /\ sessions'[sid] = row
          /\ \A s \in DOMAIN sessions \ {sid} : sessions'[s] = sessions[s]
        BY <1>1
    <1>3. RowOK(old)
        BY <1>1 DEF IInv, StoreOK
    <1>4. StoreRow(row) = [StoreRow(old) EXCEPT !.updated_at = 0]
        BY <1>1, <1>3, TouchedRow DEF Now
    <1>5. View'[sid] = [View[sid] EXCEPT !.updated_at = 0]
        BY <1>1, <1>2, <1>4 DEF View
    <1>6. \A s \in DOMAIN sessions \ {sid} : View'[s] = View[s]
        BY <1>2 DEF View
    <1>7. /\ View' = [s \in DOMAIN sessions |-> View'[s]]
          /\ View = [s \in DOMAIN sessions |-> View[s]]
        BY <1>2 DEF View
    <1>8. View' = [View EXCEPT ![sid] = [View[sid] EXCEPT !.updated_at = 0]]
        BY <1>5, <1>6, <1>7, Overwritten
    <1> QED BY <1>7, <1>8

LEMMA DroppedView ==
    ASSUME NEW S, sessions' = Without(sessions, S)
    PROVE  View' = Without(View, S)
    <1>1. /\ DOMAIN sessions' = DOMAIN sessions \ S
          /\ \A s \in DOMAIN sessions' : sessions'[s] = sessions[s]
        BY DEF Without, Restrict
    <1> QED BY <1>1 DEF View, Without, Restrict

LEMMA SetCalledStoreStep ==
    ASSUME IInv, NEW t \in Thread, TransactSetCalledSession(t)
    PROVE  StoreStep
    <1>1. PICK o : o = Head(th[t])
        OBVIOUS
    <1>2. /\ th[t] # <<>> /\ o.op = "set_called_session" /\ o.sid \in DOMAIN sessions
          /\ sessions' = [sessions EXCEPT ![o.sid].updated_at = Now]
          /\ stack' = IF o.child \in DOMAIN stack
                      THEN [stack EXCEPT ![o.child].call_step = o.call] ELSE stack
          /\ UNCHANGED minted
        BY <1>1, TransactEffect DEF TransactSetCalledSession, LinkChild, db
    <1>3. o.call \in StepNames
        BY <1>1, <1>2, HeadOnRow DEF OpOK
    <1>4. o.sid \in Sid /\ o.child \in Sid /\ o.child \in minted
        <2>1. StepOK(th[t], o)
            BY <1>1, <1>2, HeadOK
        <2>2. o.child \in minted
            BY <1>1, <1>2, <2>1 DEF StepOK, Known, Creates
        <2> QED BY <1>2, <2>2 DEF IInv, StoreOK
    <1>5. View' = [View EXCEPT ![o.sid].updated_at = 0] /\ DOMAIN View = DOMAIN sessions
        BY <1>2, TouchedView
    <1>6. Store!SetCalledSession(o.sid, o.child, o.call)
        BY <1>2, <1>4, <1>5
           DEF Store!SetCalledSession, Store!Commit, Store!LinkChild, Store!db, View, Now
    <1>7. Store!Next
        BY <1>3, <1>4, <1>6 DEF Store!Next
    <1> QED BY <1>7 DEF StoreStep

LEMMA ClearCalledStoreStep ==
    ASSUME IInv, NEW t \in Thread, TransactClearCalledSession(t)
    PROVE  StoreStep
    <1>1. PICK o : o = Head(th[t])
        OBVIOUS
    <1>2. /\ th[t] # <<>> /\ o.sid \in DOMAIN sessions
          /\ sessions' = [sessions EXCEPT ![o.sid].updated_at = Now]
          /\ stack' = Without(stack, TopFrames(stack, o.sid))
          /\ UNCHANGED minted
        BY <1>1, TransactEffect DEF TransactClearCalledSession, UnlinkChild, db
    <1>3. o.sid \in Sid
        BY <1>2 DEF IInv, StoreOK
    <1>4. View' = [View EXCEPT ![o.sid].updated_at = 0] /\ DOMAIN View = DOMAIN sessions
        BY <1>2, TouchedView
    <1>5. stack' = Store!Without(stack, Store!TopFrames(stack, o.sid))
        BY <1>2, SameOperators
    <1>6. Store!ClearCalledSession(o.sid)
        BY <1>2, <1>4, <1>5
           DEF Store!ClearCalledSession, Store!Commit, Store!UnlinkChild, Store!db, View, Now
    <1>7. Store!Next
        BY <1>3, <1>6 DEF Store!Next
    <1> QED BY <1>7 DEF StoreStep

LEMMA DeleteStoreStep ==
    ASSUME IInv, NEW t \in Thread, TransactDeleteSession(t)
    PROVE  StoreStep
    <1>1. PICK sid : sid = Head(th[t]).sid
        OBVIOUS
    <1> DEFINE new == DeleteSessions(db, {sid})
    <1>2. new.sessions = Without(sessions, {sid}) /\ new.stack = Without(stack, {sid})
        BY DEF DeleteSessions, db
    <1> HIDE DEF new
    <1>3. Transact(t, "delete_session", new, Tail(th[t]))
        BY <1>1 DEF TransactDeleteSession, new
    <1>4. /\ sid \in DOMAIN sessions /\ UNCHANGED minted
          /\ sessions' = Without(sessions, {sid}) /\ stack' = Without(stack, {sid})
        BY <1>1, <1>2, <1>3, TransactEffect
    <1>5. View' = Store!Without(View, {sid}) /\ stack' = Store!Without(stack, {sid})
        BY <1>4, DroppedView, SameOperators
    <1>6. sid \in DOMAIN View /\ sid \in Sid
        BY <1>4 DEF View, IInv, StoreOK
    <1>7. Store!DeleteSession(sid)
        BY <1>4, <1>5, <1>6
           DEF Store!DeleteSession, Store!Commit, Store!DeleteSessions, Store!db, View
    <1>8. Store!Next
        BY <1>6, <1>7 DEF Store!Next
    <1> QED BY <1>8 DEF StoreStep

LEMMA SameCardinality == \A S : Store!Cardinality(S) = Cardinality(S)
    BY DEF Store!Cardinality, Cardinality

LEMMA EvictionSeen ==
    ASSUME NEW evicted \in EvictionChoices(sessions)
    PROVE  evicted \in Store!EvictionChoices(View)
    <1>1. DOMAIN View = DOMAIN sessions
        BY DEF View
    <1>2. \A s \in DOMAIN sessions :
             /\ Store!IsComplete(View[s]) = IsComplete(sessions[s])
             /\ Store!RecencyKey(View[s]) = RecencyKey(sessions[s])
        BY SameOperators
           DEF View, StoreRow, Store!IsComplete, IsComplete, Store!RecencyKey, RecencyKey
    <1>3. \A s, e \in DOMAIN sessions :
             Store!EvictedBefore(View[s], View[e]) = EvictedBefore(sessions[s], sessions[e])
        BY <1>2 DEF Store!EvictedBefore, EvictedBefore
    <1>4. Store!ToEvict(View) = ToEvict(sessions)
        BY <1>1, SameCardinality DEF Store!ToEvict, ToEvict
    <1>5. /\ evicted \in SUBSET DOMAIN sessions /\ Cardinality(evicted) = ToEvict(sessions)
          /\ \A e \in evicted, k \in DOMAIN sessions \ evicted :
                ~EvictedBefore(sessions[k], sessions[e])
        BY DEF EvictionChoices
    <1>6. \A e \in evicted, k \in DOMAIN sessions \ evicted : ~Store!EvictedBefore(View[k], View[e])
        BY <1>3, <1>5
    <1> QED BY <1>1, <1>4, <1>5, <1>6, SameCardinality DEF Store!EvictionChoices

LEMMA InsertedView ==
    ASSUME NEW S, NEW sid, NEW row, sessions' = Put(Without(sessions, S), sid, row)
    PROVE  View' = Put(Without(View, S), sid, StoreRow(row))
    <1>1. /\ DOMAIN sessions' = (DOMAIN sessions \ S) \cup {sid} /\ sessions'[sid] = row
          /\ \A s \in DOMAIN sessions \ S : s # sid => sessions'[s] = sessions[s]
        BY DEF Put, Without, Restrict
    <1>2. /\ DOMAIN Without(View, S) = DOMAIN sessions \ S
          /\ \A s \in DOMAIN sessions \ S : Without(View, S)[s] = StoreRow(sessions[s])
        BY DEF View, Without, Restrict
    <1> QED BY <1>1, <1>2 DEF View, Put

LEMMA CreateStoreStep ==
    ASSUME IInv, NEW t \in Thread, NEW evicted \in SUBSET Sid, TransactCreateSession(t, evicted)
    PROVE  StoreStep
    <1>1. PICK o, q : o = Head(th[t]) /\ q = th[t]
        OBVIOUS
    <1> DEFINE parent == o.row.parent_session_id
               new    == CreateSession(db, evicted, o.sid, o.row, o.type, o.call)
    <1>2. /\ q # <<>> /\ o.op = "create_session" /\ evicted \in EvictionChoices(sessions)
          /\ \/ UnchangedStore
             \/ /\ sessions' = new.sessions /\ stack' = new.stack
                /\ minted' = minted \cup {o.sid}
                /\ o.max # Null => ~StackFull(db, evicted, parent, o.max)
        BY <1>1 DEF TransactCreateSession, Pending
    <1>3. CreateArgs(o)
        BY <1>1, <1>2, HeadOK DEF StepOK, OpOK
    <1>4. o.sid \notin minted
        <2>1. o.sid \in Drawn(q)
            BY <1>1, <1>2 DEF Drawn, Drawing
        <2> QED BY <1>1, <2>1 DEF IInv, IdsOK
    <1>5. CASE UnchangedStore
        BY <1>5, UnchangedStoreStep
    <1>6. CASE /\ sessions' = new.sessions /\ stack' = new.stack
               /\ minted' = minted \cup {o.sid}
               /\ o.max # Null => ~StackFull(db, evicted, parent, o.max)
        <2>1. PICK kept, row, step : /\ kept = Without(stack, evicted)
                                     /\ row = StoreRow(o.row) /\ step = o.row.current_step
            OBVIOUS
        <2> DEFINE slot  == ChildSlot(kept, parent)
                   frame == [root |-> slot.root, depth |-> slot.depth,
                             frame_type |-> o.type, call_step |-> o.call]
                   made  == Store!CreateSession(Store!db, evicted, o.sid, row, o.type, o.call)
        <2>2. /\ sessions' = Put(Without(sessions, evicted), o.sid, o.row)
              /\ stack' = IF parent = Null THEN kept ELSE Put(kept, o.sid, frame)
            BY <1>6, <2>1 DEF CreateSession, DeleteSessions, InsertFrame, db
        <2>3. View' = Put(Without(View, evicted), o.sid, row)
            BY <2>1, <2>2, InsertedView
        <2>4. row.parent_session_id = parent
            BY <2>1 DEF StoreRow
        <2>5. /\ made.sessions = Store!Put(Store!Without(View, evicted), o.sid, row)
              /\ made.stack = IF row.parent_session_id = Null THEN Store!Without(stack, evicted)
                              ELSE Store!InsertFrame(Store!Without(stack, evicted), o.sid,
                                                     row.parent_session_id, o.type, o.call)
            BY DEF Store!CreateSession, Store!DeleteSessions, Store!db, View
        <2>6. Store!InsertFrame(kept, o.sid, parent, o.type, o.call) = Put(kept, o.sid, frame)
            BY SameOperators DEF Store!InsertFrame
        <2>7. View' = made.sessions /\ stack' = made.stack
            BY <2>1, <2>2, <2>3, <2>4, <2>5, <2>6, SameOperators
        <2>8. evicted \in Store!EvictionChoices(View)
            BY <1>2, EvictionSeen
        <2>9. Store!Create(o.sid, row, o.type, o.call, evicted)
            <3> HIDE DEF made
            <3>1. Store!Commit(made)
                BY <2>7 DEF Store!Commit, View
            <3> QED BY <1>4, <1>6, <2>8, <3>1 DEF Store!Create, View, made, Now
        <2>10. row = Store!NewRow(step, parent, 0)
            BY <1>3, <2>1 DEF StoreRow, Store!NewRow, CreateArgs, Now
        <2>11. /\ o.sid \in Sid /\ step \in StepNames
               /\ parent # Null => parent \in Sid /\ parent \in minted
            BY <1>3, <2>1, StepsNamed DEF CreateArgs, IInv, StoreOK
        <2> HIDE DEF made, slot, frame
        <2>12. CASE o.type = "call" /\ o.call = Null /\ parent = Null
            <3>1. Store!CreateRoot(o.sid, step, 0, evicted)
                BY <2>9, <2>10, <2>12, StampNow DEF Store!CreateRoot
            <3>2. Store!Next
                BY <2>11, <3>1, StampNow DEF Store!Next
            <3> QED BY <3>2 DEF StoreStep
        <2>13. CASE o.type = "call" /\ o.call = Null /\ parent # Null
            <3>1. Store!CreateCallChild(o.sid, step, parent, 0, evicted)
                BY <2>9, <2>10, <2>11, <2>13, StampNow DEF Store!CreateCallChild
            <3>2. Store!Next
                BY <2>11, <2>13, <3>1, StampNow DEF Store!Next
            <3> QED BY <3>2 DEF StoreStep
        <2>14. CASE /\ o.type = "digression" /\ o.call \in StepNames /\ o.max = MaxStackDepth
                    /\ parent \in minted
            <3>1. parent # Null /\ o.max # Null
                BY <2>14, StoreAssumption, WorkflowsAssumption, ToolCallsAssumption
                   DEF IInv, StoreOK
            <3>2. ~Store!StackFull(Store!db, evicted, parent, MaxStackDepth)
                <4>1. ~(Cardinality(FramesOf(kept, slot.root)) >= MaxStackDepth)
                    BY <1>6, <2>1, <2>14, <3>1 DEF StackFull, DeleteSessions, db, slot
                <4>2. Store!DeleteSessions(Store!db, evicted).stack = kept
                    BY <2>1, SameOperators DEF Store!DeleteSessions, Store!db
                <4> QED BY <4>1, <4>2, SameOperators, SameCardinality DEF Store!StackFull, slot
            <3>3. Store!CreateDigression(o.sid, step, parent, o.call, 0, evicted)
                BY <2>8, <2>9, <2>10, <2>14, <3>2, StampNow DEF Store!CreateDigression, View
            <3>4. Store!Next
                BY <2>11, <2>14, <3>1, <3>3, StampNow DEF Store!Next
            <3> QED BY <3>4 DEF StoreStep
        <2> QED BY <1>3, <2>12, <2>13, <2>14 DEF CreateArgs
    <1> QED BY <1>2, <1>5, <1>6

LEMMA CallStoreStep ==
    ASSUME NEW t, Call(t)
    PROVE  StoreStep
    <1>1. UnchangedStore
        BY DEF Call, StartWorkflow, ResolveMismatch, SubmitStep, ReviseStep, EnterSubWorkflow,
               PushFlow, PopFlow, DeleteSession, Resolved
    <1> QED BY <1>1, UnchangedStoreStep

\* The writers of the JSON columns.
LEMMA ColumnStoreStep ==
    ASSUME IInv, NEW t \in Thread, NEW v, NEW rest, NEW name,
           NEW col \in {"step_data", "retry_counts", "step_visit_counts", "escalation",
                        "artifact_checkpoints"},
           WriteRow(t, name, [sessions[Head(th[t]).sid] EXCEPT ![col] = v], rest)
    PROVE  StoreStep
    <1>1. PICK old, row : old = sessions[Head(th[t]).sid] /\ row = [old EXCEPT ![col] = v]
        OBVIOUS
    <1>2. WriteRow(t, name, row, rest)
        BY <1>1
    <1>3. RowOK(old)
        BY <1>1, <1>2, WriteRowEffect DEF IInv, StoreOK
    <1>4. StoreRow(row) = StoreRow(old)
        <2>1. StoreRow([old EXCEPT ![col] = v]) = StoreRow(old)
            BY <1>3, HiddenColumn
        <2> QED BY <1>1, <2>1
    <1> QED BY <1>1, <1>2, <1>4, HiddenWrite

LEMMA WorkStoreStep ==
    ASSUME IInv, NEW t \in Thread, Work(t)
    PROVE  StoreStep
    <1> DEFINE o   == Head(th[t])
               row == sessions[o.sid]
    <1>1. CASE \/ DecideSubmitStep(t) \/ DecideReviseStep(t) \/ DecideEnterSubWorkflow(t)
               \/ DecidePushFlow(t) \/ DecidePopFlow(t) \/ DecideAutoResume(t)
               \/ DecideEscalateParent(t) \/ RowGone(t)
        <2>1. UnchangedStore
            BY <1>1 DEF DecideSubmitStep, DecideReviseStep, DecideEnterSubWorkflow, DecidePushFlow,
                   DecidePopFlow, DecideAutoResume, DecideEscalateParent, RowGone, Decide
        <2> QED BY <2>1, UnchangedStoreStep
    <1>2. CASE TransactUpdateSession(t)
        BY <1>2, UpdateStoreStep
    <1>3. CASE TransactIncrementVisit(t)
        BY <1>3, ColumnStoreStep DEF TransactIncrementVisit
    <1>4. CASE TransactIncrementRetry(t)
        BY <1>4, ColumnStoreStep DEF TransactIncrementRetry
    <1>5. CASE TransactSetEscalation(t)
        BY <1>5, ColumnStoreStep DEF TransactSetEscalation
    <1>6. CASE TransactInvalidateSteps(t)
        BY <1>6, ColumnStoreStep DEF TransactInvalidateSteps
    <1>7. CASE TransactStoreArtifact(t)
        BY <1>7, ColumnStoreStep DEF TransactStoreArtifact
    <1>8. CASE TransactSetCalledSession(t)
        BY <1>8, SetCalledStoreStep
    <1>9. CASE TransactClearCalledSession(t)
        BY <1>9, ClearCalledStoreStep
    <1>10. CASE TransactDeleteSession(t)
        BY <1>10, DeleteStoreStep
    <1>11. CASE \E evicted \in SUBSET Sid : TransactCreateSession(t, evicted)
        BY <1>11, CreateStoreStep
    <1>12. CASE \E envelope \in Envelope : AutoExecute(t, envelope)
        <2>1. \/ UnchangedStore
              \/ \E rest : WriteRow(t, "auto_execute",
                     [row EXCEPT !["step_visit_counts"] = Increment(row.step_visit_counts, o.at)], rest)
            BY <1>12 DEF AutoExecute
        <2> QED BY <2>1, UnchangedStoreStep, ColumnStoreStep
    <1> QED BY <1>1, <1>2, <1>3, <1>4, <1>5, <1>6, <1>7, <1>8, <1>9, <1>10, <1>11, <1>12 DEF Work

\* The tools implement the session store: every step of every interleaving of
\* any number of threads is a transaction of SessionStore on the columns it
\* keeps (or changes none), so what holds of every behaviour of the store holds
\* of the server.
THEOREM ToolsImplementStore == Spec => ImplementsStore
    <1>1. Init => Store!Init
        BY DEF Init, Store!Init, Now
    <1>2. IInv /\ [Next]_vars => [Store!Next]_(Store!vars)
        <2> SUFFICES ASSUME IInv, [Next]_vars PROVE [Store!Next]_(Store!vars)
            OBVIOUS
        <2>1. CASE UNCHANGED vars
            BY <2>1 DEF vars, Store!vars, Now
        <2>2. CASE Next
            <3>1. StoreStep
                BY <2>2, CallStoreStep, WorkStoreStep, UnchangedStoreStep DEF Next, Restart
            <3> QED BY <3>1 DEF StoreStep, View, Store!vars, Now
        <2> QED BY <2>1, <2>2
    <1> QED BY <1>1, <1>2, Invariant, PTL DEF Spec, Store!Spec, ImplementsStore

---------------------------------------------------------------------------
\* One call at a time: the hypothesis of all that follows.
OneThread == \A t, u \in Thread : t = u

(***************************************************************************)
(* The invariant.  Frames are looked up by position, so a position says    *)
(* what parent_session_id says (InPlace), and whoever is about to create a *)
(* session has seen the position above its parent empty (CreationOK).  No  *)
(* plan moves a framed session on which a digression stands (Free).        *)
(***************************************************************************)
InPlace ==
    \A s, p \in DOMAIN stack :
        sessions[s].parent_session_id = p => /\ stack[s].root = stack[p].root
                                             /\ stack[s].depth = stack[p].depth + 1

RootsFree == \A s \in DOMAIN stack : stack[s].root \notin DOMAIN stack

Tree ==
    /\ DOMAIN stack \subseteq DOMAIN sessions
    /\ RootsFree
    /\ OneFramePerSlot
    /\ InPlace
    /\ FramedOuterParked

\* Nothing interrupted the framed session p.
Free(p) ==
    p \in DOMAIN stack =>
       \A s \in DOMAIN stack :
          sessions[s].parent_session_id = p => stack[s].frame_type # "digression"

Moves(o) ==
    \/ o.op = "auto_execute"
    \/ o.op = "update_session" /\ o.step \notin {Null, WORKFLOW_CHANGED}
MayMove(o) == Moves(o) => Free(o.sid)
MayLink(o) ==
    o.op = "set_called_session" /\ o.child \in DOMAIN stack =>
       stack[o.child].frame_type = "call"

\* A thread that is about to create a session and then does `rest`.
CreationOK(c, rest) ==
    LET parent == c.row.parent_session_id
    IN  /\ \A o \in Range(rest) :
              /\ Moves(o) => o.sid = c.sid /\ parent = Null
              /\ o.op = "set_called_session" => o.child = c.sid /\ c.type = "call"
        /\ parent # Null => TopFrames(stack, parent) = {}
        /\ parent # Null /\ c.type = "digression" /\ parent \in DOMAIN sessions =>
              sessions[parent].current_step = c.call

PlanOK(q) ==
    q # <<>> =>
    /\ Head(q).op = "push_flow" /\ Head(q).sid \in DOMAIN sessions =>
          sessions[Head(q).sid].current_step = Head(q).row.current_step
    /\ Head(q).op = "create_session" => CreationOK(Head(q), Tail(q))
    /\ Head(q).op # "create_session" => \A o \in Range(q) : MayMove(o) /\ MayLink(o)

SoloInv == Tree /\ \A t \in Thread : PlanOK(th[t])

---------------------------------------------------------------------------
(***************************************************************************)
(* Steps that create no session.                                           *)
(***************************************************************************)
Settled ==
    /\ DOMAIN sessions' \subseteq DOMAIN sessions
    /\ DOMAIN stack' \subseteq DOMAIN stack \cap DOMAIN sessions'
    /\ \A s \in DOMAIN sessions' :
          /\ sessions'[s].parent_session_id = sessions[s].parent_session_id
          /\ \/ sessions'[s].current_step \in {sessions[s].current_step, WORKFLOW_CHANGED}
             \/ Free(s)
    /\ \A s \in DOMAIN stack' :
          /\ stack'[s].root = stack[s].root /\ stack'[s].depth = stack[s].depth
          /\ stack'[s].frame_type = stack[s].frame_type
          /\ stack'[s].call_step = stack[s].call_step \/ stack[s].frame_type = "call"

LEMMA TreeKept ==
    ASSUME Tree, Settled
    PROVE  Tree'
    <1>1. DOMAIN stack' \subseteq DOMAIN sessions' /\ RootsFree'
        BY DEF Tree, Settled, RootsFree
    <1>2. OneFramePerSlot'
        BY DEF Tree, Settled, OneFramePerSlot
    <1>3. InPlace'
        BY DEF Tree, Settled, InPlace
    <1>4. FramedOuterParked'
        <2> SUFFICES ASSUME NEW s \in DOMAIN stack', NEW p,
                            p = sessions'[s].parent_session_id,
                            stack'[s].frame_type = "digression", p \in DOMAIN stack'
                     PROVE  sessions'[p].current_step \in {stack'[s].call_step, WORKFLOW_CHANGED}
            BY DEF FramedOuterParked
        <2>1. /\ s \in DOMAIN stack /\ p \in DOMAIN stack /\ p \in DOMAIN sessions'
              /\ p = sessions[s].parent_session_id
              /\ stack[s].frame_type = "digression" /\ stack'[s].call_step = stack[s].call_step
            BY DEF Settled
        <2>2. sessions[p].current_step \in {stack[s].call_step, WORKFLOW_CHANGED}
            BY <2>1 DEF Tree, FramedOuterParked
        <2>3. ~Free(p)
            BY <2>1 DEF Free
        <2>4. sessions'[p].current_step \in {sessions[p].current_step, WORKFLOW_CHANGED}
            BY <2>1, <2>3 DEF Settled
        <2> QED BY <2>1, <2>2, <2>4
    <1> QED BY <1>1, <1>2, <1>3, <1>4 DEF Tree

LEMMA FreeKept ==
    ASSUME Settled, NEW p, Free(p)
    PROVE  Free(p)'
    BY DEF Settled, Free

LEMMA PlanKept ==
    ASSUME Settled, NEW plan, IsSeq(plan),
           \A o \in Range(plan) : o.op \notin Drawing /\ MayMove(o) /\ MayLink(o)
    PROVE  PlanOK(plan)'
    <1>1. \A o \in Range(plan) : MayMove(o)' /\ MayLink(o)'
        <2> TAKE o \in Range(plan)
        <2>1. MayMove(o)'
            BY FreeKept DEF MayMove, Moves
        <2>2. MayLink(o)'
            BY DEF MayLink, Settled
        <2> QED BY <2>1, <2>2
    <1>2. plan # <<>> => Head(plan).op \notin Drawing
        BY HeadAndTail
    <1> QED BY <1>1, <1>2 DEF PlanOK, Drawing

LEMMA EmptyPlan == PlanOK(<<>>)'
    BY DEF PlanOK

\* A step of the only thread.
LEMMA OneGoesOn ==
    ASSUME OneThread, IInv, NEW t \in Thread, NEW plan, Do(t, plan), Tree', PlanOK(plan)'
    PROVE  SoloInv'
    <1>1. DOMAIN th = Thread
        BY DEF IInv, ThreadsOK
    <1>2. th'[t] = plan /\ \A u \in Thread : u = t
        BY <1>1 DEF Do, OneThread
    <1>3. \A u \in Thread : PlanOK(th[u])'
        BY <1>2
    <1> QED BY <1>3 DEF SoloInv

LEMMA StillSettled ==
    ASSUME Tree, UnchangedStore
    PROVE  Settled
    BY DEF Tree, UnchangedStore, Settled

\* A step that leaves the store alone and goes on without a creation.
LEMMA GoesOnPlainly ==
    ASSUME OneThread, IInv, SoloInv, NEW t \in Thread, NEW plan, Do(t, plan), Settled,
           IsSeq(plan), \A o \in Range(plan) : o.op \notin Drawing /\ MayMove(o) /\ MayLink(o)
    PROVE  SoloInv'
    <1>1. Tree'
        BY TreeKept DEF SoloInv
    <1>2. PlanOK(plan)'
        BY PlanKept
    <1> QED BY <1>1, <1>2, OneGoesOn

---------------------------------------------------------------------------
(***************************************************************************)
(* Plans that move one session at most.                                    *)
(***************************************************************************)
Stays(plan, sid) ==
    /\ IsSeq(plan)
    /\ \A o \in Range(plan) :
          /\ o.op \notin Drawing \cup {"set_called_session"}
          /\ Moves(o) => o.sid = sid

LEMMA StaysEmpty == ASSUME NEW sid PROVE Stays(<<>>, sid)
    BY Empty DEF Stays

LEMMA StaysOne ==
    ASSUME NEW o, NEW sid, o.op \notin Drawing \cup {"set_called_session"}, Moves(o) => o.sid = sid
    PROVE  Stays(<<o>>, sid)
    BY One DEF Stays

LEMMA StaysJoined ==
    ASSUME NEW p, NEW q, NEW sid, Stays(p, sid), Stays(q, sid)
    PROVE  Stays(p \o q, sid)
    BY Joined DEF Stays

LEMMA SuitedStays ==
    ASSUME NEW plan, NEW sid, NEW wf, Suited(plan, sid, wf)
    PROVE  Stays(plan, sid)
    BY DEF Suited, Suits, Stays, Moves, Writing, Drawing

LEMMA UpdateStays ==
    ASSUME NEW sid, NEW at, NEW data
    PROVE  Stays(<<UpdateOp(sid, at, data)>>, sid)
    <1>1. PICK o : o = UpdateOp(sid, at, data)
        OBVIOUS
    <1>2. o.op = "update_session" /\ o.sid = sid
        BY <1>1 DEF UpdateOp
    <1> QED BY <1>1, <1>2, StaysOne DEF Drawing

LEMMA PlainStays ==
    ASSUME NEW s, NEW sid, NEW step, NEW wf, NEW data, NEW tolerant
    PROVE  /\ Stays(<<VisitOp(s, step)>>, sid) /\ Stays(<<HandoffOp(s, wf, data)>>, sid)
           /\ Stays(<<EscalateParentOp(s)>>, sid) /\ Stays(<<EscalateOp(s)>>, sid)
           /\ Stays(<<DeleteOp(s, tolerant)>>, sid)
           /\ Stays(<<UpdateOp(s, WORKFLOW_CHANGED, Null)>>, sid)
    <1>1. PICK a, b, c, d, e, f :
             /\ a = VisitOp(s, step) /\ b = HandoffOp(s, wf, data)
             /\ c = EscalateParentOp(s) /\ d = EscalateOp(s) /\ e = DeleteOp(s, tolerant)
             /\ f = UpdateOp(s, WORKFLOW_CHANGED, Null)
        OBVIOUS
    <1>2. \A o \in {a, b, c, d, e, f} :
             o.op \notin Drawing \cup {"set_called_session"} /\ ~Moves(o)
        BY <1>1 DEF VisitOp, HandoffOp, EscalateParentOp, EscalateOp, DeleteOp, UpdateOp,
               Moves, Drawing
    <1>3. \A o \in {a, b, c, d, e, f} : Stays(<<o>>, sid)
        BY <1>2, StaysOne
    <1> QED BY <1>1, <1>3

LEMMA ArriveStays ==
    ASSUME NEW cont \in Conts, NEW sid, NEW wf, NEW at, NEW data
    PROVE  Stays(Arrive(cont, sid, wf, at, data), sid)
    <1> DEFINE visit  == IF at = COMPLETE THEN <<>> ELSE <<VisitOp(sid, at)>>
               update == <<UpdateOp(sid, at, data)>>
               resume == IF at = COMPLETE THEN <<HandoffOp(sid, wf, data)>> ELSE <<>>
    <1>1. Stays(visit, sid) /\ Stays(resume, sid) /\ Stays(update, sid)
        BY PlainStays, StaysEmpty, UpdateStays
    <1>2. Stays(visit \o update, sid) /\ Stays(update \o visit, sid)
        BY <1>1, StaysJoined
    <1>3. Stays(visit \o update \o resume, sid)
        BY <1>1, <1>2, StaysJoined
    <1> HIDE DEF visit, update, resume
    <1>4. CASE cont = "start"
        BY <1>2, <1>4 DEF Arrive, visit, update
    <1>5. CASE cont = "submit"
        BY <1>3, <1>5 DEF Arrive, visit, update, resume
    <1>6. CASE cont = "advance"
        BY <1>2, <1>6 DEF Arrive, visit, update
    <1> QED BY <1>4, <1>5, <1>6 DEF Conts

LEMMA ProceedStays ==
    ASSUME NEW cont \in Conts, NEW sid, NEW wf, NEW at, NEW data
    PROVE  Stays(Proceed(cont, sid, wf, at, data), sid)
    <1>1. PICK o : o = AutoOp(cont, sid, wf, at, data)
        OBVIOUS
    <1>2. o.op = "auto_execute" /\ o.sid = sid
        BY <1>1 DEF AutoOp
    <1>3. Stays(<<AutoOp(cont, sid, wf, at, data)>>, sid)
        BY <1>1, <1>2, StaysOne DEF Drawing
    <1> QED BY <1>3, ArriveStays DEF Proceed

\* A plan for a session on which no digression stands.
LEMMA OneMoves ==
    ASSUME OneThread, IInv, SoloInv, NEW t \in Thread, NEW plan, Do(t, plan), Settled,
           NEW sid, Stays(plan, sid), Free(sid)
    PROVE  SoloInv'
    BY GoesOnPlainly DEF Stays, MayMove, MayLink

\* A plan that moves nothing.
LEMMA NoneMoves ==
    ASSUME OneThread, IInv, SoloInv, NEW t \in Thread, NEW plan, Do(t, plan), Settled,
           \A sid : Stays(plan, sid)
    PROVE  SoloInv'
    <1>1. PICK sid : sid \notin DOMAIN stack
        <2>1. Null \notin DOMAIN stack
            BY StoreAssumption DEF IInv, StoreOK
        <2> QED BY <2>1
    <1>2. Free(sid)
        BY <1>1 DEF Free
    <1> QED BY <1>2, OneMoves

\* What a thread has left after an operation that creates no session.
LEMMA RestMoves ==
    ASSUME OneThread, IInv, SoloInv, NEW t \in Thread, th[t] # <<>>,
           Head(th[t]).op # "create_session", Do(t, Tail(th[t])), Settled
    PROVE  SoloInv'
    <1>1. PICK q : q = th[t]
        OBVIOUS
    <1>2. WorkOK(q) /\ PlanOK(q)
        BY <1>1 DEF IInv, ThreadsOK, SoloInv
    <1>3. IsSeq(Tail(q)) /\ Range(Tail(q)) \subseteq Range(q)
        BY <1>1, <1>2, HeadAndTail DEF WorkOK
    <1>4. \A o \in Range(Tail(q)) : o.op \notin Drawing /\ MayMove(o) /\ MayLink(o)
        BY <1>1, <1>2, <1>3 DEF WorkOK, PlanOK
    <1> QED BY <1>1, <1>3, <1>4, GoesOnPlainly

---------------------------------------------------------------------------
(***************************************************************************)
(* The calls.                                                              *)
(***************************************************************************)
LEMMA StartWorkflowSolo ==
    ASSUME OneThread, IInv, SoloInv, NEW t \in Thread, NEW w \in Workflow, NEW sid \in Sid,
           StartWorkflow(t, w, sid)
    PROVE  SoloInv'
    <1> DEFINE wf   == Definition[w][live[w]]
               auto == AutoOp("start", sid, wf, FirstStep(wf).id, <<>>)
    <1>1. PICK c, visit, a, more :
             /\ c = CreateOp(sid, NewRow(w, Null), "call", Null, Null)
             /\ visit = VisitOp(sid, FirstStep(wf).id)
             /\ a = auto
             /\ more = IF FirstStep(wf).kind = "mcp" THEN <<auto>> ELSE <<>>
        OBVIOUS
    <1>2. Do(t, <<c, visit>> \o more) /\ UnchangedStore
        BY <1>1 DEF StartWorkflow
    <1>3. c.op = "create_session" /\ c.sid = sid /\ c.row.parent_session_id = Null
        BY <1>1 DEF CreateOp, NewRow
    <1>4. visit.op = "increment_visit" /\ a.op = "auto_execute" /\ a.sid = sid
        BY <1>1 DEF VisitOp, AutoOp
    <1>5. IsSeq(more) /\ Range(more) \subseteq {a}
        BY <1>1, One, Empty
    <1> HIDE DEF auto, wf
    <1>6. PICK q : q = <<c, visit>> \o more
        OBVIOUS
    <1>7. /\ q # <<>> /\ Head(q) = c
          /\ IsSeq(Tail(q)) /\ Range(Tail(q)) = {visit} \cup Range(more)
        BY <1>5, <1>6, HeadOfJoined
    <1>8. \A o \in Range(Tail(q)) : o = visit \/ o = a
        BY <1>5, <1>7
    <1>9. \A o \in Range(Tail(q)) : (Moves(o) => o.sid = sid) /\ o.op # "set_called_session"
        BY <1>4, <1>8 DEF Moves
    <1>10. CreationOK(c, Tail(q))'
        BY <1>3, <1>9 DEF CreationOK
    <1>11. PlanOK(q)'
        BY <1>3, <1>7, <1>10 DEF PlanOK
    <1>12. Tree'
        BY <1>2, StillSettled, TreeKept DEF SoloInv
    <1> QED BY <1>2, <1>6, <1>11, <1>12, OneGoesOn

\* A call of one operation that writes nothing by itself.
LEMMA CallSolo ==
    ASSUME OneThread, IInv, SoloInv, NEW t \in Thread, NEW o, Do(t, <<o>>), UnchangedStore,
           o.op \notin {"create_session", "set_called_session", "update_session", "auto_execute"},
           o.op = "push_flow" => o.row = sessions[o.sid]
    PROVE  SoloInv'
    <1>1. <<o>> # <<>> /\ Head(<<o>>) = o /\ Range(<<o>>) = {o}
        BY One
    <1>2. MayMove(o)' /\ MayLink(o)'
        BY DEF MayMove, Moves, MayLink
    <1>3. UNCHANGED sessions
        BY DEF UnchangedStore
    <1>4. PlanOK(<<o>>)'
        BY <1>1, <1>2, <1>3 DEF PlanOK
    <1>5. Tree'
        BY StillSettled, TreeKept DEF SoloInv
    <1> QED BY <1>4, <1>5, OneGoesOn

LEMMA ResolveMismatchSolo ==
    ASSUME OneThread, IInv, SoloInv, NEW t \in Thread, NEW sid, ResolveMismatch(t, sid)
    PROVE  SoloInv'
    <1>1. Do(t, ThenOn(sid, <<>>)) /\ Settled
        BY StillSettled DEF ResolveMismatch, SoloInv
    <1>2. ASSUME NEW s PROVE Stays(ThenOn(sid, <<>>), s)
        BY PlainStays, StaysEmpty DEF ThenOn
    <1> QED BY <1>1, <1>2, NoneMoves

LEMMA CallsSolo ==
    ASSUME OneThread, IInv, SoloInv, NEW t \in Thread, Call(t)
    PROVE  SoloInv'
    <1>1. CASE \E w \in Workflow, sid \in Sid : StartWorkflow(t, w, sid)
        BY <1>1, StartWorkflowSolo
    <1>2. CASE \E sid \in Sid : ResolveMismatch(t, sid)
        BY <1>2, ResolveMismatchSolo
    <1>3. ASSUME NEW tool, NEW sid, NEW call, Resolved(t, tool, sid, call),
                 call.op \notin {"create_session", "set_called_session", "update_session",
                                 "auto_execute"},
                 call.op = "push_flow" => call.row = sessions[call.sid]
          PROVE  SoloInv'
        BY <1>3, CallSolo DEF Resolved
    <1>4. CASE \E sid \in DOMAIN sessions, content \in Content :
                 \E branch \in StepNames \cup {Null}, art \in ArtifactNames \cup {Null} :
                    SubmitStep(t, sid, content, branch, art)
        BY <1>3, <1>4 DEF SubmitStep
    <1>5. CASE \E sid \in DOMAIN sessions, step \in StepNames : ReviseStep(t, sid, step)
        BY <1>3, <1>5 DEF ReviseStep
    <1>6. CASE \E sid \in DOMAIN sessions, child \in Sid : EnterSubWorkflow(t, sid, child)
        BY <1>3, <1>6 DEF EnterSubWorkflow
    <1>7. CASE \E sid \in DOMAIN sessions, child \in Sid, w \in Workflow :
                 PushFlow(t, sid, w, child)
        BY <1>3, <1>7 DEF PushFlow
    <1>8. CASE \E sid \in DOMAIN sessions : PopFlow(t, sid)
        BY <1>3, <1>8 DEF PopFlow
    <1>9. CASE \E sid \in DOMAIN sessions : DeleteSession(t, sid)
        <2>1. PICK sid : Do(t, <<DeleteOp(sid, FALSE)>>) /\ UnchangedStore
            BY <1>9 DEF DeleteSession
        <2>2. PICK o : o = DeleteOp(sid, FALSE)
            OBVIOUS
        <2>3. o.op = "delete_session"
            BY <2>2 DEF DeleteOp
        <2> QED BY <2>1, <2>2, <2>3, CallSolo
    <1> QED BY <1>1, <1>2, <1>4, <1>5, <1>6, <1>7, <1>8, <1>9 DEF Call

---------------------------------------------------------------------------
(***************************************************************************)
(* The decisions.                                                          *)
(***************************************************************************)
LEMMA FreeWhenClear ==
    ASSUME Tree, NEW p, TopFrames(stack, p) = {}
    PROVE  Free(p)
    <1> SUFFICES ASSUME p \in DOMAIN stack, NEW s \in DOMAIN stack,
                        sessions[s].parent_session_id = p
                 PROVE  FALSE
        BY DEF Free
    <1>1. stack[s].root = stack[p].root /\ stack[s].depth = stack[p].depth + 1
        BY DEF Tree, InPlace
    <1>2. s \in TopFrames(stack, p)
        BY <1>1 DEF TopFrames, ChildSlot, FramesAt
    <1> QED BY <1>2

\* A call stands on the session below it, so no digression does.
LEMMA FreeBelowCall ==
    ASSUME Tree, StoreOK, NEW child \in DOMAIN stack, stack[child].frame_type = "call",
           NEW p \in ParentsOf(stack, child)
    PROVE  Free(p)
    <1>1. CASE stack[child].depth = 1
        BY <1>1 DEF ParentsOf, Free, Tree, RootsFree
    <1>2. CASE stack[child].depth # 1
        <2>1. /\ p \in DOMAIN stack /\ stack[p].root = stack[child].root
              /\ stack[p].depth = stack[child].depth - 1
            BY <1>2 DEF ParentsOf, FramesAt
        <2>2. stack[child].depth \in Nat
            BY DEF StoreOK, Frame
        <2>3. stack[p].depth + 1 = stack[child].depth
            BY <2>1, <2>2
        <2>4. ASSUME NEW s \in DOMAIN stack, sessions[s].parent_session_id = p
              PROVE  s = child
            <3>1. stack[s].root = stack[p].root /\ stack[s].depth = stack[p].depth + 1
                BY <2>1, <2>4 DEF Tree, InPlace
            <3> QED BY <2>1, <2>3, <3>1 DEF Tree, OneFramePerSlot
        <2> QED BY <2>4 DEF Free
    <1> QED BY <1>1, <1>2

LEMMA DecideSubmitStepSolo ==
    ASSUME OneThread, IInv, SoloInv, NEW t \in Thread, DecideSubmitStep(t)
    PROVE  SoloInv'
    <1>1. PICK o : o = Head(th[t])
        OBVIOUS
    <1> DEFINE plan == SubmitPlan(o.sid, o.row, o.content, o.branch, o.art)
    <1>2. /\ th[t] # <<>> /\ o.op = "submit_step" /\ Do(t, plan) /\ UnchangedStore
        BY <1>1 DEF DecideSubmitStep, Pending, Decide
    <1>3. Settled
        BY <1>2, StillSettled DEF SoloInv
    <1>4. o.sid \in minted /\ SnapshotOK(o)
        BY <1>1, <1>2, SnapshotFits
    <1>5. RowOK(o.row) /\ o.row.current_step \in StepIds(WorkflowOf(o.row))
        BY <1>2, <1>4 DEF SnapshotOK
    <1>6. Stays(plan, o.sid)
        BY <1>4, <1>5, SubmitSuits, SuitedStays
    <1>7. CASE TopFrames(stack, o.sid) = {}
        <2>1. Free(o.sid)
            BY <1>7, FreeWhenClear DEF SoloInv
        <2> HIDE DEF plan
        <2> QED BY <1>2, <1>3, <1>6, <2>1, OneMoves
    <1>8. CASE TopFrames(stack, o.sid) # {}
        <2>1. plan = <<>>
            BY <1>8 DEF SubmitPlan
        <2> QED BY <1>2, <1>3, <2>1, StaysEmpty, NoneMoves
    <1> QED BY <1>7, <1>8

LEMMA DecideReviseStepSolo ==
    ASSUME OneThread, IInv, SoloInv, NEW t \in Thread, DecideReviseStep(t)
    PROVE  SoloInv'
    <1>1. PICK o : o = Head(th[t])
        OBVIOUS
    <1> DEFINE wf       == WorkflowOf(o.row)
               step     == StepAt(wf, o.step)
               children == TopFrames(stack, o.sid)
    <1>2. th[t] # <<>> /\ o.op = "revise_step"
        BY <1>1 DEF DecideReviseStep, Pending
    <1>3. PICK child, plan :
              /\ child \in IF children = {} THEN {Null} ELSE children
              /\ plan \in {RevisePlan(o.sid, wf, step, child), <<>>}
              /\ o.sid \in DOMAIN stack => plan = <<>>
              /\ Do(t, plan) /\ UnchangedStore
        <2>1. PICK child \in IF children = {} THEN {Null} ELSE children :
                 Decide(t, IF /\ o.sid \notin DOMAIN stack
                              /\ \/ o.step \in DOMAIN o.row.step_data
                                 \/ step.kind = "call" /\ children # {}
                           THEN RevisePlan(o.sid, wf, step, child) ELSE <<>>)
            BY <1>1 DEF DecideReviseStep
        <2> HIDE DEF wf, step, children
        <2> QED BY <2>1 DEF Decide
    <1>4. Settled
        BY <1>3, StillSettled DEF SoloInv
    <1>5. o.sid \in minted /\ SnapshotOK(o)
        BY <1>1, <1>2, SnapshotFits
    <1>6. WellFormed(wf) /\ o.step \in StepIds(wf)
        BY <1>2, <1>5, WorkflowLoaded DEF SnapshotOK
    <1>7. step.id \in StepIds(wf)
        BY <1>6, FoundStep
    <1>8. child \in minted \cup {Null}
        BY <1>3, TopFramesMinted DEF IInv
    <1>9. Stays(RevisePlan(o.sid, wf, step, child), o.sid)
        BY <1>5, <1>7, <1>8, ReviseSuits, SuitedStays
    <1> HIDE DEF wf, step, children
    <1>10. CASE plan = <<>>
        BY <1>3, <1>4, <1>10, StaysEmpty, NoneMoves
    <1>11. CASE plan # <<>>
        <2>1. Free(o.sid) /\ Stays(plan, o.sid)
            BY <1>3, <1>9, <1>11 DEF Free
        <2> QED BY <1>3, <1>4, <2>1, OneMoves
    <1> QED BY <1>10, <1>11

\* The two decisions that lead to a creation.
LEMMA CreationDecided ==
    ASSUME OneThread, IInv, SoloInv, NEW t \in Thread, UnchangedStore,
           NEW q, Do(t, q), q # <<>>, Head(q).op = "create_session",
           NEW parent, parent = Head(q).row.parent_session_id, TopFrames(stack, parent) = {},
           \A o \in Range(Tail(q)) :
              /\ ~Moves(o)
              /\ o.op = "set_called_session" => o.child = Head(q).sid /\ Head(q).type = "call",
           Head(q).type = "digression" /\ parent \in DOMAIN sessions =>
              sessions[parent].current_step = Head(q).call
    PROVE  SoloInv'
    <1>1. UNCHANGED <<sessions, stack>>
        BY DEF UnchangedStore
    <1>2. CreationOK(Head(q), Tail(q))
        BY DEF CreationOK
    <1>3. CreationOK(Head(q), Tail(q))'
        BY <1>1, <1>2 DEF CreationOK
    <1>4. PlanOK(q)'
        BY <1>3 DEF PlanOK
    <1>5. Tree'
        BY StillSettled, TreeKept DEF SoloInv
    <1> QED BY <1>4, <1>5, OneGoesOn

LEMMA DecideEnterSubWorkflowSolo ==
    ASSUME OneThread, IInv, SoloInv, NEW t \in Thread, DecideEnterSubWorkflow(t)
    PROVE  SoloInv'
    <1>1. PICK o : o = Head(th[t])
        OBVIOUS
    <1> DEFINE step == StepAt(WorkflowOf(o.row), o.row.current_step)
               row  == NewRow(step.call, o.sid)
    <1>2. PICK c, v, l :
             /\ c = CreateOp(o.child, row, "call", Null, Null)
             /\ v = VisitOp(o.child, row.current_step)
             /\ l = LinkOp(o.sid, o.child, step.id)
        OBVIOUS
    <1>3. PICK q : /\ Do(t, q) /\ UnchangedStore
                   /\ \/ q = <<>>
                      \/ q = <<c, v, l>> /\ TopFrames(stack, o.sid) = {}
        BY <1>1, <1>2 DEF DecideEnterSubWorkflow, Decide
    <1>4. /\ c.op = "create_session" /\ c.sid = o.child /\ c.type = "call"
          /\ c.row.parent_session_id = o.sid
        BY <1>2 DEF CreateOp, NewRow
    <1>5. v.op = "increment_visit" /\ l.op = "set_called_session" /\ l.child = o.child
        BY <1>2 DEF VisitOp, LinkOp
    <1> HIDE DEF row, step
    <1>6. CASE q = <<>>
        <2>1. Settled
            BY <1>3, StillSettled DEF SoloInv
        <2> QED BY <1>3, <1>6, <2>1, StaysEmpty, NoneMoves
    <1>7. CASE q = <<c, v, l>> /\ TopFrames(stack, o.sid) = {}
        <2>1. q # <<>> /\ Head(q) = c /\ Tail(q) = <<v, l>>
            BY <1>7, Three
        <2>2. Range(Tail(q)) = {v, l}
            BY <2>1, Two
        <2>3. \A p \in Range(Tail(q)) : ~Moves(p) /\ (p.op = "set_called_session" => p.child = c.sid)
            BY <1>4, <1>5, <2>2 DEF Moves
        <2> QED BY <1>3, <1>4, <1>7, <2>1, <2>3, CreationDecided
    <1> QED BY <1>3, <1>6, <1>7

LEMMA DecidePushFlowSolo ==
    ASSUME OneThread, IInv, SoloInv, NEW t \in Thread, DecidePushFlow(t)
    PROVE  SoloInv'
    <1>1. PICK o : o = Head(th[t])
        OBVIOUS
    <1> DEFINE row == NewRow(o.w, o.sid)
    <1>2. PICK c, v :
             /\ c = CreateOp(o.child, row, "digression", o.row.current_step, MaxStackDepth)
             /\ v = VisitOp(o.child, row.current_step)
        OBVIOUS
    <1>3. PICK q : /\ Do(t, q) /\ UnchangedStore
                   /\ \/ q = <<>>
                      \/ q = <<c, v>> /\ TopFrames(stack, o.sid) = {}
        BY <1>1, <1>2 DEF DecidePushFlow, Decide
    <1>4. /\ c.op = "create_session" /\ c.type = "digression" /\ c.call = o.row.current_step
          /\ c.row.parent_session_id = o.sid
        BY <1>2 DEF CreateOp, NewRow
    <1>5. v.op = "increment_visit"
        BY <1>2 DEF VisitOp
    <1>6. o.sid \in DOMAIN sessions => sessions[o.sid].current_step = o.row.current_step
        BY <1>1 DEF SoloInv, PlanOK, DecidePushFlow, Pending
    <1> HIDE DEF row
    <1>7. CASE q = <<>>
        <2>1. Settled
            BY <1>3, StillSettled DEF SoloInv
        <2> QED BY <1>3, <1>7, <2>1, StaysEmpty, NoneMoves
    <1>8. CASE q = <<c, v>> /\ TopFrames(stack, o.sid) = {}
        <2>1. q # <<>> /\ Head(q) = c /\ Tail(q) = <<v>>
            BY <1>8, Two
        <2>2. Range(Tail(q)) = {v}
            BY <2>1, One
        <2>3. \A p \in Range(Tail(q)) : ~Moves(p) /\ p.op # "set_called_session"
            BY <1>5, <2>2 DEF Moves
        <2> QED BY <1>3, <1>4, <1>6, <1>8, <2>1, <2>3, CreationDecided
    <1> QED BY <1>3, <1>7, <1>8

LEMMA ResumeStays ==
    ASSUME NEW child, NEW outer, NEW sid
    PROVE  Stays(ResumePlan(child, outer), sid)
    BY PlainStays, StaysEmpty DEF ResumePlan, ThenOn

LEMMA DecidePopFlowSolo ==
    ASSUME OneThread, IInv, SoloInv, NEW t \in Thread, DecidePopFlow(t)
    PROVE  SoloInv'
    <1>1. PICK plan : /\ Do(t, plan) /\ UnchangedStore
                      /\ plan = <<>> \/ \E sid, p : plan = ResumePlan(sid, p)
        BY DEF DecidePopFlow, Decide
    <1>2. \A s : Stays(plan, s)
        BY <1>1, ResumeStays, StaysEmpty
    <1>3. Settled
        BY <1>1, StillSettled DEF SoloInv
    <1> QED BY <1>1, <1>2, <1>3, NoneMoves

LEMMA DecideAutoResumeSolo ==
    ASSUME OneThread, IInv, SoloInv, NEW t \in Thread, DecideAutoResume(t)
    PROVE  SoloInv'
    <1>1. PICK o : o = Head(th[t])
        OBVIOUS
    <1> DEFINE Handoff(p) == ThenOn(p, PropagatePlan(o.sid, o.wf, o.data, p))
    <1>2. o.sid \in minted
        BY <1>1, HeadOK DEF DecideAutoResume, Pending
    <1>3. PICK plan :
             /\ Do(t, plan) /\ UnchangedStore
             /\ \/ plan = <<>>
                \/ \E p \in ParentsOf(stack, o.sid) :
                      \/ plan = ResumePlan(o.sid, p)
                      \/ plan = Handoff(p) /\ stack[o.sid].frame_type # "digression"
        BY <1>1 DEF DecideAutoResume, Decide
    <1>4. Settled
        BY <1>3, StillSettled DEF SoloInv
    <1>5. CASE \A s : Stays(plan, s)
        BY <1>3, <1>4, <1>5, NoneMoves
    <1>6. ASSUME NEW p \in ParentsOf(stack, o.sid), plan = Handoff(p),
                 stack[o.sid].frame_type # "digression"
          PROVE  SoloInv'
        <2>1. p \in minted /\ StoreOK /\ o.sid \in DOMAIN stack
            BY ParentsMinted DEF IInv, ParentsOf
        <2>2. Resolve(p) = "ok" => RowOK(sessions[p])
            BY <2>1 DEF Resolve, StoreOK
        <2>3. Resolve(p) = "ok" =>
                 Suited(PropagatePlan(o.sid, o.wf, o.data, p), p, WorkflowOf(sessions[p]))
            BY <1>2, <2>1, <2>2, PropagateSuits
        <2>4. Stays(Handoff(p), p)
            BY <2>3, SuitedStays, PlainStays, StaysEmpty DEF ThenOn
        <2>5. stack[o.sid].frame_type = "call"
            BY <1>6, <2>1 DEF StoreOK, Frame
        <2>6. Free(p)
            BY <1>6, <2>1, <2>5, FreeBelowCall DEF SoloInv
        <2> HIDE DEF Handoff
        <2> QED BY <1>3, <1>4, <1>6, <2>4, <2>6, OneMoves
    <1> HIDE DEF Handoff
    <1>7. CASE plan = <<>> \/ \E p : plan = ResumePlan(o.sid, p)
        BY <1>5, <1>7, ResumeStays, StaysEmpty
    <1> QED BY <1>3, <1>6, <1>7

LEMMA DecideEscalateParentSolo ==
    ASSUME OneThread, IInv, SoloInv, NEW t \in Thread, DecideEscalateParent(t)
    PROVE  SoloInv'
    <1>1. PICK plan : /\ Do(t, plan) /\ UnchangedStore
                      /\ plan = <<>> \/ \E p : plan = <<EscalateOp(p)>>
        BY DEF DecideEscalateParent, Decide
    <1>2. \A s : Stays(plan, s)
        BY <1>1, PlainStays, StaysEmpty
    <1>3. Settled
        BY <1>1, StillSettled DEF SoloInv
    <1> QED BY <1>1, <1>2, <1>3, NoneMoves

---------------------------------------------------------------------------
(***************************************************************************)
(* The transactions.                                                       *)
(***************************************************************************)
LEMMA RowSettled ==
    ASSUME Tree, NEW sid \in DOMAIN sessions, NEW row, UNCHANGED stack,
           sessions' = [sessions EXCEPT ![sid] = row],
           row.parent_session_id = sessions[sid].parent_session_id,
           row.current_step \in {sessions[sid].current_step, WORKFLOW_CHANGED} \/ Free(sid)
    PROVE  Settled
    <1>1. /\ DOMAIN sessions' = DOMAIN sessions /\ sessions'[sid] = row
          /\ \A s \in DOMAIN sessions \ {sid} : sessions'[s] = sessions[s]
        OBVIOUS
    <1>2. \A s \in DOMAIN sessions' :
             /\ sessions'[s].parent_session_id = sessions[s].parent_session_id
             /\ \/ sessions'[s].current_step \in {sessions[s].current_step, WORKFLOW_CHANGED}
                \/ Free(s)
        BY <1>1
    <1> QED BY <1>1, <1>2 DEF Settled, Tree

\* A write of a column that says neither where a session stands nor whose
\* child it is.
LEMMA ColumnSettled ==
    ASSUME IInv, SoloInv, NEW t \in Thread, NEW name, NEW col, NEW v, NEW rest,
           col \notin {"current_step", "parent_session_id"},
           WriteRow(t, name, [sessions[Head(th[t]).sid] EXCEPT ![col] = v], rest)
    PROVE  Settled /\ Do(t, rest) /\ th[t] # <<>> /\ Head(th[t]).op = name
    <1>1. PICK sid, row : sid = Head(th[t]).sid /\ row = [sessions[sid] EXCEPT ![col] = v]
        OBVIOUS
    <1>2. /\ sid \in DOMAIN sessions /\ UNCHANGED stack
          /\ sessions' = [sessions EXCEPT ![sid] = row]
          /\ Do(t, rest) /\ th[t] # <<>> /\ Head(th[t]).op = name
        BY <1>1, WriteRowEffect
    <1>3. DOMAIN sessions[sid] = Column
        BY <1>2 DEF IInv, StoreOK, RowOK
    <1>4. /\ row.parent_session_id = sessions[sid].parent_session_id
          /\ row.current_step = sessions[sid].current_step
        BY <1>1, <1>3 DEF Column
    <1>5. Settled
        BY <1>2, <1>4, RowSettled DEF SoloInv
    <1> QED BY <1>2, <1>5

LEMMA UpdateSessionSolo ==
    ASSUME OneThread, IInv, SoloInv, NEW t \in Thread, TransactUpdateSession(t)
    PROVE  SoloInv'
    <1>1. PICK o, row : o = Head(th[t]) /\ row = sessions[o.sid]
        OBVIOUS
    <1>2. WriteRow(t, "update_session", UpdatedRow(row, o), Tail(th[t]))
        BY <1>1 DEF TransactUpdateSession, UpdatedRow
    <1>3. /\ th[t] # <<>> /\ o.op = "update_session" /\ o.sid \in DOMAIN sessions
          /\ sessions' = [sessions EXCEPT ![o.sid] = UpdatedRow(row, o)]
          /\ UNCHANGED stack /\ Do(t, Tail(th[t]))
        BY <1>1, <1>2, WriteRowEffect
    <1>4. RowOK(row)
        BY <1>1, <1>3 DEF IInv, StoreOK
    <1>5. PICK new : new = UpdatedRow(row, o)
        OBVIOUS
    <1>6. /\ new.parent_session_id = row.parent_session_id
          /\ new.current_step = IF o.step = Null THEN row.current_step ELSE o.step
        BY <1>4, <1>5, UpdatedColumns
    <1>7. o \in Range(th[t])
        BY <1>1, <1>3, HeadAndTail DEF IInv, ThreadsOK, WorkOK
    <1>8. Moves(o) => Free(o.sid)
        BY <1>1, <1>3, <1>7 DEF SoloInv, PlanOK, MayMove
    <1>9. new.current_step \in {row.current_step, WORKFLOW_CHANGED} \/ Free(o.sid)
        BY <1>3, <1>6, <1>8 DEF Moves
    <1>10. Settled
        BY <1>1, <1>3, <1>5, <1>6, <1>9, RowSettled DEF SoloInv
    <1> QED BY <1>1, <1>3, <1>10, RestMoves

\* The five transactions that write one other column.
LEMMA ColumnSolo ==
    ASSUME OneThread, IInv, SoloInv, NEW t \in Thread, NEW name, NEW col, NEW v,
           col \notin {"current_step", "parent_session_id"}, name # "create_session",
           WriteRow(t, name, [sessions[Head(th[t]).sid] EXCEPT ![col] = v], Tail(th[t]))
    PROVE  SoloInv'
    <1>1. /\ Settled /\ Do(t, Tail(th[t])) /\ th[t] # <<>>
          /\ Head(th[t]).op # "create_session"
        BY ColumnSettled
    <1> QED BY <1>1, RestMoves

LEMMA IncrementRetrySolo ==
    ASSUME OneThread, IInv, SoloInv, NEW t \in Thread, TransactIncrementRetry(t)
    PROVE  SoloInv'
    <1>1. PICK o : o = Head(th[t])
        OBVIOUS
    <1>2. PICK v, row, col :
             /\ v = Increment(sessions[o.sid].retry_counts, o.step)
             /\ row = [sessions[o.sid] EXCEPT !.retry_counts = Increment(@, o.step)]
             /\ col = "retry_counts"
        OBVIOUS
    <1>3. row = [sessions[o.sid] EXCEPT ![col] = v]
        BY <1>2
    <1>4. PICK rest : /\ rest = IF row.retry_counts[o.step] >= o.max
                                THEN <<EscalateParentOp(o.sid)>> ELSE <<>>
                      /\ WriteRow(t, "increment_retry", row, rest)
        BY <1>1, <1>2 DEF TransactIncrementRetry
    <1>5. Settled /\ Do(t, rest)
        <2>1. col \notin {"current_step", "parent_session_id"}
            BY <1>2
        <2> QED BY <1>1, <1>3, <1>4, <2>1, ColumnSettled
    <1>6. \A s : Stays(rest, s)
        BY <1>4, PlainStays, StaysEmpty
    <1> QED BY <1>5, <1>6, NoneMoves

LEMMA TouchedSettled ==
    ASSUME IInv, Tree, NEW sid \in DOMAIN sessions,
           sessions' = [sessions EXCEPT ![sid].updated_at = Now],
           DOMAIN stack' \subseteq DOMAIN stack,
           \A s \in DOMAIN stack' :
              /\ stack'[s].root = stack[s].root /\ stack'[s].depth = stack[s].depth
              /\ stack'[s].frame_type = stack[s].frame_type
              /\ stack'[s].call_step = stack[s].call_step \/ stack[s].frame_type = "call"
    PROVE  Settled
    <1>1. PICK row : row = [sessions[sid] EXCEPT !.updated_at = Now]
        OBVIOUS
    <1>2. DOMAIN sessions[sid] = Column
        BY DEF IInv, StoreOK, RowOK
    <1>3. /\ row.parent_session_id = sessions[sid].parent_session_id
          /\ row.current_step = sessions[sid].current_step
        BY <1>1, <1>2 DEF Column
    <1>4. /\ DOMAIN sessions' = DOMAIN sessions /\ sessions'[sid] = row
          /\ \A s \in DOMAIN sessions \ {sid} : sessions'[s] = sessions[s]
        BY <1>1
    <1>5. \A s \in DOMAIN sessions' :
             /\ sessions'[s].parent_session_id = sessions[s].parent_session_id
             /\ sessions'[s].current_step = sessions[s].current_step
        BY <1>3, <1>4
    <1> QED BY <1>4, <1>5 DEF Settled, Tree

LEMMA SetCalledSettled ==
    ASSUME IInv, SoloInv, NEW t \in Thread, TransactSetCalledSession(t)
    PROVE  Settled
    <1>1. PICK o : o = Head(th[t])
        OBVIOUS
    <1>2. /\ th[t] # <<>> /\ o.op = "set_called_session" /\ o.sid \in DOMAIN sessions
          /\ sessions' = [sessions EXCEPT ![o.sid].updated_at = Now]
          /\ stack' = IF o.child \in DOMAIN stack
                      THEN [stack EXCEPT ![o.child].call_step = o.call] ELSE stack
          /\ Do(t, Tail(th[t]))
        <2>1. PICK new : new = LinkChild(db, o.sid, o.child, o.call, Now)
            OBVIOUS
        <2>2. Transact(t, "set_called_session", new, Tail(th[t]))
            BY <1>1, <2>1 DEF TransactSetCalledSession
        <2>3. /\ new.sessions = [sessions EXCEPT ![o.sid].updated_at = Now]
              /\ new.stack = IF o.child \in DOMAIN stack
                             THEN [stack EXCEPT ![o.child].call_step = o.call] ELSE stack
            BY <2>1 DEF LinkChild, db
        <2> QED BY <1>1, <2>2, <2>3, TransactEffect
    <1>3. o \in Range(th[t])
        BY <1>1, <1>2, HeadAndTail DEF IInv, ThreadsOK, WorkOK
    <1>4. o.child \in DOMAIN stack => stack[o.child].frame_type = "call"
        BY <1>1, <1>2, <1>3 DEF SoloInv, PlanOK, MayLink
    <1>5. /\ DOMAIN stack' = DOMAIN stack
          /\ \A s \in DOMAIN stack' :
                /\ stack'[s].root = stack[s].root /\ stack'[s].depth = stack[s].depth
                /\ stack'[s].frame_type = stack[s].frame_type
                /\ stack'[s].call_step = stack[s].call_step \/ stack[s].frame_type = "call"
        <2>1. CASE o.child \notin DOMAIN stack
            BY <1>2, <2>1
        <2>2. CASE o.child \in DOMAIN stack
            <3>1. PICK frame : frame = [stack[o.child] EXCEPT !.call_step = o.call]
                OBVIOUS
            <3>2. stack[o.child] \in Frame
                BY <2>2 DEF IInv, StoreOK
            <3>3. /\ frame.root = stack[o.child].root /\ frame.depth = stack[o.child].depth
                  /\ frame.frame_type = stack[o.child].frame_type
                BY <3>1, <3>2 DEF Frame
            <3>4. stack' = [stack EXCEPT ![o.child] = frame]
                BY <1>2, <2>2, <3>1
            <3> QED BY <1>4, <2>2, <3>3, <3>4
        <2> QED BY <2>1, <2>2
    <1> QED BY <1>2, <1>5, TouchedSettled DEF SoloInv

LEMMA ClearCalledSettled ==
    ASSUME IInv, SoloInv, NEW t \in Thread, TransactClearCalledSession(t)
    PROVE  Settled
    <1>1. PICK o : o = Head(th[t])
        OBVIOUS
    <1>2. /\ th[t] # <<>> /\ o.op = "clear_called_session" /\ o.sid \in DOMAIN sessions
          /\ sessions' = [sessions EXCEPT ![o.sid].updated_at = Now]
          /\ stack' = Without(stack, TopFrames(stack, o.sid))
          /\ Do(t, Tail(th[t]))
        BY <1>1, TransactEffect DEF TransactClearCalledSession, UnlinkChild, db
    <1>3. DOMAIN stack' \subseteq DOMAIN stack /\ \A s \in DOMAIN stack' : stack'[s] = stack[s]
        BY <1>2 DEF Without, Restrict
    <1> QED BY <1>2, <1>3, TouchedSettled DEF SoloInv

LEMMA DeleteSettled ==
    ASSUME IInv, SoloInv, NEW t \in Thread, TransactDeleteSession(t)
    PROVE  Settled /\ \A s \in DOMAIN sessions' : sessions'[s] = sessions[s]
    <1>1. PICK o : o = Head(th[t])
        OBVIOUS
    <1> DEFINE new == DeleteSessions(db, {o.sid})
    <1>2. new.sessions = Without(sessions, {o.sid}) /\ new.stack = Without(stack, {o.sid})
        BY DEF DeleteSessions, db
    <1> HIDE DEF new
    <1>3. Transact(t, "delete_session", new, Tail(th[t]))
        BY <1>1 DEF TransactDeleteSession, new
    <1>4. /\ th[t] # <<>> /\ o.op = "delete_session"
          /\ sessions' = Without(sessions, {o.sid}) /\ stack' = Without(stack, {o.sid})
          /\ Do(t, Tail(th[t]))
        BY <1>1, <1>2, <1>3, TransactEffect
    <1>5. /\ DOMAIN sessions' = DOMAIN sessions \ {o.sid}
          /\ DOMAIN stack' = DOMAIN stack \ {o.sid}
          /\ \A s \in DOMAIN sessions' : sessions'[s] = sessions[s]
          /\ \A s \in DOMAIN stack' : stack'[s] = stack[s]
        BY <1>4 DEF Without, Restrict
    <1> QED BY <1>5 DEF Settled, SoloInv, Tree

\* The three transactions that write the stack.
LEMMA FramesSolo ==
    ASSUME OneThread, IInv, SoloInv, NEW t \in Thread,
           \/ TransactSetCalledSession(t)
           \/ TransactClearCalledSession(t)
           \/ TransactDeleteSession(t)
    PROVE  SoloInv'
    <1>1. Settled
        BY SetCalledSettled, ClearCalledSettled, DeleteSettled
    <1>2. th[t] # <<>> /\ Head(th[t]).op # "create_session" /\ Do(t, Tail(th[t]))
        BY DEF TransactSetCalledSession, TransactClearCalledSession, TransactDeleteSession,
               Transact, Pending
    <1> QED BY <1>1, <1>2, RestMoves

LEMMA RowGoneSolo ==
    ASSUME OneThread, IInv, SoloInv, NEW t \in Thread, RowGone(t)
    PROVE  SoloInv'
    <1>1. /\ Do(t, Tail(th[t])) \/ Do(t, <<>>)
          /\ UnchangedStore /\ th[t] # <<>> /\ Head(th[t]).op # "create_session"
        BY DEF RowGone, Idle
    <1>2. Settled
        BY <1>1, StillSettled DEF SoloInv
    <1> QED BY <1>1, <1>2, RestMoves, StaysEmpty, NoneMoves

LEMMA AutoExecuteSolo ==
    ASSUME OneThread, IInv, SoloInv, NEW t \in Thread, NEW envelope, AutoExecute(t, envelope)
    PROVE  SoloInv'
    <1>1. PICK o : o = Head(th[t])
        OBVIOUS
    <1> DEFINE step    == StepAt(o.wf, o.at)
               data    == Put(o.data, o.at, envelope)
               next    == DefaultTarget(o.wf, step)
               landing == ApplySkipLoop(o.wf, next, data, FALSE)
               tail    == IF o.cont = "submit" THEN <<EscalateParentOp(o.sid)>> ELSE <<>>
               Cascade(at, d) == <<UpdateOp(o.sid, at, d)>> \o tail
               v       == Increment(sessions[o.sid].step_visit_counts, o.at)
               rest    == IF landing.cascade THEN Cascade(next, data)
                          ELSE Proceed(o.cont, o.sid, o.wf, landing.step, data)
    <1>2. th[t] # <<>> /\ o.op = "auto_execute"
        BY <1>1 DEF AutoExecute, Pending
    <1>3. \/ Do(t, Cascade(o.at, o.data)) /\ UnchangedStore
          \/ WriteRow(t, "auto_execute", [sessions[o.sid] EXCEPT !["step_visit_counts"] = v], rest)
        BY <1>1 DEF AutoExecute
    <1>4. o.cont \in Conts
        BY <1>1, <1>2, HeadOK DEF StepOK, OpOK
    <1>5. o \in Range(th[t])
        BY <1>1, <1>2, HeadAndTail DEF IInv, ThreadsOK, WorkOK
    <1>6. Free(o.sid)
        BY <1>1, <1>2, <1>5 DEF SoloInv, PlanOK, MayMove, Moves
    <1>7. ASSUME NEW at, NEW d
          PROVE  Stays(Cascade(at, d), o.sid)
        <2>1. Stays(tail, o.sid)
            BY PlainStays, StaysEmpty
        <2> HIDE DEF tail
        <2> QED BY <2>1, UpdateStays, StaysJoined
    <1>8. Stays(rest, o.sid)
        BY <1>4, <1>7, ProceedStays
    <1> HIDE DEF Cascade, rest, v, step, data, next, landing, tail
    <1>9. CASE Do(t, Cascade(o.at, o.data)) /\ UnchangedStore
        <2>1. Settled
            BY <1>9, StillSettled DEF SoloInv
        <2> QED BY <1>6, <1>7, <1>9, <2>1, OneMoves
    <1>10. CASE WriteRow(t, "auto_execute", [sessions[o.sid] EXCEPT !["step_visit_counts"] = v], rest)
        <2>1. PICK w, r, col : w = v /\ r = rest /\ col = "step_visit_counts"
            OBVIOUS
        <2>2. /\ WriteRow(t, "auto_execute", [sessions[Head(th[t]).sid] EXCEPT ![col] = w], r)
              /\ col \notin {"current_step", "parent_session_id"}
            BY <1>1, <1>10, <2>1
        <2>3. Settled /\ Do(t, r)
            BY <2>2, ColumnSettled
        <2> QED BY <1>6, <1>8, <2>1, <2>3, OneMoves
    <1> QED BY <1>3, <1>9, <1>10

---------------------------------------------------------------------------
(***************************************************************************)
(* The creation of a session.  The position it takes is empty: because the *)
(* decision saw it empty and no other call ran since; or, when the parent  *)
(* was evicted by the creation itself, because a framed session is         *)
(* nobody's root.                                                          *)
(***************************************************************************)
LEMMA CreationSolo ==
    ASSUME StoreOK, Tree, NEW o, CreateArgs(o), o.sid \notin minted, NEW evicted, NEW rest,
           CreationOK(o, rest),
           LET new == CreateSession(db, evicted, o.sid, o.row, o.type, o.call)
           IN  sessions' = new.sessions /\ stack' = new.stack
    PROVE  Tree' /\ \A a \in Range(rest) : MayMove(a)' /\ MayLink(a)'
    <1> DEFINE kept == Without(stack, evicted)
    <1>1. PICK parent, sid : parent = o.row.parent_session_id /\ sid = o.sid
        OBVIOUS
    <1>2. PICK slot : slot = ChildSlot(kept, parent)
        OBVIOUS
    <1>3. PICK frame : frame = [root |-> slot.root, depth |-> slot.depth,
                                frame_type |-> o.type, call_step |-> o.call]
        OBVIOUS
    <1>4. /\ sessions' = Put(Without(sessions, evicted), sid, o.row)
          /\ stack' = IF parent = Null THEN kept ELSE Put(kept, sid, frame)
        BY <1>1, <1>2, <1>3 DEF CreateSession, DeleteSessions, InsertFrame, db
    <1>5. /\ DOMAIN sessions' = (DOMAIN sessions \ evicted) \cup {sid}
          /\ sessions'[sid] = o.row
          /\ \A s \in DOMAIN sessions \ evicted : s # sid => sessions'[s] = sessions[s]
        <2>1. /\ DOMAIN Without(sessions, evicted) = DOMAIN sessions \ evicted
              /\ \A s \in DOMAIN sessions \ evicted : Without(sessions, evicted)[s] = sessions[s]
            BY DEF Without, Restrict
        <2> QED BY <1>4, <2>1 DEF Put
    <1>6. /\ DOMAIN kept = DOMAIN stack \ evicted
          /\ \A s \in DOMAIN kept : kept[s] = stack[s]
        BY DEF Without, Restrict
    <1>7. /\ sid \notin DOMAIN sessions /\ sid \notin DOMAIN stack /\ sid # parent
          /\ DOMAIN kept \subseteq DOMAIN sessions \ evicted
          /\ \A s \in DOMAIN stack : /\ stack[s].root # sid
                                     /\ sessions[s].parent_session_id # sid
        <2>1. parent \in minted \cup {Null} /\ sid \in Sid /\ Null \notin Sid
            BY <1>1, StoreAssumption DEF CreateArgs
        <2> QED BY <1>1, <1>6, <2>1 DEF StoreOK, Tree
    <1> HIDE DEF kept
    <1>8. \A s \in DOMAIN kept : sessions'[s] = sessions[s] /\ s # sid
        BY <1>5, <1>7
    <1>9. CASE parent = Null
        <2>1. /\ DOMAIN stack' \subseteq DOMAIN stack \ {sid}
              /\ DOMAIN stack' \subseteq DOMAIN sessions'
              /\ \A s \in DOMAIN stack' : stack'[s] = stack[s] /\ sessions'[s] = sessions[s]
            BY <1>4, <1>5, <1>6, <1>7, <1>8, <1>9
        <2>2. Tree'
            <3>1. RootsFree' /\ OneFramePerSlot'
                BY <2>1 DEF Tree, RootsFree, OneFramePerSlot
            <3>2. InPlace'
                BY <2>1 DEF Tree, InPlace
            <3>3. FramedOuterParked'
                <4> SUFFICES ASSUME NEW s \in DOMAIN stack', NEW p,
                                    p = sessions'[s].parent_session_id,
                                    stack'[s].frame_type = "digression", p \in DOMAIN stack'
                             PROVE  sessions'[p].current_step
                                       \in {stack'[s].call_step, WORKFLOW_CHANGED}
                    BY Zenon DEF FramedOuterParked
                <4>1. /\ s \in DOMAIN stack /\ p \in DOMAIN stack
                      /\ stack[s] = stack'[s] /\ sessions[s] = sessions'[s]
                      /\ sessions[p] = sessions'[p]
                    BY <2>1
                <4> QED BY <4>1 DEF Tree, FramedOuterParked
            <3> QED BY <2>1, <3>1, <3>2, <3>3 DEF Tree
        <2>3. ASSUME NEW a \in Range(rest) PROVE MayMove(a)' /\ MayLink(a)'
            <3>1. /\ Moves(a) => a.sid = sid
                  /\ a.op = "set_called_session" => a.child = sid
                BY <1>1 DEF CreationOK
            <3>2. MayMove(a)'
                BY <2>1, <3>1 DEF MayMove, Moves, Free
            <3>3. MayLink(a)'
                BY <2>1, <3>1 DEF MayLink
            <3> QED BY <3>2, <3>3
        <2> QED BY <2>2, <2>3
    <1>10. CASE parent # Null
        <2>1. /\ DOMAIN stack' = DOMAIN kept \cup {sid} /\ stack'[sid] = frame
              /\ \A s \in DOMAIN kept : stack'[s] = stack[s] /\ s \in DOMAIN stack /\ s # sid
            BY <1>4, <1>6, <1>7, <1>10 DEF Put
        <2>2. TopFrames(stack, parent) = {}
            BY <1>1, <1>10 DEF CreationOK
        <2>3. /\ parent \in DOMAIN kept =>
                    slot.root = stack[parent].root /\ slot.depth = stack[parent].depth + 1
              /\ parent \notin DOMAIN kept => slot.root = parent /\ slot.depth = 1
            BY <1>2, <1>6 DEF ChildSlot
        <2>4. \A s \in DOMAIN kept : ~(stack[s].root = slot.root /\ stack[s].depth = slot.depth)
            <3>1. CASE parent \in DOMAIN kept
                BY <1>6, <2>2, <2>3, <3>1 DEF TopFrames, ChildSlot, FramesAt
            <3>2. CASE parent \notin DOMAIN stack
                BY <1>6, <2>2, <2>3, <3>2 DEF TopFrames, ChildSlot, FramesAt
            <3>3. CASE parent \in DOMAIN stack /\ parent \notin DOMAIN kept
                BY <1>6, <2>3, <3>3 DEF Tree, RootsFree
            <3> QED BY <3>1, <3>2, <3>3
        <2>5. /\ frame.root = slot.root /\ frame.depth = slot.depth
              /\ frame.frame_type = o.type /\ frame.call_step = o.call
            BY <1>3
        <2>6. DOMAIN stack' \subseteq DOMAIN sessions'
            BY <1>5, <1>7, <2>1
        <2>7. RootsFree'
            <3>1. slot.root \notin DOMAIN kept \cup {sid}
                <4>1. CASE parent \in DOMAIN kept
                    BY <1>6, <1>7, <2>3, <4>1 DEF Tree, RootsFree
                <4>2. CASE parent \notin DOMAIN kept
                    BY <1>7, <2>3, <4>2
                <4> QED BY <4>1, <4>2
            <3>2. \A s \in DOMAIN kept : stack[s].root \notin DOMAIN kept \cup {sid}
                BY <1>6, <1>7 DEF Tree, RootsFree
            <3> QED BY <2>1, <2>5, <3>1, <3>2 DEF RootsFree
        <2>8. OneFramePerSlot'
            <3>1. \A r, s \in DOMAIN kept :
                     stack[r].root = stack[s].root /\ stack[r].depth = stack[s].depth => r = s
                BY <1>6 DEF Tree, OneFramePerSlot
            <3>2. \A r, s \in DOMAIN stack' :
                     stack'[r].root = stack'[s].root /\ stack'[r].depth = stack'[s].depth => r = s
                BY <2>1, <2>4, <2>5, <3>1
            <3> QED BY <3>2 DEF OneFramePerSlot
        <2>9. InPlace'
            <3> SUFFICES ASSUME NEW s \in DOMAIN stack', NEW p \in DOMAIN stack',
                                p = sessions'[s].parent_session_id
                         PROVE  /\ stack'[s].root = stack'[p].root
                                /\ stack'[s].depth = stack'[p].depth + 1
                BY DEF InPlace
            <3>1. CASE s = sid
                <4>1. p = parent /\ p \in DOMAIN kept
                    BY <1>1, <1>5, <1>7, <2>1, <3>1
                <4> QED BY <2>1, <2>3, <2>5, <3>1, <4>1
            <3>2. CASE s # sid
                <4>1. s \in DOMAIN kept /\ p = sessions[s].parent_session_id
                    BY <1>8, <2>1, <3>2
                <4>2. p # sid /\ p \in DOMAIN kept
                    BY <1>7, <2>1, <4>1
                <4> QED BY <2>1, <4>1, <4>2 DEF Tree, InPlace
            <3> QED BY <3>1, <3>2
        <2>10. FramedOuterParked'
            <3> SUFFICES ASSUME NEW s \in DOMAIN stack', NEW p,
                                p = sessions'[s].parent_session_id, p \in DOMAIN stack',
                                stack'[s].frame_type = "digression"
                         PROVE  sessions'[p].current_step \in {stack'[s].call_step, WORKFLOW_CHANGED}
                BY DEF FramedOuterParked
            <3>1. CASE s = sid
                <4>1. p = parent /\ p \in DOMAIN kept
                    BY <1>1, <1>5, <1>7, <2>1, <3>1
                <4>2. sessions'[p] = sessions[p] /\ p \in DOMAIN sessions
                    BY <1>7, <1>8, <4>1
                <4>3. sessions[p].current_step = o.call
                    BY <1>1, <1>10, <2>1, <2>5, <3>1, <4>1, <4>2 DEF CreationOK
                <4> QED BY <2>1, <2>5, <3>1, <4>2, <4>3
            <3>2. CASE s # sid
                <4>1. s \in DOMAIN kept /\ p = sessions[s].parent_session_id
                    BY <1>8, <2>1, <3>2
                <4>2. p # sid /\ p \in DOMAIN kept
                    BY <1>7, <2>1, <4>1
                <4>3. sessions'[p] = sessions[p] /\ stack'[s] = stack[s]
                    BY <1>8, <2>1, <4>1, <4>2
                <4> QED BY <2>1, <4>1, <4>2, <4>3 DEF Tree, FramedOuterParked
            <3> QED BY <3>1, <3>2
        <2>11. ASSUME NEW a \in Range(rest) PROVE MayMove(a)' /\ MayLink(a)'
            <3>1. /\ ~Moves(a)
                  /\ a.op = "set_called_session" => a.child = sid /\ o.type = "call"
                BY <1>1, <1>10 DEF CreationOK
            <3>2. MayMove(a)'
                BY <3>1 DEF MayMove, Moves
            <3>3. MayLink(a)'
                BY <2>1, <2>5, <3>1 DEF MayLink
            <3> QED BY <3>2, <3>3
        <2> QED BY <2>6, <2>7, <2>8, <2>9, <2>10, <2>11 DEF Tree
    <1> QED BY <1>9, <1>10

LEMMA CreateSessionSolo ==
    ASSUME OneThread, IInv, SoloInv, NEW t \in Thread, NEW evicted,
           TransactCreateSession(t, evicted)
    PROVE  SoloInv'
    <1>1. PICK o, q, rest : o = Head(th[t]) /\ q = th[t] /\ rest = Tail(th[t])
        OBVIOUS
    <1>2. /\ q # <<>> /\ o.op = "create_session"
          /\ \/ UnchangedStore /\ Do(t, <<>>)
             \/ /\ LET new == CreateSession(db, evicted, o.sid, o.row, o.type, o.call)
                   IN  sessions' = new.sessions /\ stack' = new.stack
                /\ Do(t, rest)
        BY <1>1 DEF TransactCreateSession, Pending
    <1>3. WorkOK(q) /\ CreateArgs(o) /\ CreationOK(o, rest)
        BY <1>1, <1>2, HeadOK DEF StepOK, OpOK, SoloInv, PlanOK
    <1>4. o.sid \notin minted
        <2>1. o.sid \in Drawn(q)
            BY <1>1, <1>2 DEF Drawn, Drawing
        <2> QED BY <1>1, <2>1 DEF IInv, IdsOK
    <1>5. CASE UnchangedStore /\ Do(t, <<>>)
        <2>1. Settled
            BY <1>5, StillSettled DEF SoloInv
        <2> QED BY <1>5, <2>1, StaysEmpty, NoneMoves
    <1>6. CASE /\ LET new == CreateSession(db, evicted, o.sid, o.row, o.type, o.call)
                  IN  sessions' = new.sessions /\ stack' = new.stack
               /\ Do(t, rest)
        <2>1. Tree' /\ \A a \in Range(rest) : MayMove(a)' /\ MayLink(a)'
            BY <1>3, <1>4, <1>6, CreationSolo DEF IInv, SoloInv
        <2>2. IsSeq(rest) /\ \A a \in Range(rest) : a.op \notin Drawing
            BY <1>1, <1>2, <1>3, HeadAndTail DEF WorkOK
        <2>3. rest # <<>> => Head(rest).op \notin Drawing
            BY <2>2, HeadAndTail
        <2>4. PlanOK(rest)'
            BY <2>1, <2>3 DEF PlanOK, Drawing
        <2> QED BY <1>6, <2>1, <2>4, OneGoesOn
    <1> QED BY <1>2, <1>5, <1>6

---------------------------------------------------------------------------
(***************************************************************************)
(* Every step, and the theorems.                                           *)
(***************************************************************************)
LEMMA WorkSolo ==
    ASSUME OneThread, IInv, SoloInv, NEW t \in Thread, Work(t)
    PROVE  SoloInv'
    <1>1. CASE DecideSubmitStep(t) BY <1>1, DecideSubmitStepSolo
    <1>2. CASE DecideReviseStep(t) BY <1>2, DecideReviseStepSolo
    <1>3. CASE DecideEnterSubWorkflow(t) BY <1>3, DecideEnterSubWorkflowSolo
    <1>4. CASE DecidePushFlow(t) BY <1>4, DecidePushFlowSolo
    <1>5. CASE DecidePopFlow(t) BY <1>5, DecidePopFlowSolo
    <1>6. CASE DecideAutoResume(t) BY <1>6, DecideAutoResumeSolo
    <1>7. CASE DecideEscalateParent(t) BY <1>7, DecideEscalateParentSolo
    <1>8. CASE TransactUpdateSession(t) BY <1>8, UpdateSessionSolo
    <1>9. CASE TransactIncrementVisit(t)
        BY <1>9, ColumnSolo DEF TransactIncrementVisit
    <1>10. CASE TransactIncrementRetry(t) BY <1>10, IncrementRetrySolo
    <1>11. CASE TransactSetEscalation(t)
        BY <1>11, ColumnSolo DEF TransactSetEscalation
    <1>12. CASE TransactInvalidateSteps(t)
        BY <1>12, ColumnSolo DEF TransactInvalidateSteps
    <1>13. CASE TransactStoreArtifact(t)
        BY <1>13, ColumnSolo DEF TransactStoreArtifact
    <1>14. CASE TransactSetCalledSession(t) BY <1>14, FramesSolo
    <1>15. CASE TransactClearCalledSession(t) BY <1>15, FramesSolo
    <1>16. CASE TransactDeleteSession(t) BY <1>16, FramesSolo
    <1>17. CASE \E evicted \in SUBSET Sid : TransactCreateSession(t, evicted)
        BY <1>17, CreateSessionSolo
    <1>18. CASE \E envelope \in Envelope : AutoExecute(t, envelope)
        BY <1>18, AutoExecuteSolo
    <1>19. CASE RowGone(t) BY <1>19, RowGoneSolo
    <1> QED BY <1>1, <1>2, <1>3, <1>4, <1>5, <1>6, <1>7, <1>8, <1>9, <1>10, <1>11, <1>12,
               <1>13, <1>14, <1>15, <1>16, <1>17, <1>18, <1>19 DEF Work

LEMMA NextSolo ==
    ASSUME OneThread, IInv, SoloInv, [Next]_vars
    PROVE  SoloInv'
    <1>1. CASE UNCHANGED vars
        BY <1>1 DEF vars, SoloInv, Tree, RootsFree, OneFramePerSlot, InPlace, FramedOuterParked,
               PlanOK, CreationOK, MayMove, MayLink, Moves, Free
    <1>2. CASE \E t \in Thread : Call(t) \/ Work(t)
        BY <1>2, CallsSolo, WorkSolo
    <1>3. CASE Restart
        <2>1. Tree'
            BY <1>3, StillSettled, TreeKept DEF Restart, SoloInv
        <2>2. \A t \in Thread : th'[t] = <<>>
            BY <1>3 DEF Restart
        <2> QED BY <2>1, <2>2, EmptyPlan DEF SoloInv
    <1> QED BY <1>1, <1>2, <1>3 DEF Next

LEMMA InitSolo == Init => SoloInv
    <1> SUFFICES ASSUME Init PROVE SoloInv
        OBVIOUS
    <1>1. DOMAIN stack = {} /\ \A t \in Thread : th[t] = <<>>
        BY DEF Init
    <1> QED BY <1>1 DEF SoloInv, Tree, RootsFree, OneFramePerSlot, InPlace, FramedOuterParked, PlanOK

\* One call at a time, restarts at any point: positions in a stack agree with
\* parent_session_id, and what the running call saw of the stack in an earlier
\* transaction (top_frame_for, own_frame) is still so when it inserts the frame
\* or moves the session.
THEOREM SoloInvariant ==
    ASSUME OneThread
    PROVE  Spec => []SoloInv
    <1>1. IInv /\ SoloInv /\ [Next]_vars => SoloInv'
        BY NextSolo
    <1> QED BY InitSolo, <1>1, Invariant, PTL DEF Spec

\* One call at a time, restarts at any point: the position a session is pushed
\* to is never taken, although push_flow and enter_sub_workflow look at it in
\* one transaction and insert in another, and frames are removed by deletion,
\* eviction, unlinking and completion.  (Two threads can break this.)
THEOREM SlotsAreDistinct ==
    ASSUME OneThread
    PROVE  Spec => []OneFramePerSlot
    <1>1. SoloInv => OneFramePerSlot
        BY DEF SoloInv, Tree
    <1> QED BY <1>1, SoloInvariant, PTL

\* One call at a time, restarts at any point: a framed session that a digression
\* has interrupted stays at paused_at_step until the digression is gone.
THEOREM InterruptedStaysParked ==
    ASSUME OneThread
    PROVE  Spec => []FramedOuterParked
    <1>1. SoloInv => FramedOuterParked
        BY DEF SoloInv, Tree
    <1> QED BY <1>1, SoloInvariant, PTL

---------------------------------------------------------------------------
(***************************************************************************)
(* Workflows without branches, and where their steps lie.  A branch may    *)
(* lead backwards and leave data ahead of the pointer, which then is not   *)
(* stale but waiting to be overwritten.  That the ids of the steps are     *)
(* distinct and that none is called __complete__, the loader does not      *)
(* check.                                                                  *)
(***************************************************************************)
Linear(wf) ==
    /\ COMPLETE \notin StepIds(wf)
    /\ \A i, j \in DOMAIN wf.steps : wf.steps[i].id = wf.steps[j].id => i = j
    /\ \A step \in Range(wf.steps) : step.branches = {}
    /\ \A g \in Range(wf.guardrails) : g.action # "force_branch"
LinearWorkflows == \A w \in Workflow : \A v \in Version(w) : Linear(Definition[w][v])

\* A workflow that create_app loads, as a client of a linear one sees it.
Straight(wf) == WellFormed(wf) /\ Linear(wf)

Place(wf, at) == IF at = COMPLETE THEN Len(wf.steps) + 1 ELSE FindStep(wf, at)

\* No data lies beyond `at`.
Behind(data, wf, at) == \A id \in DOMAIN data : FindStep(wf, id) <= Place(wf, at)

LEMMA StraightRow ==
    ASSUME LinearWorkflows, NEW row, RowOK(row)
    PROVE  Straight(WorkflowOf(row))
    BY WorkflowLoaded DEF LinearWorkflows, Straight, RowOK, WorkflowOf

LEMMA Numbered ==
    ASSUME NEW wf, Straight(wf)
    PROVE  /\ Len(wf.steps) \in Nat
           /\ \A i \in 1..Len(wf.steps) : FindStep(wf, wf.steps[i].id) = i
           /\ \A id : FindStep(wf, id) \in 0..Len(wf.steps)
           /\ \A id : id \notin StepIds(wf) => FindStep(wf, id) = 0
    <1>1. Len(wf.steps) \in Nat /\ DOMAIN wf.steps = 1..Len(wf.steps) /\ WellFormed(wf)
        BY DEF Straight, WellFormed
    <1>2. \A i \in 1..Len(wf.steps) : FindStep(wf, wf.steps[i].id) = i
        <2> TAKE i \in 1..Len(wf.steps)
        <2> DEFINE j == FindStep(wf, wf.steps[i].id)
        <2>1. wf.steps[i].id \in StepIds(wf)
            BY <1>1, StepNamed
        <2>2. j \in 1..Len(wf.steps) /\ wf.steps[j].id = wf.steps[i].id
            BY <1>1, <2>1, FoundStep DEF StepAt
        <2> HIDE DEF j
        <2>3. j = i
            BY <1>1, <2>2 DEF Straight, Linear
        <2> QED BY <2>3 DEF j
    <1>3. \A id : id \notin StepIds(wf) => FindStep(wf, id) = 0
        BY DEF FindStep
    <1>4. \A id \in StepIds(wf) : FindStep(wf, id) \in 1..Len(wf.steps)
        BY <1>1, FoundStep
    <1>5. \A id : FindStep(wf, id) \in 0..Len(wf.steps)
        BY <1>1, <1>3, <1>4
    <1> QED BY <1>1, <1>2, <1>3, <1>5

LEMMA Placement ==
    ASSUME NEW wf, Straight(wf)
    PROVE  /\ \A at : Place(wf, at) \in Nat
           /\ \A id : FindStep(wf, id) \in Nat /\ FindStep(wf, id) <= Place(wf, COMPLETE)
           /\ \A id \in StepIds(wf) : Place(wf, id) = FindStep(wf, id)
           /\ \A i \in 1..Len(wf.steps) : Place(wf, wf.steps[i].id) = i
           /\ Len(wf.steps) \in Nat /\ Place(wf, COMPLETE) = Len(wf.steps) + 1
    <1>1. /\ Len(wf.steps) \in Nat
          /\ \A i \in 1..Len(wf.steps) : FindStep(wf, wf.steps[i].id) = i
          /\ \A id : FindStep(wf, id) \in 0..Len(wf.steps)
        BY Numbered
    <1>2. Place(wf, COMPLETE) = Len(wf.steps) + 1
        BY DEF Place
    <1>3. \A id \in StepIds(wf) : Place(wf, id) = FindStep(wf, id)
        BY DEF Place, Straight, Linear
    <1>4. \A i \in 1..Len(wf.steps) : wf.steps[i].id \in StepIds(wf)
        BY StepNamed DEF Straight
    <1>5. \A i \in 1..Len(wf.steps) : Place(wf, wf.steps[i].id) = i
        BY <1>1, <1>3, <1>4
    <1>6. \A id : FindStep(wf, id) \in Nat /\ FindStep(wf, id) <= Place(wf, COMPLETE)
        BY <1>1, <1>2
    <1>7. \A at : Place(wf, at) \in Nat
        BY <1>1 DEF Place
    <1> QED BY <1>1, <1>2, <1>3, <1>5, <1>6, <1>7

LEMMA NextFurther ==
    ASSUME NEW wf, Straight(wf), NEW id \in StepIds(wf)
    PROVE  Place(wf, LinearNext(wf, id)) = FindStep(wf, id) + 1
    <1>1. FindStep(wf, id) \in 1..Len(wf.steps) /\ Len(wf.steps) \in Nat
        BY FoundStep, Placement DEF Straight
    <1>2. CASE FindStep(wf, id) = Len(wf.steps)
        BY <1>2, Placement DEF LinearNext, Complete, COMPLETE
    <1>3. CASE FindStep(wf, id) # Len(wf.steps)
        <2>1. FindStep(wf, id) + 1 \in 1..Len(wf.steps)
            BY <1>1, <1>3
        <2> QED BY <2>1, <1>3, Placement DEF LinearNext
    <1> QED BY <1>2, <1>3

LEMMA DefaultFurther ==
    ASSUME NEW wf, Straight(wf), NEW step \in Range(wf.steps)
    PROVE  /\ step.id \in StepIds(wf)
           /\ Place(wf, DefaultTarget(wf, step)) = FindStep(wf, step.id) + 1
    <1>1. step.id \in StepIds(wf)
        BY DEF StepIds, Range
    <1>2. DefaultTarget(wf, step) = LinearNext(wf, step.id)
        BY DEF DefaultTarget, Straight, Linear
    <1> QED BY <1>1, <1>2, NextFurther

LEMMA BranchFurther ==
    ASSUME NEW wf, Straight(wf), NEW step \in Range(wf.steps), NEW branch,
           NEW guardrail \in Range(wf.guardrails) \cup {Null}
    PROVE  Place(wf, BranchTarget(wf, step, branch, guardrail)) = FindStep(wf, step.id) + 1
    <1>1. step.id \in StepIds(wf)
        BY DEF StepIds, Range
    <1>2. ~ForceBranched(guardrail)
        BY DEF ForceBranched, Straight, Linear
    <1>3. BranchTarget(wf, step, branch, guardrail) = LinearNext(wf, step.id)
        BY <1>2 DEF BranchTarget, Straight, Linear
    <1> QED BY <1>1, <1>3, NextFurther

LEMMA LandingFurther ==
    ASSUME NEW wf, Straight(wf), NEW from \in Places(wf), NEW data, NEW forced
    PROVE  Place(wf, from) <= Place(wf, ApplySkipLoop(wf, from, data, forced).step)
    <1> DEFINE i == FindStep(wf, from)
               base == ComputeSkipped(wf, data)
               Verdict(k) == EvaluatePrecondition(wf.steps[k].precondition, data,
                                 base \cup {wf.steps[j].id : j \in i..(k - 1)})
               stops == {k \in i..Len(wf.steps) : Verdict(k) # "skip"}
    <1>0. /\ \A at : Place(wf, at) \in Nat /\ Place(wf, COMPLETE) = Len(wf.steps) + 1
          /\ Len(wf.steps) \in Nat
        BY Placement
    <1>1. CASE forced \/ from = COMPLETE
        <2>1. ApplySkipLoop(wf, from, data, forced) = [step |-> from, cascade |-> FALSE]
            BY <1>1 DEF ApplySkipLoop, Complete, COMPLETE
        <2> QED BY <1>0, <2>1
    <1>2. CASE ~(forced \/ from = COMPLETE) /\ stops = {}
        <2>1. ApplySkipLoop(wf, from, data, forced) = [step |-> COMPLETE, cascade |-> FALSE]
            BY <1>2 DEF ApplySkipLoop, Complete, COMPLETE
        <2>2. Place(wf, from) = FindStep(wf, from) /\ FindStep(wf, from) <= Place(wf, COMPLETE)
            BY <1>2, Placement DEF Place
        <2> QED BY <2>1, <2>2
    <1>3. CASE ~(forced \/ from = COMPLETE) /\ stops # {}
        <2>1. i \in 1..Len(wf.steps) /\ Place(wf, from) = i
            BY <1>3, FoundStep DEF Places, Straight, Place
        <2>2. stops \in SUBSET Nat /\ stops \subseteq i..Len(wf.steps)
            BY <1>0, <2>1
        <2>3. Min(stops) \in stops
            BY <2>2, <1>3, MinIsMember
        <2>4. Min(stops) \in 1..Len(wf.steps) /\ i <= Min(stops)
            BY <1>0, <2>1, <2>2, <2>3
        <2>5. ApplySkipLoop(wf, from, data, forced).step = wf.steps[Min(stops)].id
            BY <1>3 DEF ApplySkipLoop, Complete, COMPLETE
        <2>6. Place(wf, wf.steps[Min(stops)].id) = Min(stops)
            BY <2>4, Placement
        <2> HIDE DEF stops, i
        <2> QED BY <2>1, <2>4, <2>5, <2>6
    <1> QED BY <1>1, <1>2, <1>3

LEMMA BehindFurther ==
    ASSUME NEW wf, Straight(wf), NEW data, NEW a, NEW b, Behind(data, wf, a),
           Place(wf, a) <= Place(wf, b)
    PROVE  Behind(data, wf, b)
    <1>1. Place(wf, a) \in Nat /\ Place(wf, b) \in Nat /\ \A id : FindStep(wf, id) \in Nat
        BY Placement
    <1> QED BY <1>1 DEF Behind

LEMMA BehindPut ==
    ASSUME NEW wf, NEW data, NEW at, NEW id, NEW v, Behind(data, wf, at),
           FindStep(wf, id) <= Place(wf, at)
    PROVE  Behind(Put(data, id, v), wf, at)
    <1>1. PICK new : new = Put(data, id, v)
        OBVIOUS
    <1>2. DOMAIN new = DOMAIN data \cup {id}
        BY <1>1, PutDomain
    <1>3. Behind(new, wf, at)
        BY <1>2 DEF Behind
    <1> QED BY <1>1, <1>3

---------------------------------------------------------------------------
(***************************************************************************)
(* The invariant.  The data of a session lies behind its pointer           *)
(* (DataBehind).  It stays so because a plan moves a session at most once, *)
(* after it has dropped what it drops and unlinked what it unlinks         *)
(* (Ordered), to a place beyond all data (Reaches), and forward only when  *)
(* no frame is above the session (Cleared).                                *)
(***************************************************************************)
Caller(o) == o.op \in {"submit_step", "revise_step"}
Mover(o) == o.op \in {"auto_execute", "update_session"}
Clearing(o) == o.op \in {"invalidate_steps", "clear_called_session"}
Marks(o) == o.op = "update_session" /\ o.step = WORKFLOW_CHANGED

Ordered(q) ==
    \A i, j \in DOMAIN q : i < j /\ Mover(q[i]) => ~Mover(q[j]) /\ ~Clearing(q[j])

\* Step ids whose data the plan q is still going to drop, and the sessions
\* above which there is no frame, or will be none when q moves them.
Dropped(q, s) ==
    UNION {o.steps : o \in {p \in Range(q) : p.op = "invalidate_steps" /\ p.sid = s}}
Cleared(frames, q, s) ==
    \/ TopFrames(frames, s) = {}
    \/ \E o \in Range(q) : o.op = "clear_called_session" /\ o.sid = s

\* Where a mover takes a session that stands at `at`.
Goal(o, at) ==
    IF o.op = "auto_execute" THEN o.at ELSE IF o.step = Null THEN at ELSE o.step
Reaches(o, wf, at, old) ==
    /\ o.op = "auto_execute" \/ o.data # Null => Behind(o.data, wf, Goal(o, at))
    /\ \A id \in old : FindStep(wf, id) <= Place(wf, Goal(o, at))
Retreats(o, wf, at) ==
    o.op = "update_session" /\ Place(wf, Goal(o, at)) <= Place(wf, at)

MoveOK(frames, q, o, row) ==
    Mover(o) /\ ~Marks(o) =>
       /\ Reaches(o, WorkflowOf(row), row.current_step,
                  DOMAIN row.step_data \ Dropped(q, o.sid))
       /\ Cleared(frames, q, o.sid) \/ Retreats(o, WorkflowOf(row), row.current_step)

\* A thread that is about to create a session and then does `rest`.
StartOK(frames, c, rest) ==
    /\ DOMAIN c.row.step_data = {}
    /\ \A o \in Range(rest) : Mover(o) =>
          /\ o.sid = c.sid /\ c.row.parent_session_id = Null
          /\ MoveOK(frames, rest, o, c.row)

Course(q) ==
    /\ Ordered(q)
    /\ \A o \in Range(q) :
          /\ Caller(o) => q = <<o>> /\ o.sid \in DOMAIN sessions /\ o.row = sessions[o.sid]
          /\ o.sid \in DOMAIN sessions => MoveOK(stack, q, o, sessions[o.sid])
    /\ q # <<>> /\ Head(q).op = "create_session" => StartOK(stack, Head(q), Tail(q))

DataBehind ==
    \A s \in DOMAIN sessions :
       sessions[s].current_step # WORKFLOW_CHANGED =>
          Behind(sessions[s].step_data, WorkflowOf(sessions[s]), sessions[s].current_step)

BehindInv == DataBehind /\ \A t \in Thread : Course(th[t])

\* What every step is shown to do.
PausedStays ==
    \A s \in DOMAIN sessions \cap DOMAIN sessions' :
       /\ TopFrames(stack, s) # {}
       /\ TopFrames(stack', s) # {}
       /\ sessions'[s].current_step # WORKFLOW_CHANGED
       => StepIndex(sessions'[s]) <= StepIndex(sessions[s])
StepBehind == BehindInv' /\ PausedStays

---------------------------------------------------------------------------
(***************************************************************************)
(* Steps that move nothing.                                                *)
(***************************************************************************)
CalmRows ==
    /\ DOMAIN sessions' \subseteq DOMAIN sessions
    /\ \A s \in DOMAIN sessions' :
          /\ SameWorkflow(sessions[s], sessions'[s])
          /\ sessions'[s].current_step = sessions[s].current_step
          /\ DOMAIN sessions'[s].step_data \subseteq DOMAIN sessions[s].step_data
CalmFrames == \A s : TopFrames(stack, s) = {} => TopFrames(stack', s) = {}
Calm == CalmRows /\ CalmFrames

LEMMA IndexIsPlace ==
    ASSUME NEW row
    PROVE  StepIndex(row) = Place(WorkflowOf(row), row.current_step)
    BY DEF StepIndex, Place

LEMMA CalmStep ==
    ASSUME OneThread, LinearWorkflows, IInv, BehindInv, NEW t \in Thread, NEW plan,
           Do(t, plan), Calm, Course(plan)'
    PROVE  StepBehind
    <1>1. DOMAIN th = Thread
        BY DEF IInv, ThreadsOK
    <1>2. th'[t] = plan /\ \A u \in Thread : u = t
        BY <1>1 DEF Do, OneThread
    <1>3. \A u \in Thread : Course(th[u])'
        BY <1>2
    <1>4. \A s \in DOMAIN sessions' : WorkflowOf(sessions'[s]) = WorkflowOf(sessions[s])
        BY SameWorkflowOf DEF Calm, CalmRows
    <1>5. DataBehind'
        BY <1>4 DEF Calm, CalmRows, BehindInv, DataBehind, Behind
    <1>6. PausedStays
        <2> SUFFICES ASSUME NEW s \in DOMAIN sessions \cap DOMAIN sessions'
                     PROVE  StepIndex(sessions'[s]) <= StepIndex(sessions[s])
            BY DEF PausedStays
        <2>1. StepIndex(sessions'[s]) = StepIndex(sessions[s])
            BY <1>4, IndexIsPlace DEF Calm, CalmRows
        <2>2. StepIndex(sessions[s]) \in Nat
            BY StraightRow, Placement, IndexIsPlace DEF IInv, StoreOK
        <2> QED BY <2>1, <2>2
    <1> QED BY <1>3, <1>5, <1>6 DEF BehindInv, StepBehind

LEMMA StillCalm ==
    ASSUME UnchangedStore
    PROVE  Calm
    BY DEF UnchangedStore, Calm, CalmRows, CalmFrames, SameWorkflow

\* Frames go, nothing is pushed.
LEMMA FramesRemain ==
    ASSUME Tree, Settled, NEW s, NEW f \in TopFrames(stack', s)
    PROVE  f \in TopFrames(stack, s)
    <1>1. /\ f \in DOMAIN stack /\ f \in DOMAIN stack'
          /\ stack'[f].root = stack[f].root /\ stack'[f].depth = stack[f].depth
        BY DEF TopFrames, FramesAt, Settled
    <1>2. CASE s \in DOMAIN stack'
        <2>1. /\ s \in DOMAIN stack
              /\ stack'[s].root = stack[s].root /\ stack'[s].depth = stack[s].depth
            BY <1>2 DEF Settled
        <2>2. stack'[f].root = stack'[s].root /\ stack'[f].depth = stack'[s].depth + 1
            BY <1>2 DEF TopFrames, ChildSlot, FramesAt
        <2> QED BY <1>1, <2>1, <2>2 DEF TopFrames, ChildSlot, FramesAt
    <1>3. CASE s \notin DOMAIN stack'
        <2>1. stack[f].root = s /\ stack[f].depth = 1
            BY <1>1, <1>3 DEF TopFrames, ChildSlot, FramesAt
        <2>2. s \notin DOMAIN stack
            BY <1>1, <2>1 DEF Tree, RootsFree
        <2> QED BY <1>1, <2>1, <2>2 DEF TopFrames, ChildSlot, FramesAt
    <1> QED BY <1>2, <1>3

LEMMA FramesCalm ==
    ASSUME Tree, Settled
    PROVE  CalmFrames
    BY FramesRemain DEF CalmFrames

---------------------------------------------------------------------------
(***************************************************************************)
(* Plans.                                                                  *)
(***************************************************************************)
LEMMA OrderedTail ==
    ASSUME NEW q, IsSeq(q), q # <<>>, Ordered(q)
    PROVE  /\ Ordered(Tail(q))
           /\ Mover(Head(q)) => \A o \in Range(Tail(q)) : ~Mover(o)
    <1>1. /\ Len(q) \in Nat \ {0} /\ DOMAIN q = 1..Len(q) /\ Head(q) = q[1]
          /\ DOMAIN Tail(q) = 1..(Len(q) - 1)
          /\ \A i \in 1..(Len(q) - 1) : Tail(q)[i] = q[i + 1]
        BY DEF IsSeq
    <1>2. Ordered(Tail(q))
        <2> SUFFICES ASSUME NEW i \in DOMAIN Tail(q), NEW j \in DOMAIN Tail(q), i < j,
                            Mover(Tail(q)[i])
                     PROVE  ~Mover(Tail(q)[j]) /\ ~Clearing(Tail(q)[j])
            BY DEF Ordered
        <2>1. i + 1 \in DOMAIN q /\ j + 1 \in DOMAIN q /\ i + 1 < j + 1
            BY <1>1
        <2> QED BY <1>1, <2>1 DEF Ordered
    <1>3. ASSUME Mover(Head(q)), NEW o \in Range(Tail(q)) PROVE ~Mover(o)
        <2>1. PICK i \in DOMAIN Tail(q) : Tail(q)[i] = o
            BY DEF Range
        <2>2. i + 1 \in DOMAIN q /\ 1 \in DOMAIN q /\ 1 < i + 1 /\ q[i + 1] = o
            BY <1>1, <2>1
        <2> QED BY <1>1, <1>3, <2>2 DEF Ordered
    <1> QED BY <1>2, <1>3

LEMMA JoinedAt ==
    ASSUME NEW p, NEW q, IsSeq(p), IsSeq(q)
    PROVE  /\ Len(p) \in Nat /\ Len(q) \in Nat
           /\ DOMAIN p = 1..Len(p) /\ DOMAIN q = 1..Len(q)
           /\ DOMAIN (p \o q) = 1..(Len(p) + Len(q))
           /\ \A i \in 1..(Len(p) + Len(q)) :
                 (p \o q)[i] = IF i <= Len(p) THEN p[i] ELSE q[i - Len(p)]
    <1> DEFINE S == Range(p) \cup Range(q)
    <1>1. p \in Seq(S) /\ q \in Seq(S)
        BY DEF IsSeq
    <1> QED BY <1>1

LEMMA OrderedJoined ==
    ASSUME NEW p, NEW q, IsSeq(p), IsSeq(q), Ordered(p), Ordered(q),
           \/ \A o \in Range(p) : ~Mover(o)
           \/ \A o \in Range(q) : ~Mover(o) /\ ~Clearing(o)
    PROVE  Ordered(p \o q)
    <1> SUFFICES ASSUME NEW i \in DOMAIN (p \o q), NEW j \in DOMAIN (p \o q), i < j,
                        Mover((p \o q)[i])
                 PROVE  ~Mover((p \o q)[j]) /\ ~Clearing((p \o q)[j])
        BY DEF Ordered
    <1>1. /\ Len(p) \in Nat /\ Len(q) \in Nat
          /\ DOMAIN p = 1..Len(p) /\ DOMAIN q = 1..Len(q)
          /\ DOMAIN (p \o q) = 1..(Len(p) + Len(q))
          /\ \A k \in 1..(Len(p) + Len(q)) :
                (p \o q)[k] = IF k <= Len(p) THEN p[k] ELSE q[k - Len(p)]
        BY JoinedAt
    <1>2. CASE j <= Len(p)
        <2>1. /\ i \in DOMAIN p /\ j \in DOMAIN p
              /\ (p \o q)[i] = p[i] /\ (p \o q)[j] = p[j]
            BY <1>1, <1>2
        <2> QED BY <2>1 DEF Ordered
    <1>3. CASE i <= Len(p) /\ ~(j <= Len(p))
        <2>1. /\ i \in DOMAIN p /\ j - Len(p) \in DOMAIN q
              /\ (p \o q)[i] = p[i] /\ (p \o q)[j] = q[j - Len(p)]
            BY <1>1, <1>3
        <2> QED BY <2>1 DEF Range
    <1>4. CASE ~(i <= Len(p)) /\ ~(j <= Len(p))
        <2>1. /\ i - Len(p) \in DOMAIN q /\ j - Len(p) \in DOMAIN q /\ i - Len(p) < j - Len(p)
              /\ (p \o q)[i] = q[i - Len(p)] /\ (p \o q)[j] = q[j - Len(p)]
            BY <1>1, <1>4
        <2> QED BY <2>1 DEF Ordered
    <1>5. ~(i <= Len(p)) => ~(j <= Len(p))
        BY <1>1
    <1> QED BY <1>2, <1>3, <1>4, <1>5

LEMMA OrderedOne == ASSUME NEW o PROVE Ordered(<<o>>)
    BY DEF Ordered

LEMMA OrderedEmpty == Ordered(<<>>)
    BY DEF Ordered

LEMMA HeadInRange ==
    ASSUME NEW q, IsSeq(q), q # <<>>
    PROVE  Head(q) \in Range(q)
    BY HeadAndTail

\* A plan that moves nothing.
Idles(plan) ==
    /\ IsSeq(plan) /\ Ordered(plan)
    /\ \A o \in Range(plan) :
          ~Caller(o) /\ o.op # "create_session" /\ (Mover(o) => Marks(o))

LEMMA IdlesCourse ==
    ASSUME NEW plan, Idles(plan)
    PROVE  Course(plan)'
    BY HeadInRange DEF Idles, Course, MoveOK

LEMMA IdlesEmpty == Idles(<<>>)
    BY Empty, OrderedEmpty DEF Idles

LEMMA IdlesOne ==
    ASSUME NEW o, ~Caller(o), o.op # "create_session", Mover(o) => Marks(o)
    PROVE  Idles(<<o>>)
    BY One, OrderedOne DEF Idles

\* A plan that moves sid, which stands at `at` in wf and keeps the data `old`.
Onward(plan, sid, wf, at, old) ==
    /\ IsSeq(plan) /\ Ordered(plan)
    /\ \A o \in Range(plan) :
          /\ ~Caller(o) /\ o.op # "create_session"
          /\ Mover(o) => o.sid = sid /\ Reaches(o, wf, at, old)

LEMMA OnwardCourse ==
    ASSUME NEW plan, NEW sid, NEW wf, NEW at, NEW old, Onward(plan, sid, wf, at, old),
           sid \in DOMAIN sessions' =>
              /\ WorkflowOf(sessions'[sid]) = wf
              /\ sessions'[sid].current_step = at
              /\ DOMAIN sessions'[sid].step_data \ Dropped(plan, sid) \subseteq old
              /\ \A o \in Range(plan) : Mover(o) =>
                    Cleared(stack', plan, sid) \/ Retreats(o, wf, at)
    PROVE  Course(plan)'
    <1>1. ASSUME NEW o \in Range(plan), o.sid \in DOMAIN sessions', Mover(o)
          PROVE  MoveOK(stack', plan, o, sessions'[o.sid])
        <2>1. o.sid = sid /\ Reaches(o, wf, at, old)
            BY <1>1 DEF Onward
        <2>2. PICK row : row = sessions'[sid]
            OBVIOUS
        <2>3. /\ WorkflowOf(row) = wf /\ row.current_step = at
              /\ DOMAIN row.step_data \ Dropped(plan, sid) \subseteq old
              /\ Cleared(stack', plan, sid) \/ Retreats(o, wf, at)
            BY <1>1, <2>1, <2>2
        <2>4. Reaches(o, wf, at, DOMAIN row.step_data \ Dropped(plan, sid))
            BY <2>1, <2>3 DEF Reaches
        <2>5. MoveOK(stack', plan, o, row)
            BY <2>1, <2>3, <2>4 DEF MoveOK
        <2> QED BY <2>1, <2>2, <2>5
    <1>2. ASSUME NEW o \in Range(plan), o.sid \in DOMAIN sessions'
          PROVE  MoveOK(stack', plan, o, sessions'[o.sid])
        BY <1>1, <1>2 DEF MoveOK
    <1>3. plan # <<>> => Head(plan).op # "create_session"
        BY HeadInRange DEF Onward
    <1> QED BY <1>2, <1>3 DEF Onward, Course

\* What a thread has left.
LEMMA RestCourse ==
    ASSUME NEW q, WorkOK(q), q # <<>>, NEW h, h = Head(q), h.op # "create_session",
           Course(q), ~Mover(h) => Calm,
           DOMAIN sessions' \subseteq DOMAIN sessions,
           h.op = "invalidate_steps" /\ h.sid \in DOMAIN sessions' =>
              DOMAIN sessions'[h.sid].step_data \cap h.steps = {},
           h.op = "clear_called_session" => TopFrames(stack', h.sid) = {}
    PROVE  Course(Tail(q))'
    <1>1. PICK r : r = Tail(q)
        OBVIOUS
    <1>2. /\ h \in Range(q) /\ IsSeq(r) /\ Range(r) \subseteq Range(q)
          /\ Range(q) \subseteq {h} \cup Range(r)
          /\ \A o \in Range(r) : o.op \notin Drawing
        BY <1>1, HeadAndTail DEF WorkOK
    <1>3. Ordered(r) /\ (Mover(h) => \A o \in Range(r) : ~Mover(o))
        BY <1>1, OrderedTail DEF WorkOK, Course
    <1>4. \A o \in Range(r) : ~Caller(o)
        <2> SUFFICES ASSUME NEW o \in Range(r), Caller(o) PROVE FALSE
            OBVIOUS
        <2>1. q = <<o>>
            BY <1>2 DEF Course
        <2>2. r = <<>>
            BY <1>1, <2>1, One
        <2> QED BY <2>2, Empty
    <1>5. r # <<>> => Head(r).op # "create_session"
        BY <1>2, HeadInRange DEF Drawing
    <1>6. ASSUME NEW o \in Range(r), o.sid \in DOMAIN sessions', Mover(o), ~Marks(o)
          PROVE  MoveOK(stack', r, o, sessions'[o.sid])
        <2>1. PICK r1, r2 : r1 = sessions[o.sid] /\ r2 = sessions'[o.sid]
            OBVIOUS
        <2>2. Calm
            BY <1>3, <1>6
        <2>3. MoveOK(stack, q, o, r1)
            BY <1>2, <1>6, <2>1 DEF Course
        <2>4. /\ WorkflowOf(r2) = WorkflowOf(r1) /\ r2.current_step = r1.current_step
              /\ DOMAIN r2.step_data \subseteq DOMAIN r1.step_data
            BY <1>6, <2>1, <2>2, SameWorkflowOf DEF Calm, CalmRows
        <2>5. DOMAIN r2.step_data \ Dropped(r, o.sid)
                 \subseteq DOMAIN r1.step_data \ Dropped(q, o.sid)
            <3> SUFFICES ASSUME NEW id \in DOMAIN r2.step_data, id \notin Dropped(r, o.sid),
                                id \in Dropped(q, o.sid)
                         PROVE  FALSE
                BY <2>4
            <3>1. PICK d \in Range(q) : d.op = "invalidate_steps" /\ d.sid = o.sid /\ id \in d.steps
                BY DEF Dropped
            <3>2. d \notin Range(r)
                BY <3>1 DEF Dropped
            <3>3. d = h
                BY <1>2, <3>1, <3>2
            <3> QED BY <1>6, <2>1, <3>1, <3>3
        <2>6. Cleared(stack, q, o.sid) => Cleared(stack', r, o.sid)
            <3>1. CASE TopFrames(stack, o.sid) = {}
                BY <2>2, <3>1 DEF Calm, CalmFrames, Cleared
            <3>2. CASE \E c \in Range(q) : c.op = "clear_called_session" /\ c.sid = o.sid
                BY <1>2, <3>2 DEF Cleared
            <3> QED BY <3>1, <3>2 DEF Cleared
        <2>7. Reaches(o, WorkflowOf(r2), r2.current_step, DOMAIN r2.step_data \ Dropped(r, o.sid))
            BY <1>6, <2>3, <2>4, <2>5 DEF MoveOK, Reaches
        <2>8. Cleared(stack', r, o.sid) \/ Retreats(o, WorkflowOf(r2), r2.current_step)
            BY <1>6, <2>3, <2>4, <2>6 DEF MoveOK
        <2>9. MoveOK(stack', r, o, r2)
            BY <2>7, <2>8 DEF MoveOK
        <2> QED BY <2>1, <2>9
    <1>7. ASSUME NEW o \in Range(r), o.sid \in DOMAIN sessions'
          PROVE  MoveOK(stack', r, o, sessions'[o.sid])
        BY <1>6, <1>7 DEF MoveOK
    <1>8. Course(r)'
        BY <1>3, <1>4, <1>5, <1>7 DEF Course
    <1> QED BY <1>1, <1>8

---------------------------------------------------------------------------
(***************************************************************************)
(* The plans of the tools.                                                 *)
(***************************************************************************)
Prepares(p) ==
    IsSeq(p) /\ \A o \in Range(p) : ~Mover(o) /\ ~Caller(o) /\ o.op # "create_session"
Aside(p) == Prepares(p) /\ \A o \in Range(p) : ~Clearing(o)

LEMMA AsideEmpty == Aside(<<>>)
    BY Empty DEF Aside, Prepares

LEMMA AsideOne ==
    ASSUME NEW o, ~Mover(o), ~Caller(o), ~Clearing(o), o.op # "create_session"
    PROVE  Aside(<<o>>)
    BY One DEF Aside, Prepares

LEMMA PreparesOne ==
    ASSUME NEW o, ~Mover(o), ~Caller(o), o.op # "create_session"
    PROVE  Prepares(<<o>>)
    BY One DEF Prepares

LEMMA PreparesJoined ==
    ASSUME NEW p, NEW q, Prepares(p), Prepares(q)
    PROVE  Prepares(p \o q)
    BY Joined DEF Prepares

LEMMA PreparesOrdered ==
    ASSUME NEW p, Prepares(p)
    PROVE  Ordered(p)
    <1>1. \A i \in DOMAIN p : p[i] \in Range(p)
        BY DEF Range
    <1> QED BY <1>1 DEF Prepares, Ordered

LEMMA PreparesIdles ==
    ASSUME NEW p, Prepares(p)
    PROVE  Idles(p)
    BY PreparesOrdered DEF Prepares, Idles

LEMMA OnwardAfter ==
    ASSUME NEW p, NEW q, NEW sid, NEW wf, NEW at, NEW old,
           Prepares(p), Onward(q, sid, wf, at, old)
    PROVE  Onward(p \o q, sid, wf, at, old)
    <1>1. IsSeq(p \o q) /\ Range(p \o q) = Range(p) \cup Range(q)
        BY Joined DEF Prepares, Onward
    <1>2. Ordered(p \o q)
        BY PreparesOrdered, OrderedJoined DEF Prepares, Onward
    <1> QED BY <1>1, <1>2 DEF Prepares, Onward

LEMMA OnwardBefore ==
    ASSUME NEW p, NEW q, NEW sid, NEW wf, NEW at, NEW old,
           Onward(p, sid, wf, at, old), Aside(q)
    PROVE  Onward(p \o q, sid, wf, at, old)
    <1>1. IsSeq(p \o q) /\ Range(p \o q) = Range(p) \cup Range(q)
        BY Joined DEF Aside, Prepares, Onward
    <1>2. Ordered(p \o q)
        BY PreparesOrdered, OrderedJoined DEF Aside, Prepares, Onward
    <1> QED BY <1>1, <1>2 DEF Aside, Prepares, Onward

LEMMA PreparesOnward ==
    ASSUME NEW p, NEW sid, NEW wf, NEW at, NEW old, Prepares(p)
    PROVE  Onward(p, sid, wf, at, old)
    BY PreparesOrdered DEF Prepares, Onward

LEMMA AsideOps ==
    ASSUME NEW s, NEW step, NEW wf, NEW data, NEW x
    PROVE  /\ Aside(<<VisitOp(s, step)>>) /\ Aside(<<HandoffOp(s, wf, data)>>)
           /\ Aside(<<EscalateParentOp(s)>>) /\ Aside(<<EscalateOp(s)>>)
           /\ Aside(<<DeleteOp(s, x)>>) /\ Aside(<<ArtifactOp(s, step, x)>>)
           /\ Aside(<<RetryOp(s, step, x)>>)
    <1>1. PICK a, b, c, d, e, f, g :
             /\ a = VisitOp(s, step) /\ b = HandoffOp(s, wf, data)
             /\ c = EscalateParentOp(s) /\ d = EscalateOp(s) /\ e = DeleteOp(s, x)
             /\ f = ArtifactOp(s, step, x) /\ g = RetryOp(s, step, x)
        OBVIOUS
    <1>2. \A o \in {a, b, c, d, e, f, g} :
             ~Mover(o) /\ ~Caller(o) /\ ~Clearing(o) /\ o.op # "create_session"
        BY <1>1 DEF VisitOp, HandoffOp, EscalateParentOp, EscalateOp, DeleteOp, ArtifactOp,
               RetryOp, Mover, Caller, Clearing
    <1>3. \A o \in {a, b, c, d, e, f, g} : Aside(<<o>>)
        BY <1>2, AsideOne
    <1> QED BY <1>1, <1>3

LEMMA OnwardOne ==
    ASSUME NEW o, NEW sid, NEW wf, NEW at, NEW old,
           Mover(o), o.sid = sid, Reaches(o, wf, at, old)
    PROVE  Onward(<<o>>, sid, wf, at, old)
    BY One, OrderedOne DEF Onward, Mover, Caller

LEMMA UpdateOnward ==
    ASSUME NEW sid, NEW wf, NEW at, NEW old, NEW to, NEW data,
           data # Null => Behind(data, wf, IF to = Null THEN at ELSE to),
           \A id \in old : FindStep(wf, id) <= Place(wf, IF to = Null THEN at ELSE to)
    PROVE  Onward(<<UpdateOp(sid, to, data)>>, sid, wf, at, old)
    <1>1. PICK o : o = UpdateOp(sid, to, data)
        OBVIOUS
    <1>2. o.op = "update_session" /\ o.sid = sid /\ o.step = to /\ o.data = data
        BY <1>1 DEF UpdateOp
    <1>3. Mover(o) /\ Reaches(o, wf, at, old)
        BY <1>2 DEF Mover, Reaches, Goal
    <1> QED BY <1>1, <1>2, <1>3, OnwardOne

LEMMA AutoOnward ==
    ASSUME NEW sid, NEW wf, NEW at, NEW old, NEW cont, NEW to, NEW data, Behind(data, wf, to),
           \A id \in old : FindStep(wf, id) <= Place(wf, to)
    PROVE  Onward(<<AutoOp(cont, sid, wf, to, data)>>, sid, wf, at, old)
    <1>1. PICK o : o = AutoOp(cont, sid, wf, to, data)
        OBVIOUS
    <1>2. o.op = "auto_execute" /\ o.sid = sid /\ o.at = to /\ o.data = data
        BY <1>1 DEF AutoOp
    <1>3. Mover(o) /\ Reaches(o, wf, at, old)
        BY <1>2 DEF Mover, Reaches, Goal
    <1> QED BY <1>1, <1>2, <1>3, OnwardOne

LEMMA ArriveOnward ==
    ASSUME NEW cont \in Conts, NEW sid, NEW wf, NEW at, NEW old, NEW to, NEW data, to # Null,
           Behind(data, wf, to), \A id \in old : FindStep(wf, id) <= Place(wf, to)
    PROVE  Onward(Arrive(cont, sid, wf, to, data), sid, wf, at, old)
    <1> DEFINE visit  == IF to = COMPLETE THEN <<>> ELSE <<VisitOp(sid, to)>>
               update == <<UpdateOp(sid, to, data)>>
               resume == IF to = COMPLETE THEN <<HandoffOp(sid, wf, data)>> ELSE <<>>
    <1>1. Aside(visit) /\ Aside(resume)
        BY AsideOps, AsideEmpty
    <1>2. Onward(update, sid, wf, at, old)
        BY UpdateOnward
    <1> HIDE DEF visit, update, resume
    <1>3. Onward(visit \o update, sid, wf, at, old) /\ Onward(update \o visit, sid, wf, at, old)
        BY <1>1, <1>2, OnwardAfter, OnwardBefore DEF Aside
    <1>4. Onward(visit \o update \o resume, sid, wf, at, old)
        BY <1>1, <1>3, OnwardBefore
    <1>5. CASE cont = "start"
        BY <1>3, <1>5 DEF Arrive, visit, update
    <1>6. CASE cont = "submit"
        BY <1>4, <1>6 DEF Arrive, visit, update, resume
    <1>7. CASE cont = "advance"
        BY <1>3, <1>7 DEF Arrive, visit, update
    <1> QED BY <1>5, <1>6, <1>7 DEF Conts

LEMMA ProceedOnward ==
    ASSUME NEW cont \in Conts, NEW sid, NEW wf, NEW at, NEW old, NEW to, NEW data, to # Null,
           Behind(data, wf, to), \A id \in old : FindStep(wf, id) <= Place(wf, to)
    PROVE  Onward(Proceed(cont, sid, wf, to, data), sid, wf, at, old)
    BY ArriveOnward, AutoOnward DEF Proceed

\* Where a step of a linear workflow leads, and what may be kept on the way.
LEMMA TargetBeyond ==
    ASSUME NEW wf, Straight(wf), NEW at \in StepIds(wf), NEW data, Behind(data, wf, at), NEW v,
           NEW target \in Places(wf), Place(wf, target) = FindStep(wf, at) + 1
    PROVE  /\ target # Null
           /\ Behind(Put(data, at, v), wf, at) /\ Behind(Put(data, at, v), wf, target)
           /\ Behind(data, wf, target)
    <1>1. Place(wf, at) = FindStep(wf, at) /\ FindStep(wf, at) \in Nat
        BY Placement
    <1>2. Behind(Put(data, at, v), wf, at)
        BY <1>1, BehindPut
    <1>3. Place(wf, at) <= Place(wf, target)
        BY <1>1
    <1>4. Behind(Put(data, at, v), wf, target) /\ Behind(data, wf, target)
        BY <1>2, <1>3, BehindFurther
    <1>5. target # Null
        BY WorkflowsAssumption DEF Straight, WellFormed, Places
    <1> QED BY <1>2, <1>4, <1>5

LEMMA LandingBeyond ==
    ASSUME NEW wf, Straight(wf), NEW from \in Places(wf), NEW data, NEW forced,
           NEW d, Behind(d, wf, from)
    PROVE  /\ ApplySkipLoop(wf, from, data, forced).step # Null
           /\ Behind(d, wf, ApplySkipLoop(wf, from, data, forced).step)
    <1>1. PICK to : to = ApplySkipLoop(wf, from, data, forced).step
        OBVIOUS
    <1>2. to \in Places(wf) /\ Place(wf, from) <= Place(wf, to)
        BY <1>1, LandingIsPlace, LandingFurther DEF Straight
    <1>3. Behind(d, wf, to)
        BY <1>2, BehindFurther
    <1>4. to # Null
        BY <1>2, WorkflowsAssumption DEF Straight, WellFormed, Places
    <1> QED BY <1>1, <1>3, <1>4

\* A move between two operations that neither move nor unlink.
LEMMA OnwardBetween ==
    ASSUME NEW a, NEW u, NEW c, NEW sid, NEW wf, NEW at, NEW old, Aside(<<a>>), Aside(<<c>>),
           Mover(u), u.sid = sid, Reaches(u, wf, at, old)
    PROVE  Onward(<<a, u, c>>, sid, wf, at, old)
    <1>1. /\ ~Mover(a) /\ ~Caller(a) /\ a.op # "create_session"
          /\ ~Mover(c) /\ ~Caller(c) /\ ~Clearing(c) /\ c.op # "create_session"
        BY One DEF Aside, Prepares
    <1>2. Ordered(<<a, u, c>>)
        BY <1>1 DEF Ordered
    <1>3. ~Caller(u) /\ u.op # "create_session"
        BY DEF Mover, Caller
    <1>4. \A o \in {a, u, c} :
             /\ ~Caller(o) /\ o.op # "create_session"
             /\ Mover(o) => o.sid = sid /\ Reaches(o, wf, at, old)
        BY <1>1, <1>3
    <1>5. PICK q : q = <<a, u, c>>
        OBVIOUS
    <1>6. IsSeq(q) /\ Range(q) = {a, u, c} /\ Ordered(q)
        BY <1>2, <1>5, Three
    <1>7. Onward(q, sid, wf, at, old)
        BY <1>4, <1>6 DEF Onward
    <1> QED BY <1>5, <1>7

LEMMA AcceptOnward ==
    ASSUME NEW sid, NEW row, Straight(WorkflowOf(row)), NEW step,
           NEW at, at = row.current_step, at \in StepIds(WorkflowOf(row)),
           step = StepAt(WorkflowOf(row), at), Behind(row.step_data, WorkflowOf(row), at),
           NEW content, NEW branch
    PROVE  Onward(AcceptPlan(sid, row, step, content, branch), sid, WorkflowOf(row), at,
                  DOMAIN row.step_data)
    <1> DEFINE wf        == WorkflowOf(row)
               data      == Put(row.step_data, step.id, content)
               guardrail == EvaluateGuardrails(wf, content, data,
                                               Count(row.step_visit_counts, step.id))
               target    == BranchTarget(wf, step, branch, guardrail)
               landing   == ApplySkipLoop(wf, target, data, ForceBranched(guardrail))
               old       == DOMAIN row.step_data
    <1>1. WellFormed(wf) /\ step \in Range(wf.steps) /\ step.id = at
        BY FoundStep DEF Straight
    <1>2. guardrail \in Range(wf.guardrails) \cup {Null}
        BY <1>1, GuardrailFound
    <1>3. target \in Places(wf) \cup {Null}
        BY <1>1, <1>2, TargetIsPlace
    <1>4. Place(wf, target) = FindStep(wf, at) + 1
        BY <1>1, <1>2, BranchFurther
    <1>5. Behind(data, wf, at)
        <2>1. Place(wf, at) = FindStep(wf, at) /\ FindStep(wf, at) \in Nat
            BY Placement
        <2> QED BY <1>1, <2>1, BehindPut
    <1>6. target # Null => Behind(data, wf, target) /\ Behind(row.step_data, wf, target)
        BY <1>1, <1>3, <1>4, TargetBeyond
    <1>7. target # Null =>
             /\ landing.step # Null
             /\ Behind(data, wf, landing.step) /\ Behind(row.step_data, wf, landing.step)
        BY <1>3, <1>6, LandingBeyond
    <1> HIDE DEF wf, data, guardrail, target, landing
    <1>8. target # Null => Onward(Proceed("submit", sid, wf, landing.step, data), sid, wf, at, old)
        BY <1>7, ProceedOnward DEF Conts, Behind
    <1>9. Onward(<<EscalateOp(sid), UpdateOp(sid, Null, data), EscalateParentOp(sid)>>,
                 sid, wf, at, old)
        <2>1. PICK a, u, c : /\ a = EscalateOp(sid) /\ u = UpdateOp(sid, Null, data)
                             /\ c = EscalateParentOp(sid)
            OBVIOUS
        <2>2. Aside(<<a>>) /\ Aside(<<c>>)
            BY <2>1, AsideOps
        <2>3. /\ u.op = "update_session" /\ u.sid = sid
              /\ u.step = Null /\ u.data = data
            BY <2>1 DEF UpdateOp
        <2>4. Mover(u) /\ Reaches(u, wf, at, old)
            BY <1>5, <2>3 DEF wf, Behind, Mover, Reaches, Goal
        <2> QED BY <2>1, <2>2, <2>3, <2>4, OnwardBetween
    <1>10. Onward(<<EscalateParentOp(sid)>>, sid, wf, at, old) /\ Onward(<<>>, sid, wf, at, old)
        BY AsideOps, AsideEmpty, PreparesOnward DEF Aside
    <1>11. AcceptPlan(sid, row, step, content, branch) =
              IF guardrail # Null /\ guardrail.action = "escalate"
              THEN <<EscalateOp(sid), UpdateOp(sid, Null, data), EscalateParentOp(sid)>>
              ELSE IF target = Null THEN <<>>
              ELSE IF landing.cascade THEN <<EscalateParentOp(sid)>>
              ELSE Proceed("submit", sid, wf, landing.step, data)
        BY DEF AcceptPlan, wf, data, guardrail, target, landing
    <1>12. Onward(AcceptPlan(sid, row, step, content, branch), sid, wf, at, old)
        BY <1>8, <1>9, <1>10, <1>11
    <1> QED BY <1>12 DEF wf

LEMMA SubmitOnward ==
    ASSUME NEW sid, NEW row, Straight(WorkflowOf(row)),
           NEW at, at = row.current_step, at \in StepIds(WorkflowOf(row)),
           Behind(row.step_data, WorkflowOf(row), at), NEW content, NEW branch, NEW art
    PROVE  Onward(SubmitPlan(sid, row, content, branch, art), sid, WorkflowOf(row), at,
                  DOMAIN row.step_data)
    <1> DEFINE wf         == WorkflowOf(row)
               step       == StepAt(wf, row.current_step)
               checkpoint == IF art \in step.checkpoints
                             THEN <<ArtifactOp(sid, step.id, art)>> ELSE <<>>
               accept     == AcceptPlan(sid, row, step, content, branch)
               old        == DOMAIN row.step_data
    <1>1. Onward(accept, sid, wf, at, old)
        BY AcceptOnward
    <1>2. Aside(checkpoint) /\ Aside(<<>>) /\ Aside(<<RetryOp(sid, step.id, step.max_retries)>>)
        BY AsideOps, AsideEmpty
    <1>3. SubmitPlan(sid, row, content, branch, art) =
              IF TopFrames(stack, sid) # {} \/ step.kind = "call" THEN <<>>
              ELSE IF step.artifacts # {}
              THEN IF art \notin step.artifacts \/ content \notin ValidContent THEN <<>>
                   ELSE IF art = step.output_from THEN checkpoint \o accept
                   ELSE checkpoint
              ELSE IF step.output_schema /\ content \notin ValidContent
              THEN <<RetryOp(sid, step.id, step.max_retries)>>
              ELSE accept
        BY DEF SubmitPlan
    <1> HIDE DEF wf, step, checkpoint, accept
    <1>4. Onward(checkpoint \o accept, sid, wf, at, old)
        BY <1>1, <1>2, OnwardAfter DEF Aside
    <1>5. \A p : Aside(p) => Onward(p, sid, wf, at, old)
        BY PreparesOnward DEF Aside
    <1>6. Onward(SubmitPlan(sid, row, content, branch, art), sid, wf, at, old)
        BY <1>1, <1>2, <1>3, <1>4, <1>5
    <1> QED BY <1>6 DEF wf

LEMMA AdvanceOnward ==
    ASSUME NEW parent, NEW wf, Straight(wf), NEW at \in StepIds(wf), NEW data, NEW v,
           Behind(data, wf, at)
    PROVE  Onward(AdvancePlan(parent, wf, StepAt(wf, at), Put(data, at, v)), parent, wf, at,
                  DOMAIN data)
    <1> DEFINE step    == StepAt(wf, at)
               new     == Put(data, at, v)
               target  == DefaultTarget(wf, step)
               landing == ApplySkipLoop(wf, target, new, FALSE)
    <1>1. step \in Range(wf.steps) /\ step.id = at /\ WellFormed(wf)
        BY FoundStep DEF Straight
    <1>2. target \in Places(wf) /\ Place(wf, target) = FindStep(wf, at) + 1
        BY <1>1, DefaultIsPlace, DefaultFurther
    <1>3. Behind(new, wf, target) /\ Behind(data, wf, target)
        BY <1>2, TargetBeyond
    <1>4. /\ landing.step # Null
          /\ Behind(new, wf, landing.step) /\ Behind(data, wf, landing.step)
        BY <1>2, <1>3, LandingBeyond
    <1> HIDE DEF step, new, target, landing
    <1>5. Onward(Proceed("advance", parent, wf, landing.step, new), parent, wf, at, DOMAIN data)
        BY <1>4, ProceedOnward DEF Conts, Behind
    <1>6. Onward(<<>>, parent, wf, at, DOMAIN data)
        BY AsideEmpty, PreparesOnward DEF Aside
    <1>7. AdvancePlan(parent, wf, step, new) =
              IF landing.cascade THEN <<>>
              ELSE Proceed("advance", parent, wf, landing.step, new)
        BY DEF AdvancePlan, landing, target
    <1>8. Onward(AdvancePlan(parent, wf, step, new), parent, wf, at, DOMAIN data)
        BY <1>5, <1>6, <1>7
    <1> QED BY <1>8 DEF step, new

\* Handing a completed child over: the frame goes before the session moves.
LEMMA PropagateOnward ==
    ASSUME NEW child, NEW childWf, NEW childData, NEW parent, NEW row, row = sessions[parent],
           Straight(WorkflowOf(row)),
           row.current_step \in StepIds(WorkflowOf(row)) =>
              Behind(row.step_data, WorkflowOf(row), row.current_step)
    PROVE  LET plan == PropagatePlan(child, childWf, childData, parent) IN
           \/ Aside(plan)
           \/ /\ Onward(plan, parent, WorkflowOf(row), row.current_step, DOMAIN row.step_data)
              /\ \A frames : Cleared(frames, plan, parent)
    <1> DEFINE wf       == WorkflowOf(row)
               at       == row.current_step
               artifact == Artifact(childWf, childData)
               advance  == AdvancePlan(parent, wf, StepAt(wf, at), Put(row.step_data, at, artifact))
               unlink   == <<DeleteOp(child, FALSE), ClearOp(parent)>>
    <1>1. at \in StepIds(wf) => Onward(advance, parent, wf, at, DOMAIN row.step_data)
        BY AdvanceOnward
    <1>2. PICK c : c = ClearOp(parent)
        OBVIOUS
    <1>3. c.op = "clear_called_session" /\ c.sid = parent
        BY <1>2 DEF ClearOp
    <1>4. Prepares(unlink) /\ c \in Range(unlink)
        <2>1. PICK d : d = DeleteOp(child, FALSE)
            OBVIOUS
        <2>2. \A o \in {c, d} : ~Mover(o) /\ ~Caller(o) /\ o.op # "create_session"
            BY <1>2, <2>1 DEF ClearOp, DeleteOp, Mover, Caller
        <2>3. IsSeq(unlink) /\ Range(unlink) = {d, c}
            BY <1>2, <2>1, Two
        <2> QED BY <2>2, <2>3 DEF Prepares
    <1>5. Aside(<<EscalateOp(parent)>>) /\ Aside(<<EscalateParentOp(child)>>)
        BY AsideOps
    <1>6. PropagatePlan(child, childWf, childData, parent) =
              IF at \notin StepIds(wf) \/ StepAt(wf, at).kind # "call"
              THEN <<EscalateOp(parent)>>
              ELSE IF StepAt(wf, at).output_schema /\ artifact \notin ValidContent
              THEN <<EscalateParentOp(child)>>
              ELSE unlink \o advance
        BY DEF PropagatePlan
    <1> HIDE DEF wf, at, artifact, advance, unlink
    <1>7. at \in StepIds(wf) =>
             /\ Onward(unlink \o advance, parent, wf, at, DOMAIN row.step_data)
             /\ \A frames : Cleared(frames, unlink \o advance, parent)
        <2> SUFFICES ASSUME at \in StepIds(wf)
                     PROVE  /\ Onward(unlink \o advance, parent, wf, at, DOMAIN row.step_data)
                            /\ \A frames : Cleared(frames, unlink \o advance, parent)
            OBVIOUS
        <2>1. Onward(unlink \o advance, parent, wf, at, DOMAIN row.step_data)
            BY <1>1, <1>4, OnwardAfter
        <2>2. c \in Range(unlink \o advance)
            BY <1>1, <1>4, Joined DEF Onward, Prepares
        <2> QED BY <1>3, <2>1, <2>2 DEF Cleared
    <1>8. PICK plan : plan = PropagatePlan(child, childWf, childData, parent)
        OBVIOUS
    <1>9. \/ Aside(plan)
          \/ /\ Onward(plan, parent, wf, at, DOMAIN row.step_data)
             /\ \A frames : Cleared(frames, plan, parent)
        BY <1>5, <1>6, <1>7, <1>8
    <1> QED BY <1>8, <1>9 DEF wf, at

LEMMA CascadeOnward ==
    ASSUME NEW sid, NEW wf, NEW at, NEW old, NEW to, to # Null, NEW data, Behind(data, wf, to),
           \A id \in old : FindStep(wf, id) <= Place(wf, to), NEW tail, Aside(tail)
    PROVE  Onward(<<UpdateOp(sid, to, data)>> \o tail, sid, wf, at, old)
    <1>1. Onward(<<UpdateOp(sid, to, data)>>, sid, wf, at, old)
        BY UpdateOnward
    <1> QED BY <1>1, OnwardBefore

\* revise_step drops the data after its target, and its child, before it moves.
Drops(plan, sid, steps) == steps \subseteq Dropped(plan, sid)
Unlinks(plan, sid) == \A frames : Cleared(frames, plan, sid)
UpdatesTo(plan, at, to) ==
    \A o \in Range(plan) : Mover(o) => o.op = "update_session" /\ Goal(o, at) = to
EndsWith(plan, o) == \E pre : Prepares(pre) /\ plan = pre \o <<o>>

LEMMA ReviseDrops ==
    ASSUME NEW sid, NEW wf, NEW step, NEW child, NEW plan, plan = RevisePlan(sid, wf, step, child)
    PROVE  /\ Drops(plan, sid, StepsAfter(wf, step.id))
           /\ step.kind = "call" /\ child # Null => Unlinks(plan, sid)
           /\ EndsWith(plan, UpdateOp(sid, step.id, Null))
    <1> DEFINE after    == StepsAfter(wf, step.id)
               unlink   == IF child = Null THEN <<>> ELSE <<DeleteOp(child, TRUE), ClearOp(sid)>>
               callStep == IF step.kind = "call"
                           THEN unlink \o <<InvalidateOp(sid, {step.id})>> ELSE <<>>
    <1>1. PICK i, c, d, k, u :
             /\ i = InvalidateOp(sid, after) /\ c = ClearOp(sid) /\ d = DeleteOp(child, TRUE)
             /\ k = InvalidateOp(sid, {step.id}) /\ u = UpdateOp(sid, step.id, Null)
        OBVIOUS
    <1>2. /\ i.op = "invalidate_steps" /\ i.sid = sid /\ i.steps = after
          /\ c.op = "clear_called_session" /\ c.sid = sid
          /\ d.op = "delete_session" /\ k.op = "invalidate_steps"
        BY <1>1 DEF InvalidateOp, ClearOp, DeleteOp
    <1>3. \A o \in {i, c, d, k} : ~Mover(o) /\ ~Caller(o) /\ o.op # "create_session"
        BY <1>2 DEF Mover, Caller
    <1>4. Prepares(<<i>>) /\ Prepares(<<k>>) /\ Range(<<i>>) = {i} /\ Prepares(<<>>)
        BY <1>3, PreparesOne, One, AsideEmpty DEF Aside
    <1>5. Prepares(<<d, c>>) /\ c \in Range(<<d, c>>)
        <2>1. IsSeq(<<d, c>>) /\ Range(<<d, c>>) = {d, c}
            BY Two
        <2> QED BY <1>3, <2>1 DEF Prepares
    <1>6. Prepares(unlink) /\ (child # Null => c \in Range(unlink))
        BY <1>1, <1>4, <1>5
    <1>7. Prepares(callStep) /\ (step.kind = "call" /\ child # Null => c \in Range(callStep))
        <2>1. Prepares(unlink \o <<k>>) /\ Range(unlink \o <<k>>) = Range(unlink) \cup Range(<<k>>)
            BY <1>4, <1>6, PreparesJoined, Joined DEF Prepares
        <2> HIDE DEF unlink
        <2> QED BY <1>1, <1>4, <1>6, <2>1
    <1> HIDE DEF after, callStep
    <1>8. PICK pre : pre = <<i>> \o callStep
        OBVIOUS
    <1>9. Prepares(pre) /\ Range(pre) = {i} \cup Range(callStep)
        BY <1>4, <1>7, <1>8, PreparesJoined, Joined DEF Prepares
    <1>10. IsSeq(<<u>>) /\ Range(<<u>>) = {u}
        BY One
    <1>11. plan = pre \o <<u>>
        BY <1>1, <1>8 DEF RevisePlan, after, callStep
    <1>12. Range(plan) = Range(pre) \cup {u}
        BY <1>9, <1>10, <1>11, Joined DEF Prepares
    <1>13. Drops(plan, sid, after)
        BY <1>2, <1>9, <1>12 DEF Dropped, Drops
    <1>14. step.kind = "call" /\ child # Null => Unlinks(plan, sid)
        BY <1>2, <1>7, <1>9, <1>12 DEF Cleared, Unlinks
    <1>15. EndsWith(plan, UpdateOp(sid, step.id, Null))
        BY <1>1, <1>9, <1>11 DEF EndsWith
    <1> QED BY <1>13, <1>14, <1>15 DEF after

LEMMA ReviseOnward ==
    ASSUME NEW sid, NEW wf, Straight(wf), NEW step, step.id \in StepIds(wf), NEW child, NEW at,
           NEW known \in SUBSET StepIds(wf), NEW plan, plan = RevisePlan(sid, wf, step, child)
    PROVE  /\ Onward(plan, sid, wf, at, known \ StepsAfter(wf, step.id))
           /\ UpdatesTo(plan, at, step.id)
    <1>1. PICK old : old = known \ StepsAfter(wf, step.id)
        OBVIOUS
    <1>2. PICK pre, u : /\ Prepares(pre) /\ u = UpdateOp(sid, step.id, Null)
                        /\ plan = pre \o <<u>>
        <2>1. EndsWith(plan, UpdateOp(sid, step.id, Null))
            BY ReviseDrops
        <2> QED BY <2>1 DEF EndsWith
    <1>3. u.op = "update_session" /\ u.step = step.id /\ u.step # Null
        BY <1>2, WorkflowsAssumption DEF UpdateOp, Straight, WellFormed
    <1>4. \A id \in old : FindStep(wf, id) <= Place(wf, step.id)
        <2> SUFFICES ASSUME NEW id \in known, ~(FindStep(wf, id) <= Place(wf, step.id))
                     PROVE  id \in StepsAfter(wf, step.id)
            BY <1>1
        <2>1. WellFormed(wf) /\ id \in StepIds(wf)
            BY DEF Straight
        <2>2. FindStep(wf, id) \in 1..Len(wf.steps) /\ wf.steps[FindStep(wf, id)].id = id
            BY <2>1, FoundStep DEF StepAt
        <2>3. /\ FindStep(wf, step.id) \in Nat /\ Len(wf.steps) \in Nat
              /\ Place(wf, step.id) = FindStep(wf, step.id)
            BY Placement
        <2>4. FindStep(wf, id) \in (FindStep(wf, step.id) + 1)..Len(wf.steps)
            BY <2>2, <2>3
        <2> QED BY <2>2, <2>4 DEF StepsAfter
    <1>5. Onward(<<u>>, sid, wf, at, old)
        BY <1>2, <1>3, <1>4, UpdateOnward
    <1>6. Onward(plan, sid, wf, at, old) /\ Range(plan) = Range(pre) \cup {u}
        <2>1. IsSeq(<<u>>) /\ Range(<<u>>) = {u}
            BY One
        <2> QED BY <1>2, <1>5, <2>1, OnwardAfter, Joined DEF Prepares
    <1>7. UpdatesTo(plan, at, step.id)
        BY <1>2, <1>3, <1>6 DEF Prepares, Goal, UpdatesTo
    <1> QED BY <1>1, <1>6, <1>7

---------------------------------------------------------------------------
(***************************************************************************)
(* The calls and the decisions.                                            *)
(***************************************************************************)
LEMMA DecidedOnward ==
    ASSUME OneThread, LinearWorkflows, IInv, BehindInv, NEW t \in Thread, NEW plan, Do(t, plan),
           UnchangedStore, NEW sid, NEW wf, NEW at, NEW old, Onward(plan, sid, wf, at, old),
           sid \in DOMAIN sessions =>
              /\ WorkflowOf(sessions[sid]) = wf
              /\ sessions[sid].current_step = at
              /\ DOMAIN sessions[sid].step_data \ Dropped(plan, sid) \subseteq old
              /\ \A o \in Range(plan) : Mover(o) =>
                    Cleared(stack, plan, sid) \/ Retreats(o, wf, at)
    PROVE  StepBehind
    <1>1. sessions' = sessions /\ stack' = stack
        BY DEF UnchangedStore
    <1>2. Course(plan)'
        BY <1>1, OnwardCourse
    <1> QED BY <1>2, StillCalm, CalmStep

LEMMA DecidedIdles ==
    ASSUME OneThread, LinearWorkflows, IInv, BehindInv, NEW t \in Thread, NEW plan, Do(t, plan),
           Calm, Idles(plan)
    PROVE  StepBehind
    BY IdlesCourse, CalmStep

LEMMA StartWorkflowBehind ==
    ASSUME OneThread, LinearWorkflows, IInv, BehindInv, NEW t \in Thread, NEW w \in Workflow,
           NEW sid \in Sid, StartWorkflow(t, w, sid)
    PROVE  StepBehind
    <1> DEFINE wf   == Definition[w][live[w]]
               auto == AutoOp("start", sid, wf, FirstStep(wf).id, <<>>)
    <1>1. PICK row, c, visit, a, more :
             /\ row = NewRow(w, Null) /\ c = CreateOp(sid, row, "call", Null, Null)
             /\ visit = VisitOp(sid, FirstStep(wf).id)
             /\ a = auto
             /\ more = IF FirstStep(wf).kind = "mcp" THEN <<auto>> ELSE <<>>
        OBVIOUS
    <1>2. /\ Do(t, <<c, visit>> \o more) /\ UnchangedStore
          /\ sid \notin minted
        BY <1>1 DEF StartWorkflow
    <1>3. /\ c.op = "create_session" /\ c.sid = sid /\ c.row = row
          /\ row.parent_session_id = Null /\ row.step_data = <<>> /\ WorkflowOf(row) = wf
          /\ visit.op = "increment_visit"
          /\ a.op = "auto_execute" /\ a.sid = sid /\ a.data = <<>>
        BY <1>1 DEF CreateOp, NewRow, VisitOp, AutoOp, WorkflowOf
    <1>4. IsSeq(more) /\ Range(more) \subseteq {a} /\ Ordered(more)
        BY <1>1, One, Empty, OrderedOne, OrderedEmpty
    <1> HIDE DEF auto, wf
    <1>5. PICK q, pre : q = pre \o more /\ pre = <<c, visit>>
        OBVIOUS
    <1>6. q # <<>> /\ Head(q) = c /\ Range(Tail(q)) = {visit} \cup Range(more)
        BY <1>4, <1>5, HeadOfJoined
    <1>7. IsSeq(pre) /\ Range(pre) = {c, visit} /\ \A o \in Range(pre) : ~Mover(o) /\ ~Caller(o)
        <2>1. IsSeq(pre) /\ Range(pre) = {c, visit}
            BY <1>5, Two
        <2> QED BY <1>3, <2>1 DEF Mover, Caller
    <1>8. Ordered(pre)
        <2>1. ~Mover(c) /\ ~Mover(visit)
            BY <1>7
        <2> QED BY <1>5, <2>1 DEF Ordered
    <1>9. Ordered(q) /\ Range(q) = Range(pre) \cup Range(more)
        BY <1>4, <1>5, <1>7, <1>8, OrderedJoined, Joined
    <1>10. \A o \in Range(q) : o = c \/ o = visit \/ o = a
        BY <1>4, <1>7, <1>9
    <1>11. ~Caller(c) /\ ~Caller(visit) /\ ~Caller(a)
        BY <1>3 DEF Caller
    <1>12. sid \notin DOMAIN sessions
        BY <1>2 DEF IInv, StoreOK
    <1>13. \A o \in Range(q) : ~Mover(o) \/ o.sid = sid
        BY <1>3, <1>7, <1>10
    <1>14. TopFrames(stack, sid) = {}
        <2>1. sid \notin DOMAIN stack /\ \A s \in DOMAIN stack : stack[s].root # sid
            BY <1>2 DEF IInv, StoreOK
        <2> QED BY <2>1 DEF TopFrames, ChildSlot, FramesAt
    <1>15. StartOK(stack, c, Tail(q))
        <2>1. DOMAIN row.step_data = {} /\ DOMAIN a.data = {}
            BY <1>3
        <2>2. MoveOK(stack, Tail(q), a, row)
            <3>1. Reaches(a, WorkflowOf(row), row.current_step,
                          DOMAIN row.step_data \ Dropped(Tail(q), a.sid))
                BY <2>1 DEF Reaches, Behind
            <3> QED BY <1>3, <1>14, <3>1 DEF MoveOK, Cleared
        <2>3. \A o \in Range(Tail(q)) : Mover(o) => o = a
            BY <1>3, <1>4, <1>6 DEF Mover
        <2> QED BY <1>3, <2>1, <2>2, <2>3 DEF StartOK
    <1>16. UNCHANGED <<sessions, stack>>
        BY <1>2 DEF UnchangedStore
    <1>17. \A o \in Range(q) : ~Caller(o) /\ (o.sid \in DOMAIN sessions => MoveOK(stack, q, o, sessions[o.sid]))
        BY <1>10, <1>11, <1>12, <1>13 DEF MoveOK
    <1>18. Course(q)'
        BY <1>6, <1>9, <1>15, <1>16, <1>17 DEF Course
    <1> QED BY <1>2, <1>5, <1>18, StillCalm, CalmStep

\* A call of one operation.
LEMMA CallBehind ==
    ASSUME OneThread, LinearWorkflows, IInv, BehindInv, NEW t \in Thread, NEW o, Do(t, <<o>>),
           UnchangedStore, ~Mover(o), o.op # "create_session",
           Caller(o) => o.sid \in DOMAIN sessions /\ o.row = sessions[o.sid]
    PROVE  StepBehind
    <1>1. <<o>> # <<>> /\ Head(<<o>>) = o /\ Range(<<o>>) = {o} /\ Ordered(<<o>>)
        BY One, OrderedOne
    <1>2. UNCHANGED <<sessions, stack>>
        BY DEF UnchangedStore
    <1>3. Course(<<o>>)'
        BY <1>1, <1>2 DEF Course, MoveOK
    <1> QED BY <1>3, StillCalm, CalmStep

LEMMA MarkIdles ==
    ASSUME NEW sid
    PROVE  Idles(<<UpdateOp(sid, WORKFLOW_CHANGED, Null)>>)
    <1>1. PICK o : o = UpdateOp(sid, WORKFLOW_CHANGED, Null)
        OBVIOUS
    <1>2. o.op = "update_session" /\ Marks(o)
        BY <1>1 DEF UpdateOp, Marks
    <1>3. Idles(<<o>>)
        BY <1>2, IdlesOne DEF Caller
    <1> QED BY <1>1, <1>3

LEMMA ThenOnIdles ==
    ASSUME NEW sid, NEW plan, Idles(plan)
    PROVE  Idles(ThenOn(sid, plan))
    BY MarkIdles, IdlesEmpty DEF ThenOn

LEMMA CallsBehind ==
    ASSUME OneThread, LinearWorkflows, IInv, BehindInv, NEW t \in Thread, Call(t)
    PROVE  StepBehind
    <1>1. CASE \E w \in Workflow, sid \in Sid : StartWorkflow(t, w, sid)
        BY <1>1, StartWorkflowBehind
    <1>2. CASE \E sid \in Sid : ResolveMismatch(t, sid)
        <2>1. PICK sid : Do(t, ThenOn(sid, <<>>)) /\ UnchangedStore
            BY <1>2 DEF ResolveMismatch
        <2> QED BY <2>1, IdlesEmpty, ThenOnIdles, StillCalm, DecidedIdles
    <1>3. ASSUME NEW tool, NEW sid \in DOMAIN sessions, NEW call, Resolved(t, tool, sid, call),
                 call.op \in {"submit_step", "revise_step", "enter_sub_workflow", "push_flow",
                              "pop_flow"},
                 call.sid = sid,
                 call.op \in {"submit_step", "revise_step"} => call.row = sessions[sid]
          PROVE  StepBehind
        BY <1>3, CallBehind DEF Resolved, Mover, Caller
    <1>4. CASE \E sid \in DOMAIN sessions, content \in Content :
                 \E branch \in StepNames \cup {Null}, art \in ArtifactNames \cup {Null} :
                    SubmitStep(t, sid, content, branch, art)
        BY <1>3, <1>4 DEF SubmitStep
    <1>5. CASE \E sid \in DOMAIN sessions, step \in StepNames : ReviseStep(t, sid, step)
        BY <1>3, <1>5 DEF ReviseStep
    <1>6. CASE \E sid \in DOMAIN sessions, child \in Sid : EnterSubWorkflow(t, sid, child)
        BY <1>3, <1>6 DEF EnterSubWorkflow
    <1>7. CASE \E sid \in DOMAIN sessions, child \in Sid, w \in Workflow :
                 PushFlow(t, sid, w, child)
        BY <1>3, <1>7 DEF PushFlow
    <1>8. CASE \E sid \in DOMAIN sessions : PopFlow(t, sid)
        BY <1>3, <1>8 DEF PopFlow
    <1>9. CASE \E sid \in DOMAIN sessions : DeleteSession(t, sid)
        <2>1. PICK sid : Do(t, <<DeleteOp(sid, FALSE)>>) /\ UnchangedStore
            BY <1>9 DEF DeleteSession
        <2> QED BY <2>1, AsideOps, PreparesIdles, StillCalm, DecidedIdles DEF Aside
    <1> QED BY <1>1, <1>2, <1>4, <1>5, <1>6, <1>7, <1>8, <1>9 DEF Call

\* What the running call saw of its session is still so.
LEMMA SnapshotStands ==
    ASSUME IInv, BehindInv, LinearWorkflows, NEW t \in Thread, th[t] # <<>>,
           NEW o, o = Head(th[t]), Caller(o)
    PROVE  /\ o.sid \in DOMAIN sessions /\ o.row = sessions[o.sid] /\ RowOK(o.row)
           /\ Straight(WorkflowOf(o.row)) /\ SnapshotOK(o)
           /\ Behind(o.row.step_data, WorkflowOf(o.row), o.row.current_step)
    <1>1. /\ o \in Range(th[t]) /\ StepOK(th[t], o)
        BY HeadOK, HeadAndTail DEF WorkOK
    <1>2. o.sid \in DOMAIN sessions /\ o.row = sessions[o.sid]
        BY <1>1 DEF BehindInv, Course
    <1>3. SnapshotOK(o) /\ Fits(o, sessions[o.sid])
        BY <1>1, <1>2 DEF StepOK, OpOK, Caller
    <1>4. o.row.current_step # WORKFLOW_CHANGED
        BY <1>2, <1>3 DEF Fits, Caller, Resolvable
    <1>5. RowOK(o.row)
        BY <1>3 DEF SnapshotOK
    <1> QED BY <1>2, <1>3, <1>4, <1>5, StraightRow DEF BehindInv, DataBehind

LEMMA DecideSubmitStepBehind ==
    ASSUME OneThread, LinearWorkflows, IInv, BehindInv, NEW t \in Thread, DecideSubmitStep(t)
    PROVE  StepBehind
    <1>1. PICK o : o = Head(th[t])
        OBVIOUS
    <1>2. PICK plan : /\ plan = SubmitPlan(o.sid, o.row, o.content, o.branch, o.art)
                      /\ Do(t, plan) /\ UnchangedStore
        BY <1>1 DEF DecideSubmitStep, Decide
    <1>3. th[t] # <<>> /\ o.op = "submit_step"
        BY <1>1 DEF DecideSubmitStep, Pending
    <1>4. PICK row, wf, at, old :
             /\ row = o.row /\ wf = WorkflowOf(row) /\ at = row.current_step
             /\ old = DOMAIN row.step_data
        OBVIOUS
    <1>5. /\ row = sessions[o.sid] /\ Straight(wf) /\ SnapshotOK(o)
          /\ Behind(row.step_data, wf, at)
        BY <1>1, <1>3, <1>4, SnapshotStands DEF Caller
    <1>6. at \in StepIds(wf)
        BY <1>3, <1>4, <1>5 DEF SnapshotOK
    <1>7. Onward(plan, o.sid, wf, at, old)
        BY <1>2, <1>4, <1>5, <1>6, SubmitOnward
    <1>8. CASE TopFrames(stack, o.sid) = {}
        BY <1>2, <1>4, <1>5, <1>7, <1>8, DecidedOnward DEF Cleared
    <1>9. CASE TopFrames(stack, o.sid) # {}
        <2>1. plan = <<>>
            BY <1>2, <1>9 DEF SubmitPlan
        <2> QED BY <1>2, <2>1, IdlesEmpty, StillCalm, DecidedIdles
    <1> QED BY <1>8, <1>9

LEMMA DecideReviseStepBehind ==
    ASSUME OneThread, LinearWorkflows, IInv, BehindInv, NEW t \in Thread, DecideReviseStep(t)
    PROVE  StepBehind
    <1>1. PICK o : o = Head(th[t])
        OBVIOUS
    <1> DEFINE children == TopFrames(stack, o.sid)
    <1>2. th[t] # <<>> /\ o.op = "revise_step"
        BY <1>1 DEF DecideReviseStep, Pending
    <1>3. PICK row, wf, at, step :
             /\ row = o.row /\ wf = WorkflowOf(row) /\ at = row.current_step
             /\ step = StepAt(wf, o.step)
        OBVIOUS
    <1>4. PICK child, plan :
              /\ child \in IF children = {} THEN {Null} ELSE children
              /\ Do(t, plan) /\ UnchangedStore
              /\ \/ plan = <<>>
                 \/ /\ plan = RevisePlan(o.sid, wf, step, child)
                    /\ \/ o.step \in DOMAIN row.step_data
                       \/ step.kind = "call" /\ children # {}
        <2>1. PICK child \in IF children = {} THEN {Null} ELSE children :
                 Decide(t, IF /\ o.sid \notin DOMAIN stack
                              /\ \/ o.step \in DOMAIN row.step_data
                                 \/ step.kind = "call" /\ children # {}
                           THEN RevisePlan(o.sid, wf, step, child) ELSE <<>>)
            BY <1>1, <1>3 DEF DecideReviseStep
        <2> HIDE DEF children
        <2> QED BY <2>1 DEF Decide
    <1>5. CASE plan = <<>>
        BY <1>4, <1>5, IdlesEmpty, StillCalm, DecidedIdles
    <1>6. CASE /\ plan = RevisePlan(o.sid, wf, step, child)
               /\ \/ o.step \in DOMAIN row.step_data
                  \/ step.kind = "call" /\ children # {}
        <2>1. /\ o.sid \in DOMAIN sessions /\ row = sessions[o.sid] /\ RowOK(row)
              /\ Straight(wf) /\ SnapshotOK(o) /\ Behind(row.step_data, wf, at)
            BY <1>1, <1>2, <1>3, SnapshotStands DEF Caller
        <2>2. o.step \in StepIds(wf)
            BY <1>2, <1>3, <2>1 DEF SnapshotOK
        <2>3. step.id = o.step /\ DOMAIN row.step_data \subseteq StepIds(wf)
            BY <1>3, <2>1, <2>2, FoundStep DEF Straight, RowOK
        <2>4. PICK old : old = DOMAIN row.step_data \ StepsAfter(wf, step.id)
            OBVIOUS
        <2>5. /\ Onward(plan, o.sid, wf, at, old)
              /\ StepsAfter(wf, step.id) \subseteq Dropped(plan, o.sid)
              /\ step.kind = "call" /\ child # Null => \A frames : Cleared(frames, plan, o.sid)
              /\ \A p \in Range(plan) : Mover(p) => p.op = "update_session" /\ Goal(p, at) = step.id
            <3>1. PICK known : known = DOMAIN row.step_data
                OBVIOUS
            <3>2. known \in SUBSET StepIds(wf) /\ step.id \in StepIds(wf)
                BY <2>2, <2>3, <3>1
            <3>3. plan = RevisePlan(o.sid, wf, step, child) /\ Straight(wf)
                BY <1>6, <2>1
            <3>4. PICK sid : sid = o.sid
                OBVIOUS
            <3>5. /\ Onward(plan, sid, wf, at, known \ StepsAfter(wf, step.id))
                  /\ Drops(plan, sid, StepsAfter(wf, step.id))
                  /\ step.kind = "call" /\ child # Null => Unlinks(plan, sid)
                  /\ UpdatesTo(plan, at, step.id)
                <4> HIDE DEF children
                <4>1. Straight(wf) /\ plan = RevisePlan(sid, wf, step, child)
                    BY <3>3, <3>4
                <4>2. /\ Onward(plan, sid, wf, at, known \ StepsAfter(wf, step.id))
                      /\ UpdatesTo(plan, at, step.id)
                    BY <3>2, <4>1, ReviseOnward
                <4>3. /\ Drops(plan, sid, StepsAfter(wf, step.id))
                      /\ step.kind = "call" /\ child # Null => Unlinks(plan, sid)
                    BY <4>1, ReviseDrops
                <4> QED BY <4>2, <4>3
            <3> QED BY <2>4, <3>1, <3>4, <3>5 DEF Drops, Unlinks, UpdatesTo
        <2>6. DOMAIN row.step_data \ Dropped(plan, o.sid) \subseteq old
            BY <2>4, <2>5
        <2>7. ASSUME NEW p \in Range(plan), Mover(p)
              PROVE  Cleared(stack, plan, o.sid) \/ Retreats(p, wf, at)
            <3>1. CASE o.step \in DOMAIN row.step_data
                <4>1. FindStep(wf, o.step) <= Place(wf, at) /\ Place(wf, o.step) = FindStep(wf, o.step)
                    BY <2>1, <2>2, <3>1, Placement DEF Behind
                <4> QED BY <2>3, <2>5, <2>7, <4>1 DEF Retreats
            <3>2. CASE step.kind = "call" /\ children # {}
                <4>1. children \subseteq minted /\ Null \notin minted
                    BY TopFramesMinted, StoreAssumption DEF IInv, StoreOK
                <4>2. child # Null
                    BY <1>4, <3>2, <4>1
                <4> QED BY <2>5, <3>2, <4>2
            <3> QED BY <1>6, <3>1, <3>2
        <2> HIDE DEF children
        <2> QED BY <1>3, <1>4, <2>1, <2>5, <2>6, <2>7, DecidedOnward
    <1> HIDE DEF children
    <1> QED BY <1>4, <1>5, <1>6

\* The two decisions that lead to a creation.
LEMMA CreationCourse ==
    ASSUME OneThread, LinearWorkflows, IInv, BehindInv, NEW t \in Thread, UnchangedStore,
           NEW q, Do(t, q), IsSeq(q), q # <<>>, DOMAIN Head(q).row.step_data = {},
           \A o \in Range(q) : ~Mover(o) /\ ~Caller(o)
    PROVE  StepBehind
    <1>1. \A i \in DOMAIN q : q[i] \in Range(q)
        BY DEF Range
    <1>2. Ordered(q)
        BY <1>1 DEF Ordered
    <1>3. \A o \in Range(Tail(q)) : ~Mover(o)
        BY HeadAndTail
    <1>4. Course(q)'
        BY <1>2, <1>3 DEF Course, MoveOK, StartOK
    <1> QED BY <1>4, StillCalm, CalmStep

LEMMA DecideEnterSubWorkflowBehind ==
    ASSUME OneThread, LinearWorkflows, IInv, BehindInv, NEW t \in Thread,
           DecideEnterSubWorkflow(t)
    PROVE  StepBehind
    <1>1. PICK o : o = Head(th[t])
        OBVIOUS
    <1> DEFINE step == StepAt(WorkflowOf(o.row), o.row.current_step)
    <1>2. PICK row, c, v, l :
             /\ row = NewRow(step.call, o.sid)
             /\ c = CreateOp(o.child, row, "call", Null, Null)
             /\ v = VisitOp(o.child, row.current_step)
             /\ l = LinkOp(o.sid, o.child, step.id)
        OBVIOUS
    <1>3. PICK q : Do(t, q) /\ UnchangedStore /\ (q = <<>> \/ q = <<c, v, l>>)
        BY <1>1, <1>2 DEF DecideEnterSubWorkflow, Decide
    <1>4. /\ c.op = "create_session" /\ c.row = row /\ row.step_data = <<>>
          /\ v.op = "increment_visit" /\ l.op = "set_called_session"
        BY <1>2 DEF CreateOp, NewRow, VisitOp, LinkOp
    <1>5. CASE q = <<>>
        BY <1>3, <1>5, IdlesEmpty, StillCalm, DecidedIdles
    <1>6. CASE q = <<c, v, l>>
        <2>1. IsSeq(q) /\ q # <<>> /\ Head(q) = c /\ Range(q) = {c, v, l}
            BY <1>6, Three
        <2>2. \A p \in {c, v, l} : ~Mover(p) /\ ~Caller(p)
            BY <1>4 DEF Mover, Caller
        <2>3. DOMAIN c.row.step_data = {}
            BY <1>4
        <2> QED BY <1>3, <2>1, <2>2, <2>3, CreationCourse
    <1> QED BY <1>3, <1>5, <1>6

LEMMA DecidePushFlowBehind ==
    ASSUME OneThread, LinearWorkflows, IInv, BehindInv, NEW t \in Thread, DecidePushFlow(t)
    PROVE  StepBehind
    <1>1. PICK o : o = Head(th[t])
        OBVIOUS
    <1>2. PICK row, c, v :
             /\ row = NewRow(o.w, o.sid)
             /\ c = CreateOp(o.child, row, "digression", o.row.current_step, MaxStackDepth)
             /\ v = VisitOp(o.child, row.current_step)
        OBVIOUS
    <1>3. PICK q : Do(t, q) /\ UnchangedStore /\ (q = <<>> \/ q = <<c, v>>)
        BY <1>1, <1>2 DEF DecidePushFlow, Decide
    <1>4. /\ c.op = "create_session" /\ c.row = row /\ row.step_data = <<>>
          /\ v.op = "increment_visit"
        BY <1>2 DEF CreateOp, NewRow, VisitOp
    <1>5. CASE q = <<>>
        BY <1>3, <1>5, IdlesEmpty, StillCalm, DecidedIdles
    <1>6. CASE q = <<c, v>>
        <2>1. IsSeq(q) /\ q # <<>> /\ Head(q) = c /\ Range(q) = {c, v}
            BY <1>6, Two
        <2>2. \A p \in {c, v} : ~Mover(p) /\ ~Caller(p)
            BY <1>4 DEF Mover, Caller
        <2>3. DOMAIN c.row.step_data = {}
            BY <1>4
        <2> QED BY <1>3, <2>1, <2>2, <2>3, CreationCourse
    <1> QED BY <1>3, <1>5, <1>6

LEMMA ResumeIdles ==
    ASSUME NEW child, NEW outer
    PROVE  Idles(ResumePlan(child, outer))
    BY AsideOps, PreparesIdles, ThenOnIdles DEF Aside, ResumePlan

LEMMA DecidePopFlowBehind ==
    ASSUME OneThread, LinearWorkflows, IInv, BehindInv, NEW t \in Thread, DecidePopFlow(t)
    PROVE  StepBehind
    <1>1. PICK plan : /\ Do(t, plan) /\ UnchangedStore
                      /\ plan = <<>> \/ \E sid, p : plan = ResumePlan(sid, p)
        BY DEF DecidePopFlow, Decide
    <1>2. Idles(plan)
        BY <1>1, IdlesEmpty, ResumeIdles
    <1> QED BY <1>1, <1>2, StillCalm, DecidedIdles

LEMMA DecideAutoResumeBehind ==
    ASSUME OneThread, LinearWorkflows, IInv, BehindInv, NEW t \in Thread, DecideAutoResume(t)
    PROVE  StepBehind
    <1>1. PICK o : o = Head(th[t])
        OBVIOUS
    <1>2. PICK plan :
             /\ Do(t, plan) /\ UnchangedStore
             /\ \/ plan = <<>>
                \/ \E p : \/ plan = ResumePlan(o.sid, p)
                          \/ plan = ThenOn(p, PropagatePlan(o.sid, o.wf, o.data, p))
        BY <1>1 DEF DecideAutoResume, Decide
    <1>3. CASE plan = <<>> \/ \E p : plan = ResumePlan(o.sid, p)
        BY <1>2, <1>3, IdlesEmpty, ResumeIdles, StillCalm, DecidedIdles
    <1>4. ASSUME NEW p, plan = ThenOn(p, PropagatePlan(o.sid, o.wf, o.data, p))
          PROVE  StepBehind
        <2>1. CASE Resolve(p) # "ok"
            <3>1. plan = ThenOn(p, <<>>)
                BY <1>4, <2>1 DEF ThenOn
            <3> QED BY <1>2, <3>1, IdlesEmpty, ThenOnIdles, StillCalm, DecidedIdles
        <2>2. CASE Resolve(p) = "ok"
            <3>1. PICK row, wf, at :
                     row = sessions[p] /\ wf = WorkflowOf(row) /\ at = row.current_step
                OBVIOUS
            <3>2. p \in DOMAIN sessions /\ RowOK(row) /\ at # WORKFLOW_CHANGED
                BY <2>2, <3>1 DEF Resolve, IInv, StoreOK
            <3>3. Straight(wf) /\ Behind(row.step_data, wf, at)
                BY <3>1, <3>2, StraightRow DEF BehindInv, DataBehind
            <3>4. plan = PropagatePlan(o.sid, o.wf, o.data, p)
                BY <1>4, <2>2 DEF ThenOn
            <3>5. \/ Aside(plan)
                  \/ /\ Onward(plan, p, wf, at, DOMAIN row.step_data)
                     /\ \A frames : Cleared(frames, plan, p)
                BY <3>1, <3>3, <3>4, PropagateOnward
            <3>6. CASE Aside(plan)
                BY <1>2, <3>6, PreparesIdles, StillCalm, DecidedIdles DEF Aside
            <3>7. CASE /\ Onward(plan, p, wf, at, DOMAIN row.step_data)
                       /\ \A frames : Cleared(frames, plan, p)
                BY <1>2, <3>1, <3>7, DecidedOnward
            <3> QED BY <3>5, <3>6, <3>7
        <2> QED BY <2>1, <2>2
    <1> QED BY <1>2, <1>3, <1>4

LEMMA DecideEscalateParentBehind ==
    ASSUME OneThread, LinearWorkflows, IInv, BehindInv, NEW t \in Thread, DecideEscalateParent(t)
    PROVE  StepBehind
    <1>1. PICK plan : /\ Do(t, plan) /\ UnchangedStore
                      /\ plan = <<>> \/ \E p : plan = <<EscalateOp(p)>>
        BY DEF DecideEscalateParent, Decide
    <1>2. Idles(plan)
        BY <1>1, IdlesEmpty, AsideOps, PreparesIdles DEF Aside
    <1> QED BY <1>1, <1>2, StillCalm, DecidedIdles

---------------------------------------------------------------------------
(***************************************************************************)
(* The transactions.                                                       *)
(***************************************************************************)
LEMMA MovedStep ==
    ASSUME OneThread, IInv, NEW t \in Thread, NEW plan, Do(t, plan), Course(plan)',
           DataBehind', PausedStays
    PROVE  StepBehind
    <1>1. DOMAIN th = Thread
        BY DEF IInv, ThreadsOK
    <1>2. th'[t] = plan /\ \A u \in Thread : u = t
        BY <1>1 DEF Do, OneThread
    <1>3. \A u \in Thread : Course(th[u])'
        BY <1>2
    <1> QED BY <1>3 DEF BehindInv, StepBehind

LEMMA IndexNat ==
    ASSUME LinearWorkflows, IInv, NEW s \in DOMAIN sessions
    PROVE  StepIndex(sessions[s]) \in Nat
    BY StraightRow, Placement, IndexIsPlace DEF IInv, StoreOK

\* A transaction that moves nothing, at the head of its plan.
LEMMA CalmTransaction ==
    ASSUME OneThread, LinearWorkflows, IInv, BehindInv, NEW t \in Thread, th[t] # <<>>,
           NEW h, h = Head(th[t]), h.op # "create_session", Calm, Do(t, Tail(th[t])),
           h.op = "invalidate_steps" /\ h.sid \in DOMAIN sessions' =>
              DOMAIN sessions'[h.sid].step_data \cap h.steps = {},
           h.op = "clear_called_session" => TopFrames(stack', h.sid) = {}
    PROVE  StepBehind
    <1>1. PICK q : q = th[t]
        OBVIOUS
    <1>2. WorkOK(q) /\ Course(q)
        BY <1>1 DEF IInv, ThreadsOK, BehindInv
    <1>3. DOMAIN sessions' \subseteq DOMAIN sessions
        BY DEF Calm, CalmRows
    <1>4. Course(Tail(q))'
        BY <1>1, <1>2, <1>3, RestCourse
    <1> QED BY <1>1, <1>4, CalmStep

LEMMA RowCalm ==
    ASSUME NEW sid \in DOMAIN sessions, NEW row, sessions' = [sessions EXCEPT ![sid] = row],
           SameWorkflow(sessions[sid], row), row.current_step = sessions[sid].current_step,
           DOMAIN row.step_data \subseteq DOMAIN sessions[sid].step_data
    PROVE  CalmRows
    <1>1. /\ DOMAIN sessions' = DOMAIN sessions /\ sessions'[sid] = row
          /\ \A s \in DOMAIN sessions \ {sid} : sessions'[s] = sessions[s]
        OBVIOUS
    <1> QED BY <1>1 DEF CalmRows, SameWorkflow

\* A column that says neither where a session stands nor what it knows.
LEMMA ColumnCalm ==
    ASSUME IInv, NEW sid \in DOMAIN sessions, NEW v,
           NEW col \in {"retry_counts", "step_visit_counts", "artifact_checkpoints",
                        "updated_at", "escalation"},
           sessions' = [sessions EXCEPT ![sid] = [sessions[sid] EXCEPT ![col] = v]]
    PROVE  CalmRows
    <1>1. PICK row : row = [sessions[sid] EXCEPT ![col] = v]
        OBVIOUS
    <1>2. DOMAIN sessions[sid] = Column
        BY DEF IInv, StoreOK, RowOK
    <1>3. /\ SameWorkflow(sessions[sid], row) /\ row.current_step = sessions[sid].current_step
          /\ row.step_data = sessions[sid].step_data
        BY <1>1, <1>2 DEF Column, SameWorkflow
    <1> QED BY <1>1, <1>3, RowCalm

LEMMA SameFramesCalm ==
    ASSUME UNCHANGED stack
    PROVE  CalmFrames
    BY DEF CalmFrames

LEMMA ColumnBehind ==
    ASSUME OneThread, LinearWorkflows, IInv, BehindInv, NEW t \in Thread, NEW v,
           NEW col \in {"retry_counts", "step_visit_counts", "artifact_checkpoints",
                        "updated_at", "escalation"},
           NEW name \in {"increment_visit", "set_escalation", "store_artifact"},
           WriteRow(t, name, [sessions[Head(th[t]).sid] EXCEPT ![col] = v], Tail(th[t]))
    PROVE  StepBehind
    <1>1. PICK h : h = Head(th[t])
        OBVIOUS
    <1>2. /\ th[t] # <<>> /\ h.op = name /\ h.sid \in DOMAIN sessions
          /\ sessions' = [sessions EXCEPT ![h.sid] = [sessions[h.sid] EXCEPT ![col] = v]]
          /\ UNCHANGED stack /\ Do(t, Tail(th[t]))
        BY <1>1, WriteRowEffect
    <1>3. Calm
        BY <1>2, ColumnCalm, SameFramesCalm DEF Calm
    <1> QED BY <1>1, <1>2, <1>3, CalmTransaction

LEMMA IncrementRetryBehind ==
    ASSUME OneThread, LinearWorkflows, IInv, BehindInv, NEW t \in Thread,
           TransactIncrementRetry(t)
    PROVE  StepBehind
    <1>1. PICK o : o = Head(th[t])
        OBVIOUS
    <1>2. PICK v, row, col :
             /\ v = Increment(sessions[o.sid].retry_counts, o.step)
             /\ row = [sessions[o.sid] EXCEPT !.retry_counts = Increment(@, o.step)]
             /\ col = "retry_counts"
        OBVIOUS
    <1>3. row = [sessions[o.sid] EXCEPT ![col] = v]
        BY <1>2
    <1>4. PICK rest : /\ rest = IF row.retry_counts[o.step] >= o.max
                                THEN <<EscalateParentOp(o.sid)>> ELSE <<>>
                      /\ WriteRow(t, "increment_retry", row, rest)
        BY <1>1, <1>2 DEF TransactIncrementRetry
    <1>5. /\ o.sid \in DOMAIN sessions /\ UNCHANGED stack /\ Do(t, rest)
          /\ sessions' = [sessions EXCEPT ![o.sid] = row]
        BY <1>1, <1>4, WriteRowEffect
    <1>6. Calm
        BY <1>2, <1>3, <1>5, ColumnCalm, SameFramesCalm DEF Calm
    <1>7. Idles(rest)
        BY <1>4, IdlesEmpty, AsideOps, PreparesIdles DEF Aside
    <1> QED BY <1>5, <1>6, <1>7, DecidedIdles

LEMMA InvalidateStepsBehind ==
    ASSUME OneThread, LinearWorkflows, IInv, BehindInv, NEW t \in Thread,
           TransactInvalidateSteps(t)
    PROVE  StepBehind
    <1>1. PICK o : o = Head(th[t])
        OBVIOUS
    <1>2. PICK data, row : /\ data = Without(sessions[o.sid].step_data, o.steps)
                           /\ row = [sessions[o.sid] EXCEPT !.step_data = data]
        OBVIOUS
    <1>3. WriteRow(t, "invalidate_steps", row, Tail(th[t]))
        BY <1>1, <1>2 DEF TransactInvalidateSteps
    <1>4. /\ th[t] # <<>> /\ o.op = "invalidate_steps" /\ o.sid \in DOMAIN sessions
          /\ sessions' = [sessions EXCEPT ![o.sid] = row]
          /\ UNCHANGED stack /\ Do(t, Tail(th[t]))
        BY <1>1, <1>3, WriteRowEffect
    <1>5. DOMAIN sessions[o.sid] = Column
        BY <1>4 DEF IInv, StoreOK, RowOK
    <1>6. /\ SameWorkflow(sessions[o.sid], row)
          /\ row.current_step = sessions[o.sid].current_step /\ row.step_data = data
        BY <1>2, <1>5 DEF Column, SameWorkflow
    <1>7. DOMAIN data = DOMAIN sessions[o.sid].step_data \ o.steps
        BY <1>2, WithoutDomain
    <1>8. Calm
        BY <1>4, <1>6, <1>7, RowCalm, SameFramesCalm DEF Calm
    <1>9. DOMAIN sessions'[o.sid].step_data \cap o.steps = {}
        <2>1. sessions'[o.sid] = row
            BY <1>4
        <2> QED BY <1>6, <1>7, <2>1
    <1> QED BY <1>1, <1>4, <1>8, <1>9, CalmTransaction

LEMMA TouchedCalm ==
    ASSUME IInv, NEW sid \in DOMAIN sessions,
           sessions' = [sessions EXCEPT ![sid].updated_at = Now]
    PROVE  CalmRows
    <1>1. PICK col : col = "updated_at"
        OBVIOUS
    <1>2. sessions' = [sessions EXCEPT ![sid] = [sessions[sid] EXCEPT ![col] = Now]]
        BY <1>1
    <1> QED BY <1>1, <1>2, ColumnCalm

LEMMA SetCalledSessionBehind ==
    ASSUME OneThread, LinearWorkflows, IInv, SoloInv, BehindInv, NEW t \in Thread,
           TransactSetCalledSession(t)
    PROVE  StepBehind
    <1>1. PICK o : o = Head(th[t])
        OBVIOUS
    <1>2. /\ th[t] # <<>> /\ o.op = "set_called_session" /\ o.sid \in DOMAIN sessions
          /\ sessions' = [sessions EXCEPT ![o.sid].updated_at = Now]
          /\ Do(t, Tail(th[t]))
        BY <1>1, TransactEffect DEF TransactSetCalledSession, LinkChild, db
    <1>3. Calm
        BY <1>2, TouchedCalm, SetCalledSettled, FramesCalm DEF Calm, SoloInv
    <1> QED BY <1>1, <1>2, <1>3, CalmTransaction

LEMMA ClearCalledSessionBehind ==
    ASSUME OneThread, LinearWorkflows, IInv, SoloInv, BehindInv, NEW t \in Thread,
           TransactClearCalledSession(t)
    PROVE  StepBehind
    <1>1. PICK o : o = Head(th[t])
        OBVIOUS
    <1>2. /\ th[t] # <<>> /\ o.op = "clear_called_session" /\ o.sid \in DOMAIN sessions
          /\ sessions' = [sessions EXCEPT ![o.sid].updated_at = Now]
          /\ stack' = Without(stack, TopFrames(stack, o.sid))
          /\ Do(t, Tail(th[t]))
        BY <1>1, TransactEffect DEF TransactClearCalledSession, UnlinkChild, db
    <1>3. Settled /\ Tree
        BY ClearCalledSettled DEF SoloInv
    <1>4. Calm
        BY <1>2, <1>3, TouchedCalm, FramesCalm DEF Calm
    <1>5. TopFrames(stack', o.sid) = {}
        <2> SUFFICES ASSUME NEW f \in TopFrames(stack', o.sid) PROVE FALSE
            OBVIOUS
        <2>1. f \in DOMAIN stack'
            BY DEF TopFrames, FramesAt
        <2>2. f \notin TopFrames(stack, o.sid)
            <3>1. PICK S : S = TopFrames(stack, o.sid)
                OBVIOUS
            <3>2. DOMAIN stack' = DOMAIN stack \ S
                BY <1>2, <3>1, WithoutDomain
            <3> QED BY <2>1, <3>1, <3>2
        <2> QED BY <1>3, <2>2, FramesRemain
    <1> QED BY <1>1, <1>2, <1>4, <1>5, CalmTransaction

LEMMA DeleteBehind ==
    ASSUME OneThread, LinearWorkflows, IInv, SoloInv, BehindInv, NEW t \in Thread,
           TransactDeleteSession(t)
    PROVE  StepBehind
    <1>1. PICK o : o = Head(th[t])
        OBVIOUS
    <1>2. th[t] # <<>> /\ o.op = "delete_session" /\ Do(t, Tail(th[t]))
        BY <1>1 DEF TransactDeleteSession, Transact, Pending
    <1>3. Settled /\ Tree /\ \A s \in DOMAIN sessions' : sessions'[s] = sessions[s]
        BY DeleteSettled DEF SoloInv
    <1>4. CalmRows
        BY <1>3 DEF CalmRows, SameWorkflow, Settled
    <1>5. Calm
        BY <1>3, <1>4, FramesCalm DEF Calm
    <1> QED BY <1>1, <1>2, <1>5, CalmTransaction

LEMMA RowGoneBehind ==
    ASSUME OneThread, LinearWorkflows, IInv, BehindInv, NEW t \in Thread, RowGone(t)
    PROVE  StepBehind
    <1>1. PICK h : h = Head(th[t])
        OBVIOUS
    <1>2. /\ th[t] # <<>> /\ UnchangedStore /\ h.sid \notin DOMAIN sessions
          /\ \/ Do(t, <<>>)
             \/ Do(t, Tail(th[t])) /\ h.op = "delete_session"
        BY <1>1 DEF RowGone, Idle
    <1>3. CASE Do(t, <<>>)
        BY <1>2, <1>3, IdlesEmpty, StillCalm, DecidedIdles
    <1>4. CASE Do(t, Tail(th[t])) /\ h.op = "delete_session"
        BY <1>1, <1>2, <1>4, StillCalm, CalmTransaction
    <1> QED BY <1>2, <1>3, <1>4

\* A plan that moves a session has nothing left to drop or to unlink.
LEMMA MoverClears ==
    ASSUME NEW q, IsSeq(q), q # <<>>, Ordered(q), NEW h, h = Head(q), Mover(h), NEW frames, NEW s
    PROVE  /\ Dropped(q, s) = {}
           /\ Cleared(frames, q, s) => TopFrames(frames, s) = {}
    <1>1. /\ DOMAIN q = 1..Len(q) /\ Len(q) \in Nat /\ 1 \in DOMAIN q /\ h = q[1]
        BY DEF IsSeq
    <1>2. ~Clearing(h)
        BY DEF Mover, Clearing
    <1>3. ASSUME NEW o \in Range(q) PROVE ~Clearing(o)
        <2>1. PICK i \in DOMAIN q : q[i] = o
            BY DEF Range
        <2>2. i = 1 \/ 1 < i
            BY <1>1
        <2> QED BY <1>1, <1>2, <2>1, <2>2 DEF Ordered
    <1> QED BY <1>3 DEF Dropped, Cleared, Clearing

\* The move itself.
LEMMA UpdateSessionBehind ==
    ASSUME OneThread, LinearWorkflows, IInv, BehindInv, NEW t \in Thread,
           TransactUpdateSession(t)
    PROVE  StepBehind
    <1>1. PICK o, row, q : o = Head(th[t]) /\ row = sessions[o.sid] /\ q = th[t]
        OBVIOUS
    <1>2. WriteRow(t, "update_session", UpdatedRow(row, o), Tail(q))
        BY <1>1 DEF TransactUpdateSession, UpdatedRow
    <1>3. /\ q # <<>> /\ o.op = "update_session" /\ o.sid \in DOMAIN sessions
          /\ sessions' = [sessions EXCEPT ![o.sid] = UpdatedRow(row, o)]
          /\ UNCHANGED stack /\ Do(t, Tail(q))
        BY <1>1, <1>2, WriteRowEffect
    <1>4. RowOK(row) /\ WorkOK(q) /\ Course(q)
        BY <1>1, <1>3 DEF IInv, StoreOK, ThreadsOK, BehindInv
    <1>5. PICK new : new = UpdatedRow(row, o)
        OBVIOUS
    <1>6. /\ SameWorkflow(row, new)
          /\ new.current_step = IF o.step = Null THEN row.current_step ELSE o.step
          /\ new.step_data = IF o.data = Null THEN row.step_data ELSE o.data
        BY <1>4, <1>5, UpdatedColumns
    <1>7. /\ DOMAIN sessions' = DOMAIN sessions /\ sessions'[o.sid] = new
          /\ \A s \in DOMAIN sessions \ {o.sid} : sessions'[s] = sessions[s]
        BY <1>3, <1>5
    <1>8. Mover(o) /\ o \in Range(q) /\ IsSeq(q) /\ Ordered(q) /\ o.op # "create_session"
        BY <1>1, <1>3, <1>4, HeadInRange DEF Mover, WorkOK, Course
    <1>9. Course(Tail(q))'
        BY <1>1, <1>3, <1>4, <1>7, <1>8, RestCourse
    <1>10. PICK wf, at : wf = WorkflowOf(row) /\ at = row.current_step
        OBVIOUS
    <1>11. WorkflowOf(new) = wf /\ Straight(wf)
        BY <1>4, <1>6, <1>10, SameWorkflowOf, StraightRow
    <1>12. CASE Marks(o)
        <2>1. new.current_step = WORKFLOW_CHANGED
            BY <1>6, <1>12, WorkflowsAssumption DEF Marks
        <2>2. DataBehind'
            BY <1>7, <2>1 DEF BehindInv, DataBehind
        <2>3. PausedStays
            BY <1>7, <2>1, IndexNat DEF PausedStays
        <2> QED BY <1>3, <1>1, <1>9, <2>2, <2>3, MovedStep
    <1>13. CASE ~Marks(o)
        <2>1. /\ Reaches(o, wf, at, DOMAIN row.step_data)
              /\ TopFrames(stack, o.sid) = {} \/ Retreats(o, wf, at)
            <3>1. MoveOK(stack, q, o, row)
                BY <1>1, <1>3, <1>4, <1>8 DEF Course
            <3>2. /\ Dropped(q, o.sid) = {}
                  /\ Cleared(stack, q, o.sid) => TopFrames(stack, o.sid) = {}
                BY <1>1, <1>3, <1>8, MoverClears
            <3> QED BY <1>8, <1>10, <1>13, <3>1, <3>2 DEF MoveOK
        <2>2. new.current_step = Goal(o, at)
            BY <1>3, <1>6, <1>10 DEF Goal
        <2>3. Behind(new.step_data, wf, new.current_step)
            <3>1. CASE o.data = Null
                BY <1>6, <2>1, <2>2, <3>1 DEF Reaches, Behind
            <3>2. CASE o.data # Null
                BY <1>6, <2>1, <2>2, <3>2 DEF Reaches
            <3> QED BY <3>1, <3>2
        <2>4. DataBehind'
            BY <1>7, <1>11, <2>3 DEF BehindInv, DataBehind
        <2>5. TopFrames(stack, o.sid) = {} \/ StepIndex(new) <= StepIndex(row)
            <3>1. StepIndex(new) = Place(wf, Goal(o, at)) /\ StepIndex(row) = Place(wf, at)
                BY <1>10, <1>11, <2>2, IndexIsPlace
            <3> QED BY <2>1, <3>1 DEF Retreats
        <2>6. PausedStays
            BY <1>1, <1>7, <2>5, IndexNat DEF PausedStays
        <2> QED BY <1>1, <1>3, <1>9, <2>4, <2>6, MovedStep
    <1> QED BY <1>12, <1>13

LEMMA GoneCourse ==
    ASSUME NEW plan, IsSeq(plan), Ordered(plan),
           \A o \in Range(plan) :
              ~Caller(o) /\ o.op # "create_session" /\ o.sid \notin DOMAIN sessions'
    PROVE  Course(plan)'
    BY HeadInRange DEF Course

LEMMA AutoExecuteBehind ==
    ASSUME OneThread, LinearWorkflows, IInv, BehindInv, NEW t \in Thread, NEW envelope,
           AutoExecute(t, envelope)
    PROVE  StepBehind
    <1>1. PICK o, q : o = Head(th[t]) /\ q = th[t]
        OBVIOUS
    <1> DEFINE step    == StepAt(o.wf, o.at)
               data    == Put(o.data, o.at, envelope)
               next    == DefaultTarget(o.wf, step)
               landing == ApplySkipLoop(o.wf, next, data, FALSE)
               tail    == IF o.cont = "submit" THEN <<EscalateParentOp(o.sid)>> ELSE <<>>
               Cascade(at, d) == <<UpdateOp(o.sid, at, d)>> \o tail
               v       == Increment(sessions[o.sid].step_visit_counts, o.at)
               rest    == IF landing.cascade THEN Cascade(next, data)
                          ELSE Proceed(o.cont, o.sid, o.wf, landing.step, data)
    <1>2. q # <<>> /\ o.op = "auto_execute"
        BY <1>1 DEF AutoExecute, Pending
    <1>3. \/ Do(t, Cascade(o.at, o.data)) /\ UnchangedStore
          \/ WriteRow(t, "auto_execute", [sessions[o.sid] EXCEPT !["step_visit_counts"] = v], rest)
        BY <1>1 DEF AutoExecute
    <1>4. WorkOK(q) /\ Course(q) /\ Mover(o) /\ o \in Range(q) /\ IsSeq(q) /\ Ordered(q)
        BY <1>1, <1>2, HeadInRange DEF IInv, ThreadsOK, BehindInv, Mover, WorkOK, Course
    <1>5. Aside(tail)
        BY AsideOps, AsideEmpty
    <1> HIDE DEF tail
    <1>6. CASE o.sid \notin DOMAIN sessions
        <2>1. Do(t, Cascade(o.at, o.data)) /\ UnchangedStore
            BY <1>1, <1>3, <1>6 DEF WriteRow, Transact
        <2>2. PICK u, plan : u = UpdateOp(o.sid, o.at, o.data) /\ plan = <<u>> \o tail
            OBVIOUS
        <2>3. IsSeq(<<u>>) /\ Range(<<u>>) = {u} /\ Ordered(<<u>>)
            BY One, OrderedOne
        <2>4. /\ IsSeq(plan) /\ Range(plan) = {u} \cup Range(tail) /\ Ordered(plan)
            BY <1>5, <2>2, <2>3, Joined, OrderedJoined, PreparesOrdered DEF Aside, Prepares
        <2>5. Range(tail) \subseteq {EscalateParentOp(o.sid)}
            BY One, Empty DEF tail
        <2>6. \A p \in Range(plan) :
                 ~Caller(p) /\ p.op # "create_session" /\ p.sid = o.sid
            BY <2>2, <2>4, <2>5 DEF UpdateOp, EscalateParentOp, Caller
        <2>7. o.sid \notin DOMAIN sessions'
            BY <1>6, <2>1 DEF UnchangedStore
        <2>8. Course(plan)'
            BY <2>4, <2>6, <2>7, GoneCourse
        <2> QED BY <2>1, <2>2, <2>8, StillCalm, CalmStep
    <1>7. CASE o.sid \in DOMAIN sessions
        <2>1. PICK row, wf, at, old :
                 /\ row = sessions[o.sid] /\ wf = WorkflowOf(row) /\ at = row.current_step
                 /\ old = DOMAIN row.step_data
            OBVIOUS
        <2>2. /\ RowOK(row) /\ o.wf = wf /\ o.cont \in Conts /\ o.at \in StepIds(wf)
              /\ Straight(wf)
            BY <1>1, <1>2, <1>7, <2>1, HeadOnRow, StraightRow DEF Fits, OpOK
        <2>3. /\ Behind(o.data, wf, o.at) /\ TopFrames(stack, o.sid) = {}
              /\ Behind(row.step_data, wf, o.at)
            <3>1. MoveOK(stack, q, o, row)
                BY <1>4, <1>7, <2>1 DEF Course
            <3>2. /\ Dropped(q, o.sid) = {}
                  /\ Cleared(stack, q, o.sid) => TopFrames(stack, o.sid) = {}
                BY <1>1, <1>2, <1>4, MoverClears
            <3> QED BY <1>2, <1>4, <2>1, <3>1, <3>2 DEF MoveOK, Marks, Retreats, Reaches, Goal, Behind
        <2>4. CASE Do(t, Cascade(o.at, o.data)) /\ UnchangedStore
            <3>1. o.at # Null
                BY <2>2, WorkflowsAssumption DEF Straight, WellFormed
            <3>2. \A id \in old : FindStep(wf, id) <= Place(wf, o.at)
                BY <2>1, <2>3 DEF Behind
            <3>3. PICK plan : plan = Cascade(o.at, o.data)
                OBVIOUS
            <3>4. Onward(plan, o.sid, wf, at, old)
                BY <1>5, <2>2, <2>3, <3>1, <3>2, <3>3, CascadeOnward
            <3> HIDE DEF Cascade
            <3> QED BY <2>1, <2>3, <2>4, <3>3, <3>4, DecidedOnward DEF Cleared
        <2>5. CASE WriteRow(t, "auto_execute", [sessions[o.sid] EXCEPT !["step_visit_counts"] = v], rest)
            <3>1. step \in Range(wf.steps) /\ step.id = o.at /\ WellFormed(wf)
                BY <2>2, FoundStep DEF Straight
            <3>2. next \in Places(wf) /\ Place(wf, next) = FindStep(wf, o.at) + 1
                BY <2>2, <3>1, DefaultIsPlace, DefaultFurther
            <3>3. next # Null /\ Behind(data, wf, next) /\ Behind(row.step_data, wf, next)
                BY <2>2, <2>3, <3>2, TargetBeyond
            <3>4. /\ landing.step # Null
                  /\ Behind(data, wf, landing.step) /\ Behind(row.step_data, wf, landing.step)
                BY <2>2, <3>2, <3>3, LandingBeyond
            <3> HIDE DEF step, data, next, landing
            <3>5. Onward(Cascade(next, data), o.sid, wf, at, old)
                BY <1>5, <2>1, <2>2, <3>3, CascadeOnward DEF Behind
            <3>6. Onward(Proceed(o.cont, o.sid, o.wf, landing.step, data), o.sid, wf, at, old)
                BY <2>1, <2>2, <3>4, ProceedOnward DEF Behind
            <3>7. PICK plan : plan = rest
                OBVIOUS
            <3>8. Onward(plan, o.sid, wf, at, old)
                BY <3>5, <3>6, <3>7
            <3> HIDE DEF Cascade, rest, v
            <3>9. /\ sessions' = [sessions EXCEPT ![o.sid] =
                                     [sessions[o.sid] EXCEPT !["step_visit_counts"] = v]]
                  /\ UNCHANGED stack /\ Do(t, plan)
                BY <1>1, <2>5, <3>7, WriteRowEffect
            <3>10. Calm
                BY <1>7, <3>9, ColumnCalm, SameFramesCalm DEF Calm
            <3>11. /\ WorkflowOf(sessions'[o.sid]) = wf /\ sessions'[o.sid].current_step = at
                   /\ DOMAIN sessions'[o.sid].step_data \subseteq old
                BY <1>7, <2>1, <3>9, <3>10, SameWorkflowOf DEF Calm, CalmRows
            <3>12. Cleared(stack', plan, o.sid)
                BY <2>3, <3>9 DEF Cleared
            <3>13. Course(plan)'
                BY <3>8, <3>11, <3>12, OnwardCourse
            <3> QED BY <3>9, <3>10, <3>13, CalmStep
        <2> QED BY <1>3, <2>4, <2>5
    <1> QED BY <1>6, <1>7

\* A new session has no data and no frame above it.
LEMMA CreateSessionBehind ==
    ASSUME OneThread, LinearWorkflows, IInv, BehindInv, NEW t \in Thread, NEW evicted,
           TransactCreateSession(t, evicted)
    PROVE  StepBehind
    <1>1. PICK o, q, rest : o = Head(th[t]) /\ q = th[t] /\ rest = Tail(th[t])
        OBVIOUS
    <1>2. /\ q # <<>> /\ o.op = "create_session"
          /\ \/ UnchangedStore /\ Do(t, <<>>)
             \/ /\ LET new == CreateSession(db, evicted, o.sid, o.row, o.type, o.call)
                   IN  sessions' = new.sessions /\ stack' = new.stack
                /\ minted' = minted \cup {o.sid} /\ Do(t, rest)
        BY <1>1 DEF TransactCreateSession, Pending
    <1>3. WorkOK(q) /\ CreateArgs(o) /\ Course(q) /\ StartOK(stack, o, rest)
        BY <1>1, <1>2, HeadOK DEF StepOK, OpOK, BehindInv, Course
    <1>4. o.sid \notin minted
        <2>1. o.sid \in Drawn(q)
            BY <1>1, <1>2 DEF Drawn, Drawing
        <2> QED BY <1>1, <2>1 DEF IInv, IdsOK
    <1>5. CASE UnchangedStore /\ Do(t, <<>>)
        BY <1>5, IdlesEmpty, StillCalm, DecidedIdles
    <1>6. CASE /\ LET new == CreateSession(db, evicted, o.sid, o.row, o.type, o.call)
                  IN  sessions' = new.sessions /\ stack' = new.stack
               /\ minted' = minted \cup {o.sid} /\ Do(t, rest)
        <2>1. /\ o.sid \in DOMAIN sessions' /\ sessions'[o.sid] = o.row
              /\ \A s \in DOMAIN sessions' \ {o.sid} :
                    s \in DOMAIN sessions /\ sessions'[s] = sessions[s]
            BY <1>3, <1>4, <1>6, CreatedStore DEF Inserted, IInv
        <2>2. o.sid \notin DOMAIN sessions
            BY <1>4 DEF IInv, StoreOK
        <2>3. DataBehind'
            BY <1>3, <2>1 DEF BehindInv, DataBehind, Behind, StartOK
        <2>4. PausedStays
            BY <2>1, <2>2, IndexNat DEF PausedStays
        <2>5. o.row.parent_session_id = Null => TopFrames(stack', o.sid) = {}
            <3> SUFFICES ASSUME o.row.parent_session_id = Null, NEW f \in TopFrames(stack', o.sid)
                         PROVE  FALSE
                OBVIOUS
            <3>1. stack' = Without(stack, evicted)
                BY <1>6 DEF CreateSession, DeleteSessions, db
            <3>2. /\ DOMAIN stack' \subseteq DOMAIN stack
                  /\ \A s \in DOMAIN stack' : stack'[s] = stack[s]
                BY <3>1 DEF Without, Restrict
            <3>3. o.sid \notin DOMAIN stack /\ \A s \in DOMAIN stack : stack[s].root # o.sid
                BY <1>4 DEF IInv, StoreOK
            <3> QED BY <3>2, <3>3 DEF TopFrames, ChildSlot, FramesAt
        <2>6. /\ Range(rest) \subseteq Range(q) /\ IsSeq(rest) /\ Ordered(rest)
              /\ \A p \in Range(rest) : p.op \notin Drawing
            BY <1>1, <1>2, <1>3, HeadAndTail, OrderedTail DEF WorkOK, Course
        <2>7. \A p \in Range(rest) : ~Caller(p)
            <3> SUFFICES ASSUME NEW p \in Range(rest), Caller(p) PROVE FALSE
                OBVIOUS
            <3>1. q = <<p>>
                BY <1>3, <2>6 DEF Course
            <3>2. rest = <<>>
                BY <1>1, <3>1, One
            <3> QED BY <3>2, Empty
        <2>8. rest # <<>> => Head(rest).op # "create_session"
            BY <2>6, HeadInRange DEF Drawing
        <2>9. ASSUME NEW p \in Range(rest), Mover(p)
              PROVE  p.sid = o.sid /\ MoveOK(stack', rest, p, o.row)
            <3>1. /\ p.sid = o.sid /\ o.row.parent_session_id = Null
                  /\ MoveOK(stack, rest, p, o.row)
                BY <1>3, <2>9 DEF StartOK
            <3>2. Cleared(stack', rest, p.sid)
                BY <2>5, <3>1 DEF Cleared
            <3> QED BY <3>1, <3>2 DEF MoveOK
        <2>10. ASSUME NEW p \in Range(rest), p.sid \in DOMAIN sessions'
               PROVE  MoveOK(stack', rest, p, sessions'[p.sid])
            BY <2>1, <2>9, <2>10 DEF MoveOK
        <2>11. Course(rest)'
            BY <2>6, <2>7, <2>8, <2>10 DEF Course
        <2> QED BY <1>6, <2>3, <2>4, <2>11, MovedStep
    <1> QED BY <1>2, <1>5, <1>6

---------------------------------------------------------------------------
(***************************************************************************)
(* Every step, and the theorems.                                           *)
(***************************************************************************)
LEMMA WorkBehind ==
    ASSUME OneThread, LinearWorkflows, IInv, SoloInv, BehindInv, NEW t \in Thread, Work(t)
    PROVE  StepBehind
    <1>1. CASE DecideSubmitStep(t) BY <1>1, DecideSubmitStepBehind
    <1>2. CASE DecideReviseStep(t) BY <1>2, DecideReviseStepBehind
    <1>3. CASE DecideEnterSubWorkflow(t) BY <1>3, DecideEnterSubWorkflowBehind
    <1>4. CASE DecidePushFlow(t) BY <1>4, DecidePushFlowBehind
    <1>5. CASE DecidePopFlow(t) BY <1>5, DecidePopFlowBehind
    <1>6. CASE DecideAutoResume(t) BY <1>6, DecideAutoResumeBehind
    <1>7. CASE DecideEscalateParent(t) BY <1>7, DecideEscalateParentBehind
    <1>8. CASE TransactUpdateSession(t) BY <1>8, UpdateSessionBehind
    <1>9. CASE TransactIncrementVisit(t)
        <2>1. PICK o, v : /\ o = Head(th[t])
                          /\ v = Increment(sessions[o.sid].step_visit_counts, o.step)
            OBVIOUS
        <2>2. WriteRow(t, "increment_visit",
                       [sessions[Head(th[t]).sid] EXCEPT !["step_visit_counts"] = v], Tail(th[t]))
            BY <1>9, <2>1 DEF TransactIncrementVisit
        <2> QED BY <2>2, ColumnBehind
    <1>10. CASE TransactIncrementRetry(t) BY <1>10, IncrementRetryBehind
    <1>11. CASE TransactSetEscalation(t)
        <2>1. WriteRow(t, "set_escalation",
                       [sessions[Head(th[t]).sid] EXCEPT !["escalation"] = TRUE], Tail(th[t]))
            BY <1>11 DEF TransactSetEscalation
        <2> QED BY <2>1, ColumnBehind
    <1>12. CASE TransactInvalidateSteps(t) BY <1>12, InvalidateStepsBehind
    <1>13. CASE TransactStoreArtifact(t)
        <2>1. PICK o, v :
                 /\ o = Head(th[t])
                 /\ v = sessions[o.sid].artifact_checkpoints \cup {<<o.step, o.art>>}
            OBVIOUS
        <2>2. WriteRow(t, "store_artifact",
                       [sessions[Head(th[t]).sid] EXCEPT !["artifact_checkpoints"] = v], Tail(th[t]))
            BY <1>13, <2>1 DEF TransactStoreArtifact
        <2> QED BY <2>2, ColumnBehind
    <1>14. CASE TransactSetCalledSession(t) BY <1>14, SetCalledSessionBehind
    <1>15. CASE TransactClearCalledSession(t) BY <1>15, ClearCalledSessionBehind
    <1>16. CASE TransactDeleteSession(t) BY <1>16, DeleteBehind
    <1>17. CASE \E evicted \in SUBSET Sid : TransactCreateSession(t, evicted)
        BY <1>17, CreateSessionBehind
    <1>18. CASE \E envelope \in Envelope : AutoExecute(t, envelope)
        BY <1>18, AutoExecuteBehind
    <1>19. CASE RowGone(t) BY <1>19, RowGoneBehind
    <1> QED BY <1>1, <1>2, <1>3, <1>4, <1>5, <1>6, <1>7, <1>8, <1>9, <1>10, <1>11, <1>12,
               <1>13, <1>14, <1>15, <1>16, <1>17, <1>18, <1>19 DEF Work

LEMMA StillBehind ==
    ASSUME LinearWorkflows, IInv, BehindInv, UnchangedStore, \A t \in Thread : Course(th[t])'
    PROVE  StepBehind
    <1>1. DataBehind'
        BY DEF UnchangedStore, BehindInv, DataBehind
    <1>2. PausedStays
        BY IndexNat DEF UnchangedStore, PausedStays
    <1> QED BY <1>1, <1>2 DEF StepBehind, BehindInv

LEMMA NextBehind ==
    ASSUME OneThread, LinearWorkflows, IInv, SoloInv, BehindInv, [Next]_vars
    PROVE  StepBehind
    <1>1. CASE UNCHANGED vars
        <2>1. UNCHANGED <<sessions, stack, minted, th>>
            BY <1>1 DEF vars
        <2>2. \A t \in Thread : Course(th[t])'
            BY <2>1 DEF BehindInv, Course
        <2> QED BY <2>1, <2>2, StillBehind DEF UnchangedStore
    <1>2. CASE \E t \in Thread : Call(t) \/ Work(t)
        BY <1>2, CallsBehind, WorkBehind
    <1>3. CASE Restart
        <2>1. Course(<<>>)'
            BY IdlesEmpty, IdlesCourse
        <2>2. \A t \in Thread : th'[t] = <<>>
            BY <1>3 DEF Restart
        <2>3. UnchangedStore
            BY <1>3 DEF Restart
        <2> QED BY <2>1, <2>2, <2>3, StillBehind
    <1> QED BY <1>1, <1>2, <1>3 DEF Next

LEMMA InitBehind == Init => BehindInv
    <1> SUFFICES ASSUME Init PROVE BehindInv
        OBVIOUS
    <1>1. DOMAIN sessions = {} /\ \A t \in Thread : th[t] = <<>>
        BY DEF Init
    <1>2. Course(<<>>)
        BY OrderedEmpty, Empty DEF Course
    <1> QED BY <1>1, <1>2 DEF BehindInv, DataBehind

\* One call at a time, restarts at any point, workflows without branches: what
\* a session knows lies behind its pointer, and the plan of the running call
\* moves it once, beyond all it keeps, after the steps it drops (revise_step)
\* and the frame it unlinks (_propagate_to_parent) are gone.
THEOREM BehindInvariant ==
    ASSUME OneThread, LinearWorkflows
    PROVE  Spec => []BehindInv
    <1>1. IInv /\ SoloInv /\ BehindInv /\ [Next]_vars => BehindInv'
        BY NextBehind DEF StepBehind
    <1> QED BY InitBehind, <1>1, Invariant, SoloInvariant, PTL DEF Spec

\* Workflows without branches, one call at a time, restarts at any point: no
\* step after the pointer has data, although revise_step drops data, frame and
\* child in up to five transactions and a restart may come between any two.
\* (NoStaleData, which asks it between calls only, even holds during one.)
THEOREM NothingStale ==
    ASSUME OneThread, LinearWorkflows
    PROVE  Spec => []NoStaleData
    <1>1. IInv /\ BehindInv => NoStaleData
        <2> SUFFICES ASSUME IInv, BehindInv, NEW s \in DOMAIN sessions,
                            sessions[s].current_step # WORKFLOW_CHANGED,
                            NEW i \in DOMAIN WorkflowOf(sessions[s]).steps,
                            i > StepIndex(sessions[s]),
                            WorkflowOf(sessions[s]).steps[i].id \in DOMAIN sessions[s].step_data
                     PROVE  FALSE
            BY DEF NoStaleData
        <2>1. PICK row, wf : row = sessions[s] /\ wf = WorkflowOf(row)
            OBVIOUS
        <2>2. Straight(wf) /\ Behind(row.step_data, wf, row.current_step)
            BY <2>1, StraightRow DEF BehindInv, DataBehind, IInv, StoreOK
        <2>3. i \in 1..Len(wf.steps) /\ FindStep(wf, wf.steps[i].id) = i
            BY <2>1, <2>2, Numbered DEF Straight, WellFormed
        <2>4. i <= Place(wf, row.current_step)
            BY <2>1, <2>2, <2>3 DEF Behind
        <2>5. StepIndex(row) = Place(wf, row.current_step) /\ StepIndex(row) \in Nat
            BY <2>1, <2>2, IndexIsPlace, Placement
        <2> QED BY <2>1, <2>3, <2>4, <2>5
    <1> QED BY <1>1, Invariant, BehindInvariant, PTL

\* Workflows without branches, one call at a time, restarts at any point: a
\* session with a frame above it never moves forward (sub_workflow_pending),
\* although submit_step looks at the stack in one transaction and moves in a
\* later one, and _propagate_to_parent unlinks before it advances the parent.
THEOREM PausedStaysPut ==
    ASSUME OneThread, LinearWorkflows
    PROVE  Spec => PausedNeverAdvances
    <1>1. IInv /\ SoloInv /\ BehindInv /\ [Next]_vars => PausedStays
        BY NextBehind DEF StepBehind
    <1>2. PausedStays => [\A s \in DOMAIN sessions \cap DOMAIN sessions' :
                             /\ TopFrames(stack, s) # {}
                             /\ TopFrames(stack', s) # {}
                             /\ sessions'[s].current_step # WORKFLOW_CHANGED
                             => StepIndex(sessions'[s]) <= StepIndex(sessions[s])]_vars
        BY DEF PausedStays
    <1> QED BY <1>1, <1>2, Invariant, SoloInvariant, BehindInvariant, PTL
            DEF Spec, PausedNeverAdvances

=============================================================================
