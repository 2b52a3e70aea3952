-------------------------- MODULE OneThread_proofs --------------------------
(***************************************************************************)
(* What the tools keep only as long as one call runs at a time and the     *)
(* workflows or the tools called allow it.  Where there are no call-steps, *)
(* and no revisions or no branches, an escalated session never moves       *)
(* forward.  Where there are neither revisions nor restarts, a guardrail   *)
(* on visits that escalates stops every loop.  Linear workflows whose      *)
(* revisions are orderly pass no step without data.  Where a parent that   *)
(* is advanced does not complete, and without restarts, a completed child  *)
(* is handed over.                                                         *)
(***************************************************************************)
EXTENDS ToolCalls_proofs

---------------------------------------------------------------------------
(***************************************************************************)
(* Escalation.  Where no step is a call-step, every frame is a digression, *)
(* which leaves the session below it alone; a call-frame does not: the     *)
(* artifact of a child that outlives the escalation of its parent moves    *)
(* that parent on (see DocumentedBehaviour).  The plan that escalates a    *)
(* session moves none, and a plan that moves one was made before the       *)
(* session was escalated, or is a revision, which leads back.  Branches    *)
(* leave data ahead of the pointer, to which a revision may lead, so that  *)
(* workflows with branches have no revisions here.                         *)
(***************************************************************************)
CallFree == \A w \in Workflow : \A v \in Version(w) :
                \A step \in Range(Definition[w][v].steps) : step.kind # "call"
Revising == "revise_step" \in Tools

Digressions == \A s \in DOMAIN stack : stack[s].frame_type = "digression"

Advances(o) == Moves(o) \/ o.op = "submit_step"

Halted(q) ==
    \A o \in Range(q) :
       /\ Advances(o) /\ o.sid \in DOMAIN sessions /\ sessions[o.sid].escalation =>
             /\ Revising
             /\ Retreats(o, WorkflowOf(sessions[o.sid]), sessions[o.sid].current_step)
       /\ o.op = "set_escalation" => \A p \in Range(q) : ~Advances(p)
       /\ o.op = "create_session" =>
             /\ ~o.row.escalation
             /\ o.row.parent_session_id = Null \/ o.type = "digression"
       /\ o.op = "revise_step" => Revising

HaltInv == Digressions /\ \A t \in Thread : Halted(th[t])

\* What every step is shown to do.
EscalatedStays ==
    \A s \in DOMAIN sessions \cap DOMAIN sessions' :
       /\ sessions[s].escalation
       /\ sessions'[s].current_step # WORKFLOW_CHANGED
       => StepIndex(sessions'[s]) <= StepIndex(sessions[s])
StepHalts == HaltInv' /\ EscalatedStays

\* Rows that stay where they are, and are not escalated.
RowsStand ==
    /\ DOMAIN sessions' \subseteq DOMAIN sessions
    /\ \A s \in DOMAIN sessions' :
          /\ SameWorkflow(sessions[s], sessions'[s])
          /\ sessions'[s].current_step = sessions[s].current_step
FramesStand ==
    /\ DOMAIN stack' \subseteq DOMAIN stack
    /\ \A s \in DOMAIN stack' : stack'[s].frame_type = stack[s].frame_type

LEMMA RowIndex ==
    ASSUME NEW row, RowOK(row)
    PROVE  StepIndex(row) \in Nat
    <1>1. PICK wf : wf = WorkflowOf(row)
        OBVIOUS
    <1>2. WellFormed(wf) /\ Len(wf.steps) \in Nat
        BY <1>1, WorkflowLoaded DEF WellFormed
    <1>3. CASE row.current_step = COMPLETE
        BY <1>1, <1>2, <1>3 DEF StepIndex
    <1>4. CASE row.current_step # COMPLETE /\ row.current_step \in StepIds(wf)
        BY <1>1, <1>2, <1>4, FoundStep DEF StepIndex
    <1>5. CASE row.current_step # COMPLETE /\ row.current_step \notin StepIds(wf)
        BY <1>1, <1>5 DEF StepIndex, FindStep
    <1> QED BY <1>3, <1>4, <1>5

LEMMA HaltsNext ==
    ASSUME OneThread, IInv, HaltInv, NEW t \in Thread, NEW plan, Do(t, plan), RowsStand,
           FramesStand, Halted(plan)'
    PROVE  StepHalts
    <1>1. DOMAIN th = Thread
        BY DEF IInv, ThreadsOK
    <1>2. th'[t] = plan /\ \A u \in Thread : u = t
        BY <1>1 DEF Do, OneThread
    <1>3. \A u \in Thread : Halted(th[u])'
        BY <1>2
    <1>4. Digressions'
        BY DEF HaltInv, Digressions, FramesStand
    <1>5. EscalatedStays
        <2> SUFFICES ASSUME NEW s \in DOMAIN sessions \cap DOMAIN sessions'
                     PROVE  StepIndex(sessions'[s]) <= StepIndex(sessions[s])
            BY DEF EscalatedStays
        <2>1. StepIndex(sessions'[s]) = StepIndex(sessions[s])
            BY SameWorkflowOf, IndexIsPlace DEF RowsStand
        <2>2. StepIndex(sessions[s]) \in Nat
            BY RowIndex DEF IInv, StoreOK
        <2> QED BY <2>1, <2>2
    <1> QED BY <1>3, <1>4, <1>5 DEF HaltInv, StepHalts

LEMMA StillStands ==
    ASSUME UnchangedStore
    PROVE  RowsStand /\ FramesStand
    BY DEF UnchangedStore, RowsStand, FramesStand, SameWorkflow

LEMMA CalmStands ==
    ASSUME CalmRows
    PROVE  RowsStand
    BY DEF CalmRows, RowsStand

LEMMA SettledStands ==
    ASSUME Settled
    PROVE  FramesStand
    BY DEF Settled, FramesStand

\* A plan that moves nothing.
LEMMA IdlesHalted ==
    ASSUME NEW plan, Idles(plan)
    PROVE  Halted(plan)'
    BY DEF Idles, Halted, Advances, Moves, Mover, Marks, Caller

LEMMA HaltsIdle ==
    ASSUME OneThread, IInv, HaltInv, NEW t \in Thread, NEW plan, Do(t, plan), RowsStand,
           FramesStand, Idles(plan)
    PROVE  StepHalts
    BY IdlesHalted, HaltsNext

\* What is left of a plan.
LEMMA HaltsRest ==
    ASSUME OneThread, IInv, HaltInv, NEW t \in Thread, th[t] # <<>>, Do(t, Tail(th[t])),
           RowsStand, FramesStand,
           \/ Head(th[t]).op = "set_escalation"
           \/ \A s \in DOMAIN sessions' : sessions'[s].escalation = sessions[s].escalation
    PROVE  StepHalts
    <1>1. PICK q : q = th[t]
        OBVIOUS
    <1>2. IsSeq(q) /\ Halted(q)
        BY <1>1 DEF IInv, ThreadsOK, WorkOK, HaltInv
    <1>3. Head(q) \in Range(q) /\ Range(Tail(q)) \subseteq Range(q)
        BY <1>1, <1>2, HeadAndTail
    <1>4. CASE Head(q).op = "set_escalation"
        <2>1. \A o \in Range(q) : ~Advances(o)
            BY <1>2, <1>3, <1>4 DEF Halted
        <2>2. Halted(Tail(q))'
            BY <1>2, <1>3, <2>1 DEF Halted, Advances, Moves
        <2> QED BY <1>1, <2>2, HaltsNext
    <1>5. CASE \A s \in DOMAIN sessions' : sessions'[s].escalation = sessions[s].escalation
        <2>1. \A s \in DOMAIN sessions' :
                 /\ s \in DOMAIN sessions
                 /\ sessions'[s].current_step = sessions[s].current_step
                 /\ WorkflowOf(sessions'[s]) = WorkflowOf(sessions[s])
            BY SameWorkflowOf DEF RowsStand
        <2>2. Halted(Tail(q))'
            <3> SUFFICES ASSUME NEW o \in Range(Tail(q))
                         PROVE  /\ Advances(o) /\ o.sid \in DOMAIN sessions' /\ sessions'[o.sid].escalation =>
                                      /\ Revising
                                      /\ Retreats(o, WorkflowOf(sessions'[o.sid]), sessions'[o.sid].current_step)
                                /\ o.op = "set_escalation" => \A p \in Range(Tail(q)) : ~Advances(p)
                                /\ o.op = "create_session" =>
                                      /\ ~o.row.escalation
                                      /\ o.row.parent_session_id = Null \/ o.type = "digression"
                                /\ o.op = "revise_step" => Revising
                BY DEF Halted, Advances, Moves
            <3>1. o \in Range(q)
                BY <1>3
            <3> QED BY <1>2, <1>3, <1>5, <2>1, <3>1 DEF Halted
        <2> QED BY <1>1, <2>2, HaltsNext
    <1> QED BY <1>1, <1>4, <1>5

---------------------------------------------------------------------------
(***************************************************************************)
(* The plans of submit_step.                                               *)
(***************************************************************************)
\* A plan for a session, which escalates nothing; or one which moves nothing.
Unraised(plan) == \A o \in Range(plan) : o.op # "set_escalation" /\ ~Caller(o)
Unmoved(plan) == \A o \in Range(plan) : ~Moves(o)

LEMMA UnraisedOps ==
    ASSUME NEW sid, NEW cont, NEW wf, NEW at, NEW data
    PROVE  /\ Unraised(<<UpdateOp(sid, at, data)>>) /\ Unraised(<<VisitOp(sid, at)>>)
           /\ Unraised(<<HandoffOp(sid, wf, data)>>)
           /\ Unraised(<<AutoOp(cont, sid, wf, at, data)>>)
           /\ Unraised(<<EscalateParentOp(sid)>>) /\ Unraised(<<>>)
    <1>1. PICK a, b, c, d, e : /\ a = UpdateOp(sid, at, data) /\ b = VisitOp(sid, at)
                               /\ c = HandoffOp(sid, wf, data) /\ d = AutoOp(cont, sid, wf, at, data)
                               /\ e = EscalateParentOp(sid)
        OBVIOUS
    <1>2. \A o \in {a, b, c, d, e} : o.op # "set_escalation" /\ ~Caller(o)
        BY <1>1 DEF UpdateOp, VisitOp, HandoffOp, AutoOp, EscalateParentOp, Caller
    <1>3. \A o \in {a, b, c, d, e} : Unraised(<<o>>)
        BY <1>2, One DEF Unraised
    <1> QED BY <1>1, <1>3, Empty DEF Unraised

LEMMA ArriveUnraised ==
    ASSUME NEW cont \in Conts, NEW sid, NEW wf, NEW at, NEW data
    PROVE  Unraised(Arrive(cont, sid, wf, at, data))
    <1> DEFINE visit  == IF at = COMPLETE THEN <<>> ELSE <<VisitOp(sid, at)>>
               update == <<UpdateOp(sid, at, data)>>
               resume == IF at = COMPLETE THEN <<HandoffOp(sid, wf, data)>> ELSE <<>>
    <1>1. Unraised(visit) /\ Unraised(resume) /\ Unraised(update)
        BY UnraisedOps
    <1>2. IsSeq(visit) /\ IsSeq(resume) /\ IsSeq(update)
        BY One, Empty
    <1> HIDE DEF visit, update, resume
    <1>3. /\ IsSeq(visit \o update) /\ Range(visit \o update) = Range(visit) \cup Range(update)
          /\ IsSeq(update \o visit) /\ Range(update \o visit) = Range(visit) \cup Range(update)
        BY <1>2, Joined
    <1>4. Range(visit \o update \o resume) = Range(visit) \cup Range(update) \cup Range(resume)
        BY <1>2, <1>3, Joined
    <1>5. CASE cont = "start"
        BY <1>1, <1>3, <1>5 DEF Arrive, visit, update, Unraised
    <1>6. CASE cont = "submit"
        BY <1>1, <1>4, <1>6 DEF Arrive, visit, update, resume, Unraised
    <1>7. CASE cont = "advance"
        BY <1>1, <1>3, <1>7 DEF Arrive, visit, update, Unraised
    <1> QED BY <1>5, <1>6, <1>7 DEF Conts

LEMMA ProceedUnraised ==
    ASSUME NEW cont \in Conts, NEW sid, NEW wf, NEW at, NEW data
    PROVE  Unraised(Proceed(cont, sid, wf, at, data))
    BY ArriveUnraised, UnraisedOps DEF Proceed

LEMMA ThreeUnmoved ==
    ASSUME NEW a, NEW b, NEW c, ~Moves(a), ~Moves(b), ~Moves(c)
    PROVE  Unmoved(<<a, b, c>>)
    <1>1. Range(<<a, b, c>>) = {a, b, c}
        BY DEF Range
    <1> QED BY <1>1 DEF Unmoved

LEMMA AcceptRaises ==
    ASSUME NEW sid, NEW row, NEW step, NEW content, NEW branch, NEW plan,
           plan = AcceptPlan(sid, row, step, content, branch)
    PROVE  Unraised(plan) \/ Unmoved(plan)
    <1> DEFINE wf        == WorkflowOf(row)
               data      == Put(row.step_data, step.id, content)
               guardrail == EvaluateGuardrails(wf, content, data,
                                               Count(row.step_visit_counts, step.id))
               target    == BranchTarget(wf, step, branch, guardrail)
               landing   == ApplySkipLoop(wf, target, data, ForceBranched(guardrail))
    <1>1. Unraised(Proceed("submit", sid, wf, landing.step, data))
        BY ProceedUnraised DEF Conts
    <1>2. PICK a, b, c : /\ a = EscalateOp(sid) /\ b = UpdateOp(sid, Null, data)
                         /\ c = EscalateParentOp(sid)
        OBVIOUS
    <1>3. Unmoved(<<a, b, c>>)
        <2>1. ~Moves(a) /\ ~Moves(b) /\ ~Moves(c)
            BY <1>2 DEF EscalateOp, UpdateOp, EscalateParentOp, Moves
        <2> HIDE DEF wf, data, guardrail, target, landing
        <2> QED BY <2>1, ThreeUnmoved
    <1>4. AcceptPlan(sid, row, step, content, branch) =
              IF guardrail # Null /\ guardrail.action = "escalate"
              THEN <<EscalateOp(sid), UpdateOp(sid, Null, data), EscalateParentOp(sid)>>
              ELSE IF target = Null THEN <<>>
              ELSE IF landing.cascade THEN <<EscalateParentOp(sid)>>
              ELSE Proceed("submit", sid, wf, landing.step, data)
        BY DEF AcceptPlan
    <1>5. Unmoved(<<EscalateOp(sid), UpdateOp(sid, Null, data), EscalateParentOp(sid)>>)
        BY <1>2, <1>3
    <1> HIDE DEF wf, data, guardrail, target, landing
    <1> QED BY <1>1, <1>4, <1>5, UnraisedOps

LEMMA SubmitRaises ==
    ASSUME NEW sid \in minted, NEW row, RowOK(row), row.current_step \in StepIds(WorkflowOf(row)),
           NEW content, NEW branch, NEW art, NEW plan,
           plan = SubmitPlan(sid, row, content, branch, art)
    PROVE  Unraised(plan) \/ Unmoved(plan)
    <1> DEFINE step == StepAt(WorkflowOf(row), row.current_step)
    <1>1. PICK accept, a, r, checkpoint :
             /\ accept = AcceptPlan(sid, row, step, content, branch)
             /\ a = ArtifactOp(sid, step.id, art)
             /\ r = RetryOp(sid, step.id, step.max_retries)
             /\ checkpoint = IF art \in step.checkpoints THEN <<a>> ELSE <<>>
        OBVIOUS
    <1>2. /\ a.op # "set_escalation" /\ ~Moves(a) /\ ~Caller(a)
          /\ r.op # "set_escalation" /\ ~Caller(r)
        BY <1>1 DEF ArtifactOp, RetryOp, Moves, Caller
    <1>3. /\ IsSeq(checkpoint) /\ Range(checkpoint) \subseteq {a}
          /\ Range(<<r>>) = {r} /\ Range(<<>>) = {}
        BY <1>1, One, Empty
    <1>4. IsSeq(accept)
        <2>1. step \in Range(WorkflowOf(row).steps)
            BY WorkflowLoaded, FoundStep
        <2> QED BY <1>1, <2>1, AcceptSuits DEF Suited
    <1>5. Range(checkpoint \o accept) = Range(checkpoint) \cup Range(accept)
        BY <1>3, <1>4, Joined
    <1>6. Unraised(accept) \/ Unmoved(accept)
        BY <1>1, AcceptRaises
    <1>7. Unraised(checkpoint \o accept) \/ Unmoved(checkpoint \o accept)
        BY <1>2, <1>3, <1>5, <1>6 DEF Unraised, Unmoved
    <1>8. Unraised(checkpoint) /\ Unraised(<<r>>) /\ Unraised(<<>>)
        BY <1>2, <1>3 DEF Unraised
    <1>9. plan \in {<<>>, checkpoint \o accept, checkpoint, <<r>>, accept}
        BY <1>1 DEF SubmitPlan
    <1> QED BY <1>6, <1>7, <1>8, <1>9

LEMMA ReviseUnraised ==
    ASSUME NEW sid, NEW wf, NEW step, NEW child, NEW plan, plan = RevisePlan(sid, wf, step, child)
    PROVE  Unraised(plan)
    <1> DEFINE after    == StepsAfter(wf, step.id)
               unlink   == IF child = Null THEN <<>> ELSE <<DeleteOp(child, TRUE), ClearOp(sid)>>
               callStep == IF step.kind = "call"
                           THEN unlink \o <<InvalidateOp(sid, {step.id})>> ELSE <<>>
    <1>1. PICK i, c, d, k, u :
             /\ i = InvalidateOp(sid, after) /\ c = ClearOp(sid) /\ d = DeleteOp(child, TRUE)
             /\ k = InvalidateOp(sid, {step.id}) /\ u = UpdateOp(sid, step.id, Null)
        OBVIOUS
    <1>2. \A o \in {i, c, d, k, u} : o.op # "set_escalation" /\ ~Caller(o)
        BY <1>1 DEF InvalidateOp, ClearOp, DeleteOp, UpdateOp, Caller
    <1>3. IsSeq(unlink) /\ Range(unlink) \subseteq {c, d}
        <2>1. unlink = <<>> \/ unlink = <<d, c>>
            BY <1>1
        <2> HIDE DEF unlink, after, callStep
        <2>2. IsSeq(<<d, c>>) /\ Range(<<d, c>>) = {d, c}
            BY Two
        <2> QED BY <2>1, <2>2, Empty
    <1>4. /\ IsSeq(<<k>>) /\ Range(<<k>>) = {k} /\ IsSeq(<<i>>) /\ Range(<<i>>) = {i}
          /\ IsSeq(<<u>>) /\ Range(<<u>>) = {u}
        BY One
    <1> HIDE DEF unlink
    <1>5. IsSeq(unlink \o <<k>>) /\ Range(unlink \o <<k>>) \subseteq {c, d, k}
        BY <1>3, <1>4, Joined
    <1>6. IsSeq(callStep) /\ Range(callStep) \subseteq {c, d, k}
        BY <1>1, <1>5, Empty
    <1> HIDE DEF callStep, after
    <1>7. IsSeq(<<i>> \o callStep) /\ Range(<<i>> \o callStep) \subseteq {i, c, d, k}
        BY <1>4, <1>6, Joined
    <1>8. Range((<<i>> \o callStep) \o <<u>>) \subseteq {i, c, d, k, u}
        BY <1>4, <1>7, Joined
    <1>9. plan = (<<i>> \o callStep) \o <<u>>
        BY <1>1 DEF RevisePlan, unlink, callStep, after
    <1> QED BY <1>2, <1>8, <1>9 DEF Unraised

\* A plan for a session that is not escalated.
LEMMA StaysHalted ==
    ASSUME NEW plan, NEW sid, Stays(plan, sid), Unraised(plan) \/ Unmoved(plan),
           \A o \in Range(plan) : ~Caller(o),
           sid \in DOMAIN sessions' => ~sessions'[sid].escalation
    PROVE  Halted(plan)'
    <1>1. \A o \in Range(plan) : /\ Advances(o) => Moves(o) /\ o.sid = sid
                                 /\ o.op # "create_session" /\ o.op # "revise_step"
        BY DEF Stays, Advances, Caller, Drawing
    <1>2. \A o \in Range(plan) : o.op = "set_escalation" => \A p \in Range(plan) : ~Advances(p)
        BY <1>1 DEF Unraised, Unmoved
    <1> QED BY <1>1, <1>2 DEF Halted, Advances, Moves

---------------------------------------------------------------------------
(***************************************************************************)
(* The calls and the decisions.                                            *)
(***************************************************************************)
LEMMA StartWorkflowHalts ==
    ASSUME OneThread, IInv, HaltInv, NEW t \in Thread, NEW w \in Workflow, NEW sid \in Sid,
           StartWorkflow(t, w, sid)
    PROVE  StepHalts
    <1> DEFINE wf == Definition[w][live[w]]
    <1>1. PICK row, c, visit, a, more :
             /\ row = NewRow(w, Null) /\ c = CreateOp(sid, row, "call", Null, Null)
             /\ visit = VisitOp(sid, FirstStep(wf).id)
             /\ a = AutoOp("start", sid, wf, FirstStep(wf).id, <<>>)
             /\ more = IF FirstStep(wf).kind = "mcp" THEN <<a>> ELSE <<>>
        OBVIOUS
    <1>2. PICK plan : plan = <<c, visit>> \o more
        OBVIOUS
    <1>3. Do(t, plan) /\ UnchangedStore /\ sid \notin minted
        BY <1>1, <1>2 DEF StartWorkflow
    <1>4. /\ c.op = "create_session" /\ c.sid = sid /\ c.row = row /\ ~row.escalation
          /\ row.parent_session_id = Null /\ visit.op = "increment_visit"
          /\ a.op = "auto_execute" /\ a.sid = sid
        BY <1>1 DEF CreateOp, NewRow, VisitOp, AutoOp
    <1>5. Range(plan) \subseteq {c, visit, a}
        <2>1. IsSeq(more) /\ Range(more) \subseteq {a}
            BY <1>1, One, Empty
        <2>2. IsSeq(<<c, visit>>) /\ Range(<<c, visit>>) = {c, visit}
            BY Two
        <2>3. Range(plan) = {c, visit} \cup Range(more)
            BY <1>2, <2>1, <2>2, Joined
        <2> QED BY <2>1, <2>3
    <1>6. sid \notin DOMAIN sessions'
        BY <1>3 DEF IInv, StoreOK, UnchangedStore
    <1>7. \A o \in {c, visit, a} : /\ o.op # "set_escalation" /\ o.op # "revise_step"
                                   /\ Advances(o) => o.sid = sid
        BY <1>4 DEF Advances, Moves
    <1>8. \A o \in {c, visit, a} :
             o.op = "create_session" => ~o.row.escalation /\ o.row.parent_session_id = Null
        BY <1>4
    <1>9. Halted(plan)'
        BY <1>5, <1>6, <1>7, <1>8 DEF Halted, Advances, Moves
    <1> QED BY <1>3, <1>9, StillStands, HaltsNext

\* A call of one operation.
LEMMA CallHalts ==
    ASSUME OneThread, IInv, HaltInv, NEW t \in Thread, NEW o, Do(t, <<o>>), UnchangedStore,
           o.op \in {"submit_step", "revise_step", "enter_sub_workflow", "push_flow", "pop_flow"},
           o.op = "submit_step" => ~sessions[o.sid].escalation,
           o.op = "revise_step" => Revising
    PROVE  StepHalts
    <1>1. Range(<<o>>) = {o}
        BY One
    <1>2. sessions' = sessions
        BY DEF UnchangedStore
    <1>3. Advances(o) => o.op = "submit_step"
        BY DEF Advances, Moves
    <1>4. Halted(<<o>>)'
        BY <1>1, <1>2, <1>3 DEF Halted, Advances, Moves
    <1> QED BY <1>4, StillStands, HaltsNext

LEMMA CallsHalt ==
    ASSUME OneThread, IInv, HaltInv, NEW t \in Thread, Call(t)
    PROVE  StepHalts
    <1>1. CASE \E w \in Workflow, sid \in Sid : StartWorkflow(t, w, sid)
        BY <1>1, StartWorkflowHalts
    <1>2. CASE \E sid \in Sid : ResolveMismatch(t, sid)
        <2>1. PICK sid, plan : plan = ThenOn(sid, <<>>) /\ Do(t, plan) /\ UnchangedStore
            BY <1>2 DEF ResolveMismatch
        <2>2. Idles(plan)
            BY <2>1, IdlesEmpty, ThenOnIdles
        <2> QED BY <2>1, <2>2, StillStands, HaltsIdle
    <1>3. CASE \E sid \in DOMAIN sessions, content \in Content :
                 \E branch \in StepNames \cup {Null}, art \in ArtifactNames \cup {Null} :
                    SubmitStep(t, sid, content, branch, art)
        <2>1. PICK sid \in DOMAIN sessions, content \in Content, branch \in StepNames \cup {Null},
                   art \in ArtifactNames \cup {Null} : SubmitStep(t, sid, content, branch, art)
            BY <1>3
        <2>2. PICK o : o = [op |-> "submit_step", sid |-> sid, row |-> sessions[sid],
                            content |-> content, branch |-> branch, art |-> art]
            OBVIOUS
        <2>3. Do(t, <<o>>) /\ UnchangedStore /\ ~sessions[sid].escalation
            BY <2>1, <2>2 DEF SubmitStep, Resolved, Submittable
        <2>4. o.op = "submit_step" /\ o.sid = sid
            BY <2>2
        <2> QED BY <2>3, <2>4, CallHalts
    <1>4. CASE \E sid \in DOMAIN sessions, step \in StepNames : ReviseStep(t, sid, step)
        <2>1. PICK sid \in DOMAIN sessions, step \in StepNames : ReviseStep(t, sid, step)
            BY <1>4
        <2>2. PICK o : o = [op |-> "revise_step", sid |-> sid, row |-> sessions[sid], step |-> step]
            OBVIOUS
        <2>3. Do(t, <<o>>) /\ UnchangedStore /\ Revising
            BY <2>1, <2>2 DEF ReviseStep, Resolved, Revising
        <2>4. o.op = "revise_step"
            BY <2>2
        <2> QED BY <2>3, <2>4, CallHalts
    <1>5. CASE \E sid \in DOMAIN sessions, child \in Sid : EnterSubWorkflow(t, sid, child)
        BY <1>5, CallHalts DEF EnterSubWorkflow, Resolved
    <1>6. CASE \E sid \in DOMAIN sessions, child \in Sid, w \in Workflow :
                 PushFlow(t, sid, w, child)
        BY <1>6, CallHalts DEF PushFlow, Resolved
    <1>7. CASE \E sid \in DOMAIN sessions : PopFlow(t, sid)
        BY <1>7, CallHalts DEF PopFlow, Resolved
    <1>8. CASE \E sid \in DOMAIN sessions : DeleteSession(t, sid)
        <2>1. PICK sid : Do(t, <<DeleteOp(sid, FALSE)>>) /\ UnchangedStore
            BY <1>8 DEF DeleteSession
        <2> QED BY <2>1, AsideOps, PreparesIdles, StillStands, HaltsIdle DEF Aside
    <1> QED BY <1>1, <1>2, <1>3, <1>4, <1>5, <1>6, <1>7, <1>8 DEF Call

LEMMA DecideSubmitStepHalts ==
    ASSUME OneThread, IInv, SoloInv, HaltInv, NEW t \in Thread, DecideSubmitStep(t)
    PROVE  StepHalts
    <1>1. PICK o : o = Head(th[t])
        OBVIOUS
    <1>2. PICK plan : /\ plan = SubmitPlan(o.sid, o.row, o.content, o.branch, o.art)
                      /\ Do(t, plan) /\ UnchangedStore
        BY <1>1 DEF DecideSubmitStep, Decide
    <1>3. th[t] # <<>> /\ o.op = "submit_step"
        BY <1>1 DEF DecideSubmitStep, Pending
    <1>4. o.sid \in minted /\ SnapshotOK(o) /\ o \in Range(th[t])
        BY <1>1, <1>3, SnapshotFits, HeadAndTail DEF IInv, ThreadsOK, WorkOK
    <1>5. RowOK(o.row) /\ o.row.current_step \in StepIds(WorkflowOf(o.row))
        BY <1>3, <1>4 DEF SnapshotOK
    <1>6. o.sid \in DOMAIN sessions => ~sessions[o.sid].escalation
        BY <1>3, <1>4 DEF HaltInv, Halted, Advances, Retreats
    <1>7. Suited(plan, o.sid, WorkflowOf(o.row)) /\ (Unraised(plan) \/ Unmoved(plan))
        BY <1>2, <1>4, <1>5, SubmitSuits, SubmitRaises
    <1>8. Stays(plan, o.sid) /\ \A p \in Range(plan) : ~Caller(p)
        BY <1>7, SuitedStays DEF Suited, Suits, Writing, Caller
    <1>9. Halted(plan)'
        BY <1>2, <1>6, <1>7, <1>8, StaysHalted DEF UnchangedStore
    <1> QED BY <1>2, <1>9, StillStands, HaltsNext

LEMMA DecideReviseStepHalts ==
    ASSUME OneThread, CallFree, Revising => LinearWorkflows /\ BehindInv, IInv, HaltInv,
           NEW t \in Thread, DecideReviseStep(t)
    PROVE  StepHalts
    <1>1. PICK o : o = Head(th[t])
        OBVIOUS
    <1> DEFINE children == TopFrames(stack, o.sid)
    <1>2. th[t] # <<>> /\ o.op = "revise_step"
        BY <1>1 DEF DecideReviseStep, Pending
    <1>3. PICK sid, row, wf, at, step :
             /\ sid = o.sid /\ row = o.row /\ wf = WorkflowOf(row) /\ at = row.current_step
             /\ step = StepAt(wf, o.step)
        OBVIOUS
    <1>4. o \in Range(th[t]) /\ Revising
        BY <1>1, <1>2, HeadAndTail DEF IInv, ThreadsOK, WorkOK, HaltInv, Halted
    <1>5. /\ sid \in DOMAIN sessions /\ row = sessions[sid] /\ RowOK(row)
          /\ Straight(wf) /\ SnapshotOK(o) /\ Behind(row.step_data, wf, at)
        BY <1>1, <1>2, <1>3, <1>4, SnapshotStands DEF Caller
    <1>6. o.step \in StepIds(wf) /\ step.id = o.step /\ step \in Range(wf.steps)
        BY <1>2, <1>3, <1>5, FoundStep DEF Straight, SnapshotOK
    <1>7. step.kind # "call"
        BY <1>3, <1>5, <1>6 DEF CallFree, RowOK, WorkflowOf
    <1>8. PICK child, plan :
              /\ Do(t, plan) /\ UnchangedStore
              /\ \/ plan = <<>>
                 \/ plan = RevisePlan(sid, wf, step, child) /\ o.step \in DOMAIN row.step_data
        <2>1. PICK child \in IF children = {} THEN {Null} ELSE children :
                 Decide(t, IF /\ o.sid \notin DOMAIN stack
                              /\ \/ o.step \in DOMAIN row.step_data
                                 \/ step.kind = "call" /\ children # {}
                           THEN RevisePlan(o.sid, wf, step, child) ELSE <<>>)
            BY <1>1, <1>3 DEF DecideReviseStep
        <2> HIDE DEF children
        <2> QED BY <1>3, <1>7, <2>1 DEF Decide
    <1> HIDE DEF children
    <1>9. CASE plan = <<>>
        BY <1>8, <1>9, IdlesEmpty, StillStands, HaltsIdle
    <1>10. CASE plan = RevisePlan(sid, wf, step, child) /\ o.step \in DOMAIN row.step_data
        <2>1. PICK known : known = DOMAIN row.step_data
            OBVIOUS
        <2>2. known \in SUBSET StepIds(wf) /\ step.id \in StepIds(wf)
            BY <1>3, <1>5, <1>6, <2>1 DEF RowOK
        <2>3. /\ Onward(plan, sid, wf, at, known \ StepsAfter(wf, step.id))
              /\ UpdatesTo(plan, at, step.id)
            BY <1>5, <1>10, <2>2, ReviseOnward
        <2>4. Unraised(plan)
            BY <1>10, ReviseUnraised
        <2>5. FindStep(wf, o.step) <= Place(wf, at) /\ Place(wf, o.step) = FindStep(wf, o.step)
            BY <1>5, <1>6, <1>10, Placement DEF Behind
        <2>6. ASSUME NEW p \in Range(plan)
              PROVE  /\ Advances(p) => p.sid = sid /\ Retreats(p, wf, at)
                     /\ p.op # "set_escalation" /\ p.op # "create_session"
                     /\ p.op # "revise_step"
            <3>1. p.op # "set_escalation" /\ p.op # "create_session" /\ ~Caller(p)
                BY <2>3, <2>4 DEF Unraised, Onward
            <3>2. Advances(p) => Mover(p)
                BY <3>1 DEF Advances, Moves, Mover, Caller
            <3>3. Mover(p) => p.sid = sid /\ Retreats(p, wf, at)
                BY <1>6, <2>3, <2>5 DEF Onward, UpdatesTo, Retreats
            <3> QED BY <3>1, <3>2, <3>3 DEF Caller
        <2>7. sessions' = sessions
            BY <1>8 DEF UnchangedStore
        <2>8. Halted(plan)'
            BY <1>3, <1>4, <1>5, <2>6, <2>7 DEF Halted, Advances, Moves
        <2> QED BY <1>8, <2>8, StillStands, HaltsNext
    <1> QED BY <1>8, <1>9, <1>10

LEMMA DecideEnterSubWorkflowHalts ==
    ASSUME CallFree, IInv, NEW t \in Thread, DecideEnterSubWorkflow(t)
    PROVE  FALSE
    <1>1. PICK o, row, wf : o = Head(th[t]) /\ row = o.row /\ wf = WorkflowOf(row)
        OBVIOUS
    <1>2. th[t] # <<>> /\ o.op = "enter_sub_workflow"
        BY <1>1 DEF DecideEnterSubWorkflow, Pending
    <1>3. SnapshotOK(o)
        BY <1>1, <1>2, HeadOK DEF StepOK, OpOK
    <1>4. /\ RowOK(row) /\ row.current_step \in StepIds(wf)
          /\ StepAt(wf, row.current_step).kind = "call"
        BY <1>1, <1>2, <1>3 DEF SnapshotOK
    <1>5. StepAt(wf, row.current_step) \in Range(wf.steps)
        BY <1>1, <1>4, WorkflowLoaded, FoundStep
    <1> QED BY <1>1, <1>4, <1>5 DEF CallFree, RowOK, WorkflowOf

LEMMA DecidePushFlowHalts ==
    ASSUME OneThread, IInv, HaltInv, NEW t \in Thread, DecidePushFlow(t)
    PROVE  StepHalts
    <1>1. PICK o : o = Head(th[t])
        OBVIOUS
    <1>2. PICK row, c, v :
             /\ row = NewRow(o.w, o.sid)
             /\ c = CreateOp(o.child, row, "digression", o.row.current_step, MaxStackDepth)
             /\ v = VisitOp(o.child, row.current_step)
        OBVIOUS
    <1>3. PICK q : Do(t, q) /\ UnchangedStore /\ (q = <<>> \/ q = <<c, v>>)
        BY <1>1, <1>2 DEF DecidePushFlow, Decide
    <1>4. /\ c.op = "create_session" /\ c.row = row /\ ~row.escalation /\ c.type = "digression"
          /\ v.op = "increment_visit"
        BY <1>2 DEF CreateOp, NewRow, VisitOp
    <1>5. CASE q = <<>>
        BY <1>3, <1>5, IdlesEmpty, StillStands, HaltsIdle
    <1>6. CASE q = <<c, v>>
        <2>1. Range(q) = {c, v}
            BY <1>6, Two
        <2>2. \A p \in {c, v} : /\ p.op # "set_escalation" /\ p.op # "revise_step" /\ ~Advances(p)
                                /\ p.op = "create_session" => ~p.row.escalation /\ p.type = "digression"
            BY <1>4 DEF Advances, Moves
        <2>3. Halted(q)'
            BY <2>1, <2>2 DEF Halted, Advances, Moves
        <2> QED BY <1>3, <2>3, StillStands, HaltsNext
    <1> QED BY <1>3, <1>5, <1>6

LEMMA DecidePopFlowHalts ==
    ASSUME OneThread, IInv, HaltInv, NEW t \in Thread, DecidePopFlow(t)
    PROVE  StepHalts
    <1>1. PICK plan : /\ Do(t, plan) /\ UnchangedStore
                      /\ plan = <<>> \/ \E sid, p : plan = ResumePlan(sid, p)
        BY DEF DecidePopFlow, Decide
    <1>2. Idles(plan)
        BY <1>1, IdlesEmpty, ResumeIdles
    <1> QED BY <1>1, <1>2, StillStands, HaltsIdle

LEMMA DecideAutoResumeHalts ==
    ASSUME OneThread, IInv, HaltInv, NEW t \in Thread, DecideAutoResume(t)
    PROVE  StepHalts
    <1>1. PICK o : o = Head(th[t])
        OBVIOUS
    <1>2. \A p \in ParentsOf(stack, o.sid) : stack[o.sid].frame_type = "digression"
        <2>1. ParentsOf(stack, o.sid) # {} => o.sid \in DOMAIN stack
            BY DEF ParentsOf
        <2> QED BY <2>1 DEF HaltInv, Digressions
    <1>3. PICK plan : /\ Do(t, plan) /\ UnchangedStore
                      /\ plan = <<>> \/ \E p : plan = ResumePlan(o.sid, p)
        BY <1>1, <1>2 DEF DecideAutoResume, Decide
    <1>4. Idles(plan)
        BY <1>3, IdlesEmpty, ResumeIdles
    <1> QED BY <1>3, <1>4, StillStands, HaltsIdle

LEMMA DecideEscalateParentHalts ==
    ASSUME OneThread, IInv, HaltInv, NEW t \in Thread, DecideEscalateParent(t)
    PROVE  StepHalts
    <1>1. PICK plan : /\ Do(t, plan) /\ UnchangedStore
                      /\ plan = <<>> \/ \E p : plan = <<EscalateOp(p)>>
        BY DEF DecideEscalateParent, Decide
    <1>2. Idles(plan)
        BY <1>1, IdlesEmpty, AsideOps, PreparesIdles DEF Aside
    <1> QED BY <1>1, <1>2, StillStands, HaltsIdle

---------------------------------------------------------------------------
(***************************************************************************)
(* The transactions.                                                       *)
(***************************************************************************)
\* A write of a column that says nothing of position or escalation.
LEMMA ColumnHalts ==
    ASSUME OneThread, IInv, HaltInv, NEW t \in Thread, NEW v,
           NEW col \in {"retry_counts", "step_visit_counts", "artifact_checkpoints", "step_data",
                        "escalation"},
           NEW name, WriteRow(t, name, [sessions[Head(th[t]).sid] EXCEPT ![col] = v], Tail(th[t])),
           col = "escalation" => name = "set_escalation"
    PROVE  StepHalts
    <1>1. PICK h, row : h = Head(th[t]) /\ row = [sessions[h.sid] EXCEPT ![col] = v]
        OBVIOUS
    <1>2. /\ th[t] # <<>> /\ h.op = name /\ h.sid \in DOMAIN sessions
          /\ sessions' = [sessions EXCEPT ![h.sid] = row]
          /\ UNCHANGED stack /\ Do(t, Tail(th[t]))
        BY <1>1, WriteRowEffect
    <1>3. DOMAIN sessions[h.sid] = Column
        BY <1>2 DEF IInv, StoreOK, RowOK
    <1>4. /\ SameWorkflow(sessions[h.sid], row)
          /\ row.current_step = sessions[h.sid].current_step
          /\ col # "escalation" => row.escalation = sessions[h.sid].escalation
        BY <1>1, <1>3 DEF SameWorkflow, Column
    <1>5. /\ DOMAIN sessions' = DOMAIN sessions /\ sessions'[h.sid] = row
          /\ \A s \in DOMAIN sessions \ {h.sid} : sessions'[s] = sessions[s]
        BY <1>2
    <1>6. RowsStand /\ FramesStand
        BY <1>2, <1>4, <1>5 DEF RowsStand, FramesStand, SameWorkflow
    <1>7. col # "escalation" =>
             \A s \in DOMAIN sessions' : sessions'[s].escalation = sessions[s].escalation
        BY <1>4, <1>5
    <1> QED BY <1>1, <1>2, <1>6, <1>7, HaltsRest

LEMMA IncrementRetryHalts ==
    ASSUME OneThread, IInv, HaltInv, NEW t \in Thread, TransactIncrementRetry(t)
    PROVE  StepHalts
    <1>1. PICK o : o = Head(th[t])
        OBVIOUS
    <1>2. PICK v, row, col :
             /\ v = Increment(sessions[o.sid].retry_counts, o.step)
             /\ row = [sessions[o.sid] EXCEPT !.retry_counts = Increment(@, o.step)]
             /\ col = "retry_counts"
        OBVIOUS
    <1>3. row = [sessions[o.sid] EXCEPT ![col] = v]
        BY <1>2
    <1>4. PICK rest : /\ rest = IF row.retry_counts[o.step] >= o.max
                                THEN <<EscalateParentOp(o.sid)>> ELSE <<>>
                      /\ WriteRow(t, "increment_retry", row, rest)
        BY <1>1, <1>2 DEF TransactIncrementRetry
    <1>5. /\ o.sid \in DOMAIN sessions /\ UNCHANGED stack /\ Do(t, rest)
          /\ sessions' = [sessions EXCEPT ![o.sid] = row]
        BY <1>1, <1>4, WriteRowEffect
    <1>6. RowsStand /\ FramesStand
        <2>1. CalmRows
            BY <1>2, <1>3, <1>5, ColumnCalm
        <2> QED BY <1>5, <2>1, CalmStands DEF FramesStand
    <1>7. Idles(rest)
        BY <1>4, IdlesEmpty, AsideOps, PreparesIdles DEF Aside
    <1> QED BY <1>5, <1>6, <1>7, HaltsIdle

LEMMA FramesHalt ==
    ASSUME OneThread, IInv, SoloInv, HaltInv, NEW t \in Thread,
           TransactSetCalledSession(t) \/ TransactClearCalledSession(t)
    PROVE  StepHalts
    <1>1. PICK o : o = Head(th[t])
        OBVIOUS
    <1>2. /\ th[t] # <<>> /\ o.sid \in DOMAIN sessions
          /\ sessions' = [sessions EXCEPT ![o.sid].updated_at = Now]
          /\ Do(t, Tail(th[t]))
        BY <1>1, TransactEffect
           DEF TransactSetCalledSession, LinkChild, TransactClearCalledSession, UnlinkChild, db
    <1>3. RowsStand /\ FramesStand
        BY <1>2, TouchedCalm, CalmStands, SetCalledSettled, ClearCalledSettled, SettledStands
    <1>4. \A s \in DOMAIN sessions' : sessions'[s].escalation = sessions[s].escalation
        <2>1. PICK row : row = [sessions[o.sid] EXCEPT !.updated_at = Now]
            OBVIOUS
        <2>2. row.escalation = sessions[o.sid].escalation
            BY <1>2, <2>1 DEF IInv, StoreOK, RowOK, Column
        <2>3. sessions' = [sessions EXCEPT ![o.sid] = row]
            BY <1>2, <2>1
        <2> QED BY <1>2, <2>2, <2>3
    <1> QED BY <1>2, <1>3, <1>4, HaltsRest

LEMMA DeleteHalts ==
    ASSUME OneThread, IInv, SoloInv, HaltInv, NEW t \in Thread, TransactDeleteSession(t)
    PROVE  StepHalts
    <1>1. th[t] # <<>> /\ Do(t, Tail(th[t]))
        BY DEF TransactDeleteSession, Transact, Pending
    <1>2. Settled /\ \A s \in DOMAIN sessions' : sessions'[s] = sessions[s]
        BY DeleteSettled
    <1>3. RowsStand /\ FramesStand
        BY <1>2, SettledStands DEF RowsStand, SameWorkflow, Settled
    <1> QED BY <1>1, <1>2, <1>3, HaltsRest

LEMMA RowGoneHalts ==
    ASSUME OneThread, IInv, HaltInv, NEW t \in Thread, RowGone(t)
    PROVE  StepHalts
    <1>1. /\ th[t] # <<>> /\ UnchangedStore
          /\ Do(t, <<>>) \/ Do(t, Tail(th[t]))
        BY DEF RowGone, Idle
    <1>2. CASE Do(t, <<>>)
        BY <1>1, <1>2, IdlesEmpty, StillStands, HaltsIdle
    <1>3. CASE Do(t, Tail(th[t]))
        <2>1. sessions' = sessions
            BY <1>1 DEF UnchangedStore
        <2> QED BY <1>1, <1>3, <2>1, StillStands, HaltsRest
    <1> QED BY <1>1, <1>2, <1>3

\* The move itself.  A plan that may move an escalated session moves it once.
LEMMA UpdateSessionHalts ==
    ASSUME OneThread, Revising => BehindInv, IInv, HaltInv, NEW t \in Thread,
           TransactUpdateSession(t)
    PROVE  StepHalts
    <1>1. PICK o, row, q : o = Head(th[t]) /\ row = sessions[o.sid] /\ q = th[t]
        OBVIOUS
    <1>2. WriteRow(t, "update_session", UpdatedRow(row, o), Tail(q))
        BY <1>1 DEF TransactUpdateSession, UpdatedRow
    <1>3. /\ q # <<>> /\ o.op = "update_session" /\ o.sid \in DOMAIN sessions
          /\ sessions' = [sessions EXCEPT ![o.sid] = UpdatedRow(row, o)]
          /\ UNCHANGED stack /\ Do(t, Tail(q))
        BY <1>1, <1>2, WriteRowEffect
    <1>4. RowOK(row) /\ WorkOK(q) /\ Halted(q)
        BY <1>1, <1>3 DEF IInv, StoreOK, ThreadsOK, HaltInv
    <1>5. PICK new : new = UpdatedRow(row, o)
        OBVIOUS
    <1>6. /\ SameWorkflow(row, new) /\ new.escalation = row.escalation
          /\ new.current_step = IF o.step = Null THEN row.current_step ELSE o.step
        BY <1>4, <1>5, UpdatedColumns
    <1>7. /\ DOMAIN sessions' = DOMAIN sessions /\ sessions'[o.sid] = new
          /\ \A s \in DOMAIN sessions \ {o.sid} : sessions'[s] = sessions[s]
        BY <1>3, <1>5
    <1>8. /\ o \in Range(q) /\ IsSeq(q) /\ Mover(o)
          /\ Range(Tail(q)) \subseteq Range(q)
        BY <1>1, <1>3, <1>4, HeadAndTail DEF Mover, WorkOK
    <1>9. WorkflowOf(new) = WorkflowOf(row)
        BY <1>6, SameWorkflowOf
    <1>10. Revising => \A p \in Range(Tail(q)) : ~Mover(p)
        <2>1. Revising => Ordered(q)
            BY <1>1 DEF BehindInv, Course
        <2> QED BY <1>1, <1>3, <1>8, <2>1, OrderedTail
    <1>11. Halted(Tail(q))'
        <2>1. \A s \in DOMAIN sessions' : s \in DOMAIN sessions
                                          /\ sessions'[s].escalation = sessions[s].escalation
            BY <1>1, <1>3, <1>6, <1>7
        <2>2. ASSUME NEW p \in Range(Tail(q)), Advances(p), p.sid \in DOMAIN sessions',
                     sessions'[p.sid].escalation
              PROVE  FALSE
            <3>1. p \in Range(q) /\ p.sid \in DOMAIN sessions /\ sessions[p.sid].escalation
                BY <1>8, <2>1, <2>2
            <3>2. Revising /\ p.op = "update_session"
                BY <1>4, <2>2, <3>1 DEF Halted, Retreats
            <3> QED BY <1>10, <2>2, <3>2 DEF Mover
        <2>3. \A p \in Range(Tail(q)) :
                 /\ p.op = "set_escalation" => \A r \in Range(Tail(q)) : ~Advances(r)
                 /\ p.op = "create_session" =>
                       /\ ~p.row.escalation
                       /\ p.row.parent_session_id = Null \/ p.type = "digression"
                 /\ p.op = "revise_step" => Revising
            BY <1>4, <1>8 DEF Halted
        <2> QED BY <2>2, <2>3 DEF Halted, Advances, Moves
    <1>12. EscalatedStays
        <2> SUFFICES ASSUME NEW s \in DOMAIN sessions, sessions[s].escalation,
                            sessions'[s].current_step # WORKFLOW_CHANGED
                     PROVE  StepIndex(sessions'[s]) <= StepIndex(sessions[s])
            BY DEF EscalatedStays
        <2>1. StepIndex(sessions[s]) \in Nat
            BY RowIndex DEF IInv, StoreOK
        <2>2. CASE s # o.sid
            BY <1>7, <2>1, <2>2
        <2>3. CASE s = o.sid /\ o.step = Null
            <3>1. StepIndex(new) = StepIndex(row)
                BY <1>6, <1>9, <2>3 DEF StepIndex
            <3> QED BY <1>1, <1>7, <2>1, <2>3, <3>1
        <2>4. CASE s = o.sid /\ o.step # Null
            <3>1. new.current_step = o.step /\ o.step # WORKFLOW_CHANGED
                BY <1>6, <1>7, <2>4
            <3>2. Advances(o)
                BY <1>3, <2>4, <3>1 DEF Advances, Moves
            <3>3. Retreats(o, WorkflowOf(row), row.current_step)
                BY <1>1, <1>4, <1>8, <2>4, <3>2 DEF Halted
            <3>4. Place(WorkflowOf(row), o.step) <= Place(WorkflowOf(row), row.current_step)
                BY <1>3, <2>4, <3>3 DEF Retreats, Goal
            <3> QED BY <1>1, <1>7, <1>9, <2>4, <3>1, <3>4, IndexIsPlace
        <2> QED BY <2>2, <2>3, <2>4
    <1>13. HaltInv'
        <2>1. DOMAIN th = Thread
            BY DEF IInv, ThreadsOK
        <2>2. th'[t] = Tail(q) /\ \A u \in Thread : u = t
            BY <1>3, <2>1 DEF Do, OneThread
        <2>3. \A u \in Thread : Halted(th[u])'
            BY <1>11, <2>2
        <2>4. Digressions'
            BY <1>3 DEF HaltInv, Digressions
        <2> QED BY <2>3, <2>4 DEF HaltInv
    <1> QED BY <1>12, <1>13 DEF StepHalts

LEMMA AutoExecuteHalts ==
    ASSUME OneThread, IInv, SoloInv, HaltInv, NEW t \in Thread, NEW envelope,
           AutoExecute(t, envelope)
    PROVE  StepHalts
    <1>1. PICK o, sid : o = Head(th[t]) /\ sid = o.sid
        OBVIOUS
    <1> DEFINE step    == StepAt(o.wf, o.at)
               data    == Put(o.data, o.at, envelope)
               next    == DefaultTarget(o.wf, step)
               landing == ApplySkipLoop(o.wf, next, data, FALSE)
               tail    == IF o.cont = "submit" THEN <<EscalateParentOp(o.sid)>> ELSE <<>>
               Cascade(at, d) == <<UpdateOp(o.sid, at, d)>> \o tail
               v       == Increment(sessions[o.sid].step_visit_counts, o.at)
               rest    == IF landing.cascade THEN Cascade(next, data)
                          ELSE Proceed(o.cont, o.sid, o.wf, landing.step, data)
    <1>2. th[t] # <<>> /\ o.op = "auto_execute"
        BY <1>1 DEF AutoExecute, Pending
    <1>3. \/ Do(t, Cascade(o.at, o.data)) /\ UnchangedStore
          \/ WriteRow(t, "auto_execute", [sessions[o.sid] EXCEPT !["step_visit_counts"] = v], rest)
        BY <1>1 DEF AutoExecute
    <1>4. o.cont \in Conts /\ o \in Range(th[t])
        BY <1>1, <1>2, HeadOK, HeadAndTail DEF StepOK, OpOK, IInv, ThreadsOK, WorkOK
    <1>5. sid \in DOMAIN sessions => ~sessions[sid].escalation
        BY <1>1, <1>2, <1>4 DEF HaltInv, Halted, Advances, Moves, Retreats
    <1>6. ASSUME NEW at, NEW d
          PROVE  Stays(Cascade(at, d), sid) /\ Unraised(Cascade(at, d))
        <2>1. Stays(tail, sid) /\ Unraised(tail)
            BY <1>1, PlainStays, StaysEmpty, UnraisedOps
        <2>2. PICK u, e : u = UpdateOp(o.sid, at, d) /\ e = EscalateParentOp(o.sid)
            OBVIOUS
        <2>3. u.op = "update_session" /\ e.op = "escalate_parent"
            BY <2>2 DEF UpdateOp, EscalateParentOp
        <2>4. IsSeq(tail) /\ Range(tail) \subseteq {e}
            BY <2>2, One, Empty
        <2>5. IsSeq(<<u>>) /\ Range(<<u>>) = {u}
            BY One
        <2> HIDE DEF tail
        <2>6. Range(<<u>> \o tail) \subseteq {u, e}
            BY <2>4, <2>5, Joined
        <2>7. Stays(<<u>> \o tail, sid)
            BY <1>1, <2>1, <2>2, UpdateStays, StaysJoined
        <2> QED BY <2>2, <2>3, <2>6, <2>7 DEF Unraised, Caller
    <1>7. Stays(rest, sid) /\ Unraised(rest)
        <2>1. PICK p : p = Proceed(o.cont, o.sid, o.wf, landing.step, data)
            OBVIOUS
        <2>2. Stays(p, sid) /\ Unraised(p)
            BY <1>1, <1>4, <2>1, ProceedStays, ProceedUnraised
        <2> QED BY <1>6, <2>1, <2>2
    <1> HIDE DEF Cascade, rest, v, step, data, next, landing, tail
    <1>8. CASE Do(t, Cascade(o.at, o.data)) /\ UnchangedStore
        <2>1. PICK plan : plan = Cascade(o.at, o.data)
            OBVIOUS
        <2>2. Stays(plan, sid) /\ Unraised(plan) /\ \A p \in Range(plan) : ~Caller(p)
            BY <1>6, <2>1 DEF Unraised
        <2>3. Halted(plan)'
            BY <1>5, <1>8, <2>2, StaysHalted DEF UnchangedStore
        <2> QED BY <1>8, <2>1, <2>3, StillStands, HaltsNext
    <1>9. CASE WriteRow(t, "auto_execute", [sessions[o.sid] EXCEPT !["step_visit_counts"] = v], rest)
        <2>1. PICK plan, col, row : /\ plan = rest /\ col = "step_visit_counts"
                                    /\ row = [sessions[sid] EXCEPT ![col] = v]
            OBVIOUS
        <2>2. Stays(plan, sid) /\ Unraised(plan) /\ \A p \in Range(plan) : ~Caller(p)
            BY <1>7, <2>1 DEF Unraised
        <2>3. /\ sid \in DOMAIN sessions /\ sessions' = [sessions EXCEPT ![sid] = row]
              /\ UNCHANGED stack /\ Do(t, plan)
            BY <1>1, <1>9, <2>1, WriteRowEffect
        <2>4. RowsStand /\ FramesStand
            BY <2>1, <2>3, ColumnCalm, CalmStands DEF FramesStand
        <2>5. ~sessions'[sid].escalation
            BY <1>5, <2>1, <2>3 DEF IInv, StoreOK, RowOK, Column
        <2>6. Halted(plan)'
            BY <2>2, <2>5, StaysHalted
        <2> QED BY <2>3, <2>4, <2>6, HaltsNext
    <1> QED BY <1>3, <1>8, <1>9

LEMMA CreateSessionHalts ==
    ASSUME OneThread, IInv, HaltInv, NEW t \in Thread, NEW evicted,
           TransactCreateSession(t, evicted)
    PROVE  StepHalts
    <1>1. PICK o, q, rest : o = Head(th[t]) /\ q = th[t] /\ rest = Tail(th[t])
        OBVIOUS
    <1>2. /\ q # <<>> /\ o.op = "create_session"
          /\ \/ UnchangedStore /\ Do(t, <<>>)
             \/ /\ LET new == CreateSession(db, evicted, o.sid, o.row, o.type, o.call)
                   IN  sessions' = new.sessions /\ stack' = new.stack
                /\ minted' = minted \cup {o.sid} /\ Do(t, rest)
        BY <1>1 DEF TransactCreateSession, Pending
    <1>3. WorkOK(q) /\ CreateArgs(o) /\ Halted(q)
        BY <1>1, <1>2, HeadOK DEF StepOK, OpOK, HaltInv
    <1>4. o.sid \notin minted
        <2>1. o.sid \in Drawn(q)
            BY <1>1, <1>2 DEF Drawn, Drawing
        <2> QED BY <1>1, <2>1 DEF IInv, IdsOK
    <1>5. CASE UnchangedStore /\ Do(t, <<>>)
        BY <1>5, IdlesEmpty, StillStands, HaltsIdle
    <1>6. CASE /\ LET new == CreateSession(db, evicted, o.sid, o.row, o.type, o.call)
                  IN  sessions' = new.sessions /\ stack' = new.stack
               /\ minted' = minted \cup {o.sid} /\ Do(t, rest)
        <2>1. /\ o.sid \in DOMAIN sessions' /\ sessions'[o.sid] = o.row
              /\ \A s \in DOMAIN sessions' \ {o.sid} :
                    s \in DOMAIN sessions /\ sessions'[s] = sessions[s]
            BY <1>3, <1>4, <1>6, CreatedStore DEF Inserted, IInv
        <2>2. o.sid \notin DOMAIN sessions
            BY <1>4 DEF IInv, StoreOK
        <2>3. /\ o \in Range(q) /\ Range(rest) \subseteq Range(q)
              /\ \A p \in Range(rest) : p.op # "create_session"
            BY <1>1, <1>2, <1>3, HeadAndTail DEF WorkOK, Drawing
        <2>4. ~o.row.escalation /\ (o.row.parent_session_id = Null \/ o.type = "digression")
            BY <1>2, <1>3, <2>3 DEF Halted
        <2>5. EscalatedStays
            <3> SUFFICES ASSUME NEW s \in DOMAIN sessions \cap DOMAIN sessions'
                         PROVE  StepIndex(sessions'[s]) <= StepIndex(sessions[s])
                BY DEF EscalatedStays
            <3>1. sessions'[s] = sessions[s] /\ StepIndex(sessions[s]) \in Nat
                BY <2>1, <2>2, RowIndex DEF IInv, StoreOK
            <3> QED BY <3>1
        <2>6. Halted(rest)'
            BY <1>3, <2>1, <2>3, <2>4 DEF Halted, Advances, Moves
        <2>7. Digressions'
            <3> DEFINE kept  == Without(stack, evicted)
                       slot  == ChildSlot(kept, o.row.parent_session_id)
                       frame == [root |-> slot.root, depth |-> slot.depth,
                                 frame_type |-> o.type, call_step |-> o.call]
            <3>1. stack' = IF o.row.parent_session_id = Null THEN kept ELSE Put(kept, o.sid, frame)
                BY <1>6 DEF CreateSession, DeleteSessions, InsertFrame, db
            <3>2. \A s \in DOMAIN kept : kept[s].frame_type = "digression"
                BY DEF HaltInv, Digressions, Without, Restrict
            <3>3. o.type = "digression" => frame.frame_type = "digression"
                OBVIOUS
            <3> HIDE DEF kept, frame
            <3> QED BY <2>4, <3>1, <3>2, <3>3 DEF Digressions, Put
        <2>8. DOMAIN th = Thread /\ th'[t] = rest /\ \A u \in Thread : u = t
            BY <1>6 DEF IInv, ThreadsOK, Do, OneThread
        <2>9. \A u \in Thread : Halted(th[u])'
            BY <2>6, <2>8
        <2> QED BY <2>5, <2>7, <2>9 DEF HaltInv, StepHalts
    <1> QED BY <1>2, <1>5, <1>6

---------------------------------------------------------------------------
(***************************************************************************)
(* Every step, and the theorem.                                            *)
(***************************************************************************)
LEMMA WorkHalts ==
    ASSUME OneThread, CallFree, Revising => LinearWorkflows /\ BehindInv, IInv, SoloInv, HaltInv,
           NEW t \in Thread, Work(t)
    PROVE  StepHalts
    <1>1. CASE DecideSubmitStep(t) BY <1>1, DecideSubmitStepHalts
    <1>2. CASE DecideReviseStep(t) BY <1>2, DecideReviseStepHalts
    <1>3. CASE DecideEnterSubWorkflow(t) BY <1>3, DecideEnterSubWorkflowHalts
    <1>4. CASE DecidePushFlow(t) BY <1>4, DecidePushFlowHalts
    <1>5. CASE DecidePopFlow(t) BY <1>5, DecidePopFlowHalts
    <1>6. CASE DecideAutoResume(t) BY <1>6, DecideAutoResumeHalts
    <1>7. CASE DecideEscalateParent(t) BY <1>7, DecideEscalateParentHalts
    <1>8. CASE TransactUpdateSession(t) BY <1>8, UpdateSessionHalts
    <1>9. CASE TransactIncrementVisit(t)
        <2>1. PICK o, v : /\ o = Head(th[t])
                          /\ v = Increment(sessions[o.sid].step_visit_counts, o.step)
            OBVIOUS
        <2>2. WriteRow(t, "increment_visit",
                       [sessions[Head(th[t]).sid] EXCEPT !["step_visit_counts"] = v], Tail(th[t]))
            BY <1>9, <2>1 DEF TransactIncrementVisit
        <2> QED BY <2>2, ColumnHalts
    <1>10. CASE TransactIncrementRetry(t) BY <1>10, IncrementRetryHalts
    <1>11. CASE TransactSetEscalation(t)
        <2>1. WriteRow(t, "set_escalation",
                       [sessions[Head(th[t]).sid] EXCEPT !["escalation"] = TRUE], Tail(th[t]))
            BY <1>11 DEF TransactSetEscalation
        <2> QED BY <2>1, ColumnHalts
    <1>12. CASE TransactInvalidateSteps(t)
        <2>1. PICK o, v : o = Head(th[t]) /\ v = Without(sessions[o.sid].step_data, o.steps)
            OBVIOUS
        <2>2. WriteRow(t, "invalidate_steps",
                       [sessions[Head(th[t]).sid] EXCEPT !["step_data"] = v], Tail(th[t]))
            BY <1>12, <2>1 DEF TransactInvalidateSteps
        <2> QED BY <2>2, ColumnHalts
    <1>13. CASE TransactStoreArtifact(t)
        <2>1. PICK o, v :
                 /\ o = Head(th[t])
                 /\ v = sessions[o.sid].artifact_checkpoints \cup {<<o.step, o.art>>}
            OBVIOUS
        <2>2. WriteRow(t, "store_artifact",
                       [sessions[Head(th[t]).sid] EXCEPT !["artifact_checkpoints"] = v], Tail(th[t]))
            BY <1>13, <2>1 DEF TransactStoreArtifact
        <2> QED BY <2>2, ColumnHalts
    <1>14. CASE TransactSetCalledSession(t) BY <1>14, FramesHalt
    <1>15. CASE TransactClearCalledSession(t) BY <1>15, FramesHalt
    <1>16. CASE TransactDeleteSession(t) BY <1>16, DeleteHalts
    <1>17. CASE \E evicted \in SUBSET Sid : TransactCreateSession(t, evicted)
        BY <1>17, CreateSessionHalts
    <1>18. CASE \E envelope \in Envelope : AutoExecute(t, envelope)
        BY <1>18, AutoExecuteHalts
    <1>19. CASE RowGone(t) BY <1>19, RowGoneHalts
    <1> QED BY <1>1, <1>2, <1>3, <1>4, <1>5, <1>6, <1>7, <1>8, <1>9, <1>10, <1>11, <1>12,
               <1>13, <1>14, <1>15, <1>16, <1>17, <1>18, <1>19 DEF Work

LEMMA StillHalts ==
    ASSUME IInv, HaltInv, UnchangedStore, \A t \in Thread : Halted(th[t])'
    PROVE  StepHalts
    <1>1. Digressions'
        BY DEF UnchangedStore, HaltInv, Digressions
    <1>2. \A s \in DOMAIN sessions : StepIndex(sessions[s]) \in Nat
        BY RowIndex DEF IInv, StoreOK
    <1>3. EscalatedStays
        BY <1>2 DEF UnchangedStore, EscalatedStays
    <1> QED BY <1>1, <1>3 DEF StepHalts, HaltInv

LEMMA NextHalts ==
    ASSUME OneThread, CallFree, Revising => LinearWorkflows /\ BehindInv, IInv, SoloInv, HaltInv,
           [Next]_vars
    PROVE  StepHalts
    <1>1. CASE UNCHANGED vars
        <2>1. UNCHANGED <<sessions, stack, minted, th>>
            BY <1>1 DEF vars
        <2>2. \A t \in Thread : Halted(th[t])'
            BY <2>1 DEF HaltInv, Halted, Advances, Moves
        <2> QED BY <2>1, <2>2, StillHalts DEF UnchangedStore
    <1>2. CASE \E t \in Thread : Call(t) \/ Work(t)
        BY <1>2, CallsHalt, WorkHalts
    <1>3. CASE Restart
        <2>1. Halted(<<>>)'
            BY IdlesEmpty, IdlesHalted
        <2>2. \A t \in Thread : th'[t] = <<>>
            BY <1>3 DEF Restart
        <2>3. UnchangedStore
            BY <1>3 DEF Restart
        <2> QED BY <2>1, <2>2, <2>3, StillHalts
    <1> QED BY <1>1, <1>2, <1>3 DEF Next

LEMMA InitHalts == Init => HaltInv
    <1> SUFFICES ASSUME Init PROVE HaltInv
        OBVIOUS
    <1>1. DOMAIN stack = {} /\ \A t \in Thread : th[t] = <<>>
        BY DEF Init
    <1>2. Halted(<<>>)
        BY Empty DEF Halted
    <1> QED BY <1>1, <1>2 DEF HaltInv, Digressions

\* One call at a time, restarts at any point, no call-steps, and either no
\* revisions or workflows without branches: an escalated session never moves
\* forward (submit_step refuses it), although the guard is read from a snapshot
\* and the escalation, the submitted data and the move are transactions of
\* their own; a revision moves it back, a digression that ends leaves it alone.
THEOREM EscalatedStandsStill ==
    ASSUME OneThread, CallFree, Revising => LinearWorkflows
    PROVE  Spec => EscalatedNeverAdvances
    <1>1. Spec => [](Revising => LinearWorkflows /\ BehindInv)
        <2>1. CASE Revising
            <3>1. BehindInv => (Revising => LinearWorkflows /\ BehindInv)
                BY <2>1
            <3>2. Spec => []BehindInv
                BY <2>1, BehindInvariant
            <3> QED BY <3>1, <3>2, PTL
        <2>2. CASE ~Revising
            <3>1. Revising => LinearWorkflows /\ BehindInv
                BY <2>2
            <3> QED BY <3>1, PTL
        <2> QED BY <2>1, <2>2
    <1>2. /\ IInv /\ SoloInv /\ HaltInv /\ (Revising => LinearWorkflows /\ BehindInv) /\ [Next]_vars
             => HaltInv' /\ EscalatedStays
        BY NextHalts DEF StepHalts
    <1>3. EscalatedStays => [\A s \in DOMAIN sessions \cap DOMAIN sessions' :
                                /\ sessions[s].escalation
                                /\ sessions'[s].current_step # WORKFLOW_CHANGED
                                => StepIndex(sessions'[s]) <= StepIndex(sessions[s])]_vars
        BY DEF EscalatedStays
    <1> QED BY <1>1, <1>2, <1>3, InitHalts, Invariant, SoloInvariant, PTL
            DEF Spec, EscalatedNeverAdvances

---------------------------------------------------------------------------
(***************************************************************************)
(* Loops.  A visit is counted in one transaction, the pointer moved in     *)
(* another, and the count compared when the next call has resolved the     *)
(* session.  A restart between the two counts a visit that did not happen  *)
(* and is counted again, and revise_step moves to a step whose visits may  *)
(* be used up, so there are no restarts and no revisions here.  The first  *)
(* guardrail that fires decides: one that does not escalate may hide a     *)
(* later one that would.                                                   *)
(***************************************************************************)
RevisitGuards(wf) ==
    {g \in Range(wf.guardrails) : g.trigger = "step_revisit" /\ g.action = "escalate"}

GuardedLoops ==
    \A w \in Workflow : \A v \in Version(w) :
       LET wf == Definition[w][v]
       IN  /\ \A x, y \in Range(wf.steps) : x.id = y.id => x = y
           /\ Null \notin Range(wf.guardrails)
           /\ \A i \in DOMAIN wf.guardrails :
                 wf.guardrails[i] \in RevisitGuards(wf) =>
                    /\ wf.guardrails[i].max \in Nat \ {0}
                    /\ \A j \in 1..i : wf.guardrails[j].action = "escalate"

NoReturn == "revise_step" \notin Tools /\ MaxRestarts = 0

ClientSteps(wf) == {step.id : step \in {x \in Range(wf.steps) : x.kind = "llm"}}

\* No step is at its limit, or only the one the session stands on.
Fresh(row) ==
    \A g \in RevisitGuards(WorkflowOf(row)), x \in ClientSteps(WorkflowOf(row)) :
       Count(row.step_visit_counts, x) \in 0..(g.max - 1)
Rested(row, at) ==
    \A g \in RevisitGuards(WorkflowOf(row)), x \in ClientSteps(WorkflowOf(row)) :
       /\ Count(row.step_visit_counts, x) \in 0..g.max
       /\ Count(row.step_visit_counts, x) = g.max => at \in {x, WORKFLOW_CHANGED}

Lands(o, s) == o.op = "update_session" /\ o.sid = s /\ o.step # Null
Visits(o) == o.op \in {"increment_visit", "auto_execute"}

\* What an operation of the plan may still do to the row of its session.
Landing(o) ==
    o.sid \in DOMAIN sessions =>
       /\ Lands(o, o.sid) => Rested(sessions[o.sid], o.step)
       /\ Visits(o) => Fresh(sessions[o.sid])
       /\ o.op = "submit_step" =>
             /\ o.row.current_step = sessions[o.sid].current_step
             /\ o.row.step_visit_counts = sessions[o.sid].step_visit_counts

\* What it says of itself.
Sound(o) ==
    /\ o.op # "revise_step"
    /\ o.op = "auto_execute" => StepAt(o.wf, o.at).kind = "mcp"
    /\ o.op = "create_session" => o.row.step_visit_counts = <<>>

\* A step is visited once, and the pointer is moved to it then or before.
Arrives(q) ==
    \A i, j \in DOMAIN q :
       q[i].op = "increment_visit" =>
          /\ Lands(q[j], q[i].sid) => q[j].step = q[i].step
          /\ q[j].op = "create_session" /\ q[j].sid = q[i].sid =>
                q[j].row.current_step = q[i].step
          /\ i < j /\ Visits(q[j]) /\ q[j].sid = q[i].sid =>
                q[j].op = "auto_execute" /\ q[j].at = q[i].step
StandsAt(q, i) ==
    \/ sessions[q[i].sid].current_step = q[i].step
    \/ \E j \in DOMAIN q : j <= i + 1 /\ Lands(q[j], q[i].sid)

Visiting(q) ==
    /\ Arrives(q)
    /\ \A o \in Range(q) : Landing(o) /\ Sound(o)
    /\ \A i \in DOMAIN q :
          q[i].op = "increment_visit" /\ q[i].sid \in DOMAIN sessions => StandsAt(q, i)
    /\ \A o \in Range(q) : o.op = "submit_step" => q = <<o>>

Settling(q) ==
    \A s \in DOMAIN sessions :
       \/ Rested(sessions[s], sessions[s].current_step)
       \/ q # <<>> /\ Lands(Head(q), s)

\* In the plan of the running call, every count is followed by nothing but the
\* move to the step it is for, or preceded by it; in between, and only then, a
\* session may be at a limit it does not stand on.
VisitInv ==
    /\ restarts = 0
    /\ \A t \in Thread : Visiting(th[t]) /\ Settling(th[t])
    /\ Thread = {} => DOMAIN sessions = {}

---------------------------------------------------------------------------
(***************************************************************************)
(* Counting.                                                               *)
(***************************************************************************)
LEMMA CountAfter ==
    ASSUME NEW counts, NEW x, NEW y
    PROVE  Count(Increment(counts, y), x) = IF x = y THEN Count(counts, y) + 1 ELSE Count(counts, x)
    BY DEF Increment, Put, Count

LEMMA LimitsPositive ==
    ASSUME GuardedLoops, NEW row, RowOK(row), NEW g \in RevisitGuards(WorkflowOf(row))
    PROVE  g.max \in Nat \ {0}
    <1>1. PICK wf : wf = WorkflowOf(row)
        OBVIOUS
    <1>2. PICK i \in DOMAIN wf.guardrails : wf.guardrails[i] = g
        BY <1>1 DEF RevisitGuards, Range
    <1> QED BY <1>1, <1>2 DEF GuardedLoops, RowOK, WorkflowOf

LEMMA FreshRested ==
    ASSUME GuardedLoops, NEW row, RowOK(row), Fresh(row), NEW at
    PROVE  Rested(row, at)
    <1> SUFFICES ASSUME NEW g \in RevisitGuards(WorkflowOf(row)),
                        NEW x \in ClientSteps(WorkflowOf(row)), NEW n,
                        n = Count(row.step_visit_counts, x)
                 PROVE  n \in 0..g.max /\ n # g.max
        BY DEF Rested
    <1>1. g.max \in Nat \ {0} /\ n \in 0..(g.max - 1)
        BY LimitsPositive DEF Fresh
    <1> QED BY <1>1

\* What the counts say depends on two columns only.
SameCounts(r1, r2) ==
    WorkflowOf(r1) = WorkflowOf(r2) /\ r1.step_visit_counts = r2.step_visit_counts

LEMMA SameLimits ==
    ASSUME NEW r1, NEW r2, SameCounts(r1, r2)
    PROVE  /\ Fresh(r1) => Fresh(r2)
           /\ \A at : Rested(r1, at) => Rested(r2, at)
    BY DEF SameCounts, Fresh, Rested

LEMMA VisitedRested ==
    ASSUME GuardedLoops, NEW row, RowOK(row), Fresh(row), NEW at, NEW new,
           WorkflowOf(new) = WorkflowOf(row),
           new.step_visit_counts = Increment(row.step_visit_counts, at)
    PROVE  Rested(new, at)
    <1> SUFFICES ASSUME NEW g \in RevisitGuards(WorkflowOf(row)),
                        NEW x \in ClientSteps(WorkflowOf(row)), NEW n,
                        n = Count(new.step_visit_counts, x)
                 PROVE  n \in 0..g.max /\ (n = g.max => at = x)
        BY DEF Rested
    <1>1. PICK m : m = Count(row.step_visit_counts, x)
        OBVIOUS
    <1>2. g.max \in Nat \ {0} /\ m \in 0..(g.max - 1)
        BY <1>1, LimitsPositive DEF Fresh
    <1>3. n = IF x = at THEN m + 1 ELSE m
        BY <1>1, CountAfter
    <1> QED BY <1>2, <1>3

LEMMA OtherVisited ==
    ASSUME NEW row, Fresh(row), NEW at, at \notin ClientSteps(WorkflowOf(row)), NEW new,
           WorkflowOf(new) = WorkflowOf(row),
           new.step_visit_counts = Increment(row.step_visit_counts, at)
    PROVE  Fresh(new)
    BY CountAfter DEF Fresh

\* A step that is executed or called is not one a client submits.
LEMMA NotClient ==
    ASSUME GuardedLoops, NEW row, RowOK(row), NEW at \in StepIds(WorkflowOf(row)),
           StepAt(WorkflowOf(row), at).kind # "llm"
    PROVE  at \notin ClientSteps(WorkflowOf(row))
    <1>1. PICK wf, step : wf = WorkflowOf(row) /\ step = StepAt(wf, at)
        OBVIOUS
    <1>2. step \in Range(wf.steps) /\ step.id = at
        BY <1>1, WorkflowLoaded, FoundStep
    <1>3. \A x, y \in Range(wf.steps) : x.id = y.id => x = y
        BY <1>1 DEF GuardedLoops, RowOK, WorkflowOf
    <1> QED BY <1>1, <1>2, <1>3 DEF ClientSteps

\* A session that rests, or stands on no step of a client, is fresh.
LEMMA RestedFresh ==
    ASSUME GuardedLoops, NEW row, RowOK(row), NEW at, Rested(row, at), at # WORKFLOW_CHANGED,
           \/ at \notin ClientSteps(WorkflowOf(row))
           \/ \A g \in RevisitGuards(WorkflowOf(row)) : Count(row.step_visit_counts, at) # g.max
    PROVE  Fresh(row)
    <1> SUFFICES ASSUME NEW g \in RevisitGuards(WorkflowOf(row)),
                        NEW x \in ClientSteps(WorkflowOf(row)), NEW n,
                        n = Count(row.step_visit_counts, x)
                 PROVE  n \in 0..(g.max - 1)
        BY DEF Fresh
    <1>1. g.max \in Nat \ {0} /\ n \in 0..g.max /\ (n = g.max => at = x)
        BY LimitsPositive DEF Rested
    <1>2. n # g.max
        BY <1>1
    <1> QED BY <1>1, <1>2

---------------------------------------------------------------------------
(***************************************************************************)
(* Plans.                                                                  *)
(***************************************************************************)
LEMMA TailAt ==
    ASSUME NEW q, IsSeq(q), q # <<>>
    PROVE  /\ DOMAIN q \subseteq Nat \ {0} /\ 1 \in DOMAIN q /\ q[1] = Head(q)
           /\ DOMAIN Tail(q) \subseteq Nat \ {0}
           /\ \A i \in DOMAIN Tail(q) : i + 1 \in DOMAIN q /\ Tail(q)[i] = q[i + 1]
           /\ \A i \in DOMAIN q : i # 1 => i - 1 \in DOMAIN Tail(q)
    <1>1. /\ Len(q) \in Nat \ {0} /\ DOMAIN q = 1..Len(q) /\ Head(q) = q[1]
          /\ DOMAIN Tail(q) = 1..(Len(q) - 1)
          /\ \A i \in 1..(Len(q) - 1) : Tail(q)[i] = q[i + 1]
        BY DEF IsSeq
    <1> QED BY <1>1

LEMMA ArrivesTail ==
    ASSUME NEW q, IsSeq(q), q # <<>>, Arrives(q)
    PROVE  Arrives(Tail(q))
    <1>1. PICK r : r = Tail(q)
        OBVIOUS
    <1>2. /\ DOMAIN r \subseteq Nat
          /\ \A i \in DOMAIN r : i + 1 \in DOMAIN q /\ r[i] = q[i + 1]
        BY <1>1, TailAt
    <1>3. ASSUME NEW i \in DOMAIN r, NEW j \in DOMAIN r, r[i].op = "increment_visit"
          PROVE  /\ Lands(r[j], r[i].sid) => r[j].step = r[i].step
                 /\ r[j].op = "create_session" /\ r[j].sid = r[i].sid =>
                       r[j].row.current_step = r[i].step
                 /\ i < j /\ Visits(r[j]) /\ r[j].sid = r[i].sid =>
                       r[j].op = "auto_execute" /\ r[j].at = r[i].step
        <2>1. /\ i + 1 \in DOMAIN q /\ j + 1 \in DOMAIN q /\ (i < j => i + 1 < j + 1)
              /\ r[i] = q[i + 1] /\ r[j] = q[j + 1]
            BY <1>2
        <2> QED BY <1>3, <2>1 DEF Arrives
    <1> QED BY <1>1, <1>3 DEF Arrives

\* Operations that neither move nor visit.
Still(o) ==
    /\ o.op \notin {"create_session", "increment_visit", "auto_execute", "submit_step",
                    "revise_step"}
    /\ ~Lands(o, o.sid)
Stilled(plan) == IsSeq(plan) /\ \A o \in Range(plan) : Still(o)

\* A plan that takes the session sid to its next step, as far as the plan
\* tells.
Trip(plan, sid) ==
    /\ IsSeq(plan) /\ Arrives(plan)
    /\ \A o \in Range(plan) :
          /\ Sound(o) /\ o.op \notin {"create_session", "submit_step"}
          /\ Visits(o) \/ Lands(o, o.sid) => o.sid = sid
    /\ \A i \in DOMAIN plan :
          plan[i].op = "increment_visit" =>
             \E j \in DOMAIN plan : j <= i + 1 /\ Lands(plan[j], plan[i].sid)

LEMMA StilledArrives ==
    ASSUME NEW plan, Stilled(plan)
    PROVE  \A i \in DOMAIN plan : plan[i].op # "increment_visit"
    BY DEF Stilled, Still, Range

LEMMA StilledTrip ==
    ASSUME NEW plan, Stilled(plan), NEW sid
    PROVE  Trip(plan, sid)
    <1>1. \A i \in DOMAIN plan : plan[i].op # "increment_visit"
        BY StilledArrives
    <1>2. Arrives(plan)
        BY <1>1 DEF Arrives
    <1> QED BY <1>1, <1>2 DEF Stilled, Still, Trip, Sound, Visits

LEMMA StilledVisiting ==
    ASSUME NEW plan, Stilled(plan)
    PROVE  Visiting(plan)'
    <1>1. \A i \in DOMAIN plan : plan[i].op # "increment_visit"
        BY StilledArrives
    <1>2. Arrives(plan)
        BY <1>1 DEF Arrives
    <1> QED BY <1>1, <1>2 DEF Stilled, Still, Visiting, Landing, Sound, Visits, Lands

LEMMA StilledOne ==
    ASSUME NEW o, Still(o)
    PROVE  Stilled(<<o>>)
    BY One DEF Stilled

LEMMA StilledTwo ==
    ASSUME NEW a, NEW b, Still(a), Still(b)
    PROVE  Stilled(<<a, b>>)
    <1>1. IsSeq(<<a, b>>) /\ Range(<<a, b>>) = {a, b}
        BY Two
    <1> QED BY <1>1 DEF Stilled

LEMMA StilledEmpty == Stilled(<<>>)
    BY Empty DEF Stilled

LEMMA TripVisiting ==
    ASSUME GuardedLoops, NEW plan, NEW sid, Trip(plan, sid),
           sid \in DOMAIN sessions' => RowOK(sessions[sid])' /\ Fresh(sessions[sid])'
    PROVE  Visiting(plan)'
    <1>1. ASSUME NEW o \in Range(plan)
          PROVE  Landing(o)'
        <2>1. ASSUME sid \in DOMAIN sessions', NEW at
              PROVE  Rested(sessions[sid], at)'
            BY <2>1, FreshRested
        <2> QED BY <2>1 DEF Trip, Landing, Lands
    <1> QED BY <1>1 DEF Trip, Visiting, StandsAt

LEMMA TripPlain ==
    ASSUME NEW plan, IsSeq(plan), NEW sid,
           \A o \in Range(plan) :
              /\ Sound(o) /\ o.op \notin {"create_session", "submit_step", "increment_visit"}
              /\ Visits(o) \/ Lands(o, o.sid) => o.sid = sid
    PROVE  Trip(plan, sid)
    <1>1. \A i \in DOMAIN plan : plan[i].op # "increment_visit"
        BY DEF Range
    <1> QED BY <1>1 DEF Trip, Arrives

\* The pointer and the count, in either order.
Paired(v, u, sid) ==
    /\ v.op = "increment_visit" /\ v.sid = sid
    /\ Lands(u, sid) /\ u.step = v.step

LEMMA TripTwo ==
    ASSUME NEW p, IsSeq(p), DOMAIN p = 1..2, NEW sid,
           Paired(p[1], p[2], sid) \/ Paired(p[2], p[1], sid)
    PROVE  Trip(p, sid)
    <1>6. PICK v, u : /\ Paired(v, u, sid)
                      /\ \/ p[1] = v /\ p[2] = u
                         \/ p[1] = u /\ p[2] = v
        OBVIOUS
    <1>0. v.op = "increment_visit" /\ v.sid = sid /\ Lands(u, sid) /\ u.step = v.step
        BY <1>6 DEF Paired
    <1>1. Range(p) = {u, v} /\ \A i \in 1..2 : \A j \in 1..2 : i < j \/ i = j \/ j < i
        BY <1>6 DEF Range
    <1>2. \A i \in DOMAIN p : \A j \in DOMAIN p : p[j] = u => j <= i + 1
        OBVIOUS
    <1>3. v # u /\ \E j \in DOMAIN p : p[j] = u
        BY <1>0, <1>6 DEF Lands
    <1>4. Arrives(p)
        <2>1. \A i, j \in DOMAIN p : p[i].op = "increment_visit" =>
                 p[i] = v /\ (p[j] = u \/ ~(i < j))
            BY <1>0, <1>6 DEF Lands
        <2>2. \A j \in DOMAIN p : p[j] \in {u, v}
            BY <1>6
        <2> QED BY <1>0, <2>1, <2>2 DEF Arrives, Lands, Visits
    <1>5. \A i \in DOMAIN p : p[i].op = "increment_visit" =>
             \E j \in DOMAIN p : j <= i + 1 /\ Lands(p[j], p[i].sid)
        BY <1>0, <1>2, <1>3, <1>6 DEF Lands
    <1> QED BY <1>0, <1>1, <1>4, <1>5 DEF Trip, Sound, Visits, Lands

LEMMA TripFront ==
    ASSUME NEW q, Stilled(q), NEW plan, NEW sid, Trip(plan, sid)
    PROVE  Trip(q \o plan, sid)
    <1>1. PICK p, n, m : p = q \o plan /\ n = Len(q) /\ m = Len(plan)
        OBVIOUS
    <1>2. IsSeq(q) /\ IsSeq(plan)
        BY DEF Stilled, Trip
    <1>3. IsSeq(p) /\ Range(p) = Range(q) \cup Range(plan)
        BY <1>1, <1>2, Joined
    <1>4. /\ n \in Nat /\ m \in Nat /\ DOMAIN q = 1..n /\ DOMAIN plan = 1..m
          /\ DOMAIN p = 1..(n + m)
          /\ \A i \in 1..(n + m) : p[i] = IF i <= n THEN q[i] ELSE plan[i - n]
        BY <1>1, <1>2, JoinedAt
    <1>5. ASSUME NEW i \in DOMAIN p
          PROVE  /\ i \in Nat
                 /\ \/ Still(p[i])
                    \/ i - n \in DOMAIN plan /\ p[i] = plan[i - n]
        <2>1. CASE i <= n
            <3>1. i \in DOMAIN q /\ p[i] = q[i]
                BY <1>4, <2>1
            <3> QED BY <1>4, <3>1 DEF Stilled, Range
        <2>2. CASE ~(i <= n)
            BY <1>4, <2>2
        <2> QED BY <2>1, <2>2
    <1>6. \A i \in DOMAIN plan : i + n \in DOMAIN p /\ p[i + n] = plan[i]
        BY <1>4
    <1>7. Arrives(p)
        <2> SUFFICES ASSUME NEW i \in DOMAIN p, NEW j \in DOMAIN p, p[i].op = "increment_visit"
                     PROVE  /\ Lands(p[j], p[i].sid) => p[j].step = p[i].step
                            /\ p[j].op = "create_session" /\ p[j].sid = p[i].sid =>
                                  p[j].row.current_step = p[i].step
                            /\ i < j /\ Visits(p[j]) /\ p[j].sid = p[i].sid =>
                                  p[j].op = "auto_execute" /\ p[j].at = p[i].step
            BY DEF Arrives
        <2>1. i - n \in DOMAIN plan /\ p[i] = plan[i - n]
            BY <1>5 DEF Still
        <2>2. CASE Still(p[j])
            BY <2>2 DEF Still, Lands, Visits
        <2>3. CASE j - n \in DOMAIN plan /\ p[j] = plan[j - n]
            <3>1. i < j => i - n < j - n
                BY <1>4, <1>5
            <3> QED BY <2>1, <2>3, <3>1 DEF Trip, Arrives
        <2> QED BY <1>5, <2>2, <2>3
    <1>8. ASSUME NEW i \in DOMAIN p, p[i].op = "increment_visit"
          PROVE  \E j \in DOMAIN p : j <= i + 1 /\ Lands(p[j], p[i].sid)
        <2>1. i - n \in DOMAIN plan /\ p[i] = plan[i - n]
            BY <1>5, <1>8 DEF Still
        <2>2. PICK j \in DOMAIN plan : j <= (i - n) + 1 /\ Lands(plan[j], plan[i - n].sid)
            BY <1>8, <2>1 DEF Trip
        <2>3. j + n \in DOMAIN p /\ p[j + n] = plan[j]
            BY <1>6, <2>2
        <2>4. j + n <= i + 1
            BY <1>4, <1>5, <2>2
        <2> QED BY <2>1, <2>2, <2>3, <2>4
    <1>9. \A x \in Range(p) :
             /\ Sound(x) /\ x.op \notin {"create_session", "submit_step"}
             /\ Visits(x) \/ Lands(x, x.sid) => x.sid = sid
        BY <1>3 DEF Trip, Stilled, Still, Sound, Visits
    <1> QED BY <1>1, <1>3, <1>7, <1>8, <1>9 DEF Trip

LEMMA UpdateTrip ==
    ASSUME NEW sid, NEW at, NEW data
    PROVE  Sound(UpdateOp(sid, at, data)) /\ UpdateOp(sid, at, data).op = "update_session"
           /\ UpdateOp(sid, at, data).sid = sid /\ UpdateOp(sid, at, data).step = at
    BY DEF Sound, UpdateOp

LEMMA StillOps ==
    ASSUME NEW sid, NEW child, NEW call, NEW data, NEW step, NEW steps, NEW art, NEW max,
           NEW tolerant, NEW wf
    PROVE  /\ Still(RetryOp(sid, step, max)) /\ Still(EscalateOp(sid))
           /\ Still(LinkOp(sid, child, call)) /\ Still(ClearOp(sid))
           /\ Still(DeleteOp(sid, tolerant)) /\ Still(InvalidateOp(sid, steps))
           /\ Still(ArtifactOp(sid, step, art)) /\ Still(EscalateParentOp(sid))
           /\ Still(HandoffOp(sid, wf, data)) /\ Still(UpdateOp(sid, Null, data))
    BY DEF Still, Lands, RetryOp, EscalateOp, LinkOp, ClearOp, DeleteOp, InvalidateOp,
           ArtifactOp, EscalateParentOp, HandoffOp, UpdateOp

\* An update with operations that neither move nor visit behind it.
LEMMA UpdateThen ==
    ASSUME NEW sid, NEW at, NEW data, NEW rest, Stilled(rest)
    PROVE  Trip(<<UpdateOp(sid, at, data)>> \o rest, sid)
    <1>1. PICK u, p : u = UpdateOp(sid, at, data) /\ p = <<u>> \o rest
        OBVIOUS
    <1>2. IsSeq(<<u>>) /\ Range(<<u>>) = {u}
        BY One
    <1>3. IsSeq(p) /\ Range(p) = {u} \cup Range(rest)
        BY <1>1, <1>2, Joined DEF Stilled
    <1>4. Sound(u) /\ u.op = "update_session" /\ u.sid = sid
        BY <1>1, UpdateTrip
    <1>5. \A o \in Range(p) :
             /\ Sound(o) /\ o.op \notin {"create_session", "submit_step", "increment_visit"}
             /\ Visits(o) \/ Lands(o, o.sid) => o.sid = sid
        BY <1>3, <1>4 DEF Stilled, Still, Sound, Visits
    <1> QED BY <1>1, <1>3, <1>5, TripPlain

LEMMA PairJoined ==
    ASSUME NEW x, NEW y
    PROVE  \E p : /\ p = <<x>> \o <<y>> /\ IsSeq(p) /\ DOMAIN p = 1..2
                 /\ p[1] = x /\ p[2] = y
    <1>1. PICK a, b : a = <<x>> /\ b = <<y>>
        OBVIOUS
    <1>2. IsSeq(a) /\ IsSeq(b)
        BY <1>1, One
    <1>3. Len(a) = 1 /\ Len(b) = 1 /\ a[1] = x /\ b[1] = y
        BY <1>1
    <1>4. PICK p : p = a \o b
        OBVIOUS
    <1>5. PICK m, n : m = Len(a) /\ n = Len(b)
        OBVIOUS
    <1>6. /\ DOMAIN p = 1..(m + n)
          /\ \A i \in 1..(m + n) : p[i] = IF i <= m THEN a[i] ELSE b[i - m]
        BY <1>2, <1>4, <1>5, JoinedAt
    <1>7. m = 1 /\ n = 1
        BY <1>3, <1>5
    <1>8. DOMAIN p = 1..2 /\ p[1] = a[1] /\ p[2] = b[1]
        BY <1>6, <1>7
    <1>9. IsSeq(p)
        BY <1>2, <1>4, Joined
    <1>10. p = <<x>> \o <<y>>
        BY <1>1, <1>4
    <1> QED BY <1>3, <1>8, <1>9, <1>10

LEMMA TripPair ==
    ASSUME NEW x, NEW y, NEW sid, Paired(x, y, sid) \/ Paired(y, x, sid)
    PROVE  Trip(<<x>> \o <<y>>, sid)
    <1>1. PICK p : /\ p = <<x>> \o <<y>> /\ IsSeq(p) /\ DOMAIN p = 1..2
                   /\ p[1] = x /\ p[2] = y
        BY PairJoined
    <1>2. IsSeq(p) /\ DOMAIN p = 1..2 /\ p[1] = x /\ p[2] = y
        BY <1>1
    <1>3. Paired(p[1], p[2], sid) \/ Paired(p[2], p[1], sid)
        BY <1>2
    <1>4. Trip(p, sid)
        BY <1>2, <1>3, TripTwo
    <1> QED BY <1>1, <1>4

LEMMA ArriveTrip ==
    ASSUME NEW cont \in Conts, NEW sid, NEW wf, NEW at, at # Null, NEW data
    PROVE  Trip(Arrive(cont, sid, wf, at, data), sid)
    <1>1. PICK v, u, h : /\ v = VisitOp(sid, at) /\ u = UpdateOp(sid, at, data)
                         /\ h = HandoffOp(sid, wf, data)
        OBVIOUS
    <1>2. PICK plan, resume :
             /\ plan = Arrive(cont, sid, wf, at, data)
             /\ resume = IF at = COMPLETE THEN <<h>> ELSE <<>>
        OBVIOUS
    <1>3. \/ at = COMPLETE /\ plan \in {<<u>> \o <<>>, <<>> \o <<u>>, (<<>> \o <<u>>) \o <<h>>}
          \/ plan \in {<<u>> \o <<v>>, <<v>> \o <<u>>, (<<v>> \o <<u>>) \o <<>>}
        BY <1>1, <1>2 DEF Arrive, Conts
    <1>4. <<>> \o <<u>> = <<u>> \o <<>> /\ (<<v>> \o <<u>>) \o <<>> = <<v>> \o <<u>>
        OBVIOUS
    <1>5. Stilled(<<>>) /\ Stilled(<<h>>)
        BY <1>1, StilledEmpty, StilledOne, StillOps
    <1>6. CASE plan \in {<<u>> \o <<>>, <<u>> \o <<h>>}
        BY <1>1, <1>2, <1>5, <1>6, UpdateThen
    <1>7. CASE plan \in {<<u>> \o <<v>>, <<v>> \o <<u>>}
        <2>1. Paired(v, u, sid)
            BY <1>1 DEF VisitOp, UpdateOp, Lands, Paired
        <2>2. Trip(<<v>> \o <<u>>, sid)
            BY <2>1, TripPair
        <2>3. Trip(<<u>> \o <<v>>, sid)
            BY <2>1, TripPair
        <2> QED BY <1>2, <1>7, <2>2, <2>3
    <1>8. (<<>> \o <<u>>) \o <<h>> = <<u>> \o <<h>>
        OBVIOUS
    <1> QED BY <1>3, <1>4, <1>6, <1>7, <1>8

LEMMA ProceedTrip ==
    ASSUME NEW cont \in Conts, NEW sid, NEW wf, NEW at, at # Null, NEW data
    PROVE  Trip(Proceed(cont, sid, wf, at, data), sid)
    <1>1. CASE at # COMPLETE /\ StepAt(wf, at).kind = "mcp"
        <2>1. PICK a : a = AutoOp(cont, sid, wf, at, data)
            OBVIOUS
        <2>2. /\ Sound(a) /\ a.op = "auto_execute" /\ a.sid = sid
            BY <1>1, <2>1 DEF AutoOp, Sound
        <2>3. IsSeq(<<a>>) /\ Range(<<a>>) = {a}
            BY One
        <2>4. Trip(<<a>>, sid)
            BY <2>2, <2>3, TripPlain DEF Lands
        <2> QED BY <1>1, <2>1, <2>4 DEF Proceed
    <1>2. CASE ~(at # COMPLETE /\ StepAt(wf, at).kind = "mcp")
        BY <1>2, ArriveTrip DEF Proceed
    <1> QED BY <1>1, <1>2

LEMMA StilledJoined ==
    ASSUME NEW p, Stilled(p), NEW q, Stilled(q)
    PROVE  Stilled(p \o q)
    BY Joined DEF Stilled

LEMMA PlacesAreSteps ==
    ASSUME NEW wf, WellFormed(wf), NEW at \in Places(wf)
    PROVE  at # Null
    BY WorkflowsAssumption DEF Places, WellFormed

LEMMA EscalatingStilled ==
    ASSUME NEW sid, NEW data
    PROVE  Stilled(<<EscalateOp(sid), UpdateOp(sid, Null, data), EscalateParentOp(sid)>>)
    <1>1. PICK a, b, c : /\ a = EscalateOp(sid) /\ b = UpdateOp(sid, Null, data)
                         /\ c = EscalateParentOp(sid)
        OBVIOUS
    <1>2. Still(a) /\ Still(b) /\ Still(c)
        BY <1>1, StillOps
    <1>3. PICK p : p = <<a, b, c>>
        OBVIOUS
    <1>4. IsSeq(p) /\ Range(p) = {a, b, c}
        BY <1>3, Three
    <1>5. Stilled(p)
        BY <1>2, <1>4 DEF Stilled
    <1> QED BY <1>1, <1>3, <1>5

LEMMA AcceptTrip ==
    ASSUME NEW sid, NEW row, RowOK(row), NEW step \in Range(WorkflowOf(row).steps),
           NEW content, NEW branch
    PROVE  Trip(AcceptPlan(sid, row, step, content, branch), sid)
    <1> DEFINE wf        == WorkflowOf(row)
               data      == Put(row.step_data, step.id, content)
               guardrail == EvaluateGuardrails(wf, content, data,
                                               Count(row.step_visit_counts, step.id))
               target    == BranchTarget(wf, step, branch, guardrail)
               landing   == ApplySkipLoop(wf, target, data, ForceBranched(guardrail))
    <1>1. WellFormed(wf) /\ step.id \in StepIds(wf)
        BY WorkflowLoaded DEF StepIds, Range
    <1>2. guardrail \in Range(wf.guardrails) \cup {Null}
        BY <1>1, GuardrailFound
    <1>3. target \in Places(wf) \cup {Null}
        BY <1>1, <1>2, TargetIsPlace
    <1>4. target # Null => landing.step # Null
        BY <1>1, <1>3, LandingIsPlace, PlacesAreSteps
    <1>5. target # Null => Trip(Proceed("submit", sid, wf, landing.step, data), sid)
        BY <1>4, ProceedTrip DEF Conts
    <1>6. Trip(<<EscalateOp(sid), UpdateOp(sid, Null, data), EscalateParentOp(sid)>>, sid)
        BY EscalatingStilled, StilledTrip
    <1>7. Trip(<<EscalateParentOp(sid)>>, sid) /\ Trip(<<>>, sid)
        BY StilledOne, StilledEmpty, StillOps, StilledTrip
    <1>8. AcceptPlan(sid, row, step, content, branch) =
              IF guardrail # Null /\ guardrail.action = "escalate"
              THEN <<EscalateOp(sid), UpdateOp(sid, Null, data), EscalateParentOp(sid)>>
              ELSE IF target = Null THEN <<>>
              ELSE IF landing.cascade THEN <<EscalateParentOp(sid)>>
              ELSE Proceed("submit", sid, wf, landing.step, data)
        BY DEF AcceptPlan
    <1> HIDE DEF wf, data, guardrail, target, landing
    <1> QED BY <1>5, <1>6, <1>7, <1>8

\* A visit too many fires its guardrail, and the first that fires escalates.
LEMMA RevisitEscalates ==
    ASSUME GuardedLoops, NEW row, RowOK(row), NEW g \in RevisitGuards(WorkflowOf(row)),
           NEW content, NEW data, NEW n, n = g.max, NEW chosen,
           chosen = EvaluateGuardrails(WorkflowOf(row), content, data, n)
    PROVE  chosen # Null /\ chosen.action = "escalate"
    <1>1. PICK wf : wf = WorkflowOf(row)
        OBVIOUS
    <1>2. /\ Null \notin Range(wf.guardrails)
          /\ \A i \in DOMAIN wf.guardrails :
                wf.guardrails[i] \in RevisitGuards(wf) =>
                   /\ wf.guardrails[i].max \in Nat \ {0}
                   /\ \A j \in 1..i : wf.guardrails[j].action = "escalate"
        <2>1. PICK w, v : w \in Workflow /\ v \in Version(w) /\ wf = Definition[w][v]
            BY <1>1 DEF RowOK, WorkflowOf
        <2> QED BY <2>1 DEF GuardedLoops
    <1>3. PICK i \in DOMAIN wf.guardrails : wf.guardrails[i] = g
        BY <1>1 DEF RevisitGuards, Range
    <1>4. DOMAIN wf.guardrails \subseteq Nat \ {0}
        BY <1>1, WorkflowLoaded DEF WellFormed
    <1>5. PICK fired : fired = {k \in DOMAIN wf.guardrails :
                                   Fires(wf.guardrails[k], content, data, n)}
        OBVIOUS
    <1>6. i \in fired
        <2>1. g.trigger = "step_revisit" /\ g.max \in Nat
            BY <1>1, <1>2, <1>3 DEF RevisitGuards
        <2>2. Fires(g, content, data, n)
            BY <2>1 DEF Fires
        <2> QED BY <1>3, <1>5, <2>2
    <1>7. PICK first : first = Min(fired) /\ first \in fired /\ first <= i
        <2>1. fired \subseteq Nat
            BY <1>4, <1>5
        <2> QED BY <1>6, <2>1, LeastElement DEF Min
    <1>8. chosen = wf.guardrails[first] /\ first \in DOMAIN wf.guardrails
        BY <1>1, <1>5, <1>6, <1>7 DEF EvaluateGuardrails
    <1>9. first \in 1..i
        BY <1>4, <1>7, <1>8, <1>3
    <1> QED BY <1>1, <1>2, <1>3, <1>8, <1>9 DEF Range

LEMMA AcceptStops ==
    ASSUME GuardedLoops, NEW sid, NEW row, RowOK(row), NEW step, NEW content, NEW branch,
           NEW g \in RevisitGuards(WorkflowOf(row)), Count(row.step_visit_counts, step.id) = g.max
    PROVE  Stilled(AcceptPlan(sid, row, step, content, branch))
    <1> DEFINE wf        == WorkflowOf(row)
               data      == Put(row.step_data, step.id, content)
               guardrail == EvaluateGuardrails(wf, content, data,
                                               Count(row.step_visit_counts, step.id))
    <1>1. guardrail # Null /\ guardrail.action = "escalate"
        BY RevisitEscalates
    <1>2. guardrail # Null /\ guardrail.action = "escalate" =>
            AcceptPlan(sid, row, step, content, branch) =
              <<EscalateOp(sid), UpdateOp(sid, Null, data), EscalateParentOp(sid)>>
        BY DEF AcceptPlan
    <1> HIDE DEF wf, data, guardrail
    <1> QED BY <1>1, <1>2, EscalatingStilled

LEMMA SubmitTrip ==
    ASSUME GuardedLoops, NEW sid, NEW row, RowOK(row),
           row.current_step \in StepIds(WorkflowOf(row)),
           NEW content, NEW branch, NEW art, NEW plan,
           plan = SubmitPlan(sid, row, content, branch, art)
    PROVE  /\ Trip(plan, sid)
           /\ Rested(row, row.current_step) => Stilled(plan) \/ Fresh(row)
    <1> DEFINE step == StepAt(WorkflowOf(row), row.current_step)
    <1>1. PICK accept, a, r, checkpoint :
             /\ accept = AcceptPlan(sid, row, step, content, branch)
             /\ a = ArtifactOp(sid, step.id, art)
             /\ r = RetryOp(sid, step.id, step.max_retries)
             /\ checkpoint = IF art \in step.checkpoints THEN <<a>> ELSE <<>>
        OBVIOUS
    <1>2. step \in Range(WorkflowOf(row).steps) /\ step.id = row.current_step
        BY WorkflowLoaded, FoundStep
    <1>3. Still(a) /\ Still(r)
        BY <1>1, StillOps
    <1>4. Stilled(<<>>) /\ Stilled(<<a>>) /\ Stilled(<<r>>)
        BY <1>3, StilledEmpty, StilledOne
    <1>5. Stilled(checkpoint)
        BY <1>1, <1>4
    <1>6. Trip(accept, sid)
        BY <1>1, <1>2, AcceptTrip
    <1>7. <<>> \o accept = accept
        <2>1. IsSeq(accept)
            BY <1>6 DEF Trip
        <2> QED BY <2>1 DEF IsSeq
    <1>8. Trip(checkpoint \o accept, sid)
        <2>1. Trip(<<a>> \o accept, sid)
            BY <1>4, <1>6, TripFront
        <2> QED BY <1>1, <1>6, <1>7, <2>1
    <1>9. plan \in {<<>>, checkpoint \o accept, checkpoint, <<r>>, accept}
        BY <1>1 DEF SubmitPlan
    <1>10. Trip(<<>>, sid) /\ Trip(checkpoint, sid) /\ Trip(<<r>>, sid)
        BY <1>4, <1>5, StilledTrip
    <1>11. ASSUME Rested(row, row.current_step), ~Fresh(row)
           PROVE  Stilled(accept)
        <2>1. row.current_step # WORKFLOW_CHANGED
            BY WorkflowLoaded DEF WellFormed
        <2>2. PICK g \in RevisitGuards(WorkflowOf(row)) :
                 Count(row.step_visit_counts, row.current_step) = g.max
            BY <1>11, <2>1, RestedFresh
        <2> QED BY <1>1, <1>2, <2>2, AcceptStops
    <1>12. Stilled(accept) => Stilled(checkpoint \o accept)
        BY <1>5, StilledJoined
    <1> HIDE DEF step
    <1> QED BY <1>4, <1>5, <1>6, <1>8, <1>9, <1>10, <1>11, <1>12

\* Answering a call moves the parent on from its call-step.
LEMMA PropagateTrip ==
    ASSUME GuardedLoops, NEW child, NEW childWf, NEW childData, NEW parent,
           RowOK(sessions[parent]), NEW plan,
           plan = PropagatePlan(child, childWf, childData, parent)
    PROVE  /\ Trip(plan, parent)
           /\ Rested(sessions[parent], sessions[parent].current_step) =>
                 Stilled(plan) \/ Fresh(sessions[parent])
    <1>1. PICK row, wf, at : row = sessions[parent] /\ wf = WorkflowOf(row) /\ at = row.current_step
        OBVIOUS
    <1> DEFINE step    == StepAt(wf, at)
               data    == Put(row.step_data, at, Artifact(childWf, childData))
               landing == ApplySkipLoop(wf, DefaultTarget(wf, step), data, FALSE)
               answer  == AdvancePlan(parent, wf, step, data)
    <1>2. PICK d, c, e, f : /\ d = DeleteOp(child, FALSE) /\ c = ClearOp(parent)
                            /\ e = EscalateOp(parent) /\ f = EscalateParentOp(child)
        OBVIOUS
    <1>3. Still(d) /\ Still(c) /\ Still(e) /\ Still(f)
        BY <1>2, StillOps
    <1>4. Stilled(<<e>>) /\ Stilled(<<f>>)
        BY <1>3, StilledOne
    <1>5. \/ plan = <<e>> \/ plan = <<f>>
          \/ at \in StepIds(wf) /\ step.kind = "call" /\ plan = <<d, c>> \o answer
        BY <1>1, <1>2 DEF PropagatePlan
    <1>6. CASE plan = <<e>> \/ plan = <<f>>
        BY <1>4, <1>6, StilledTrip
    <1>7. CASE at \in StepIds(wf) /\ step.kind = "call" /\ plan = <<d, c>> \o answer
        <2>1. WellFormed(wf) /\ step \in Range(wf.steps)
            BY <1>1, <1>7, WorkflowLoaded, FoundStep
        <2>2. landing.step # Null
            BY <2>1, DefaultIsPlace, LandingIsPlace, PlacesAreSteps
        <2>3. Trip(Proceed("advance", parent, wf, landing.step, data), parent)
            BY <2>2, ProceedTrip DEF Conts
        <2>4. answer = <<>> \/ answer = Proceed("advance", parent, wf, landing.step, data)
            BY DEF AdvancePlan
        <2>5. Trip(answer, parent)
            BY <2>3, <2>4, StilledEmpty, StilledTrip
        <2> HIDE DEF step, data, landing, answer
        <2>6. Stilled(<<d, c>>)
            BY <1>3, StilledTwo
        <2>7. Trip(<<d, c>> \o answer, parent)
            BY <2>5, <2>6, TripFront
        <2>8. at \notin ClientSteps(wf) /\ at # WORKFLOW_CHANGED
            BY <1>1, <1>7, <2>1, NotClient DEF WellFormed, step
        <2>9. Rested(row, at) => Fresh(row)
            BY <1>1, <2>8, RestedFresh
        <2> QED BY <1>1, <1>7, <2>7, <2>9
    <1> QED BY <1>5, <1>6, <1>7

LEMMA CascadeTrip ==
    ASSUME NEW sid, NEW at, NEW data, NEW rest, rest \in {<<>>, <<EscalateParentOp(sid)>>}
    PROVE  Trip(<<UpdateOp(sid, at, data)>> \o rest, sid)
    <1>1. Stilled(<<>>) /\ Stilled(<<EscalateParentOp(sid)>>)
        BY StilledEmpty, StilledOne, StillOps
    <1> QED BY <1>1, UpdateThen

---------------------------------------------------------------------------
(***************************************************************************)
(* Steps.                                                                  *)
(***************************************************************************)
RowsKeep ==
    /\ DOMAIN sessions' \subseteq DOMAIN sessions
    /\ \A s \in DOMAIN sessions' :
          /\ WorkflowOf(sessions'[s]) = WorkflowOf(sessions[s])
          /\ sessions'[s].current_step = sessions[s].current_step
          /\ sessions'[s].step_visit_counts = sessions[s].step_visit_counts

\* The head of the plan q moves no session that is there.
Resting(q) == \A s \in DOMAIN sessions' : q # <<>> => ~Lands(Head(q), s)

LEMMA VisitsOn ==
    ASSUME OneThread, IInv, VisitInv, NEW t \in Thread, NEW plan, Do(t, plan), UNCHANGED restarts,
           Visiting(plan)', Settling(plan)'
    PROVE  VisitInv'
    <1>1. DOMAIN th = Thread
        BY DEF IInv, ThreadsOK
    <1>2. th'[t] = plan /\ \A u \in Thread : u = t
        BY <1>1 DEF Do, OneThread
    <1>3. \A u \in Thread : Visiting(th[u])' /\ Settling(th[u])'
        BY <1>2
    <1> QED BY <1>3 DEF VisitInv

LEMMA RowsRest ==
    ASSUME RowsKeep, NEW s \in DOMAIN sessions', NEW at
    PROVE  /\ Rested(sessions[s], at) => Rested(sessions'[s], at)
           /\ Fresh(sessions[s]) => Fresh(sessions'[s])
    <1>1. SameCounts(sessions[s], sessions'[s])
        BY DEF RowsKeep, SameCounts
    <1> QED BY <1>1, SameLimits

LEMMA SettlingKept ==
    ASSUME NEW q, Settling(q), RowsKeep, Resting(q), NEW plan
    PROVE  Settling(plan)'
    <1>1. ASSUME NEW s \in DOMAIN sessions'
          PROVE  Rested(sessions[s], sessions[s].current_step)'
        <2>1. /\ s \in DOMAIN sessions /\ sessions'[s].current_step = sessions[s].current_step
              /\ Rested(sessions[s], sessions[s].current_step)
            BY DEF RowsKeep, Settling, Resting
        <2> QED BY <2>1, RowsRest
    <1> QED BY <1>1 DEF Settling

\* A new plan.
LEMMA VisitsNext ==
    ASSUME OneThread, IInv, VisitInv, NEW t \in Thread, NEW plan, Do(t, plan), UNCHANGED restarts,
           RowsKeep, Resting(th[t]), Visiting(plan)'
    PROVE  VisitInv'
    BY SettlingKept, VisitsOn DEF VisitInv

LEMMA StillKeeps ==
    ASSUME UnchangedStore
    PROVE  RowsKeep
    BY DEF UnchangedStore, RowsKeep

LEMMA VisitsStilled ==
    ASSUME OneThread, IInv, VisitInv, NEW t \in Thread, NEW plan, Do(t, plan), UNCHANGED restarts,
           RowsKeep, Resting(th[t]), Stilled(plan)
    PROVE  VisitInv'
    BY StilledVisiting, VisitsNext

\* A trip of a session that is fresh.
LEMMA VisitsTrip ==
    ASSUME OneThread, IInv, StoreOK', GuardedLoops, VisitInv, NEW t \in Thread, NEW plan,
           Do(t, plan), UNCHANGED restarts, RowsKeep, Resting(th[t]), NEW sid, Trip(plan, sid),
           sid \in DOMAIN sessions => Fresh(sessions[sid])
    PROVE  VisitInv'
    <1>1. sid \in DOMAIN sessions' => RowOK(sessions[sid])' /\ Fresh(sessions[sid])'
        BY RowsRest DEF RowsKeep, StoreOK
    <1> QED BY <1>1, TripVisiting, VisitsNext

\* What is left of a plan.
LEMMA LandingKept ==
    ASSUME RowsKeep, NEW o, Landing(o)
    PROVE  Landing(o)'
    <1> SUFFICES ASSUME o.sid \in DOMAIN sessions'
                 PROVE  /\ Lands(o, o.sid) => Rested(sessions'[o.sid], o.step)
                        /\ Visits(o) => Fresh(sessions'[o.sid])
                        /\ o.op = "submit_step" =>
                              /\ o.row.current_step = sessions'[o.sid].current_step
                              /\ o.row.step_visit_counts = sessions'[o.sid].step_visit_counts
        BY DEF Landing, Lands, Visits
    <1> QED BY RowsRest DEF RowsKeep, Landing

\* The rows stay where they are, and the head of q moves none of them.
RowsStay ==
    /\ DOMAIN sessions' \subseteq DOMAIN sessions
    /\ \A s \in DOMAIN sessions' : sessions'[s].current_step = sessions[s].current_step

LEMMA TailStandsAt ==
    ASSUME NEW q, IsSeq(q), q # <<>>, Visiting(q),
           NEW i \in DOMAIN Tail(q), NEW v, v = Tail(q)[i], v.op = "increment_visit",
           v.sid \in DOMAIN sessions,
           sessions'[v.sid].current_step = sessions[v.sid].current_step,
           ~Lands(Head(q), v.sid)
    PROVE  StandsAt(Tail(q), i)'
    <1>1. PICK r : r = Tail(q)
        OBVIOUS
    <1>2. /\ DOMAIN q \subseteq Nat \ {0} /\ q[1] = Head(q) /\ DOMAIN r \subseteq Nat \ {0}
          /\ i + 1 \in DOMAIN q /\ q[i + 1] = v
          /\ \A j \in DOMAIN r : r[j] = q[j + 1]
          /\ \A j \in DOMAIN q : j # 1 => j - 1 \in DOMAIN r
        BY <1>1, TailAt
    <1>3. StandsAt(q, i + 1)
        BY <1>1, <1>2 DEF Visiting
    <1>4. CASE sessions[v.sid].current_step = v.step
        BY <1>1, <1>4 DEF StandsAt
    <1>5. CASE \E j \in DOMAIN q : j <= (i + 1) + 1 /\ Lands(q[j], v.sid)
        <2>1. PICK j \in DOMAIN q : j <= (i + 1) + 1 /\ Lands(q[j], v.sid)
            BY <1>5
        <2>2. j # 1
            BY <1>1, <1>2, <2>1
        <2>3. j - 1 \in DOMAIN r /\ j - 1 <= i + 1 /\ r[j - 1] = q[j]
            BY <1>1, <1>2, <2>1, <2>2
        <2> QED BY <1>1, <2>1, <2>3 DEF StandsAt, Lands
    <1> QED BY <1>2, <1>3, <1>4, <1>5 DEF StandsAt

LEMMA TailStands ==
    ASSUME NEW q, IsSeq(q), q # <<>>, Visiting(q), RowsStay, Resting(q),
           NEW i \in DOMAIN Tail(q), Tail(q)[i].op = "increment_visit",
           Tail(q)[i].sid \in DOMAIN sessions'
    PROVE  StandsAt(Tail(q), i)'
    <1>1. PICK v : v = Tail(q)[i]
        OBVIOUS
    <1> QED BY <1>1, TailStandsAt DEF RowsStay, Resting

\* A submission is a plan of its own.
LEMMA TailPlain ==
    ASSUME NEW q, IsSeq(q), q # <<>>, Visiting(q), NEW o \in Range(Tail(q))
    PROVE  o \in Range(q) /\ Sound(o) /\ o.op # "submit_step"
    <1>1. PICK r : r = Tail(q)
        OBVIOUS
    <1>2. o \in Range(q) /\ Sound(o)
        BY HeadAndTail DEF Visiting
    <1>3. ASSUME o.op = "submit_step"
          PROVE  FALSE
        <2>1. q = <<o>>
            BY <1>2, <1>3 DEF Visiting
        <2>2. r = <<>>
            BY <1>1, <2>1, One
        <2> QED BY <1>1, <2>2, Empty
    <1> QED BY <1>2, <1>3

\* A tail, given what its operations may do.
LEMMA VisitingTail ==
    ASSUME NEW q, IsSeq(q), q # <<>>, Visiting(q),
           \A o \in Range(Tail(q)) : Landing(o)',
           \A i \in DOMAIN Tail(q) :
              Tail(q)[i].op = "increment_visit" /\ Tail(q)[i].sid \in DOMAIN sessions' =>
                 StandsAt(Tail(q), i)'
    PROVE  Visiting(Tail(q))'
    <1>1. PICK r : r = Tail(q)
        OBVIOUS
    <1>2. Arrives(r)
        BY <1>1, ArrivesTail DEF Visiting
    <1>3. \A o \in Range(r) : Sound(o) /\ o.op # "submit_step"
        BY <1>1, TailPlain
    <1>4. \A o \in Range(r) : Landing(o)'
        BY <1>1
    <1> QED BY <1>1, <1>2, <1>3, <1>4 DEF Visiting

LEMMA VisitsRest ==
    ASSUME OneThread, IInv, VisitInv, NEW t \in Thread, th[t] # <<>>, Do(t, Tail(th[t])),
           UNCHANGED restarts, RowsKeep, Resting(th[t])
    PROVE  VisitInv'
    <1>1. PICK q : q = th[t]
        OBVIOUS
    <1>2. IsSeq(q) /\ Visiting(q) /\ RowsStay
        BY <1>1 DEF IInv, ThreadsOK, WorkOK, VisitInv, RowsKeep, RowsStay
    <1>3. Range(Tail(q)) \subseteq Range(q)
        BY <1>1, <1>2, HeadAndTail
    <1>4. \A o \in Range(Tail(q)) : Landing(o)'
        BY <1>2, <1>3, LandingKept DEF Visiting
    <1>5. Visiting(Tail(q))'
        BY <1>1, <1>2, <1>4, TailStands, VisitingTail
    <1> QED BY <1>1, <1>5, VisitsNext

---------------------------------------------------------------------------
(***************************************************************************)
(* The calls and the decisions.                                            *)
(***************************************************************************)
\* A session is created, visited once, and perhaps linked or executed.
LEMMA CreationVisiting ==
    ASSUME NEW p, IsSeq(p), NEW c, NEW v, NEW w,
           \A j \in DOMAIN p : j \in Nat /\ (p[j] = c \/ p[j] = w \/ (p[j] = v /\ j = 2)),
           c.op = "create_session", c.row.step_visit_counts = <<>>,
           v.op = "increment_visit", v.sid = c.sid, v.step = c.row.current_step,
           c.sid \notin DOMAIN sessions',
           \/ Still(w)
           \/ /\ w.op = "auto_execute" /\ w.sid = c.sid /\ w.at = v.step
              /\ StepAt(w.wf, w.at).kind = "mcp"
    PROVE  Visiting(p)'
    <1>1. ~Lands(c, c.sid) /\ ~Lands(v, v.sid) /\ ~Lands(w, w.sid) /\ w.op # "increment_visit"
          /\ w.op # "create_session" /\ w.op # "submit_step" /\ w.op # "revise_step"
        BY DEF Lands, Still
    <1>2. \A o \in Range(p) : o \in {c, v, w}
        BY DEF Range
    <1>3. \A s : \A o \in {c, v, w} : ~Lands(o, s)
        BY <1>1 DEF Lands
    <1>4. Visits(w) => w.op = "auto_execute" /\ w.sid = c.sid /\ w.at = v.step
                       /\ StepAt(w.wf, w.at).kind = "mcp"
        BY DEF Visits, Still
    <1>5. ~Visits(c)
        BY DEF Visits
    <1>6. Arrives(p)
        <2> SUFFICES ASSUME NEW i \in DOMAIN p, NEW j \in DOMAIN p, p[i].op = "increment_visit"
                     PROVE  /\ ~Lands(p[j], p[i].sid)
                            /\ p[j].op = "create_session" /\ p[j].sid = p[i].sid =>
                                  p[j].row.current_step = p[i].step
                            /\ i < j /\ Visits(p[j]) /\ p[j].sid = p[i].sid =>
                                  p[j].op = "auto_execute" /\ p[j].at = p[i].step
            BY DEF Arrives
        <2>1. p[i] = v /\ i = 2
            BY <1>1
        <2>2. CASE p[j] = c
            BY <1>3, <1>5, <2>1, <2>2
        <2>3. CASE p[j] = w
            BY <1>1, <1>3, <1>4, <2>1, <2>3
        <2>4. CASE p[j] = v /\ j = 2
            BY <1>3, <2>1, <2>4
        <2> QED BY <2>2, <2>3, <2>4
    <1>7. Sound(c) /\ Sound(v) /\ Sound(w)
        BY <1>1, <1>4 DEF Sound, Visits
    <1>8. \A o \in {c, v, w} : Landing(o)'
        <2>1. \A o \in {c, v, w} : ~Lands(o, o.sid) /\ o.op # "submit_step"
            BY <1>1
        <2>2. \A o \in {c, v, w} : Visits(o) => o.sid \notin DOMAIN sessions'
            BY <1>4, <1>5
        <2> QED BY <2>1, <2>2 DEF Landing, Lands, Visits
    <1>9. \A i \in DOMAIN p : p[i].op = "increment_visit" => p[i].sid \notin DOMAIN sessions'
        BY <1>1
    <1>10. \A o \in Range(p) : o.op # "submit_step"
        BY <1>1, <1>2
    <1> QED BY <1>2, <1>6, <1>7, <1>8, <1>9, <1>10 DEF Visiting

LEMMA StartWorkflowVisits ==
    ASSUME OneThread, GuardedLoops, IInv, VisitInv, NEW t \in Thread, NEW w \in Workflow,
           NEW sid \in Sid, StartWorkflow(t, w, sid)
    PROVE  VisitInv'
    <1>1. PICK wf, first, row, c, v, a, more, plan :
             /\ wf = Definition[w][live[w]] /\ first = FirstStep(wf)
             /\ row = NewRow(w, Null) /\ c = CreateOp(sid, row, "call", Null, Null)
             /\ v = VisitOp(sid, first.id)
             /\ a = AutoOp("start", sid, wf, first.id, <<>>)
             /\ more = IF first.kind = "mcp" THEN <<a>> ELSE <<>>
             /\ plan = <<c, v>> \o more
        OBVIOUS
    <1>2. Do(t, plan) /\ UnchangedStore /\ sid \notin minted /\ th[t] = <<>> /\ UNCHANGED restarts
          /\ live[w] # Null
        BY <1>1 DEF StartWorkflow, Idle, UnchangedServer
    <1>3. /\ c.op = "create_session" /\ c.sid = sid /\ c.row = row
          /\ row.step_visit_counts = <<>> /\ row.current_step = first.id
          /\ v.op = "increment_visit" /\ v.sid = sid /\ v.step = first.id
          /\ a.op = "auto_execute" /\ a.sid = sid /\ a.wf = wf /\ a.at = first.id
        BY <1>1 DEF CreateOp, NewRow, VisitOp, AutoOp
    <1>4. live[w] \in Version(w) /\ WellFormed(wf)
        BY <1>1, <1>2, WorkflowsAssumption DEF IInv, LiveOK
    <1>5. StepAt(wf, first.id) = first
        <2>1. first \in Range(wf.steps)
            <3>1. 1 \in DOMAIN wf.steps
                BY <1>4 DEF WellFormed
            <3> QED BY <1>1, <3>1 DEF FirstStep, Range
        <2>2. \A x, y \in Range(wf.steps) : x.id = y.id => x = y
            BY <1>1, <1>4 DEF GuardedLoops
        <2>3. first.id \in StepIds(wf)
            BY <2>1 DEF StepIds, Range
        <2> QED BY <1>4, <2>1, <2>2, <2>3, FoundStep
    <1>6. PICK e : e = EscalateOp(sid) /\ Still(e)
        BY StillOps
    <1>7. PICK z : z = IF first.kind = "mcp" THEN a ELSE e
        OBVIOUS
    <1>8. PICK x : x = <<c, v>>
        OBVIOUS
    <1>9. IsSeq(x) /\ Len(x) = 2 /\ x[1] = c /\ x[2] = v
        BY <1>8, Two
    <1>10. IsSeq(more) /\ \A j \in DOMAIN more : more[j] = z
        <2>1. IsSeq(more) /\ Range(more) \subseteq {z}
            BY <1>1, <1>7, One, Empty
        <2> QED BY <2>1 DEF Range
    <1>11. IsSeq(plan)
        BY <1>1, <1>8, <1>9, <1>10, Joined
    <1>12. \A j \in DOMAIN plan : j \in Nat /\ (plan[j] = c \/ plan[j] = z \/ (plan[j] = v /\ j = 2))
        <2>1. PICK n : n = Len(more)
            OBVIOUS
        <2>5. PICK k : k = Len(x)
            OBVIOUS
        <2>6. plan = x \o more
            BY <1>1, <1>8
        <2>7. /\ n \in Nat /\ DOMAIN more = 1..n /\ DOMAIN plan = 1..(k + n)
              /\ \A j \in 1..(k + n) : plan[j] = IF j <= k THEN x[j] ELSE more[j - k]
            BY <1>9, <1>10, <2>1, <2>5, <2>6, JoinedAt
        <2>2. /\ n \in Nat /\ DOMAIN more = 1..n /\ DOMAIN plan = 1..(2 + n)
              /\ \A j \in 1..(2 + n) : plan[j] = IF j <= 2 THEN x[j] ELSE more[j - 2]
            BY <1>9, <2>5, <2>7
        <2> SUFFICES ASSUME NEW j \in 1..(2 + n)
                     PROVE  plan[j] = c \/ plan[j] = z \/ (plan[j] = v /\ j = 2)
            BY <2>2
        <2>3. j > 2 => j - 2 \in 1..n
            BY <2>2
        <2>4. j \in Nat /\ (j = 1 \/ j = 2 \/ j > 2)
            OBVIOUS
        <2> QED BY <1>9, <1>10, <2>2, <2>3, <2>4
    <1>13. c.sid \notin DOMAIN sessions'
        BY <1>2, <1>3 DEF IInv, StoreOK, UnchangedStore
    <1>14. \/ Still(z)
           \/ /\ z.op = "auto_execute" /\ z.sid = c.sid /\ z.at = v.step
              /\ StepAt(z.wf, z.at).kind = "mcp"
        BY <1>3, <1>5, <1>6, <1>7
    <1>15. Visiting(plan)'
        BY <1>3, <1>11, <1>12, <1>13, <1>14, CreationVisiting
    <1> QED BY <1>2, <1>15, StillKeeps, VisitsNext DEF Resting

\* Between two calls, and at a decision, every session rests.
LEMMA AllRested ==
    ASSUME VisitInv, NEW t \in Thread, \A s : th[t] # <<>> => ~Lands(Head(th[t]), s),
           NEW s \in DOMAIN sessions
    PROVE  /\ Rested(sessions[s], sessions[s].current_step)
           /\ Rested(sessions[s], WORKFLOW_CHANGED)
    <1>1. Rested(sessions[s], sessions[s].current_step)
        BY DEF VisitInv, Settling
    <1> QED BY <1>1 DEF Rested

LEMMA MarkVisiting ==
    ASSUME NEW sid, sid \in DOMAIN sessions' => Rested(sessions'[sid], WORKFLOW_CHANGED)
    PROVE  Visiting(<<UpdateOp(sid, WORKFLOW_CHANGED, Null)>>)'
    <1>1. PICK o, q : o = UpdateOp(sid, WORKFLOW_CHANGED, Null) /\ q = <<o>>
        OBVIOUS
    <1>2. o.op = "update_session" /\ o.sid = sid /\ o.step = WORKFLOW_CHANGED
        BY <1>1 DEF UpdateOp
    <1>3. Range(q) = {o} /\ \A i \in DOMAIN q : q[i] = o
        BY <1>1 DEF Range
    <1>4. Sound(o) /\ Landing(o)'
        BY <1>2 DEF Sound, Landing, Lands, Visits
    <1>5. Visiting(q)'
        BY <1>2, <1>3, <1>4 DEF Visiting, Arrives
    <1> QED BY <1>1, <1>5

LEMMA ThenOnVisits ==
    ASSUME OneThread, IInv, VisitInv, NEW t \in Thread, NEW sid, NEW plan,
           Do(t, ThenOn(sid, plan)), UnchangedStore, UNCHANGED restarts,
           \A s : th[t] # <<>> => ~Lands(Head(th[t]), s),
           Resolve(sid) = "ok" => Visiting(plan)'
    PROVE  VisitInv'
    <1>1. PICK mark : mark = <<UpdateOp(sid, WORKFLOW_CHANGED, Null)>>
        OBVIOUS
    <1>2. Visiting(mark)'
        <2>1. sid \in DOMAIN sessions' => Rested(sessions'[sid], WORKFLOW_CHANGED)
            BY AllRested DEF UnchangedStore
        <2> QED BY <1>1, <2>1, MarkVisiting
    <1>3. Visiting(<<>>)'
        BY StilledEmpty, StilledVisiting
    <1>4. PICK q : q = ThenOn(sid, plan)
        OBVIOUS
    <1>5. q = mark \/ q = <<>> \/ (q = plan /\ Resolve(sid) = "ok")
        BY <1>1, <1>4 DEF ThenOn
    <1>6. Visiting(q)'
        BY <1>2, <1>3, <1>5
    <1>7. Do(t, q)
        BY <1>4
    <1> QED BY <1>6, <1>7, StillKeeps, VisitsNext DEF Resting

\* A call of one operation.
LEMMA CallVisits ==
    ASSUME OneThread, IInv, VisitInv, NEW t \in Thread, th[t] = <<>>, NEW o, Do(t, <<o>>),
           UnchangedStore, UNCHANGED restarts,
           o.op \in {"submit_step", "enter_sub_workflow", "push_flow", "pop_flow"},
           o.op = "submit_step" => o.row = sessions[o.sid]
    PROVE  VisitInv'
    <1>1. PICK q : q = <<o>>
        OBVIOUS
    <1>2. Range(q) = {o} /\ \A i \in DOMAIN q : q[i] = o
        BY <1>1 DEF Range
    <1>3. ~Visits(o) /\ (\A s : ~Lands(o, s)) /\ Sound(o) /\ o.op # "increment_visit"
        BY DEF Visits, Lands, Sound
    <1>4. Landing(o)'
        BY <1>3 DEF Landing, Lands, Visits, UnchangedStore
    <1>5. Visiting(q)'
        BY <1>1, <1>2, <1>3, <1>4 DEF Visiting, Arrives
    <1> QED BY <1>1, <1>5, StillKeeps, VisitsNext DEF Resting

LEMMA CallsVisit ==
    ASSUME OneThread, GuardedLoops, NoReturn, IInv, VisitInv, NEW t \in Thread, Call(t)
    PROVE  VisitInv'
    <1>1. CASE \E w \in Workflow, sid \in Sid : StartWorkflow(t, w, sid)
        BY <1>1, StartWorkflowVisits
    <1>2. CASE \E sid \in Sid : ResolveMismatch(t, sid)
        <2>1. PICK sid : /\ Resolve(sid) = "mismatch" /\ Do(t, ThenOn(sid, <<>>)) /\ UnchangedStore
                         /\ UNCHANGED restarts /\ th[t] = <<>>
            BY <1>2 DEF ResolveMismatch, UnchangedServer, Idle
        <2> QED BY <2>1, ThenOnVisits
    <1>3. CASE \E sid \in DOMAIN sessions, content \in Content :
                 \E branch \in StepNames \cup {Null}, art \in ArtifactNames \cup {Null} :
                    SubmitStep(t, sid, content, branch, art)
        <2>1. PICK sid \in DOMAIN sessions, content \in Content, branch \in StepNames \cup {Null},
                   art \in ArtifactNames \cup {Null} : SubmitStep(t, sid, content, branch, art)
            BY <1>3
        <2>2. PICK o : o = [op |-> "submit_step", sid |-> sid, row |-> sessions[sid],
                            content |-> content, branch |-> branch, art |-> art]
            OBVIOUS
        <2>3. Do(t, <<o>>) /\ UnchangedStore /\ UNCHANGED restarts /\ th[t] = <<>>
            BY <2>1, <2>2 DEF SubmitStep, Resolved, UnchangedServer, Idle
        <2>4. o.op = "submit_step" /\ o.row = sessions[o.sid]
            BY <2>2
        <2> QED BY <2>3, <2>4, CallVisits
    <1>4. CASE \E sid \in DOMAIN sessions, step \in StepNames : ReviseStep(t, sid, step)
        BY <1>4 DEF ReviseStep, Resolved, NoReturn
    <1>5. CASE \E sid \in DOMAIN sessions, child \in Sid : EnterSubWorkflow(t, sid, child)
        <2>1. PICK sid, child : EnterSubWorkflow(t, sid, child)
            BY <1>5
        <2>2. PICK o : o = [op |-> "enter_sub_workflow", sid |-> sid, row |-> sessions[sid],
                            child |-> child]
            OBVIOUS
        <2>3. Do(t, <<o>>) /\ UnchangedStore /\ UNCHANGED restarts /\ th[t] = <<>>
            BY <2>1, <2>2 DEF EnterSubWorkflow, Resolved, UnchangedServer, Idle
        <2>4. o.op = "enter_sub_workflow"
            BY <2>2
        <2> QED BY <2>3, <2>4, CallVisits
    <1>6. CASE \E sid \in DOMAIN sessions, child \in Sid, w \in Workflow :
                 PushFlow(t, sid, w, child)
        <2>1. PICK sid, child, w : PushFlow(t, sid, w, child)
            BY <1>6
        <2>2. PICK o : o = [op |-> "push_flow", sid |-> sid, row |-> sessions[sid], w |-> w,
                            child |-> child]
            OBVIOUS
        <2>3. Do(t, <<o>>) /\ UnchangedStore /\ UNCHANGED restarts /\ th[t] = <<>>
            BY <2>1, <2>2 DEF PushFlow, Resolved, UnchangedServer, Idle
        <2>4. o.op = "push_flow"
            BY <2>2
        <2> QED BY <2>3, <2>4, CallVisits
    <1>7. CASE \E sid \in DOMAIN sessions : PopFlow(t, sid)
        <2>1. PICK sid, o : /\ o = [op |-> "pop_flow", sid |-> sid]
                            /\ Do(t, <<o>>) /\ UnchangedStore /\ UNCHANGED restarts /\ th[t] = <<>>
            BY <1>7 DEF PopFlow, Resolved, UnchangedServer, Idle
        <2>2. o.op = "pop_flow"
            BY <2>1
        <2> QED BY <2>1, <2>2, CallVisits
    <1>8. CASE \E sid \in DOMAIN sessions : DeleteSession(t, sid)
        <2>1. PICK sid : /\ Do(t, <<DeleteOp(sid, FALSE)>>) /\ UnchangedStore
                         /\ UNCHANGED restarts /\ th[t] = <<>>
            BY <1>8 DEF DeleteSession, UnchangedServer, Idle
        <2>2. Stilled(<<DeleteOp(sid, FALSE)>>)
            BY StillOps, StilledOne
        <2> QED BY <2>1, <2>2, StillKeeps, VisitsStilled DEF Resting
    <1> QED BY <1>1, <1>2, <1>3, <1>4, <1>5, <1>6, <1>7, <1>8 DEF Call

LEMMA DecideSubmitStepVisits ==
    ASSUME OneThread, GuardedLoops, IInv, StoreOK', VisitInv, NEW t \in Thread,
           DecideSubmitStep(t)
    PROVE  VisitInv'
    <1>1. PICK o, sid, row : o = Head(th[t]) /\ sid = o.sid /\ row = o.row
        OBVIOUS
    <1>2. PICK plan : /\ plan = SubmitPlan(sid, row, o.content, o.branch, o.art)
                      /\ Do(t, plan) /\ UnchangedStore /\ UNCHANGED restarts
        BY <1>1 DEF DecideSubmitStep, Decide, UnchangedServer
    <1>3. th[t] # <<>> /\ o.op = "submit_step"
        BY <1>1 DEF DecideSubmitStep, Pending
    <1>4. /\ SnapshotOK(o) /\ o \in Range(th[t])
          /\ sid \in DOMAIN sessions => WorkflowOf(sessions[sid]) = WorkflowOf(row)
        BY <1>1, <1>3, SnapshotFits, HeadAndTail DEF IInv, ThreadsOK, WorkOK
    <1>5. RowOK(row) /\ row.current_step \in StepIds(WorkflowOf(row))
        BY <1>1, <1>3, <1>4 DEF SnapshotOK
    <1>6. \A s : ~Lands(Head(th[t]), s)
        BY <1>1, <1>3 DEF Lands
    <1>7. sid \in DOMAIN sessions =>
             /\ row.current_step = sessions[sid].current_step
             /\ row.step_visit_counts = sessions[sid].step_visit_counts
        BY <1>1, <1>3, <1>4 DEF VisitInv, Visiting, Landing
    <1>8. sid \in DOMAIN sessions =>
             SameCounts(row, sessions[sid]) /\ SameCounts(sessions[sid], row)
        BY <1>4, <1>7 DEF SameCounts
    <1>9. Trip(plan, sid) /\ (Rested(row, row.current_step) => Stilled(plan) \/ Fresh(row))
        BY <1>2, <1>5, SubmitTrip
    <1>10. sid \in DOMAIN sessions => Stilled(plan) \/ Fresh(sessions[sid])
        <2> SUFFICES ASSUME sid \in DOMAIN sessions
                     PROVE  Stilled(plan) \/ Fresh(sessions[sid])
            OBVIOUS
        <2>1. Rested(sessions[sid], sessions[sid].current_step)
            BY <1>6, AllRested
        <2>2. Rested(row, row.current_step)
            BY <1>7, <1>8, <2>1, SameLimits
        <2> QED BY <1>8, <1>9, <2>2, SameLimits
    <1>11. RowsKeep /\ Resting(th[t])
        BY <1>2, <1>6, StillKeeps DEF Resting
    <1>12. CASE Stilled(plan)
        BY <1>2, <1>11, <1>12, VisitsStilled
    <1>13. CASE sid \in DOMAIN sessions => Fresh(sessions[sid])
        BY <1>2, <1>9, <1>11, <1>13, VisitsTrip
    <1> QED BY <1>10, <1>12, <1>13

LEMMA DecideReviseStepVisits ==
    ASSUME IInv, VisitInv, NEW t \in Thread, DecideReviseStep(t)
    PROVE  FALSE
    <1>1. PICK o : o = Head(th[t]) /\ th[t] # <<>> /\ o.op = "revise_step"
        BY DEF DecideReviseStep, Pending
    <1>2. o \in Range(th[t])
        BY <1>1, HeadAndTail DEF IInv, ThreadsOK, WorkOK
    <1> QED BY <1>1, <1>2 DEF VisitInv, Visiting, Sound

\* A session that a decision creates.
LEMMA CreationPlans ==
    ASSUME NEW c, NEW v, NEW l, NEW p, p = <<c, v>> \/ p = <<c, v, l>>
    PROVE  /\ IsSeq(p)
           /\ \A j \in DOMAIN p : j \in Nat /\ (p[j] = c \/ p[j] = l \/ (p[j] = v /\ j = 2))
    <1>1. CASE p = <<c, v>>
        <2>1. IsSeq(p) /\ p[1] = c /\ p[2] = v
            BY <1>1, Two
        <2>2. \A j \in DOMAIN p : j \in Nat /\ (j = 1 \/ j = 2)
            BY <1>1
        <2> QED BY <2>1, <2>2
    <1>2. CASE p = <<c, v, l>>
        <2>1. IsSeq(p) /\ p[1] = c /\ p[2] = v /\ p[3] = l
            BY <1>2, Three
        <2>2. \A j \in DOMAIN p : j \in Nat /\ (j = 1 \/ j = 2 \/ j = 3)
            BY <1>2
        <2> QED BY <2>1, <2>2
    <1> QED BY <1>1, <1>2

Born(c, v, sid) ==
    /\ c.op = "create_session" /\ c.sid = sid /\ c.row.step_visit_counts = <<>>
    /\ v.op = "increment_visit" /\ v.sid = sid /\ v.step = c.row.current_step

LEMMA ChildBorn ==
    ASSUME NEW w, NEW parent, NEW sid, NEW type, NEW call, NEW max
    PROVE  Born(CreateOp(sid, NewRow(w, parent), type, call, max),
                VisitOp(sid, NewRow(w, parent).current_step), sid)
    BY DEF Born, CreateOp, VisitOp, NewRow

LEMMA ChildVisits ==
    ASSUME OneThread, IInv, VisitInv, NEW t \in Thread, th[t] # <<>>,
           Head(th[t]).op \in {"enter_sub_workflow", "push_flow"},
           NEW c, NEW v, Born(c, v, Head(th[t]).child), NEW l, Still(l),
           NEW plan, plan = <<>> \/ plan = <<c, v>> \/ plan = <<c, v, l>>,
           Do(t, plan), UnchangedStore, UNCHANGED restarts
    PROVE  VisitInv'
    <1>1. PICK child : child = Head(th[t]).child
        OBVIOUS
    <1>2. child \notin DOMAIN sessions'
        <2>1. child \in Drawn(th[t])
            BY <1>1 DEF Drawn, Drawing
        <2> QED BY <1>1, <2>1 DEF IInv, IdsOK, StoreOK, UnchangedStore
    <1>3. /\ c.op = "create_session" /\ c.sid = child /\ c.row.step_visit_counts = <<>>
          /\ v.op = "increment_visit" /\ v.sid = child /\ v.step = c.row.current_step
        BY <1>1 DEF Born
    <1>4. RowsKeep /\ Resting(th[t])
        BY StillKeeps DEF Resting, Lands
    <1>5. CASE plan = <<>>
        BY <1>4, <1>5, StilledEmpty, VisitsStilled
    <1>6. CASE plan = <<c, v>> \/ plan = <<c, v, l>>
        <2>1. /\ IsSeq(plan)
              /\ \A j \in DOMAIN plan :
                    j \in Nat /\ (plan[j] = c \/ plan[j] = l \/ (plan[j] = v /\ j = 2))
            BY <1>6, CreationPlans
        <2>2. Visiting(plan)'
            BY <1>2, <1>3, <2>1, CreationVisiting
        <2> QED BY <1>4, <2>2, VisitsNext
    <1> QED BY <1>5, <1>6

LEMMA DecideEnterSubWorkflowVisits ==
    ASSUME OneThread, IInv, VisitInv, NEW t \in Thread, DecideEnterSubWorkflow(t)
    PROVE  VisitInv'
    <1>1. PICK o, step, row, c, v, l, plan :
             /\ o = Head(th[t]) /\ step = StepAt(WorkflowOf(o.row), o.row.current_step)
             /\ row = NewRow(step.call, o.sid)
             /\ c = CreateOp(o.child, row, "call", Null, Null)
             /\ v = VisitOp(o.child, row.current_step) /\ l = LinkOp(o.sid, o.child, step.id)
             /\ plan = IF /\ TopFrames(stack, o.sid) = {}
                          /\ live[step.call] # Null
                          /\ step.ref = Null \/ step.ref \in DOMAIN o.row.step_data
                       THEN <<c, v, l>> ELSE <<>>
        OBVIOUS
    <1>2. Do(t, plan) /\ UnchangedStore /\ UNCHANGED restarts
        BY <1>1 DEF DecideEnterSubWorkflow, Decide, UnchangedServer
    <1>3. th[t] # <<>> /\ Head(th[t]).op \in {"enter_sub_workflow", "push_flow"}
        BY DEF DecideEnterSubWorkflow, Pending
    <1>4. plan = <<>> \/ plan = <<c, v, l>>
        BY <1>1
    <1>5. Still(l) /\ Born(c, v, Head(th[t]).child)
        BY <1>1, StillOps, ChildBorn
    <1> QED BY <1>2, <1>3, <1>4, <1>5, ChildVisits

LEMMA DecidePushFlowVisits ==
    ASSUME OneThread, IInv, VisitInv, NEW t \in Thread, DecidePushFlow(t)
    PROVE  VisitInv'
    <1>1. PICK o, row, c, v, l :
             /\ o = Head(th[t]) /\ row = NewRow(o.w, o.sid)
             /\ c = CreateOp(o.child, row, "digression", o.row.current_step, MaxStackDepth)
             /\ v = VisitOp(o.child, row.current_step) /\ l = EscalateOp(o.sid)
        OBVIOUS
    <1>2. PICK plan : /\ Do(t, plan) /\ UnchangedStore /\ UNCHANGED restarts
                      /\ plan = <<>> \/ plan = <<c, v>>
        BY <1>1 DEF DecidePushFlow, Decide, UnchangedServer
    <1>3. th[t] # <<>> /\ Head(th[t]).op \in {"enter_sub_workflow", "push_flow"}
        BY DEF DecidePushFlow, Pending
    <1>4. Still(l)
        BY <1>1, StillOps
    <1>5. Born(c, v, Head(th[t]).child)
        BY <1>1, ChildBorn
    <1> QED BY <1>2, <1>3, <1>4, <1>5, ChildVisits

LEMMA ResumeVisits ==
    ASSUME OneThread, IInv, VisitInv, NEW t \in Thread, NEW child, NEW outer,
           Do(t, ResumePlan(child, outer)), UnchangedStore, UNCHANGED restarts,
           \A s : th[t] # <<>> => ~Lands(Head(th[t]), s)
    PROVE  VisitInv'
    <1>1. PICK plan : plan = <<DeleteOp(child, FALSE)>>
        OBVIOUS
    <1>2. Visiting(plan)'
        BY <1>1, StillOps, StilledOne, StilledVisiting
    <1>3. Do(t, ThenOn(outer, plan))
        BY <1>1 DEF ResumePlan
    <1> QED BY <1>2, <1>3, ThenOnVisits

LEMMA DecidePopFlowVisits ==
    ASSUME OneThread, IInv, VisitInv, NEW t \in Thread, DecidePopFlow(t)
    PROVE  VisitInv'
    <1>1. /\ UnchangedStore /\ UNCHANGED restarts
          /\ Do(t, <<>>) \/ \E sid, p : Do(t, ResumePlan(sid, p))
        BY DEF DecidePopFlow, Decide, UnchangedServer
    <1>2. \A s : ~Lands(Head(th[t]), s)
        BY DEF DecidePopFlow, Pending, Lands
    <1>3. CASE Do(t, <<>>)
        BY <1>1, <1>2, <1>3, StilledEmpty, StillKeeps, VisitsStilled DEF Resting
    <1>4. CASE \E sid, p : Do(t, ResumePlan(sid, p))
        BY <1>1, <1>2, <1>4, ResumeVisits
    <1> QED BY <1>1, <1>3, <1>4

LEMMA DecideAutoResumeVisits ==
    ASSUME OneThread, GuardedLoops, IInv, StoreOK', VisitInv, NEW t \in Thread,
           DecideAutoResume(t)
    PROVE  VisitInv'
    <1>1. PICK o : o = Head(th[t])
        OBVIOUS
    <1>2. /\ UnchangedStore /\ UNCHANGED restarts
          /\ \/ Do(t, <<>>)
             \/ \E p : Do(t, ResumePlan(o.sid, p))
             \/ \E p : Do(t, ThenOn(p, PropagatePlan(o.sid, o.wf, o.data, p)))
        BY <1>1 DEF DecideAutoResume, Decide, UnchangedServer
    <1>3. \A s : ~Lands(Head(th[t]), s)
        BY DEF DecideAutoResume, Pending, Lands
    <1>4. CASE Do(t, <<>>)
        BY <1>2, <1>3, <1>4, StilledEmpty, StillKeeps, VisitsStilled DEF Resting
    <1>5. CASE \E p : Do(t, ResumePlan(o.sid, p))
        BY <1>2, <1>3, <1>5, ResumeVisits
    <1>6. CASE \E p : Do(t, ThenOn(p, PropagatePlan(o.sid, o.wf, o.data, p)))
        <2>1. PICK p, plan : /\ plan = PropagatePlan(o.sid, o.wf, o.data, p)
                             /\ Do(t, ThenOn(p, plan))
            BY <1>6
        <2>2. ASSUME Resolve(p) = "ok"
              PROVE  Visiting(plan)'
            <3>1. p \in DOMAIN sessions
                BY <2>2 DEF Resolve
            <3>2. RowOK(sessions[p]) /\ sessions' = sessions
                BY <1>2, <3>1 DEF IInv, StoreOK, UnchangedStore
            <3>3. /\ Trip(plan, p)
                  /\ Rested(sessions[p], sessions[p].current_step) =>
                        Stilled(plan) \/ Fresh(sessions[p])
                BY <2>1, <3>2, PropagateTrip
            <3>4. Stilled(plan) \/ Fresh(sessions[p])
                BY <1>3, <3>1, <3>3, AllRested
            <3>5. CASE Stilled(plan)
                BY <3>5, StilledVisiting
            <3>6. CASE Fresh(sessions[p])
                BY <3>2, <3>3, <3>6, TripVisiting
            <3> QED BY <3>4, <3>5, <3>6
        <2> QED BY <1>2, <1>3, <2>1, <2>2, ThenOnVisits
    <1> QED BY <1>2, <1>4, <1>5, <1>6

LEMMA DecideEscalateParentVisits ==
    ASSUME OneThread, IInv, VisitInv, NEW t \in Thread, DecideEscalateParent(t)
    PROVE  VisitInv'
    <1>1. PICK plan : /\ Do(t, plan) /\ UnchangedStore /\ UNCHANGED restarts
                      /\ plan = <<>> \/ \E p : plan = <<EscalateOp(p)>>
        BY DEF DecideEscalateParent, Decide, UnchangedServer
    <1>2. Stilled(plan)
        BY <1>1, StilledEmpty, StilledOne, StillOps
    <1>3. \A s : ~Lands(Head(th[t]), s)
        BY DEF DecideEscalateParent, Pending, Lands
    <1> QED BY <1>1, <1>2, <1>3, StillKeeps, VisitsStilled DEF Resting

---------------------------------------------------------------------------
(***************************************************************************)
(* The transactions.                                                       *)
(***************************************************************************)
LEMMA RestingHead ==
    ASSUME NEW q, q # <<>> => Head(q).op # "update_session"
    PROVE  Resting(q)
    BY DEF Resting, Lands

LEMMA RowKeeps ==
    ASSUME NEW sid \in DOMAIN sessions, NEW row, sessions' = [sessions EXCEPT ![sid] = row],
           WorkflowOf(row) = WorkflowOf(sessions[sid]),
           row.current_step = sessions[sid].current_step,
           row.step_visit_counts = sessions[sid].step_visit_counts
    PROVE  RowsKeep
    <1>1. /\ DOMAIN sessions' = DOMAIN sessions /\ sessions'[sid] = row
          /\ \A s \in DOMAIN sessions \ {sid} : sessions'[s] = sessions[s]
        OBVIOUS
    <1> QED BY <1>1 DEF RowsKeep

LEMMA ColumnKeeps ==
    ASSUME IInv, NEW sid \in DOMAIN sessions, NEW v,
           NEW col \in {"retry_counts", "artifact_checkpoints", "step_data", "escalation",
                        "updated_at"},
           sessions' = [sessions EXCEPT ![sid] = [sessions[sid] EXCEPT ![col] = v]]
    PROVE  RowsKeep
    <1>1. PICK row : row = [sessions[sid] EXCEPT ![col] = v]
        OBVIOUS
    <1>2. DOMAIN sessions[sid] = Column
        BY DEF IInv, StoreOK, RowOK
    <1>3. /\ SameWorkflow(sessions[sid], row)
          /\ row.current_step = sessions[sid].current_step
          /\ row.step_visit_counts = sessions[sid].step_visit_counts
        BY <1>1, <1>2 DEF SameWorkflow, Column
    <1>4. WorkflowOf(row) = WorkflowOf(sessions[sid])
        BY <1>3, SameWorkflowOf
    <1>5. sessions' = [sessions EXCEPT ![sid] = row]
        BY <1>1
    <1> QED BY <1>3, <1>4, <1>5, RowKeeps

LEMMA ColumnVisits ==
    ASSUME OneThread, IInv, VisitInv, NEW t \in Thread, NEW v,
           NEW col \in {"retry_counts", "artifact_checkpoints", "step_data", "escalation"},
           NEW name, name # "update_session",
           WriteRow(t, name, [sessions[Head(th[t]).sid] EXCEPT ![col] = v], Tail(th[t]))
    PROVE  VisitInv'
    <1>1. PICK h, row : h = Head(th[t]) /\ row = [sessions[h.sid] EXCEPT ![col] = v]
        OBVIOUS
    <1>2. /\ th[t] # <<>> /\ h.op = name /\ h.sid \in DOMAIN sessions
          /\ sessions' = [sessions EXCEPT ![h.sid] = row]
          /\ UNCHANGED restarts /\ Do(t, Tail(th[t]))
        BY <1>1, WriteRowEffect
    <1>3. RowsKeep
        BY <1>1, <1>2, ColumnKeeps
    <1> QED BY <1>1, <1>2, <1>3, RestingHead, VisitsRest

LEMMA IncrementRetryVisits ==
    ASSUME OneThread, IInv, VisitInv, NEW t \in Thread, TransactIncrementRetry(t)
    PROVE  VisitInv'
    <1>1. PICK o : o = Head(th[t])
        OBVIOUS
    <1>2. PICK v, row, col :
             /\ v = Increment(sessions[o.sid].retry_counts, o.step)
             /\ row = [sessions[o.sid] EXCEPT !.retry_counts = Increment(@, o.step)]
             /\ col = "retry_counts"
        OBVIOUS
    <1>3. row = [sessions[o.sid] EXCEPT ![col] = v]
        BY <1>2
    <1>4. PICK rest : /\ rest = IF row.retry_counts[o.step] >= o.max
                                THEN <<EscalateParentOp(o.sid)>> ELSE <<>>
                      /\ WriteRow(t, "increment_retry", row, rest)
        BY <1>1, <1>2 DEF TransactIncrementRetry
    <1>5. /\ o.sid \in DOMAIN sessions /\ Do(t, rest) /\ o.op = "increment_retry"
          /\ sessions' = [sessions EXCEPT ![o.sid] = row] /\ UNCHANGED restarts
        BY <1>1, <1>4, WriteRowEffect
    <1>6. RowsKeep
        BY <1>2, <1>3, <1>5, ColumnKeeps
    <1>7. Stilled(rest)
        BY <1>4, StilledEmpty, StilledOne, StillOps
    <1>8. Resting(th[t])
        BY <1>1, <1>5, RestingHead
    <1> QED BY <1>5, <1>6, <1>7, <1>8, VisitsStilled

LEMMA FramesVisit ==
    ASSUME OneThread, IInv, VisitInv, NEW t \in Thread,
           TransactSetCalledSession(t) \/ TransactClearCalledSession(t)
    PROVE  VisitInv'
    <1>1. PICK o : o = Head(th[t])
        OBVIOUS
    <1>2. /\ th[t] # <<>> /\ o.sid \in DOMAIN sessions
          /\ o.op \in {"set_called_session", "clear_called_session"}
          /\ sessions' = [sessions EXCEPT ![o.sid].updated_at = Now]
          /\ Do(t, Tail(th[t])) /\ UNCHANGED restarts
        <2>1. ASSUME NEW name \in {"set_called_session", "clear_called_session"}, NEW new,
                     Transact(t, name, new, Tail(th[t])),
                     new.sessions = [sessions EXCEPT ![o.sid].updated_at = Now]
              PROVE  /\ th[t] # <<>> /\ o.sid \in DOMAIN sessions
                     /\ o.op \in {"set_called_session", "clear_called_session"}
                     /\ sessions' = [sessions EXCEPT ![o.sid].updated_at = Now]
                     /\ Do(t, Tail(th[t])) /\ UNCHANGED restarts
            BY <1>1, <2>1, TransactEffect
        <2>2. CASE TransactSetCalledSession(t)
            <3>1. PICK new : new = LinkChild(db, o.sid, o.child, o.call, Now)
                OBVIOUS
            <3>2. new.sessions = [sessions EXCEPT ![o.sid].updated_at = Now]
                BY <3>1 DEF LinkChild, db
            <3>3. Transact(t, "set_called_session", new, Tail(th[t]))
                BY <1>1, <2>2, <3>1 DEF TransactSetCalledSession
            <3> QED BY <2>1, <3>2, <3>3
        <2>3. CASE TransactClearCalledSession(t)
            <3>1. PICK new : new = UnlinkChild(db, o.sid, Now)
                OBVIOUS
            <3>2. new.sessions = [sessions EXCEPT ![o.sid].updated_at = Now]
                BY <3>1 DEF UnlinkChild, db
            <3>3. Transact(t, "clear_called_session", new, Tail(th[t]))
                BY <1>1, <2>3, <3>1 DEF TransactClearCalledSession
            <3> QED BY <2>1, <3>2, <3>3
        <2> QED BY <2>2, <2>3
    <1>3. PICK col : col = "updated_at"
        OBVIOUS
    <1>4. sessions' = [sessions EXCEPT ![o.sid] = [sessions[o.sid] EXCEPT ![col] = Now]]
        BY <1>2, <1>3
    <1>5. RowsKeep
        BY <1>2, <1>3, <1>4, ColumnKeeps
    <1> QED BY <1>1, <1>2, <1>5, RestingHead, VisitsRest

LEMMA DeleteVisits ==
    ASSUME OneThread, IInv, VisitInv, NEW t \in Thread, TransactDeleteSession(t)
    PROVE  VisitInv'
    <1>1. /\ th[t] # <<>> /\ Head(th[t]).op = "delete_session" /\ Do(t, Tail(th[t]))
          /\ sessions' = DeleteSessions(db, {Head(th[t]).sid}).sessions /\ UNCHANGED restarts
        BY DEF TransactDeleteSession, Transact, Pending, UnchangedServer
    <1>2. DeleteSessions(db, {Head(th[t]).sid}).sessions = Without(sessions, {Head(th[t]).sid})
        BY DEF DeleteSessions, db
    <1>3. RowsKeep
        BY <1>1, <1>2 DEF RowsKeep, Without, Restrict
    <1> QED BY <1>1, <1>3, RestingHead, VisitsRest

LEMMA RowGoneVisits ==
    ASSUME OneThread, IInv, VisitInv, NEW t \in Thread, RowGone(t)
    PROVE  VisitInv'
    <1>1. /\ th[t] # <<>> /\ UnchangedStore /\ Head(th[t]).sid \notin DOMAIN sessions
          /\ Do(t, <<>>) \/ Do(t, Tail(th[t]))
        BY DEF RowGone, Idle, UnchangedServer
    <1>2. UNCHANGED restarts
        BY DEF RowGone, UnchangedServer
    <1>3. RowsKeep /\ Resting(th[t])
        BY <1>1, StillKeeps DEF Resting, Lands, UnchangedStore
    <1> QED BY <1>1, <1>2, <1>3, StilledEmpty, VisitsStilled, VisitsRest

\* The move itself: the visits were counted for the step it arrives at.
LEMMA MovedCounts ==
    ASSUME NEW row, RowOK(row), NEW o
    PROVE  SameCounts(row, UpdatedRow(row, o))
    <1>1. PICK new : new = UpdatedRow(row, o)
        OBVIOUS
    <1>2. WorkflowOf(row) = WorkflowOf(new)
        BY <1>1, UpdatedColumns, SameWorkflowOf
    <1>3. DOMAIN row = Column
        BY DEF RowOK
    <1>4. new.step_visit_counts = row.step_visit_counts
        BY <1>1, <1>3 DEF UpdatedRow, SetCurrentStep, Column
    <1> QED BY <1>1, <1>2, <1>4 DEF SameCounts

LEMMA UpdateSessionVisits ==
    ASSUME OneThread, IInv, VisitInv, NEW t \in Thread, TransactUpdateSession(t)
    PROVE  VisitInv'
    <1>1. PICK o, row, q : o = Head(th[t]) /\ row = sessions[o.sid] /\ q = th[t]
        OBVIOUS
    <1>2. WriteRow(t, "update_session", UpdatedRow(row, o), Tail(q))
        BY <1>1 DEF TransactUpdateSession, UpdatedRow
    <1>3. /\ q # <<>> /\ o.op = "update_session" /\ o.sid \in DOMAIN sessions
          /\ sessions' = [sessions EXCEPT ![o.sid] = UpdatedRow(row, o)]
          /\ UNCHANGED restarts /\ Do(t, Tail(q))
        BY <1>1, <1>2, WriteRowEffect
    <1>4. RowOK(row) /\ IsSeq(q) /\ Visiting(q) /\ Settling(q)
        BY <1>1, <1>3 DEF IInv, StoreOK, ThreadsOK, WorkOK, VisitInv
    <1>5. PICK new : new = UpdatedRow(row, o)
        OBVIOUS
    <1>6. /\ SameCounts(row, new)
          /\ new.current_step = IF o.step = Null THEN row.current_step ELSE o.step
        BY <1>4, <1>5, MovedCounts, UpdatedColumns
    <1>7. /\ DOMAIN sessions' = DOMAIN sessions /\ sessions'[o.sid] = new
          /\ \A s \in DOMAIN sessions \ {o.sid} : sessions'[s] = sessions[s]
        BY <1>3, <1>5
    <1>8. CASE o.step = Null
        <2>1. RowsKeep
            BY <1>1, <1>3, <1>5, <1>6, <1>8, RowKeeps DEF SameCounts
        <2>2. Resting(q)
            BY <1>1, <1>8 DEF Resting, Lands
        <2> QED BY <1>1, <1>3, <2>1, <2>2, VisitsRest
    <1>9. CASE o.step # Null
        <2>1. \A s \in DOMAIN sessions' : s \in DOMAIN sessions /\ SameCounts(sessions[s], sessions'[s])
            BY <1>1, <1>6, <1>7 DEF SameCounts
        <2>2. \A p \in Range(Tail(q)) : Landing(p)'
            <3> SUFFICES ASSUME NEW p \in Range(Tail(q)), p.sid \in DOMAIN sessions'
                         PROVE  /\ Lands(p, p.sid) => Rested(sessions'[p.sid], p.step)
                                /\ Visits(p) => Fresh(sessions'[p.sid])
                                /\ p.op # "submit_step"
                BY DEF Landing, Lands, Visits
            <3>1. p \in Range(q) /\ p.op # "submit_step"
                BY <1>3, <1>4, TailPlain
            <3>2. Landing(p)
                BY <1>4, <3>1 DEF Visiting
            <3> QED BY <2>1, <3>1, <3>2, SameLimits DEF Landing
        <2>3. ASSUME NEW i \in DOMAIN Tail(q), Tail(q)[i].op = "increment_visit",
                     Tail(q)[i].sid \in DOMAIN sessions'
              PROVE  StandsAt(Tail(q), i)'
            <3>1. PICK v, r : r = Tail(q) /\ v = r[i]
                OBVIOUS
            <3>2. v.op = "increment_visit" /\ v.sid \in DOMAIN sessions
                BY <1>7, <2>3, <3>1
            <3>3. CASE v.sid # o.sid
                BY <1>1, <1>3, <1>4, <1>7, <3>1, <3>2, <3>3, TailStandsAt DEF Lands
            <3>4. CASE v.sid = o.sid
                <4>1. 1 \in DOMAIN q /\ q[1] = o /\ i + 1 \in DOMAIN q /\ q[i + 1] = v
                    BY <1>1, <1>3, <1>4, <3>1, TailAt
                <4>2. Lands(q[1], v.sid)
                    BY <1>3, <1>9, <3>4, <4>1 DEF Lands
                <4>3. v.step = o.step
                    BY <1>4, <3>2, <4>1, <4>2 DEF Visiting, Arrives
                <4> QED BY <1>6, <1>7, <1>9, <3>1, <3>4, <4>3 DEF StandsAt
            <3> QED BY <3>3, <3>4
        <2>4. Visiting(Tail(q))'
            BY <1>3, <1>4, <2>2, <2>3, VisitingTail
        <2>5. ASSUME NEW s \in DOMAIN sessions'
              PROVE  Rested(sessions'[s], sessions'[s].current_step)
            <3>1. CASE s = o.sid
                <4>1. o \in Range(q)
                    BY <1>1, <1>3, <1>4, HeadAndTail
                <4>2. Lands(o, o.sid)
                    BY <1>3, <1>9 DEF Lands
                <4>3. Rested(row, o.step)
                    BY <1>1, <1>3, <1>4, <4>1, <4>2 DEF Visiting, Landing
                <4> QED BY <1>6, <1>7, <1>9, <3>1, <4>3, SameLimits
            <3>2. CASE s # o.sid
                <4>1. s \in DOMAIN sessions /\ sessions'[s] = sessions[s] /\ ~Lands(Head(q), s)
                    BY <1>1, <1>7, <3>2 DEF Lands
                <4> QED BY <1>4, <4>1 DEF Settling
            <3> QED BY <3>1, <3>2
        <2>6. Settling(Tail(q))'
            BY <2>5 DEF Settling, Rested
        <2> QED BY <1>3, <2>4, <2>6, VisitsOn
    <1> QED BY <1>8, <1>9

\* The count: one more for the step the session stands on or comes to next.
LEMMA VisitedRow ==
    ASSUME NEW row, RowOK(row), NEW v, NEW new,
           new = [row EXCEPT !["step_visit_counts"] = v]
    PROVE  /\ WorkflowOf(new) = WorkflowOf(row)
           /\ new.current_step = row.current_step
           /\ new.step_visit_counts = v
    <1>1. DOMAIN row = Column
        BY DEF RowOK
    <1>2. /\ SameWorkflow(row, new)
          /\ new.current_step = row.current_step
          /\ new.step_visit_counts = v
        BY <1>1 DEF SameWorkflow, Column
    <1> QED BY <1>2, SameWorkflowOf

LEMMA IncrementVisitVisits ==
    ASSUME OneThread, GuardedLoops, IInv, VisitInv, NEW t \in Thread, TransactIncrementVisit(t)
    PROVE  VisitInv'
    <1>1. PICK o, q, row, v :
             /\ o = Head(th[t]) /\ q = th[t] /\ row = sessions[o.sid]
             /\ v = Increment(row.step_visit_counts, o.step)
        OBVIOUS
    <1>2. PICK new : new = [row EXCEPT !["step_visit_counts"] = v]
        OBVIOUS
    <1>3. WriteRow(t, "increment_visit", new, Tail(q))
        BY <1>1, <1>2 DEF TransactIncrementVisit
    <1>4. /\ q # <<>> /\ o.op = "increment_visit" /\ o.sid \in DOMAIN sessions
          /\ sessions' = [sessions EXCEPT ![o.sid] = new]
          /\ UNCHANGED restarts /\ Do(t, Tail(q))
        BY <1>1, <1>3, WriteRowEffect
    <1>5. /\ RowOK(row) /\ IsSeq(q) /\ Visiting(q) /\ Settling(q)
          /\ \A p \in Range(q) : StepOK(q, p)
        BY <1>1, <1>4 DEF IInv, StoreOK, ThreadsOK, WorkOK, VisitInv
    <1>6. /\ WorkflowOf(new) = WorkflowOf(row) /\ new.current_step = row.current_step
          /\ new.step_visit_counts = v
        <2>1. DOMAIN row = Column
            BY <1>5 DEF RowOK
        <2>2. /\ SameWorkflow(row, new) /\ new.current_step = row.current_step
              /\ new.step_visit_counts = v
            BY <1>2, <2>1 DEF SameWorkflow, Column
        <2> QED BY <2>2, SameWorkflowOf
    <1>7. /\ DOMAIN sessions' = DOMAIN sessions /\ sessions'[o.sid] = new
          /\ \A s \in DOMAIN sessions \ {o.sid} : sessions'[s] = sessions[s]
        BY <1>4
    <1>8. Fresh(row)
        <2>1. o \in Range(q)
            BY <1>1, <1>4, <1>5, HeadAndTail
        <2> QED BY <1>1, <1>4, <1>5, <2>1 DEF Visiting, Landing, Visits
    <1>9. Rested(new, o.step)
        BY <1>1, <1>5, <1>6, <1>8, VisitedRested
    <1>10. RowsStay /\ Resting(q)
        BY <1>1, <1>4, <1>6, <1>7, RestingHead DEF RowsStay
    <1>11. \A p \in Range(Tail(q)) : Landing(p)'
        <2> SUFFICES ASSUME NEW p \in Range(Tail(q)), p.sid \in DOMAIN sessions'
                     PROVE  /\ Lands(p, p.sid) => Rested(sessions'[p.sid], p.step)
                            /\ Visits(p) => Fresh(sessions'[p.sid])
                            /\ p.op # "submit_step"
            BY DEF Landing, Lands, Visits
        <2>1. p \in Range(q) /\ p.op # "submit_step" /\ Sound(p)
            BY <1>4, <1>5, TailPlain
        <2>2. CASE p.sid # o.sid
            <3>1. sessions'[p.sid] = sessions[p.sid] /\ p.sid \in DOMAIN sessions
                BY <1>7, <2>2
            <3>2. Landing(p)
                BY <1>5, <2>1 DEF Visiting
            <3> QED BY <2>1, <3>1, <3>2 DEF Landing
        <2>3. CASE p.sid = o.sid
            <3>1. PICK k \in DOMAIN q : q[k] = p /\ 1 < k
                <4>1. PICK r, i : r = Tail(q) /\ i \in DOMAIN r /\ r[i] = p
                    BY DEF Range
                <4>2. i + 1 \in DOMAIN q /\ q[i + 1] = p /\ 1 < i + 1
                    BY <1>4, <1>5, <4>1, TailAt
                <4> QED BY <4>2
            <3>2. 1 \in DOMAIN q /\ q[1] = o
                BY <1>1, <1>4, <1>5, TailAt
            <3>3. /\ Lands(p, o.sid) => p.step = o.step
                  /\ Visits(p) => p.op = "auto_execute" /\ p.at = o.step
                BY <1>4, <1>5, <2>3, <3>1, <3>2 DEF Visiting, Arrives
            <3>4. ASSUME Visits(p)
                  PROVE  Fresh(new)
                <4>1. Fits(p, row) /\ p.op = "auto_execute" /\ p.at = o.step
                    BY <1>1, <1>4, <1>5, <2>1, <2>3, <3>3, <3>4 DEF StepOK
                <4>2. /\ o.step \in StepIds(WorkflowOf(row))
                      /\ StepAt(WorkflowOf(row), o.step).kind = "mcp"
                    BY <2>1, <4>1 DEF Fits, Sound
                <4>3. o.step \notin ClientSteps(WorkflowOf(row))
                    BY <1>5, <4>2, NotClient
                <4> QED BY <1>1, <1>6, <1>8, <4>3, OtherVisited
            <3> QED BY <1>7, <1>9, <2>1, <2>3, <3>3, <3>4
        <2> QED BY <2>2, <2>3
    <1>12. Visiting(Tail(q))'
        BY <1>4, <1>5, <1>10, <1>11, TailStands, VisitingTail
    <1>13. ASSUME NEW s \in DOMAIN sessions'
           PROVE  \/ Rested(sessions'[s], sessions'[s].current_step)
                  \/ Tail(q) # <<>> /\ Lands(Head(Tail(q)), s)
        <2>1. CASE s # o.sid
            <3>1. s \in DOMAIN sessions /\ sessions'[s] = sessions[s] /\ ~Lands(Head(q), s)
                BY <1>1, <1>7, <2>1 DEF Lands
            <3> QED BY <1>5, <3>1 DEF Settling
        <2>2. CASE s = o.sid
            <3>1. 1 \in DOMAIN q /\ q[1] = o
                BY <1>1, <1>4, <1>5, TailAt
            <3>2. StandsAt(q, 1)
                BY <1>4, <1>5, <3>1 DEF Visiting
            <3>3. CASE row.current_step = o.step
                BY <1>6, <1>7, <1>9, <2>2, <3>3
            <3>4. CASE \E j \in DOMAIN q : j <= 1 + 1 /\ Lands(q[j], o.sid)
                <4>1. PICK j \in DOMAIN q : j <= 1 + 1 /\ Lands(q[j], o.sid)
                    BY <3>4
                <4>2. j # 1
                    BY <1>4, <3>1, <4>1 DEF Lands
                <4>3. PICK r : r = Tail(q)
                    OBVIOUS
                <4>4. j = 2
                    <5>1. j \in Nat \ {0}
                        BY <1>4, <1>5, TailAt
                    <5> QED BY <4>1, <4>2, <5>1
                <4>5. 1 \in DOMAIN r /\ r[1] = q[2]
                    <5>1. \A i \in DOMAIN r : r[i] = q[i + 1]
                        BY <1>4, <1>5, <4>3, TailAt
                    <5>2. j - 1 \in DOMAIN r
                        BY <1>4, <1>5, <4>2, <4>3, TailAt
                    <5> QED BY <4>4, <5>1, <5>2
                <4>6. IsSeq(r) /\ r # <<>>
                    <5>1. IsSeq(r)
                        BY <1>4, <1>5, <4>3, HeadAndTail
                    <5>2. r # <<>>
                        BY <4>5
                    <5> QED BY <5>1, <5>2
                <4>7. Head(r) = r[1]
                    BY <4>6, TailAt
                <4> QED BY <2>2, <4>1, <4>3, <4>4, <4>5, <4>6, <4>7
            <3> QED BY <1>1, <3>1, <3>2, <3>3, <3>4 DEF StandsAt
        <2> QED BY <2>1, <2>2
    <1>14. Settling(Tail(q))'
        BY <1>13 DEF Settling, Lands, Rested
    <1> QED BY <1>4, <1>12, <1>14, VisitsOn

LEMMA NewFresh ==
    ASSUME GuardedLoops, NEW row, RowOK(row), row.step_visit_counts = <<>>
    PROVE  Fresh(row)
    <1> SUFFICES ASSUME NEW g \in RevisitGuards(WorkflowOf(row)),
                        NEW x \in ClientSteps(WorkflowOf(row)), NEW n,
                        n = Count(row.step_visit_counts, x)
                 PROVE  n \in 0..(g.max - 1)
        BY DEF Fresh
    <1>1. g.max \in Nat \ {0}
        BY LimitsPositive
    <1>2. n = 0
        BY DEF Count
    <1> QED BY <1>1, <1>2

LEMMA CreateSessionVisits ==
    ASSUME OneThread, GuardedLoops, IInv, VisitInv, NEW t \in Thread, NEW evicted,
           TransactCreateSession(t, evicted)
    PROVE  VisitInv'
    <1>1. PICK o, q : o = Head(th[t]) /\ q = th[t]
        OBVIOUS
    <1>2. /\ q # <<>> /\ o.op = "create_session" /\ UNCHANGED restarts
          /\ \/ UnchangedStore /\ Do(t, <<>>)
             \/ /\ LET new == CreateSession(db, evicted, o.sid, o.row, o.type, o.call)
                   IN  sessions' = new.sessions /\ stack' = new.stack
                /\ minted' = minted \cup {o.sid} /\ Do(t, Tail(q))
        BY <1>1 DEF TransactCreateSession, Pending, UnchangedServer
    <1>3. IsSeq(q) /\ CreateArgs(o) /\ Visiting(q) /\ Settling(q)
        BY <1>1, <1>2, HeadOK DEF StepOK, OpOK, WorkOK, VisitInv
    <1>4. o.sid \notin minted
        <2>1. o.sid \in Drawn(q)
            BY <1>1, <1>2 DEF Drawn, Drawing
        <2> QED BY <1>1, <2>1 DEF IInv, IdsOK
    <1>5. CASE UnchangedStore /\ Do(t, <<>>)
        BY <1>1, <1>2, <1>5, StillKeeps, RestingHead, StilledEmpty, VisitsStilled
    <1>6. CASE /\ LET new == CreateSession(db, evicted, o.sid, o.row, o.type, o.call)
                  IN  sessions' = new.sessions /\ stack' = new.stack
               /\ minted' = minted \cup {o.sid} /\ Do(t, Tail(q))
        <2>1. /\ o.sid \in DOMAIN sessions' /\ sessions'[o.sid] = o.row
              /\ \A s \in DOMAIN sessions' \ {o.sid} :
                    s \in DOMAIN sessions /\ sessions'[s] = sessions[s]
            BY <1>3, <1>4, <1>6, CreatedStore DEF Inserted, IInv
        <2>2. Fresh(o.row) /\ \A at : Rested(o.row, at)
            <3>1. o \in Range(q)
                BY <1>1, <1>2, <1>3, HeadAndTail
            <3>2. RowOK(o.row) /\ o.row.step_visit_counts = <<>>
                BY <1>2, <1>3, <3>1 DEF CreateArgs, Visiting, Sound
            <3> QED BY <3>2, NewFresh, FreshRested
        <2>3. \A p \in Range(Tail(q)) : Landing(p)'
            <3> SUFFICES ASSUME NEW p \in Range(Tail(q)), p.sid \in DOMAIN sessions'
                         PROVE  /\ Lands(p, p.sid) => Rested(sessions'[p.sid], p.step)
                                /\ Visits(p) => Fresh(sessions'[p.sid])
                                /\ p.op # "submit_step"
                BY DEF Landing, Lands, Visits
            <3>1. p.op # "submit_step" /\ Landing(p)
                BY <1>2, <1>3, TailPlain DEF Visiting
            <3>2. CASE p.sid = o.sid
                BY <2>1, <2>2, <3>1, <3>2
            <3>3. CASE p.sid # o.sid
                BY <2>1, <3>1, <3>3 DEF Landing
            <3> QED BY <3>2, <3>3
        <2>4. ASSUME NEW i \in DOMAIN Tail(q), Tail(q)[i].op = "increment_visit",
                     Tail(q)[i].sid \in DOMAIN sessions'
              PROVE  StandsAt(Tail(q), i)'
            <3>1. PICK v, r : r = Tail(q) /\ v = r[i]
                OBVIOUS
            <3>2. v.op = "increment_visit" /\ v.sid \in DOMAIN sessions'
                BY <2>4, <3>1
            <3>3. CASE v.sid # o.sid
                <4>1. v.sid \in DOMAIN sessions /\ sessions'[v.sid] = sessions[v.sid]
                    BY <2>1, <3>2, <3>3
                <4>2. ~Lands(Head(q), v.sid)
                    BY <1>1, <3>3, <1>2 DEF Lands
                <4> QED BY <1>2, <1>3, <3>1, <3>2, <4>1, <4>2, TailStandsAt
            <3>4. CASE v.sid = o.sid
                <4>1. 1 \in DOMAIN q /\ q[1] = o /\ i + 1 \in DOMAIN q /\ q[i + 1] = v
                    BY <1>1, <1>2, <1>3, <3>1, TailAt
                <4>2. o.row.current_step = v.step
                    BY <1>2, <1>3, <3>2, <3>4, <4>1 DEF Visiting, Arrives
                <4> QED BY <2>1, <3>1, <3>4, <4>2 DEF StandsAt
            <3> QED BY <3>3, <3>4
        <2>5. Visiting(Tail(q))'
            BY <1>2, <1>3, <2>3, <2>4, VisitingTail
        <2>6. ASSUME NEW s \in DOMAIN sessions'
              PROVE  Rested(sessions'[s], sessions'[s].current_step)
            <3>1. CASE s = o.sid
                BY <2>1, <2>2, <3>1
            <3>2. CASE s # o.sid
                <4>1. s \in DOMAIN sessions /\ sessions'[s] = sessions[s] /\ ~Lands(Head(q), s)
                    BY <1>1, <1>2, <2>1, <3>2 DEF Lands
                <4> QED BY <1>3, <4>1 DEF Settling
            <3> QED BY <3>1, <3>2
        <2>7. Settling(Tail(q))'
            BY <2>6 DEF Settling, Rested
        <2> QED BY <1>1, <1>2, <1>6, <2>5, <2>7, VisitsOn
    <1> QED BY <1>2, <1>5, <1>6

LEMMA AutoExecuteVisits ==
    ASSUME OneThread, GuardedLoops, IInv, StoreOK', VisitInv, NEW t \in Thread, NEW envelope,
           AutoExecute(t, envelope)
    PROVE  VisitInv'
    <1>1. PICK o, sid, wf : o = Head(th[t]) /\ sid = o.sid /\ wf = o.wf
        OBVIOUS
    <1> DEFINE step    == StepAt(wf, o.at)
               data    == Put(o.data, o.at, envelope)
               next    == DefaultTarget(wf, step)
               landing == ApplySkipLoop(wf, next, data, FALSE)
               tail    == IF o.cont = "submit" THEN <<EscalateParentOp(sid)>> ELSE <<>>
               Cascade(at, d) == <<UpdateOp(sid, at, d)>> \o tail
               v       == Increment(sessions[sid].step_visit_counts, o.at)
               rest    == IF landing.cascade THEN Cascade(next, data)
                          ELSE Proceed(o.cont, sid, wf, landing.step, data)
    <1>2. th[t] # <<>> /\ o.op = "auto_execute" /\ UNCHANGED restarts
        BY <1>1 DEF AutoExecute, Pending, WriteRow, Transact, UnchangedServer
    <1>3. \/ Do(t, Cascade(o.at, o.data)) /\ UnchangedStore
          \/ WriteRow(t, "auto_execute", [sessions[sid] EXCEPT !["step_visit_counts"] = v], rest)
        BY <1>1 DEF AutoExecute
    <1>4. /\ o.cont \in Conts /\ o \in Range(th[t]) /\ Landing(o) /\ Sound(o) /\ Settling(th[t])
          /\ sid \in DOMAIN sessions => Fits(o, sessions[sid])
        <2>1. o.cont \in Conts /\ o \in Range(th[t])
            BY <1>1, <1>2, HeadOK, HeadAndTail DEF StepOK, OpOK, WorkOK
        <2>2. sid \in DOMAIN sessions => Fits(o, sessions[sid])
            BY <1>1, <1>2, HeadOK DEF StepOK
        <2> QED BY <2>1, <2>2 DEF VisitInv, Visiting
    <1>5. sid \in DOMAIN sessions => Fresh(sessions[sid])
        BY <1>1, <1>2, <1>4 DEF Landing, Visits
    <1>6. ASSUME NEW at, NEW d
          PROVE  Trip(Cascade(at, d), sid)
        <2>1. tail \in {<<>>, <<EscalateParentOp(sid)>>}
            OBVIOUS
        <2> HIDE DEF tail
        <2> QED BY <2>1, CascadeTrip
    <1>7. sid \in DOMAIN sessions => Trip(rest, sid)
        <2> SUFFICES ASSUME sid \in DOMAIN sessions
                     PROVE  Trip(rest, sid)
            OBVIOUS
        <2>1. WellFormed(wf) /\ o.at \in StepIds(wf)
            BY <1>1, <1>2, <1>4, WorkflowLoaded DEF Fits, IInv, StoreOK
        <2>2. step \in Range(wf.steps)
            BY <2>1, FoundStep
        <2>3. next \in Places(wf)
            BY <2>1, <2>2, DefaultIsPlace
        <2>4. landing.step # Null
            BY <2>1, <2>3, LandingIsPlace, PlacesAreSteps
        <2>5. PICK p : p = Proceed(o.cont, sid, wf, landing.step, data)
            OBVIOUS
        <2>6. Trip(p, sid)
            BY <1>4, <2>4, <2>5, ProceedTrip
        <2> QED BY <1>6, <2>5, <2>6
    <1> HIDE DEF Cascade, rest, data, next, landing, tail
    <1>8. CASE Do(t, Cascade(o.at, o.data)) /\ UnchangedStore
        <2>1. PICK plan : plan = Cascade(o.at, o.data)
            OBVIOUS
        <2>2. Trip(plan, sid) /\ Do(t, plan)
            BY <1>6, <1>8, <2>1
        <2> QED BY <1>1, <1>2, <1>5, <1>8, <2>2, StillKeeps, RestingHead, VisitsTrip
    <1>9. CASE WriteRow(t, "auto_execute", [sessions[sid] EXCEPT !["step_visit_counts"] = v], rest)
        <2>1. PICK plan, new : /\ plan = rest
                               /\ new = [sessions[sid] EXCEPT !["step_visit_counts"] = v]
            OBVIOUS
        <2>2. /\ sid \in DOMAIN sessions /\ sessions' = [sessions EXCEPT ![sid] = new]
              /\ Do(t, plan)
            BY <1>1, <1>9, <2>1, WriteRowEffect
        <2>3. RowOK(sessions[sid])
            BY <2>2 DEF IInv, StoreOK
        <2>4. /\ WorkflowOf(new) = WorkflowOf(sessions[sid])
              /\ new.current_step = sessions[sid].current_step
              /\ new.step_visit_counts = v
            BY <2>1, <2>3, VisitedRow
        <2>5. Fresh(new)
            <3>1. o.at \in StepIds(WorkflowOf(sessions[sid])) /\ step.kind = "mcp"
                  /\ wf = WorkflowOf(sessions[sid])
                BY <1>1, <1>2, <1>4, <2>2 DEF Fits, Sound
            <3>2. o.at \notin ClientSteps(WorkflowOf(sessions[sid]))
                BY <2>3, <3>1, NotClient
            <3> QED BY <1>5, <2>2, <2>4, <3>2, OtherVisited
        <2>6. /\ DOMAIN sessions' = DOMAIN sessions /\ sessions'[sid] = new
              /\ \A s \in DOMAIN sessions \ {sid} : sessions'[s] = sessions[s]
            BY <2>2
        <2>7. RowOK(new)
            <3>1. RowOK(sessions[sid])'
                BY <2>2, <2>6 DEF StoreOK
            <3> QED BY <2>6, <3>1 DEF RowOK
        <2>8. Visiting(plan)'
            <3>1. Trip(plan, sid)
                BY <1>7, <2>1, <2>2
            <3>2. sid \in DOMAIN sessions' => RowOK(sessions[sid])' /\ Fresh(sessions[sid])'
                BY <2>5, <2>6, <2>7 DEF Fresh
            <3> QED BY <3>1, <3>2, TripVisiting
        <2>9. ASSUME NEW s \in DOMAIN sessions'
              PROVE  Rested(sessions'[s], sessions'[s].current_step)
            <3>1. CASE s = sid
                BY <2>5, <2>6, <2>7, <3>1, FreshRested
            <3>2. CASE s # sid
                <4>1. s \in DOMAIN sessions /\ sessions'[s] = sessions[s] /\ ~Lands(Head(th[t]), s)
                    BY <1>1, <1>2, <2>6, <3>2 DEF Lands
                <4> QED BY <1>4, <4>1 DEF Settling
            <3> QED BY <3>1, <3>2
        <2>10. Settling(plan)'
            BY <2>9 DEF Settling, Rested
        <2> QED BY <1>2, <2>2, <2>8, <2>10, VisitsOn
    <1> QED BY <1>3, <1>8, <1>9

---------------------------------------------------------------------------
(***************************************************************************)
(* Every step, and the theorem.                                            *)
(***************************************************************************)
LEMMA WorkVisits ==
    ASSUME OneThread, GuardedLoops, NoReturn, IInv, StoreOK', VisitInv, NEW t \in Thread, Work(t)
    PROVE  VisitInv'
    <1>1. CASE DecideSubmitStep(t) BY <1>1, DecideSubmitStepVisits
    <1>2. CASE DecideReviseStep(t) BY <1>2, DecideReviseStepVisits
    <1>3. CASE DecideEnterSubWorkflow(t) BY <1>3, DecideEnterSubWorkflowVisits
    <1>4. CASE DecidePushFlow(t) BY <1>4, DecidePushFlowVisits
    <1>5. CASE DecidePopFlow(t) BY <1>5, DecidePopFlowVisits
    <1>6. CASE DecideAutoResume(t) BY <1>6, DecideAutoResumeVisits
    <1>7. CASE DecideEscalateParent(t) BY <1>7, DecideEscalateParentVisits
    <1>8. CASE TransactUpdateSession(t) BY <1>8, UpdateSessionVisits
    <1>9. CASE TransactIncrementVisit(t) BY <1>9, IncrementVisitVisits
    <1>10. CASE TransactIncrementRetry(t) BY <1>10, IncrementRetryVisits
    <1>11. CASE TransactSetEscalation(t)
        <2>1. WriteRow(t, "set_escalation",
                       [sessions[Head(th[t]).sid] EXCEPT !["escalation"] = TRUE], Tail(th[t]))
            BY <1>11 DEF TransactSetEscalation
        <2> QED BY <2>1, ColumnVisits
    <1>12. CASE TransactInvalidateSteps(t)
        <2>1. PICK o, v : o = Head(th[t]) /\ v = Without(sessions[o.sid].step_data, o.steps)
            OBVIOUS
        <2>2. WriteRow(t, "invalidate_steps",
                       [sessions[Head(th[t]).sid] EXCEPT !["step_data"] = v], Tail(th[t]))
            BY <1>12, <2>1 DEF TransactInvalidateSteps
        <2> QED BY <2>2, ColumnVisits
    <1>13. CASE TransactStoreArtifact(t)
        <2>1. PICK o, v :
                 /\ o = Head(th[t])
                 /\ v = sessions[o.sid].artifact_checkpoints \cup {<<o.step, o.art>>}
            OBVIOUS
        <2>2. WriteRow(t, "store_artifact",
                       [sessions[Head(th[t]).sid] EXCEPT !["artifact_checkpoints"] = v], Tail(th[t]))
            BY <1>13, <2>1 DEF TransactStoreArtifact
        <2> QED BY <2>2, ColumnVisits
    <1>14. CASE TransactSetCalledSession(t) BY <1>14, FramesVisit
    <1>15. CASE TransactClearCalledSession(t) BY <1>15, FramesVisit
    <1>16. CASE TransactDeleteSession(t) BY <1>16, DeleteVisits
    <1>17. CASE \E evicted \in SUBSET Sid : TransactCreateSession(t, evicted)
        BY <1>17, CreateSessionVisits
    <1>18. CASE \E envelope \in Envelope : AutoExecute(t, envelope)
        BY <1>18, AutoExecuteVisits
    <1>19. CASE RowGone(t) BY <1>19, RowGoneVisits
    <1> QED BY <1>1, <1>2, <1>3, <1>4, <1>5, <1>6, <1>7, <1>8, <1>9, <1>10, <1>11, <1>12,
               <1>13, <1>14, <1>15, <1>16, <1>17, <1>18, <1>19 DEF Work

LEMMA NextVisits ==
    ASSUME OneThread, GuardedLoops, NoReturn, IInv, StoreOK', VisitInv, [Next]_vars
    PROVE  VisitInv'
    <1>1. CASE UNCHANGED vars
        <2>1. UNCHANGED <<sessions, restarts, th>>
            BY <1>1 DEF vars
        <2>2. ASSUME NEW o, Landing(o)
              PROVE  Landing(o)'
            BY <2>1, <2>2 DEF Landing, Lands, Visits, Rested, Fresh
        <2>3. ASSUME NEW t \in Thread
              PROVE  Visiting(th[t])' /\ Settling(th[t])'
            <3>1. PICK q : q = th[t] /\ q = th'[t]
                BY <2>1
            <3>2. Visiting(q) /\ Settling(q)
                BY <3>1 DEF VisitInv
            <3>3. Visiting(q)'
                BY <2>1, <2>2, <3>2 DEF Visiting, StandsAt, Lands
            <3>4. Settling(q)'
                BY <2>1, <3>2 DEF Settling, Rested, Lands
            <3> QED BY <3>1, <3>3, <3>4
        <2> QED BY <2>1, <2>3 DEF VisitInv
    <1>2. CASE \E t \in Thread : Call(t) \/ Work(t)
        BY <1>2, CallsVisit, WorkVisits
    <1>3. CASE Restart
        BY <1>3 DEF Restart, VisitInv, NoReturn
    <1> QED BY <1>1, <1>2, <1>3 DEF Next

LEMMA InitVisits == Init => VisitInv
    <1> SUFFICES ASSUME Init PROVE VisitInv
        OBVIOUS
    <1>1. restarts = 0 /\ DOMAIN sessions = {} /\ \A t \in Thread : th[t] = <<>>
        BY DEF Init
    <1>2. Visiting(<<>>)
        BY Empty DEF Visiting, Arrives
    <1>3. Settling(<<>>)
        BY <1>1 DEF Settling
    <1> QED BY <1>1, <1>2, <1>3 DEF VisitInv

LEMMA RestedStops ==
    ASSUME OneThread, GuardedLoops, IInv, VisitInv
    PROVE  RevisitGuardStopsLoops
    <1> SUFFICES ASSUME NEW s \in DOMAIN sessions,
                        NEW g \in RevisitGuards(WorkflowOf(sessions[s])),
                        NEW x \in ClientSteps(WorkflowOf(sessions[s]))
                 PROVE  Count(sessions[s].step_visit_counts, x) <= g.max
        BY DEF RevisitGuardStopsLoops, RevisitGuards, ClientSteps
    <1>1. PICK t : t \in Thread
        BY DEF VisitInv
    <1>2. \E at : Rested(sessions[s], at)
        <2>1. CASE Rested(sessions[s], sessions[s].current_step)
            BY <2>1
        <2>2. CASE th[t] # <<>> /\ Lands(Head(th[t]), s)
            <3>1. PICK o : o = Head(th[t])
                OBVIOUS
            <3>2. o \in Range(th[t])
                BY <1>1, <2>2, <3>1, HeadAndTail DEF IInv, ThreadsOK, WorkOK
            <3>3. Landing(o) /\ Lands(o, s) /\ o.sid = s
                BY <1>1, <2>2, <3>1, <3>2 DEF VisitInv, Visiting, Lands
            <3> QED BY <3>3 DEF Landing
        <2> QED BY <1>1, <2>1, <2>2 DEF VisitInv, Settling
    <1>3. g.max \in Nat \ {0}
        BY LimitsPositive DEF IInv, StoreOK
    <1>4. PICK n : n = Count(sessions[s].step_visit_counts, x)
        OBVIOUS
    <1>5. n \in 0..g.max
        BY <1>2, <1>4 DEF Rested
    <1> QED BY <1>3, <1>4, <1>5

\* One call at a time, no revise_step and no restart, and in every workflow the
\* guardrails before and at a revisit guard escalate: no step of a client is
\* visited more often than the guard allows, although the visit, the move and
\* the comparison are steps of their own, and a branch, a skipped step, an
\* executed step or a sub-workflow that ends may bring a session back.
THEOREM GuardedLoopsStop ==
    ASSUME OneThread, GuardedLoops, NoReturn
    PROVE  Spec => []RevisitGuardStopsLoops
    <1>1. IInv /\ IInv' /\ VisitInv /\ [Next]_vars => VisitInv'
        BY NextVisits DEF IInv
    <1>2. IInv /\ VisitInv => RevisitGuardStopsLoops
        BY RestedStops
    <1> QED BY <1>1, <1>2, InitVisits, Invariant, PTL DEF Spec

---------------------------------------------------------------------------
(***************************************************************************)
(* Order.  In a linear workflow a session gets past a step that has no     *)
(* precondition only with data for it.  The exception is a call-step       *)
(* revised ahead of the pointer, which revise_step allows while a frame is *)
(* above: it does not arise where a workflow has one call-step at most,    *)
(* first or second, and digressions stand on no such workflow.  A restart  *)
(* between the two transactions of a revision leaves the session beyond    *)
(* steps whose data it has dropped.                                        *)
(***************************************************************************)

\* Null, the None of the code, is no dict.
NullIsNoDict == Null # [x \in DOMAIN Null |-> Null[x]]

LeadingCall(wf) ==
    \A i, j \in DOMAIN wf.steps :
       wf.steps[i].kind = "call" => i <= 2 /\ (wf.steps[j].kind = "call" => i = j)
OrderlyRevisions ==
    Revising => /\ MaxRestarts = 0
                /\ "push_flow" \notin Tools \/ CallFree
                /\ \A w \in Workflow : \A v \in Version(w) : LeadingCall(Definition[w][v])

\* All steps before `at` that nothing lets a session skip are among ids.
Full(ids, wf, at) ==
    \A i \in DOMAIN wf.steps :
       i < Place(wf, at) /\ wf.steps[i].precondition = Null => wf.steps[i].id \in ids
InOrder(row) ==
    row.current_step # WORKFLOW_CHANGED =>
       Full(DOMAIN row.step_data, WorkflowOf(row), row.current_step)

\* A session that could be revised to any of its call-steps.
CallsReady(row) ==
    LET wf == WorkflowOf(row)
    IN  \A i \in DOMAIN wf.steps :
           wf.steps[i].kind = "call" => Full(DOMAIN row.step_data, wf, wf.steps[i].id)

\* A mover takes no data away and leads to a place with all before it there.
Gathered(o, wf, at, known) ==
    LET brought == IF o.data # Null THEN DOMAIN o.data ELSE known
    IN  Mover(o) => /\ o.op = "auto_execute" => o.data # Null
                    /\ known \subseteq brought
                    /\ ~Marks(o) => Full(brought, wf, Goal(o, at))

\* The last operation of a revision, and the plans that still owe it.
Returns(u, s) ==
    /\ u.op = "update_session" /\ u.sid = s
    /\ u.step \notin {Null, WORKFLOW_CHANGED, COMPLETE} /\ u.data = Null
Revision == {"invalidate_steps", "delete_session", "clear_called_session", "update_session"}
Owed(q, s) ==
    /\ Revising
    /\ \E u \in Range(q) : Returns(u, s)
    /\ \A o \in Range(q) : /\ o.op \in Revision
                           /\ o.sid = s \/ (o.op = "delete_session" /\ o.tolerant)

\* What a revision drops lies neither before its target nor before a call-step.
Spares(o, wf, q) ==
    \A id \in o.steps :
       /\ \A u \in Range(q) : Mover(u) => FindStep(wf, u.step) <= FindStep(wf, id)
       /\ \A i \in DOMAIN wf.steps : wf.steps[i].kind = "call" => i <= FindStep(wf, id)

StepOrderly(q, o) ==
    /\ o.sid \in DOMAIN sessions =>
          LET row == sessions[o.sid]
          IN  /\ Gathered(o, WorkflowOf(row), row.current_step, DOMAIN row.step_data)
              /\ o.op = "invalidate_steps" => Spares(o, WorkflowOf(row), q)
              /\ o.op = "enter_sub_workflow" => o.row = row
    /\ o.op = "invalidate_steps" =>
          Owed(q, o.sid) /\ \A u \in Range(q) : Mover(u) => Returns(u, o.sid)
    /\ o.op = "revise_step" => Revising
    /\ o.op = "push_flow" => "push_flow" \in Tools

\* A thread that is about to create a session and then does `rest`.
BirthOrderly(c, rest) ==
    /\ InOrder(c.row)
    /\ \A o \in Range(rest) :
          /\ o.op # "invalidate_steps"
          /\ o.sid = c.sid => Gathered(o, WorkflowOf(c.row), c.row.current_step,
                                       DOMAIN c.row.step_data)
    /\ Revising /\ c.row.parent_session_id \in DOMAIN sessions =>
          CallsReady(sessions[c.row.parent_session_id])

Orderly(q) ==
    /\ \A o \in Range(q) : StepOrderly(q, o)
    /\ q # <<>> /\ Head(q).op = "create_session" => BirthOrderly(Head(q), Tail(q))

RootsReady ==
    Revising => \A f \in DOMAIN stack :
                   stack[f].root \in DOMAIN sessions => CallsReady(sessions[stack[f].root])
RowsInOrder ==
    \A s \in DOMAIN sessions : InOrder(sessions[s]) \/ \E t \in Thread : Owed(th[t], s)

OrderInv ==
    /\ Revising => restarts = 0
    /\ RootsReady /\ RowsInOrder
    /\ \A t \in Thread : Orderly(th[t])
---------------------------------------------------------------------------
(***************************************************************************)
(* Steps that are all there.                                               *)
(***************************************************************************)
LEMMA FullMore ==
    ASSUME NEW wf, NEW at, NEW ids, NEW more, Full(ids, wf, at), ids \subseteq more
    PROVE  Full(more, wf, at)
    BY DEF Full

LEMMA FullLess ==
    ASSUME NEW wf, Straight(wf), NEW ids, NEW a, NEW b, Full(ids, wf, b),
           Place(wf, a) <= Place(wf, b)
    PROVE  Full(ids, wf, a)
    <1>1. Place(wf, a) \in Nat /\ Place(wf, b) \in Nat /\ DOMAIN wf.steps \subseteq Nat
        BY Placement DEF Straight, WellFormed
    <1> QED BY <1>1 DEF Full

LEMMA FullNext ==
    ASSUME NEW wf, Straight(wf), NEW at \in StepIds(wf), NEW ids, Full(ids, wf, at), at \in ids,
           NEW target, Place(wf, target) = FindStep(wf, at) + 1
    PROVE  Full(ids, wf, target)
    <1> SUFFICES ASSUME NEW i \in DOMAIN wf.steps, i < Place(wf, target),
                        wf.steps[i].precondition = Null
                 PROVE  wf.steps[i].id \in ids
        BY DEF Full
    <1>1. /\ Place(wf, at) = FindStep(wf, at) /\ FindStep(wf, at) \in Nat /\ i \in Nat
          /\ wf.steps[FindStep(wf, at)].id = at
        BY Placement, FoundStep DEF Straight, WellFormed, StepAt
    <1>2. CASE i = FindStep(wf, at)
        BY <1>1, <1>2
    <1>3. CASE i < FindStep(wf, at)
        BY <1>1, <1>3 DEF Full
    <1> QED BY <1>1, <1>2, <1>3

\* The skip loop passes over nothing but steps with a precondition.
LEMMA FullLanding ==
    ASSUME NEW wf, Straight(wf), NEW from \in Places(wf), NEW data, NEW forced,
           NEW ids, Full(ids, wf, from)
    PROVE  Full(ids, wf, ApplySkipLoop(wf, from, data, forced).step)
    <1> DEFINE i == FindStep(wf, from)
               base == ComputeSkipped(wf, data)
               Verdict(k) == EvaluatePrecondition(wf.steps[k].precondition, data,
                                 base \cup {wf.steps[j].id : j \in i..(k - 1)})
               stops == {k \in i..Len(wf.steps) : Verdict(k) # "skip"}
    <1>0. /\ Len(wf.steps) \in Nat /\ DOMAIN wf.steps = 1..Len(wf.steps)
          /\ Place(wf, COMPLETE) = Len(wf.steps) + 1
        BY Placement DEF Straight, WellFormed
    <1>1. ASSUME NEW k \in i..Len(wf.steps), k \notin stops
          PROVE  wf.steps[k].precondition # Null
        BY <1>1 DEF EvaluatePrecondition
    <1>2. CASE forced \/ from = COMPLETE
        <2>1. ApplySkipLoop(wf, from, data, forced).step = from
            BY <1>2 DEF ApplySkipLoop, Complete, COMPLETE
        <2> QED BY <2>1
    <1>3. CASE ~(forced \/ from = COMPLETE) /\ stops = {}
        <2>1. ApplySkipLoop(wf, from, data, forced).step = COMPLETE
            BY <1>3 DEF ApplySkipLoop, Complete, COMPLETE
        <2>2. i \in 1..Len(wf.steps) /\ Place(wf, from) = i
            BY <1>3, FoundStep DEF Places, Straight, Place
        <2>3. ASSUME NEW k \in DOMAIN wf.steps, wf.steps[k].precondition = Null
              PROVE  wf.steps[k].id \in ids
            <3>1. k \notin i..Len(wf.steps)
                BY <1>1, <1>3, <2>3
            <3>2. k < i
                BY <1>0, <2>2, <3>1
            <3> QED BY <2>2, <2>3, <3>2 DEF Full
        <2> HIDE DEF stops, i
        <2> QED BY <2>1, <2>3 DEF Full
    <1>4. CASE ~(forced \/ from = COMPLETE) /\ stops # {}
        <2>1. i \in 1..Len(wf.steps) /\ Place(wf, from) = i
            BY <1>4, FoundStep DEF Places, Straight, Place
        <2>2. stops \in SUBSET Nat /\ stops \subseteq i..Len(wf.steps)
            BY <1>0, <2>1
        <2>3. PICK m : m = Min(stops)
            OBVIOUS
        <2>4. m \in stops /\ \A k \in stops : m <= k
            BY <2>2, <2>3, <1>4, LeastElement DEF Min
        <2>5. ApplySkipLoop(wf, from, data, forced).step = wf.steps[m].id
            BY <1>4, <2>3 DEF ApplySkipLoop, Complete, COMPLETE
        <2>6. m \in 1..Len(wf.steps) /\ Place(wf, wf.steps[m].id) = m
            BY <1>0, <2>1, <2>2, <2>4, Placement
        <2>7. ASSUME NEW k \in DOMAIN wf.steps, k < m, wf.steps[k].precondition = Null
              PROVE  wf.steps[k].id \in ids
            <3> HIDE DEF stops, i
            <3>1. k \notin stops
                BY <2>4, <2>6, <2>7, <1>0
            <3>2. k \notin i..Len(wf.steps)
                BY <1>1, <2>7, <3>1
            <3>3. k < i
                BY <1>0, <2>1, <3>2
            <3> QED BY <2>1, <2>7, <3>3 DEF Full
        <2> HIDE DEF stops, i
        <2> QED BY <2>5, <2>6, <2>7 DEF Full
    <1> QED BY <1>2, <1>3, <1>4

LEMMA PutIsDict ==
    ASSUME NullIsNoDict, NEW f, NEW k, NEW v
    PROVE  Put(f, k, v) # Null
    <1> DEFINE g == Put(f, k, v)
    <1>1. g = [x \in DOMAIN g |-> g[x]]
        BY DEF Put
    <1> HIDE DEF g
    <1>2. g # Null
        BY <1>1 DEF NullIsNoDict
    <1> QED BY <1>2 DEF g

---------------------------------------------------------------------------
(***************************************************************************)
(* The plans of the tools.                                                 *)
(***************************************************************************)
Special == Drawing \cup {"revise_step", "invalidate_steps"}

\* A plan that moves sid, at `at` in wf with data for known, in order.
Gathers(plan, sid, wf, at, known) ==
    /\ IsSeq(plan)
    /\ \A o \in Range(plan) :
          o.op \notin Special /\ (Mover(o) => o.sid = sid /\ Gathered(o, wf, at, known))

\* A plan that moves nothing.
Rests(plan) ==
    /\ IsSeq(plan)
    /\ \A o \in Range(plan) : o.op \notin Special /\ (Mover(o) => Marks(o) /\ o.data = Null)

LEMMA GathersOrderly ==
    ASSUME NEW plan, NEW sid, NEW wf, NEW at, NEW known, Gathers(plan, sid, wf, at, known),
           sid \in DOMAIN sessions' =>
              /\ WorkflowOf(sessions'[sid]) = wf /\ sessions'[sid].current_step = at
              /\ DOMAIN sessions'[sid].step_data = known
    PROVE  Orderly(plan)'
    <1>1. ASSUME NEW o \in Range(plan) PROVE StepOrderly(plan, o)'
        <2>1. o.op \notin Special /\ (Mover(o) => o.sid = sid /\ Gathered(o, wf, at, known))
            BY <1>1 DEF Gathers
        <2>2. o.sid \in DOMAIN sessions' =>
                 Gathered(o, WorkflowOf(sessions'[o.sid]), sessions'[o.sid].current_step,
                          DOMAIN sessions'[o.sid].step_data)
            BY <2>1 DEF Gathered
        <2> QED BY <2>1, <2>2 DEF StepOrderly, Special, Drawing
    <1>2. plan # <<>> => Head(plan).op # "create_session"
        BY HeadInRange DEF Gathers, Special, Drawing
    <1> QED BY <1>1, <1>2 DEF Orderly

LEMMA RestsOrderly ==
    ASSUME NEW plan, Rests(plan)
    PROVE  Orderly(plan)'
    <1>1. ASSUME NEW o \in Range(plan) PROVE StepOrderly(plan, o)'
        <2>1. o.op \notin Special /\ (Mover(o) => Marks(o) /\ o.data = Null)
            BY <1>1 DEF Rests
        <2> QED BY <2>1 DEF StepOrderly, Special, Drawing, Gathered, Marks
    <1>2. plan # <<>> => Head(plan).op # "create_session"
        BY HeadInRange DEF Rests, Special, Drawing
    <1> QED BY <1>1, <1>2 DEF Orderly

\* Operations that move nothing.
Side(o) == ~Mover(o) /\ o.op \notin Special

LEMMA SideOps ==
    ASSUME NEW s, NEW step, NEW wf, NEW data, NEW x
    PROVE  /\ Side(VisitOp(s, step)) /\ Side(HandoffOp(s, wf, data))
           /\ Side(EscalateParentOp(s)) /\ Side(EscalateOp(s)) /\ Side(DeleteOp(s, x))
           /\ Side(ArtifactOp(s, step, x)) /\ Side(RetryOp(s, step, x)) /\ Side(ClearOp(s))
    <1>1. PICK a, b, c, d, e, f, g, h :
             /\ a = VisitOp(s, step) /\ b = HandoffOp(s, wf, data)
             /\ c = EscalateParentOp(s) /\ d = EscalateOp(s) /\ e = DeleteOp(s, x)
             /\ f = ArtifactOp(s, step, x) /\ g = RetryOp(s, step, x) /\ h = ClearOp(s)
        OBVIOUS
    <1>2. \A o \in {a, b, c, d, e, f, g, h} : Side(o)
        BY <1>1 DEF VisitOp, HandoffOp, EscalateParentOp, EscalateOp, DeleteOp, ArtifactOp,
               RetryOp, ClearOp, Side, Mover, Special, Drawing
    <1> QED BY <1>1, <1>2

LEMMA SideOne ==
    ASSUME NEW o, Side(o)
    PROVE  /\ Rests(<<o>>)
           /\ \A sid, wf, at, known : Gathers(<<o>>, sid, wf, at, known)
    BY One DEF Side, Rests, Gathers

LEMMA SideNone ==
    /\ Rests(<<>>)
    /\ \A sid, wf, at, known : Gathers(<<>>, sid, wf, at, known)
    BY Empty DEF Rests, Gathers

LEMMA GathersJoined ==
    ASSUME NEW p, NEW q, NEW sid, NEW wf, NEW at, NEW known,
           Gathers(p, sid, wf, at, known), Gathers(q, sid, wf, at, known)
    PROVE  Gathers(p \o q, sid, wf, at, known)
    <1>1. IsSeq(p \o q) /\ Range(p \o q) = Range(p) \cup Range(q)
        BY Joined DEF Gathers
    <1> QED BY <1>1 DEF Gathers

LEMMA UpdateGathers ==
    ASSUME NEW sid, NEW wf, NEW at, NEW known, NEW to, NEW data, data # Null,
           known \subseteq DOMAIN data,
           Full(DOMAIN data, wf, IF to = Null THEN at ELSE to)
    PROVE  Gathers(<<UpdateOp(sid, to, data)>>, sid, wf, at, known)
    <1>1. PICK o : o = UpdateOp(sid, to, data)
        OBVIOUS
    <1>2. o.op = "update_session" /\ o.sid = sid /\ o.step = to /\ o.data = data
        BY <1>1 DEF UpdateOp
    <1>3. Gathered(o, wf, at, known) /\ o.op \notin Special
        BY <1>2 DEF Gathered, Goal, Special, Drawing
    <1>4. Gathers(<<o>>, sid, wf, at, known)
        BY <1>2, <1>3, One DEF Gathers
    <1> QED BY <1>1, <1>4

LEMMA AutoGathers ==
    ASSUME NEW sid, NEW wf, NEW at, NEW known, NEW cont, NEW to, NEW data,
           data # Null, known \subseteq DOMAIN data, Full(DOMAIN data, wf, to)
    PROVE  Gathers(<<AutoOp(cont, sid, wf, to, data)>>, sid, wf, at, known)
    <1>1. PICK o : o = AutoOp(cont, sid, wf, to, data)
        OBVIOUS
    <1>2. o.op = "auto_execute" /\ o.sid = sid /\ o.at = to /\ o.data = data
        BY <1>1 DEF AutoOp
    <1>3. Gathered(o, wf, at, known) /\ o.op \notin Special
        BY <1>2 DEF Gathered, Goal, Special, Drawing
    <1>4. Gathers(<<o>>, sid, wf, at, known)
        BY <1>2, <1>3, One DEF Gathers
    <1> QED BY <1>1, <1>4

LEMMA ArriveGathers ==
    ASSUME NEW cont \in Conts, NEW sid, NEW wf, NEW at, NEW known, NEW to, to # Null,
           NEW data, data # Null, known \subseteq DOMAIN data, Full(DOMAIN data, wf, to)
    PROVE  Gathers(Arrive(cont, sid, wf, to, data), sid, wf, at, known)
    <1> DEFINE visit  == IF to = COMPLETE THEN <<>> ELSE <<VisitOp(sid, to)>>
               update == <<UpdateOp(sid, to, data)>>
               resume == IF to = COMPLETE THEN <<HandoffOp(sid, wf, data)>> ELSE <<>>
               OK(p)  == Gathers(p, sid, wf, at, known)
    <1>1. OK(visit) /\ OK(resume)
        BY SideOps, SideOne, SideNone
    <1>2. OK(update)
        BY UpdateGathers
    <1> HIDE DEF visit, update, resume
    <1>3. OK(visit \o update) /\ OK(update \o visit)
        BY <1>1, <1>2, GathersJoined
    <1>4. OK(visit \o update \o resume)
        BY <1>1, <1>3, GathersJoined
    <1>5. CASE cont = "start"
        BY <1>3, <1>5 DEF Arrive, visit, update
    <1>6. CASE cont = "submit"
        BY <1>4, <1>6 DEF Arrive, visit, update, resume
    <1>7. CASE cont = "advance"
        BY <1>3, <1>7 DEF Arrive, visit, update
    <1> QED BY <1>5, <1>6, <1>7 DEF Conts

LEMMA ProceedGathers ==
    ASSUME NEW cont \in Conts, NEW sid, NEW wf, NEW at, NEW known, NEW to, to # Null,
           NEW data, data # Null, known \subseteq DOMAIN data, Full(DOMAIN data, wf, to)
    PROVE  Gathers(Proceed(cont, sid, wf, to, data), sid, wf, at, known)
    BY ArriveGathers, AutoGathers DEF Proceed

\* A step that has its data is behind a session that is in order.
LEMMA StepTaken ==
    ASSUME NullIsNoDict, NEW wf, Straight(wf), NEW at \in StepIds(wf), NEW old,
           Full(DOMAIN old, wf, at), NEW v, NEW data, data = Put(old, at, v),
           NEW target \in Places(wf), Place(wf, target) = FindStep(wf, at) + 1
    PROVE  /\ data # Null /\ DOMAIN old \subseteq DOMAIN data
           /\ Full(DOMAIN data, wf, at) /\ Full(DOMAIN data, wf, target)
           /\ target # Null
           /\ \A forced :
                 LET to == ApplySkipLoop(wf, target, data, forced).step
                 IN  to # Null /\ Full(DOMAIN data, wf, to)
    <1>1. data # Null /\ DOMAIN data = DOMAIN old \cup {at}
        BY PutIsDict, PutDomain
    <1>2. Full(DOMAIN data, wf, at)
        BY <1>1, FullMore
    <1>3. Full(DOMAIN data, wf, target)
        BY <1>1, <1>2, FullNext
    <1>4. \A place \in Places(wf) : place # Null
        BY WorkflowsAssumption DEF Straight, WellFormed, Places
    <1>5. ASSUME NEW forced
          PROVE  LET to == ApplySkipLoop(wf, target, data, forced).step
                 IN  to # Null /\ Full(DOMAIN data, wf, to)
        BY <1>3, <1>4, FullLanding, LandingIsPlace DEF Straight
    <1> QED BY <1>1, <1>2, <1>3, <1>4, <1>5

LEMMA AcceptGathers ==
    ASSUME NullIsNoDict, NEW sid, NEW row, NEW wf, wf = WorkflowOf(row), Straight(wf),
           NEW at, at = row.current_step, at \in StepIds(wf), NEW step, step = StepAt(wf, at),
           Full(DOMAIN row.step_data, wf, at), NEW content, NEW branch
    PROVE  Gathers(AcceptPlan(sid, row, step, content, branch), sid, wf, at, DOMAIN row.step_data)
    <1> DEFINE data      == Put(row.step_data, step.id, content)
               guardrail == EvaluateGuardrails(wf, content, data,
                                               Count(row.step_visit_counts, step.id))
               target    == BranchTarget(wf, step, branch, guardrail)
               landing   == ApplySkipLoop(wf, target, data, ForceBranched(guardrail))
               OK(p)     == Gathers(p, sid, wf, at, DOMAIN row.step_data)
               escalate  == <<EscalateOp(sid), UpdateOp(sid, Null, data), EscalateParentOp(sid)>>
    <1>1. WellFormed(wf) /\ step \in Range(wf.steps) /\ step.id = at
        BY FoundStep DEF Straight
    <1>2. guardrail \in Range(wf.guardrails) \cup {Null}
        BY <1>1, GuardrailFound
    <1>3. target \in Places(wf) \cup {Null}
        BY <1>1, <1>2, TargetIsPlace
    <1>4. Place(wf, target) = FindStep(wf, at) + 1
        BY <1>1, <1>2, BranchFurther
    <1>5. /\ data # Null /\ DOMAIN row.step_data \subseteq DOMAIN data
          /\ Full(DOMAIN data, wf, at)
        <2>1. data # Null /\ DOMAIN data = DOMAIN row.step_data \cup {step.id}
            BY PutIsDict, PutDomain
        <2> HIDE DEF data
        <2> QED BY <2>1, FullMore
    <1>6. target # Null => landing.step # Null /\ Full(DOMAIN data, wf, landing.step)
        <2>1. data = Put(row.step_data, at, content)
            BY <1>1
        <2>2. PICK forced : forced = ForceBranched(guardrail)
            OBVIOUS
        <2> HIDE DEF data, target, guardrail
        <2>3. ASSUME target # Null
              PROVE  LET to == ApplySkipLoop(wf, target, data, forced).step
                     IN  to # Null /\ Full(DOMAIN data, wf, to)
            BY <1>3, <1>4, <2>1, <2>3, StepTaken
        <2> QED BY <2>2, <2>3
    <1> HIDE DEF data, guardrail, target, landing
    <1>7. target # Null => OK(Proceed("submit", sid, wf, landing.step, data))
        BY <1>5, <1>6, ProceedGathers DEF Conts
    <1>8. OK(escalate)
        <2>1. PICK a, u, c : /\ a = EscalateOp(sid) /\ u = UpdateOp(sid, Null, data)
                             /\ c = EscalateParentOp(sid)
            OBVIOUS
        <2>2. OK(<<a>>) /\ OK(<<u>>) /\ OK(<<c>>)
            BY <1>5, <2>1, SideOps, SideOne, UpdateGathers
        <2>3. IsSeq(<<a, u, c>>) /\ Range(<<a, u, c>>) = {a, u, c}
            BY Three
        <2>4. OK(<<a, u, c>>)
            BY <2>2, <2>3, One DEF Gathers
        <2> QED BY <2>1, <2>4
    <1>9. OK(<<EscalateParentOp(sid)>>) /\ OK(<<>>)
        BY SideOps, SideOne, SideNone
    <1>10. AcceptPlan(sid, row, step, content, branch) =
              IF guardrail # Null /\ guardrail.action = "escalate" THEN escalate
              ELSE IF target = Null THEN <<>>
              ELSE IF landing.cascade THEN <<EscalateParentOp(sid)>>
              ELSE Proceed("submit", sid, wf, landing.step, data)
        BY DEF AcceptPlan, data, guardrail, target, landing
    <1> HIDE DEF escalate
    <1>11. OK(AcceptPlan(sid, row, step, content, branch))
        BY <1>7, <1>8, <1>9, <1>10
    <1> QED BY <1>11

LEMMA SubmitGathers ==
    ASSUME NullIsNoDict, NEW sid, NEW row, NEW wf, wf = WorkflowOf(row), Straight(wf),
           NEW at, at = row.current_step, at \in StepIds(wf),
           Full(DOMAIN row.step_data, wf, at), NEW content, NEW branch, NEW art
    PROVE  Gathers(SubmitPlan(sid, row, content, branch, art), sid, wf, at, DOMAIN row.step_data)
    <1> DEFINE step       == StepAt(wf, at)
               checkpoint == IF art \in step.checkpoints
                             THEN <<ArtifactOp(sid, step.id, art)>> ELSE <<>>
               accept     == AcceptPlan(sid, row, step, content, branch)
               retry      == <<RetryOp(sid, step.id, step.max_retries)>>
               OK(p)      == Gathers(p, sid, wf, at, DOMAIN row.step_data)
    <1>1. OK(accept)
        BY AcceptGathers
    <1>2. OK(checkpoint) /\ OK(<<>>) /\ OK(retry)
        BY SideOps, SideOne, SideNone
    <1>3. SubmitPlan(sid, row, content, branch, art) =
              IF TopFrames(stack, sid) # {} \/ step.kind = "call" THEN <<>>
              ELSE IF step.artifacts # {}
              THEN IF art \notin step.artifacts \/ content \notin ValidContent THEN <<>>
                   ELSE IF art = step.output_from THEN checkpoint \o accept
                   ELSE checkpoint
              ELSE IF step.output_schema /\ content \notin ValidContent THEN retry
              ELSE accept
        BY DEF SubmitPlan
    <1> HIDE DEF step, checkpoint, accept, retry
    <1>4. OK(checkpoint \o accept)
        BY <1>1, <1>2, GathersJoined
    <1>5. OK(SubmitPlan(sid, row, content, branch, art))
        BY <1>1, <1>2, <1>3, <1>4
    <1> QED BY <1>5

LEMMA AdvanceGathers ==
    ASSUME NullIsNoDict, NEW parent, NEW wf, Straight(wf), NEW at \in StepIds(wf), NEW old,
           Full(DOMAIN old, wf, at), NEW v
    PROVE  Gathers(AdvancePlan(parent, wf, StepAt(wf, at), Put(old, at, v)), parent, wf, at,
                   DOMAIN old)
    <1> DEFINE step    == StepAt(wf, at)
               data    == Put(old, at, v)
               target  == DefaultTarget(wf, step)
               landing == ApplySkipLoop(wf, target, data, FALSE)
    <1>1. step \in Range(wf.steps) /\ step.id = at /\ WellFormed(wf)
        BY FoundStep DEF Straight
    <1>2. target \in Places(wf) /\ Place(wf, target) = FindStep(wf, at) + 1
        BY <1>1, DefaultIsPlace, DefaultFurther
    <1>3. /\ data # Null /\ DOMAIN old \subseteq DOMAIN data
          /\ landing.step # Null /\ Full(DOMAIN data, wf, landing.step)
        BY <1>2, StepTaken
    <1> HIDE DEF step, data, target, landing
    <1>4. Gathers(Proceed("advance", parent, wf, landing.step, data), parent, wf, at, DOMAIN old)
        BY <1>3, ProceedGathers DEF Conts
    <1>5. Gathers(<<>>, parent, wf, at, DOMAIN old)
        BY SideNone
    <1>6. AdvancePlan(parent, wf, step, data) =
              IF landing.cascade THEN <<>>
              ELSE Proceed("advance", parent, wf, landing.step, data)
        BY DEF AdvancePlan, landing, target
    <1>7. Gathers(AdvancePlan(parent, wf, step, data), parent, wf, at, DOMAIN old)
        BY <1>4, <1>5, <1>6
    <1> QED BY <1>7 DEF step, data

LEMMA PropagateGathers ==
    ASSUME NullIsNoDict, NEW child, NEW childWf, NEW childData, NEW parent, NEW row,
           row = sessions[parent], NEW wf, wf = WorkflowOf(row), Straight(wf),
           NEW at, at = row.current_step, at \in StepIds(wf) => Full(DOMAIN row.step_data, wf, at)
    PROVE  Gathers(PropagatePlan(child, childWf, childData, parent), parent, wf, at,
                   DOMAIN row.step_data)
    <1> DEFINE artifact == Artifact(childWf, childData)
               advance  == AdvancePlan(parent, wf, StepAt(wf, at), Put(row.step_data, at, artifact))
               unlink   == <<DeleteOp(child, FALSE), ClearOp(parent)>>
               OK(p)    == Gathers(p, parent, wf, at, DOMAIN row.step_data)
    <1>1. at \in StepIds(wf) => OK(advance)
        BY AdvanceGathers
    <1>2. OK(unlink)
        <2>1. PICK d, c : d = DeleteOp(child, FALSE) /\ c = ClearOp(parent)
            OBVIOUS
        <2>2. OK(<<d>>) /\ OK(<<c>>)
            BY <2>1, SideOps, SideOne
        <2>3. IsSeq(<<d, c>>) /\ Range(<<d, c>>) = {d, c}
            BY Two
        <2>4. OK(<<d, c>>)
            BY <2>2, <2>3, One DEF Gathers
        <2> QED BY <2>1, <2>4
    <1>3. OK(<<EscalateOp(parent)>>) /\ OK(<<EscalateParentOp(child)>>)
        BY SideOps, SideOne
    <1>4. PropagatePlan(child, childWf, childData, parent) =
              IF at \notin StepIds(wf) \/ StepAt(wf, at).kind # "call"
              THEN <<EscalateOp(parent)>>
              ELSE IF StepAt(wf, at).output_schema /\ artifact \notin ValidContent
              THEN <<EscalateParentOp(child)>>
              ELSE unlink \o advance
        BY DEF PropagatePlan
    <1> HIDE DEF artifact, advance, unlink
    <1>5. at \in StepIds(wf) => OK(unlink \o advance)
        BY <1>1, <1>2, GathersJoined
    <1>6. OK(PropagatePlan(child, childWf, childData, parent))
        BY <1>3, <1>4, <1>5
    <1> QED BY <1>6

LEMMA CascadeGathers ==
    ASSUME NEW sid, NEW wf, NEW at, NEW known, NEW to, to # Null, NEW data, data # Null,
           known \subseteq DOMAIN data, Full(DOMAIN data, wf, to), NEW cont
    PROVE  Gathers(<<UpdateOp(sid, to, data)>>
                      \o IF cont = "submit" THEN <<EscalateParentOp(sid)>> ELSE <<>>,
                   sid, wf, at, known)
    <1> DEFINE tail == IF cont = "submit" THEN <<EscalateParentOp(sid)>> ELSE <<>>
    <1>1. Gathers(tail, sid, wf, at, known)
        BY SideOps, SideOne, SideNone
    <1>2. Gathers(<<UpdateOp(sid, to, data)>>, sid, wf, at, known)
        BY UpdateGathers
    <1> HIDE DEF tail
    <1>3. Gathers(<<UpdateOp(sid, to, data)>> \o tail, sid, wf, at, known)
        BY <1>1, <1>2, GathersJoined
    <1> QED BY <1>3 DEF tail

---------------------------------------------------------------------------
(***************************************************************************)
(* Steps.                                                                  *)
(***************************************************************************)
RowsHold ==
    /\ DOMAIN sessions' \subseteq DOMAIN sessions
    /\ \A s \in DOMAIN sessions' :
          /\ WorkflowOf(sessions'[s]) = WorkflowOf(sessions[s])
          /\ sessions'[s].current_step = sessions[s].current_step
          /\ DOMAIN sessions'[s].step_data = DOMAIN sessions[s].step_data
FramesHold ==
    DOMAIN stack' \subseteq DOMAIN stack /\ \A f \in DOMAIN stack' : stack'[f].root = stack[f].root

LEMMA OrderNext ==
    ASSUME OneThread, IInv, OrderInv, NEW t \in Thread, NEW plan, Do(t, plan), UNCHANGED restarts,
           Orderly(plan)', RootsReady',
           \A s \in DOMAIN sessions' : InOrder(sessions'[s]) \/ Owed(plan, s)
    PROVE  OrderInv'
    <1>1. DOMAIN th = Thread
        BY DEF IInv, ThreadsOK
    <1>2. th'[t] = plan /\ \A u \in Thread : u = t
        BY <1>1 DEF Do, OneThread
    <1>3. \A u \in Thread : Orderly(th[u])'
        BY <1>2
    <1>4. RowsInOrder'
        BY <1>2 DEF RowsInOrder
    <1> QED BY <1>3, <1>4 DEF OrderInv

LEMMA RootsStayReady ==
    ASSUME RootsReady, FramesHold, DOMAIN sessions' \subseteq DOMAIN sessions,
           \A s \in DOMAIN sessions' :
              Revising /\ CallsReady(sessions[s]) => CallsReady(sessions'[s])
    PROVE  RootsReady'
    BY DEF RootsReady, FramesHold

LEMMA HoldReady ==
    ASSUME RowsHold, NEW s \in DOMAIN sessions'
    PROVE  /\ InOrder(sessions[s]) => InOrder(sessions'[s])
           /\ CallsReady(sessions[s]) => CallsReady(sessions'[s])
    <1>1. PICK r1, r2 : r1 = sessions[s] /\ r2 = sessions'[s]
        OBVIOUS
    <1>2. /\ WorkflowOf(r2) = WorkflowOf(r1) /\ r2.current_step = r1.current_step
          /\ DOMAIN r2.step_data = DOMAIN r1.step_data
        BY <1>1 DEF RowsHold
    <1>3. InOrder(r1) => InOrder(r2)
        BY <1>2 DEF InOrder
    <1>4. CallsReady(r1) => CallsReady(r2)
        BY <1>2 DEF CallsReady
    <1> QED BY <1>1, <1>3, <1>4

\* A session is out of order only while a revision is under way.
LEMMA AllInOrder ==
    ASSUME OneThread, IInv, OrderInv, NEW t \in Thread,
           th[t] = <<>> \/ Head(th[t]).op \notin Revision,
           NEW s \in DOMAIN sessions
    PROVE  InOrder(sessions[s])
    <1> SUFFICES ASSUME NEW u \in Thread, Owed(th[u], s) PROVE FALSE
        BY DEF OrderInv, RowsInOrder
    <1>1. u = t /\ IsSeq(th[t])
        BY DEF OneThread, IInv, ThreadsOK, WorkOK
    <1>2. th[t] # <<>>
        BY <1>1, Empty DEF Owed
    <1>3. Head(th[t]) \in Range(th[t])
        BY <1>1, <1>2, HeadInRange
    <1> QED BY <1>1, <1>2, <1>3 DEF Owed

\* A new plan.
LEMMA OrderDecided ==
    ASSUME OneThread, IInv, OrderInv, NEW t \in Thread,
           th[t] = <<>> \/ Head(th[t]).op \notin Revision,
           NEW plan, Do(t, plan), UNCHANGED restarts, RowsHold, FramesHold, Orderly(plan)'
    PROVE  OrderInv'
    <1>1. RootsReady'
        BY HoldReady, RootsStayReady DEF RowsHold, OrderInv
    <1>2. \A s \in DOMAIN sessions' : InOrder(sessions'[s])
        BY AllInOrder, HoldReady DEF RowsHold
    <1> QED BY <1>1, <1>2, OrderNext

LEMMA StillHolds ==
    ASSUME UnchangedStore
    PROVE  RowsHold /\ FramesHold
    BY DEF UnchangedStore, RowsHold, FramesHold

\* What is left of a plan.
LEMMA OwedTail ==
    ASSUME NEW q, IsSeq(q), q # <<>>, NEW s, Owed(q, s), ~Mover(Head(q))
    PROVE  Owed(Tail(q), s)
    <1>1. PICK r : r = Tail(q)
        OBVIOUS
    <1>2. Range(r) \subseteq Range(q) /\ Range(q) \subseteq {Head(q)} \cup Range(r)
        BY <1>1, HeadAndTail
    <1>3. PICK u \in Range(q) : Returns(u, s)
        BY DEF Owed
    <1>4. u \in Range(r)
        BY <1>2, <1>3 DEF Returns, Mover
    <1>5. Owed(r, s)
        BY <1>2, <1>3, <1>4 DEF Owed
    <1> QED BY <1>1, <1>5

LEMMA MoverIsLast ==
    ASSUME NEW q, IsSeq(q), q # <<>>, Ordered(q), Mover(Head(q)), NEW o \in Range(Tail(q))
    PROVE  ~Mover(o) /\ ~Clearing(o)
    <1>1. /\ Len(q) \in Nat \ {0} /\ DOMAIN q = 1..Len(q) /\ Head(q) = q[1]
          /\ DOMAIN Tail(q) = 1..(Len(q) - 1)
          /\ \A i \in 1..(Len(q) - 1) : Tail(q)[i] = q[i + 1]
        BY DEF IsSeq
    <1>2. PICK i \in DOMAIN Tail(q) : Tail(q)[i] = o
        BY DEF Range
    <1>3. i + 1 \in DOMAIN q /\ 1 \in DOMAIN q /\ 1 < i + 1 /\ q[i + 1] = o
        BY <1>1, <1>2
    <1> QED BY <1>1, <1>3 DEF Ordered

\* What the operation h leaves of the rows: nothing but an invalidation takes
\* data away.
Lost(h, s) == IF h.op = "invalidate_steps" /\ h.sid = s THEN h.steps ELSE {}
RowsAfter(h) ==
    /\ DOMAIN sessions' \subseteq DOMAIN sessions
    /\ \A s \in DOMAIN sessions' :
          /\ WorkflowOf(sessions'[s]) = WorkflowOf(sessions[s])
          /\ ~Mover(h) => /\ sessions'[s].current_step = sessions[s].current_step
                          /\ DOMAIN sessions'[s].step_data =
                                DOMAIN sessions[s].step_data \ Lost(h, s)

LEMMA StillGathered ==
    ASSUME NEW q, Orderly(q), NEW h \in Range(q), ~Mover(h), RowsAfter(h),
           NEW o \in Range(q), o.sid \in DOMAIN sessions', LinearWorkflows, IInv
    PROVE  Gathered(o, WorkflowOf(sessions'[o.sid]), sessions'[o.sid].current_step,
                    DOMAIN sessions'[o.sid].step_data)
    <1>1. PICK row, wf, at, known, lost :
             /\ row = sessions[o.sid] /\ wf = WorkflowOf(row) /\ at = row.current_step
             /\ known = DOMAIN row.step_data /\ lost = Lost(h, o.sid)
        OBVIOUS
    <1>2. /\ o.sid \in DOMAIN sessions /\ WorkflowOf(sessions'[o.sid]) = wf
          /\ sessions'[o.sid].current_step = at
          /\ DOMAIN sessions'[o.sid].step_data = known \ lost
        BY <1>1 DEF RowsAfter
    <1>3. Gathered(o, wf, at, known) /\ Straight(wf)
        BY <1>1, <1>2, StraightRow DEF Orderly, StepOrderly, IInv, StoreOK
    <1>4. CASE lost = {} \/ ~Mover(o)
        BY <1>2, <1>3, <1>4 DEF Gathered
    <1>5. CASE lost # {} /\ Mover(o)
        <2>1. h.op = "invalidate_steps" /\ h.sid = o.sid /\ lost = h.steps
            BY <1>1, <1>5 DEF Lost
        <2>2. Returns(o, o.sid) /\ Spares(h, wf, q)
            BY <1>1, <1>2, <1>5, <2>1 DEF Orderly, StepOrderly
        <2>3. o.op = "update_session" /\ o.data = Null /\ Goal(o, at) = o.step /\ ~Marks(o)
            BY <2>2 DEF Returns, Goal, Marks
        <2>4. Full(known, wf, o.step)
            BY <1>3, <1>5, <2>3 DEF Gathered
        <2>5. Full(known \ lost, wf, o.step)
            <3> SUFFICES ASSUME NEW i \in DOMAIN wf.steps, i < Place(wf, o.step),
                                wf.steps[i].precondition = Null, wf.steps[i].id \in lost
                         PROVE  FALSE
                BY <2>4 DEF Full
            <3>1. FindStep(wf, o.step) <= FindStep(wf, wf.steps[i].id)
                BY <1>5, <2>1, <2>2 DEF Spares
            <3>2. i \in 1..Len(wf.steps) /\ FindStep(wf, wf.steps[i].id) = i
                BY <1>3, Numbered DEF Straight, WellFormed
            <3>3. o.step # COMPLETE
                BY <2>1, <2>2 DEF Returns
            <3>4. Place(wf, o.step) = FindStep(wf, o.step) /\ FindStep(wf, o.step) \in Nat
                BY <1>3, <3>3, Placement DEF Place
            <3> QED BY <3>1, <3>2, <3>4
        <2> QED BY <1>2, <2>3, <2>5 DEF Gathered
    <1> QED BY <1>4, <1>5

\* The rest of a plan, its first operation done.
LEMMA TailOrderly ==
    ASSUME LinearWorkflows, IInv, NEW q, WorkOK(q), Ordered(q), Orderly(q), q # <<>>,
           NEW h, h = Head(q), h.op # "create_session", RowsAfter(h)
    PROVE  Orderly(Tail(q))'
    <1>1. PICK r : r = Tail(q)
        OBVIOUS
    <1>2. /\ IsSeq(q) /\ IsSeq(r) /\ h \in Range(q) /\ Range(r) \subseteq Range(q)
          /\ \A o \in Range(r) : o.op \notin Drawing
        BY <1>1, HeadAndTail DEF WorkOK
    <1>3. ASSUME NEW o \in Range(r), o.sid \in DOMAIN sessions'
          PROVE  Gathered(o, WorkflowOf(sessions'[o.sid]), sessions'[o.sid].current_step,
                          DOMAIN sessions'[o.sid].step_data)
        <2>1. CASE Mover(h)
            <3>1. ~Mover(o)
                BY <1>1, <1>2, <1>3, <2>1, MoverIsLast
            <3> QED BY <3>1 DEF Gathered
        <2>2. CASE ~Mover(h)
            BY <1>2, <1>3, <2>2, StillGathered
        <2> QED BY <2>1, <2>2
    <1>4. ASSUME NEW o \in Range(r), o.op = "invalidate_steps"
          PROVE  /\ Owed(r, o.sid) /\ \A u \in Range(r) : Mover(u) => Returns(u, o.sid)
                 /\ o.sid \in DOMAIN sessions' =>
                       Spares(o, WorkflowOf(sessions'[o.sid]), r)
        <2>1. StepOrderly(q, o)
            BY <1>2 DEF Orderly
        <2>2. ~Mover(h)
            BY <1>1, <1>2, <1>4, MoverIsLast DEF Clearing
        <2>3. Owed(r, o.sid)
            BY <1>1, <1>2, <1>4, <2>1, <2>2, OwedTail DEF StepOrderly
        <2>4. \A u \in Range(r) : Mover(u) => Returns(u, o.sid)
            BY <1>2, <1>4, <2>1 DEF StepOrderly
        <2>5. ASSUME o.sid \in DOMAIN sessions'
              PROVE  Spares(o, WorkflowOf(sessions'[o.sid]), r)
            <3>1. PICK wf : wf = WorkflowOf(sessions[o.sid])
                OBVIOUS
            <3>2. o.sid \in DOMAIN sessions /\ WorkflowOf(sessions'[o.sid]) = wf
                BY <2>5, <3>1 DEF RowsAfter
            <3>3. Spares(o, wf, q)
                BY <1>4, <2>1, <3>1, <3>2 DEF StepOrderly
            <3>4. Spares(o, wf, r)
                BY <1>2, <3>3 DEF Spares
            <3> QED BY <3>2, <3>4
        <2> QED BY <2>3, <2>4, <2>5
    <1>5. ASSUME NEW o \in Range(r) PROVE StepOrderly(r, o)'
        <2>1. o.op = "revise_step" => Revising
            BY <1>2, <1>5 DEF Orderly, StepOrderly
        <2> QED BY <1>2, <1>3, <1>4, <1>5, <2>1 DEF StepOrderly, Drawing
    <1>6. r # <<>> => Head(r).op # "create_session"
        BY <1>2, HeadInRange DEF Drawing
    <1>7. Orderly(r)'
        BY <1>5, <1>6 DEF Orderly
    <1> QED BY <1>1, <1>7

\* A transaction that leaves every session where it is, with what it has.
LEMMA RestOrder ==
    ASSUME OneThread, LinearWorkflows, IInv, BehindInv, OrderInv, NEW t \in Thread,
           th[t] # <<>>, NEW h, h = Head(th[t]), h.op \notin {"create_session", "invalidate_steps"},
           ~Mover(h), RowsHold, FramesHold, Do(t, Tail(th[t])), UNCHANGED restarts
    PROVE  OrderInv'
    <1>1. PICK q : q = th[t]
        OBVIOUS
    <1>2. WorkOK(q) /\ IsSeq(q) /\ Ordered(q) /\ Orderly(q)
        BY <1>1 DEF IInv, ThreadsOK, WorkOK, BehindInv, Course, OrderInv
    <1>3. RowsAfter(h)
        BY DEF RowsAfter, RowsHold, Lost
    <1>4. Orderly(Tail(q))'
        BY <1>1, <1>2, <1>3, TailOrderly
    <1>5. RootsReady'
        BY HoldReady, RootsStayReady DEF RowsHold, OrderInv
    <1>6. ASSUME NEW s \in DOMAIN sessions'
          PROVE  InOrder(sessions'[s]) \/ Owed(Tail(q), s)
        <2>1. s \in DOMAIN sessions
            BY <1>6 DEF RowsHold
        <2>2. CASE InOrder(sessions[s])
            BY <1>6, <2>2, HoldReady
        <2>3. CASE Owed(q, s)
            BY <1>1, <1>2, <2>3, OwedTail
        <2> QED BY <1>1, <2>1, <2>2, <2>3 DEF OrderInv, RowsInOrder, OneThread
    <1> QED BY <1>1, <1>4, <1>5, <1>6, OrderNext

---------------------------------------------------------------------------
(***************************************************************************)
(* The transactions that leave every session where it is.                  *)
(***************************************************************************)
LEMMA ColumnHolds ==
    ASSUME IInv, NEW sid \in DOMAIN sessions, NEW v,
           NEW col \in {"retry_counts", "step_visit_counts", "artifact_checkpoints",
                        "updated_at", "escalation"},
           sessions' = [sessions EXCEPT ![sid] = [sessions[sid] EXCEPT ![col] = v]]
    PROVE  RowsHold
    <1>1. PICK row : row = [sessions[sid] EXCEPT ![col] = v]
        OBVIOUS
    <1>2. DOMAIN sessions[sid] = Column
        BY DEF IInv, StoreOK, RowOK
    <1>3. /\ SameWorkflow(sessions[sid], row) /\ row.current_step = sessions[sid].current_step
          /\ row.step_data = sessions[sid].step_data
        BY <1>1, <1>2 DEF Column, SameWorkflow
    <1>4. WorkflowOf(row) = WorkflowOf(sessions[sid])
        BY <1>3, SameWorkflowOf
    <1>5. /\ DOMAIN sessions' = DOMAIN sessions /\ sessions'[sid] = row
          /\ \A s \in DOMAIN sessions \ {sid} : sessions'[s] = sessions[s]
        BY <1>1
    <1> QED BY <1>3, <1>4, <1>5 DEF RowsHold

LEMMA FramesStay ==
    ASSUME UNCHANGED stack
    PROVE  FramesHold
    BY DEF FramesHold

LEMMA ColumnOrder ==
    ASSUME OneThread, LinearWorkflows, IInv, BehindInv, OrderInv, NEW t \in Thread, NEW v,
           NEW col \in {"retry_counts", "step_visit_counts", "artifact_checkpoints",
                        "updated_at", "escalation"},
           NEW name \in {"increment_visit", "set_escalation", "store_artifact"},
           WriteRow(t, name, [sessions[Head(th[t]).sid] EXCEPT ![col] = v], Tail(th[t]))
    PROVE  OrderInv'
    <1>1. PICK h : h = Head(th[t])
        OBVIOUS
    <1>2. /\ th[t] # <<>> /\ h.op = name /\ h.sid \in DOMAIN sessions
          /\ sessions' = [sessions EXCEPT ![h.sid] = [sessions[h.sid] EXCEPT ![col] = v]]
          /\ UNCHANGED <<stack, restarts>> /\ Do(t, Tail(th[t]))
        BY <1>1, WriteRowEffect
    <1>3. RowsHold /\ FramesHold
        BY <1>2, ColumnHolds, FramesStay
    <1>4. ~Mover(h) /\ h.op \notin {"create_session", "invalidate_steps"}
        BY <1>2 DEF Mover
    <1> QED BY <1>1, <1>2, <1>3, <1>4, RestOrder

LEMMA IncrementRetryOrder ==
    ASSUME OneThread, LinearWorkflows, IInv, BehindInv, OrderInv, NEW t \in Thread,
           TransactIncrementRetry(t)
    PROVE  OrderInv'
    <1>1. PICK o : o = Head(th[t])
        OBVIOUS
    <1>2. PICK v, row, col :
             /\ v = Increment(sessions[o.sid].retry_counts, o.step)
             /\ row = [sessions[o.sid] EXCEPT !.retry_counts = Increment(@, o.step)]
             /\ col = "retry_counts"
        OBVIOUS
    <1>3. row = [sessions[o.sid] EXCEPT ![col] = v]
        BY <1>2
    <1>4. PICK rest : /\ rest = IF row.retry_counts[o.step] >= o.max
                                THEN <<EscalateParentOp(o.sid)>> ELSE <<>>
                      /\ WriteRow(t, "increment_retry", row, rest)
        BY <1>1, <1>2 DEF TransactIncrementRetry
    <1>5. /\ o.sid \in DOMAIN sessions /\ UNCHANGED <<stack, restarts>> /\ Do(t, rest)
          /\ sessions' = [sessions EXCEPT ![o.sid] = row] /\ o.op = "increment_retry"
        BY <1>1, <1>4, WriteRowEffect
    <1>6. RowsHold /\ FramesHold
        BY <1>2, <1>3, <1>5, ColumnHolds, FramesStay
    <1>7. Rests(rest)
        BY <1>4, SideOps, SideOne, SideNone
    <1>8. Orderly(rest)'
        BY <1>7, RestsOrderly
    <1>9. Head(th[t]).op \notin Revision
        BY <1>1, <1>5 DEF Revision
    <1> QED BY <1>5, <1>6, <1>8, <1>9, OrderDecided

LEMMA TouchedHolds ==
    ASSUME IInv, NEW sid \in DOMAIN sessions,
           sessions' = [sessions EXCEPT ![sid].updated_at = Now]
    PROVE  RowsHold
    <1>1. PICK col : col = "updated_at"
        OBVIOUS
    <1>2. sessions' = [sessions EXCEPT ![sid] = [sessions[sid] EXCEPT ![col] = Now]]
        BY <1>1
    <1> QED BY <1>1, <1>2, ColumnHolds

LEMMA SettledHolds ==
    ASSUME Settled
    PROVE  FramesHold
    BY DEF Settled, FramesHold

LEMMA FramesOrder ==
    ASSUME OneThread, LinearWorkflows, IInv, SoloInv, BehindInv, OrderInv, NEW t \in Thread,
           TransactSetCalledSession(t) \/ TransactClearCalledSession(t)
    PROVE  OrderInv'
    <1>1. PICK o : o = Head(th[t])
        OBVIOUS
    <1>2. /\ th[t] # <<>> /\ o.op \in {"set_called_session", "clear_called_session"}
          /\ o.sid \in DOMAIN sessions /\ sessions' = [sessions EXCEPT ![o.sid].updated_at = Now]
          /\ Do(t, Tail(th[t])) /\ UNCHANGED restarts
        <2>1. CASE TransactSetCalledSession(t)
            BY <1>1, <2>1, TransactEffect DEF TransactSetCalledSession, LinkChild, db
        <2>2. CASE TransactClearCalledSession(t)
            BY <1>1, <2>2, TransactEffect DEF TransactClearCalledSession, UnlinkChild, db
        <2> QED BY <2>1, <2>2
    <1>3. RowsHold /\ FramesHold
        BY <1>2, TouchedHolds, SetCalledSettled, ClearCalledSettled, SettledHolds
    <1>4. ~Mover(o) /\ o.op \notin {"create_session", "invalidate_steps"}
        BY <1>2 DEF Mover
    <1> QED BY <1>1, <1>2, <1>3, <1>4, RestOrder

LEMMA DeleteOrder ==
    ASSUME OneThread, LinearWorkflows, IInv, SoloInv, BehindInv, OrderInv, NEW t \in Thread,
           TransactDeleteSession(t)
    PROVE  OrderInv'
    <1>1. PICK o : o = Head(th[t])
        OBVIOUS
    <1>2. th[t] # <<>> /\ o.op = "delete_session" /\ Do(t, Tail(th[t])) /\ UNCHANGED restarts
        BY <1>1 DEF TransactDeleteSession, Transact, Pending, UnchangedServer
    <1>3. Settled /\ \A s \in DOMAIN sessions' : sessions'[s] = sessions[s]
        BY DeleteSettled
    <1>4. RowsHold /\ FramesHold
        BY <1>3, SettledHolds DEF RowsHold, Settled
    <1>5. ~Mover(o) /\ o.op \notin {"create_session", "invalidate_steps"}
        BY <1>2 DEF Mover
    <1> QED BY <1>1, <1>2, <1>4, <1>5, RestOrder

\* A revision fails only where its own session is gone, and goes on where the
\* child is.
LEMMA RowGoneOrder ==
    ASSUME OneThread, LinearWorkflows, IInv, BehindInv, OrderInv, NEW t \in Thread, RowGone(t)
    PROVE  OrderInv'
    <1>1. PICK h : h = Head(th[t])
        OBVIOUS
    <1>2. /\ th[t] # <<>> /\ UnchangedStore /\ UNCHANGED restarts /\ h.sid \notin DOMAIN sessions
          /\ \/ Do(t, <<>>) /\ ~(h.op = "delete_session" /\ h.tolerant)
             \/ Do(t, Tail(th[t])) /\ h.op = "delete_session"
        BY <1>1 DEF RowGone, Idle, UnchangedServer
    <1>3. RowsHold /\ FramesHold
        BY <1>2, StillHolds
    <1>4. CASE Do(t, <<>>) /\ ~(h.op = "delete_session" /\ h.tolerant)
        <2>1. Orderly(<<>>)'
            BY SideNone, RestsOrderly
        <2>2. RootsReady'
            BY <1>3, HoldReady, RootsStayReady DEF RowsHold, OrderInv
        <2>3. ASSUME NEW s \in DOMAIN sessions' PROVE InOrder(sessions'[s])
            <3>1. s \in DOMAIN sessions
                BY <1>3, <2>3 DEF RowsHold
            <3>2. ~Owed(th[t], s)
                <4>1. h \in Range(th[t])
                    BY <1>1, <1>2, HeadInRange DEF IInv, ThreadsOK, WorkOK
                <4> QED BY <1>2, <1>4, <3>1, <4>1 DEF Owed
            <3>3. InOrder(sessions[s])
                BY <3>1, <3>2 DEF OrderInv, RowsInOrder, OneThread
            <3> QED BY <1>3, <2>3, <3>3, HoldReady
        <2> QED BY <1>2, <1>4, <2>1, <2>2, <2>3, OrderNext
    <1>5. CASE Do(t, Tail(th[t])) /\ h.op = "delete_session"
        <2>1. ~Mover(h) /\ h.op \notin {"create_session", "invalidate_steps"}
            BY <1>5 DEF Mover
        <2> QED BY <1>1, <1>2, <1>3, <1>5, <2>1, RestOrder
    <1> QED BY <1>2, <1>4, <1>5

---------------------------------------------------------------------------
(***************************************************************************)
(* The transactions that take data away or move a session.                 *)
(***************************************************************************)
LEMMA SparedReady ==
    ASSUME NEW wf, Straight(wf), NEW r1, NEW r2, WorkflowOf(r1) = wf, WorkflowOf(r2) = wf,
           NEW o, NEW q, Spares(o, wf, q), CallsReady(r1),
           DOMAIN r2.step_data = DOMAIN r1.step_data \ o.steps
    PROVE  CallsReady(r2)
    <1> SUFFICES ASSUME NEW i \in DOMAIN wf.steps, wf.steps[i].kind = "call",
                        NEW j \in DOMAIN wf.steps, j < Place(wf, wf.steps[i].id),
                        wf.steps[j].precondition = Null
                 PROVE  wf.steps[j].id \in DOMAIN r2.step_data
        BY DEF CallsReady, Full
    <1>1. wf.steps[j].id \in DOMAIN r1.step_data
        BY DEF CallsReady, Full
    <1>2. /\ WellFormed(wf) /\ Len(wf.steps) \in Nat
          /\ i \in 1..Len(wf.steps) /\ j \in 1..Len(wf.steps)
        BY DEF Straight, WellFormed
    <1>3. i \in Nat /\ j \in Nat
        BY <1>2
    <1>4. Place(wf, wf.steps[i].id) = i /\ FindStep(wf, wf.steps[j].id) = j
        BY <1>2, Placement, Numbered
    <1>5. wf.steps[j].id \in o.steps => i <= j
        BY <1>4 DEF Spares
    <1> QED BY <1>1, <1>3, <1>4, <1>5

\* A revision drops data, and goes back for it later.
LEMMA InvalidateStepsOrder ==
    ASSUME OneThread, LinearWorkflows, IInv, BehindInv, OrderInv, NEW t \in Thread,
           TransactInvalidateSteps(t)
    PROVE  OrderInv'
    <1>1. PICK o, q : o = Head(th[t]) /\ q = th[t]
        OBVIOUS
    <1>2. PICK data, row : /\ data = Without(sessions[o.sid].step_data, o.steps)
                           /\ row = [sessions[o.sid] EXCEPT !.step_data = data]
        OBVIOUS
    <1>3. WriteRow(t, "invalidate_steps", row, Tail(th[t]))
        BY <1>1, <1>2 DEF TransactInvalidateSteps
    <1>4. /\ q # <<>> /\ o.op = "invalidate_steps" /\ o.sid \in DOMAIN sessions
          /\ sessions' = [sessions EXCEPT ![o.sid] = row]
          /\ UNCHANGED <<stack, restarts>> /\ Do(t, Tail(q))
        BY <1>1, <1>3, WriteRowEffect
    <1>5. DOMAIN sessions[o.sid] = Column /\ Straight(WorkflowOf(sessions[o.sid]))
        BY <1>4, StraightRow DEF IInv, StoreOK, RowOK
    <1>6. /\ SameWorkflow(sessions[o.sid], row)
          /\ row.current_step = sessions[o.sid].current_step /\ row.step_data = data
        BY <1>2, <1>5 DEF Column, SameWorkflow
    <1>7. /\ DOMAIN row.step_data = DOMAIN sessions[o.sid].step_data \ o.steps
          /\ WorkflowOf(row) = WorkflowOf(sessions[o.sid])
        BY <1>2, <1>6, WithoutDomain, SameWorkflowOf
    <1>8. /\ DOMAIN sessions' = DOMAIN sessions /\ sessions'[o.sid] = row
          /\ \A s \in DOMAIN sessions \ {o.sid} : sessions'[s] = sessions[s]
        BY <1>4
    <1>9. WorkOK(q) /\ IsSeq(q) /\ Ordered(q) /\ Orderly(q) /\ o \in Range(q)
        BY <1>1, <1>4, HeadInRange DEF IInv, ThreadsOK, WorkOK, BehindInv, Course, OrderInv
    <1>10. ~Mover(o)
        BY <1>4 DEF Mover
    <1>11. RowsAfter(o)
        BY <1>4, <1>6, <1>7, <1>8 DEF RowsAfter, Lost
    <1>12. Orderly(Tail(q))'
        BY <1>1, <1>4, <1>9, <1>11, TailOrderly
    <1>13. Spares(o, WorkflowOf(sessions[o.sid]), q) /\ Owed(q, o.sid)
        BY <1>4, <1>9 DEF Orderly, StepOrderly
    <1>14. RootsReady'
        <2>1. CallsReady(sessions[o.sid]) => CallsReady(row)
            BY <1>5, <1>7, <1>13, SparedReady
        <2>2. \A s \in DOMAIN sessions' : CallsReady(sessions[s]) => CallsReady(sessions'[s])
            BY <1>8, <2>1
        <2> QED BY <1>4, <1>8, <2>2, FramesStay, RootsStayReady DEF OrderInv
    <1>15. ASSUME NEW s \in DOMAIN sessions'
           PROVE  InOrder(sessions'[s]) \/ Owed(Tail(q), s)
        <2>1. Owed(q, s) \/ InOrder(sessions'[s])
            BY <1>1, <1>8, <1>13 DEF OrderInv, RowsInOrder, OneThread
        <2> QED BY <1>1, <1>4, <1>9, <1>10, <2>1, OwedTail
    <1> QED BY <1>4, <1>12, <1>14, <1>15, OrderNext

\* The move itself.
LEMMA UpdateSessionOrder ==
    ASSUME OneThread, LinearWorkflows, IInv, BehindInv, OrderInv, NEW t \in Thread,
           TransactUpdateSession(t)
    PROVE  OrderInv'
    <1>1. PICK o, row, q : o = Head(th[t]) /\ row = sessions[o.sid] /\ q = th[t]
        OBVIOUS
    <1>2. WriteRow(t, "update_session", UpdatedRow(row, o), Tail(q))
        BY <1>1 DEF TransactUpdateSession, UpdatedRow
    <1>3. /\ q # <<>> /\ o.op = "update_session" /\ o.sid \in DOMAIN sessions
          /\ sessions' = [sessions EXCEPT ![o.sid] = UpdatedRow(row, o)]
          /\ UNCHANGED <<stack, restarts>> /\ Do(t, Tail(q))
        BY <1>1, <1>2, WriteRowEffect
    <1>4. RowOK(row) /\ WorkOK(q) /\ IsSeq(q) /\ Ordered(q) /\ Orderly(q) /\ o \in Range(q)
        BY <1>1, <1>3, HeadInRange
           DEF IInv, StoreOK, ThreadsOK, WorkOK, BehindInv, Course, OrderInv
    <1>5. PICK new, at, wf :
             new = UpdatedRow(row, o) /\ at = row.current_step /\ wf = WorkflowOf(row)
        OBVIOUS
    <1>6. /\ WorkflowOf(new) = wf
          /\ new.current_step = IF o.step = Null THEN at ELSE o.step
          /\ new.step_data = IF o.data = Null THEN row.step_data ELSE o.data
        BY <1>4, <1>5, UpdatedColumns, SameWorkflowOf
    <1>7. /\ DOMAIN sessions' = DOMAIN sessions /\ sessions'[o.sid] = new
          /\ \A s \in DOMAIN sessions \ {o.sid} : sessions'[s] = sessions[s]
        BY <1>3, <1>5
    <1>8. Mover(o)
        BY <1>3 DEF Mover
    <1>9. RowsAfter(o)
        BY <1>1, <1>5, <1>6, <1>7, <1>8 DEF RowsAfter
    <1>10. Orderly(Tail(q))'
        BY <1>1, <1>3, <1>4, <1>9, TailOrderly
    <1>11. Gathered(o, wf, at, DOMAIN row.step_data)
        BY <1>1, <1>3, <1>4, <1>5 DEF Orderly, StepOrderly
    <1>12. DOMAIN row.step_data \subseteq DOMAIN new.step_data
        BY <1>6, <1>8, <1>11 DEF Gathered
    <1>13. RootsReady'
        <2>1. CallsReady(row) => CallsReady(new)
            BY <1>5, <1>6, <1>12, FullMore DEF CallsReady
        <2>2. \A s \in DOMAIN sessions' : CallsReady(sessions[s]) => CallsReady(sessions'[s])
            BY <1>1, <1>7, <2>1
        <2> QED BY <1>3, <1>7, <2>2, FramesStay, RootsStayReady DEF OrderInv
    <1>14. InOrder(new)
        <2>1. CASE Marks(o)
            BY <1>6, <2>1, WorkflowsAssumption DEF Marks, InOrder
        <2>2. CASE ~Marks(o)
            <3>1. Full(DOMAIN new.step_data, wf, Goal(o, at))
                BY <1>6, <1>8, <1>11, <2>2 DEF Gathered
            <3>2. Goal(o, at) = new.current_step
                BY <1>3, <1>6 DEF Goal
            <3> QED BY <1>6, <3>1, <3>2 DEF InOrder
        <2> QED BY <2>1, <2>2
    <1>15. ASSUME NEW s \in DOMAIN sessions' PROVE InOrder(sessions'[s])
        <2>1. CASE s = o.sid
            BY <1>7, <1>14, <2>1
        <2>2. CASE s # o.sid
            <3>1. ~Owed(q, s)
                BY <1>3, <1>4, <2>2 DEF Owed
            <3> QED BY <1>1, <1>7, <1>15, <2>2, <3>1 DEF OrderInv, RowsInOrder, OneThread
        <2> QED BY <2>1, <2>2
    <1> QED BY <1>3, <1>10, <1>13, <1>15, OrderNext

LEMMA GoneOrderly ==
    ASSUME NEW plan, IsSeq(plan),
           \A o \in Range(plan) : o.op \notin Special /\ o.sid \notin DOMAIN sessions'
    PROVE  Orderly(plan)'
    <1>1. plan # <<>> => Head(plan).op # "create_session"
        BY HeadInRange DEF Special, Drawing
    <1> QED BY <1>1 DEF Orderly, StepOrderly, Special, Drawing

LEMMA AutoExecuteOrder ==
    ASSUME NullIsNoDict, OneThread, LinearWorkflows, IInv, OrderInv, NEW t \in Thread,
           NEW envelope, AutoExecute(t, envelope)
    PROVE  OrderInv'
    <1>1. PICK o, q : o = Head(th[t]) /\ q = th[t]
        OBVIOUS
    <1> DEFINE step    == StepAt(o.wf, o.at)
               data    == Put(o.data, o.at, envelope)
               next    == DefaultTarget(o.wf, step)
               landing == ApplySkipLoop(o.wf, next, data, FALSE)
               tail    == IF o.cont = "submit" THEN <<EscalateParentOp(o.sid)>> ELSE <<>>
               Cascade(at, d) == <<UpdateOp(o.sid, at, d)>> \o tail
               v       == Increment(sessions[o.sid].step_visit_counts, o.at)
               rest    == IF landing.cascade THEN Cascade(next, data)
                          ELSE Proceed(o.cont, o.sid, o.wf, landing.step, data)
    <1>2. q # <<>> /\ o.op = "auto_execute" /\ UNCHANGED restarts
        BY <1>1 DEF AutoExecute, Pending, WriteRow, Transact, UnchangedServer
    <1>3. \/ Do(t, Cascade(o.at, o.data)) /\ UnchangedStore
          \/ WriteRow(t, "auto_execute", [sessions[o.sid] EXCEPT !["step_visit_counts"] = v], rest)
        BY <1>1 DEF AutoExecute
    <1>4. /\ WorkOK(q) /\ Orderly(q) /\ Mover(o) /\ ~Marks(o) /\ o \in Range(q)
          /\ Head(th[t]).op \notin Revision
        BY <1>1, <1>2, HeadInRange
           DEF IInv, ThreadsOK, WorkOK, OrderInv, Mover, Marks, Revision
    <1>5. CASE o.sid \notin DOMAIN sessions
        <2>1. Do(t, Cascade(o.at, o.data)) /\ UnchangedStore
            BY <1>1, <1>3, <1>5 DEF WriteRow, Transact
        <2>2. PICK u, plan : u = UpdateOp(o.sid, o.at, o.data) /\ plan = <<u>> \o tail
            OBVIOUS
        <2>3. IsSeq(tail) /\ Range(tail) \subseteq {EscalateParentOp(o.sid)}
            BY One, Empty
        <2>4. IsSeq(<<u>>) /\ Range(<<u>>) = {u}
            BY One
        <2> HIDE DEF tail
        <2>5. IsSeq(plan) /\ Range(plan) \subseteq {u, EscalateParentOp(o.sid)}
            BY <2>2, <2>3, <2>4, Joined
        <2>6. \A p \in Range(plan) : p.op \notin Special /\ p.sid = o.sid
            BY <2>2, <2>5 DEF UpdateOp, EscalateParentOp, Special, Drawing
        <2>7. Orderly(plan)'
            BY <1>5, <2>1, <2>5, <2>6, GoneOrderly DEF UnchangedStore
        <2> QED BY <1>2, <1>4, <2>1, <2>2, <2>7, StillHolds, OrderDecided
    <1>6. CASE o.sid \in DOMAIN sessions
        <2>1. PICK row, wf, at, known :
                 /\ row = sessions[o.sid] /\ wf = WorkflowOf(row) /\ at = row.current_step
                 /\ known = DOMAIN row.step_data
            OBVIOUS
        <2>2. /\ RowOK(row) /\ o.wf = wf /\ o.cont \in Conts /\ o.at \in StepIds(wf)
              /\ Straight(wf)
            BY <1>1, <1>2, <1>6, <2>1, HeadOnRow, StraightRow DEF Fits, OpOK
        <2>3. o.data # Null /\ known \subseteq DOMAIN o.data /\ Full(DOMAIN o.data, wf, o.at)
            <3>1. Gathered(o, wf, at, known)
                BY <1>4, <1>6, <2>1 DEF Orderly, StepOrderly
            <3> QED BY <1>2, <1>4, <3>1 DEF Gathered, Goal
        <2>4. CASE Do(t, Cascade(o.at, o.data)) /\ UnchangedStore
            <3>1. o.at # Null
                BY <2>2, WorkflowsAssumption DEF Straight, WellFormed
            <3>2. PICK plan : plan = Cascade(o.at, o.data)
                OBVIOUS
            <3>3. Gathers(plan, o.sid, wf, at, known)
                BY <2>3, <3>1, <3>2, CascadeGathers
            <3> HIDE DEF Cascade
            <3>4. Orderly(plan)'
                BY <2>1, <2>4, <3>3, GathersOrderly DEF UnchangedStore
            <3> QED BY <1>2, <1>4, <2>4, <3>2, <3>4, StillHolds, OrderDecided
        <2>5. CASE WriteRow(t, "auto_execute", [sessions[o.sid] EXCEPT !["step_visit_counts"] = v], rest)
            <3>1. step \in Range(wf.steps) /\ step.id = o.at /\ WellFormed(wf)
                BY <2>2, FoundStep DEF Straight
            <3>2. next \in Places(wf) /\ Place(wf, next) = FindStep(wf, o.at) + 1
                BY <2>2, <3>1, DefaultIsPlace, DefaultFurther
            <3>3. /\ data # Null /\ DOMAIN o.data \subseteq DOMAIN data
                  /\ next # Null /\ Full(DOMAIN data, wf, next)
                  /\ landing.step # Null /\ Full(DOMAIN data, wf, landing.step)
                <4>1. PICK at2, old, d, n : at2 = o.at /\ old = o.data /\ d = data /\ n = next
                    OBVIOUS
                <4>2. d = Put(old, at2, envelope) /\ landing = ApplySkipLoop(wf, n, d, FALSE)
                    BY <2>2, <4>1
                <4> HIDE DEF data, next, landing
                <4>3. /\ d # Null /\ DOMAIN old \subseteq DOMAIN d
                      /\ n # Null /\ Full(DOMAIN d, wf, n)
                      /\ LET to == ApplySkipLoop(wf, n, d, FALSE).step
                         IN  to # Null /\ Full(DOMAIN d, wf, to)
                    BY <2>2, <2>3, <3>2, <4>1, <4>2, StepTaken
                <4> QED BY <4>1, <4>2, <4>3
            <3> HIDE DEF step, data, next, landing
            <3>4. Gathers(Cascade(next, data), o.sid, wf, at, known)
                BY <2>3, <3>3, CascadeGathers
            <3>5. Gathers(Proceed(o.cont, o.sid, o.wf, landing.step, data), o.sid, wf, at, known)
                BY <2>2, <2>3, <3>3, ProceedGathers
            <3>6. PICK plan : plan = rest
                OBVIOUS
            <3>7. Gathers(plan, o.sid, wf, at, known)
                BY <3>4, <3>5, <3>6
            <3> HIDE DEF Cascade, rest, v
            <3>8. /\ sessions' = [sessions EXCEPT ![o.sid] =
                                     [sessions[o.sid] EXCEPT !["step_visit_counts"] = v]]
                  /\ UNCHANGED stack /\ Do(t, plan)
                BY <1>1, <2>5, <3>6, WriteRowEffect
            <3>9. RowsHold /\ FramesHold
                BY <1>6, <3>8, ColumnHolds, FramesStay
            <3>10. o.sid \in DOMAIN sessions' =>
                      /\ WorkflowOf(sessions'[o.sid]) = wf /\ sessions'[o.sid].current_step = at
                      /\ DOMAIN sessions'[o.sid].step_data = known
                BY <2>1, <3>9 DEF RowsHold
            <3>11. Orderly(plan)'
                BY <3>7, <3>10, GathersOrderly
            <3> QED BY <1>2, <1>4, <3>8, <3>9, <3>11, OrderDecided
        <2> QED BY <1>3, <2>4, <2>5
    <1> QED BY <1>5, <1>6

\* A new session.  The root below it could be revised to its call-step.
LEMMA CreateSessionOrder ==
    ASSUME OneThread, IInv, OrderInv, NEW t \in Thread, NEW evicted,
           TransactCreateSession(t, evicted)
    PROVE  OrderInv'
    <1>1. PICK o, q, rest : o = Head(th[t]) /\ q = th[t] /\ rest = Tail(th[t])
        OBVIOUS
    <1>2. /\ q # <<>> /\ o.op = "create_session" /\ UNCHANGED restarts
          /\ \/ UnchangedStore /\ Do(t, <<>>)
             \/ /\ LET new == CreateSession(db, evicted, o.sid, o.row, o.type, o.call)
                   IN  sessions' = new.sessions /\ stack' = new.stack
                /\ minted' = minted \cup {o.sid} /\ Do(t, rest)
        BY <1>1 DEF TransactCreateSession, Pending, UnchangedServer
    <1>3. WorkOK(q) /\ CreateArgs(o) /\ Orderly(q) /\ BirthOrderly(o, rest)
        BY <1>1, <1>2, HeadOK DEF StepOK, OpOK, OrderInv, Orderly
    <1>4. o.sid \notin minted
        <2>1. o.sid \in Drawn(q)
            BY <1>1, <1>2 DEF Drawn, Drawing
        <2> QED BY <1>1, <2>1 DEF IInv, IdsOK
    <1>5. Head(th[t]).op \notin Revision
        BY <1>1, <1>2 DEF Revision
    <1>6. CASE UnchangedStore /\ Do(t, <<>>)
        <2>1. Orderly(<<>>)'
            BY SideNone, RestsOrderly
        <2> QED BY <1>2, <1>5, <1>6, <2>1, StillHolds, OrderDecided
    <1>7. CASE /\ LET new == CreateSession(db, evicted, o.sid, o.row, o.type, o.call)
                  IN  sessions' = new.sessions /\ stack' = new.stack
               /\ minted' = minted \cup {o.sid} /\ Do(t, rest)
        <2>1. /\ o.sid \in DOMAIN sessions' /\ sessions'[o.sid] = o.row
              /\ \A s \in DOMAIN sessions' \ {o.sid} :
                    s \in DOMAIN sessions /\ sessions'[s] = sessions[s]
            BY <1>3, <1>4, <1>7, CreatedStore DEF Inserted, IInv
        <2>2. ASSUME NEW s \in DOMAIN sessions' PROVE InOrder(sessions'[s])
            BY <1>3, <1>5, <2>1, AllInOrder DEF BirthOrderly
        <2>3. RootsReady'
            <3>1. PICK parent, kept, slot :
                     /\ parent = o.row.parent_session_id /\ kept = Without(stack, evicted)
                     /\ slot = ChildSlot(kept, parent)
                OBVIOUS
            <3>2. PICK frame : frame = [root |-> slot.root, depth |-> slot.depth,
                                        frame_type |-> o.type, call_step |-> o.call]
                OBVIOUS
            <3>3. stack' = IF parent = Null THEN kept ELSE Put(kept, o.sid, frame)
                BY <1>7, <3>1, <3>2 DEF CreateSession, DeleteSessions, InsertFrame, db
            <3>4. /\ DOMAIN kept \subseteq DOMAIN stack
                  /\ \A f \in DOMAIN kept : kept[f] = stack[f]
                BY <3>1 DEF Without, Restrict
            <3>5. \A f \in DOMAIN stack' :
                     \/ f \in DOMAIN stack /\ stack'[f].root = stack[f].root
                     \/ stack'[f].root = slot.root /\ parent # Null
                BY <3>2, <3>3, <3>4 DEF Put
            <3>6. \/ slot.root = parent
                  \/ \E f \in DOMAIN stack : slot.root = stack[f].root
                BY <3>1, <3>4 DEF ChildSlot
            <3>7. SUFFICES ASSUME Revising, NEW f \in DOMAIN stack',
                                  NEW r, r = stack'[f].root, r \in DOMAIN sessions'
                           PROVE  CallsReady(sessions'[r])
                BY DEF RootsReady
            <3>8. \/ \E g \in DOMAIN stack : r = stack[g].root
                  \/ r = parent /\ parent # Null
                BY <3>5, <3>6, <3>7
            <3>9. r \in minted
                BY <1>3, <3>1, <3>8 DEF IInv, StoreOK, CreateArgs
            <3>10. r \in DOMAIN sessions /\ sessions'[r] = sessions[r]
                BY <1>4, <2>1, <3>7, <3>9
            <3> QED BY <1>3, <3>1, <3>7, <3>8, <3>10 DEF OrderInv, RootsReady, BirthOrderly
        <2>4. /\ Range(rest) \subseteq Range(q) /\ IsSeq(rest)
              /\ \A p \in Range(rest) : p.op \notin Drawing
            BY <1>1, <1>2, <1>3, HeadAndTail DEF WorkOK
        <2>5. ASSUME NEW p \in Range(rest) PROVE StepOrderly(rest, p)'
            <3>1. StepOrderly(q, p) /\ p.op # "invalidate_steps"
                BY <1>3, <2>4, <2>5 DEF Orderly, BirthOrderly
            <3>2. p.sid \in DOMAIN sessions' =>
                     Gathered(p, WorkflowOf(sessions'[p.sid]), sessions'[p.sid].current_step,
                              DOMAIN sessions'[p.sid].step_data)
                <4>1. CASE p.sid = o.sid
                    BY <1>3, <2>1, <2>5, <4>1 DEF BirthOrderly
                <4>2. CASE p.sid # o.sid
                    BY <2>1, <3>1, <4>2 DEF StepOrderly
                <4> QED BY <4>1, <4>2
            <3> QED BY <2>4, <2>5, <3>1, <3>2 DEF StepOrderly, Drawing
        <2>6. rest # <<>> => Head(rest).op # "create_session"
            BY <2>4, HeadInRange DEF Drawing
        <2>7. Orderly(rest)'
            BY <2>5, <2>6 DEF Orderly
        <2> QED BY <1>2, <1>7, <2>2, <2>3, <2>7, OrderNext
    <1> QED BY <1>2, <1>6, <1>7

---------------------------------------------------------------------------
(***************************************************************************)
(* The decisions.                                                          *)
(***************************************************************************)
LEMMA DecideSubmitStepOrder ==
    ASSUME NullIsNoDict, OneThread, LinearWorkflows, IInv, BehindInv, OrderInv, NEW t \in Thread,
           DecideSubmitStep(t)
    PROVE  OrderInv'
    <1>1. PICK o : o = Head(th[t])
        OBVIOUS
    <1>2. PICK plan : /\ plan = SubmitPlan(o.sid, o.row, o.content, o.branch, o.art)
                      /\ Do(t, plan) /\ UnchangedStore /\ UNCHANGED restarts
        BY <1>1 DEF DecideSubmitStep, Decide, UnchangedServer
    <1>3. th[t] # <<>> /\ o.op = "submit_step"
        BY <1>1 DEF DecideSubmitStep, Pending
    <1>4. PICK row, wf, at :
             row = o.row /\ wf = WorkflowOf(row) /\ at = row.current_step
        OBVIOUS
    <1>5. /\ o.sid \in DOMAIN sessions /\ row = sessions[o.sid] /\ Straight(wf) /\ SnapshotOK(o)
        BY <1>1, <1>3, <1>4, SnapshotStands DEF Caller
    <1>6. at \in StepIds(wf)
        BY <1>3, <1>4, <1>5 DEF SnapshotOK
    <1>7. Head(th[t]).op \notin Revision
        BY <1>1, <1>3 DEF Revision
    <1>8. Full(DOMAIN row.step_data, wf, at)
        BY <1>4, <1>5, <1>6, <1>7, AllInOrder DEF InOrder, Straight, WellFormed
    <1>9. Gathers(plan, o.sid, wf, at, DOMAIN row.step_data)
        BY <1>2, <1>4, <1>5, <1>6, <1>8, SubmitGathers
    <1>10. Orderly(plan)'
        BY <1>2, <1>4, <1>5, <1>9, GathersOrderly DEF UnchangedStore
    <1> QED BY <1>2, <1>7, <1>10, StillHolds, OrderDecided

\* The operations of a revision of sid to step.
Revises(plan, sid, wf, step) ==
    /\ IsSeq(plan)
    /\ \E u \in Range(plan) : Returns(u, sid)
    /\ \A o \in Range(plan) :
          /\ o.op \in Revision
          /\ o.sid = sid \/ (o.op = "delete_session" /\ o.tolerant)
          /\ Mover(o) => Returns(o, sid) /\ o.step = step.id
          /\ o.op = "invalidate_steps" =>
                \/ o.steps = StepsAfter(wf, step.id)
                \/ step.kind = "call" /\ o.steps = {step.id}

LEMMA RevisePlanRevises ==
    ASSUME NEW sid, NEW wf, NEW step, step.id \notin {Null, WORKFLOW_CHANGED, COMPLETE}, NEW child,
           NEW plan, plan = RevisePlan(sid, wf, step, child)
    PROVE  Revises(plan, sid, wf, step)
    <1> DEFINE after    == StepsAfter(wf, step.id)
               unlink   == IF child = Null THEN <<>> ELSE <<DeleteOp(child, TRUE), ClearOp(sid)>>
               callStep == IF step.kind = "call"
                           THEN unlink \o <<InvalidateOp(sid, {step.id})>> ELSE <<>>
    <1>1. PICK i, c, d, k, u :
             /\ i = InvalidateOp(sid, after) /\ c = ClearOp(sid) /\ d = DeleteOp(child, TRUE)
             /\ k = InvalidateOp(sid, {step.id}) /\ u = UpdateOp(sid, step.id, Null)
        OBVIOUS
    <1>2. /\ i.op = "invalidate_steps" /\ i.sid = sid /\ i.steps = after
          /\ c.op = "clear_called_session" /\ c.sid = sid
          /\ d.op = "delete_session" /\ d.tolerant
          /\ k.op = "invalidate_steps" /\ k.sid = sid /\ k.steps = {step.id}
          /\ u.op = "update_session" /\ u.sid = sid /\ u.step = step.id /\ u.data = Null
        BY <1>1 DEF InvalidateOp, ClearOp, DeleteOp, UpdateOp
    <1>3. IsSeq(unlink) /\ Range(unlink) \subseteq {c, d}
        <2>1. unlink = <<>> \/ unlink = <<d, c>>
            BY <1>1
        <2> HIDE DEF unlink, after, callStep
        <2>2. IsSeq(<<d, c>>) /\ Range(<<d, c>>) = {d, c}
            BY Two
        <2> QED BY <2>1, <2>2, Empty
    <1>4. /\ IsSeq(<<k>>) /\ Range(<<k>>) = {k} /\ IsSeq(<<i>>) /\ Range(<<i>>) = {i}
          /\ IsSeq(<<u>>) /\ Range(<<u>>) = {u}
        BY One
    <1> HIDE DEF unlink
    <1>5. IsSeq(unlink \o <<k>>) /\ Range(unlink \o <<k>>) \subseteq {c, d, k}
        BY <1>3, <1>4, Joined
    <1>6. /\ IsSeq(callStep) /\ Range(callStep) \subseteq {c, d, k}
          /\ step.kind # "call" => Range(callStep) = {}
        BY <1>1, <1>5, Empty
    <1> HIDE DEF callStep, after
    <1>7. /\ IsSeq(<<i>> \o callStep)
          /\ Range(<<i>> \o callStep) = {i} \cup Range(callStep)
        BY <1>4, <1>6, Joined
    <1>8. plan = (<<i>> \o callStep) \o <<u>>
        BY <1>1 DEF RevisePlan, unlink, callStep, after
    <1>9. IsSeq(plan) /\ Range(plan) = {i, u} \cup Range(callStep)
        BY <1>4, <1>7, <1>8, Joined
    <1>10. Returns(u, sid) /\ u \in Range(plan)
        BY <1>2, <1>9 DEF Returns
    <1>11. ASSUME NEW o \in Range(plan)
           PROVE  /\ o.op \in Revision
                  /\ o.sid = sid \/ (o.op = "delete_session" /\ o.tolerant)
                  /\ Mover(o) => Returns(o, sid) /\ o.step = step.id
                  /\ o.op = "invalidate_steps" =>
                        \/ o.steps = StepsAfter(wf, step.id)
                        \/ step.kind = "call" /\ o.steps = {step.id}
        <2>1. o \in {i, u, c, d} \/ (step.kind = "call" /\ o = k)
            BY <1>6, <1>9, <1>11
        <2> QED BY <1>2, <1>10, <2>1 DEF Revision, Mover, after
    <1> QED BY <1>9, <1>10, <1>11 DEF Revises

LEMMA RevisesOrderly ==
    ASSUME Revising, NEW wf, Straight(wf), LeadingCall(wf), NEW sid \in DOMAIN sessions',
           WorkflowOf(sessions'[sid]) = wf, NEW id \in StepIds(wf), NEW step,
           step = StepAt(wf, id), Full(DOMAIN sessions'[sid].step_data, wf, id),
           NEW plan, Revises(plan, sid, wf, step)
    PROVE  Orderly(plan)'
    <1>1. /\ FindStep(wf, id) \in 1..Len(wf.steps) /\ step = wf.steps[FindStep(wf, id)]
          /\ step.id = id /\ Len(wf.steps) \in Nat /\ DOMAIN wf.steps = 1..Len(wf.steps)
        BY FoundStep, Numbered DEF Straight, StepAt, WellFormed
    <1>2. Owed(plan, sid)
        BY DEF Revises, Owed
    <1>3. ASSUME NEW o \in Range(plan), o.op = "invalidate_steps"
          PROVE  o.sid = sid /\ Spares(o, wf, plan)
        <2>1. \A u \in Range(plan) : Mover(u) => u.step = id
            BY <1>1 DEF Revises
        <2>2. ASSUME NEW x \in o.steps
              PROVE  /\ FindStep(wf, id) <= FindStep(wf, x)
                     /\ \A i \in DOMAIN wf.steps :
                           wf.steps[i].kind = "call" => i <= FindStep(wf, x)
            <3>1. CASE x \in StepsAfter(wf, id)
                <4>1. PICK j \in (FindStep(wf, id) + 1)..Len(wf.steps) : x = wf.steps[j].id
                    BY <3>1 DEF StepsAfter
                <4>2. FindStep(wf, x) = j /\ j \in Nat /\ 2 <= j /\ FindStep(wf, id) <= j
                    BY <1>1, <4>1, Numbered
                <4> QED BY <1>1, <4>2 DEF LeadingCall
            <3>2. CASE step.kind = "call" /\ x = id
                BY <1>1, <3>2 DEF LeadingCall
            <3> QED BY <1>1, <1>3, <2>2, <3>1, <3>2 DEF Revises
        <2> QED BY <1>3, <2>1, <2>2 DEF Spares, Revises
    <1>4. ASSUME NEW o \in Range(plan), Mover(o)
          PROVE  o.sid = sid /\ Returns(o, sid)
                 /\ \A at : Gathered(o, wf, at, DOMAIN sessions'[sid].step_data)
        <2>1. Returns(o, sid) /\ o.step = id
            BY <1>1, <1>4 DEF Revises
        <2> QED BY <2>1 DEF Returns, Gathered, Goal, Marks
    <1>5. ASSUME NEW o \in Range(plan) PROVE StepOrderly(plan, o)'
        <2>1. o.sid \in DOMAIN sessions' =>
                 Gathered(o, WorkflowOf(sessions'[o.sid]), sessions'[o.sid].current_step,
                          DOMAIN sessions'[o.sid].step_data)
            BY <1>4, <1>5 DEF Gathered
        <2>2. o.op \in Revision
            BY <1>5 DEF Revises
        <2> QED BY <1>2, <1>3, <1>4, <2>1, <2>2 DEF StepOrderly, Revision
    <1>6. plan # <<>> => Head(plan).op # "create_session"
        BY HeadInRange DEF Revises, Revision
    <1> QED BY <1>5, <1>6 DEF Orderly

LEMMA LeadsCalls ==
    ASSUME OrderlyRevisions, Revising, NEW row, RowOK(row)
    PROVE  LeadingCall(WorkflowOf(row))
    BY DEF OrderlyRevisions, RowOK, WorkflowOf

LEMMA DecideReviseStepOrder ==
    ASSUME OrderlyRevisions, OneThread, LinearWorkflows, IInv, BehindInv, OrderInv,
           NEW t \in Thread, DecideReviseStep(t)
    PROVE  OrderInv'
    <1>1. PICK o : o = Head(th[t])
        OBVIOUS
    <1> DEFINE children == TopFrames(stack, o.sid)
    <1>2. /\ th[t] # <<>> /\ o.op = "revise_step" /\ UnchangedStore /\ UNCHANGED restarts
          /\ Head(th[t]).op \notin Revision
        BY <1>1 DEF DecideReviseStep, Pending, Decide, UnchangedServer, Revision
    <1>3. PICK row, wf, at, step :
             /\ row = o.row /\ wf = WorkflowOf(row) /\ at = row.current_step
             /\ step = StepAt(wf, o.step)
        OBVIOUS
    <1>4. PICK child, plan :
              /\ Do(t, plan)
              /\ \/ plan = <<>>
                 \/ /\ plan = RevisePlan(o.sid, wf, step, child)
                    /\ o.sid \notin DOMAIN stack
                    /\ \/ o.step \in DOMAIN row.step_data
                       \/ step.kind = "call" /\ children # {}
        <2>1. PICK child \in IF children = {} THEN {Null} ELSE children :
                 Decide(t, IF /\ o.sid \notin DOMAIN stack
                              /\ \/ o.step \in DOMAIN row.step_data
                                 \/ step.kind = "call" /\ children # {}
                           THEN RevisePlan(o.sid, wf, step, child) ELSE <<>>)
            BY <1>1, <1>3 DEF DecideReviseStep
        <2> HIDE DEF children
        <2> QED BY <2>1 DEF Decide
    <1>5. CASE plan = <<>>
        <2>1. Orderly(plan)'
            BY <1>5, SideNone, RestsOrderly
        <2> QED BY <1>2, <1>4, <2>1, StillHolds, OrderDecided
    <1>6. CASE /\ plan = RevisePlan(o.sid, wf, step, child)
               /\ o.sid \notin DOMAIN stack
               /\ \/ o.step \in DOMAIN row.step_data
                  \/ step.kind = "call" /\ children # {}
        <2>1. /\ o.sid \in DOMAIN sessions /\ row = sessions[o.sid] /\ RowOK(row)
              /\ Straight(wf) /\ SnapshotOK(o) /\ Behind(row.step_data, wf, at)
            BY <1>1, <1>2, <1>3, SnapshotStands DEF Caller
        <2>2. o.step \in StepIds(wf)
            BY <1>2, <1>3, <2>1 DEF SnapshotOK
        <2>3. step.id = o.step /\ o.step \notin {Null, WORKFLOW_CHANGED, COMPLETE}
            BY <1>3, <2>1, <2>2, FoundStep DEF Straight, WellFormed, Linear
        <2>4. Revising
            <3>1. o \in Range(th[t]) /\ Orderly(th[t])
                BY <1>1, <1>2, HeadInRange DEF IInv, ThreadsOK, WorkOK, OrderInv
            <3> QED BY <1>2, <3>1 DEF Orderly, StepOrderly
        <2>5. LeadingCall(wf)
            BY <1>3, <2>1, <2>4, LeadsCalls
        <2>6. Full(DOMAIN row.step_data, wf, o.step)
            <3>1. CASE o.step \in DOMAIN row.step_data
                <4>1. at # WORKFLOW_CHANGED
                    BY <1>1, <1>2, <1>3, <2>1, SnapshotFits DEF Resolvable
                <4>2. Full(DOMAIN row.step_data, wf, at)
                    BY <1>2, <1>3, <2>1, <4>1, AllInOrder DEF InOrder
                <4>3. Place(wf, o.step) <= Place(wf, at)
                    BY <2>1, <2>2, <3>1, Placement DEF Behind
                <4> QED BY <2>1, <4>2, <4>3, FullLess
            <3>2. CASE step.kind = "call" /\ children # {}
                <4>1. PICK f \in DOMAIN stack : stack[f].root = o.sid
                    BY <1>6, <3>2 DEF TopFrames, ChildSlot, FramesAt
                <4>2. CallsReady(row)
                    BY <2>1, <2>4, <4>1 DEF OrderInv, RootsReady
                <4>3. /\ FindStep(wf, o.step) \in DOMAIN wf.steps
                      /\ wf.steps[FindStep(wf, o.step)] = step
                    BY <1>3, <2>1, <2>2, FoundStep DEF Straight, WellFormed, StepAt
                <4> QED BY <1>3, <2>3, <3>2, <4>2, <4>3 DEF CallsReady
            <3> QED BY <1>6, <3>1, <3>2
        <2>7. Revises(plan, o.sid, wf, step)
            BY <1>6, <2>3, RevisePlanRevises
        <2>8. Orderly(plan)'
            BY <1>2, <1>3, <2>1, <2>2, <2>4, <2>5, <2>6, <2>7, RevisesOrderly DEF UnchangedStore
        <2> QED BY <1>2, <1>4, <2>8, StillHolds, OrderDecided
    <1> HIDE DEF children
    <1> QED BY <1>4, <1>5, <1>6

\* A new session has nothing behind it.
LEMMA FreshInOrder ==
    ASSUME LinearWorkflows, LiveOK, NEW w \in Workflow, live[w] # Null, NEW parent
    PROVE  InOrder(NewRow(w, parent))
    <1>1. PICK row, wf : row = NewRow(w, parent) /\ wf = Definition[w][live[w]]
        OBVIOUS
    <1>2. /\ RowOK(row) /\ WorkflowOf(row) = wf /\ row.current_step = FirstStep(wf).id
        BY <1>1, FreshRow
    <1>3. Straight(wf)
        BY <1>2, StraightRow
    <1>4. Place(wf, row.current_step) = 1 /\ DOMAIN wf.steps \subseteq Nat \ {0}
        <2>1. 1 \in 1..Len(wf.steps) /\ Len(wf.steps) \in Nat
            BY <1>3 DEF Straight, WellFormed
        <2> QED BY <1>2, <1>3, <2>1, Placement DEF FirstStep, Straight, WellFormed
    <1>5. InOrder(row)
        BY <1>2, <1>4 DEF InOrder, Full
    <1> QED BY <1>1, <1>5

LEMMA CreationOrder ==
    ASSUME OneThread, IInv, OrderInv, NEW t \in Thread, Head(th[t]).op \notin Revision,
           UnchangedStore, UNCHANGED restarts, NEW q, Do(t, q), IsSeq(q), q # <<>>,
           NEW c, c = Head(q), InOrder(c.row),
           Revising /\ c.row.parent_session_id \in DOMAIN sessions =>
              CallsReady(sessions[c.row.parent_session_id]),
           \A o \in Range(q) : /\ ~Mover(o)
                               /\ o.op \notin {"revise_step", "invalidate_steps",
                                               "enter_sub_workflow", "push_flow"}
    PROVE  OrderInv'
    <1>1. \A o \in Range(q) : StepOrderly(q, o)'
        BY DEF StepOrderly, Gathered
    <1>2. Range(Tail(q)) \subseteq Range(q)
        BY HeadAndTail
    <1>3. BirthOrderly(c, Tail(q))'
        BY <1>2 DEF BirthOrderly, Gathered, UnchangedStore
    <1>4. Orderly(q)'
        BY <1>1, <1>3 DEF Orderly
    <1> QED BY <1>4, StillHolds, OrderDecided

\* The call-step a session stands on is the only one.
LEMMA DecideEnterSubWorkflowOrder ==
    ASSUME OrderlyRevisions, OneThread, LinearWorkflows, IInv, OrderInv, NEW t \in Thread,
           DecideEnterSubWorkflow(t)
    PROVE  OrderInv'
    <1>1. PICK o : o = Head(th[t])
        OBVIOUS
    <1> DEFINE step == StepAt(WorkflowOf(o.row), o.row.current_step)
    <1>2. PICK row, c, v, l :
             /\ row = NewRow(step.call, o.sid)
             /\ c = CreateOp(o.child, row, "call", Null, Null)
             /\ v = VisitOp(o.child, row.current_step)
             /\ l = LinkOp(o.sid, o.child, step.id)
        OBVIOUS
    <1>3. PICK q : /\ Do(t, q) /\ UnchangedStore /\ UNCHANGED restarts
                   /\ q = <<>> \/ (q = <<c, v, l>> /\ live[step.call] # Null)
        BY <1>1, <1>2 DEF DecideEnterSubWorkflow, Decide, UnchangedServer
    <1>4. /\ c.op = "create_session" /\ c.row = row
          /\ v.op = "increment_visit" /\ l.op = "set_called_session"
        BY <1>2 DEF CreateOp, VisitOp, LinkOp
    <1>5. /\ th[t] # <<>> /\ o.op = "enter_sub_workflow" /\ Head(th[t]).op \notin Revision
        BY <1>1 DEF DecideEnterSubWorkflow, Pending, Revision
    <1>6. CASE q = <<>>
        <2>1. Orderly(q)'
            BY <1>6, SideNone, RestsOrderly
        <2> QED BY <1>3, <1>5, <2>1, StillHolds, OrderDecided
    <1>7. CASE q = <<c, v, l>> /\ live[step.call] # Null
        <2>1. SnapshotOK(o) /\ o \in Range(th[t]) /\ Orderly(th[t])
            BY <1>1, <1>5, HeadOK, HeadInRange
               DEF StepOK, OpOK, OrderInv, IInv, ThreadsOK, WorkOK
        <2>2. PICK wf, at : wf = WorkflowOf(o.row) /\ at = o.row.current_step
            OBVIOUS
        <2>3. /\ RowOK(o.row) /\ at \in StepIds(wf) /\ step.kind = "call" /\ Straight(wf)
              /\ step = StepAt(wf, at)
            BY <1>5, <2>1, <2>2, StraightRow DEF SnapshotOK
        <2>4. /\ step \in Range(wf.steps) /\ step.id = at /\ step = wf.steps[FindStep(wf, at)]
              /\ FindStep(wf, at) \in DOMAIN wf.steps
            BY <2>3, FoundStep DEF Straight, WellFormed, StepAt
        <2>5. step.call \in Workflow
            BY <2>3, <2>4 DEF Straight, WellFormed
        <2> HIDE DEF step
        <2>6. InOrder(row) /\ row.parent_session_id = o.sid
            BY <1>2, <1>7, <2>5, FreshInOrder, FreshRow DEF IInv
        <2>7. ASSUME Revising, o.sid \in DOMAIN sessions
              PROVE  CallsReady(sessions[o.sid])
            <3>1. o.row = sessions[o.sid]
                BY <1>5, <2>1, <2>7 DEF Orderly, StepOrderly
            <3>2. Full(DOMAIN o.row.step_data, wf, at)
                BY <1>5, <2>2, <2>3, <2>7, <3>1, AllInOrder DEF InOrder, Straight, WellFormed
            <3>3. LeadingCall(wf)
                BY <2>2, <2>3, <2>7, LeadsCalls
            <3>4. \A i \in DOMAIN wf.steps : wf.steps[i].kind = "call" => wf.steps[i].id = at
                BY <2>3, <2>4, <3>3 DEF LeadingCall
            <3> QED BY <2>2, <3>1, <3>2, <3>4 DEF CallsReady
        <2>8. IsSeq(q) /\ q # <<>> /\ Head(q) = c /\ Range(q) = {c, v, l}
            BY <1>7, Three
        <2>9. \A p \in {c, v, l} : /\ ~Mover(p)
                                   /\ p.op \notin {"revise_step", "invalidate_steps",
                                                   "enter_sub_workflow", "push_flow"}
            BY <1>4 DEF Mover
        <2> QED BY <1>3, <1>4, <1>5, <2>6, <2>7, <2>8, <2>9, CreationOrder
    <1> QED BY <1>3, <1>6, <1>7

LEMMA DecidePushFlowOrder ==
    ASSUME OrderlyRevisions, OneThread, LinearWorkflows, IInv, OrderInv, NEW t \in Thread,
           DecidePushFlow(t)
    PROVE  OrderInv'
    <1>1. PICK o : o = Head(th[t])
        OBVIOUS
    <1>2. PICK row, c, v :
             /\ row = NewRow(o.w, o.sid)
             /\ c = CreateOp(o.child, row, "digression", o.row.current_step, MaxStackDepth)
             /\ v = VisitOp(o.child, row.current_step)
        OBVIOUS
    <1>3. PICK q : /\ Do(t, q) /\ UnchangedStore /\ UNCHANGED restarts
                   /\ q = <<>> \/ (q = <<c, v>> /\ live[o.w] # Null)
        BY <1>1, <1>2 DEF DecidePushFlow, Decide, UnchangedServer
    <1>4. /\ c.op = "create_session" /\ c.row = row /\ v.op = "increment_visit"
        BY <1>2 DEF CreateOp, VisitOp
    <1>5. /\ th[t] # <<>> /\ o.op = "push_flow" /\ Head(th[t]).op \notin Revision
        BY <1>1 DEF DecidePushFlow, Pending, Revision
    <1>6. CASE q = <<>>
        <2>1. Orderly(q)'
            BY <1>6, SideNone, RestsOrderly
        <2> QED BY <1>3, <1>5, <2>1, StillHolds, OrderDecided
    <1>7. CASE q = <<c, v>> /\ live[o.w] # Null
        <2>1. SnapshotOK(o) /\ o \in Range(th[t]) /\ Orderly(th[t])
            BY <1>1, <1>5, HeadOK, HeadInRange
               DEF StepOK, OpOK, OrderInv, IInv, ThreadsOK, WorkOK
        <2>2. InOrder(row) /\ row.parent_session_id = o.sid
            BY <1>2, <1>5, <1>7, <2>1, FreshInOrder, FreshRow DEF IInv, SnapshotOK
        <2>3. ASSUME Revising, o.sid \in DOMAIN sessions
              PROVE  CallsReady(sessions[o.sid])
            <3>1. CallFree
                BY <1>5, <2>1, <2>3 DEF Orderly, StepOrderly, OrderlyRevisions
            <3>2. PICK wf : wf = WorkflowOf(sessions[o.sid])
                OBVIOUS
            <3>3. \A step \in Range(wf.steps) : step.kind # "call"
                BY <2>3, <3>1, <3>2 DEF CallFree, IInv, StoreOK, RowOK, WorkflowOf
            <3> QED BY <3>2, <3>3 DEF CallsReady, Range
        <2>4. IsSeq(q) /\ q # <<>> /\ Head(q) = c /\ Range(q) = {c, v}
            BY <1>7, Two
        <2>5. \A p \in {c, v} : /\ ~Mover(p)
                                /\ p.op \notin {"revise_step", "invalidate_steps",
                                                "enter_sub_workflow", "push_flow"}
            BY <1>4 DEF Mover
        <2> QED BY <1>3, <1>4, <1>5, <2>2, <2>3, <2>4, <2>5, CreationOrder
    <1> QED BY <1>3, <1>6, <1>7

LEMMA ThenOnRests ==
    ASSUME NEW sid, NEW plan, Rests(plan)
    PROVE  Rests(ThenOn(sid, plan))
    <1>1. PICK o : o = UpdateOp(sid, WORKFLOW_CHANGED, Null)
        OBVIOUS
    <1>2. o.op = "update_session" /\ o.step = WORKFLOW_CHANGED /\ o.data = Null
        BY <1>1 DEF UpdateOp
    <1>3. o.op \notin Special /\ Marks(o)
        BY <1>2 DEF Special, Drawing, Marks
    <1>4. Rests(<<o>>)
        BY <1>2, <1>3, One DEF Rests
    <1> QED BY <1>1, <1>4, SideNone DEF ThenOn

LEMMA ResumeRests ==
    ASSUME NEW child, NEW outer
    PROVE  Rests(ResumePlan(child, outer))
    <1>1. Rests(<<DeleteOp(child, FALSE)>>)
        BY SideOps, SideOne
    <1> QED BY <1>1, ThenOnRests DEF ResumePlan

LEMMA RestsDecided ==
    ASSUME OneThread, IInv, OrderInv, NEW t \in Thread,
           th[t] = <<>> \/ Head(th[t]).op \notin Revision,
           NEW plan, Do(t, plan), UnchangedStore, UNCHANGED restarts, Rests(plan)
    PROVE  OrderInv'
    BY RestsOrderly, StillHolds, OrderDecided

LEMMA DecidePopFlowOrder ==
    ASSUME OneThread, IInv, OrderInv, NEW t \in Thread, DecidePopFlow(t)
    PROVE  OrderInv'
    <1>1. PICK plan : /\ Do(t, plan) /\ UnchangedStore /\ UNCHANGED restarts
                      /\ plan = <<>> \/ \E sid, p : plan = ResumePlan(sid, p)
        BY DEF DecidePopFlow, Decide, UnchangedServer
    <1>2. Rests(plan)
        BY <1>1, SideNone, ResumeRests
    <1>3. Head(th[t]).op \notin Revision
        BY DEF DecidePopFlow, Pending, Revision
    <1> QED BY <1>1, <1>2, <1>3, RestsDecided

LEMMA DecideEscalateParentOrder ==
    ASSUME OneThread, IInv, OrderInv, NEW t \in Thread, DecideEscalateParent(t)
    PROVE  OrderInv'
    <1>1. PICK plan : /\ Do(t, plan) /\ UnchangedStore /\ UNCHANGED restarts
                      /\ plan = <<>> \/ \E p : plan = <<EscalateOp(p)>>
        BY DEF DecideEscalateParent, Decide, UnchangedServer
    <1>2. Rests(plan)
        BY <1>1, SideNone, SideOps, SideOne
    <1>3. Head(th[t]).op \notin Revision
        BY DEF DecideEscalateParent, Pending, Revision
    <1> QED BY <1>1, <1>2, <1>3, RestsDecided

\* The session below moves past its call-step with the artifact of the child.
LEMMA DecideAutoResumeOrder ==
    ASSUME NullIsNoDict, OneThread, LinearWorkflows, IInv, OrderInv, NEW t \in Thread,
           DecideAutoResume(t)
    PROVE  OrderInv'
    <1>1. PICK o : o = Head(th[t])
        OBVIOUS
    <1>2. PICK plan :
             /\ Do(t, plan) /\ UnchangedStore /\ UNCHANGED restarts
             /\ \/ plan = <<>>
                \/ \E p : \/ plan = ResumePlan(o.sid, p)
                          \/ plan = ThenOn(p, PropagatePlan(o.sid, o.wf, o.data, p))
        BY <1>1 DEF DecideAutoResume, Decide, UnchangedServer
    <1>3. Head(th[t]).op \notin Revision
        BY DEF DecideAutoResume, Pending, Revision
    <1>4. CASE plan = <<>> \/ \E p : plan = ResumePlan(o.sid, p)
        BY <1>2, <1>3, <1>4, SideNone, ResumeRests, RestsDecided
    <1>5. ASSUME NEW p, plan = ThenOn(p, PropagatePlan(o.sid, o.wf, o.data, p))
          PROVE  OrderInv'
        <2>1. CASE Resolve(p) # "ok"
            <3>1. plan = ThenOn(p, <<>>)
                BY <1>5, <2>1 DEF ThenOn
            <3>2. Rests(plan)
                BY <3>1, SideNone, ThenOnRests
            <3> QED BY <1>2, <1>3, <3>2, RestsDecided
        <2>2. CASE Resolve(p) = "ok"
            <3>1. PICK row, wf, at :
                     row = sessions[p] /\ wf = WorkflowOf(row) /\ at = row.current_step
                OBVIOUS
            <3>2. p \in DOMAIN sessions /\ RowOK(row) /\ at # WORKFLOW_CHANGED
                BY <2>2, <3>1 DEF Resolve, IInv, StoreOK
            <3>3. Straight(wf)
                BY <3>1, <3>2, StraightRow
            <3>4. Full(DOMAIN row.step_data, wf, at)
                BY <1>3, <3>1, <3>2, AllInOrder DEF InOrder
            <3>5. plan = PropagatePlan(o.sid, o.wf, o.data, p)
                BY <1>5, <2>2 DEF ThenOn
            <3>6. Gathers(plan, p, wf, at, DOMAIN row.step_data)
                BY <3>1, <3>3, <3>4, <3>5, PropagateGathers
            <3>7. Orderly(plan)'
                BY <1>2, <3>1, <3>6, GathersOrderly DEF UnchangedStore
            <3> QED BY <1>2, <1>3, <3>7, StillHolds, OrderDecided
        <2> QED BY <2>1, <2>2
    <1> QED BY <1>2, <1>4, <1>5

---------------------------------------------------------------------------
(***************************************************************************)
(* The calls.                                                              *)
(***************************************************************************)
LEMMA StartWorkflowOrder ==
    ASSUME NullIsNoDict, OneThread, LinearWorkflows, IInv, OrderInv, NEW t \in Thread,
           NEW w \in Workflow, NEW sid \in Sid, StartWorkflow(t, w, sid)
    PROVE  OrderInv'
    <1> DEFINE wf   == Definition[w][live[w]]
               auto == AutoOp("start", sid, wf, FirstStep(wf).id, <<>>)
    <1>1. PICK row, c, visit, a, more :
             /\ row = NewRow(w, Null) /\ c = CreateOp(sid, row, "call", Null, Null)
             /\ visit = VisitOp(sid, FirstStep(wf).id)
             /\ a = auto
             /\ more = IF FirstStep(wf).kind = "mcp" THEN <<auto>> ELSE <<>>
        OBVIOUS
    <1>2. /\ Do(t, <<c, visit>> \o more) /\ UnchangedStore /\ UNCHANGED restarts
          /\ sid \notin minted /\ live[w] # Null /\ th[t] = <<>>
        BY <1>1 DEF StartWorkflow, Idle, UnchangedServer
    <1>3. /\ c.op = "create_session" /\ c.sid = sid /\ c.row = row
          /\ row.parent_session_id = Null /\ row.step_data = <<>> /\ WorkflowOf(row) = wf
          /\ row.current_step = FirstStep(wf).id
          /\ visit.op = "increment_visit" /\ visit.sid = sid
          /\ a.op = "auto_execute" /\ a.sid = sid /\ a.data = <<>> /\ a.at = FirstStep(wf).id
        BY <1>1 DEF CreateOp, NewRow, VisitOp, AutoOp, WorkflowOf
    <1>4. IsSeq(more) /\ Range(more) \subseteq {a}
        BY <1>1, One, Empty
    <1>5. InOrder(row)
        BY <1>1, <1>2, FreshInOrder DEF IInv
    <1>6. Straight(wf) /\ FirstStep(wf).id # WORKFLOW_CHANGED
        <2>1. RowOK(row) /\ WorkflowOf(row) = wf
            BY <1>1, <1>2, FreshRow DEF IInv
        <2>2. Straight(wf)
            BY <2>1, StraightRow
        <2>3. 1 \in DOMAIN wf.steps
            BY <2>2 DEF Straight, WellFormed
        <2>4. FirstStep(wf).id \in StepIds(wf)
            BY <2>3 DEF FirstStep, StepIds
        <2> QED BY <2>2, <2>4 DEF Straight, WellFormed
    <1> HIDE DEF auto, wf
    <1>7. PICK q, pre : q = pre \o more /\ pre = <<c, visit>>
        OBVIOUS
    <1>8. q # <<>> /\ Head(q) = c /\ Range(Tail(q)) = {visit} \cup Range(more)
        BY <1>4, <1>7, HeadOfJoined
    <1>9. IsSeq(q) /\ \A o \in Range(q) : o = c \/ o = visit \/ o = a
        <2>1. IsSeq(pre) /\ Range(pre) = {c, visit}
            BY <1>7, Two
        <2> QED BY <1>4, <1>7, <2>1, Joined
    <1>10. <<>> # Null
        <2>1. <<>> = [x \in 1..0 |-> 0]
            OBVIOUS
        <2>2. <<>> = [x \in DOMAIN <<>> |-> <<>>[x]]
            BY <2>1
        <2> QED BY <2>2 DEF NullIsNoDict
    <1>11. Gathered(a, wf, row.current_step, DOMAIN row.step_data)
        <2>1. Full(DOMAIN row.step_data, wf, FirstStep(wf).id)
            BY <1>3, <1>5, <1>6 DEF InOrder
        <2> QED BY <1>3, <1>10, <2>1 DEF Gathered, Goal
    <1>12. ~Mover(c) /\ ~Mover(visit)
        BY <1>3 DEF Mover
    <1>13. sid \notin DOMAIN sessions /\ Null \notin DOMAIN sessions
        BY <1>2, StoreAssumption DEF IInv, StoreOK
    <1>14. \A o \in Range(q) : /\ o.sid \notin DOMAIN sessions
                               /\ o.op \in {"create_session", "increment_visit", "auto_execute"}
        BY <1>3, <1>9, <1>13
    <1>15. \A o \in Range(q) : StepOrderly(q, o)'
        BY <1>2, <1>14 DEF StepOrderly, UnchangedStore
    <1>16. BirthOrderly(c, Tail(q))'
        <2>1. \A o \in Range(Tail(q)) : o = visit \/ o = a
            BY <1>4, <1>8
        <2>2. Gathered(visit, wf, row.current_step, DOMAIN row.step_data)
            BY <1>12 DEF Gathered
        <2>3. c.row.parent_session_id \notin DOMAIN sessions'
            BY <1>2, <1>3, <1>13 DEF UnchangedStore
        <2> QED BY <1>3, <1>5, <1>11, <2>1, <2>2, <2>3 DEF BirthOrderly
    <1>17. Orderly(q)'
        BY <1>8, <1>15, <1>16 DEF Orderly
    <1> QED BY <1>2, <1>7, <1>17, StillHolds, OrderDecided

\* A call of one operation.
LEMMA CallOrder ==
    ASSUME OneThread, IInv, OrderInv, NEW t \in Thread, th[t] = <<>>, NEW o, Do(t, <<o>>),
           UnchangedStore, UNCHANGED restarts,
           o.op \in {"submit_step", "revise_step", "enter_sub_workflow", "push_flow", "pop_flow",
                     "delete_session"},
           o.op = "revise_step" => Revising,
           o.op = "enter_sub_workflow" => o.row = sessions[o.sid],
           o.op = "push_flow" => "push_flow" \in Tools
    PROVE  OrderInv'
    <1>1. <<o>> # <<>> /\ Head(<<o>>) = o /\ Range(<<o>>) = {o}
        BY One
    <1>2. ~Mover(o)
        BY DEF Mover
    <1>3. StepOrderly(<<o>>, o)'
        BY <1>2 DEF StepOrderly, Gathered, UnchangedStore
    <1>4. Orderly(<<o>>)'
        BY <1>1, <1>3 DEF Orderly
    <1> QED BY <1>4, StillHolds, OrderDecided

LEMMA CallsOrder ==
    ASSUME NullIsNoDict, OneThread, LinearWorkflows, IInv, OrderInv, NEW t \in Thread, Call(t)
    PROVE  OrderInv'
    <1>1. CASE \E w \in Workflow, sid \in Sid : StartWorkflow(t, w, sid)
        BY <1>1, StartWorkflowOrder
    <1>2. CASE \E sid \in Sid : ResolveMismatch(t, sid)
        <2>1. PICK sid, plan : /\ plan = ThenOn(sid, <<>>) /\ Do(t, plan) /\ UnchangedStore
                               /\ UNCHANGED restarts /\ th[t] = <<>>
            BY <1>2 DEF ResolveMismatch, Idle, UnchangedServer
        <2>2. Rests(plan)
            BY <2>1, SideNone, ThenOnRests
        <2> QED BY <2>1, <2>2, RestsDecided
    <1>3. ASSUME NEW tool, NEW sid, NEW call, Resolved(t, tool, sid, call),
                 call.op \in {"submit_step", "revise_step", "enter_sub_workflow", "push_flow",
                              "pop_flow"},
                 call.op = tool,
                 call.op = "enter_sub_workflow" => call.row = sessions[call.sid]
          PROVE  OrderInv'
        <2>1. /\ tool \in Tools /\ th[t] = <<>> /\ Do(t, <<call>>) /\ UnchangedStore
              /\ UNCHANGED restarts
            BY <1>3 DEF Resolved, Idle, UnchangedServer
        <2> QED BY <1>3, <2>1, CallOrder DEF Revising
    <1>4. CASE \E sid \in DOMAIN sessions, content \in Content :
                 \E branch \in StepNames \cup {Null}, art \in ArtifactNames \cup {Null} :
                    SubmitStep(t, sid, content, branch, art)
        BY <1>3, <1>4 DEF SubmitStep
    <1>5. CASE \E sid \in DOMAIN sessions, step \in StepNames : ReviseStep(t, sid, step)
        BY <1>3, <1>5 DEF ReviseStep
    <1>6. CASE \E sid \in DOMAIN sessions, child \in Sid : EnterSubWorkflow(t, sid, child)
        BY <1>3, <1>6 DEF EnterSubWorkflow
    <1>7. CASE \E sid \in DOMAIN sessions, child \in Sid, w \in Workflow :
                 PushFlow(t, sid, w, child)
        BY <1>3, <1>7 DEF PushFlow
    <1>8. CASE \E sid \in DOMAIN sessions : PopFlow(t, sid)
        BY <1>3, <1>8 DEF PopFlow
    <1>9. CASE \E sid \in DOMAIN sessions : DeleteSession(t, sid)
        <2>1. PICK sid, o : /\ o = DeleteOp(sid, FALSE) /\ Do(t, <<o>>) /\ UnchangedStore
                            /\ UNCHANGED restarts /\ th[t] = <<>>
            BY <1>9 DEF DeleteSession, Idle, UnchangedServer
        <2>2. o.op = "delete_session"
            BY <2>1 DEF DeleteOp
        <2> QED BY <2>1, <2>2, CallOrder
    <1> QED BY <1>1, <1>2, <1>4, <1>5, <1>6, <1>7, <1>8, <1>9 DEF Call

---------------------------------------------------------------------------
(***************************************************************************)
(* Every step, and the theorems.                                           *)
(***************************************************************************)
LEMMA WorkOrder ==
    ASSUME OrderlyRevisions, NullIsNoDict, OneThread, LinearWorkflows,
           IInv, SoloInv, BehindInv, OrderInv, NEW t \in Thread, Work(t)
    PROVE  OrderInv'
    <1>1. CASE DecideSubmitStep(t) BY <1>1, DecideSubmitStepOrder
    <1>2. CASE DecideReviseStep(t) BY <1>2, DecideReviseStepOrder
    <1>3. CASE DecideEnterSubWorkflow(t) BY <1>3, DecideEnterSubWorkflowOrder
    <1>4. CASE DecidePushFlow(t) BY <1>4, DecidePushFlowOrder
    <1>5. CASE DecidePopFlow(t) BY <1>5, DecidePopFlowOrder
    <1>6. CASE DecideAutoResume(t) BY <1>6, DecideAutoResumeOrder
    <1>7. CASE DecideEscalateParent(t) BY <1>7, DecideEscalateParentOrder
    <1>8. CASE TransactUpdateSession(t) BY <1>8, UpdateSessionOrder
    <1>9. CASE TransactIncrementVisit(t)
        <2>1. PICK o, v : /\ o = Head(th[t])
                          /\ v = Increment(sessions[o.sid].step_visit_counts, o.step)
            OBVIOUS
        <2>2. WriteRow(t, "increment_visit",
                       [sessions[Head(th[t]).sid] EXCEPT !["step_visit_counts"] = v], Tail(th[t]))
            BY <1>9, <2>1 DEF TransactIncrementVisit
        <2> QED BY <2>2, ColumnOrder
    <1>10. CASE TransactIncrementRetry(t) BY <1>10, IncrementRetryOrder
    <1>11. CASE TransactSetEscalation(t)
        <2>1. WriteRow(t, "set_escalation",
                       [sessions[Head(th[t]).sid] EXCEPT !["escalation"] = TRUE], Tail(th[t]))
            BY <1>11 DEF TransactSetEscalation
        <2> QED BY <2>1, ColumnOrder
    <1>12. CASE TransactInvalidateSteps(t) BY <1>12, InvalidateStepsOrder
    <1>13. CASE TransactStoreArtifact(t)
        <2>1. PICK o, v :
                 /\ o = Head(th[t])
                 /\ v = sessions[o.sid].artifact_checkpoints \cup {<<o.step, o.art>>}
            OBVIOUS
        <2>2. WriteRow(t, "store_artifact",
                       [sessions[Head(th[t]).sid] EXCEPT !["artifact_checkpoints"] = v], Tail(th[t]))
            BY <1>13, <2>1 DEF TransactStoreArtifact
        <2> QED BY <2>2, ColumnOrder
    <1>14. CASE TransactSetCalledSession(t) BY <1>14, FramesOrder
    <1>15. CASE TransactClearCalledSession(t) BY <1>15, FramesOrder
    <1>16. CASE TransactDeleteSession(t) BY <1>16, DeleteOrder
    <1>17. CASE \E evicted \in SUBSET Sid : TransactCreateSession(t, evicted)
        BY <1>17, CreateSessionOrder
    <1>18. CASE \E envelope \in Envelope : AutoExecute(t, envelope)
        BY <1>18, AutoExecuteOrder
    <1>19. CASE RowGone(t) BY <1>19, RowGoneOrder
    <1> QED BY <1>1, <1>2, <1>3, <1>4, <1>5, <1>6, <1>7, <1>8, <1>9, <1>10, <1>11, <1>12,
               <1>13, <1>14, <1>15, <1>16, <1>17, <1>18, <1>19 DEF Work

\* A restart gives up the plan of the running call; one that owes a session its
\* way back is not among them, by OrderlyRevisions.
LEMMA RestartOrder ==
    ASSUME OrderlyRevisions, OneThread, IInv, OrderInv, Restart
    PROVE  OrderInv'
    <1>1. /\ UnchangedStore /\ restarts < MaxRestarts
          /\ \A t \in Thread : th'[t] = <<>>
        BY DEF Restart
    <1>2. ~Revising
        BY <1>1 DEF OrderInv, OrderlyRevisions
    <1>3. \A s \in DOMAIN sessions : InOrder(sessions[s])
        BY <1>2 DEF OrderInv, RowsInOrder, Owed
    <1>4. RowsInOrder'
        BY <1>1, <1>3 DEF RowsInOrder, UnchangedStore
    <1>5. Orderly(<<>>)'
        BY SideNone, RestsOrderly
    <1>6. \A t \in Thread : Orderly(th[t])'
        BY <1>1, <1>5
    <1> QED BY <1>2, <1>4, <1>6 DEF OrderInv, RootsReady

LEMMA NextOrder ==
    ASSUME OrderlyRevisions, NullIsNoDict, OneThread, LinearWorkflows,
           IInv, SoloInv, BehindInv, OrderInv, [Next]_vars
    PROVE  OrderInv'
    <1>1. CASE UNCHANGED vars
        <2>1. UNCHANGED <<sessions, stack, th, restarts>>
            BY <1>1 DEF vars
        <2>2. RootsReady'
            BY <2>1 DEF OrderInv, RootsReady
        <2>3. RowsInOrder'
            BY <2>1 DEF OrderInv, RowsInOrder
        <2>4. ASSUME NEW q, Orderly(q) PROVE Orderly(q)'
            BY <2>1, <2>4 DEF Orderly, StepOrderly, BirthOrderly
        <2>5. \A t \in Thread : Orderly(th[t])'
            BY <2>1, <2>4 DEF OrderInv
        <2> QED BY <2>1, <2>2, <2>3, <2>5 DEF OrderInv
    <1>2. CASE \E t \in Thread : Call(t) \/ Work(t)
        BY <1>2, CallsOrder, WorkOrder
    <1>3. CASE Restart
        BY <1>3, RestartOrder
    <1> QED BY <1>1, <1>2, <1>3 DEF Next

LEMMA InitOrder == Init => OrderInv
    <1> SUFFICES ASSUME Init PROVE OrderInv
        OBVIOUS
    <1>1. /\ DOMAIN sessions = {} /\ DOMAIN stack = {} /\ restarts = 0
          /\ \A t \in Thread : th[t] = <<>>
        BY DEF Init
    <1>2. Orderly(<<>>)
        BY Empty DEF Orderly
    <1> QED BY <1>1, <1>2 DEF OrderInv, RootsReady, RowsInOrder

\* One call at a time, workflows without branches, revisions as above: the
\* plan of the running call brings the data along wherever it moves a session,
\* and a session that has lost data in front of its pointer is owed its way back.
THEOREM OrderInvariant ==
    ASSUME OrderlyRevisions, NullIsNoDict, OneThread, LinearWorkflows
    PROVE  Spec => []OrderInv
    <1>1. IInv /\ SoloInv /\ BehindInv /\ OrderInv /\ [Next]_vars => OrderInv'
        BY NextOrder
    <1> QED BY InitOrder, <1>1, Invariant, SoloInvariant, BehindInvariant, PTL DEF Spec

\* Order is enforced: between calls every session has data for each step before
\* its pointer that no precondition may skip, whatever was revised, propagated
\* from a child or abandoned in between ("Enforces ordering - no skips, no
\* backwards").  Where revise_step is offered, the server is not restarted, each
\* call-step is the only one of its workflow and at most second in it, and
\* workflows with call-steps take no digressions: each of these excludes runs
\* in which the code does pass a step that has no data.
THEOREM OrderKept ==
    ASSUME OrderlyRevisions, NullIsNoDict, OneThread, LinearWorkflows
    PROVE  Spec => []OrderEnforced
    <1>1. IInv /\ OrderInv => OrderEnforced
        <2> SUFFICES ASSUME IInv, OrderInv, Quiet, NEW s \in DOMAIN sessions,
                            sessions[s].current_step # WORKFLOW_CHANGED,
                            NEW i \in DOMAIN WorkflowOf(sessions[s]).steps,
                            i < StepIndex(sessions[s]),
                            WorkflowOf(sessions[s]).steps[i].precondition = Null
                     PROVE  WorkflowOf(sessions[s]).steps[i].id \in DOMAIN sessions[s].step_data
            BY DEF OrderEnforced
        <2>1. \A t \in Thread : ~Owed(th[t], s)
            BY Empty DEF Quiet, Idle, Owed
        <2>2. InOrder(sessions[s])
            BY <2>1 DEF OrderInv, RowsInOrder
        <2>3. StepIndex(sessions[s]) = Place(WorkflowOf(sessions[s]), sessions[s].current_step)
            BY IndexIsPlace
        <2> QED BY <2>2, <2>3 DEF InOrder, Full
    <1> QED BY <1>1, Invariant, OrderInvariant, PTL

---------------------------------------------------------------------------
(***************************************************************************)
(* Completion and hand-off.  A child that completes is handed over in the  *)
(* same call: the plan that completes a framed session goes on to its      *)
(* hand-off, and until that is done the thread owes it.  _advance_parent   *)
(* hands nothing over when the parent it advances completes in turn (see   *)
(* DocumentedBehaviour): somewhere behind every call-step lies a step that *)
(* the server does not execute by itself and that no precondition skips.   *)
(* A restart between completion and hand-off loses the hand-off.           *)
(***************************************************************************)
Stops(wf, i) ==
    \E j \in DOMAIN wf.steps :
       j >= i /\ wf.steps[j].kind # "mcp" /\ wf.steps[j].precondition = Null
HandsBack(wf) ==
    /\ COMPLETE \notin StepIds(wf)
    /\ \A i, j \in DOMAIN wf.steps : wf.steps[i].id = wf.steps[j].id => i = j
    /\ \A i \in DOMAIN wf.steps :
          /\ wf.steps[i].kind # "llm" => wf.steps[i].branches = {}
          /\ wf.steps[i].kind = "call" => Stops(wf, i + 1)
NoTailCalls == \A w \in Workflow : \A v \in Version(w) : HandsBack(Definition[w][v])

HandsOn(o, s) == o.op \in {"auto_resume", "escalate_parent"} /\ o.sid = s
Finishes(o) == o.op = "update_session" /\ o.step = COMPLETE

\* On whose behalf the pointer of sid moves to `at`: start_workflow moves an
\* unframed session, and a parent that is advanced does not complete.
May(frames, cont, sid, wf, at) ==
    /\ cont = "start" => sid \notin DOMAIN frames
    /\ cont = "advance" => at # COMPLETE /\ Stops(wf, FindStep(wf, at))
MayRun(frames, o) ==
    May(frames, o.cont, o.sid, o.wf, o.at) /\ StepAt(o.wf, o.at).kind = "mcp"

\* A framed session that is completed is handed over next; frames are unlinked
\* right after the session that holds them is deleted.
Handing(frames, q) ==
    \A i \in DOMAIN q :
       /\ Finishes(q[i]) /\ q[i].sid \in DOMAIN frames =>
             i + 1 \in DOMAIN q /\ HandsOn(q[i + 1], q[i].sid)
       /\ q[i].op = "auto_execute" => MayRun(frames, q[i])
       /\ q[i].op = "clear_called_session" =>
             \/ TopFrames(frames, q[i].sid) = {}
             \/ /\ i - 1 \in DOMAIN q /\ q[i - 1].op = "delete_session"
                /\ TopFrames(frames, q[i].sid) \subseteq {q[i - 1].sid}

\* A thread that is about to create a session.
Starts(q) ==
    \A o \in Range(Tail(q)) :
       /\ o.op # "clear_called_session"
       /\ o.op = "auto_execute" => o.cont = "start" /\ StepAt(o.wf, o.at).kind = "mcp"
HandingOver(q) ==
    IF q # <<>> /\ Head(q).op = "create_session" THEN Starts(q) ELSE Handing(stack, q)

Paid(s) ==
    LET parent == sessions[s].parent_session_id
    IN  IsComplete(sessions[s]) /\ Resolve(parent) = "ok" => sessions[parent].escalation
Owes(q, s) ==
    /\ q # <<>>
    /\ \/ HandsOn(Head(q), s)
       \/ Head(q).op = "delete_session" /\ Head(q).sid = s
       \/ Head(q).op = "set_escalation" /\ Head(q).sid = sessions[s].parent_session_id

\* A frame stands on its parent: with Tree, parent_of finds it.
OnParent ==
    \A s \in DOMAIN stack :
       sessions[s].parent_session_id \in DOMAIN sessions \ DOMAIN stack =>
          stack[s].root = sessions[s].parent_session_id /\ stack[s].depth = 1

HandInv ==
    /\ restarts = 0
    /\ OnParent
    /\ \A t \in Thread : HandingOver(th[t])
    /\ \A s \in DOMAIN stack : Paid(s) \/ \E t \in Thread : Owes(th[t], s)

---------------------------------------------------------------------------
(***************************************************************************)
(* The steps behind a call-step.                                           *)
(***************************************************************************)
LEMMA ReadyRow ==
    ASSUME NoTailCalls, NEW row, RowOK(row)
    PROVE  WellFormed(WorkflowOf(row)) /\ HandsBack(WorkflowOf(row))
    BY WorkflowLoaded DEF NoTailCalls, RowOK, WorkflowOf

LEMMA NamedOnce ==
    ASSUME NEW wf, WellFormed(wf), HandsBack(wf)
    PROVE  /\ Len(wf.steps) \in Nat /\ DOMAIN wf.steps = 1..Len(wf.steps)
           /\ \A i \in 1..Len(wf.steps) :
                 FindStep(wf, wf.steps[i].id) = i /\ wf.steps[i].id \in StepIds(wf)
    <1>1. Len(wf.steps) \in Nat /\ DOMAIN wf.steps = 1..Len(wf.steps)
        BY DEF WellFormed
    <1>2. ASSUME NEW i \in 1..Len(wf.steps)
          PROVE  FindStep(wf, wf.steps[i].id) = i /\ wf.steps[i].id \in StepIds(wf)
        <2>1. wf.steps[i].id \in StepIds(wf)
            BY StepNamed
        <2>2. PICK j : j = FindStep(wf, wf.steps[i].id)
            OBVIOUS
        <2>3. j \in 1..Len(wf.steps) /\ wf.steps[j].id = wf.steps[i].id
            BY <2>1, <2>2, FoundStep DEF StepAt
        <2> QED BY <1>1, <2>1, <2>2, <2>3 DEF HandsBack
    <1> QED BY <1>1, <1>2

\* A step that rests no client is followed by one that stops the pointer.
LEMMA StopsAhead ==
    ASSUME NEW wf, WellFormed(wf), HandsBack(wf), NEW step \in Range(wf.steps),
           step.kind # "llm", Stops(wf, FindStep(wf, step.id) + 1),
           NEW data, NEW landing, landing = ApplySkipLoop(wf, DefaultTarget(wf, step), data, FALSE)
    PROVE  landing.step # COMPLETE /\ Stops(wf, FindStep(wf, landing.step))
    <1>0. /\ Len(wf.steps) \in Nat /\ DOMAIN wf.steps = 1..Len(wf.steps)
          /\ \A k \in 1..Len(wf.steps) :
                FindStep(wf, wf.steps[k].id) = k /\ wf.steps[k].id \in StepIds(wf)
        BY NamedOnce
    <1>1. PICK n \in 1..Len(wf.steps) : step = wf.steps[n]
        BY <1>0 DEF Range
    <1>2. FindStep(wf, step.id) = n
        BY <1>0, <1>1
    <1>3. PICK j \in 1..Len(wf.steps) : /\ j >= n + 1 /\ wf.steps[j].kind # "mcp"
                                        /\ wf.steps[j].precondition = Null
        BY <1>0, <1>2 DEF Stops
    <1>4. PICK from, i : from = DefaultTarget(wf, step) /\ i = n + 1
        OBVIOUS
    <1>5. from = wf.steps[i].id /\ i \in 1..Len(wf.steps)
        <2>1. step.branches = {}
            BY <1>0, <1>1 DEF HandsBack
        <2>2. n # Len(wf.steps)
            BY <1>0, <1>3
        <2> QED BY <1>0, <1>1, <1>2, <1>4, <2>1, <2>2 DEF DefaultTarget, LinearNext
    <1>6. FindStep(wf, from) = i /\ from # COMPLETE
        BY <1>0, <1>5 DEF HandsBack
    <1> DEFINE base == ComputeSkipped(wf, data)
               Verdict(k) == EvaluatePrecondition(wf.steps[k].precondition, data,
                                 base \cup {wf.steps[x].id : x \in i..(k - 1)})
               stops == {k \in i..Len(wf.steps) : Verdict(k) # "skip"}
    <1>7. j \in stops
        <2>1. j \in i..Len(wf.steps)
            BY <1>0, <1>3, <1>4
        <2>2. Verdict(j) = "run"
            BY <1>3 DEF EvaluatePrecondition
        <2> QED BY <2>1, <2>2
    <1>8. PICK m : m = Min(stops)
        OBVIOUS
    <1>9. landing.step = wf.steps[m].id
        BY <1>4, <1>6, <1>7, <1>8 DEF ApplySkipLoop, Complete, COMPLETE
    <1>10. m \in stops /\ m <= j
        <2>1. stops \in SUBSET Nat
            BY <1>0, <1>5
        <2> QED BY <1>7, <1>8, <2>1, LeastElement DEF Min
    <1>11. m \in 1..Len(wf.steps)
        BY <1>0, <1>5, <1>10
    <1> HIDE DEF stops
    <1>12. FindStep(wf, landing.step) = m /\ landing.step # COMPLETE
        <2>1. FindStep(wf, wf.steps[m].id) = m /\ wf.steps[m].id \in StepIds(wf)
            BY <1>0, <1>11
        <2> QED BY <1>9, <2>1 DEF HandsBack
    <1>13. Stops(wf, m)
        BY <1>0, <1>3, <1>10, <1>11 DEF Stops
    <1> QED BY <1>12, <1>13

\* The step after an mcp step the pointer is on.
LEMMA StopsFurther ==
    ASSUME NEW wf, WellFormed(wf), HandsBack(wf), NEW at \in StepIds(wf),
           Stops(wf, FindStep(wf, at)), StepAt(wf, at).kind = "mcp"
    PROVE  Stops(wf, FindStep(wf, at) + 1)
    <1>1. PICK i : i = FindStep(wf, at)
        OBVIOUS
    <1>2. i \in 1..Len(wf.steps) /\ Len(wf.steps) \in Nat /\ DOMAIN wf.steps = 1..Len(wf.steps)
        BY <1>1, FoundStep, NamedOnce
    <1>3. PICK j \in DOMAIN wf.steps : /\ j >= i /\ wf.steps[j].kind # "mcp"
                                       /\ wf.steps[j].precondition = Null
        BY <1>1 DEF Stops
    <1>4. j # i
        BY <1>1, <1>3 DEF StepAt
    <1> QED BY <1>1, <1>2, <1>3, <1>4 DEF Stops

---------------------------------------------------------------------------
(***************************************************************************)
(* Plans.                                                                  *)
(***************************************************************************)
Passive(p) ==
    /\ IsSeq(p)
    /\ \A o \in Range(p) :
          ~Finishes(o) /\ o.op \notin {"auto_execute", "clear_called_session", "create_session"}
Hands(frames, p) ==
    IsSeq(p) /\ Handing(frames, p) /\ \A o \in Range(p) : o.op # "create_session"

LEMMA PassiveHands ==
    ASSUME NEW p, Passive(p), NEW frames
    PROVE  Hands(frames, p)
    <1>1. \A i \in DOMAIN p : p[i] \in Range(p)
        BY DEF Range
    <1> QED BY <1>1 DEF Passive, Hands, Handing

LEMMA PassiveEmpty == Passive(<<>>)
    BY Empty DEF Passive

LEMMA PassiveOne ==
    ASSUME NEW o, ~Finishes(o),
           o.op \notin {"auto_execute", "clear_called_session", "create_session"}
    PROVE  Passive(<<o>>)
    BY One DEF Passive

LEMMA PassiveJoined ==
    ASSUME NEW p, NEW q, Passive(p), Passive(q)
    PROVE  Passive(p \o q)
    BY Joined DEF Passive

LEMMA PassiveOps ==
    ASSUME NEW s, NEW step, NEW wf, NEW data, NEW x
    PROVE  /\ Passive(<<VisitOp(s, step)>>) /\ Passive(<<HandoffOp(s, wf, data)>>)
           /\ Passive(<<EscalateParentOp(s)>>) /\ Passive(<<EscalateOp(s)>>)
           /\ Passive(<<DeleteOp(s, x)>>) /\ Passive(<<ArtifactOp(s, step, x)>>)
           /\ Passive(<<RetryOp(s, step, x)>>) /\ Passive(<<InvalidateOp(s, x)>>)
           /\ step # COMPLETE => Passive(<<UpdateOp(s, step, data)>>)
    <1>1. PICK a, b, c, d, e, f, g, h, i :
             /\ a = VisitOp(s, step) /\ b = HandoffOp(s, wf, data)
             /\ c = EscalateParentOp(s) /\ d = EscalateOp(s) /\ e = DeleteOp(s, x)
             /\ f = ArtifactOp(s, step, x) /\ g = RetryOp(s, step, x)
             /\ h = InvalidateOp(s, x) /\ i = UpdateOp(s, step, data)
        OBVIOUS
    <1>2. \A o \in {a, b, c, d, e, f, g, h} :
             ~Finishes(o) /\ o.op \notin {"auto_execute", "clear_called_session", "create_session"}
        BY <1>1 DEF VisitOp, HandoffOp, EscalateParentOp, EscalateOp, DeleteOp, ArtifactOp,
               RetryOp, InvalidateOp, Finishes
    <1>3. i.op = "update_session" /\ i.step = step
        BY <1>1 DEF UpdateOp
    <1>4. step # COMPLETE => Passive(<<i>>)
        BY <1>3, PassiveOne DEF Finishes
    <1>5. \A o \in {a, b, c, d, e, f, g, h} : Passive(<<o>>)
        BY <1>2, PassiveOne
    <1> QED BY <1>1, <1>4, <1>5

LEMMA HandsJoined ==
    ASSUME NEW frames, NEW p, NEW q, Hands(frames, p), Hands(frames, q)
    PROVE  Hands(frames, p \o q)
    <1>1. /\ Len(p) \in Nat /\ Len(q) \in Nat
          /\ DOMAIN p = 1..Len(p) /\ DOMAIN q = 1..Len(q)
          /\ DOMAIN (p \o q) = 1..(Len(p) + Len(q))
          /\ \A i \in 1..(Len(p) + Len(q)) :
                (p \o q)[i] = IF i <= Len(p) THEN p[i] ELSE q[i - Len(p)]
        BY JoinedAt DEF Hands
    <1>2. PICK r, n : r = p \o q /\ n = Len(p)
        OBVIOUS
    <1>3. /\ \A i \in DOMAIN p : i \in DOMAIN r /\ r[i] = p[i]
          /\ \A i \in DOMAIN q : i + n \in DOMAIN r /\ r[i + n] = q[i]
          /\ \A i \in DOMAIN r : i \in Nat /\ (i \in DOMAIN p \/ i - n \in DOMAIN q)
          /\ n \in Nat
        BY <1>1, <1>2
    <1>4. Handing(frames, r)
        <2> SUFFICES ASSUME NEW i \in DOMAIN r
                     PROVE  /\ Finishes(r[i]) /\ r[i].sid \in DOMAIN frames =>
                                  i + 1 \in DOMAIN r /\ HandsOn(r[i + 1], r[i].sid)
                            /\ r[i].op = "auto_execute" => MayRun(frames, r[i])
                            /\ r[i].op = "clear_called_session" =>
                                  \/ TopFrames(frames, r[i].sid) = {}
                                  \/ /\ i - 1 \in DOMAIN r /\ r[i - 1].op = "delete_session"
                                     /\ TopFrames(frames, r[i].sid) \subseteq {r[i - 1].sid}
            BY DEF Handing
        <2>1. CASE i \in DOMAIN p
            <3>1. /\ r[i] = p[i]
                  /\ i + 1 \in DOMAIN p => i + 1 \in DOMAIN r /\ r[i + 1] = p[i + 1]
                  /\ i - 1 \in DOMAIN p => i - 1 \in DOMAIN r /\ r[i - 1] = p[i - 1]
                BY <1>3, <2>1
            <3> QED BY <2>1, <3>1 DEF Hands, Handing
        <2>2. CASE i - n \in DOMAIN q
            <3>1. PICK k : k = i - n /\ k \in DOMAIN q /\ k + n = i
                BY <1>3, <2>2
            <3>2. (k + 1) + n = i + 1 /\ (k - 1) + n = i - 1
                BY <1>1, <1>3, <3>1
            <3>3. r[i] = q[k]
                BY <1>3, <3>1
            <3>4. k + 1 \in DOMAIN q => i + 1 \in DOMAIN r /\ r[i + 1] = q[k + 1]
                BY <1>3, <3>2
            <3>5. k - 1 \in DOMAIN q => i - 1 \in DOMAIN r /\ r[i - 1] = q[k - 1]
                BY <1>3, <3>2
            <3> QED BY <3>1, <3>3, <3>4, <3>5 DEF Hands, Handing
        <2> QED BY <1>3, <2>1, <2>2
    <1>5. IsSeq(r) /\ \A o \in Range(r) : o.op # "create_session"
        BY <1>2, Joined DEF Hands
    <1> QED BY <1>2, <1>4, <1>5 DEF Hands

\* A completion of a session without a frame, or with its hand-off behind it.
LEMMA UpdateHands ==
    ASSUME NEW frames, NEW sid, NEW at, NEW data, at # COMPLETE \/ sid \notin DOMAIN frames
    PROVE  Hands(frames, <<UpdateOp(sid, at, data)>>)
    <1>1. PICK u : u = UpdateOp(sid, at, data)
        OBVIOUS
    <1>2. u.op = "update_session" /\ u.sid = sid /\ u.step = at
        BY <1>1 DEF UpdateOp
    <1>3. DOMAIN <<u>> = {1} /\ <<u>>[1] = u /\ IsSeq(<<u>>) /\ Range(<<u>>) = {u}
        BY One
    <1>4. Handing(frames, <<u>>)
        BY <1>2, <1>3 DEF Handing, Finishes
    <1> QED BY <1>1, <1>2, <1>3, <1>4 DEF Hands

LEMMA CompletionHands ==
    ASSUME NEW frames, NEW sid, NEW data, NEW q, IsSeq(q), DOMAIN q = 1..2,
           q[1] = UpdateOp(sid, COMPLETE, data), HandsOn(q[2], sid)
    PROVE  Hands(frames, q)
    <1>1. PICK u, h : u = q[1] /\ h = q[2]
        OBVIOUS
    <1>2. u.op = "update_session" /\ u.sid = sid /\ h.op \in {"auto_resume", "escalate_parent"}
        BY <1>1 DEF UpdateOp, HandsOn
    <1>3. DOMAIN q = {1, 2} /\ q[1 + 1] = h /\ 1 + 1 \in DOMAIN q
        BY <1>1
    <1>4. ~Finishes(h)
        BY <1>2 DEF Finishes
    <1>5. Handing(frames, q)
        BY <1>1, <1>2, <1>3, <1>4 DEF Handing
    <1>6. \A o \in Range(q) : o.op # "create_session"
        BY <1>1, <1>2, <1>3 DEF Range
    <1> QED BY <1>5, <1>6 DEF Hands

LEMMA ArriveHands ==
    ASSUME NEW frames, NEW cont \in Conts, NEW sid, NEW wf, NEW at, NEW data,
           May(frames, cont, sid, wf, at)
    PROVE  Hands(frames, Arrive(cont, sid, wf, at, data))
    <1> DEFINE visit  == IF at = COMPLETE THEN <<>> ELSE <<VisitOp(sid, at)>>
               update == <<UpdateOp(sid, at, data)>>
               resume == IF at = COMPLETE THEN <<HandoffOp(sid, wf, data)>> ELSE <<>>
    <1>1. CASE at # COMPLETE
        <2>1. Passive(visit) /\ Passive(update) /\ Passive(resume)
            BY <1>1, PassiveOps, PassiveEmpty
        <2> HIDE DEF visit, update, resume
        <2>2. /\ Passive(visit \o update) /\ Passive(update \o visit)
              /\ Passive((visit \o update) \o resume)
            BY <2>1, PassiveJoined
        <2>3. Arrive(cont, sid, wf, at, data)
                 \in {visit \o update, update \o visit, (visit \o update) \o resume}
            BY DEF Arrive, visit, update, resume, Conts
        <2> QED BY <2>2, <2>3, PassiveHands
    <1>2. CASE at = COMPLETE
        <2>1. PICK u, h : u = UpdateOp(sid, at, data) /\ h = HandoffOp(sid, wf, data)
            OBVIOUS
        <2>2. update = <<u>> /\ visit = <<>> /\ resume = <<h>>
            BY <1>2, <2>1
        <2>3. cont # "advance"
            BY <1>2 DEF May
        <2>4. PICK p : p = <<u>> \o <<h>> /\ IsSeq(p) /\ DOMAIN p = 1..2 /\ p[1] = u /\ p[2] = h
            BY PairJoined
        <2>5. Hands(frames, p)
            <3>1. HandsOn(h, sid)
                BY <2>1 DEF HandoffOp, HandsOn
            <3> QED BY <1>2, <2>1, <2>4, <3>1, CompletionHands
        <2> HIDE DEF visit, update, resume
        <2>6. update \o visit = <<u>> /\ visit \o update = <<u>>
            <3>1. <<u>> \in Seq({u})
                OBVIOUS
            <3> QED BY <2>2, <3>1
        <2>7. CASE cont = "start"
            <3>1. Hands(frames, <<u>>)
                BY <2>1, <2>7, UpdateHands DEF May
            <3> QED BY <2>6, <2>7, <3>1 DEF Arrive, visit, update
        <2>8. CASE cont = "submit"
            <3>1. Arrive(cont, sid, wf, at, data) = (visit \o update) \o resume
                BY <2>8 DEF Arrive, visit, update, resume
            <3>2. (visit \o update) \o resume = p
                BY <2>2, <2>4, <2>6
            <3> QED BY <2>5, <3>1, <3>2
        <2> QED BY <2>3, <2>7, <2>8 DEF Conts
    <1> QED BY <1>1, <1>2

LEMMA ProceedHands ==
    ASSUME NEW frames, NEW cont \in Conts, NEW sid, NEW wf, NEW at, NEW data,
           May(frames, cont, sid, wf, at)
    PROVE  Hands(frames, Proceed(cont, sid, wf, at, data))
    <1>1. CASE at # COMPLETE /\ StepAt(wf, at).kind = "mcp"
        <2>1. PICK a : a = AutoOp(cont, sid, wf, at, data)
            OBVIOUS
        <2>2. /\ a.op = "auto_execute" /\ a.cont = cont /\ a.sid = sid /\ a.wf = wf /\ a.at = at
            BY <2>1 DEF AutoOp
        <2>3. DOMAIN <<a>> = {1} /\ <<a>>[1] = a /\ IsSeq(<<a>>) /\ Range(<<a>>) = {a}
            BY One
        <2>4. Handing(frames, <<a>>)
            BY <1>1, <2>2, <2>3 DEF Handing, Finishes, MayRun
        <2> QED BY <1>1, <2>1, <2>2, <2>3, <2>4 DEF Hands, Proceed
    <1>2. CASE ~(at # COMPLETE /\ StepAt(wf, at).kind = "mcp")
        BY <1>2, ArriveHands DEF Proceed
    <1> QED BY <1>1, <1>2

LEMMA AcceptHands ==
    ASSUME NEW frames, NEW sid, NEW row, NEW step, NEW content, NEW branch
    PROVE  Hands(frames, AcceptPlan(sid, row, step, content, branch))
    <1> DEFINE wf        == WorkflowOf(row)
               data      == Put(row.step_data, step.id, content)
               guardrail == EvaluateGuardrails(wf, content, data,
                                               Count(row.step_visit_counts, step.id))
               target    == BranchTarget(wf, step, branch, guardrail)
               landing   == ApplySkipLoop(wf, target, data, ForceBranched(guardrail))
    <1>1. Hands(frames, Proceed("submit", sid, wf, landing.step, data))
        <2>1. "submit" \in Conts /\ May(frames, "submit", sid, wf, landing.step)
            BY DEF Conts, May
        <2> HIDE DEF wf, data, landing
        <2> QED BY <2>1, ProceedHands
    <1>2. PICK a, b, c : /\ a = EscalateOp(sid) /\ b = UpdateOp(sid, Null, data)
                         /\ c = EscalateParentOp(sid)
        OBVIOUS
    <1>3. \A o \in {a, b, c} :
             ~Finishes(o) /\ o.op \notin {"auto_execute", "clear_called_session", "create_session"}
        <2>1. Null # COMPLETE
            BY WorkflowsAssumption
        <2>2. b.op = "update_session" /\ b.step = Null
            BY <1>2 DEF UpdateOp
        <2>3. a.op = "set_escalation" /\ c.op = "escalate_parent"
            BY <1>2 DEF EscalateOp, EscalateParentOp
        <2> HIDE DEF wf, data, guardrail, target, landing
        <2> QED BY <2>1, <2>2, <2>3 DEF Finishes
    <1>4. AcceptPlan(sid, row, step, content, branch) =
              IF guardrail # Null /\ guardrail.action = "escalate"
              THEN <<EscalateOp(sid), UpdateOp(sid, Null, data), EscalateParentOp(sid)>>
              ELSE IF target = Null THEN <<>>
              ELSE IF landing.cascade THEN <<EscalateParentOp(sid)>>
              ELSE Proceed("submit", sid, wf, landing.step, data)
        BY DEF AcceptPlan
    <1> HIDE DEF wf, data, guardrail, target, landing
    <1>5. Passive(<<a, b, c>>)
        <2>1. IsSeq(<<a, b, c>>) /\ Range(<<a, b, c>>) = {a, b, c}
            BY Three
        <2> QED BY <1>3, <2>1 DEF Passive
    <1>6. Passive(<<EscalateOp(sid), UpdateOp(sid, Null, data), EscalateParentOp(sid)>>)
        BY <1>2, <1>5
    <1>7. Passive(<<EscalateParentOp(sid)>>) /\ Passive(<<>>)
        BY PassiveOps, PassiveEmpty
    <1> QED BY <1>1, <1>4, <1>6, <1>7, PassiveHands

LEMMA SubmitHands ==
    ASSUME NEW frames, NEW sid, NEW row, NEW content, NEW branch, NEW art
    PROVE  Hands(frames, SubmitPlan(sid, row, content, branch, art))
    <1> DEFINE step == StepAt(WorkflowOf(row), row.current_step)
    <1>1. PICK accept, a, r, checkpoint :
             /\ accept = AcceptPlan(sid, row, step, content, branch)
             /\ a = ArtifactOp(sid, step.id, art)
             /\ r = RetryOp(sid, step.id, step.max_retries)
             /\ checkpoint = IF art \in step.checkpoints THEN <<a>> ELSE <<>>
        OBVIOUS
    <1>2. Passive(<<a>>) /\ Passive(<<r>>) /\ Passive(<<>>)
        BY <1>1, PassiveOps, PassiveEmpty
    <1>3. Hands(frames, accept)
        BY <1>1, AcceptHands
    <1>4. Hands(frames, checkpoint) /\ Hands(frames, <<r>>) /\ Hands(frames, <<>>)
        BY <1>1, <1>2, PassiveHands
    <1>5. Hands(frames, checkpoint \o accept)
        BY <1>3, <1>4, HandsJoined
    <1>6. SubmitPlan(sid, row, content, branch, art)
             \in {<<>>, checkpoint \o accept, checkpoint, <<r>>, accept}
        BY <1>1 DEF SubmitPlan
    <1> QED BY <1>3, <1>4, <1>5, <1>6

LEMMA AdvanceHands ==
    ASSUME NEW frames, NEW parent, NEW wf, WellFormed(wf), HandsBack(wf),
           NEW step \in Range(wf.steps), step.kind = "call", NEW data
    PROVE  Hands(frames, AdvancePlan(parent, wf, step, data))
    <1>1. PICK landing : landing = ApplySkipLoop(wf, DefaultTarget(wf, step), data, FALSE)
        OBVIOUS
    <1>2. Stops(wf, FindStep(wf, step.id) + 1)
        <2>1. PICK n \in 1..Len(wf.steps) : step = wf.steps[n]
            BY NamedOnce DEF Range
        <2>2. FindStep(wf, step.id) = n /\ n \in DOMAIN wf.steps
            BY <2>1, NamedOnce
        <2> QED BY <2>1, <2>2 DEF HandsBack
    <1>3. landing.step # COMPLETE /\ Stops(wf, FindStep(wf, landing.step))
        BY <1>1, <1>2, StopsAhead
    <1>4. Hands(frames, Proceed("advance", parent, wf, landing.step, data))
        <2>1. "advance" \in Conts /\ May(frames, "advance", parent, wf, landing.step)
            BY <1>3 DEF Conts, May
        <2> QED BY <2>1, ProceedHands
    <1>5. AdvancePlan(parent, wf, step, data) =
             IF landing.cascade THEN <<>> ELSE Proceed("advance", parent, wf, landing.step, data)
        BY <1>1 DEF AdvancePlan
    <1> QED BY <1>4, <1>5, PassiveEmpty, PassiveHands

\* Unlinking the session that was deleted just before.
LEMMA UnlinkHands ==
    ASSUME NEW frames, NEW child, NEW sid, NEW tolerant, TopFrames(frames, sid) \subseteq {child}
    PROVE  Hands(frames, <<DeleteOp(child, tolerant), ClearOp(sid)>>)
    <1>1. PICK d, c, q : /\ d = DeleteOp(child, tolerant) /\ c = ClearOp(sid) /\ q = <<d, c>>
        OBVIOUS
    <1>2. /\ d.op = "delete_session" /\ d.sid = child
          /\ c.op = "clear_called_session" /\ c.sid = sid
        BY <1>1 DEF DeleteOp, ClearOp
    <1>3. IsSeq(q) /\ Range(q) = {d, c}
        BY <1>1, Two
    <1>4. DOMAIN q = {1, 2} /\ q[1] = d /\ q[2] = c
        BY <1>1
    <1>5. q[2 - 1] = d /\ 2 - 1 \in DOMAIN q
        BY <1>4
    <1>6. Handing(frames, q)
        BY <1>2, <1>4, <1>5 DEF Handing, Finishes
    <1> QED BY <1>1, <1>2, <1>3, <1>6 DEF Hands

\* The one frame above a session that stands below `child`.
LEMMA OneAbove ==
    ASSUME Tree, StoreOK, NEW child \in DOMAIN stack, NEW p \in ParentsOf(stack, child)
    PROVE  TopFrames(stack, p) = {child}
    <1>1. stack[child] \in Frame
        BY DEF StoreOK
    <1>2. /\ ChildSlot(stack, p).root = stack[child].root
          /\ ChildSlot(stack, p).depth = stack[child].depth
        <2>1. CASE stack[child].depth = 1
            <3>1. p = stack[child].root /\ p \notin DOMAIN stack
                BY <2>1 DEF ParentsOf, Tree, RootsFree
            <3> QED BY <2>1, <3>1 DEF ChildSlot
        <2>2. CASE stack[child].depth # 1
            <3>1. p \in FramesAt(stack, stack[child].root, stack[child].depth - 1)
                BY <2>2 DEF ParentsOf
            <3>2. /\ p \in DOMAIN stack /\ stack[p].root = stack[child].root
                  /\ stack[p].depth = stack[child].depth - 1
                BY <3>1 DEF FramesAt
            <3>3. stack[child].depth \in Nat
                BY <1>1 DEF Frame
            <3> QED BY <3>2, <3>3 DEF ChildSlot
        <2> QED BY <2>1, <2>2
    <1>3. TopFrames(stack, p) =
             {s \in DOMAIN stack : /\ stack[s].root = stack[child].root
                                   /\ stack[s].depth = stack[child].depth}
        BY <1>2 DEF TopFrames, FramesAt
    <1> QED BY <1>3 DEF Tree, OneFramePerSlot

LEMMA PropagateHands ==
    ASSUME NoTailCalls, Tree, StoreOK, NEW child \in DOMAIN stack,
           NEW p \in ParentsOf(stack, child), p \in DOMAIN sessions,
           NEW childWf, NEW childData, NEW plan, plan = PropagatePlan(child, childWf, childData, p)
    PROVE  /\ Hands(stack, plan) /\ plan # <<>>
           /\ \/ HandsOn(Head(plan), child)
              \/ Head(plan).op = "delete_session" /\ Head(plan).sid = child
              \/ Head(plan).op = "set_escalation" /\ Head(plan).sid = p
    <1>1. PICK row, wf, at, artifact :
             /\ row = sessions[p] /\ wf = WorkflowOf(row) /\ at = row.current_step
             /\ artifact = Artifact(childWf, childData)
        OBVIOUS
    <1>2. WellFormed(wf) /\ HandsBack(wf)
        BY <1>1, ReadyRow DEF StoreOK
    <1>3. PICK e, f, d, c, advance :
             /\ e = EscalateOp(p) /\ f = EscalateParentOp(child)
             /\ d = DeleteOp(child, FALSE) /\ c = ClearOp(p)
             /\ advance = AdvancePlan(p, wf, StepAt(wf, at), Put(row.step_data, at, artifact))
        OBVIOUS
    <1>4. plan = IF at \notin StepIds(wf) \/ StepAt(wf, at).kind # "call" THEN <<e>>
                 ELSE IF StepAt(wf, at).output_schema /\ artifact \notin ValidContent THEN <<f>>
                 ELSE <<d, c>> \o advance
        BY <1>1, <1>3 DEF PropagatePlan
    <1>5. CASE plan = <<e>>
        <2>1. e.op = "set_escalation" /\ e.sid = p
            BY <1>3 DEF EscalateOp
        <2> QED BY <1>3, <1>5, <2>1, PassiveOps, PassiveHands, One
    <1>6. CASE plan = <<f>>
        <2>1. HandsOn(f, child)
            BY <1>3 DEF EscalateParentOp, HandsOn
        <2> QED BY <1>3, <1>6, <2>1, PassiveOps, PassiveHands, One
    <1>7. CASE plan = <<d, c>> \o advance /\ at \in StepIds(wf) /\ StepAt(wf, at).kind = "call"
        <2>1. StepAt(wf, at) \in Range(wf.steps)
            BY <1>2, <1>7, FoundStep
        <2>2. Hands(stack, advance)
            BY <1>2, <1>3, <1>7, <2>1, AdvanceHands
        <2>3. Hands(stack, <<d, c>>)
            BY <1>3, OneAbove, UnlinkHands
        <2>4. plan # <<>> /\ Head(plan) = d
            BY <1>7, <2>2, HeadOfJoined DEF Hands
        <2>5. d.op = "delete_session" /\ d.sid = child
            BY <1>3 DEF DeleteOp
        <2> QED BY <1>7, <2>2, <2>3, <2>4, <2>5, HandsJoined
    <1> QED BY <1>4, <1>5, <1>6, <1>7

LEMMA ReviseHands ==
    ASSUME NEW frames, NEW sid, NEW wf, HandsBack(wf), NEW step, step.id \in StepIds(wf),
           NEW child, child # Null => TopFrames(frames, sid) \subseteq {child}
    PROVE  Hands(frames, RevisePlan(sid, wf, step, child))
    <1> DEFINE after    == StepsAfter(wf, step.id)
               unlink   == IF child = Null THEN <<>> ELSE <<DeleteOp(child, TRUE), ClearOp(sid)>>
               callStep == IF step.kind = "call"
                           THEN unlink \o <<InvalidateOp(sid, {step.id})>> ELSE <<>>
    <1>1. Hands(frames, <<>>)
        BY PassiveEmpty, PassiveHands
    <1>2. Hands(frames, unlink)
        BY <1>1, UnlinkHands
    <1>3. /\ Hands(frames, <<InvalidateOp(sid, {step.id})>>) /\ Hands(frames, <<InvalidateOp(sid, after)>>)
          /\ Hands(frames, <<UpdateOp(sid, step.id, Null)>>)
        <2>1. step.id # COMPLETE
            BY DEF HandsBack
        <2> HIDE DEF after
        <2> QED BY <2>1, PassiveOps, PassiveHands
    <1> HIDE DEF unlink
    <1>4. Hands(frames, callStep)
        BY <1>1, <1>2, <1>3, HandsJoined
    <1> HIDE DEF callStep, after
    <1>5. Hands(frames, (<<InvalidateOp(sid, after)>> \o callStep) \o <<UpdateOp(sid, step.id, Null)>>)
        BY <1>3, <1>4, HandsJoined
    <1> QED BY <1>5 DEF RevisePlan, unlink, callStep, after

---------------------------------------------------------------------------
(***************************************************************************)
(* What is owed from one step to the next.                                 *)
(***************************************************************************)
\* With Settled and MarkersStay: rows keep their workflow and stay escalated,
\* and a frame goes only with its session.
RowsPass ==
    \A s \in DOMAIN sessions' :
       SameWorkflow(sessions[s], sessions'[s]) /\ (sessions[s].escalation => sessions'[s].escalation)
FramesPass == DOMAIN stack \cap DOMAIN sessions' \subseteq DOMAIN stack'
Passes == Settled /\ MarkersStay /\ RowsPass /\ FramesPass /\ UNCHANGED <<live, restarts>>

LEMMA PaidOn ==
    ASSUME Passes, NEW s \in DOMAIN sessions', Paid(s),
           IsComplete(sessions'[s]) => IsComplete(sessions[s])
    PROVE  Paid(s)'
    <1>1. PICK p : p = sessions[s].parent_session_id
        OBVIOUS
    <1>2. sessions'[s].parent_session_id = p
        BY <1>1 DEF Passes, Settled
    <1>3. CASE p \notin DOMAIN sessions'
        BY <1>2, <1>3 DEF Paid, Resolve
    <1>4. CASE p \in DOMAIN sessions'
        <2>1. /\ p \in DOMAIN sessions
              /\ sessions'[p].workflow_type = sessions[p].workflow_type
              /\ sessions'[p].workflow_fingerprint = sessions[p].workflow_fingerprint
              /\ sessions[p].escalation => sessions'[p].escalation
              /\ sessions[p].current_step = WORKFLOW_CHANGED =>
                    sessions'[p].current_step = WORKFLOW_CHANGED
            BY <1>4 DEF Passes, Settled, RowsPass, SameWorkflow, MarkersStay
        <2>2. live' = live
            BY DEF Passes
        <2>3. Resolve(p)' = "ok" => Resolve(p) = "ok"
            BY <1>4, <2>1, <2>2 DEF Resolve
        <2> QED BY <1>1, <1>2, <2>1, <2>3 DEF Paid
    <1> QED BY <1>3, <1>4

LEMMA StandOn ==
    ASSUME OnParent, Passes
    PROVE  OnParent'
    <1> SUFFICES ASSUME NEW s \in DOMAIN stack',
                        sessions'[s].parent_session_id \in DOMAIN sessions' \ DOMAIN stack'
                 PROVE  /\ stack'[s].root = sessions'[s].parent_session_id
                        /\ stack'[s].depth = 1
        BY DEF OnParent
    <1>1. /\ s \in DOMAIN stack /\ stack'[s].root = stack[s].root
          /\ stack'[s].depth = stack[s].depth
          /\ sessions'[s].parent_session_id = sessions[s].parent_session_id
        BY DEF Passes, Settled
    <1>2. sessions[s].parent_session_id \in DOMAIN sessions \ DOMAIN stack
        BY <1>1 DEF Passes, Settled, FramesPass
    <1> QED BY <1>1, <1>2 DEF OnParent

LEMMA HandsNext ==
    ASSUME OneThread, IInv, HandInv, NEW t \in Thread, NEW plan, Do(t, plan),
           UNCHANGED restarts, OnParent', HandingOver(plan)',
           \A s \in DOMAIN stack' : Paid(s)' \/ Owes(plan, s)'
    PROVE  HandInv'
    <1>1. DOMAIN th = Thread
        BY DEF IInv, ThreadsOK
    <1>2. th'[t] = plan /\ \A u \in Thread : u = t
        BY <1>1 DEF Do, OneThread
    <1>3. \A u \in Thread : HandingOver(th[u])'
        BY <1>2
    <1>4. \A s \in DOMAIN stack' : Owes(plan, s)' => \E u \in Thread : Owes(th[u], s)'
        BY <1>2
    <1> QED BY <1>3, <1>4 DEF HandInv

LEMMA HandsPlanned ==
    ASSUME NEW plan, Hands(stack', plan)
    PROVE  HandingOver(plan)'
    BY HeadAndTail DEF Hands, HandingOver

\* A decision.
LEMMA Undisturbed ==
    ASSUME UnchangedStore, UnchangedServer, OnParent
    PROVE  /\ OnParent' /\ stack' = stack /\ UNCHANGED restarts
           /\ \A s : Paid(s) => Paid(s)'
           /\ \A q, s : Owes(q, s) => Owes(q, s)'
    <1>1. sessions' = sessions /\ stack' = stack /\ live' = live
        BY DEF UnchangedStore, UnchangedServer
    <1>2. \A p : Resolve(p)' = Resolve(p)
        BY <1>1 DEF Resolve
    <1> QED BY <1>1, <1>2 DEF OnParent, Paid, Owes, UnchangedServer

LEMMA DecisionHands ==
    ASSUME OneThread, IInv, HandInv, NEW t \in Thread, NEW plan, Do(t, plan), UnchangedStore,
           UnchangedServer, HandingOver(plan)',
           \A s \in DOMAIN stack : Owes(th[t], s) => Paid(s) \/ Owes(plan, s)
    PROVE  HandInv'
    <1>1. \A s \in DOMAIN stack : Paid(s) \/ Owes(plan, s)
        BY DEF HandInv, OneThread
    <1> QED BY <1>1, Undisturbed, HandsNext DEF HandInv

\* A decision or a call at a time when nothing is owed.
Neutral == {"submit_step", "revise_step", "enter_sub_workflow", "push_flow", "pop_flow"}
LEMMA NeutralHands ==
    ASSUME OneThread, IInv, HandInv, NEW t \in Thread, NEW plan, Do(t, plan), UnchangedStore,
           UnchangedServer, th[t] = <<>> \/ Head(th[t]).op \in Neutral,
           HandingOver(plan)' \/ Hands(stack, plan)
    PROVE  HandInv'
    <1>1. \A s : ~Owes(th[t], s)
        BY DEF Owes, HandsOn, Neutral
    <1>2. HandingOver(plan)'
        BY HandsPlanned DEF UnchangedStore
    <1> QED BY <1>1, <1>2, DecisionHands

\* What is left of a plan.
LEMMA TailHands ==
    ASSUME Tree, Settled, NEW q, IsSeq(q), q # <<>>, Handing(stack, q),
           \A o \in Range(Tail(q)) : o.op # "create_session",
           Head(q).op = "delete_session" => Head(q).sid \notin DOMAIN stack'
    PROVE  Hands(stack', Tail(q))
    <1>1. PICK r : r = Tail(q)
        OBVIOUS
    <1>2. /\ DOMAIN q \subseteq Nat \ {0} /\ 1 \in DOMAIN q /\ q[1] = Head(q)
          /\ DOMAIN r \subseteq Nat \ {0}
          /\ \A i \in DOMAIN r : i + 1 \in DOMAIN q /\ r[i] = q[i + 1]
          /\ \A i \in DOMAIN q : i # 1 => i - 1 \in DOMAIN r
        BY <1>1, TailAt
    <1>3. DOMAIN stack' \subseteq DOMAIN stack
        BY DEF Settled
    <1>4. \A s : TopFrames(stack', s) \subseteq TopFrames(stack, s)
                 /\ TopFrames(stack', s) \subseteq DOMAIN stack'
        BY FramesRemain DEF TopFrames, FramesAt
    <1>5. ASSUME NEW i \in DOMAIN r
          PROVE  /\ Finishes(r[i]) /\ r[i].sid \in DOMAIN stack' =>
                       i + 1 \in DOMAIN r /\ HandsOn(r[i + 1], r[i].sid)
                 /\ r[i].op = "auto_execute" => MayRun(stack', r[i])
                 /\ r[i].op = "clear_called_session" =>
                       \/ TopFrames(stack', r[i].sid) = {}
                       \/ /\ i - 1 \in DOMAIN r /\ r[i - 1].op = "delete_session"
                          /\ TopFrames(stack', r[i].sid) \subseteq {r[i - 1].sid}
        <2>1. i \in Nat \ {0} /\ i + 1 \in DOMAIN q /\ r[i] = q[i + 1]
            BY <1>2
        <2>2. ASSUME Finishes(r[i]), r[i].sid \in DOMAIN stack'
              PROVE  i + 1 \in DOMAIN r /\ HandsOn(r[i + 1], r[i].sid)
            <3>1. (i + 1) + 1 \in DOMAIN q /\ HandsOn(q[(i + 1) + 1], r[i].sid)
                BY <1>3, <2>1, <2>2 DEF Handing
            <3>2. ((i + 1) + 1) - 1 \in DOMAIN r /\ ((i + 1) + 1) - 1 = i + 1
                BY <1>2, <2>1, <3>1
            <3> QED BY <1>2, <3>1, <3>2
        <2>3. r[i].op = "auto_execute" => MayRun(stack', r[i])
            BY <1>3, <2>1 DEF Handing, MayRun, May
        <2>4. ASSUME r[i].op = "clear_called_session", TopFrames(stack', r[i].sid) # {}
              PROVE  /\ i - 1 \in DOMAIN r /\ r[i - 1].op = "delete_session"
                     /\ TopFrames(stack', r[i].sid) \subseteq {r[i - 1].sid}
            <3>1. /\ (i + 1) - 1 \in DOMAIN q /\ q[(i + 1) - 1].op = "delete_session"
                  /\ TopFrames(stack, r[i].sid) \subseteq {q[(i + 1) - 1].sid}
                BY <1>4, <2>1, <2>4 DEF Handing
            <3>2. i \in DOMAIN q /\ q[i].op = "delete_session" /\ TopFrames(stack, r[i].sid) \subseteq {q[i].sid}
                <4>1. (i + 1) - 1 = i
                    BY <2>1
                <4> QED BY <3>1, <4>1
            <3>3. i # 1
                BY <1>2, <1>4, <2>4, <3>2
            <3>4. i - 1 \in DOMAIN r /\ (i - 1) + 1 = i
                BY <1>2, <2>1, <3>2, <3>3
            <3>5. r[i - 1] = q[i]
                BY <1>2, <3>4
            <3> QED BY <1>4, <3>2, <3>4, <3>5
        <2> QED BY <2>2, <2>3, <2>4
    <1>6. Handing(stack', r)
        BY <1>5 DEF Handing
    <1>7. IsSeq(r)
        BY <1>1, HeadAndTail
    <1> QED BY <1>1, <1>6, <1>7 DEF Hands

\* A transaction at the head of its plan.
LEMMA TransactionHands ==
    ASSUME OneThread, IInv, SoloInv, HandInv, NEW t \in Thread, th[t] # <<>>,
           Do(t, Tail(th[t])), Passes,
           NEW h, h = Head(th[t]),
           h.op \notin {"create_session", "auto_resume", "escalate_parent"},
           h.op = "delete_session" => h.sid \notin DOMAIN stack',
           h.op = "set_escalation" /\ h.sid \in DOMAIN sessions' => sessions'[h.sid].escalation,
           \A s \in DOMAIN stack' : IsComplete(sessions'[s]) =>
              IsComplete(sessions[s]) \/ (Finishes(h) /\ h.sid = s)
    PROVE  HandInv'
    <1>1. PICK q : q = th[t]
        OBVIOUS
    <1>2. IsSeq(q) /\ Handing(stack, q) /\ \A o \in Range(Tail(q)) : o.op # "create_session"
        BY <1>1 DEF IInv, ThreadsOK, WorkOK, Drawing, HandInv, HandingOver
    <1>3. Hands(stack', Tail(q))
        BY <1>1, <1>2, TailHands DEF SoloInv, Passes
    <1>4. ASSUME NEW s \in DOMAIN stack'
          PROVE  Paid(s)' \/ Owes(Tail(q), s)'
        <2>1. /\ s \in DOMAIN stack /\ s \in DOMAIN sessions'
              /\ sessions'[s].parent_session_id = sessions[s].parent_session_id
            BY DEF Passes, Settled
        <2>2. CASE IsComplete(sessions'[s]) /\ ~IsComplete(sessions[s])
            <3>1. Finishes(h) /\ h.sid = s
                BY <2>2
            <3>2. 1 \in DOMAIN q /\ q[1] = h
                BY <1>1, <1>2, TailAt
            <3>3. 1 + 1 \in DOMAIN q /\ HandsOn(q[1 + 1], s)
                BY <1>2, <2>1, <3>1, <3>2 DEF Handing
            <3>4. Tail(q) # <<>> /\ Head(Tail(q)) = q[1 + 1]
                <4>1. PICK r : r = Tail(q) /\ IsSeq(r)
                    BY <1>1, <1>2, HeadAndTail
                <4>2. (1 + 1) - 1 \in DOMAIN r /\ 1 + 1 # 1 /\ (1 + 1) - 1 = 1
                    BY <1>1, <1>2, <3>3, <4>1, TailAt
                <4>3. 1 \in DOMAIN r /\ r[1] = q[1 + 1] /\ r # <<>>
                    BY <1>1, <1>2, <4>1, <4>2, TailAt
                <4> QED BY <4>1, <4>3, TailAt
            <3> QED BY <3>3, <3>4 DEF Owes
        <2>3. CASE IsComplete(sessions'[s]) => IsComplete(sessions[s])
            <3>1. CASE Paid(s)
                BY <2>1, <2>3, <3>1, PaidOn
            <3>2. CASE Owes(q, s)
                <4>1. h.op = "set_escalation" /\ h.sid = sessions[s].parent_session_id
                    BY <1>1, <3>2 DEF Owes, HandsOn
                <4> QED BY <2>1, <4>1 DEF Paid, Resolve
            <3> QED BY <1>1, <2>1, <3>1, <3>2 DEF HandInv, OneThread
        <2> QED BY <2>2, <2>3
    <1>5. UNCHANGED restarts /\ OnParent'
        BY StandOn DEF Passes, HandInv
    <1> QED BY <1>1, <1>3, <1>4, <1>5, HandsPlanned, HandsNext

---------------------------------------------------------------------------
(***************************************************************************)
(* The transactions that create no session.                                *)
(***************************************************************************)
LEMMA RowPasses ==
    ASSUME Tree, Settled, MarkersStay, NEW sid \in DOMAIN sessions, NEW row,
           UNCHANGED <<stack, live, restarts>>, sessions' = [sessions EXCEPT ![sid] = row],
           SameWorkflow(sessions[sid], row), sessions[sid].escalation => row.escalation
    PROVE  Passes
    <1>1. /\ DOMAIN sessions' = DOMAIN sessions /\ sessions'[sid] = row
          /\ \A s \in DOMAIN sessions \ {sid} : sessions'[s] = sessions[s]
        OBVIOUS
    <1>2. RowsPass
        BY <1>1 DEF RowsPass, SameWorkflow
    <1> QED BY <1>1, <1>2 DEF Passes, FramesPass

\* A write of a column that says neither where a session stands nor whose
\* child it is.
LEMMA ColumnPasses ==
    ASSUME IInv, SoloInv, MarkersStay, NEW t \in Thread, NEW v, NEW name, NEW rest,
           NEW col \in {"retry_counts", "step_visit_counts", "artifact_checkpoints", "step_data",
                        "escalation"},
           col = "escalation" => v,
           WriteRow(t, name, [sessions[Head(th[t]).sid] EXCEPT ![col] = v], rest)
    PROVE  /\ Passes /\ Do(t, rest) /\ th[t] # <<>> /\ Head(th[t]).op = name
           /\ \A s \in DOMAIN sessions' : sessions'[s].current_step = sessions[s].current_step
           /\ col = "escalation" => sessions'[Head(th[t]).sid].escalation
    <1>1. PICK h, row : h = Head(th[t]) /\ row = [sessions[h.sid] EXCEPT ![col] = v]
        OBVIOUS
    <1>2. /\ th[t] # <<>> /\ h.op = name /\ h.sid \in DOMAIN sessions
          /\ sessions' = [sessions EXCEPT ![h.sid] = row]
          /\ UNCHANGED <<stack, live, restarts>> /\ Do(t, rest)
        BY <1>1, WriteRowEffect
    <1>3. DOMAIN sessions[h.sid] = Column
        BY <1>2 DEF IInv, StoreOK, RowOK
    <1>4. /\ SameWorkflow(sessions[h.sid], row)
          /\ row.current_step = sessions[h.sid].current_step
          /\ row.parent_session_id = sessions[h.sid].parent_session_id
          /\ row.escalation = IF col = "escalation" THEN v ELSE sessions[h.sid].escalation
        BY <1>1, <1>3 DEF SameWorkflow, Column
    <1>5. Settled
        BY <1>2, <1>4, RowSettled DEF SoloInv
    <1>6. Passes
        BY <1>2, <1>4, <1>5, RowPasses DEF SoloInv
    <1>7. /\ DOMAIN sessions' = DOMAIN sessions /\ sessions'[h.sid] = row
          /\ \A s \in DOMAIN sessions \ {h.sid} : sessions'[s] = sessions[s]
        BY <1>2
    <1> QED BY <1>1, <1>2, <1>4, <1>6, <1>7

LEMMA ColumnHands ==
    ASSUME OneThread, IInv, SoloInv, HandInv, MarkersStay, NEW t \in Thread, NEW v, NEW name,
           NEW col \in {"retry_counts", "step_visit_counts", "artifact_checkpoints", "step_data",
                        "escalation"},
           col = "escalation" => v,
           name \in {"increment_visit", "set_escalation", "invalidate_steps", "store_artifact"},
           name = "set_escalation" => col = "escalation",
           WriteRow(t, name, [sessions[Head(th[t]).sid] EXCEPT ![col] = v], Tail(th[t]))
    PROVE  HandInv'
    <1>1. PICK h : h = Head(th[t])
        OBVIOUS
    <1>2. /\ Passes /\ Do(t, Tail(th[t])) /\ th[t] # <<>> /\ h.op = name
          /\ \A s \in DOMAIN sessions' : sessions'[s].current_step = sessions[s].current_step
          /\ col = "escalation" => sessions'[h.sid].escalation
        BY <1>1, ColumnPasses
    <1>3. \A s \in DOMAIN stack' : IsComplete(sessions'[s]) => IsComplete(sessions[s])
        BY <1>2 DEF IsComplete, Passes, Settled
    <1> QED BY <1>1, <1>2, <1>3, TransactionHands

\* A step of a thread that owes nothing.
LEMMA PassesHands ==
    ASSUME OneThread, IInv, HandInv, NEW t \in Thread, NEW plan, Do(t, plan), Passes,
           \A s : ~Owes(th[t], s), Hands(stack', plan),
           \A s \in DOMAIN sessions' : sessions'[s].current_step = sessions[s].current_step
    PROVE  HandInv'
    <1>1. ASSUME NEW s \in DOMAIN stack'
          PROVE  Paid(s)'
        <2>1. s \in DOMAIN stack /\ s \in DOMAIN sessions'
            BY DEF Passes, Settled
        <2>2. Paid(s)
            BY <2>1 DEF HandInv, OneThread
        <2> QED BY <2>1, <2>2, PaidOn DEF IsComplete
    <1>2. OnParent' /\ UNCHANGED restarts
        BY StandOn DEF HandInv, Passes
    <1> QED BY <1>1, <1>2, HandsPlanned, HandsNext

LEMMA IncrementRetryHands ==
    ASSUME OneThread, IInv, SoloInv, HandInv, MarkersStay, NEW t \in Thread,
           TransactIncrementRetry(t)
    PROVE  HandInv'
    <1>1. PICK o : o = Head(th[t])
        OBVIOUS
    <1>2. PICK v, row, col :
             /\ v = Increment(sessions[o.sid].retry_counts, o.step)
             /\ row = [sessions[o.sid] EXCEPT !.retry_counts = Increment(@, o.step)]
             /\ col = "retry_counts"
        OBVIOUS
    <1>3. row = [sessions[o.sid] EXCEPT ![col] = v]
        BY <1>2
    <1>4. PICK rest : /\ rest = IF row.retry_counts[o.step] >= o.max
                                THEN <<EscalateParentOp(o.sid)>> ELSE <<>>
                      /\ WriteRow(t, "increment_retry", row, rest)
        BY <1>1, <1>2 DEF TransactIncrementRetry
    <1>5. /\ Passes /\ Do(t, rest) /\ o.op = "increment_retry"
          /\ \A s \in DOMAIN sessions' : sessions'[s].current_step = sessions[s].current_step
        <2>1. /\ col \in {"retry_counts", "step_visit_counts", "artifact_checkpoints",
                         "step_data", "escalation"}
              /\ col # "escalation"
            BY <1>2
        <2>2. PICK name : name = "increment_retry"
            OBVIOUS
        <2>3. WriteRow(t, name, [sessions[Head(th[t]).sid] EXCEPT ![col] = v], rest)
            BY <1>1, <1>3, <1>4, <2>2
        <2> QED BY <1>1, <2>1, <2>2, <2>3, ColumnPasses
    <1>6. Hands(stack', rest)
        BY <1>4, PassiveOps, PassiveEmpty, PassiveHands
    <1>7. \A s : ~Owes(th[t], s)
        BY <1>1, <1>5 DEF Owes, HandsOn
    <1> QED BY <1>5, <1>6, <1>7, PassesHands

LEMMA UpdateSessionHands ==
    ASSUME OneThread, IInv, SoloInv, HandInv, MarkersStay, NEW t \in Thread,
           TransactUpdateSession(t)
    PROVE  HandInv'
    <1>1. PICK o, row : o = Head(th[t]) /\ row = sessions[o.sid]
        OBVIOUS
    <1>2. WriteRow(t, "update_session", UpdatedRow(row, o), Tail(th[t]))
        BY <1>1 DEF TransactUpdateSession, UpdatedRow
    <1>3. /\ th[t] # <<>> /\ o.op = "update_session" /\ o.sid \in DOMAIN sessions
          /\ sessions' = [sessions EXCEPT ![o.sid] = UpdatedRow(row, o)]
          /\ UNCHANGED <<stack, live, restarts>> /\ Do(t, Tail(th[t]))
        BY <1>1, <1>2, WriteRowEffect
    <1>4. RowOK(row)
        BY <1>1, <1>3 DEF IInv, StoreOK
    <1>5. PICK new : new = UpdatedRow(row, o)
        OBVIOUS
    <1>6. /\ SameWorkflow(row, new) /\ new.escalation = row.escalation
          /\ new.parent_session_id = row.parent_session_id
          /\ new.current_step = IF o.step = Null THEN row.current_step ELSE o.step
        BY <1>4, <1>5, UpdatedColumns
    <1>7. o \in Range(th[t])
        BY <1>1, <1>3, HeadAndTail DEF IInv, ThreadsOK, WorkOK
    <1>8. Moves(o) => Free(o.sid)
        BY <1>1, <1>3, <1>7 DEF SoloInv, PlanOK, MayMove
    <1>9. new.current_step \in {row.current_step, WORKFLOW_CHANGED} \/ Free(o.sid)
        BY <1>3, <1>6, <1>8 DEF Moves
    <1>10. Settled
        BY <1>1, <1>3, <1>5, <1>6, <1>9, RowSettled DEF SoloInv
    <1>11. Passes
        BY <1>1, <1>3, <1>5, <1>6, <1>10, RowPasses DEF SoloInv
    <1>12. ASSUME NEW s \in DOMAIN stack', IsComplete(sessions'[s])
           PROVE  IsComplete(sessions[s]) \/ (Finishes(o) /\ o.sid = s)
        <2>1. CASE s # o.sid
            BY <1>3, <1>12, <2>1
        <2>2. CASE s = o.sid
            <3>1. new.current_step = COMPLETE
                BY <1>3, <1>5, <1>12, <2>2 DEF IsComplete
            <3> QED BY <1>1, <1>3, <1>6, <2>2, <3>1 DEF IsComplete, Finishes
        <2> QED BY <2>1, <2>2
    <1> QED BY <1>1, <1>3, <1>11, <1>12, TransactionHands

LEMMA FramesHand ==
    ASSUME OneThread, IInv, SoloInv, HandInv, MarkersStay, NEW t \in Thread,
           TransactSetCalledSession(t) \/ TransactClearCalledSession(t)
    PROVE  HandInv'
    <1>1. PICK o : o = Head(th[t])
        OBVIOUS
    <1>2. /\ th[t] # <<>> /\ o.sid \in DOMAIN sessions
          /\ o.op \in {"set_called_session", "clear_called_session"}
          /\ sessions' = [sessions EXCEPT ![o.sid].updated_at = Now]
          /\ UNCHANGED <<live, restarts>> /\ Do(t, Tail(th[t]))
        BY <1>1, TransactEffect
           DEF TransactSetCalledSession, LinkChild, TransactClearCalledSession, UnlinkChild, db
    <1>3. CalmRows
        BY <1>2, TouchedCalm
    <1>4. \A s \in DOMAIN sessions' : sessions'[s].escalation = sessions[s].escalation
        <2>1. PICK row : row = [sessions[o.sid] EXCEPT !.updated_at = Now]
            OBVIOUS
        <2>2. row.escalation = sessions[o.sid].escalation
            BY <1>2, <2>1 DEF IInv, StoreOK, RowOK, Column
        <2>3. sessions' = [sessions EXCEPT ![o.sid] = row]
            BY <1>2, <2>1
        <2> QED BY <1>2, <2>2, <2>3
    <1>5. FramesPass
        <2>1. CASE TransactSetCalledSession(t)
            <3>1. stack' = IF o.child \in DOMAIN stack
                           THEN [stack EXCEPT ![o.child].call_step = o.call] ELSE stack
                BY <1>1, <2>1, TransactEffect DEF TransactSetCalledSession, LinkChild, db
            <3> QED BY <3>1 DEF FramesPass
        <2>2. CASE TransactClearCalledSession(t)
            <3>1. stack' = Without(stack, TopFrames(stack, o.sid)) /\ o.op = "clear_called_session"
                BY <1>1, <2>2, TransactEffect DEF TransactClearCalledSession, UnlinkChild, db
            <3>2. PICK q : q = th[t]
                OBVIOUS
            <3>3. IsSeq(q) /\ Handing(stack, q) /\ q # <<>> /\ Head(q) = o
                BY <1>1, <1>2, <3>1, <3>2 DEF IInv, ThreadsOK, WorkOK, HandInv, HandingOver
            <3>4. 1 \in DOMAIN q /\ q[1] = o /\ 1 - 1 \notin DOMAIN q
                BY <3>3, TailAt
            <3>5. TopFrames(stack, o.sid) = {}
                BY <3>1, <3>3, <3>4 DEF Handing
            <3> QED BY <3>1, <3>5 DEF FramesPass, Without, Restrict
        <2> QED BY <2>1, <2>2
    <1>6. Passes
        BY <1>2, <1>3, <1>4, <1>5, SetCalledSettled, ClearCalledSettled
           DEF Passes, RowsPass, CalmRows
    <1>7. \A s \in DOMAIN stack' : IsComplete(sessions'[s]) => IsComplete(sessions[s])
        BY <1>3, <1>6 DEF IsComplete, CalmRows, Passes, Settled
    <1> QED BY <1>1, <1>2, <1>6, <1>7, TransactionHands

LEMMA DeleteHands ==
    ASSUME OneThread, IInv, SoloInv, HandInv, MarkersStay, NEW t \in Thread,
           TransactDeleteSession(t)
    PROVE  HandInv'
    <1>1. PICK o : o = Head(th[t])
        OBVIOUS
    <1> DEFINE new == DeleteSessions(db, {o.sid})
    <1>2. new.sessions = Without(sessions, {o.sid}) /\ new.stack = Without(stack, {o.sid})
        BY DEF DeleteSessions, db
    <1> HIDE DEF new
    <1>3. Transact(t, "delete_session", new, Tail(th[t]))
        BY <1>1 DEF TransactDeleteSession, new
    <1>4. /\ th[t] # <<>> /\ o.op = "delete_session" /\ Do(t, Tail(th[t]))
          /\ sessions' = Without(sessions, {o.sid}) /\ stack' = Without(stack, {o.sid})
          /\ UNCHANGED <<live, restarts>>
        BY <1>1, <1>2, <1>3, TransactEffect
    <1>5. Settled /\ \A s \in DOMAIN sessions' : sessions'[s] = sessions[s]
        BY DeleteSettled
    <1>6. Passes
        <2>1. DOMAIN sessions' = DOMAIN sessions \ {o.sid} /\ DOMAIN stack' = DOMAIN stack \ {o.sid}
            BY <1>4 DEF Without, Restrict
        <2> QED BY <1>4, <1>5, <2>1 DEF Passes, RowsPass, FramesPass, SameWorkflow
    <1>7. \A s \in DOMAIN stack' : IsComplete(sessions'[s]) => IsComplete(sessions[s])
        BY <1>5 DEF Settled
    <1>8. o.sid \notin DOMAIN stack'
        BY <1>4 DEF Without, Restrict
    <1> QED BY <1>1, <1>4, <1>6, <1>7, <1>8, TransactionHands

---------------------------------------------------------------------------
(***************************************************************************)
(* The calls.                                                              *)
(***************************************************************************)
LEMMA ThenOnHands ==
    ASSUME NEW frames, NEW sid, NEW plan, Resolve(sid) = "ok" => Hands(frames, plan)
    PROVE  Hands(frames, ThenOn(sid, plan))
    <1>1. Passive(<<UpdateOp(sid, WORKFLOW_CHANGED, Null)>>) /\ Passive(<<>>)
        BY PassiveOps, PassiveEmpty DEF COMPLETE, WORKFLOW_CHANGED
    <1> QED BY <1>1, PassiveHands DEF ThenOn

\* What comes after a creation.
LEMMA StartsPlan ==
    ASSUME NEW c, NEW plan, IsSeq(plan), plan # <<>>, Head(plan) = c, c.op = "create_session",
           \A o \in Range(plan) :
              /\ o.op # "clear_called_session"
              /\ o.op = "auto_execute" => o.cont = "start" /\ StepAt(o.wf, o.at).kind = "mcp"
    PROVE  HandingOver(plan)'
    <1>1. Range(Tail(plan)) \subseteq Range(plan)
        BY HeadAndTail
    <1> QED BY <1>1 DEF HandingOver, Starts

LEMMA StartWorkflowHands ==
    ASSUME OneThread, NoTailCalls, IInv, HandInv, NEW t \in Thread, NEW w \in Workflow, NEW sid,
           StartWorkflow(t, w, sid)
    PROVE  HandInv'
    <1> DEFINE wf == Definition[w][live[w]]
    <1>1. PICK c, visit, a, more :
             /\ c = CreateOp(sid, NewRow(w, Null), "call", Null, Null)
             /\ visit = VisitOp(sid, FirstStep(wf).id)
             /\ a = AutoOp("start", sid, wf, FirstStep(wf).id, <<>>)
             /\ more = IF FirstStep(wf).kind = "mcp" THEN <<a>> ELSE <<>>
        OBVIOUS
    <1>2. PICK plan : plan = <<c, visit>> \o more
        OBVIOUS
    <1>3. Do(t, plan) /\ UnchangedStore /\ UnchangedServer /\ th[t] = <<>> /\ live[w] # Null
        BY <1>1, <1>2 DEF StartWorkflow, Idle
    <1>4. /\ c.op = "create_session" /\ visit.op = "increment_visit"
          /\ a.op = "auto_execute" /\ a.cont = "start" /\ a.wf = wf /\ a.at = FirstStep(wf).id
        BY <1>1 DEF CreateOp, VisitOp, AutoOp
    <1>5. WellFormed(wf) /\ HandsBack(wf)
        BY <1>3, WorkflowsAssumption DEF IInv, LiveOK, NoTailCalls
    <1>6. StepAt(wf, FirstStep(wf).id) = FirstStep(wf)
        <2>1. 1 \in 1..Len(wf.steps)
            BY <1>5, NamedOnce DEF WellFormed
        <2>2. FindStep(wf, wf.steps[1].id) = 1
            BY <1>5, <2>1, NamedOnce
        <2> QED BY <2>2 DEF StepAt, FirstStep
    <1>7. IsSeq(more) /\ Range(more) \subseteq {a} /\ (more # <<>> => StepAt(a.wf, a.at).kind = "mcp")
        BY <1>1, <1>4, <1>6, One, Empty
    <1>8. more = <<>> => Range(more) = {}
        BY Empty
    <1> HIDE DEF wf
    <1>9. IsSeq(plan) /\ plan # <<>> /\ Head(plan) = c /\ Range(plan) = {c, visit} \cup Range(more)
        <2>1. IsSeq(<<c, visit>>) /\ Range(<<c, visit>>) = {c, visit}
            BY Two
        <2>2. IsSeq(plan) /\ Range(plan) = {c, visit} \cup Range(more)
            BY <1>2, <1>7, <2>1, Joined
        <2> QED BY <1>2, <1>7, <2>2, HeadOfJoined
    <1>10. \A o \in Range(plan) :
              /\ o.op # "clear_called_session"
              /\ o.op = "auto_execute" => o.cont = "start" /\ StepAt(o.wf, o.at).kind = "mcp"
        BY <1>4, <1>7, <1>8, <1>9
    <1>11. HandingOver(plan)'
        BY <1>4, <1>9, <1>10, StartsPlan
    <1> QED BY <1>3, <1>11, NeutralHands

\* A call of one operation.
LEMMA CallHands ==
    ASSUME OneThread, IInv, HandInv, NEW t \in Thread, NEW o, Do(t, <<o>>), UnchangedStore,
           UnchangedServer, th[t] = <<>>, o.op \in Neutral \cup {"delete_session"}
    PROVE  HandInv'
    <1>1. Passive(<<o>>)
        BY PassiveOne DEF Neutral, Finishes
    <1> QED BY <1>1, PassiveHands, NeutralHands

LEMMA CallsHand ==
    ASSUME OneThread, NoTailCalls, IInv, HandInv, NEW t \in Thread, Call(t)
    PROVE  HandInv'
    <1>1. CASE \E w \in Workflow, sid \in Sid : StartWorkflow(t, w, sid)
        BY <1>1, StartWorkflowHands
    <1>2. CASE \E sid \in Sid : ResolveMismatch(t, sid)
        <2>1. PICK sid, plan : /\ plan = ThenOn(sid, <<>>) /\ Do(t, plan)
                               /\ UnchangedStore /\ UnchangedServer /\ th[t] = <<>>
            BY <1>2 DEF ResolveMismatch, Idle
        <2>2. Hands(stack, plan)
            BY <2>1, ThenOnHands, PassiveEmpty, PassiveHands
        <2> QED BY <2>1, <2>2, NeutralHands
    <1>3. CASE \E sid \in DOMAIN sessions, content \in Content :
                 \E branch \in StepNames \cup {Null}, art \in ArtifactNames \cup {Null} :
                    SubmitStep(t, sid, content, branch, art)
        BY <1>3, CallHands DEF SubmitStep, Resolved, Idle, Neutral
    <1>4. CASE \E sid \in DOMAIN sessions, step \in StepNames : ReviseStep(t, sid, step)
        BY <1>4, CallHands DEF ReviseStep, Resolved, Idle, Neutral
    <1>5. CASE \E sid \in DOMAIN sessions, child \in Sid : EnterSubWorkflow(t, sid, child)
        BY <1>5, CallHands DEF EnterSubWorkflow, Resolved, Idle, Neutral
    <1>6. CASE \E sid \in DOMAIN sessions, child \in Sid, w \in Workflow :
                 PushFlow(t, sid, w, child)
        BY <1>6, CallHands DEF PushFlow, Resolved, Idle, Neutral
    <1>7. CASE \E sid \in DOMAIN sessions : PopFlow(t, sid)
        BY <1>7, CallHands DEF PopFlow, Resolved, Idle, Neutral
    <1>8. CASE \E sid \in DOMAIN sessions : DeleteSession(t, sid)
        <2>1. PICK sid, o : o = DeleteOp(sid, FALSE) /\ Do(t, <<o>>) /\ UnchangedStore
                            /\ UnchangedServer /\ th[t] = <<>>
            BY <1>8 DEF DeleteSession, Idle
        <2>2. o.op = "delete_session"
            BY <2>1 DEF DeleteOp
        <2> QED BY <2>1, <2>2, CallHands
    <1> QED BY <1>1, <1>2, <1>3, <1>4, <1>5, <1>6, <1>7, <1>8 DEF Call

---------------------------------------------------------------------------
(***************************************************************************)
(* The decisions.                                                          *)
(***************************************************************************)
LEMMA DecideSubmitStepHands ==
    ASSUME OneThread, IInv, HandInv, NEW t \in Thread, DecideSubmitStep(t)
    PROVE  HandInv'
    <1>1. PICK o, plan :
             /\ o = Head(th[t]) /\ plan = SubmitPlan(o.sid, o.row, o.content, o.branch, o.art)
             /\ Do(t, plan) /\ UnchangedStore /\ UnchangedServer
             /\ o.op = "submit_step"
        BY DEF DecideSubmitStep, Decide, Pending
    <1>2. Hands(stack, plan)
        BY <1>1, SubmitHands
    <1> QED BY <1>1, <1>2, NeutralHands DEF Neutral

LEMMA DecideReviseStepHands ==
    ASSUME OneThread, NoTailCalls, IInv, SoloInv, HandInv, NEW t \in Thread, DecideReviseStep(t)
    PROVE  HandInv'
    <1>1. PICK o, wf, step : o = Head(th[t]) /\ wf = WorkflowOf(o.row) /\ step = StepAt(wf, o.step)
        OBVIOUS
    <1> DEFINE children == TopFrames(stack, o.sid)
    <1>2. th[t] # <<>> /\ o.op = "revise_step"
        BY <1>1 DEF DecideReviseStep, Pending
    <1>3. PICK child, plan :
             /\ child \in IF children = {} THEN {Null} ELSE children
             /\ Do(t, plan) /\ UnchangedStore /\ UnchangedServer
             /\ plan = <<>> \/ plan = RevisePlan(o.sid, wf, step, child)
        <2>1. PICK child \in IF children = {} THEN {Null} ELSE children :
                 Decide(t, IF /\ o.sid \notin DOMAIN stack
                              /\ \/ o.step \in DOMAIN o.row.step_data
                                 \/ step.kind = "call" /\ children # {}
                           THEN RevisePlan(o.sid, wf, step, child) ELSE <<>>)
            BY <1>1 DEF DecideReviseStep
        <2> HIDE DEF children
        <2> QED BY <2>1 DEF Decide
    <1>4. child # Null => TopFrames(stack, o.sid) \subseteq {child}
        BY <1>3 DEF SoloInv, Tree, OneFramePerSlot, TopFrames, FramesAt
    <1>5. SnapshotOK(o)
        BY <1>1, <1>2, SnapshotFits
    <1>6. WellFormed(wf) /\ HandsBack(wf) /\ step.id \in StepIds(wf)
        BY <1>1, <1>2, <1>5, ReadyRow, FoundStep DEF SnapshotOK
    <1> HIDE DEF children
    <1>7. Hands(stack, plan)
        BY <1>3, <1>4, <1>6, ReviseHands, PassiveEmpty, PassiveHands
    <1> QED BY <1>1, <1>2, <1>3, <1>7, NeutralHands DEF Neutral

LEMMA DecideEnterSubWorkflowHands ==
    ASSUME OneThread, IInv, HandInv, NEW t \in Thread, DecideEnterSubWorkflow(t)
    PROVE  HandInv'
    <1>1. PICK o, step, row :
             /\ o = Head(th[t]) /\ step = StepAt(WorkflowOf(o.row), o.row.current_step)
             /\ row = NewRow(step.call, o.sid)
        OBVIOUS
    <1>2. PICK c, v, l : /\ c = CreateOp(o.child, row, "call", Null, Null)
                         /\ v = VisitOp(o.child, row.current_step)
                         /\ l = LinkOp(o.sid, o.child, step.id)
        OBVIOUS
    <1>3. PICK q : /\ Do(t, q) /\ UnchangedStore /\ UnchangedServer
                   /\ o.op = "enter_sub_workflow"
                   /\ q = <<>> \/ q = <<c, v, l>>
        BY <1>1, <1>2 DEF DecideEnterSubWorkflow, Decide, Pending
    <1>4. /\ c.op = "create_session" /\ v.op = "increment_visit" /\ l.op = "set_called_session"
        BY <1>2 DEF CreateOp, VisitOp, LinkOp
    <1>5. CASE q = <<>>
        BY <1>1, <1>3, <1>5, PassiveEmpty, PassiveHands, NeutralHands DEF Neutral
    <1>6. CASE q = <<c, v, l>>
        <2>1. IsSeq(q) /\ Range(q) = {c, v, l} /\ q # <<>> /\ Head(q) = c
            BY <1>6, Three
        <2>2. HandingOver(q)'
            BY <1>4, <2>1, StartsPlan
        <2> QED BY <1>1, <1>3, <2>2, NeutralHands DEF Neutral
    <1> QED BY <1>3, <1>5, <1>6

LEMMA DecidePushFlowHands ==
    ASSUME OneThread, IInv, HandInv, NEW t \in Thread, DecidePushFlow(t)
    PROVE  HandInv'
    <1>1. PICK o, row : o = Head(th[t]) /\ row = NewRow(o.w, o.sid)
        OBVIOUS
    <1>2. PICK c, v :
             /\ c = CreateOp(o.child, row, "digression", o.row.current_step, MaxStackDepth)
             /\ v = VisitOp(o.child, row.current_step)
        OBVIOUS
    <1>3. PICK q : /\ Do(t, q) /\ UnchangedStore /\ UnchangedServer
                   /\ o.op = "push_flow"
                   /\ q = <<>> \/ q = <<c, v>>
        BY <1>1, <1>2 DEF DecidePushFlow, Decide, Pending
    <1>4. /\ c.op = "create_session" /\ v.op = "increment_visit"
        BY <1>2 DEF CreateOp, VisitOp
    <1>5. CASE q = <<>>
        BY <1>1, <1>3, <1>5, PassiveEmpty, PassiveHands, NeutralHands DEF Neutral
    <1>6. CASE q = <<c, v>>
        <2>1. IsSeq(q) /\ Range(q) = {c, v} /\ q # <<>> /\ Head(q) = c
            BY <1>6, Two
        <2>2. HandingOver(q)'
            BY <1>4, <2>1, StartsPlan
        <2> QED BY <1>1, <1>3, <2>2, NeutralHands DEF Neutral
    <1> QED BY <1>3, <1>5, <1>6

LEMMA ResumeHands ==
    ASSUME NEW frames, NEW child, NEW outer
    PROVE  Hands(frames, ResumePlan(child, outer))
    BY PassiveOps, PassiveHands, ThenOnHands DEF ResumePlan

LEMMA DecidePopFlowHands ==
    ASSUME OneThread, IInv, HandInv, NEW t \in Thread, DecidePopFlow(t)
    PROVE  HandInv'
    <1>1. PICK plan : /\ Do(t, plan) /\ UnchangedStore /\ UnchangedServer
                      /\ Head(th[t]).op = "pop_flow"
                      /\ plan = <<>> \/ \E sid, p : plan = ResumePlan(sid, p)
        BY DEF DecidePopFlow, Decide, Pending
    <1>2. Hands(stack, plan)
        BY <1>1, PassiveEmpty, PassiveHands, ResumeHands
    <1> QED BY <1>1, <1>2, NeutralHands DEF Neutral

\* The session below a frame is the one it was created for, if that is there.
LEMMA ParentKnown ==
    ASSUME Tree, StoreOK, OnParent, NEW s \in DOMAIN stack,
           sessions[s].parent_session_id \in DOMAIN sessions
    PROVE  ParentsOf(stack, s) = {sessions[s].parent_session_id}
    <1>1. PICK p : p = sessions[s].parent_session_id
        OBVIOUS
    <1>2. CASE p \in DOMAIN stack
        <2>1. stack[s].root = stack[p].root /\ stack[s].depth = stack[p].depth + 1
            BY <1>1, <1>2 DEF Tree, InPlace
        <2>2. stack[p].depth \in Nat \ {0}
            BY <1>2 DEF StoreOK, Frame
        <2>3. stack[s].depth # 1 /\ stack[s].depth - 1 = stack[p].depth
            BY <2>1, <2>2
        <2>4. ParentsOf(stack, s) = FramesAt(stack, stack[p].root, stack[p].depth)
            BY <2>1, <2>3 DEF ParentsOf
        <2>5. FramesAt(stack, stack[p].root, stack[p].depth) = {p}
            BY <1>2 DEF FramesAt, Tree, OneFramePerSlot
        <2> QED BY <1>1, <2>4, <2>5
    <1>3. CASE p \notin DOMAIN stack
        BY <1>1, <1>3 DEF OnParent, ParentsOf
    <1> QED BY <1>2, <1>3

LEMMA DecideAutoResumeHands ==
    ASSUME OneThread, NoTailCalls, IInv, SoloInv, HandInv, NEW t \in Thread, DecideAutoResume(t)
    PROVE  HandInv'
    <1>1. PICK o : o = Head(th[t])
        OBVIOUS
    <1>2. th[t] # <<>> /\ o.op = "auto_resume" /\ Tree /\ StoreOK /\ OnParent
        BY <1>1 DEF DecideAutoResume, Pending, SoloInv, IInv, HandInv
    <1>3. \A s : Owes(th[t], s) => s = o.sid
        BY <1>1, <1>2 DEF Owes, HandsOn
    <1>4. CASE ParentsOf(stack, o.sid) = {} /\ Decide(t, <<>>)
        <2>1. o.sid \in DOMAIN stack => Paid(o.sid)
            BY <1>2, <1>4, ParentKnown DEF Paid, Resolve
        <2>2. HandingOver(<<>>)'
            BY PassiveEmpty, PassiveHands, HandsPlanned
        <2> QED BY <1>3, <1>4, <2>1, <2>2, DecisionHands DEF Decide
    <1>5. ASSUME NEW p \in ParentsOf(stack, o.sid),
                 Decide(t, IF stack[o.sid].frame_type = "digression" THEN ResumePlan(o.sid, p)
                           ELSE ThenOn(p, PropagatePlan(o.sid, o.wf, o.data, p)))
          PROVE  HandInv'
        <2>1. PICK child : child = o.sid
            OBVIOUS
        <2>2. PICK hand, plan :
                 /\ plan = ThenOn(p, hand)
                 /\ \/ hand = <<DeleteOp(child, FALSE)>>
                    \/ hand = PropagatePlan(child, o.wf, o.data, p)
                 /\ Do(t, plan) /\ UnchangedStore /\ UnchangedServer
            BY <1>5, <2>1 DEF Decide, ResumePlan
        <2>3. child \in DOMAIN stack
            BY <2>1 DEF ParentsOf
        <2>4. Resolve(p) = "ok" =>
                 /\ Hands(stack, hand) /\ hand # <<>>
                 /\ \/ HandsOn(Head(hand), child)
                    \/ Head(hand).op = "delete_session" /\ Head(hand).sid = child
                    \/ Head(hand).op = "set_escalation" /\ Head(hand).sid = p
            <3> SUFFICES ASSUME Resolve(p) = "ok"
                         PROVE  /\ Hands(stack, hand) /\ hand # <<>>
                                /\ \/ HandsOn(Head(hand), child)
                                   \/ Head(hand).op = "delete_session" /\ Head(hand).sid = child
                                   \/ Head(hand).op = "set_escalation" /\ Head(hand).sid = p
                OBVIOUS
            <3>1. p \in DOMAIN sessions
                BY DEF Resolve
            <3>2. CASE hand = PropagatePlan(child, o.wf, o.data, p)
                BY <1>2, <2>1, <2>3, <3>1, <3>2, PropagateHands
            <3>3. CASE hand = <<DeleteOp(child, FALSE)>>
                <4>1. PICK d : d = DeleteOp(child, FALSE) /\ hand = <<d>>
                    BY <3>3
                <4>2. d.op = "delete_session" /\ d.sid = child
                    BY <4>1 DEF DeleteOp
                <4>3. Hands(stack, hand)
                    BY <3>3, PassiveOps, PassiveHands
                <4>4. hand # <<>> /\ Head(hand) = d
                    BY <4>1, One
                <4> QED BY <4>2, <4>3, <4>4
            <3> QED BY <2>2, <3>2, <3>3
        <2>5. Hands(stack, plan)
            BY <2>2, <2>4, ThenOnHands
        <2>6. HandingOver(plan)'
            BY <2>2, <2>5, HandsPlanned DEF UnchangedStore
        <2>7. Paid(child) \/ Owes(plan, child)
            <3>1. PICK parent : parent = sessions[child].parent_session_id
                OBVIOUS
            <3>2. CASE Resolve(parent) # "ok"
                BY <3>1, <3>2 DEF Paid
            <3>3. CASE Resolve(parent) = "ok"
                <4>1. parent \in DOMAIN sessions
                    BY <3>3 DEF Resolve
                <4>2. p = parent
                    BY <1>2, <2>1, <2>3, <3>1, <4>1, ParentKnown
                <4>3. plan = hand
                    BY <2>2, <3>3, <4>2 DEF ThenOn
                <4> QED BY <2>4, <3>1, <3>3, <4>2, <4>3 DEF Owes
            <3> QED BY <3>2, <3>3
        <2> QED BY <1>3, <2>1, <2>2, <2>6, <2>7, DecisionHands
    <1> QED BY <1>1, <1>4, <1>5 DEF DecideAutoResume

LEMMA DecideEscalateParentHands ==
    ASSUME OneThread, IInv, SoloInv, HandInv, NEW t \in Thread, DecideEscalateParent(t)
    PROVE  HandInv'
    <1>1. PICK sid : sid = Head(th[t]).sid
        OBVIOUS
    <1>2. Head(th[t]).op = "escalate_parent" /\ Tree /\ StoreOK /\ OnParent
        BY DEF DecideEscalateParent, Pending, SoloInv, IInv, HandInv
    <1>3. \A s : Owes(th[t], s) => s = sid
        BY <1>1, <1>2 DEF Owes, HandsOn
    <1>4. PICK plan :
             /\ Do(t, plan) /\ UnchangedStore /\ UnchangedServer
             /\ \/ ParentsOf(stack, sid) = {} /\ plan = <<>>
                \/ \E p \in ParentsOf(stack, sid) : plan = <<EscalateOp(p)>>
        BY <1>1 DEF DecideEscalateParent, Decide
    <1>5. Hands(stack, plan)
        BY <1>4, PassiveEmpty, PassiveOps, PassiveHands
    <1>6. HandingOver(plan)'
        BY <1>4, <1>5, HandsPlanned DEF UnchangedStore
    <1>7. ASSUME sid \in DOMAIN stack
          PROVE  Paid(sid) \/ Owes(plan, sid)
        <2>1. PICK parent : parent = sessions[sid].parent_session_id
            OBVIOUS
        <2>2. CASE parent \notin DOMAIN sessions
            BY <2>1, <2>2 DEF Paid, Resolve
        <2>3. CASE parent \in DOMAIN sessions
            <3>1. ParentsOf(stack, sid) = {parent}
                BY <1>2, <1>7, <2>1, <2>3, ParentKnown
            <3>2. PICK e : e = EscalateOp(parent) /\ plan = <<e>>
                BY <1>4, <3>1
            <3>3. e.op = "set_escalation" /\ e.sid = parent
                BY <3>2 DEF EscalateOp
            <3>4. plan # <<>> /\ Head(plan) = e
                BY <3>2, One
            <3> QED BY <2>1, <3>3, <3>4 DEF Owes
        <2> QED BY <2>2, <2>3
    <1> QED BY <1>3, <1>4, <1>6, <1>7, DecisionHands

---------------------------------------------------------------------------
(***************************************************************************)
(* A row that is gone, an executed step and a creation.                    *)
(***************************************************************************)
LEMMA RowGoneHands ==
    ASSUME OneThread, IInv, SoloInv, HandInv, NEW t \in Thread, RowGone(t)
    PROVE  HandInv'
    <1>1. PICK q, h : q = th[t] /\ h = Head(th[t])
        OBVIOUS
    <1>2. /\ q # <<>> /\ UnchangedStore /\ UnchangedServer /\ h.sid \notin DOMAIN sessions
          /\ h.op \notin {"create_session", "auto_resume", "escalate_parent"}
          /\ \/ Do(t, <<>>)
             \/ Do(t, Tail(q)) /\ h.op = "delete_session"
        BY <1>1 DEF RowGone, Idle
    <1>3. DOMAIN stack \subseteq DOMAIN sessions /\ Tree
        BY DEF SoloInv, Tree
    <1>4. ASSUME NEW s \in DOMAIN stack, Owes(q, s)
          PROVE  Paid(s)
        <2>1. sessions[s].parent_session_id \notin DOMAIN sessions
            BY <1>1, <1>2, <1>3, <1>4 DEF Owes, HandsOn
        <2> QED BY <2>1 DEF Paid, Resolve
    <1>5. CASE Do(t, <<>>)
        <2>1. HandingOver(<<>>)'
            BY PassiveEmpty, PassiveHands, HandsPlanned
        <2> QED BY <1>1, <1>2, <1>4, <1>5, <2>1, DecisionHands
    <1>6. CASE Do(t, Tail(q)) /\ h.op = "delete_session"
        <2>1. IsSeq(q) /\ Handing(stack, q) /\ \A o \in Range(Tail(q)) : o.op # "create_session"
            BY <1>1, <1>2 DEF IInv, ThreadsOK, WorkOK, Drawing, HandInv, HandingOver
        <2>2. Settled
            BY <1>2, <1>3, StillSettled
        <2>3. h.sid \notin DOMAIN stack'
            BY <1>2, <1>3 DEF UnchangedStore
        <2>4. Hands(stack', Tail(q))
            BY <1>1, <1>2, <1>3, <2>1, <2>2, <2>3, TailHands
        <2>5. HandingOver(Tail(q))'
            BY <2>4, HandsPlanned
        <2> QED BY <1>1, <1>2, <1>4, <1>6, <2>5, DecisionHands
    <1> QED BY <1>2, <1>5, <1>6

\* The pointer goes no further than to where it is, or completes nothing.
LEMMA CascadeHands ==
    ASSUME NEW frames, NEW sid, NEW at, NEW data, NEW tail,
           at # COMPLETE \/ sid \notin DOMAIN frames,
           tail \in {<<>>, <<EscalateParentOp(sid)>>}
    PROVE  Hands(frames, <<UpdateOp(sid, at, data)>> \o tail)
    <1>1. Hands(frames, tail)
        BY PassiveOps, PassiveEmpty, PassiveHands
    <1>2. Hands(frames, <<UpdateOp(sid, at, data)>>)
        BY UpdateHands
    <1> QED BY <1>1, <1>2, HandsJoined

\* Where an executed step may lead.
LEMMA MayGoOn ==
    ASSUME NEW wf, WellFormed(wf), HandsBack(wf), NEW frames, NEW cont, NEW sid,
           NEW at \in StepIds(wf), NEW step, step = StepAt(wf, at), step.kind = "mcp",
           May(frames, cont, sid, wf, at), NEW data, NEW landing,
           landing = ApplySkipLoop(wf, DefaultTarget(wf, step), data, FALSE)
    PROVE  May(frames, cont, sid, wf, landing.step)
    <1>1. CASE cont # "advance"
        BY <1>1 DEF May
    <1>2. CASE cont = "advance"
        <2>1. Stops(wf, FindStep(wf, at) + 1)
            BY <1>2, StopsFurther DEF May
        <2>2. step \in Range(wf.steps) /\ step.id = at
            BY FoundStep
        <2>3. landing.step # COMPLETE /\ Stops(wf, FindStep(wf, landing.step))
            BY <2>1, <2>2, StopsAhead
        <2> QED BY <1>2, <2>3 DEF May
    <1> QED BY <1>1, <1>2

LEMMA AutoExecuteHands ==
    ASSUME OneThread, NoTailCalls, IInv, SoloInv, HandInv, MarkersStay, NEW t \in Thread,
           NEW envelope, AutoExecute(t, envelope)
    PROVE  HandInv'
    <1>1. PICK o, q : o = Head(th[t]) /\ q = th[t]
        OBVIOUS
    <1> DEFINE step    == StepAt(o.wf, o.at)
               data    == Put(o.data, o.at, envelope)
               next    == DefaultTarget(o.wf, step)
               landing == ApplySkipLoop(o.wf, next, data, FALSE)
               tail    == IF o.cont = "submit" THEN <<EscalateParentOp(o.sid)>> ELSE <<>>
               Cascade(at, d) == <<UpdateOp(o.sid, at, d)>> \o tail
               v       == Increment(sessions[o.sid].step_visit_counts, o.at)
               rest    == IF landing.cascade THEN Cascade(next, data)
                          ELSE Proceed(o.cont, o.sid, o.wf, landing.step, data)
    <1>2. q # <<>> /\ o.op = "auto_execute"
        BY <1>1 DEF AutoExecute, Pending
    <1>3. \/ Do(t, Cascade(o.at, o.data)) /\ UnchangedStore /\ UnchangedServer
          \/ WriteRow(t, "auto_execute", [sessions[o.sid] EXCEPT !["step_visit_counts"] = v], rest)
        BY <1>1 DEF AutoExecute
    <1>4. \A s : ~Owes(q, s)
        BY <1>1, <1>2 DEF Owes, HandsOn
    <1>5. MayRun(stack, o) /\ step.kind = "mcp"
        <2>1. IsSeq(q) /\ Handing(stack, q)
            BY <1>1, <1>2 DEF IInv, ThreadsOK, WorkOK, HandInv, HandingOver
        <2>2. 1 \in DOMAIN q /\ q[1] = o
            BY <1>1, <1>2, <2>1, TailAt
        <2> QED BY <1>2, <2>1, <2>2 DEF Handing, MayRun
    <1>6. o.sid \in DOMAIN sessions =>
             /\ WellFormed(o.wf) /\ HandsBack(o.wf) /\ o.at \in StepIds(o.wf) /\ o.cont \in Conts
        BY <1>1, <1>2, HeadOnRow, ReadyRow DEF Fits, OpOK
    <1>7. DOMAIN stack \subseteq DOMAIN sessions
        BY DEF SoloInv, Tree
    <1>8. tail \in {<<>>, <<EscalateParentOp(o.sid)>>}
        OBVIOUS
    <1>9. Hands(stack, Cascade(o.at, o.data))
        <2>1. o.at # COMPLETE \/ o.sid \notin DOMAIN stack
            BY <1>6, <1>7 DEF HandsBack
        <2> HIDE DEF tail
        <2> QED BY <1>8, <2>1, CascadeHands
    <1>10. ASSUME o.sid \in DOMAIN sessions
           PROVE  Hands(stack, rest)
        <2>1. CASE landing.cascade
            <3>1. next # COMPLETE
                BY <2>1 DEF ApplySkipLoop, Complete, COMPLETE
            <3>2. Hands(stack, Cascade(next, data))
                <4> HIDE DEF tail, next, data
                <4> QED BY <1>8, <3>1, CascadeHands
            <3> HIDE DEF Cascade, next, data, landing
            <3> QED BY <2>1, <3>2
        <2>2. CASE ~landing.cascade
            <3>1. PICK d, l : d = data /\ l = landing
                OBVIOUS
            <3>2. l = ApplySkipLoop(o.wf, DefaultTarget(o.wf, step), d, FALSE)
                BY <3>1
            <3>3. May(stack, o.cont, o.sid, o.wf, l.step)
                <4> HIDE DEF step
                <4>1. step = StepAt(o.wf, o.at)
                    BY DEF step
                <4> QED BY <1>5, <1>6, <1>10, <3>2, <4>1, MayGoOn DEF MayRun
            <3>4. Hands(stack, Proceed(o.cont, o.sid, o.wf, l.step, d))
                BY <1>6, <1>10, <3>3, ProceedHands
            <3>5. rest = Proceed(o.cont, o.sid, o.wf, l.step, d)
                BY <2>2, <3>1
            <3> QED BY <3>4, <3>5
        <2> QED BY <2>1, <2>2
    <1> HIDE DEF Cascade, rest, v, step, data, next, landing, tail
    <1>11. CASE Do(t, Cascade(o.at, o.data)) /\ UnchangedStore /\ UnchangedServer
        <2>1. PICK plan : plan = Cascade(o.at, o.data)
            OBVIOUS
        <2>2. HandingOver(plan)'
            BY <1>9, <1>11, <2>1, HandsPlanned DEF UnchangedStore
        <2> QED BY <1>1, <1>4, <1>11, <2>1, <2>2, DecisionHands
    <1>12. CASE WriteRow(t, "auto_execute",
                         [sessions[o.sid] EXCEPT !["step_visit_counts"] = v], rest)
        <2>1. PICK plan, col, name : plan = rest /\ col = "step_visit_counts" /\ name = "auto_execute"
            OBVIOUS
        <2>2. WriteRow(t, name, [sessions[Head(th[t]).sid] EXCEPT ![col] = v], plan)
            BY <1>1, <1>12, <2>1
        <2>3. o.sid \in DOMAIN sessions /\ stack' = stack
            BY <1>1, <2>2, WriteRowEffect
        <2>4. /\ Passes /\ Do(t, plan)
              /\ \A s \in DOMAIN sessions' : sessions'[s].current_step = sessions[s].current_step
            BY <2>1, <2>2, ColumnPasses
        <2>5. Hands(stack', plan)
            BY <1>10, <2>1, <2>3
        <2> QED BY <1>1, <1>4, <2>4, <2>5, PassesHands
    <1> QED BY <1>3, <1>11, <1>12

\* What a creation does to the sessions and the frames.
LEMMA CreationEffect ==
    ASSUME StoreOK, Tree, NEW o, CreateArgs(o), o.sid \notin minted, NEW evicted,
           LET new == CreateSession(db, evicted, o.sid, o.row, o.type, o.call)
           IN  sessions' = new.sessions /\ stack' = new.stack,
           NEW sid, sid = o.sid, NEW parent, parent = o.row.parent_session_id
    PROVE  /\ sid \in DOMAIN sessions' /\ sessions'[sid] = o.row
           /\ sid \notin DOMAIN sessions /\ sid # parent
           /\ \A s \in DOMAIN sessions' \ {sid} : s \in DOMAIN sessions /\ sessions'[s] = sessions[s]
           /\ DOMAIN stack \cap DOMAIN sessions' \subseteq DOMAIN stack'
           /\ DOMAIN stack' \subseteq DOMAIN sessions'
           /\ \A s \in DOMAIN stack' \ {sid} :
                 /\ s \in DOMAIN stack /\ stack'[s] = stack[s]
                 /\ sessions[s].parent_session_id # sid
           /\ sid \in DOMAIN stack' => parent # Null
           /\ sid \in DOMAIN stack' /\ parent \notin DOMAIN stack' =>
                 stack'[sid].root = parent /\ stack'[sid].depth = 1
    <1> DEFINE kept == Without(stack, evicted)
    <1>1. PICK slot : slot = ChildSlot(kept, parent)
        OBVIOUS
    <1>2. PICK frame : frame = [root |-> slot.root, depth |-> slot.depth,
                                frame_type |-> o.type, call_step |-> o.call]
        OBVIOUS
    <1>3. /\ sessions' = Put(Without(sessions, evicted), sid, o.row)
          /\ stack' = IF parent = Null THEN kept ELSE Put(kept, sid, frame)
        BY <1>1, <1>2 DEF CreateSession, DeleteSessions, InsertFrame, db
    <1>4. /\ DOMAIN sessions' = (DOMAIN sessions \ evicted) \cup {sid}
          /\ sessions'[sid] = o.row
          /\ \A s \in DOMAIN sessions \ evicted : s # sid => sessions'[s] = sessions[s]
        <2>1. /\ DOMAIN Without(sessions, evicted) = DOMAIN sessions \ evicted
              /\ \A s \in DOMAIN sessions \ evicted : Without(sessions, evicted)[s] = sessions[s]
            BY DEF Without, Restrict
        <2> QED BY <1>3, <2>1 DEF Put
    <1>5. /\ DOMAIN kept = DOMAIN stack \ evicted
          /\ \A s \in DOMAIN kept : kept[s] = stack[s]
        BY DEF Without, Restrict
    <1>6. /\ sid \notin DOMAIN sessions /\ sid \notin DOMAIN stack /\ sid # parent
          /\ DOMAIN stack \subseteq DOMAIN sessions
          /\ \A s \in DOMAIN stack : sessions[s].parent_session_id # sid
        <2>1. parent \in minted \cup {Null} /\ sid \in Sid /\ Null \notin Sid
            BY StoreAssumption DEF CreateArgs
        <2> QED BY <2>1 DEF StoreOK, Tree
    <1> HIDE DEF kept
    <1>7. parent = Null => DOMAIN stack' = DOMAIN kept /\ \A s \in DOMAIN kept : stack'[s] = kept[s]
        BY <1>3
    <1>8. parent # Null => /\ DOMAIN stack' = DOMAIN kept \cup {sid} /\ stack'[sid] = frame
                           /\ \A s \in DOMAIN kept \ {sid} : stack'[s] = kept[s]
        BY <1>3 DEF Put
    <1>9. parent \notin DOMAIN kept => frame.root = parent /\ frame.depth = 1
        BY <1>1, <1>2 DEF ChildSlot
    <1>10. DOMAIN stack \cap DOMAIN sessions' \subseteq DOMAIN stack'
        BY <1>4, <1>5, <1>6, <1>7, <1>8
    <1>11. \A s \in DOMAIN stack' \ {sid} : s \in DOMAIN kept /\ stack'[s] = kept[s]
        BY <1>7, <1>8
    <1>12. sid \in DOMAIN stack' => parent # Null
        BY <1>5, <1>6, <1>7
    <1>13. DOMAIN stack' \subseteq DOMAIN sessions'
        BY <1>4, <1>5, <1>6, <1>7, <1>8
    <1> QED BY <1>4, <1>5, <1>6, <1>8, <1>9, <1>10, <1>11, <1>12, <1>13

LEMMA CreateSessionHands ==
    ASSUME OneThread, NoTailCalls, IInv, SoloInv, HandInv, NEW t \in Thread, NEW evicted,
           TransactCreateSession(t, evicted)
    PROVE  HandInv'
    <1>1. PICK o, q, rest : o = Head(th[t]) /\ q = th[t] /\ rest = Tail(th[t])
        OBVIOUS
    <1>2. /\ q # <<>> /\ o.op = "create_session"
          /\ \/ UnchangedStore /\ UnchangedServer /\ Do(t, <<>>)
             \/ /\ LET new == CreateSession(db, evicted, o.sid, o.row, o.type, o.call)
                   IN  sessions' = new.sessions /\ stack' = new.stack
                /\ Do(t, rest) /\ UnchangedServer
        BY <1>1 DEF TransactCreateSession, Pending
    <1>3. WorkOK(q) /\ CreateArgs(o) /\ CreationOK(o, rest) /\ Starts(q)
        BY <1>1, <1>2, HeadOK DEF StepOK, OpOK, SoloInv, PlanOK, HandInv, HandingOver
    <1>4. o.sid \notin minted
        <2>1. o.sid \in Drawn(q)
            BY <1>1, <1>2 DEF Drawn, Drawing
        <2> QED BY <1>1, <2>1 DEF IInv, IdsOK
    <1>5. \A s : ~Owes(q, s)
        BY <1>1, <1>2 DEF Owes, HandsOn
    <1>6. CASE UnchangedStore /\ UnchangedServer /\ Do(t, <<>>)
        <2>1. HandingOver(<<>>)'
            BY PassiveEmpty, PassiveHands, HandsPlanned
        <2> QED BY <1>1, <1>5, <1>6, <2>1, DecisionHands
    <1>7. CASE /\ LET new == CreateSession(db, evicted, o.sid, o.row, o.type, o.call)
                  IN  sessions' = new.sessions /\ stack' = new.stack
               /\ Do(t, rest) /\ UnchangedServer
        <2>1. PICK sid, parent : sid = o.sid /\ parent = o.row.parent_session_id
            OBVIOUS
        <2>2. /\ sid \in DOMAIN sessions' /\ sessions'[sid] = o.row
              /\ sid \notin DOMAIN sessions /\ sid # parent
              /\ \A s \in DOMAIN sessions' \ {sid} :
                    s \in DOMAIN sessions /\ sessions'[s] = sessions[s]
              /\ DOMAIN stack \cap DOMAIN sessions' \subseteq DOMAIN stack'
              /\ DOMAIN stack' \subseteq DOMAIN sessions'
              /\ \A s \in DOMAIN stack' \ {sid} :
                    /\ s \in DOMAIN stack /\ stack'[s] = stack[s]
                    /\ sessions[s].parent_session_id # sid
              /\ sid \in DOMAIN stack' => parent # Null
              /\ sid \in DOMAIN stack' /\ parent \notin DOMAIN stack' =>
                    stack'[sid].root = parent /\ stack'[sid].depth = 1
            BY <1>3, <1>4, <1>7, <2>1, CreationEffect DEF IInv, SoloInv
        <2>3. ASSUME NEW s \in DOMAIN stack'
              PROVE  Paid(s)'
            <3>1. CASE s = sid
                <4>1. o.row.current_step # COMPLETE
                    BY <1>3, ReadyRow DEF CreateArgs, HandsBack
                <4> QED BY <2>2, <3>1, <4>1 DEF Paid, IsComplete
            <3>2. CASE s # sid
                <4>1. /\ s \in DOMAIN stack /\ s \in DOMAIN sessions'
                      /\ sessions'[s] = sessions[s] /\ sessions[s].parent_session_id # sid
                    BY <2>2, <3>2
                <4>2. Paid(s)
                    BY <1>1, <1>5, <4>1 DEF HandInv, OneThread
                <4>3. PICK p : p = sessions[s].parent_session_id
                    OBVIOUS
                <4>4. CASE p \notin DOMAIN sessions'
                    BY <4>1, <4>3, <4>4 DEF Paid, Resolve
                <4>5. CASE p \in DOMAIN sessions'
                    <5>1. p \in DOMAIN sessions /\ sessions'[p] = sessions[p] /\ live' = live
                        BY <1>7, <2>2, <4>1, <4>3, <4>5 DEF UnchangedServer
                    <5>2. Resolve(p)' = Resolve(p)
                        BY <4>5, <5>1 DEF Resolve
                    <5> QED BY <4>1, <4>2, <4>3, <5>1, <5>2 DEF Paid
                <4> QED BY <4>4, <4>5
            <3> QED BY <3>1, <3>2
        <2>4. OnParent'
            <3> SUFFICES ASSUME NEW s \in DOMAIN stack',
                                sessions'[s].parent_session_id \in DOMAIN sessions' \ DOMAIN stack'
                         PROVE  /\ stack'[s].root = sessions'[s].parent_session_id
                                /\ stack'[s].depth = 1
                BY DEF OnParent
            <3>1. CASE s = sid
                BY <2>1, <2>2, <3>1
            <3>2. CASE s # sid
                <4>1. /\ s \in DOMAIN stack /\ stack'[s] = stack[s] /\ sessions'[s] = sessions[s]
                      /\ sessions[s].parent_session_id # sid
                    BY <2>2, <3>2
                <4>2. sessions[s].parent_session_id \in DOMAIN sessions \ DOMAIN stack
                    BY <2>2, <4>1
                <4> QED BY <4>1, <4>2 DEF OnParent, HandInv
            <3> QED BY <3>1, <3>2
        <2>5. IsSeq(rest) /\ \A a \in Range(rest) : a.op # "create_session"
            BY <1>1, <1>2, <1>3, HeadAndTail DEF WorkOK, Drawing
        <2>6. Hands(stack', rest)
            <3>1. ASSUME NEW i \in DOMAIN rest
                  PROVE  /\ Finishes(rest[i]) => rest[i].sid \notin DOMAIN stack'
                         /\ rest[i].op = "auto_execute" => MayRun(stack', rest[i])
                         /\ rest[i].op # "clear_called_session"
                <4>1. PICK a : a = rest[i] /\ a \in Range(rest)
                    BY DEF Range
                <4>2. Finishes(a) => Moves(a)
                    BY WorkflowsAssumption DEF Finishes, Moves, COMPLETE, WORKFLOW_CHANGED
                <4>3. Moves(a) => a.sid \notin DOMAIN stack'
                    BY <1>3, <2>1, <2>2, <4>1 DEF CreationOK
                <4>4. a.op = "auto_execute" => Moves(a)
                    BY DEF Moves
                <4>5. /\ a.op # "clear_called_session"
                      /\ a.op = "auto_execute" => a.cont = "start" /\ StepAt(a.wf, a.at).kind = "mcp"
                    BY <1>1, <1>3, <4>1 DEF Starts
                <4> QED BY <4>1, <4>2, <4>3, <4>4, <4>5 DEF MayRun, May
            <3> QED BY <2>5, <3>1 DEF Hands, Handing
        <2>7. HandingOver(rest)'
            BY <2>6, HandsPlanned
        <2> QED BY <1>7, <2>3, <2>4, <2>7, HandsNext DEF UnchangedServer
    <1> QED BY <1>2, <1>6, <1>7

---------------------------------------------------------------------------
(***************************************************************************)
(* Every step, and the theorem.                                            *)
(***************************************************************************)
LEMMA WorkHands ==
    ASSUME OneThread, NoTailCalls, IInv, SoloInv, HandInv, NEW t \in Thread, Work(t)
    PROVE  HandInv'
    <1>0. MarkersStay
        BY WorkSafe DEF StepSafe
    <1>1. CASE DecideSubmitStep(t) BY <1>1, DecideSubmitStepHands
    <1>2. CASE DecideReviseStep(t) BY <1>2, DecideReviseStepHands
    <1>3. CASE DecideEnterSubWorkflow(t) BY <1>3, DecideEnterSubWorkflowHands
    <1>4. CASE DecidePushFlow(t) BY <1>4, DecidePushFlowHands
    <1>5. CASE DecidePopFlow(t) BY <1>5, DecidePopFlowHands
    <1>6. CASE DecideAutoResume(t) BY <1>6, DecideAutoResumeHands
    <1>7. CASE DecideEscalateParent(t) BY <1>7, DecideEscalateParentHands
    <1>8. CASE TransactUpdateSession(t) BY <1>0, <1>8, UpdateSessionHands
    <1>9. CASE TransactIncrementVisit(t)
        <2>1. PICK o, v : /\ o = Head(th[t])
                          /\ v = Increment(sessions[o.sid].step_visit_counts, o.step)
            OBVIOUS
        <2>2. WriteRow(t, "increment_visit",
                       [sessions[Head(th[t]).sid] EXCEPT !["step_visit_counts"] = v], Tail(th[t]))
            BY <1>9, <2>1 DEF TransactIncrementVisit
        <2> QED BY <1>0, <2>2, ColumnHands
    <1>10. CASE TransactIncrementRetry(t) BY <1>0, <1>10, IncrementRetryHands
    <1>11. CASE TransactSetEscalation(t)
        <2>1. WriteRow(t, "set_escalation",
                       [sessions[Head(th[t]).sid] EXCEPT !["escalation"] = TRUE], Tail(th[t]))
            BY <1>11 DEF TransactSetEscalation
        <2> QED BY <1>0, <2>1, ColumnHands
    <1>12. CASE TransactInvalidateSteps(t)
        <2>1. PICK o, v : o = Head(th[t]) /\ v = Without(sessions[o.sid].step_data, o.steps)
            OBVIOUS
        <2>2. WriteRow(t, "invalidate_steps",
                       [sessions[Head(th[t]).sid] EXCEPT !["step_data"] = v], Tail(th[t]))
            BY <1>12, <2>1 DEF TransactInvalidateSteps
        <2> QED BY <1>0, <2>2, ColumnHands
    <1>13. CASE TransactStoreArtifact(t)
        <2>1. PICK o, v :
                 /\ o = Head(th[t])
                 /\ v = sessions[o.sid].artifact_checkpoints \cup {<<o.step, o.art>>}
            OBVIOUS
        <2>2. WriteRow(t, "store_artifact",
                       [sessions[Head(th[t]).sid] EXCEPT !["artifact_checkpoints"] = v], Tail(th[t]))
            BY <1>13, <2>1 DEF TransactStoreArtifact
        <2> QED BY <1>0, <2>2, ColumnHands
    <1>14. CASE TransactSetCalledSession(t) BY <1>0, <1>14, FramesHand
    <1>15. CASE TransactClearCalledSession(t) BY <1>0, <1>15, FramesHand
    <1>16. CASE TransactDeleteSession(t) BY <1>0, <1>16, DeleteHands
    <1>17. CASE \E evicted \in SUBSET Sid : TransactCreateSession(t, evicted)
        BY <1>17, CreateSessionHands
    <1>18. CASE \E envelope \in Envelope : AutoExecute(t, envelope)
        BY <1>0, <1>18, AutoExecuteHands
    <1>19. CASE RowGone(t) BY <1>19, RowGoneHands
    <1> QED BY <1>1, <1>2, <1>3, <1>4, <1>5, <1>6, <1>7, <1>8, <1>9, <1>10, <1>11, <1>12,
               <1>13, <1>14, <1>15, <1>16, <1>17, <1>18, <1>19 DEF Work

LEMMA NextHands ==
    ASSUME OneThread, NoTailCalls, MaxRestarts = 0, IInv, SoloInv, HandInv, [Next]_vars
    PROVE  HandInv'
    <1>1. CASE UNCHANGED vars
        <2>1. UNCHANGED <<sessions, stack, live, restarts, th>>
            BY <1>1 DEF vars
        <2>2. \A q : HandingOver(q) => HandingOver(q)'
            BY <2>1 DEF HandingOver
        <2>3. \A p : Resolve(p)' = Resolve(p)
            BY <2>1 DEF Resolve
        <2>4. \A s : Paid(s) => Paid(s)'
            BY <2>1, <2>3 DEF Paid
        <2>5. \A q, s : Owes(q, s) => Owes(q, s)'
            BY <2>1 DEF Owes
        <2>6. OnParent'
            BY <2>1 DEF HandInv, OnParent
        <2>7. \A t \in Thread : HandingOver(th[t])'
            BY <2>1, <2>2 DEF HandInv
        <2>8. \A s \in DOMAIN stack' : Paid(s)' \/ \E t \in Thread : Owes(th[t], s)'
            BY <2>1, <2>4, <2>5 DEF HandInv
        <2> QED BY <2>1, <2>6, <2>7, <2>8 DEF HandInv
    <1>2. CASE \E t \in Thread : Call(t) \/ Work(t)
        BY <1>2, CallsHand, WorkHands
    <1>3. CASE Restart
        BY <1>3 DEF Restart, HandInv
    <1> QED BY <1>1, <1>2, <1>3 DEF Next

LEMMA InitHands == Init => HandInv
    <1> SUFFICES ASSUME Init PROVE HandInv
        OBVIOUS
    <1>1. restarts = 0 /\ DOMAIN stack = {} /\ \A t \in Thread : th[t] = <<>>
        BY DEF Init
    <1>2. HandingOver(<<>>)
        BY DEF HandingOver, Handing
    <1> QED BY <1>1, <1>2 DEF HandInv, OnParent

\* One call at a time, no restart, and behind every call-step a step that stops
\* the parent: between calls, a framed session that completed is still there
\* only because its parent is escalated, can not be resolved or is gone, although
\* the completion, the hand-off and the deletion are transactions of their own.
THEOREM CompletedHandedOver ==
    ASSUME OneThread, NoTailCalls, MaxRestarts = 0
    PROVE  Spec => []CompletedFrameHandedOver
    <1>1. IInv /\ SoloInv /\ HandInv /\ [Next]_vars => HandInv'
        BY NextHands
    <1>2. HandInv => CompletedFrameHandedOver
        BY DEF HandInv, Paid, Owes, CompletedFrameHandedOver, Quiet, Idle
    <1> QED BY <1>1, <1>2, InitHands, Invariant, SoloInvariant, PTL DEF Spec

=============================================================================
