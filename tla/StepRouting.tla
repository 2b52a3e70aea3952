---------------------------- MODULE StepRouting -----------------------------
(***************************************************************************)
(* The pure part of megalos_server/tools.py: where a session goes after a  *)
(* step.  Preconditions, the skip loop, guardrails and branch selection.   *)
(*                                                                         *)
(* A workflow is a record:                                                 *)
(*   steps       sequence of steps, ids assumed distinct (see Loader)      *)
(*   guardrails  sequence of [trigger, action, target_step]                *)
(* A step is a record:                                                     *)
(*   id, kind    kind is "llm", "call" or "mcp"                            *)
(*   call        target workflow of a call-step                            *)
(*   ref         call_context_from of a call-step or the ref-path of an    *)
(*               mcp step's args: the id of the step it reads, or Null     *)
(*   output_schema, max_retries                                            *)
(*   precondition  Null or [type : {"when_equals", "when_present"},        *)
(*                          ref, value]                                    *)
(*   branches, default_branch   set of targets, target or Null             *)
(*   artifacts, checkpoints, output_from  intermediate artifact ids        *)
(*                                                                         *)
(* Submitted content is a token; a ref-path with fields below the step id  *)
(* is the token itself, since only equality with a value is asked of it.   *)
(***************************************************************************)
EXTENDS Integers, Sequences, FiniteSets, FiniteSetsExt

CONSTANT Null

Complete == "__complete__"

StepIds(wf) == {wf.steps[i].id : i \in DOMAIN wf.steps}

\* _find_step: the index, 0 when there is no such step.
FindStep(wf, id) ==
    IF id \in StepIds(wf) THEN CHOOSE i \in DOMAIN wf.steps : wf.steps[i].id = id ELSE 0

StepAt(wf, id) == wf.steps[FindStep(wf, id)]
FirstStep(wf) == wf.steps[1]
LastStep(wf) == wf.steps[Len(wf.steps)]

\* The linear successor: the next step of the list, completion after the last.
LinearNextOffByOne(wf, id) ==
    LET i == FindStep(wf, id)
    IN  IF i >= Len(wf.steps) - 1 THEN Complete ELSE wf.steps[i + 2].id
LinearNext(wf, id) ==
    LET i == FindStep(wf, id)
    IN  IF i = Len(wf.steps) THEN Complete ELSE wf.steps[i + 1].id

\* The ids after a step, which revise_step invalidates.
StepsAfterShort(wf, id) ==
    {wf.steps[i].id : i \in (FindStep(wf, id) + 2)..Len(wf.steps)}
StepsAfter(wf, id) ==
    {wf.steps[i].id : i \in (FindStep(wf, id) + 1)..Len(wf.steps)}

---------------------------------------------------------------------------
\* _evaluate_precondition: "run", "skip", or "cascade" where the code raises
\* _SkippedPredecessor.
EvaluatePrecondition(pc, data, skipped) ==
    IF pc = Null THEN "run"
    ELSE IF pc.ref \in skipped THEN "cascade"
    ELSE IF /\ pc.ref \in DOMAIN data
            /\ pc.type = "when_present" \/ data[pc.ref] = pc.value
         THEN "run" ELSE "skip"

\* _compute_skipped_steps: one pass over the list; a step with data is not
\* skipped, a cascade counts as a skip.
ComputeSkipped(wf, data) ==
    LET pass[i \in 0..Len(wf.steps)] ==
          IF i = 0 THEN {}
          ELSE LET step == wf.steps[i]
               IN  IF \/ step.id \in DOMAIN data
                      \/ EvaluatePrecondition(step.precondition, data, pass[i - 1]) = "run"
                   THEN pass[i - 1]
                   ELSE pass[i - 1] \cup {step.id}
    IN  pass[Len(wf.steps)]

\* _apply_skip_loop: the first step from `from` on whose precondition does not
\* say skip, each skipped step joining the skipped set on the way.
ApplySkipLoopNever(wf, from, data, forced) == [step |-> from, cascade |-> FALSE]
ApplySkipLoop(wf, from, data, forced) ==
    LET i == FindStep(wf, from)
        base == ComputeSkipped(wf, data)
        Verdict(k) == EvaluatePrecondition(wf.steps[k].precondition, data,
                          base \cup {wf.steps[j].id : j \in i..(k - 1)})
        stops == {k \in i..Len(wf.steps) : Verdict(k) # "skip"}
    IN  IF forced \/ from = Complete THEN [step |-> from, cascade |-> FALSE]
        ELSE IF stops = {} THEN [step |-> Complete, cascade |-> FALSE]
        ELSE [step    |-> wf.steps[Min(stops)].id,
              cascade |-> Verdict(Min(stops)) = "cascade"]

\* _evaluate_guardrails: the first that fires, Null if none.  keyword_match and
\* output_length are both a test of the submitted content.
FiresLate(g, content, data, visits) ==
    CASE g.trigger = "content"      -> content \in g.matches
      [] g.trigger = "step_count"   -> Cardinality(DOMAIN data) > g.max
      [] g.trigger = "step_revisit" -> visits > g.max
Fires(g, content, data, visits) ==
    CASE g.trigger = "content"      -> content \in g.matches
      [] g.trigger = "step_count"   -> Cardinality(DOMAIN data) >= g.max
      [] g.trigger = "step_revisit" -> visits >= g.max
EvaluateGuardrails(wf, content, data, visits) ==
    LET fired == {i \in DOMAIN wf.guardrails : Fires(wf.guardrails[i], content, data, visits)}
    IN  IF fired = {} THEN Null ELSE wf.guardrails[Min(fired)]

ForceBranched(guardrail) == guardrail # Null /\ guardrail.action = "force_branch"

\* The target of a step before the skip loop: a force_branch guardrail wins,
\* then the branch argument (or the default), then the list order.  Null when
\* the branch argument names no branch of the step.
BranchTarget(wf, step, branch, guardrail) ==
    LET chosen == IF branch = Null THEN step.default_branch ELSE branch
    IN  IF ForceBranched(guardrail) THEN guardrail.target_step
        ELSE IF step.branches = {} THEN LinearNext(wf, step.id)
        ELSE IF chosen \in step.branches THEN chosen ELSE Null

\* The same for a call-step or an mcp step, which take the default branch.
DefaultTarget(wf, step) ==
    IF step.branches = {} THEN LinearNext(wf, step.id)
    ELSE IF step.default_branch = Null THEN Complete ELSE step.default_branch
=============================================================================
