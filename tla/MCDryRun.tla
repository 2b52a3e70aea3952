------------------------------ MODULE MCDryRun ------------------------------
(***************************************************************************)
(* Workflows and responses files of DryRun for TLC.                        *)
(***************************************************************************)
EXTENDS DryRun, TLC, SequencesExt

SidSymmetry == Permutations(Sid)

LlmStep(id) ==
    [id |-> id, kind |-> "llm", call |-> Null, ref |-> Null,
     output_schema |-> FALSE, max_retries |-> 3, precondition |-> Null,
     branches |-> {}, default_branch |-> Null,
     artifacts |-> {}, checkpoints |-> {}, output_from |-> Null]
CallStep(id, target) == [LlmStep(id) EXCEPT !.kind = "call", !.call = target]
Checked(step, retries) == [step EXCEPT !.output_schema = TRUE, !.max_retries = retries]
Flow(steps) == [steps |-> steps, guardrails |-> <<>>]

\* A checked step that branches, a call whose artifact is checked, and a step
\* with the id of one of the innermost workflow.
InspectedFlows ==
    [main |-> <<Flow(<<[Checked(LlmStep("a"), 2) EXCEPT
                          !.branches = {"c", "z"}, !.default_branch = "z"],
                       Checked(CallStep("c", "mid"), 1), LlmStep("z")>>)>>,
     mid  |-> <<Flow(<<Checked(LlmStep("p"), 2), CallStep("d", "leaf"), LlmStep("r")>>)>>,
     leaf |-> <<Flow(<<LlmStep("z")>>)>>]
TailCallFlows ==
    [main |-> <<Flow(<<CallStep("c", "mid"), LlmStep("z")>>)>>,
     mid  |-> <<Flow(<<CallStep("d", "leaf")>>)>>,
     leaf |-> <<Flow(<<LlmStep("q")>>)>>]

Response(step, value) == [step_id |-> step, kind |-> "response", value |-> value]
Branch(step, value) == [step_id |-> step, kind |-> "branch", value |-> value]

\* The entries of a complete run, and every file at most two edits away from it.
FullRun ==
    <<Response("a", "good"), Branch("a", "c"), Response("p", "good"),
      Response("z", "good"), Response("r", "good"), Response("z", "good")>>
ShortRun == <<Response("a", "good"), Branch("a", "z"), Response("z", "good")>>
Entries ==
    {Response("a", "bad"), Response("p", "bad"), Response("r", "bad"), Branch("z", "c"),
     Branch("a", "x")} \cup Range(FullRun)
Edited(file) ==
    {RemoveAt(file, i) : i \in DOMAIN file}
      \cup {ReplaceAt(file, i, e) : i \in DOMAIN file, e \in Entries}
      \cup {InsertAt(file, i, e) : i \in 1..(Len(file) + 1), e \in Entries}
EditedRuns ==
    {Null} \cup {FullRun, ShortRun} \cup Edited(ShortRun)
      \cup Edited(FullRun) \cup UNION {Edited(f) : f \in Edited(FullRun)}
OperatorOnly == {Null}
DryRunTools == {"start_workflow", "submit_step", "enter_sub_workflow"}
=============================================================================
