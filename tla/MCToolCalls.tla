---------------------------- MODULE MCToolCalls -----------------------------
(***************************************************************************)
(* Workflows and instances of ToolCalls for TLC.                           *)
(***************************************************************************)
EXTENDS DocumentedBehaviour, TLC

SidSymmetry == Permutations(Sid)

LlmStep(id) ==
    [id |-> id, kind |-> "llm", call |-> Null, ref |-> Null,
     output_schema |-> FALSE, max_retries |-> 3, precondition |-> Null,
     branches |-> {}, default_branch |-> Null,
     artifacts |-> {}, checkpoints |-> {}, output_from |-> Null]
CallStep(id, target) == [LlmStep(id) EXCEPT !.kind = "call", !.call = target]
McpStep(id, ref) == [LlmStep(id) EXCEPT !.kind = "mcp", !.ref = ref]
Checked(step, retries) == [step EXCEPT !.output_schema = TRUE, !.max_retries = retries]
Flow(steps) == [steps |-> steps, guardrails |-> <<>>]

\* A workflow that calls a second, which calls a third.
NestedFlows ==
    [main |-> <<Flow(<<LlmStep("a"), CallStep("c", "mid"), LlmStep("z")>>)>>,
     mid  |-> <<Flow(<<Checked(LlmStep("p"), 1), CallStep("d", "leaf"), LlmStep("r")>>)>>,
     leaf |-> <<Flow(<<LlmStep("q")>>)>>]

When(step, type, ref, value) ==
    [step EXCEPT !.precondition = [type |-> type, ref |-> ref, value |-> value]]
Branching(step, targets, default) ==
    [step EXCEPT !.branches = targets, !.default_branch = default]
Guarded(flow, guardrails) == [flow EXCEPT !.guardrails = guardrails]

\* A loop with a skippable step and a revisit guardrail; artifacts, a jump and
\* a warning; mcp steps in front of and behind a step that may escalate; a
\* cascade through an mcp step's arguments and one through a precondition.
RoutedFlows ==
    [loop |-> <<Guarded(
        Flow(<<LlmStep("a"), When(LlmStep("b"), "when_equals", "a", "good"),
               Branching(LlmStep("c"), {"a", "d"}, "d"), LlmStep("d")>>),
        <<[trigger |-> "step_revisit", max |-> 2, action |-> "escalate",
           target_step |-> Null]>>)>>,
     jump |-> <<Guarded(
        Flow(<<[LlmStep("a") EXCEPT !.artifacts = {"i", "o"}, !.checkpoints = {"i"},
                                    !.output_from = "o"],
               LlmStep("b"), When(LlmStep("c"), "when_present", "b", Null), LlmStep("d")>>),
        <<[trigger |-> "content", matches |-> {"bad"}, action |-> "force_branch",
           target_step |-> "c"],
          [trigger |-> "step_count", max |-> 2, action |-> "warn",
           target_step |-> Null]>>)>>,
     auto |-> <<Guarded(
        Flow(<<McpStep("a", Null), LlmStep("b"), McpStep("c", "b")>>),
        <<[trigger |-> "content", matches |-> {"bad"}, action |-> "escalate",
           target_step |-> Null]>>)>>,
     args |-> <<Flow(<<LlmStep("a"), When(LlmStep("b"), "when_equals", "a", "good"),
                       McpStep("c", "b"), LlmStep("d")>>)>>,
     pre  |-> <<Flow(<<LlmStep("a"), When(LlmStep("b"), "when_equals", "a", "good"),
                       When(LlmStep("c"), "when_present", "b", Null)>>)>>]

\* A call-step and its target.
CallFlows ==
    [main |-> <<Flow(<<LlmStep("a"), CallStep("c", "leaf"), LlmStep("z")>>)>>,
     leaf |-> <<Flow(<<LlmStep("q")>>)>>]

\* A call-step and an mcp step whose default_branch leads back to it, for two
\* threads.
LoopingFlows ==
    [main |-> <<Flow(<<CallStep("c", "leaf"), Branching(McpStep("m", Null), {"c"}, "c")>>)>>,
     leaf |-> <<Flow(<<LlmStep("q")>>)>>]

\* The calls nested two deep, with two versions of the first caller on disk.
RedeployedFlows ==
    [NestedFlows EXCEPT !.main = Append(@, Flow(<<CallStep("c", "mid"), LlmStep("z")>>))]

\* Five calls, each the only step of its workflow.
ChainFlows ==
    [w0 |-> <<Flow(<<CallStep("c0", "w1")>>)>>, w1 |-> <<Flow(<<CallStep("c1", "w2")>>)>>,
     w2 |-> <<Flow(<<CallStep("c2", "w3")>>)>>, w3 |-> <<Flow(<<CallStep("c3", "w4")>>)>>,
     w4 |-> <<Flow(<<CallStep("c4", "w5")>>)>>, w5 |-> <<Flow(<<LlmStep("q")>>)>>]

\* A called workflow whose last step is itself a call-step.
TailCallFlows ==
    [main |-> <<Flow(<<CallStep("c", "mid"), LlmStep("z")>>)>>,
     mid  |-> <<Flow(<<CallStep("d", "leaf")>>)>>,
     leaf |-> <<Flow(<<LlmStep("q")>>)>>]

\* A called workflow with one try at its only step.
OneTryFlows ==
    [main |-> <<Flow(<<CallStep("c", "leaf"), LlmStep("z")>>)>>,
     leaf |-> <<Flow(<<Checked(LlmStep("q"), 1)>>)>>]

\* A step behind a call-step whose precondition refers to a skipped step.
CascadingFlows ==
    [main |-> <<Flow(<<LlmStep("a"), When(LlmStep("b"), "when_equals", "a", "good"),
                       CallStep("c", "leaf"), When(LlmStep("e"), "when_present", "b", Null)>>)>>,
     leaf |-> <<Flow(<<LlmStep("q")>>)>>]

\* Three steps in a row; a step with a checkpointed artifact; an mcp step whose
\* argument may be skipped.
LineFlows == [main |-> <<Flow(<<LlmStep("a"), LlmStep("b"), LlmStep("d")>>)>>]
CheckpointFlows ==
    [main |-> <<Flow(<<LlmStep("a"),
                       [LlmStep("b") EXCEPT !.artifacts = {"i", "o"}, !.checkpoints = {"i"},
                                            !.output_from = "o"]>>)>>]
OneStepFlows == [main |-> <<Flow(<<LlmStep("a")>>)>>]
ArgsFlows == [main |-> RoutedFlows.args]

StartAndSubmit == {"start_workflow", "submit_step"}
StartSubmitRevise == StartAndSubmit \cup {"revise_step"}
StartSubmitEnter == StartAndSubmit \cup {"enter_sub_workflow"}
StartSubmitEnterDelete == StartSubmitEnter \cup {"delete_session"}
StartSubmitPush == StartAndSubmit \cup {"push_flow"}
DigressionTools == StartSubmitPush \cup {"pop_flow", "delete_session"}
CallTools == {"start_workflow", "submit_step", "revise_step", "enter_sub_workflow",
              "delete_session"}
AllTools == {"start_workflow", "submit_step", "revise_step", "enter_sub_workflow",
             "push_flow", "pop_flow", "delete_session"}
=============================================================================
