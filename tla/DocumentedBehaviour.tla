------------------------ MODULE DocumentedBehaviour -------------------------
(***************************************************************************)
(* What the documentation, docstrings and tests of the repository say of   *)
(* the tools, where the code does something else.  Each formula is what    *)
(* the quoted sentence promises; a run shows how the code departs from it. *)
(***************************************************************************)
EXTENDS ToolCalls

\* README.md: "the sub-workflow stack depth caps at three".
StackDepthCapped == \A s \in DOMAIN stack : stack[s].depth <= MaxStackDepth

\* README.md: "Active sessions cap at five".
ActiveSessionsCapped == CountActive <= ActiveCap

\* docs/AUTHORING.md: a serial call chain "stays bounded at two active
\* session-cap slots (the parent plus whichever child is currently running)".
ChainHoldsTwoSlots ==
    \A r \in DOMAIN sessions :
        Cardinality({s \in {r} \cup (FramesOf(stack, r) \cap DOMAIN sessions) :
                        ~IsComplete(sessions[s])}) <= 2

\* docs/AUTHORING.md, delete_session: "When called on the root of a stack, the
\* whole chain is torn down."
RootDeletionTearsDown ==
    Quiet => \A s \in DOMAIN stack : stack[s].root \in DOMAIN sessions

\* docs/AUTHORING.md, revising a call-step: the runtime "discards the existing
\* child session and the call-step re-spawns a fresh child on the next
\* submission - clean slate": nothing stands above a child just spawned.
FreshChildHasCleanSlate ==
    [][\A s \in DOMAIN stack' \ DOMAIN stack : TopFrames(stack', s) = {}]_vars

\* tests/test_concurrency.py: "no lost updates": submissions alone never make
\* the data of a step disappear.
NoLostUpdates ==
    [][\A s \in DOMAIN sessions \cap DOMAIN sessions' :
          DOMAIN sessions[s].step_data \subseteq DOMAIN sessions'[s].step_data]_vars

\* docs/AUTHORING.md: "Outer session simply resumes at paused_at_step".
ResumesAtPausedStep ==
    \A s \in DOMAIN stack :
        LET p == sessions[s].parent_session_id
        IN  stack[s].frame_type = "digression" /\ p \in DOMAIN sessions =>
               sessions[p].current_step = stack[s].call_step

\* megalos_server/MCP.md: when an argument refers to a skipped step, "the
\* current step is also skipped": the pointer does not stay on it.
McpStepNeverRestedOn ==
    Quiet =>
    \A s \in DOMAIN sessions :
        LET row == sessions[s]
        IN  row.current_step \in StepIds(WorkflowOf(row)) =>
               StepAt(WorkflowOf(row), row.current_step).kind # "mcp"

\* README.md: "No stale reads survive a revision": no checkpoint is kept for a
\* step behind the pointer, where get_state would serve it again.
NoStaleCheckpoints ==
    Quiet =>
    \A s \in DOMAIN sessions : \A c \in sessions[s].artifact_checkpoints :
        FindStep(WorkflowOf(sessions[s]), c[1]) <= StepIndex(sessions[s])
=============================================================================
