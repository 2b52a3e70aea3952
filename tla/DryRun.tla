------------------------------- MODULE DryRun -------------------------------
(***************************************************************************)
(* The dry-run inspector of megalos_server/dryrun.py: a REPL that steps    *)
(* through one workflow on a server of its own, calling start_workflow,    *)
(* submit_step and enter_sub_workflow and waiting for each answer.         *)
(*                                                                         *)
(* The REPL never asks the server where a session stands ("all frame state *)
(* is derived from envelope deltas"): frames and step_id are its own idea  *)
(* of it, which the invariants compare with the rows of the store.  An     *)
(* envelope is not kept by ToolCalls; it is read off what the call did to  *)
(* the rows it found (before) by the time the worker thread is idle again. *)
(***************************************************************************)
EXTENDS ToolCalls

CONSTANTS
    Target,      \* the workflow named by the file on the command line
    Scripts      \* responses files; Null is a run with an operator at the prompt

VARIABLES
    script,      \* entries [step_id, kind : {"response", "branch"}, value], or Null
    pos,         \* the next entry, counted from 1
    frames,      \* session ids of the REPL-side stack, the root first
    step_id,     \* the step the prompt is about
    phase,       \* what main() is about to do, or which answer it waits for
    before,      \* the rows when the call in flight was made
    chosen,      \* history: the branch last chosen for step_id, or Null
    exit         \* exit code, Null while running

replVars == <<script, pos, frames, step_id, phase, before, chosen, exit>>
dryRunVars == <<vars, replVars>>

WorkerThread == CHOOSE t \in Thread : TRUE
Top == frames[Len(frames)]
Depth == Len(frames) - 1
ActiveStep(sid) == StepAt(WorkflowOf(sessions[sid]), sessions[sid].current_step)

DryRunInit ==
    /\ Init
    /\ script \in Scripts
    /\ pos = 1
    /\ frames = <<>>
    /\ step_id = Null
    /\ phase = "launch"
    /\ before = <<>>
    /\ chosen = Null
    /\ exit = Null

Exit(code) == phase' = "done" /\ exit' = code

---------------------------------------------------------------------------
(***************************************************************************)
(* The answers.                                                            *)
(***************************************************************************)
Grew(sid, counts, step) ==
    Count(sessions[sid][counts], step) >
        IF sid \in DOMAIN before THEN Count(before[sid][counts], step) ELSE 0

\* propagated_from_sub_workflow: the submission completed the top frame, which
\* is gone, and the answer is about the session below.
Propagated == phase = "submitted" /\ Top \notin DOMAIN sessions
AnsweredSession == IF Propagated THEN before[Top].parent_session_id ELSE Top

\* The status of the envelope.  A session that came to rest was visited; one
\* that completed but could not be handed over still has its frame, and the
\* answer is the error of the session below.
StatusIgnoringFrame ==
    LET sid == AnsweredSession
        at  == sessions[sid].current_step
    IN  IF sid \notin DOMAIN sessions THEN "error"
        ELSE IF phase = "submitted" /\ ~Propagated /\ Grew(sid, "retry_counts", step_id)
        THEN "validation_error"
        ELSE IF Grew(sid, "step_visit_counts", at) THEN "advance"
        ELSE IF at = COMPLETE THEN "workflow_complete"
        ELSE "error"
Status ==
    LET sid == AnsweredSession
        at  == sessions[sid].current_step
    IN  IF sid \notin DOMAIN sessions THEN "error"
        ELSE IF phase = "submitted" /\ ~Propagated /\ Grew(sid, "retry_counts", step_id)
        THEN "validation_error"
        ELSE IF Grew(sid, "step_visit_counts", at) THEN "advance"
        ELSE IF at = COMPLETE /\ (Propagated \/ sid \notin DOMAIN stack)
        THEN "workflow_complete"
        ELSE "error"

RetriesExhausted ==
    Count(sessions[Top].retry_counts, step_id) >= ActiveStep(Top).max_retries

\* The pop loop: down to the frame of the session the envelope is about.
AscendNever(sid) == frames
Ascend(sid) ==
    IF \E i \in DOMAIN frames : frames[i] = sid
    THEN SubSeq(frames, 1, CHOOSE i \in DOMAIN frames : frames[i] = sid) ELSE <<>>

\* _scripted_check_unused_on_complete, and exit 0 of an operator's run.
CompletionCode == IF script # Null /\ pos <= Len(script) THEN 1 ELSE 0

\* _detect_call_target: from the envelope, or from the workflow where the
\* envelope is that of a first step.
DetectCallTarget(sid) == ActiveStep(sid).call

\* The advance path: the new step_id, and whether it is to be entered.
Advance(sid) ==
    /\ step_id' = sessions[sid].current_step
    /\ phase' = IF DetectCallTarget(sid) # Null THEN "descend" ELSE "prompt"
    /\ chosen' = Null
    /\ UNCHANGED exit

\* An answer of start_workflow or submit_step, in the order of the loop: pop
\* the frames, then validation_error, then the terminal statuses, then advance.
Classify ==
    /\ phase \in {"started", "submitted"}
    /\ Quiet
    /\ frames' = IF Propagated THEN Ascend(AnsweredSession) ELSE frames
    /\ \/ /\ Status = "validation_error"
          /\ IF RetriesExhausted THEN Exit(1) ELSE phase' = "reprompt" /\ UNCHANGED exit
          /\ UNCHANGED <<step_id, chosen>>
       \/ /\ Status = "workflow_complete"
          /\ Exit(CompletionCode)
          /\ UNCHANGED <<step_id, chosen>>
       \/ /\ Status = "error"
          /\ Exit(1)
          /\ UNCHANGED <<step_id, chosen>>
       \/ /\ Status = "advance"
          /\ Advance(AnsweredSession)
    /\ UNCHANGED <<vars, script, pos, before>>

\* The answer of enter_sub_workflow, in _descend: the child's frame is pushed
\* and its first step is the next one, or the run ends.
ClassifyDescent ==
    /\ phase = "entered"
    /\ Quiet
    /\ \/ /\ TopFrames(stack, Top) = {}
          /\ Exit(1)
          /\ UNCHANGED <<frames, step_id, chosen>>
       \/ \E child \in TopFrames(stack, Top) :
             /\ frames' = Append(frames, child)
             /\ Advance(child)
    /\ UNCHANGED <<vars, script, pos, before>>

---------------------------------------------------------------------------
(***************************************************************************)
(* The calls.                                                              *)
(***************************************************************************)
Issue(next) ==
    /\ phase' = next
    /\ before' = sessions
    /\ UNCHANGED <<script, step_id, exit>>

Launch(sid) ==
    /\ phase = "launch"
    /\ StartWorkflow(WorkerThread, Target, sid)
    /\ frames' = <<sid>>
    /\ Issue("started")
    /\ UNCHANGED <<pos, chosen>>

Descend(child) ==
    /\ phase = "descend"
    /\ EnterSubWorkflow(WorkerThread, Top, child)
    /\ Issue("entered")
    /\ UNCHANGED <<pos, frames, chosen>>

\* _scripted_consume: the entry for this step, 0 where the run ends.  In a
\* sub-workflow entries for other steps are walked past; at the root the next
\* entry has to be the one.
Consume(kind, from) ==
    LET hits == {i \in from..Len(script) : script[i].step_id = step_id}
        at   == IF hits = {} \/ (Depth = 0 /\ Min(hits) # from) THEN 0 ELSE Min(hits)
    IN  IF at # 0 /\ script[at].kind = kind THEN at ELSE 0

\* What the reader gives for this prompt: [value, pos], the value Null where it
\* ends the run.  An operator may answer anything or close the input; an empty
\* answer to the branch prompt is the default branch, one of the choices.
ReadResponse ==
    IF script = Null THEN {[value |-> c, pos |-> pos] : c \in Content \cup {Null}}
    ELSE LET at == Consume("response", pos)
         IN  {[value |-> IF at = 0 THEN Null ELSE script[at].value, pos |-> at + 1]}
PromptBranch(from) ==
    IF script = Null
    THEN {[value |-> b, pos |-> from] : b \in ActiveStep(Top).branches \cup {Null}}
    ELSE LET at == Consume("branch", from)
         IN  {[value |-> IF at = 0 THEN Null ELSE script[at].value, pos |-> at + 1]}

Abort ==
    /\ Exit(1)
    /\ UNCHANGED <<vars, script, pos, frames, step_id, before, chosen>>

\* submit_step without an artifact_id.
Submit(content, branch, next) ==
    /\ Resolved(WorkerThread, "submit_step", Top,
          [op |-> "submit_step", sid |-> Top, row |-> sessions[Top],
           content |-> content, branch |-> branch, art |-> Null])
    /\ Submittable(sessions[Top])
    /\ Issue("submitted")
    /\ pos' = next
    /\ UNCHANGED frames

\* The content, then the branch where the step has branches.
Prompt ==
    /\ phase = "prompt"
    /\ \E response \in ReadResponse :
          IF response.value = Null THEN Abort
          ELSE IF ActiveStep(Top).branches = {}
          THEN Submit(response.value, Null, response.pos) /\ UNCHANGED chosen
          ELSE \E branch \in PromptBranch(response.pos) :
                  IF branch.value = Null THEN Abort
                  ELSE /\ Submit(response.value, branch.value, branch.pos)
                       /\ chosen' = branch.value

\* After a validation_error the content is asked for again, and only that.
Reprompt ==
    /\ phase = "reprompt"
    /\ \E response \in ReadResponse :
          IF response.value = Null THEN Abort
          ELSE Submit(response.value, Null, response.pos) /\ UNCHANGED chosen

Done == phase = "done" /\ UNCHANGED dryRunVars

DryRunNext ==
    \/ \E sid \in Sid : Launch(sid)
    \/ Work(WorkerThread) /\ UNCHANGED replVars
    \/ Classify
    \/ ClassifyDescent
    \/ \E child \in Sid : Descend(child)
    \/ Prompt
    \/ Reprompt
    \/ Done

DryRunSpec == DryRunInit /\ [][DryRunNext]_dryRunVars

---------------------------------------------------------------------------
(***************************************************************************)
(* Properties.                                                             *)
(***************************************************************************)

\* The REPL knows where it is: whenever it prompts or is about to descend, its
\* frames are the server's chain of sessions from the root to the one that is
\* not paused, and step_id is where that session stands, although it derived
\* both from envelopes only, through retries, descents and ascents (D047).
ReplMatchesServer ==
    phase \in {"prompt", "reprompt", "descend"} =>
        /\ frames # <<>>
        /\ frames[1] \notin DOMAIN stack
        /\ \A i \in 1..(Len(frames) - 1) : TopFrames(stack, frames[i]) = {frames[i + 1]}
        /\ TopFrames(stack, Top) = {}
        /\ Top \in DOMAIN sessions /\ step_id = sessions[Top].current_step

\* Exit code 0 means what a CI run takes it for: the target workflow itself is
\* complete, no frame is left on it and no entry of the responses file is left
\* over, although the loop only sees the status of the last envelope.  (No
\* called workflow ends in a call-step: see CompletionIsOfTheRoot.)
ExitZeroMeansComplete ==
    exit = 0 =>
        /\ IsComplete(sessions[frames[1]])
        /\ stack = <<>>
        /\ script # Null => pos > Len(script)

\* The module's docstring: the loop runs "until the workflow completes or
\* errors": exit code 0 is for the workflow on the command line.
CompletionIsOfTheRoot == exit = 0 => IsComplete(sessions[frames[1]])

\* README.md, "Branch selection" and the prompt itself ("-> <target>"): where
\* the submission of a step is accepted, the session goes where the operator or
\* the script chose, whatever retries came in between.
BranchChoiceKept ==
    [][phase' \in {"prompt", "descend"} /\ chosen # Null => step_id' = chosen]_dryRunVars
=============================================================================
