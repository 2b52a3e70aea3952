------------------------------- MODULE Loader -------------------------------
(***************************************************************************)
(* From files to a running server: create_app reads the MCP registry and   *)
(* the workflow files, validate_workflow rejects a defective file, and     *)
(* validate_workflow_calls searches the call graph for unknown targets and *)
(* cycles.  The rest of the server takes for granted what these checks     *)
(* let through.                                                            *)
(*                                                                         *)
(* A workflow's name is its rank in the sorted order of names, so that     *)
(* sorted(...) is the order of the numbers; 0 is a name no file has.       *)
(* A parsed file is a record                                               *)
(*   name, header   defects outside the steps: unreadable, oversize, ...   *)
(*   steps          sequence of step documents                             *)
(*   guardrails     sequence of [action, target_step, malformed]           *)
(* and a step document has the fields StepRouting reads, and               *)
(*   keys           the keys it has; collect only when it is true          *)
(*   malformed      the keys whose value has the wrong type or shape       *)
(*   subpath        whether the precondition's ref goes below the step id  *)
(*   inject         the steps its inject_context reads                     *)
(*   server         the MCP server of an mcp_tool_call step                *)
(***************************************************************************)
EXTENDS StepRouting, SequencesExt

CONSTANTS
  N,          \* workflow names 1..N
  File,       \* the *.yaml files of the workflow directory
  Documents,  \* what a file may hold: a set of functions [File -> parsed file]
  Registries  \* what mcp_servers.yaml may hold: Null when there is none

Name == 1..N

ASSUME LoaderConstants ==
  /\ N \in Nat
  /\ \A docs \in Documents : \A f \in File : docs[f].name \in Name

VARIABLES
  phase,      \* "registry", "load", "search", "started" or "refused"
  docs,       \* what the files hold
  registry,   \* the registry file, then the names of its servers
  unread,     \* files that glob has not produced yet
  workflows,  \* loaded workflows by name
  color,      \* of the search: "white", "gray" or "black"
  stack,      \* of the search: the open nodes and their unexplored neighbours
  errors      \* of validate_workflow_calls, in the order found

vars == <<phase, docs, registry, unread, workflows, color, stack, errors>>
search == <<color, stack>>

Init ==
  /\ phase = "registry"
  /\ docs \in Documents
  /\ registry \in Registries
  /\ unread = File
  /\ workflows = <<>>
  /\ color = <<>> /\ stack = <<>> /\ errors = <<>>
-----------------------------------------------------------------------------
(***************************************************************************)
(* validate_workflow.  Each operator is the set of what is wrong.          *)
(***************************************************************************)
Defects(holds, what) == IF holds THEN {what} ELSE {}

RequiredStepKeys == {"id", "title", "directive_template", "gates", "anti_patterns"}
McpRequired == {"id", "title", "server", "tool", "args"}
McpChecked == {"server", "tool", "args", "timeout"}
McpAllowed == {"id", "title", "action", "server", "tool", "args", "timeout",
               "step_description", "precondition", "branches", "default_branch"}

\* _validate_mcp_tool_call_step: the mutually exclusive and the unknown fields
\* are those outside the allowed ones.  Of the optional fields only these four
\* are looked into.
McpStepDefects(step) ==
  (McpRequired \ step.keys) \cup (step.malformed \cap McpChecked) \cup (step.keys \ McpAllowed)

\* The required keys and _validate_step_optional_fields.
LlmStepDefects(step) ==
  LET Has(key) == key \in step.keys IN
  (RequiredStepKeys \ step.keys) \cup step.malformed
  \cup Defects(Has("collect") /\ ~Has("output_schema"), "collect_without_schema")
  \cup Defects(Has("call") /\ Has("collect"), "call_with_collect")
  \cup Defects(Has("call") /\ Has("intermediate_artifacts"), "call_with_artifacts")
  \cup Defects(Has("call") /\ Has("branches") /\ ~Has("default_branch"),
               "call_branches_without_default")
  \cup Defects(Has("call_context_from") /\ ~Has("call"), "call_context_from_without_call")
  \cup Defects(Has("output_from") /\ ~Has("intermediate_artifacts"), "output_from")

StepDefects(step) == IF step.kind = "mcp" THEN McpStepDefects(step) ELSE LlmStepDefects(step)

\* The registry cross-check.
ServerDefects(doc) ==
  LET servers == {doc.steps[i].server : i \in {j \in DOMAIN doc.steps : doc.steps[j].kind = "mcp"}}
  IN  Defects(servers # {} /\ registry = Null, "registry_required")
      \cup Defects(registry # Null /\ ~servers \subseteq registry, "unknown_server")

\* sid_to_index: of two steps with one id, the later.
IndexOf(doc, id) == Max({i \in DOMAIN doc.steps : doc.steps[i].id = id})

ForwardRefOffByOne(doc, k, id) == IndexOf(doc, id) > k
ForwardRef(doc, k, id) == IndexOf(doc, id) >= k

\* _validate_workflow_preconditions; a ref to no step at all passes, and so
\* does what _precondition_ref cannot make sense of.
PreconditionDefects(doc, k) ==
  LET step == doc.steps[k]
      pc == step.precondition
      Target == doc.steps[IndexOf(doc, pc.ref)]
  IN  IF pc = Null \/ "precondition" \in step.malformed THEN {}
      ELSE IF k = 1 THEN {"first_step"}
      ELSE IF pc.ref \notin StepIds(doc) THEN {}
      ELSE IF ForwardRef(doc, k, pc.ref) THEN {"forward_ref"}
      ELSE Defects(/\ step.subpath
                   /\ Target.kind # "mcp"
                   /\ {"output_schema", "collect"} \cap Target.keys = {}, "subpath")

\* inject_context, branches and default_branch name steps of the workflow.
ReferenceDefects(doc) ==
  LET Named(step) == step.inject \cup step.branches
                     \cup Defects(step.default_branch # Null, step.default_branch)
  IN  UNION {Named(doc.steps[i]) : i \in DOMAIN doc.steps} \ StepIds(doc)

GuardrailDefects(doc) ==
  UNION {LET g == doc.guardrails[i] IN
         g.malformed \cup Defects(g.action = "force_branch" /\ g.target_step \notin StepIds(doc),
                                  "target_step")
         : i \in DOMAIN doc.guardrails}

\* All of validate_workflow; load_workflow raises on the first of them.
WorkflowDefects(doc) ==
  IF doc.steps = <<>> THEN doc.header \cup {"no_steps"}
  ELSE doc.header \cup ServerDefects(doc) \cup ReferenceDefects(doc) \cup GuardrailDefects(doc)
       \cup UNION {StepDefects(doc.steps[k]) \cup PreconditionDefects(doc, k) : k \in DOMAIN doc.steps}
-----------------------------------------------------------------------------
(***************************************************************************)
(* create_app.                                                             *)
(***************************************************************************)
\* Registry.from_yaml: an entry that does not parse, or a name used twice,
\* refuses the whole file.
RegistryDefective(entries) ==
  \/ \E i \in DOMAIN entries : ~entries[i].well_formed
  \/ \E i, j \in DOMAIN entries : i # j /\ entries[i].name = entries[j].name

LoadRegistry ==
  /\ phase = "registry"
  /\ \/ /\ registry = Null /\ phase' = "load" /\ UNCHANGED registry
     \/ /\ registry # Null /\ RegistryDefective(registry)
        /\ phase' = "refused" /\ UNCHANGED registry
     \/ /\ registry # Null /\ ~RegistryDefective(registry)
        /\ phase' = "load"
        /\ registry' = {registry[i].name : i \in DOMAIN registry}
  /\ UNCHANGED <<docs, unread, workflows, search, errors>>

\* glob yields the files in no particular order; a later file replaces an
\* earlier one of the same name.
LoadWorkflow(f) ==
  /\ phase = "load" /\ f \in unread
  /\ unread' = unread \ {f}
  /\ IF WorkflowDefects(docs[f]) # {}
       THEN phase' = "refused" /\ UNCHANGED workflows
       ELSE /\ workflows' = [n \in DOMAIN workflows \cup {docs[f].name} |->
                               IF n = docs[f].name THEN docs[f] ELSE workflows[n]]
            /\ UNCHANGED phase
  /\ UNCHANGED <<docs, registry, search, errors>>

Known == DOMAIN workflows

\* The call-steps' targets: edges.
Calls(n) == {workflows[n].steps[i].call : i \in
               {j \in DOMAIN workflows[n].steps : "call" \in workflows[n].steps[j].keys}}
OutgoingElsewhere(n) == (Calls(n) \cap Known) \ {n}
Outgoing(n) == Calls(n) \cap Known

\* validate_workflow_calls, first loop.
CheckTargets ==
  /\ phase = "load" /\ unread = {}
  /\ phase' = "search"
  /\ color' = [n \in Known |-> "white"]
  /\ errors' = IF \E n \in Known : ~Calls(n) \subseteq Known
               THEN <<[kind |-> "unknown_call_target"]>> ELSE <<>>
  /\ UNCHANGED <<docs, registry, unread, workflows, stack>>

Opened(n) == [node |-> n, remaining |-> Outgoing(n)]
White == {n \in DOMAIN color : color[n] = "white"}
Top == stack[Len(stack)]

\* visit: the next unvisited name opens a search.
Visit ==
  LET n == Min(White) IN
  /\ phase = "search" /\ stack = <<>> /\ White # {}
  /\ color' = [color EXCEPT ![n] = "gray"]
  /\ stack' = <<Opened(n)>>
  /\ UNCHANGED <<phase, docs, registry, unread, workflows, errors>>

CloseUnmarked ==
  /\ phase = "search" /\ stack # <<>> /\ Top.remaining = {}
  /\ color' = [color EXCEPT ![Top.node] = "white"]
  /\ stack' = Front(stack)
  /\ UNCHANGED <<phase, docs, registry, unread, workflows, errors>>
\* All neighbours of the top of the stack are explored.
Close ==
  /\ phase = "search" /\ stack # <<>> /\ Top.remaining = {}
  /\ color' = [color EXCEPT ![Top.node] = "black"]
  /\ stack' = Front(stack)
  /\ UNCHANGED <<phase, docs, registry, unread, workflows, errors>>

CyclePathShort(n) ==
  LET path == [i \in DOMAIN stack |-> stack[i].node]
      idx == Min({i \in DOMAIN stack : path[i] = n})
  IN  Append(SubSeq(path, idx + 1, Len(path)), n)
\* path[idx:] + [nxt]: the nodes of the stack from n on, and n again.
CyclePath(n) ==
  LET path == [i \in DOMAIN stack |-> stack[i].node]
      idx == Min({i \in DOMAIN stack : path[i] = n})
  IN  Append(SubSeq(path, idx, Len(path)), n)

\* The next neighbour of the top: open, opened now, or done with.
Explore ==
  LET n == Min(Top.remaining)
      rest == [stack EXCEPT ![Len(stack)].remaining = @ \ {n}]
  IN
  /\ phase = "search" /\ stack # <<>> /\ Top.remaining # {}
  /\ CASE color[n] = "gray" ->
            /\ errors' = Append(errors, [kind |-> "call_cycle", path |-> CyclePath(n)])
            /\ stack' = rest /\ UNCHANGED color
       [] color[n] = "white" ->
            /\ color' = [color EXCEPT ![n] = "gray"]
            /\ stack' = Append(rest, Opened(n)) /\ UNCHANGED errors
       [] color[n] = "black" ->
            /\ stack' = rest /\ UNCHANGED <<color, errors>>
  /\ UNCHANGED <<phase, docs, registry, unread, workflows>>

\* The first error is raised; so is an empty directory.
Conclude ==
  /\ phase = "search" /\ stack = <<>> /\ White = {}
  /\ phase' = IF errors # <<>> \/ Known = {} THEN "refused" ELSE "started"
  /\ UNCHANGED <<docs, registry, unread, workflows, search, errors>>

Next ==
  \/ LoadRegistry \/ \E f \in File : LoadWorkflow(f)
  \/ CheckTargets \/ Visit \/ Explore \/ Close \/ Conclude

\* One thread, which does not stop by itself.
Spec == Init /\ [][Next]_vars /\ WF_vars(Next)
-----------------------------------------------------------------------------
TypeOK ==
  /\ phase \in {"registry", "load", "search", "started", "refused"}
  /\ docs \in Documents
  /\ unread \subseteq File
  /\ Known \subseteq Name
  /\ color \in [DOMAIN color -> {"white", "gray", "black"}]
  /\ \A i \in DOMAIN stack : stack[i].node \in Known /\ stack[i].remaining \subseteq Known

\* Reference definition: m is reached from n by one or more calls, N + 1 at most.
Within(n) ==
  LET step(S) == S \cup UNION {Calls(k) : k \in S \cap Known}
      within[i \in 0..N] == IF i = 0 THEN Calls(n) ELSE step(within[i - 1])
  IN  within
Reaches(n, m) == m \in Within(n)[N]
CallsAcyclic == \A n \in Known : ~Reaches(n, n)
TargetsKnown == \A n \in Known : Calls(n) \subseteq Known

\* Whatever the order of the files, the search decides exactly what the
\* docstring of validate_workflow_calls promises: "call targets exist; the
\* call graph is acyclic".
CallGraphVerdict ==
  phase \in {"started", "refused"} /\ color # <<>> =>
    (phase = "started" <=> TargetsKnown /\ CallsAcyclic)

\* While the search runs: the gray nodes are the stack, which is a chain of
\* calls; a closed node's calls are closed too or reported; and every reported
\* cycle can be walked.
Walk(path) == \A i \in 1..(Len(path) - 1) : path[i + 1] \in Calls(path[i])
SearchSound ==
  /\ {n \in DOMAIN color : color[n] = "gray"} = {stack[i].node : i \in DOMAIN stack}
  /\ Walk([i \in DOMAIN stack |-> stack[i].node])
  /\ \A i \in DOMAIN errors : errors[i].kind = "call_cycle" =>
       Walk(errors[i].path) /\ Head(errors[i].path) = Last(errors[i].path)
  /\ errors = <<>> => \A n \in DOMAIN color : color[n] = "black" =>
       \A m \in Outgoing(n) : color[m] = "black"

\* tools.py judges a precondition in two places: _compute_skipped_steps with
\* the skips of the steps before it, _apply_skip_loop with those of the whole
\* workflow.  On every workflow the loader lets through they agree on whether
\* the step runs, is skipped or cascades into an error, whatever data the
\* session holds, because no precondition refers to its own step or forward.
SkipLoopAgrees ==
  phase = "started" =>
    \A n \in Known :
      LET wf == workflows[n] IN
      \A held \in SUBSET StepIds(wf) : \A data \in [held -> {"good", "bad"}] :
        \A i \in {k \in DOMAIN wf.steps : wf.steps[k].id \notin held} :
          LET id == wf.steps[i].id
              before == ComputeSkipped(wf, data) \cap {wf.steps[k].id : k \in 1..(i - 1)}
              verdict == EvaluatePrecondition(wf.steps[i].precondition, data, before)
              loop == ApplySkipLoop(wf, id, data, FALSE)
          IN  /\ verdict = "run" <=> loop = [step |-> id, cascade |-> FALSE]
              /\ verdict = "cascade" <=> loop = [step |-> id, cascade |-> TRUE]

\* create_app returns or raises: the search visits every edge once.
LoaderDecides == <>(phase \in {"started", "refused"})

\* SCHEMA.md, on a step's id: "Unique step identifier within the workflow."
StepIdsUnique ==
  phase = "started" =>
    \A n \in Known : \A i, j \in DOMAIN workflows[n].steps :
      workflows[n].steps[i].id = workflows[n].steps[j].id => i = j
=============================================================================
