------------------------------ MODULE MCLoader ------------------------------
(***************************************************************************)
(* Directories of workflow files for TLC: every call graph over three      *)
(* workflows and an unknown target, and one directory per kind of defect.  *)
(***************************************************************************)
EXTENDS Loader, TLC

Plain(id) ==
  [id |-> id, kind |-> "llm", keys |-> RequiredStepKeys, malformed |-> {},
   precondition |-> Null, subpath |-> FALSE, branches |-> {}, default_branch |-> Null,
   inject |-> {}, call |-> Null, server |-> Null]
With(step, key) == [step EXCEPT !.keys = @ \cup {key}]
Calling(id, target) == [With(Plain(id), "call") EXCEPT !.call = target]
Remote(id, server) == [Plain(id) EXCEPT !.kind = "mcp", !.keys = McpRequired \cup {"action"},
                                        !.server = server]
When(step, type, ref) ==
  [With(step, "precondition") EXCEPT !.precondition = [type |-> type, ref |-> ref, value |-> "good"]]
Broken(step, key) == [With(step, key) EXCEPT !.malformed = {key}]
To(step, targets, default) ==
  [step EXCEPT !.keys = @ \cup {"branches"} \cup (IF default = Null THEN {} ELSE {"default_branch"}),
               !.branches = targets, !.default_branch = default]

Doc(name, steps) == [name |-> name, header |-> {}, steps |-> steps, guardrails |-> <<>>]

\* A workflow that calls each of the targets.
Caller(name, targets) ==
  LET t == SetToSortSeq(targets, <)
  IN  Doc(name, <<Plain("s")>> \o [i \in DOMAIN t |-> Calling(<<"a", "b", "c", "d">>[i], t[i])])
Graphs == {[f \in File |-> Caller(f, g[f])] : g \in [File -> SUBSET (0..N)]}

\* Steps a, b, c with every combination of preconditions on b and c.
Refs == {"a", "b", "c", "x"}
Guarded(id) == {Plain(id)} \cup {When(Plain(id), t, r) : t \in {"when_equals", "when_present"}, r \in Refs}
Conditional == {Doc(1, <<Plain("a"), b, c>>) : b \in Guarded("b"), c \in Guarded("c")}

Defective ==
  {Doc(1, <<>>), [Doc(1, <<Plain("a")>>) EXCEPT !.header = {"yaml"}],
   Doc(1, <<[Plain("a") EXCEPT !.keys = @ \ {"gates"}]>>),
   Doc(1, <<Broken(Plain("a"), "max_retries")>>),
   Doc(1, <<With(Plain("a"), "collect")>>),
   Doc(1, <<With(Calling("a", 2), "intermediate_artifacts")>>),
   Doc(1, <<To(Calling("a", 2), {"a"}, Null)>>), Doc(1, <<To(Calling("a", 2), {"b"}, "b"), Plain("b")>>),
   Doc(1, <<With(Plain("a"), "call_context_from")>>), Doc(1, <<With(Plain("a"), "output_from")>>),
   Doc(1, <<To(Plain("a"), {"x"}, Null)>>), Doc(1, <<[With(Plain("a"), "inject_context") EXCEPT !.inject = {"x"}]>>),
   Doc(1, <<When(Plain("a"), "when_present", "a")>>),
   Doc(1, <<Plain("a"), [When(Plain("b"), "when_equals", "a") EXCEPT !.subpath = TRUE]>>),
   Doc(1, <<Remote("a", "srv"), [When(Plain("b"), "when_equals", "a") EXCEPT !.subpath = TRUE]>>),
   Doc(1, <<Remote("a", "other")>>), Doc(1, <<With(Remote("a", "srv"), "call")>>),
   [Doc(1, <<Plain("a")>>) EXCEPT
      !.guardrails = <<[action |-> "force_branch", target_step |-> "x", malformed |-> {}]>>]}

\* The two files of a directory may have one name.
Pairs == {[f \in File |-> IF f = 1 THEN d ELSE Caller(IF f = N THEN 1 ELSE f, {})]
            : d \in Defective \cup Conditional}
SmallDocuments == Graphs \cup Pairs

Entry(name, ok) == [name |-> name, well_formed |-> ok]
SmallRegistries == {Null, <<Entry("srv", TRUE)>>}
AllRegistries == SmallRegistries \cup {<<>>, <<Entry("srv", FALSE)>>, <<Entry("srv", TRUE), Entry("srv", TRUE)>>}

DuplicateIds == {[f \in File |-> Doc(f, <<Plain("a"), Plain("a")>>)]}
=============================================================================
