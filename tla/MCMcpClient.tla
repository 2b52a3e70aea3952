---------------------------- MODULE MCMcpClient -----------------------------
(***************************************************************************)
(* Small instances of McpClient for TLC: two tools of one server, whose    *)
(* schemas disagree on one argument tree.                                  *)
(***************************************************************************)
EXTENDS McpClient, TLC

ToolA == [server |-> "srv", tool |-> "a"]
ToolB == [server |-> "srv", tool |-> "b"]
OneTool == {ToolA}
TwoTools == {ToolA, ToolB}

\* Two calls of one tool, calls of two tools, and one that resolves to nothing.
Of(tool, args) == [key |-> tool, args |-> args]
SmallWants ==
  {[c1 |-> Of(ToolA, "x"), c2 |-> Of(ToolA, "y")],
   [c1 |-> Of(ToolA, "y"), c2 |-> Of(ToolB, "y")],
   [c1 |-> Of(ToolA, Unresolved), c2 |-> Of(ToolB, "x")]}
SmallListings == {[k \in TwoTools |-> IF k = ToolA THEN "strict" ELSE "loose"]}

SmallAccepts == [strict |-> {"x"}, loose |-> {"x", "y"}]
=============================================================================
