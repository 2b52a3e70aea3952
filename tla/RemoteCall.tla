----------------------------- MODULE RemoteCall -----------------------------
(***************************************************************************)
(* What an mcp_tool_call step may assume of its remote call: the call      *)
(* returns once, a success means that the server ran the tool, and the     *)
(* server runs it at most MaxAttempts times.  It is not exactly-once: the  *)
(* tool may run although the step reports an error, may run several times, *)
(* and may still run after the step has returned.                          *)
(***************************************************************************)
EXTENDS Naturals

CONSTANTS Call, MaxAttempts

VARIABLES status, runs

vars == <<status, runs>>

Init == /\ status = [c \in Call |-> "idle"]
        /\ runs = [c \in Call |-> 0]

Begin(c) == /\ status[c] = "idle"
            /\ status' = [status EXCEPT ![c] = "open"]
            /\ UNCHANGED runs

RunTool(c) == /\ status[c] # "idle"
              /\ runs[c] < MaxAttempts
              /\ runs' = [runs EXCEPT ![c] = @ + 1]
              /\ UNCHANGED status

Return(c) == /\ status[c] = "open"
             /\ \E r \in {"ok", "error"} :
                   /\ r = "ok" => runs[c] > 0
                   /\ status' = [status EXCEPT ![c] = r]
             /\ UNCHANGED runs

Next == \E c \in Call : Begin(c) \/ RunTool(c) \/ Return(c)

Spec == Init /\ [][Next]_vars
=============================================================================
