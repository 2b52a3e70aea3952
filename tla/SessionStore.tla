---------------------------- MODULE SessionStore ----------------------------
(***************************************************************************)
(* The session store of megalos_server/state.py and db.py: two SQLite      *)
(* tables that every worker thread of the server changes, one BEGIN        *)
(* IMMEDIATE transaction at a time.  One action is one transaction; which  *)
(* transaction runs next, and for which session, is left to the callers    *)
(* (tools.py, see ToolCalls.tla), so every interleaving of their           *)
(* transactions is a behaviour of this specification.                      *)
(*                                                                         *)
(* The JSON columns of a row (step_data, retry_counts, step_visit_counts,  *)
(* escalation, artifact_checkpoints) are not represented: no property of   *)
(* the store reads them.  The writers of those columns are the action      *)
(* Touch, for what they do to the columns that are represented.            *)
(***************************************************************************)
EXTENDS StoreOps

CONSTANTS
    Step,            \* step ids a session may stand at
    MaxStackDepth,   \* max_stack_depth, given to create_session by push_flow
    MaxClock,        \* bound: the last instant of a behaviour
    LockWait         \* bound: how far the wait for the write lock may age a
                     \* timestamp that was read before BEGIN IMMEDIATE

ASSUME SessionStoreAssumption ==
    /\ Step \cap {COMPLETE, WORKFLOW_CHANGED} = {}
    /\ Null \notin Step \cup Nat
    /\ MaxStackDepth \in Nat
    /\ MaxClock \in Nat
    /\ LockWait \in Nat

VARIABLES
    sessions,   \* the sessions table: session_id -> row
    stack,      \* the session_stack table: session_id -> frame
    minted,     \* the ids handed out so far (token_urlsafe never repeats one)
    clock       \* wall clock, in ticks; many transactions share a tick

vars == <<sessions, stack, minted, clock>>

Position == Step \cup {COMPLETE, WORKFLOW_CHANGED}
Time == Nat

Row == [current_step : Position, updated_at : Time, completed_at : Time \cup {Null},
        parent_session_id : Sid \cup {Null}]

Frame == [root : Sid, depth : Nat \ {0}, frame_type : {"call", "digression"},
          call_step : Step \cup {Null}]

db == [sessions |-> sessions, stack |-> stack]

Commit(new) == sessions' = new.sessions /\ stack' = new.stack

\* create_session and update_session read the clock before they wait for the
\* write lock; every other writer reads it inside its transaction.
StampsBeforeLock == {t \in Time : t <= clock /\ clock <= t + LockWait}

Init ==
    /\ sessions = <<>>
    /\ stack = <<>>
    /\ minted = {}
    /\ clock = 0

Tick ==
    /\ clock < MaxClock
    /\ clock' = clock + 1
    /\ UNCHANGED <<sessions, stack, minted>>

---------------------------------------------------------------------------
NewRow(step, parent, now) ==
    [current_step |-> step, updated_at |-> now, completed_at |-> Null,
     parent_session_id |-> parent]

\* The create_session transaction for a session id not minted before.
Create(sid, row, type, call, evicted) ==
    /\ sid \notin minted
    /\ minted' = minted \cup {sid}
    /\ evicted \in EvictionChoices(sessions)
    /\ Commit(CreateSession(db, evicted, sid, row, type, call))
    /\ UNCHANGED clock

\* start_workflow: a session without a parent.
CreateRoot(sid, step, now, evicted) ==
    /\ now \in StampsBeforeLock
    /\ Create(sid, NewRow(step, Null, now), "call", Null, evicted)

\* enter_sub_workflow: a call-frame, no depth cap.  The parent was read in an
\* earlier transaction and may be gone by now.
CreateCallChild(sid, step, parent, now, evicted) ==
    /\ now \in StampsBeforeLock
    /\ parent \in minted
    /\ Create(sid, NewRow(step, parent, now), "call", Null, evicted)

\* push_flow: a digression-frame, refused (and rolled back) at the depth cap.
CreateDigression(sid, step, parent, call, now, evicted) ==
    /\ now \in StampsBeforeLock
    /\ parent \in minted
    /\ evicted \in EvictionChoices(sessions)
    /\ ~StackFull(db, evicted, parent, MaxStackDepth)
    /\ Create(sid, NewRow(step, parent, now), "digression", call, evicted)

\* update_session(current_step = ...).
UpdateSession(sid, step, now) ==
    /\ sid \in DOMAIN sessions
    /\ now \in StampsBeforeLock
    /\ sessions' = [sessions EXCEPT ![sid] = SetCurrentStep(@, step, now)]
    /\ UNCHANGED <<stack, minted, clock>>

\* The writers of the JSON columns: invalidate_steps_after,
\* clear_step_data_key, increment_retry, increment_visit, set_escalation,
\* store_artifact and update_session(step_data = ...).
Touch(sid, now) ==
    /\ sid \in DOMAIN sessions
    /\ now \in StampsBeforeLock
    /\ sessions' = [sessions EXCEPT ![sid].updated_at = now]
    /\ UNCHANGED <<stack, minted, clock>>

\* set_called_session, linking and clearing.
SetCalledSession(parent, child, call) ==
    /\ parent \in DOMAIN sessions
    /\ child \in minted
    /\ Commit(LinkChild(db, parent, child, call, clock))
    /\ UNCHANGED <<minted, clock>>

ClearCalledSession(parent) ==
    /\ parent \in DOMAIN sessions
    /\ Commit(UnlinkChild(db, parent, clock))
    /\ UNCHANGED <<minted, clock>>

\* delete_session.
DeleteSession(sid) ==
    /\ sid \in DOMAIN sessions
    /\ Commit(DeleteSessions(db, {sid}))
    /\ UNCHANGED <<minted, clock>>

\* expire_sessions.
ExpireSessions(cutoff) ==
    /\ Expired(sessions, cutoff) # {}
    /\ Commit(DeleteSessions(db, Expired(sessions, cutoff)))
    /\ UNCHANGED <<minted, clock>>

Next ==
    \/ Tick
    \/ \E sid \in Sid, step \in Position, now \in 0..clock : UpdateSession(sid, step, now)
    \/ \E sid \in Sid, now \in 0..clock : Touch(sid, now)
    \/ \E parent, child \in Sid, call \in Step : SetCalledSession(parent, child, call)
    \/ \E parent \in Sid : ClearCalledSession(parent)
    \/ \E sid \in Sid : DeleteSession(sid)
    \/ \E cutoff \in 0..clock : ExpireSessions(cutoff)
    \/ \E sid \in Sid, step \in Step, now \in 0..clock, evicted \in SUBSET Sid :
          CreateRoot(sid, step, now, evicted)
    \/ \E sid, parent \in Sid, step \in Step, now \in 0..clock, evicted \in SUBSET Sid :
          CreateCallChild(sid, step, parent, now, evicted)
    \/ \E sid, parent \in Sid, step, call \in Step, now \in 0..clock, evicted \in SUBSET Sid :
          CreateDigression(sid, step, parent, call, now, evicted)

Spec == Init /\ [][Next]_vars

---------------------------------------------------------------------------
(***************************************************************************)
(* Properties.                                                             *)
(***************************************************************************)

\* Every row and every frame has the columns and the values the DDL of db.py
\* allows, and ids are minted before they are used anywhere.
TypeOK ==
    /\ minted \subseteq Sid
    /\ clock \in Time
    /\ DOMAIN sessions \subseteq minted
    /\ sessions \in [DOMAIN sessions -> Row]
    /\ DOMAIN stack \subseteq minted
    /\ stack \in [DOMAIN stack -> Frame]
    /\ \A s \in DOMAIN stack : stack[s].root \in minted
    /\ \A s \in DOMAIN sessions :
          sessions[s].parent_session_id \in minted \cup {Null}

\* create_session makes room before it inserts: however many creators race,
\* the table never holds more rows than MEGALOS_SESSION_CAP.
CapRespected == Cardinality(DOMAIN sessions) <= SessionCap

\* A frame never outlives its session: delete, eviction and expiry remove the
\* session's own frame in the same transaction.
FramesHaveSessions == DOMAIN stack \subseteq DOMAIN sessions

\* The id a frame names as its root is never itself framed, so depth counts
\* from a true bottom of the stack (stack_depth, depth_breakdown and parent_of
\* rely on it), whatever was deleted, evicted or unlinked in between.
RootsUnframed == \A s \in DOMAIN stack : stack[s].root \notin DOMAIN stack

\* The immutable parent_session_id column and the stack agree (create_session:
\* "the stack and the legacy column agree on commit"): a frame at depth 1
\* stands on its parent, and a deeper one stands one level above its parent for
\* as long as the parent is framed.
ParentColumnAgrees ==
    \A s \in DOMAIN stack :
        LET p == sessions[s].parent_session_id
        IN  /\ p # Null
            /\ stack[s].depth = 1 => stack[s].root = p
            /\ p \in DOMAIN stack => /\ stack[s].root = stack[p].root
                                     /\ stack[s].depth = stack[p].depth + 1

\* push_flow's atomic guard: a transaction that adds a digression-frame leaves
\* its stack within max_stack_depth, also when the same transaction evicts.
DigressionsWithinCap ==
    [][\A s \in DOMAIN stack' \ DOMAIN stack :
          stack'[s].frame_type = "digression" =>
              Cardinality(FramesOf(stack', stack'[s].root)) <= MaxStackDepth]_vars

\* Eviction takes completed sessions first: a session that was not completed is
\* evicted by a creation only when no completed session is left.
CompletedEvictedFirst ==
    [][minted' # minted =>
         \A e \in DOMAIN sessions \ DOMAIN sessions' :
            ~IsComplete(sessions[e]) =>
               \A s \in DOMAIN sessions' \cap DOMAIN sessions : ~IsComplete(sessions[s])]_vars

\* The docstring of create_session: eviction falls through "to oldest active
\* sessions (by updated_at ASC)".
ActiveEvictedByUpdatedAt ==
    [][minted' # minted =>
         \A e \in DOMAIN sessions \ DOMAIN sessions' :
            ~IsComplete(sessions[e]) =>
               \A s \in DOMAIN sessions' \cap DOMAIN sessions :
                  sessions[e].updated_at <= sessions[s].updated_at]_vars
=============================================================================
