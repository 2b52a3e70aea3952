------------------------------ MODULE StoreOps ------------------------------
(***************************************************************************)
(* What one SQL statement, or one group of statements inside a             *)
(* transaction, of megalos_server/state.py does to the two tables:         *)
(*                                                                         *)
(*   db.sessions   session_id -> row      (sessions)                       *)
(*   db.stack      session_id -> frame    (session_stack)                  *)
(*                                                                         *)
(* A row is a record with at least the columns current_step, updated_at,   *)
(* completed_at and parent_session_id; other columns of the row are        *)
(* carried along, so the store specification and the tool specification    *)
(* share these operators.  A frame is a record with the columns root,      *)
(* depth, frame_type and call_step.  The column called_session is left     *)
(* out: it is written and never read (db.py: "reads for runtime logic MUST *)
(* go through state.py's stack accessors").                                *)
(***************************************************************************)
EXTENDS Integers, FiniteSets, Functions

CONSTANTS
    Sid,          \* the session ids secrets.token_urlsafe may mint
    Null,         \* SQL NULL / Python None
    SessionCap    \* MEGALOS_SESSION_CAP

ASSUME StoreAssumption ==
    /\ Null \notin Sid
    /\ SessionCap \in Nat \ {0}

COMPLETE == "__complete__"
WORKFLOW_CHANGED == "__workflow_changed__"

\* INSERT / UPDATE of one key, and DELETE ... WHERE key IN S.
Put(f, k, v) == [x \in DOMAIN f \cup {k} |-> IF x = k THEN v ELSE f[x]]
Without(f, S) == Restrict(f, DOMAIN f \ S)

---------------------------------------------------------------------------
(***************************************************************************)
(* The stack accessors.  A frame records only its root and its depth, so   *)
(* "above s" and "below s" are positions (root, depth), not links.         *)
(***************************************************************************)

\* The position one level above session s: s is framed, or it is a root.
ChildSlotIgnoringOwnFrame(stack, s) == [root |-> s, depth |-> 1]
ChildSlotSameDepth(stack, s) ==
    IF s \in DOMAIN stack
    THEN [root |-> stack[s].root, depth |-> stack[s].depth]
    ELSE [root |-> s, depth |-> 1]
ChildSlotFromZero(stack, s) ==
    IF s \in DOMAIN stack
    THEN [root |-> stack[s].root, depth |-> stack[s].depth + 1]
    ELSE [root |-> s, depth |-> 0]
ChildSlot(stack, s) ==
    IF s \in DOMAIN stack
    THEN [root |-> stack[s].root, depth |-> stack[s].depth + 1]
    ELSE [root |-> s, depth |-> 1]

FramesAt(stack, root, depth) ==
    {s \in DOMAIN stack : stack[s].root = root /\ stack[s].depth = depth}

\* stack_depth counts the frames of a root.
FramesOf(stack, root) == {s \in DOMAIN stack : stack[s].root = root}

\* top_frame_for fetches one of these rows.
TopFramesOfFramed(stack, s) ==
    IF s \in DOMAIN stack THEN FramesAt(stack, stack[s].root, stack[s].depth + 1) ELSE {}
TopFrames(stack, s) ==
    LET slot == ChildSlot(stack, s) IN FramesAt(stack, slot.root, slot.depth)

\* parent_of returns one of these, or None.  At depth 1 it answers the root
\* id without looking whether that session still exists.
ParentsOf(stack, s) ==
    CASE s \notin DOMAIN stack     -> {}
      [] s \in DOMAIN stack /\ stack[s].depth = 1 -> {stack[s].root}
      [] OTHER -> FramesAt(stack, stack[s].root, stack[s].depth - 1)

---------------------------------------------------------------------------
(***************************************************************************)
(* Eviction at the session cap: ORDER BY (current_step = COMPLETE) DESC,   *)
(* COALESCE(completed_at, updated_at) ASC LIMIT to_evict.  Rows with equal *)
(* keys come in any order, so the choice among them is nondeterministic.   *)
(***************************************************************************)
IsComplete(row) == row.current_step = COMPLETE

RecencyKey(row) ==
    IF row.completed_at = Null THEN row.updated_at ELSE row.completed_at

EvictedBeforeAscending(r1, r2) ==
    \/ IsComplete(r2) /\ ~IsComplete(r1)
    \/ IsComplete(r1) = IsComplete(r2) /\ RecencyKey(r1) < RecencyKey(r2)
EvictedBefore(r1, r2) ==
    \/ IsComplete(r1) /\ ~IsComplete(r2)
    \/ IsComplete(r1) = IsComplete(r2) /\ RecencyKey(r1) < RecencyKey(r2)

ToEvictOffByOne(sessions) ==
    LET count == Cardinality(DOMAIN sessions)
    IN  IF count >= SessionCap THEN count - SessionCap ELSE 0
ToEvict(sessions) ==
    LET count == Cardinality(DOMAIN sessions)
    IN  IF count >= SessionCap THEN count - (SessionCap - 1) ELSE 0

EvictionChoices(sessions) ==
    {E \in SUBSET DOMAIN sessions :
        /\ Cardinality(E) = ToEvict(sessions)
        /\ \A e \in E, k \in DOMAIN sessions \ E :
              ~EvictedBefore(sessions[k], sessions[e])}

---------------------------------------------------------------------------
(***************************************************************************)
(* The writes.                                                             *)
(***************************************************************************)

\* delete_session, and the two DELETE loops of eviction and expiry: the rows
\* and the frames of the sessions themselves, nothing above them.
DeleteRowsOnly(db, S) == [db EXCEPT !.sessions = Without(@, S)]
DeleteSessions(db, S) ==
    [sessions |-> Without(db.sessions, S), stack |-> Without(db.stack, S)]

\* The frame create_session pushes for a session with a parent.
InsertFrame(stack, sid, parent, type, call) ==
    LET slot == ChildSlot(stack, parent)
    IN  Put(stack, sid, [root |-> slot.root, depth |-> slot.depth,
                         frame_type |-> type, call_step |-> call])

\* create_session: evict, insert the row, push the frame, in one transaction.
CreateSession(db, evicted, sid, row, type, call) ==
    LET kept   == DeleteSessions(db, evicted)
        parent == row.parent_session_id
    IN  [sessions |-> Put(kept.sessions, sid, row),
         stack    |-> IF parent = Null THEN kept.stack
                      ELSE InsertFrame(kept.stack, sid, parent, type, call)]

\* The condition under which create_session raises StackFull, which rolls the
\* whole transaction back.
StackFullOffByOne(db, evicted, parent, max) ==
    LET kept == DeleteSessions(db, evicted)
        root == ChildSlot(kept.stack, parent).root
    IN  Cardinality(FramesOf(kept.stack, root)) > max
StackFull(db, evicted, parent, max) ==
    LET kept == DeleteSessions(db, evicted)
        root == ChildSlot(kept.stack, parent).root
    IN  Cardinality(FramesOf(kept.stack, root)) >= max

\* update_session(current_step = step): completing stamps completed_at, and
\* nothing ever clears it.
SetCurrentStep(row, step, now) ==
    [row EXCEPT !.current_step = step,
                !.completed_at = IF step = COMPLETE THEN now ELSE @,
                !.updated_at   = now]

\* set_called_session(parent, child, call_step_id).
LinkChild(db, parent, child, call, now) ==
    [sessions |-> [db.sessions EXCEPT ![parent].updated_at = now],
     stack    |-> IF child \in DOMAIN db.stack
                  THEN [db.stack EXCEPT ![child].call_step = call]
                  ELSE db.stack]

\* set_called_session(parent, None): every frame one level above parent goes.
UnlinkChild(db, parent, now) ==
    [sessions |-> [db.sessions EXCEPT ![parent].updated_at = now],
     stack    |-> Without(db.stack, TopFrames(db.stack, parent))]

\* expire_sessions: completed rows by completed_at, the others by updated_at.
Expired(sessions, cutoff) ==
    {s \in DOMAIN sessions :
        IF IsComplete(sessions[s]) THEN sessions[s].completed_at < cutoff
                                   ELSE sessions[s].updated_at < cutoff}
=============================================================================
