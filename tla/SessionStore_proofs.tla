------------------------ MODULE SessionStore_proofs -------------------------
(***************************************************************************)
(* The invariants of SessionStore, for every set of session ids, every     *)
(* cap and every clock.                                                    *)
(*                                                                         *)
(* Sessions and frames are addressed by id, so everything rests on ids     *)
(* being minted once: a new session is nobody's root and nobody's parent.  *)
(* Every transaction either creates one session (with or without a frame)  *)
(* or removes and rewrites entries without touching root, depth or         *)
(* parent_session_id.  The lemmas say so for the operators of StoreOps.    *)
(***************************************************************************)
EXTENDS SessionStore, FiniteSetTheorems, TLAPS

---------------------------------------------------------------------------
\* What a transaction that creates no session may do: entries go, and an entry
\* that stays keeps its position in the stack and its parent.
Shrinks ==
    /\ minted' = minted
    /\ DOMAIN sessions' \subseteq DOMAIN sessions
    /\ sessions' \in [DOMAIN sessions' -> Row]
    /\ \A s \in DOMAIN sessions' :
          sessions'[s].parent_session_id = sessions[s].parent_session_id
    /\ DOMAIN stack' \subseteq DOMAIN stack
    /\ stack' \in [DOMAIN stack' -> Frame]
    /\ \A s \in DOMAIN stack' :
          stack'[s].root = stack[s].root /\ stack'[s].depth = stack[s].depth
    /\ DOMAIN stack' \subseteq DOMAIN sessions'

\* The inductive invariant: the four properties need each other.
IInv ==
    /\ TypeOK
    /\ FramesHaveSessions
    /\ RootsUnframed
    /\ ParentColumnAgrees

\* The initial, empty database.
LEMMA InitIInv == Init => IInv
    BY DEF Init, IInv, TypeOK, FramesHaveSessions, RootsUnframed, ParentColumnAgrees, Time

\* A transaction that only shrinks preserves the invariant.
LEMMA ShrinkIInv ==
    ASSUME IInv, Shrinks, clock' \in Time
    PROVE  IInv'
    <1>1. TypeOK'
        BY DEF IInv, TypeOK, Shrinks, FramesHaveSessions
    <1>2. FramesHaveSessions'
        BY DEF Shrinks, FramesHaveSessions
    <1>3. RootsUnframed'
        BY DEF IInv, Shrinks, RootsUnframed
    <1>4. ParentColumnAgrees'
        BY DEF IInv, Shrinks, ParentColumnAgrees, FramesHaveSessions
    <1> QED BY <1>1, <1>2, <1>3, <1>4 DEF IInv

---------------------------------------------------------------------------
\* Deleting sessions with their frames (delete, expiry, and the eviction inside
\* create_session) leaves a database of the same shape.
LEMMA DeleteFacts ==
    ASSUME NEW S
    PROVE  /\ DeleteSessions(db, S).sessions = Without(sessions, S)
           /\ DeleteSessions(db, S).stack = Without(stack, S)
    BY DEF DeleteSessions, db

\* A deletion removes entries and leaves the others as they are.
LEMMA DeleteShrinks ==
    ASSUME IInv, NEW S, Commit(DeleteSessions(db, S)), UNCHANGED minted
    PROVE  Shrinks
    <1>1. sessions' = Without(sessions, S) /\ stack' = Without(stack, S)
        BY DeleteFacts DEF Commit
    <1> QED BY <1>1 DEF IInv, TypeOK, FramesHaveSessions, Shrinks, Without, Restrict

\* Writing one row, keeping its parent, shrinks (nothing).
LEMMA RowWriteShrinks ==
    ASSUME IInv, NEW sid \in DOMAIN sessions, NEW row \in Row,
           row.parent_session_id = sessions[sid].parent_session_id,
           sessions' = [sessions EXCEPT ![sid] = row],
           UNCHANGED <<stack, minted>>
    PROVE  Shrinks
    BY DEF IInv, TypeOK, FramesHaveSessions, Shrinks

\* update_session writes one row and keeps its parent.
LEMMA UpdateSessionShrinks ==
    ASSUME IInv, NEW sid, NEW step \in Position, NEW now, UpdateSession(sid, step, now)
    PROVE  Shrinks
    <1> DEFINE row == SetCurrentStep(sessions[sid], step, now)
    <1>1. /\ sid \in DOMAIN sessions
          /\ now \in Time
          /\ sessions[sid] \in Row
        BY DEF UpdateSession, StampsBeforeLock, IInv, TypeOK
    <1>2. row \in Row /\ row.parent_session_id = sessions[sid].parent_session_id
        BY <1>1 DEF SetCurrentStep, Row
    <1>3. sessions' = [sessions EXCEPT ![sid] = row]
        BY DEF UpdateSession
    <1> QED BY <1>1, <1>2, <1>3, RowWriteShrinks DEF UpdateSession

\* So do the writers of the JSON columns.
LEMMA TouchShrinks ==
    ASSUME IInv, NEW sid, NEW now, Touch(sid, now)
    PROVE  Shrinks
    <1> DEFINE row == [sessions[sid] EXCEPT !.updated_at = now]
    <1>1. /\ sid \in DOMAIN sessions
          /\ now \in Time
          /\ sessions[sid] \in Row
        BY DEF Touch, StampsBeforeLock, IInv, TypeOK
    <1>2. row \in Row /\ row.parent_session_id = sessions[sid].parent_session_id
        BY <1>1 DEF Row
    <1>3. sessions' = [sessions EXCEPT ![sid] = row]
        BY DEF Touch
    <1> QED BY <1>1, <1>2, <1>3, RowWriteShrinks DEF Touch

\* set_called_session(parent, child) relabels a frame and leaves it in place.
LEMMA SetCalledSessionShrinks ==
    ASSUME IInv, NEW parent, NEW child, NEW call \in Step,
           SetCalledSession(parent, child, call)
    PROVE  Shrinks
    <1>1. /\ parent \in DOMAIN sessions
          /\ clock \in Time
          /\ minted' = minted
          /\ sessions' = [sessions EXCEPT ![parent].updated_at = clock]
          /\ stack' = IF child \in DOMAIN stack
                      THEN [stack EXCEPT ![child].call_step = call] ELSE stack
        BY DEF SetCalledSession, Commit, LinkChild, db, IInv, TypeOK
    <1>2. /\ DOMAIN sessions' = DOMAIN sessions
          /\ sessions' \in [DOMAIN sessions -> Row]
          /\ \A s \in DOMAIN sessions :
                sessions'[s].parent_session_id = sessions[s].parent_session_id
        BY <1>1 DEF IInv, TypeOK, Row
    <1>3. /\ DOMAIN stack' = DOMAIN stack
          /\ stack' \in [DOMAIN stack -> Frame]
          /\ \A s \in DOMAIN stack :
                stack'[s].root = stack[s].root /\ stack'[s].depth = stack[s].depth
        BY <1>1 DEF IInv, TypeOK, Frame
    <1> QED BY <1>1, <1>2, <1>3 DEF Shrinks, IInv, FramesHaveSessions

\* set_called_session(parent, None) only removes frames.
LEMMA ClearCalledSessionShrinks ==
    ASSUME IInv, NEW parent, ClearCalledSession(parent)
    PROVE  Shrinks
    <1> DEFINE gone == TopFrames(stack, parent)
    <1>1. /\ parent \in DOMAIN sessions
          /\ clock \in Time
          /\ minted' = minted
          /\ sessions' = [sessions EXCEPT ![parent].updated_at = clock]
          /\ stack' = Without(stack, gone)
        BY DEF ClearCalledSession, Commit, UnlinkChild, db, IInv, TypeOK
    <1>2. /\ DOMAIN sessions' = DOMAIN sessions
          /\ sessions' \in [DOMAIN sessions -> Row]
          /\ \A s \in DOMAIN sessions :
                sessions'[s].parent_session_id = sessions[s].parent_session_id
        BY <1>1 DEF IInv, TypeOK, Row
    <1> HIDE DEF gone
    <1>3. /\ DOMAIN stack' \subseteq DOMAIN stack
          /\ stack' \in [DOMAIN stack' -> Frame]
          /\ \A s \in DOMAIN stack' : stack'[s] = stack[s]
        BY <1>1 DEF IInv, TypeOK, Without, Restrict
    <1> QED BY <1>1, <1>2, <1>3 DEF Shrinks, IInv, FramesHaveSessions

---------------------------------------------------------------------------
\* The create_session transaction, from the database the eviction leaves.
LEMMA CreateRootIInv ==
    ASSUME IInv, NEW sid \in Sid, NEW row \in Row, NEW type, NEW call, NEW evicted,
           row.parent_session_id = Null, Create(sid, row, type, call, evicted)
    PROVE  IInv'
    <1>1. /\ sid \notin minted
          /\ minted' = minted \cup {sid}
          /\ sessions' = Put(Without(sessions, evicted), sid, row)
          /\ stack' = Without(stack, evicted)
          /\ clock' = clock
        BY DeleteFacts DEF Create, Commit, CreateSession
    <1>2. /\ DOMAIN sessions' = (DOMAIN sessions \ evicted) \cup {sid}
          /\ sessions'[sid] = row
          /\ \A s \in DOMAIN sessions \ evicted : s # sid /\ sessions'[s] = sessions[s]
          /\ sessions' = [s \in DOMAIN sessions' |-> sessions'[s]]
        BY <1>1 DEF IInv, TypeOK, Put, Without, Restrict
    <1>3. /\ DOMAIN stack' = DOMAIN stack \ evicted
          /\ \A s \in DOMAIN stack' : stack'[s] = stack[s]
          /\ stack' = [s \in DOMAIN stack' |-> stack'[s]]
        BY <1>1 DEF Without, Restrict
    <1>4. TypeOK'
        BY <1>1, <1>2, <1>3 DEF IInv, TypeOK
    <1>5. FramesHaveSessions'
        BY <1>2, <1>3 DEF IInv, FramesHaveSessions
    <1>6. RootsUnframed'
        BY <1>3 DEF IInv, RootsUnframed
    <1>7. ParentColumnAgrees'
        BY <1>2, <1>3 DEF IInv, ParentColumnAgrees, FramesHaveSessions
    <1> QED BY <1>4, <1>5, <1>6, <1>7 DEF IInv

\* The same for a child: its frame stands one level above its parent.
LEMMA CreateChildIInv ==
    ASSUME IInv, NEW sid \in Sid, NEW row \in Row,
           NEW type \in {"call", "digression"}, NEW call \in Step \cup {Null}, NEW evicted,
           row.parent_session_id \in minted, Create(sid, row, type, call, evicted)
    PROVE  IInv'
    <1> DEFINE parent == row.parent_session_id
               slot == ChildSlot(Without(stack, evicted), parent)
               frame == [root |-> slot.root, depth |-> slot.depth,
                         frame_type |-> type, call_step |-> call]
    <1>0. parent # Null
        BY StoreAssumption DEF IInv, TypeOK
    <1>1. /\ sid \notin minted
          /\ minted' = minted \cup {sid}
          /\ sessions' = Put(Without(sessions, evicted), sid, row)
          /\ stack' = Put(Without(stack, evicted), sid, frame)
          /\ clock' = clock
        BY <1>0, DeleteFacts DEF Create, Commit, CreateSession, InsertFrame
    <1>2. /\ DOMAIN sessions' = (DOMAIN sessions \ evicted) \cup {sid}
          /\ sessions'[sid] = row
          /\ \A s \in DOMAIN sessions \ evicted : s # sid /\ sessions'[s] = sessions[s]
          /\ sessions' = [s \in DOMAIN sessions' |-> sessions'[s]]
        BY <1>1 DEF IInv, TypeOK, Put, Without, Restrict
    <1>3. /\ DOMAIN stack' = (DOMAIN stack \ evicted) \cup {sid}
          /\ stack'[sid] = frame
          /\ \A s \in DOMAIN stack \ evicted : s # sid /\ stack'[s] = stack[s]
          /\ stack' = [s \in DOMAIN stack' |-> stack'[s]]
        BY <1>1 DEF IInv, TypeOK, Put, Without, Restrict
    <1>4. /\ parent \in DOMAIN stack \ evicted =>
                slot.root = stack[parent].root /\ slot.depth = stack[parent].depth + 1
          /\ parent \notin DOMAIN stack \ evicted => slot.root = parent /\ slot.depth = 1
        BY DEF ChildSlot, Without, Restrict
    <1> HIDE DEF slot
    <1>5. /\ slot.root \in minted
          /\ slot.root \notin DOMAIN stack \ evicted
          /\ slot.depth \in Nat \ {0}
          /\ slot.depth = 1 => slot.root = parent
        BY <1>4 DEF IInv, TypeOK, RootsUnframed, Frame
    <1>6. frame \in Frame
        BY <1>5 DEF Frame, IInv, TypeOK
    <1>7. frame.root = slot.root /\ frame.depth = slot.depth
        OBVIOUS
    <1> HIDE DEF frame
    <1>8. TypeOK'
        BY <1>1, <1>2, <1>3, <1>5, <1>6, <1>7 DEF IInv, TypeOK
    <1>9. FramesHaveSessions'
        BY <1>2, <1>3 DEF IInv, FramesHaveSessions
    <1>10. RootsUnframed'
        BY <1>1, <1>3, <1>5, <1>7 DEF IInv, TypeOK, RootsUnframed
    <1>11. ParentColumnAgrees'
        <2> SUFFICES ASSUME NEW s \in DOMAIN stack'
                     PROVE  LET p == sessions'[s].parent_session_id
                            IN  /\ p # Null
                                /\ stack'[s].depth = 1 => stack'[s].root = p
                                /\ p \in DOMAIN stack' =>
                                      /\ stack'[s].root = stack'[p].root
                                      /\ stack'[s].depth = stack'[p].depth + 1
            BY DEF ParentColumnAgrees
        <2>1. CASE s = sid
            <3>1. parent # sid
                BY <1>1
            <3> QED BY <2>1, <3>1, <1>0, <1>2, <1>3, <1>4, <1>5, <1>7
        <2>2. CASE s \in DOMAIN stack \ evicted
            <3>1. s \in DOMAIN sessions \ evicted /\ s \in DOMAIN sessions
                BY <2>2 DEF IInv, FramesHaveSessions
            <3>2. sessions[s].parent_session_id # sid
                BY <3>1, <1>1, <2>2, StoreAssumption DEF IInv, TypeOK, ParentColumnAgrees
            <3> QED BY <2>2, <3>1, <3>2, <1>2, <1>3 DEF IInv, ParentColumnAgrees
        <2> QED BY <2>1, <2>2, <1>3
    <1> QED BY <1>8, <1>9, <1>10, <1>11 DEF IInv

---------------------------------------------------------------------------
\* One of the three callers of create_session commits.
Creates(sid, row, type, call, evicted) ==
    /\ row.parent_session_id \in minted \cup {Null}
    /\ type = "digression" =>
          ~StackFull(db, evicted, row.parent_session_id, MaxStackDepth)
    /\ row.parent_session_id = Null => type = "call"
    /\ Create(sid, row, type, call, evicted)

CreatesSession ==
    \E sid \in Sid, row \in Row, type \in {"call", "digression"},
       call \in Step \cup {Null}, evicted \in SUBSET Sid :
          Creates(sid, row, type, call, evicted)

\* The row the callers hand to create_session.
LEMMA NewRowType ==
    ASSUME NEW step \in Step, NEW parent \in Sid \cup {Null}, NEW now \in Time
    PROVE  /\ NewRow(step, parent, now) \in Row
           /\ NewRow(step, parent, now).parent_session_id = parent
    BY DEF NewRow, Row, Position

\* Every step creates one session, or shrinks.
LEMMA NextShape ==
    ASSUME IInv, [Next]_vars
    PROVE  \/ Shrinks /\ clock' \in Time
           \/ CreatesSession
    <1>0. clock \in Time
        BY DEF IInv, TypeOK
    <1>1. ASSUME Tick PROVE Shrinks /\ clock' \in Time
        BY <1>0, <1>1 DEF Tick, Shrinks, IInv, TypeOK, FramesHaveSessions, Time
    <1>2. ASSUME NEW sid \in Sid, NEW step \in Step, NEW now, NEW evicted \in SUBSET Sid,
                 CreateRoot(sid, step, now, evicted)
          PROVE  CreatesSession
        <2>1. now \in Time
            BY <1>2 DEF CreateRoot, StampsBeforeLock
        <2>2. Creates(sid, NewRow(step, Null, now), "call", Null, evicted)
            BY <1>2, <2>1, NewRowType DEF CreateRoot, Creates
        <2> QED BY <2>1, <2>2, NewRowType DEF CreatesSession
    <1>3. ASSUME NEW sid \in Sid, NEW step \in Step, NEW parent, NEW now,
                 NEW evicted \in SUBSET Sid,
                 CreateCallChild(sid, step, parent, now, evicted)
          PROVE  CreatesSession
        <2>1. now \in Time /\ parent \in minted /\ parent \in Sid /\ parent # Null
            BY <1>3, StoreAssumption DEF CreateCallChild, StampsBeforeLock, IInv, TypeOK
        <2>2. Creates(sid, NewRow(step, parent, now), "call", Null, evicted)
            BY <1>3, <2>1, NewRowType DEF CreateCallChild, Creates
        <2> QED BY <2>1, <2>2, NewRowType DEF CreatesSession
    <1>4. ASSUME NEW sid \in Sid, NEW step \in Step, NEW parent, NEW call \in Step,
                 NEW now, NEW evicted \in SUBSET Sid,
                 CreateDigression(sid, step, parent, call, now, evicted)
          PROVE  CreatesSession
        <2>1. now \in Time /\ parent \in minted /\ parent \in Sid /\ parent # Null
            BY <1>4, StoreAssumption DEF CreateDigression, StampsBeforeLock, IInv, TypeOK
        <2>2. Creates(sid, NewRow(step, parent, now), "digression", call, evicted)
            BY <1>4, <2>1, NewRowType DEF CreateDigression, Creates
        <2> QED BY <2>1, <2>2, NewRowType DEF CreatesSession
    <1>5. ASSUME NEW sid \in Sid, NEW step \in Position, NEW now,
                 UpdateSession(sid, step, now)
          PROVE  Shrinks /\ clock' \in Time
        BY <1>0, <1>5, UpdateSessionShrinks DEF UpdateSession
    <1>6. ASSUME NEW sid \in Sid, NEW now, Touch(sid, now)
          PROVE  Shrinks /\ clock' \in Time
        BY <1>0, <1>6, TouchShrinks DEF Touch
    <1>7. ASSUME NEW parent \in Sid, NEW child \in Sid, NEW call \in Step,
                 SetCalledSession(parent, child, call)
          PROVE  Shrinks /\ clock' \in Time
        BY <1>0, <1>7, SetCalledSessionShrinks DEF SetCalledSession
    <1>8. ASSUME NEW parent \in Sid, ClearCalledSession(parent)
          PROVE  Shrinks /\ clock' \in Time
        BY <1>0, <1>8, ClearCalledSessionShrinks DEF ClearCalledSession
    <1>9. ASSUME NEW sid \in Sid, DeleteSession(sid)
          PROVE  Shrinks /\ clock' \in Time
        BY <1>0, <1>9, DeleteShrinks DEF DeleteSession
    <1>10. ASSUME NEW cutoff, ExpireSessions(cutoff)
           PROVE  Shrinks /\ clock' \in Time
        BY <1>0, <1>10, DeleteShrinks DEF ExpireSessions
    <1>11. ASSUME UNCHANGED vars PROVE Shrinks /\ clock' \in Time
        BY <1>0, <1>11 DEF vars, Shrinks, IInv, TypeOK, FramesHaveSessions
    <1> QED BY <1>1, <1>2, <1>3, <1>4, <1>5, <1>6, <1>7, <1>8, <1>9, <1>10, <1>11 DEF Next

\* Every step preserves the invariant.
LEMMA NextIInv ==
    ASSUME IInv, [Next]_vars
    PROVE  IInv'
    <1>1. ASSUME CreatesSession PROVE IInv'
        BY <1>1, CreateRootIInv, CreateChildIInv DEF CreatesSession, Creates
    <1> QED BY <1>1, NextShape, ShrinkIInv

\* The invariant holds throughout.
LEMMA AlwaysIInv == Spec => []IInv
    BY InitIInv, NextIInv, PTL DEF Spec

---------------------------------------------------------------------------
\* Rows and frames stay well formed, and ids are minted before they are used.
THEOREM TypeCorrect == Spec => []TypeOK
    BY AlwaysIInv, PTL DEF IInv

\* No transaction of any thread leaves a frame without its session.
THEOREM FramesKeepSessions == Spec => []FramesHaveSessions
    BY AlwaysIInv, PTL DEF IInv

\* No session that others name as the root of their stack is ever framed.
THEOREM RootsStayUnframed == Spec => []RootsUnframed
    BY AlwaysIInv, PTL DEF IInv

\* The stack and the parent_session_id column agree after every transaction.
THEOREM StackAgreesWithColumn == Spec => []ParentColumnAgrees
    BY AlwaysIInv, PTL DEF IInv

---------------------------------------------------------------------------
\* The cap needs the table to be finite, which the cap itself maintains.
CapInv == IsFiniteSet(DOMAIN sessions) /\ CapRespected

\* What a creation leaves in the sessions table.
LEMMA CreatedDomain ==
    ASSUME IInv, NEW sid, NEW row, NEW type, NEW call, NEW evicted,
           Create(sid, row, type, call, evicted)
    PROVE  /\ sid \notin minted
           /\ evicted \in EvictionChoices(sessions)
           /\ DOMAIN sessions' = (DOMAIN sessions \ evicted) \cup {sid}
    <1>1. sessions' = Put(Without(sessions, evicted), sid, row)
        BY DeleteFacts DEF Create, Commit, CreateSession
    <1> QED BY <1>1 DEF Create, Put, Without, Restrict

\* Eviction makes room for exactly one row.
LEMMA EvictionMakesRoom ==
    ASSUME CapInv, NEW evicted \in EvictionChoices(sessions), NEW sid
    PROVE  LET new == (DOMAIN sessions \ evicted) \cup {sid}
           IN  IsFiniteSet(new) /\ Cardinality(new) <= SessionCap
    <1> DEFINE D == DOMAIN sessions
               kept == D \ evicted
    <1>1. IsFiniteSet(D) /\ Cardinality(D) \in Nat /\ SessionCap \in Nat \ {0}
        BY FS_CardinalityType, StoreAssumption DEF CapInv
    <1>2. /\ evicted \subseteq D
          /\ Cardinality(evicted) = IF Cardinality(D) >= SessionCap
                                    THEN Cardinality(D) - (SessionCap - 1) ELSE 0
        BY DEF EvictionChoices, ToEvict
    <1>3. IsFiniteSet(kept) /\ Cardinality(kept) = Cardinality(D) - Cardinality(D \cap evicted)
        BY <1>1, FS_Difference
    <1>4. D \cap evicted = evicted
        BY <1>2
    <1>5. Cardinality(kept) = Cardinality(D) - Cardinality(evicted)
        BY <1>3, <1>4
    <1>6. /\ IsFiniteSet(kept \cup {sid})
          /\ Cardinality(kept \cup {sid}) = IF sid \in kept THEN Cardinality(kept)
                                             ELSE Cardinality(kept) + 1
        BY <1>3, FS_AddElement
    <1>7. Cardinality(kept) \in Nat
        BY <1>3, FS_CardinalityType
    <1> HIDE DEF D, kept
    <1>8. Cardinality(kept) <= SessionCap - 1
        BY <1>1, <1>2, <1>5, <1>7
    <1> QED BY <1>1, <1>6, <1>7, <1>8 DEF D, kept

\* The table is always finite and within the cap.
LEMMA AlwaysCapInv == Spec => []CapInv
    <1>1. Init => CapInv
        <2> SUFFICES ASSUME Init PROVE CapInv
            OBVIOUS
        <2>1. DOMAIN sessions = {}
            BY DEF Init
        <2> QED BY <2>1, FS_EmptySet, StoreAssumption DEF CapInv, CapRespected
    <1>2. IInv /\ CapInv /\ [Next]_vars => CapInv'
        <2> SUFFICES ASSUME IInv, CapInv, [Next]_vars PROVE CapInv'
            OBVIOUS
        <2>1. CASE Shrinks
            <3>1. DOMAIN sessions' \subseteq DOMAIN sessions
                BY <2>1 DEF Shrinks
            <3>2. /\ IsFiniteSet(DOMAIN sessions')
                  /\ Cardinality(DOMAIN sessions') <= Cardinality(DOMAIN sessions)
                BY <3>1, FS_Subset DEF CapInv
            <3>3. /\ Cardinality(DOMAIN sessions') \in Nat
                  /\ Cardinality(DOMAIN sessions) \in Nat
                BY <3>2, FS_CardinalityType DEF CapInv
            <3> QED BY <3>2, <3>3, StoreAssumption DEF CapInv, CapRespected
        <2>2. CASE CreatesSession
            <3>1. PICK sid \in Sid, row \in Row, type \in {"call", "digression"},
                       call \in Step \cup {Null}, evicted \in SUBSET Sid :
                          Create(sid, row, type, call, evicted)
                BY <2>2 DEF CreatesSession, Creates
            <3>2. /\ evicted \in EvictionChoices(sessions)
                  /\ DOMAIN sessions' = (DOMAIN sessions \ evicted) \cup {sid}
                BY <3>1, CreatedDomain
            <3> QED BY <3>2, EvictionMakesRoom DEF CapInv, CapRespected
        <2> QED BY <2>1, <2>2, NextShape
    <1> QED BY <1>1, <1>2, AlwaysIInv, PTL DEF Spec

\* However many creators race, the table stays within MEGALOS_SESSION_CAP.
THEOREM CapHolds == Spec => []CapRespected
    BY AlwaysCapInv, PTL DEF CapInv

---------------------------------------------------------------------------
\* A creation evicts a session that is not complete only when no complete one
\* is left, in every interleaving of creations with other transactions.
THEOREM EvictionTakesCompletedFirst == Spec => CompletedEvictedFirst
    <1> DEFINE A == minted' # minted =>
                      \A e \in DOMAIN sessions \ DOMAIN sessions' :
                         ~IsComplete(sessions[e]) =>
                            \A s \in DOMAIN sessions' \cap DOMAIN sessions :
                               ~IsComplete(sessions[s])
    <1>1. IInv /\ [Next]_vars => [A]_vars
        <2> SUFFICES ASSUME IInv, [Next]_vars PROVE A
            OBVIOUS
        <2>1. CASE Shrinks
            BY <2>1 DEF Shrinks
        <2>2. CASE CreatesSession
            <3>1. PICK sid \in Sid, row \in Row, type \in {"call", "digression"},
                       call \in Step \cup {Null}, evicted \in SUBSET Sid :
                          Create(sid, row, type, call, evicted)
                BY <2>2 DEF CreatesSession, Creates
            <3>2. /\ sid \notin DOMAIN sessions
                  /\ evicted \in EvictionChoices(sessions)
                  /\ DOMAIN sessions' = (DOMAIN sessions \ evicted) \cup {sid}
                BY <3>1, CreatedDomain DEF IInv, TypeOK
            <3>3. \A e \in evicted, k \in DOMAIN sessions \ evicted :
                     ~EvictedBefore(sessions[k], sessions[e])
                BY <3>2 DEF EvictionChoices
            <3> QED BY <3>2, <3>3 DEF EvictedBefore
        <2> QED BY <2>1, <2>2, NextShape
    <1> QED BY <1>1, AlwaysIInv, PTL DEF Spec, CompletedEvictedFirst

---------------------------------------------------------------------------
\* push_flow's guard re-reads the depth in the transaction that inserts, so a
\* digression never takes its stack above max_stack_depth, whoever pushed,
\* entered, deleted or was evicted since the pre-flight check.
THEOREM DigressionsStayWithinCap == Spec => DigressionsWithinCap
    <1> DEFINE A == \A s \in DOMAIN stack' \ DOMAIN stack :
                      stack'[s].frame_type = "digression" =>
                         Cardinality(FramesOf(stack', stack'[s].root)) <= MaxStackDepth
    <1>1. IInv /\ CapInv /\ [Next]_vars => [A]_vars
        <2> SUFFICES ASSUME IInv, CapInv, [Next]_vars,
                            NEW s \in DOMAIN stack' \ DOMAIN stack,
                            stack'[s].frame_type = "digression"
                     PROVE  Cardinality(FramesOf(stack', stack'[s].root)) <= MaxStackDepth
            OBVIOUS
        <2>1. CreatesSession
            BY NextShape DEF Shrinks
        <2>2. PICK sid \in Sid, row \in Row, type \in {"call", "digression"},
                   call \in Step \cup {Null}, evicted \in SUBSET Sid :
                      Creates(sid, row, type, call, evicted)
            BY <2>1 DEF CreatesSession
        <2> DEFINE kept == Without(stack, evicted)
                   slot == ChildSlot(kept, row.parent_session_id)
                   frame == [root |-> slot.root, depth |-> slot.depth,
                             frame_type |-> type, call_step |-> call]
                   below == FramesOf(kept, slot.root)
        <2>3. /\ row.parent_session_id = Null => stack' = kept
              /\ row.parent_session_id # Null => stack' = Put(kept, sid, frame)
            BY <2>2, DeleteFacts DEF Creates, Create, Commit, CreateSession, InsertFrame
        <2>4. DOMAIN kept \subseteq DOMAIN stack
            BY DEF Without, Restrict
        <2>5. stack' = Put(kept, sid, frame) /\ s = sid /\ stack'[s] = frame
            BY <2>3, <2>4 DEF Put
        <2>6. type = "digression" /\ stack'[s].root = slot.root
            BY <2>5
        <2>7. ~(Cardinality(below) >= MaxStackDepth)
            BY <2>2, <2>6, DeleteFacts DEF Creates, StackFull
        <2>8. IsFiniteSet(below) /\ Cardinality(below) \in Nat
            <3>1. below \subseteq DOMAIN sessions
                BY <2>4 DEF FramesOf, IInv, FramesHaveSessions
            <3> QED BY <3>1, FS_Subset, FS_CardinalityType DEF CapInv
        <2>9. FramesOf(stack', slot.root) = below \cup {sid}
            BY <2>5 DEF FramesOf, Put
        <2> HIDE DEF below, slot
        <2>10. Cardinality(below \cup {sid}) = IF sid \in below THEN Cardinality(below)
                                               ELSE Cardinality(below) + 1
            BY <2>8, FS_AddElement
        <2> QED BY <2>6, <2>7, <2>8, <2>9, <2>10, SessionStoreAssumption
    <1> QED BY <1>1, AlwaysIInv, AlwaysCapInv, PTL DEF Spec, DigressionsWithinCap
=============================================================================
