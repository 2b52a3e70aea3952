---------------------------- MODULE Loader_proofs ----------------------------
(***************************************************************************)
(* validate_workflow_calls, for any number of workflow files, any call     *)
(* graph and any order in which the files are read.                        *)
(*                                                                         *)
(*   Types      what every variable ranges over;                           *)
(*   Open       the gray nodes are the stack, each once, and the stack is  *)
(*              a chain of calls whose explored calls are dealt with;      *)
(*   Closed     what black nodes call is black, and no black node reaches  *)
(*              itself, unless an error was found;                         *)
(*   Reported   an error was found exactly for a reason: an unknown        *)
(*              target, or a cycle that can be walked.                     *)
(*                                                                         *)
(* And, for whatever it lets through, that the two places of tools.py      *)
(* which judge a precondition agree:                                       *)
(*                                                                         *)
(*   Loaded     every accepted workflow refers backward only.              *)
(***************************************************************************)
EXTENDS Loader, Induction

-----------------------------------------------------------------------------
Color == {"white", "gray", "black"}
OpenNode == [node : Name, remaining : SUBSET Name]
Error == [kind : {"unknown_call_target"}] \cup [kind : {"call_cycle"}, path : Seq(Name)]

Types ==
  /\ phase \in {"registry", "load", "search", "started", "refused"}
  /\ docs \in Documents
  /\ Known \subseteq Name
  /\ color \in [DOMAIN color -> Color]
  /\ stack \in Seq(OpenNode)
  /\ errors \in Seq(Error)
  /\ color = <<>> \/ DOMAIN color = Known
  /\ phase \in {"registry", "load"} => color = <<>> /\ stack = <<>> /\ errors = <<>>
  /\ phase \in {"search", "started"} => DOMAIN color = Known

Node(i) == stack[i].node
Nodes == {Node(i) : i \in DOMAIN stack}
Black == {n \in DOMAIN color : color[n] = "black"}
Gray == {n \in DOMAIN color : color[n] = "gray"}

Open ==
  /\ Gray = Nodes
  /\ \A i, j \in DOMAIN stack : Node(i) = Node(j) => i = j
  /\ \A i \in DOMAIN stack : i < Len(stack) => Node(i + 1) \in Calls(Node(i))
  /\ \A i \in DOMAIN stack : stack[i].remaining \subseteq Outgoing(Node(i))
  /\ errors = <<>> => \A i \in DOMAIN stack :
       \A m \in Outgoing(Node(i)) \ stack[i].remaining :
         m \in Black \/ (i < Len(stack) /\ m = Node(i + 1))

Closed ==
  errors = <<>> => \A n \in Black : Outgoing(n) \subseteq Black /\ ~Reaches(n, n)

\* A cycle of calls, as validate_workflow_calls reports it.
Cycle(path) ==
  /\ path \in Seq(Known) /\ 2 <= Len(path) /\ Len(path) <= N + 1
  /\ Walk(path) /\ path[1] = path[Len(path)]
Reported ==
  /\ \A i \in DOMAIN errors : errors[i].kind = "call_cycle" => Cycle(errors[i].path)
  /\ errors = <<>> /\ phase \in {"search", "started"} => TargetsKnown
  /\ errors # <<>> => ~TargetsKnown \/ \E i \in DOMAIN errors : errors[i].kind = "call_cycle"

\* A decision is taken only over a graph with no open node and no white one.
Decided ==
  /\ phase = "started" => errors = <<>> /\ Black = Known
  /\ phase = "refused" /\ color # <<>> => errors # <<>>

SearchInv == Open /\ Closed /\ Reported /\ Decided

-----------------------------------------------------------------------------
(***************************************************************************)
(* The stack.                                                              *)
(***************************************************************************)
LEMMA AppendFacts ==
  ASSUME NEW S, NEW s \in Seq(S), NEW e \in S
  PROVE  /\ Append(s, e) \in Seq(S) /\ Len(Append(s, e)) = Len(s) + 1
         /\ DOMAIN Append(s, e) = 1..(Len(s) + 1)
         /\ Append(s, e)[Len(s) + 1] = e
         /\ \A i \in 1..Len(s) : Append(s, e)[i] = s[i]
  OBVIOUS

\* A stack without its top.
LEMMA FrontFacts ==
  ASSUME NEW S, NEW s \in Seq(S), Len(s) > 0
  PROVE  /\ Front(s) \in Seq(S) /\ Len(Front(s)) = Len(s) - 1
         /\ DOMAIN Front(s) = 1..(Len(s) - 1)
         /\ \A i \in 1..(Len(s) - 1) : Front(s)[i] = s[i]
  <1>1. Front(s) = SubSeq(s, 1, Len(s) - 1)
    BY DEF Front
  <1>2. PICK n \in Nat : n = Len(s) - 1
    OBVIOUS
  <1>3. SubSeq(s, 1, n) \in Seq(S) /\ Len(SubSeq(s, 1, n)) = n
    BY <1>2
  <1>4. \A i \in 1..n : SubSeq(s, 1, n)[i] = s[i]
    BY <1>2
  <1> QED BY <1>1, <1>2, <1>3, <1>4

\* Elements have the type of the sequence.
LEMMA ElementTyped ==
  ASSUME NEW S, NEW s \in Seq(S), NEW i \in DOMAIN s
  PROVE  s[i] \in S
  OBVIOUS

LEMMA DomainIsInterval ==
  ASSUME NEW S, NEW s \in Seq(S)
  PROVE  /\ Len(s) \in Nat /\ DOMAIN s = 1..Len(s)
         /\ s = <<>> <=> Len(s) = 0
  OBVIOUS

\* The least of a set of names is one of them.
LEMMA MinOfNames ==
  ASSUME NEW S \in SUBSET Nat, S # {}
  PROVE  Min(S) \in S /\ \A x \in S : Min(S) <= x
  <1>1. \E m \in S : \A x \in S : m <= x
    BY LeastElement
  <1> QED BY <1>1 DEF Min

\* The next neighbour of the top, and the stack without it.
Neighbour == Min(Top.remaining)
Rest == [stack EXCEPT ![Len(stack)].remaining = @ \ {Neighbour}]

LEMMA TopFacts ==
  ASSUME Types, stack # <<>>
  PROVE  /\ Len(stack) \in Nat /\ Len(stack) > 0 /\ DOMAIN stack = 1..Len(stack)
         /\ Len(stack) \in DOMAIN stack
         /\ Top = stack[Len(stack)] /\ Top \in OpenNode
  <1>1. stack \in Seq(OpenNode)
    BY DEF Types
  <1>2. Len(stack) \in Nat /\ Len(stack) > 0 /\ DOMAIN stack = 1..Len(stack)
    <2> HIDE DEF OpenNode
    <2> QED BY <1>1, DomainIsInterval
  <1>3. Len(stack) \in DOMAIN stack
    BY <1>2
  <1>4. stack[Len(stack)] \in OpenNode
    BY <1>1, <1>3, ElementTyped
  <1> QED BY <1>2, <1>3, <1>4 DEF Top

LEMMA RestFacts ==
  ASSUME Types, stack # <<>>, Top.remaining # {}
  PROVE  /\ Neighbour \in Top.remaining
         /\ Rest \in Seq(OpenNode) /\ Len(Rest) = Len(stack) /\ DOMAIN Rest = DOMAIN stack
         /\ \A i \in DOMAIN stack : Rest[i].node = Node(i)
         /\ \A i \in DOMAIN stack : i # Len(stack) => Rest[i].remaining = stack[i].remaining
         /\ Rest[Len(stack)].remaining = stack[Len(stack)].remaining \ {Neighbour}
  <1>1. Top \in OpenNode /\ Top = stack[Len(stack)] /\ Len(stack) \in DOMAIN stack
    BY TopFacts
  <1>2. Top.remaining \in SUBSET Name
    BY <1>1 DEF OpenNode
  <1>3. Neighbour \in Top.remaining
    <2>1. Top.remaining \in SUBSET Nat
      BY <1>2, LoaderConstants DEF Name
    <2> QED BY <2>1, MinOfNames DEF Neighbour
  <1>4. PICK n : n = Neighbour
    OBVIOUS
  <1>5. PICK e \in OpenNode :
          /\ e = [stack[Len(stack)] EXCEPT !.remaining = @ \ {n}]
          /\ e.node = stack[Len(stack)].node
          /\ e.remaining = stack[Len(stack)].remaining \ {n}
    <2>1. PICK t \in OpenNode : t = stack[Len(stack)]
      BY <1>1
    <2>2. [t EXCEPT !.remaining = t.remaining \ {n}] \in OpenNode
      BY DEF OpenNode
    <2>3. /\ [t EXCEPT !.remaining = t.remaining \ {n}].node = t.node
          /\ [t EXCEPT !.remaining = t.remaining \ {n}].remaining = t.remaining \ {n}
      BY DEF OpenNode
    <2> QED BY <2>1, <2>2, <2>3
  <1>6. Rest = [stack EXCEPT ![Len(stack)] = e]
    BY <1>1, <1>4, <1>5 DEF Rest
  <1>7. stack \in Seq(OpenNode)
    BY DEF Types
  <1>8. /\ Rest \in Seq(OpenNode) /\ Len(Rest) = Len(stack) /\ DOMAIN Rest = DOMAIN stack
        /\ Rest[Len(stack)] = e
        /\ \A i \in DOMAIN stack : i # Len(stack) => Rest[i] = stack[i]
    <2> HIDE DEF OpenNode
    <2> QED BY <1>1, <1>6, <1>7
  <1> QED BY <1>3, <1>4, <1>5, <1>8 DEF Node

\* A node that is opened.
LEMMA OpenedTyped ==
  ASSUME Types, NEW n \in Known
  PROVE  /\ Opened(n) \in OpenNode
         /\ Opened(n).node = n /\ Opened(n).remaining = Outgoing(n)
  <1>1. n \in Name /\ Outgoing(n) \in SUBSET Name
    BY DEF Types, Outgoing
  <1> QED BY <1>1 DEF Opened, OpenNode

-----------------------------------------------------------------------------
(***************************************************************************)
(* Types.                                                                  *)
(***************************************************************************)
LEMMA TypesInitially == Init => Types
  BY DEF Init, Types, Known

\* The path of a reported cycle: from the open node n to the top, and n again.
LEMMA CyclePathFacts ==
  ASSUME Types, Open, NEW n \in Gray
  PROVE  \E idx \in 1..Len(stack) :
           /\ Node(idx) = n
           /\ CyclePath(n) \in Seq(Nodes) /\ Len(CyclePath(n)) = Len(stack) - idx + 2
           /\ \A i \in 1..(Len(stack) - idx + 1) : CyclePath(n)[i] = Node(idx + i - 1)
           /\ CyclePath(n)[Len(stack) - idx + 2] = n
  <1> DEFINE path == [i \in DOMAIN stack |-> stack[i].node]
             found == {i \in DOMAIN stack : path[i] = n}
  <1>1. Len(stack) \in Nat /\ DOMAIN stack = 1..Len(stack)
    <2>1. stack \in Seq(OpenNode)
      BY DEF Types
    <2> HIDE DEF OpenNode
    <2> QED BY <2>1, DomainIsInterval
  <1>2. n \in Nodes
    BY DEF Open
  <1>3. /\ path \in [1..Len(stack) -> Nodes]
        /\ \A i \in 1..Len(stack) : path[i] = Node(i)
    BY <1>1 DEF Nodes, Node
  <1>4. found # {} /\ found \in SUBSET Nat
    BY <1>1, <1>2 DEF Nodes, Node
  <1>5. PICK idx : idx = Min(found) /\ idx \in found
    BY <1>4, MinOfNames
  <1>6. idx \in 1..Len(stack) /\ Node(idx) = n
    BY <1>1, <1>5 DEF Node
  <1>7. CyclePath(n) = Append(SubSeq(path, idx, Len(path)), n)
    BY <1>5 DEF CyclePath
  <1> HIDE DEF path
  <1>8. path \in Seq(Nodes) /\ Len(path) = Len(stack)
    BY <1>1, <1>3
  <1>9. /\ SubSeq(path, idx, Len(path)) \in Seq(Nodes)
        /\ Len(SubSeq(path, idx, Len(path))) = Len(stack) - idx + 1
        /\ \A i \in 1..(Len(stack) - idx + 1) :
             SubSeq(path, idx, Len(path))[i] = path[idx + i - 1]
    BY <1>1, <1>6, <1>8
  <1>10. /\ CyclePath(n) \in Seq(Nodes) /\ Len(CyclePath(n)) = Len(stack) - idx + 1 + 1
         /\ CyclePath(n)[Len(stack) - idx + 1 + 1] = n
         /\ \A i \in 1..(Len(stack) - idx + 1) :
              CyclePath(n)[i] = SubSeq(path, idx, Len(path))[i]
    BY <1>2, <1>7, <1>9, AppendFacts
  <1>11. Len(stack) - idx + 1 + 1 = Len(stack) - idx + 2
    BY <1>1, <1>6
  <1>12. \A i \in 1..(Len(stack) - idx + 1) : CyclePath(n)[i] = Node(idx + i - 1)
    <2> TAKE i \in 1..(Len(stack) - idx + 1)
    <2>1. idx + i - 1 \in 1..Len(stack)
      BY <1>1, <1>6
    <2> QED BY <1>3, <1>9, <1>10, <2>1
  <1> QED BY <1>6, <1>10, <1>11, <1>12

LEMMA NodesAreKnown ==
  ASSUME Types, Open
  PROVE  Nodes \subseteq DOMAIN color /\ Nodes \subseteq Known /\ Nodes \subseteq Name
  <1>1. Nodes \subseteq DOMAIN color
    BY DEF Open, Gray
  <1>2. DOMAIN color \subseteq Known
    BY DEF Types
  <1> QED BY <1>1, <1>2 DEF Types

LEMMA TypesInvariant ==
  ASSUME Types, Open, [Next]_vars
  PROVE  Types'
  <1>1. CASE LoadRegistry
    BY <1>1 DEF LoadRegistry, Types, Known, search
  <1>2. ASSUME NEW f \in File, LoadWorkflow(f)
        PROVE  Types'
    <2>1. docs[f].name \in Name
      BY LoaderConstants DEF Types
    <2>2. DOMAIN workflows' \subseteq Name
      BY <1>2, <2>1 DEF LoadWorkflow, Types, Known
    <2> QED BY <1>2, <2>2 DEF LoadWorkflow, Types, Known, search
  <1>3. CASE CheckTargets
    <2>1. errors' \in Seq(Error)
      <3>1. PICK e \in Error : e = [kind |-> "unknown_call_target"]
        BY DEF Error
      <3>2. errors' = <<e>> \/ errors' = <<>>
        BY <1>3, <3>1 DEF CheckTargets
      <3> HIDE DEF Error
      <3>3. <<e>> \in Seq(Error)
        BY <3>1
      <3>4. <<>> \in Seq(Error)
        OBVIOUS
      <3> QED BY <3>2, <3>3, <3>4
    <2>2. DOMAIN color' = Known /\ color' \in [Known -> Color]
      BY <1>3 DEF CheckTargets, Color
    <2> QED BY <1>3, <2>1, <2>2 DEF CheckTargets, Types, Known
  <1>4. CASE Visit
    <2>1. White \in SUBSET Nat /\ White # {} /\ White \subseteq DOMAIN color
      BY <1>4, LoaderConstants DEF Visit, White, Types, Name
    <2>2. PICK n \in White : n = Min(White)
      BY <2>1, MinOfNames
    <2>3. n \in Known
      BY <1>4, <2>1 DEF Visit, Types
    <2>4. stack' \in Seq(OpenNode)
      <3>1. PICK e \in OpenNode : e = Opened(n)
        BY <2>3, OpenedTyped
      <3>2. stack' = <<e>>
        BY <1>4, <2>2, <3>1 DEF Visit
      <3> HIDE DEF OpenNode
      <3> QED BY <3>2
    <2>5. color' = [color EXCEPT ![n] = "gray"]
      BY <1>4, <2>2 DEF Visit
    <2>6. DOMAIN color' = DOMAIN color /\ color' \in [DOMAIN color -> Color]
      BY <2>5 DEF Types, Color
    <2> QED BY <1>4, <2>4, <2>6 DEF Visit, Types, Known
  <1>5. CASE Close
    <2>1. stack' \in Seq(OpenNode)
      <3>1. stack \in Seq(OpenNode) /\ Len(stack) > 0 /\ stack' = Front(stack)
        BY <1>5, TopFacts DEF Close, Types
      <3> HIDE DEF OpenNode
      <3> QED BY <3>1, FrontFacts
    <2>2. DOMAIN color' = DOMAIN color /\ color' \in [DOMAIN color -> Color]
      BY <1>5 DEF Close, Types, Color
    <2> QED BY <1>5, <2>1, <2>2 DEF Close, Types, Known
  <1>6. CASE Explore
    <2>1. phase = "search" /\ stack # <<>> /\ Top.remaining # {}
      BY <1>6 DEF Explore
    <2>2. Neighbour \in Known /\ Rest \in Seq(OpenNode)
      <3>1. Top.remaining \subseteq Known
        BY <2>1, TopFacts DEF Open, Node, Outgoing
      <3> QED BY <2>1, <3>1, RestFacts
    <2>3. errors' \in Seq(Error)
      <3>1. CASE color[Neighbour] = "gray"
        <4>1. Neighbour \in Gray
          BY <2>1, <2>2, <3>1 DEF Gray, Types
        <4>2. CyclePath(Neighbour) \in Seq(Nodes) /\ Nodes \subseteq Name
          BY <4>1, CyclePathFacts, NodesAreKnown
        <4>3. CyclePath(Neighbour) \in Seq(Name)
          BY <4>2
        <4>4. PICK e \in Error : e = [kind |-> "call_cycle", path |-> CyclePath(Neighbour)]
          BY <4>3 DEF Error
        <4>5. errors' = Append(errors, e)
          BY <1>6, <3>1, <4>4 DEF Explore, Neighbour
        <4>6. errors \in Seq(Error)
          BY DEF Types
        <4> HIDE DEF Error
        <4> QED BY <4>5, <4>6, AppendFacts
      <3>2. CASE color[Neighbour] # "gray"
        <4>1. errors' = errors
          <5>1. color[Neighbour] \in Color
            BY <2>1, <2>2 DEF Types
          <5> QED BY <1>6, <3>2, <5>1 DEF Explore, Neighbour, Color
        <4> QED BY <4>1 DEF Types
      <3> QED BY <3>1, <3>2
    <2>4. stack' \in Seq(OpenNode)
      <3>1. PICK e \in OpenNode : e = Opened(Neighbour)
        BY <2>2, OpenedTyped
      <3>2. stack' = Rest \/ stack' = Append(Rest, e)
        <4>1. color[Neighbour] \in Color
          BY <2>1, <2>2 DEF Types
        <4> QED BY <1>6, <3>1, <4>1 DEF Explore, Neighbour, Rest, Color
      <3> HIDE DEF OpenNode
      <3> QED BY <2>2, <3>2, AppendFacts
    <2>5. DOMAIN color' = DOMAIN color /\ color' \in [DOMAIN color -> Color]
      <3>1. color' = color \/ color' = [color EXCEPT ![Neighbour] = "gray"]
        <4>1. color[Neighbour] \in Color
          BY <2>1, <2>2 DEF Types
        <4> QED BY <1>6, <4>1 DEF Explore, Neighbour, Color
      <3> QED BY <3>1 DEF Types, Color
    <2>6. phase' = phase /\ docs' = docs /\ workflows' = workflows
      BY <1>6 DEF Explore
    <2> QED BY <2>1, <2>3, <2>4, <2>5, <2>6 DEF Types, Known
  <1>7. CASE Conclude
    BY <1>7 DEF Conclude, Types, Known, search
  <1>8. CASE UNCHANGED vars
    BY <1>8 DEF vars, Types, Known
  <1> QED BY <1>1, <1>2, <1>3, <1>4, <1>5, <1>6, <1>7, <1>8 DEF Next

-----------------------------------------------------------------------------
(***************************************************************************)
(* What calls reach.                                                       *)
(***************************************************************************)
\* One round more: what is reached, and what that calls.
Further(S) == S \cup UNION {Calls(k) : k \in S \cap Known}

\* Within is the function its equations say it is.
LEMMA WithinDefined ==
  ASSUME NEW n
  PROVE  /\ Within(n)[0] = Calls(n)
         /\ \A i \in 1..N : Within(n)[i] = Further(Within(n)[i - 1])
  <1> DEFINE U == Calls(n) \cup UNION {Calls(k) : k \in Known}
             D == SUBSET U
             step == [i \in 1..N |-> [S \in D |-> Further(S)]]
             IsWithin(f) == f = [i \in 0..N |-> IF i = 0 THEN Calls(n) ELSE Further(f[i - 1])]
  <1>1. N \in Nat /\ Calls(n) \in D
    BY LoaderConstants
  <1>2. \A S \in D : Further(S) \in D
    BY DEF Further
  <1>3. step \in [1..N -> [D -> D]]
    <2> HIDE DEF D
    <2> QED BY <1>2
  <1> HIDE DEF D
  <1>4. PICK g : Runs(g, N, D, Calls(n), step)
    <2> HIDE DEF step
    <2> QED BY <1>1, <1>3, Recursion
  <1>5. g \in [0..N -> D] /\ g[0] = Calls(n)
    BY <1>4 DEF Runs
  <1>6. \A i \in 1..N : g[i] = Further(g[i - 1])
    <2> TAKE i \in 1..N
    <2>1. i - 1 \in 0..N
      BY <1>1
    <2>2. PICK S \in D : S = g[i - 1]
      BY <1>5, <2>1
    <2>3. step[i][S] = Further(S)
      OBVIOUS
    <2>4. g[i] = step[i][S]
      <3> HIDE DEF step
      <3> QED BY <1>4, <2>2 DEF Runs
    <2> QED BY <2>2, <2>3, <2>4
  <1>7. IsWithin(g)
    <2>1. ASSUME NEW i \in 0..N
          PROVE  g[i] = IF i = 0 THEN Calls(n) ELSE Further(g[i - 1])
      BY <1>1, <1>5, <1>6
    <2> QED BY <1>5, <2>1
  <1>8. Within(n) = CHOOSE f : IsWithin(f)
    BY DEF Within, Further
  <1>9. IsWithin(Within(n))
    <2> HIDE DEF IsWithin
    <2> QED BY <1>7, <1>8
  <1> DEFINE f == Within(n)
  <1>10. \A i \in 0..N : f[i] = IF i = 0 THEN Calls(n) ELSE Further(f[i - 1])
    BY <1>9
  <1> HIDE DEF f
  <1>11. f[0] = Calls(n) /\ \A i \in 1..N : f[i] = Further(f[i - 1])
    BY <1>1, <1>10
  <1> QED BY <1>11 DEF f

\* A set of workflows that calls nothing outside itself is never left.
LEMMA NeverLeaves ==
  ASSUME NEW n, NEW B, Calls(n) \subseteq B, \A k \in B : Calls(k) \subseteq B, NEW m, Reaches(n, m)
  PROVE  m \in B
  <1> DEFINE f == Within(n)
             S == {i \in 0..N : f[i] \subseteq B}
  <1>1. N \in Nat
    BY LoaderConstants
  <1>2. f[0] = Calls(n) /\ \A i \in 1..N : f[i] = Further(f[i - 1])
    BY WithinDefined
  <1> HIDE DEF f
  <1>3. 0 \in S
    BY <1>1, <1>2
  <1>4. ASSUME NEW i \in 0..(N - 1), i \in S
        PROVE  i + 1 \in S
    <2>1. i + 1 \in 1..N /\ i + 1 \in 0..N /\ (i + 1) - 1 = i
      BY <1>1
    <2>2. f[i + 1] = Further(f[i])
      BY <1>2, <2>1
    <2>3. f[i] \subseteq B
      BY <1>4
    <2>4. f[i + 1] \subseteq B
      BY <2>2, <2>3 DEF Further
    <2> QED BY <2>1, <2>4
  <1>5. 0..N \subseteq S
    <2> HIDE DEF S
    <2> QED BY <1>1, <1>3, <1>4, InductiveInterval
  <1>6. f[N] \subseteq B
    BY <1>1, <1>5
  <1> QED BY <1>6 DEF Reaches, f

\* What is reached in some rounds is reached in all.
LEMMA StaysReached ==
  ASSUME NEW n, NEW i \in 0..N
  PROVE  Within(n)[i] \subseteq Within(n)[N]
  <1> DEFINE f == Within(n)
             S == {k \in 0..N : f[N - k] \subseteq f[N]}
  <1>1. N \in Nat
    BY LoaderConstants
  <1>2. \A k \in 1..N : f[k] = Further(f[k - 1])
    BY WithinDefined
  <1> HIDE DEF f
  <1>3. 0 \in S
    BY <1>1
  <1>4. ASSUME NEW k \in 0..(N - 1), k \in S
        PROVE  k + 1 \in S
    <2>1. N - k \in 1..N /\ (N - k) - 1 = N - (k + 1) /\ k + 1 \in 0..N
      BY <1>1
    <2>2. f[N - k] = Further(f[N - (k + 1)])
      BY <1>2, <2>1
    <2>3. f[N - (k + 1)] \subseteq f[N - k]
      BY <2>2 DEF Further
    <2> QED BY <1>4, <2>1, <2>3
  <1>5. 0..N \subseteq S
    <2> HIDE DEF S
    <2> QED BY <1>1, <1>3, <1>4, InductiveInterval
  <1>6. N - i \in 0..N /\ N - (N - i) = i
    BY <1>1
  <1>7. f[N - (N - i)] \subseteq f[N]
    BY <1>5, <1>6
  <1> QED BY <1>6, <1>7 DEF f

\* A cycle that can be walked is a workflow that reaches itself.
LEMMA CycleReaches ==
  ASSUME NEW path, Cycle(path)
  PROVE  path[1] \in Known /\ Reaches(path[1], path[1])
  <1>1. PICK L \in Nat : L = Len(path) - 2 /\ L <= N
    <2>1. Len(path) \in Nat /\ Len(path) - 2 \in Nat /\ N \in Nat
      BY LoaderConstants DEF Cycle
    <2> QED BY <2>1 DEF Cycle
  <1>2. /\ path \in Seq(Known) /\ Len(path) = L + 2
        /\ \A i \in 1..(L + 1) : path[i + 1] \in Calls(path[i])
        /\ path[1] = path[L + 2]
    BY <1>1 DEF Cycle, Walk
  <1> DEFINE f == Within(path[1])
             S == {j \in 0..L : path[j + 2] \in f[j]}
  <1>3. f[0] = Calls(path[1]) /\ \A i \in 1..N : f[i] = Further(f[i - 1])
    BY WithinDefined
  <1> HIDE DEF f
  <1>4. 0 \in S
    <2>1. 1 \in 1..(L + 1) /\ 1 + 1 = 0 + 2
      BY <1>1
    <2>2. path[0 + 2] \in Calls(path[1])
      BY <1>2, <2>1
    <2> QED BY <1>1, <1>3, <2>2
  <1>5. ASSUME NEW j \in 0..(L - 1), j \in S
        PROVE  j + 1 \in S
    <2>1. /\ j + 1 \in 0..L /\ j + 1 \in 1..N /\ (j + 1) - 1 = j
          /\ j + 2 \in 1..(L + 1) /\ (j + 2) + 1 = (j + 1) + 2 /\ j + 2 \in 1..(L + 2)
      BY <1>1, LoaderConstants
    <2>2. path[j + 2] \in f[j] /\ path[j + 2] \in Known
      BY <1>2, <1>5, <2>1
    <2>3. path[(j + 1) + 2] \in Calls(path[j + 2])
      BY <1>2, <2>1
    <2>4. f[j + 1] = Further(f[j])
      BY <1>3, <2>1
    <2>5. path[(j + 1) + 2] \in f[j + 1]
      BY <2>2, <2>3, <2>4 DEF Further
    <2> QED BY <2>1, <2>5
  <1>6. 0..L \subseteq S
    <2> HIDE DEF S
    <2> QED BY <1>1, <1>4, <1>5, InductiveInterval
  <1>7. L \in 0..L /\ L \in 0..N
    BY <1>1, LoaderConstants
  <1>8. path[L + 2] \in f[L]
    BY <1>6, <1>7
  <1>9. f[L] \subseteq f[N]
    BY <1>7, StaysReached DEF f
  <1>10. path[1] \in Known
    BY <1>1, <1>2
  <1> QED BY <1>2, <1>8, <1>9, <1>10 DEF Reaches, f

\* What the search knows of the graph rests on the loaded workflows alone.
LEMMA GraphKept ==
  ASSUME workflows' = workflows
  PROVE  /\ Known' = Known
         /\ TargetsKnown' <=> TargetsKnown
         /\ \A n : Calls(n)' = Calls(n) /\ Outgoing(n)' = Outgoing(n)
         /\ \A n, m : Reaches(n, m)' <=> Reaches(n, m)
         /\ \A path : Cycle(path)' <=> Cycle(path)
  <1>1. Known' = Known
    BY DEF Known
  <1>2. ASSUME NEW n
        PROVE  Calls(n)' = Calls(n)
    BY DEF Calls
  <1>3. \A n : Outgoing(n)' = Outgoing(n)
    BY <1>1, <1>2 DEF Outgoing
  <1>4. TargetsKnown' <=> TargetsKnown
    BY <1>1, <1>2 DEF TargetsKnown
  <1>5. ASSUME NEW n, NEW m
        PROVE  Reaches(n, m)' <=> Reaches(n, m)
    BY DEF Reaches, Within, Calls, Known
  <1>6. \A path : Cycle(path)' <=> Cycle(path)
    BY <1>1, <1>2 DEF Cycle, Walk
  <1> QED BY <1>1, <1>2, <1>3, <1>4, <1>5, <1>6

LEMMA CycleKept ==
  ASSUME workflows' = workflows, NEW i, NEW path, Cycle(path), errors'[i].path = path
  PROVE  Cycle(errors[i].path)'
  <1>1. Known' = Known /\ \A n : Calls(n)' = Calls(n)
    BY GraphKept
  <1> QED BY <1>1 DEF Cycle, Walk, Calls, Known

LEMMA NodeKept ==
  ASSUME workflows' = workflows, NEW i, NEW n, Node(i)' = n
  PROVE  Calls(Node(i))' = Calls(n) /\ Outgoing(Node(i))' = Outgoing(n)
  BY DEF Node, Calls, Outgoing, Known

-----------------------------------------------------------------------------
(***************************************************************************)
(* The search.                                                             *)
(***************************************************************************)
\* The open nodes are different workflows, so there are N of them at most.
LEMMA StackBounded ==
  ASSUME Types, Open
  PROVE  Len(stack) \in Nat /\ Len(stack) <= N
  <1> DEFINE f == [i \in 1..Len(stack) |-> Node(i)]
  <1>1. Len(stack) \in Nat /\ DOMAIN stack = 1..Len(stack)
    <2>1. stack \in Seq(OpenNode)
      BY DEF Types
    <2> HIDE DEF OpenNode
    <2> QED BY <2>1, DomainIsInterval
  <1>2. f \in [1..Len(stack) -> 1..N]
    BY <1>1, NodesAreKnown DEF Nodes, Name
  <1>3. \A i, j \in 1..Len(stack) : f[i] = f[j] => i = j
    BY <1>1 DEF Open
  <1>4. f \in Injection(1..Len(stack), 1..N)
    <2> HIDE DEF f
    <2>1. DOMAIN f = 1..Len(stack)
      BY <1>2
    <2> QED BY <1>2, <1>3, <2>1 DEF Injection, IsInjective
  <1>5. /\ IsFiniteSet(1..N) /\ Cardinality(1..N) = N /\ N \in Nat
        /\ Cardinality(1..Len(stack)) = Len(stack)
    <2>1. ASSUME NEW k \in Nat
          PROVE  IsFiniteSet(1..k) /\ Cardinality(1..k) = k
      <3>1. 1 \in Int /\ k \in Int
        OBVIOUS
      <3> QED BY <3>1, FS_Interval
    <2> QED BY <1>1, <2>1, LoaderConstants
  <1>6. Cardinality(1..Len(stack)) <= Cardinality(1..N)
    <2> HIDE DEF f
    <2> QED BY <1>4, <1>5, FS_Injection
  <1> QED BY <1>1, <1>5, <1>6

\* What is reported can be walked: an open node called by the top of the stack.
LEMMA ReportedCycle ==
  ASSUME Types, Open, NEW n \in Gray, stack # <<>>, n \in Outgoing(Node(Len(stack)))
  PROVE  Cycle(CyclePath(n))
  <1>1. Len(stack) \in Nat /\ Len(stack) > 0 /\ DOMAIN stack = 1..Len(stack) /\ Len(stack) <= N /\ N \in Nat
    BY TopFacts, StackBounded, LoaderConstants
  <1> DEFINE p == CyclePath(n)
  <1>2. PICK idx \in 1..Len(stack) :
           /\ Node(idx) = n
           /\ p \in Seq(Nodes) /\ Len(p) = Len(stack) - idx + 2
           /\ \A i \in 1..(Len(stack) - idx + 1) : p[i] = Node(idx + i - 1)
           /\ p[Len(stack) - idx + 2] = n
    BY CyclePathFacts
  <1> HIDE DEF p
  <1>3. p \in Seq(Known)
    BY <1>2, NodesAreKnown
  <1>4. 2 <= Len(p) /\ Len(p) <= N + 1
    BY <1>1, <1>2
  <1>5. p[1] = p[Len(p)]
    <2>1. 1 \in 1..(Len(stack) - idx + 1) /\ idx + 1 - 1 = idx
      BY <1>1, <1>2
    <2> QED BY <1>2, <2>1
  <1>6. ASSUME NEW i \in 1..(Len(p) - 1)
        PROVE  p[i + 1] \in Calls(p[i])
    <2>1. i \in 1..(Len(stack) - idx + 1)
      BY <1>1, <1>2
    <2>2. p[i] = Node(idx + i - 1)
      BY <1>2, <2>1
    <2>3. CASE i = Len(stack) - idx + 1
      <3>1. idx + i - 1 = Len(stack) /\ i + 1 = Len(stack) - idx + 2
        BY <1>1, <1>2, <2>3
      <3> QED BY <1>2, <2>2, <3>1 DEF Outgoing
    <2>4. CASE i # Len(stack) - idx + 1
      <3>1. PICK k \in Nat : k = idx + i - 1
        <4>1. idx + i - 1 \in Nat
          BY <1>1, <1>2, <2>1
        <4> QED BY <4>1
      <3>2. i \in Nat /\ i >= 1 /\ i < Len(stack) - idx + 1
        BY <1>1, <2>1, <2>4
      <3>3. i + 1 \in 1..(Len(stack) - idx + 1)
        BY <1>1, <3>2
      <3>4. k \in 1..Len(stack) /\ k < Len(stack)
        BY <1>1, <3>1, <3>2
      <3>5. idx + (i + 1) - 1 = k + 1
        BY <1>1, <3>1, <3>2
      <3>6. p[i + 1] = Node(k + 1)
        BY <1>2, <3>3, <3>5
      <3>7. Node(k + 1) \in Calls(Node(k))
        BY <1>1, <3>4 DEF Open
      <3> QED BY <2>2, <3>1, <3>6, <3>7
    <2> QED BY <2>3, <2>4
  <1>7. Cycle(p)
    BY <1>3, <1>4, <1>5, <1>6 DEF Cycle, Walk
  <1> QED BY <1>7 DEF p

\* Before the search, nothing is known and nothing is reported.
LEMMA IdleInitially == Init => SearchInv
  BY DEF Init, SearchInv, Open, Closed, Reported, Decided, Gray, Black, Nodes, Node

LEMMA IdleLoading ==
  ASSUME Types, LoadRegistry \/ \E f \in File : LoadWorkflow(f)
  PROVE  SearchInv'
  <1>1. color' = <<>> /\ stack' = <<>> /\ errors' = <<>> /\ phase' \in {"registry", "load", "refused"}
    BY DEF Types, LoadRegistry, LoadWorkflow, search
  <1>2. Gray' = {} /\ Black' = {} /\ Nodes' = {}
    BY <1>1 DEF Gray, Black, Nodes, Node
  <1> QED BY <1>1, <1>2 DEF SearchInv, Open, Closed, Reported, Decided, Node

LEMMA CheckTargetsStep ==
  ASSUME Types, CheckTargets
  PROVE  SearchInv'
  <1>1. color' = [n \in Known |-> "white"] /\ stack' = <<>> /\ phase' = "search"
    BY DEF CheckTargets, Types
  <1>2. Gray' = {} /\ Black' = {} /\ Nodes' = {}
    BY <1>1 DEF Gray, Black, Nodes, Node
  <1>3. TargetsKnown' <=> TargetsKnown
    BY GraphKept DEF CheckTargets
  <1>4. errors' = <<>> <=> TargetsKnown'
    BY <1>3 DEF CheckTargets, TargetsKnown
  <1>5. \A i \in DOMAIN errors' : errors'[i].kind # "call_cycle"
    BY DEF CheckTargets
  <1>6. Open' /\ Closed' /\ Decided'
    BY <1>1, <1>2 DEF Open, Closed, Decided, Node
  <1>7. Reported'
    BY <1>1, <1>4, <1>5 DEF Reported
  <1> QED BY <1>6, <1>7 DEF SearchInv

LEMMA VisitStep ==
  ASSUME Types, SearchInv, Visit
  PROVE  SearchInv'
  <1>1. White \in SUBSET Nat /\ White # {} /\ White \subseteq DOMAIN color
    BY LoaderConstants DEF Visit, White, Types, Name
  <1>2. PICK n \in White : n = Min(White)
    BY <1>1, MinOfNames
  <1>3. n \in DOMAIN color /\ n \in Known /\ color[n] = "white" /\ phase = "search"
    BY <1>1 DEF Visit, White, Types
  <1>4. /\ color' = [color EXCEPT ![n] = "gray"] /\ phase' = phase
        /\ errors' = errors /\ workflows' = workflows
    BY <1>2 DEF Visit
  <1>5. stack' = <<Opened(n)>> /\ stack = <<>>
    BY <1>2 DEF Visit
  <1>6. PICK e \in OpenNode : e = Opened(n) /\ e.node = n /\ e.remaining = Outgoing(n)
    BY <1>3, OpenedTyped
  <1>7. /\ DOMAIN stack' = {1} /\ Len(stack') = 1
        /\ stack'[1].node = n /\ stack'[1].remaining = Outgoing(n)
    <2> HIDE DEF OpenNode
    <2> QED BY <1>5, <1>6
  <1>8. Gray' = {n} /\ Black' = Black /\ Nodes' = {n}
    <2>1. Gray = {}
      BY <1>5 DEF SearchInv, Open, Nodes
    <2>2. Gray' = {n} /\ Black' = Black
      BY <1>3, <1>4, <2>1 DEF Gray, Black
    <2> QED BY <1>7, <2>2 DEF Nodes, Node
  <1>9. Open'
    <2>1. Outgoing(n)' = Outgoing(n)
      BY <1>4, GraphKept
    <2> QED BY <1>7, <1>8, <2>1 DEF Open, Node
  <1>10. Closed' /\ Decided'
    BY <1>3, <1>4, <1>8, GraphKept DEF SearchInv, Closed, Decided
  <1>11. Reported'
    BY <1>4, GraphKept DEF SearchInv, Reported
  <1> QED BY <1>9, <1>10, <1>11 DEF SearchInv

LEMMA ConcludeStep ==
  ASSUME Types, SearchInv, Conclude
  PROVE  SearchInv'
  <1>1. /\ color' = color /\ stack' = stack /\ errors' = errors /\ workflows' = workflows
        /\ phase = "search" /\ stack = <<>> /\ White = {}
        /\ phase' = IF errors # <<>> \/ Known = {} THEN "refused" ELSE "started"
    BY DEF Conclude, search
  <1>2. Gray' = Gray /\ Black' = Black /\ Nodes' = Nodes
    BY <1>1 DEF Gray, Black, Nodes, Node
  <1>3. Open'
    BY <1>1, <1>2, GraphKept DEF SearchInv, Open, Node
  <1>4. Closed'
    BY <1>1, <1>2, GraphKept DEF SearchInv, Closed
  <1>5. Reported'
    BY <1>1, GraphKept DEF SearchInv, Reported
  <1>6. Black = Known
    <2>1. Gray = {}
      BY <1>1 DEF SearchInv, Open, Nodes
    <2>2. DOMAIN color = Known /\ \A n \in Known : color[n] \in Color
      BY <1>1 DEF Types
    <2> QED BY <1>1, <2>1, <2>2 DEF Gray, White, Black, Color
  <1>7. Known = {} => color = <<>>
    BY <1>1 DEF Types
  <1>8. Decided'
    BY <1>1, <1>2, <1>6, <1>7, GraphKept DEF Decided
  <1> QED BY <1>3, <1>4, <1>5, <1>8 DEF SearchInv

\* Closing a node whose calls are all closed: it does not reach itself, since
\* what it reaches is what was closed before.
LEMMA CloseStep ==
  ASSUME Types, SearchInv, Close
  PROVE  SearchInv'
  <1> DEFINE L == Len(stack)
             top == Node(L)
  <1>1. /\ phase = "search" /\ stack # <<>> /\ Top.remaining = {} /\ stack' = Front(stack)
        /\ color' = [color EXCEPT ![top] = "black"]
        /\ phase' = phase /\ errors' = errors /\ workflows' = workflows
    BY DEF Close, Top, Node
  <1>2. L \in Nat /\ L > 0 /\ DOMAIN stack = 1..L /\ L \in DOMAIN stack /\ Top = stack[L]
    BY <1>1, TopFacts
  <1>3. /\ Len(stack') = L - 1 /\ DOMAIN stack' = 1..(L - 1)
        /\ \A i \in 1..(L - 1) : stack'[i] = stack[i]
    <2>1. stack \in Seq(OpenNode)
      BY DEF Types
    <2> HIDE DEF OpenNode
    <2> QED BY <1>1, <1>2, <2>1, FrontFacts
  <1>4. top \in Nodes /\ top \in Gray /\ top \in DOMAIN color /\ color[top] = "gray"
    BY <1>2 DEF Nodes, SearchInv, Open, Gray
  <1> HIDE DEF top
  <1>5. Black' = Black \cup {top} /\ Gray' = Gray \ {top}
    BY <1>1, <1>4 DEF Black, Gray
  <1>6. \A i \in 1..(L - 1) : i \in DOMAIN stack /\ i # L /\ Node(i)' = Node(i)
    BY <1>2, <1>3 DEF Node
  <1>7. Nodes' = Nodes \ {top}
    <2>1. \A i \in 1..L : Node(i) = top <=> i = L
      BY <1>2 DEF SearchInv, Open, top
    <2>2. Nodes' = {Node(i) : i \in 1..(L - 1)}
      BY <1>3 DEF Nodes, Node
    <2>3. Nodes = {Node(i) : i \in 1..L}
      BY <1>2 DEF Nodes
    <2>4. \A i \in 1..L : i \in 1..(L - 1) <=> i # L
      <3>1. L \in Nat
        BY <1>2
      <3> HIDE DEF L
      <3> QED BY <3>1
    <2>5. 1..(L - 1) \subseteq 1..L
      BY <1>2
    <2> HIDE DEF L
    <2> QED BY <2>1, <2>2, <2>3, <2>4, <2>5
  <1>8. /\ \A n : Outgoing(n)' = Outgoing(n)
        /\ \A i \in 1..(L - 1) : Calls(Node(i))' = Calls(Node(i)) /\ Outgoing(Node(i))' = Outgoing(Node(i))
    BY <1>1, <1>6, GraphKept, NodeKept
  <1>9. Open'
    <2>1. Gray' = Nodes'
      BY <1>5, <1>7 DEF SearchInv, Open
    <2>2. \A i, j \in DOMAIN stack' : Node(i)' = Node(j)' => i = j
      BY <1>3, <1>6 DEF SearchInv, Open
    <2>3. ASSUME NEW i \in DOMAIN stack', i < Len(stack')
          PROVE  Node(i + 1)' \in Calls(Node(i))'
      <3>1. i \in 1..(L - 1) /\ i + 1 \in 1..(L - 1) /\ i < L
        BY <1>2, <1>3, <2>3
      <3>2. Node(i + 1) \in Calls(Node(i))
        BY <1>6, <3>1 DEF SearchInv, Open
      <3> QED BY <1>6, <1>8, <3>1, <3>2
    <2>4. \A i \in DOMAIN stack' : stack'[i].remaining \subseteq Outgoing(Node(i))'
      BY <1>3, <1>6, <1>8 DEF SearchInv, Open
    <2>5. ASSUME errors' = <<>>, NEW i \in DOMAIN stack', NEW m \in Outgoing(Node(i))' \ stack'[i].remaining
          PROVE  m \in Black' \/ (i < Len(stack') /\ m = Node(i + 1)')
      <3>1. i \in 1..(L - 1) /\ i \in DOMAIN stack /\ i < L
        <4>1. L \in Nat /\ i \in 1..(L - 1)
          BY <1>2, <1>3
        <4>2. i < L
          <5> HIDE DEF L
          <5> QED BY <4>1
        <4> QED BY <1>6, <4>1, <4>2
      <3>2. m \in Outgoing(Node(i)) \ stack[i].remaining
        BY <1>3, <1>6, <1>8, <3>1
      <3>3. m \in Black \/ m = Node(i + 1)
        BY <1>1, <2>5, <3>1, <3>2 DEF SearchInv, Open
      <3>4. CASE i = L - 1
        BY <1>2, <1>5, <3>3, <3>4 DEF top
      <3>5. CASE i # L - 1
        <4>1. i < L - 1 /\ i + 1 \in 1..(L - 1)
          BY <1>2, <3>1, <3>5
        <4> QED BY <1>3, <1>5, <1>6, <3>3, <4>1
      <3> QED BY <3>4, <3>5
    <2> QED BY <2>1, <2>2, <2>3, <2>4, <2>5 DEF Open, Node
  <1>10. Closed'
    <2> SUFFICES ASSUME errors = <<>>
                 PROVE  /\ \A n \in Black' : Outgoing(n) \subseteq Black'
                        /\ \A n \in Black' : ~Reaches(n, n)
      BY <1>1, <1>8, GraphKept DEF Closed
    <2>1. Outgoing(top) \subseteq Black
      <3>1. stack[L].remaining = {}
        BY <1>1, <1>2
      <3> QED BY <1>2, <3>1 DEF SearchInv, Open, top
    <2>2. \A n \in Black : Outgoing(n) \subseteq Black /\ ~Reaches(n, n)
      BY DEF SearchInv, Closed
    <2>3. \A n \in Known : Calls(n) = Outgoing(n)
      BY <1>1 DEF SearchInv, Reported, TargetsKnown, Outgoing
    <2>4. top \in Known /\ Black \subseteq Known /\ top \notin Black
      BY <1>4 DEF Types, Black
    <2>5. ~Reaches(top, top)
      <3>1. Calls(top) \subseteq Black /\ \A k \in Black : Calls(k) \subseteq Black
        BY <2>1, <2>2, <2>3, <2>4
      <3> QED BY <2>4, <3>1, NeverLeaves
    <2> QED BY <1>5, <2>1, <2>2, <2>5
  <1>11. Reported' /\ Decided'
    BY <1>1, GraphKept DEF SearchInv, Reported, Decided
  <1> QED BY <1>9, <1>10, <1>11 DEF SearchInv

\* What exploring a neighbour comes down to: its color decides.
LEMMA ExploreFacts ==
  ASSUME Types, SearchInv, Explore
  PROVE  /\ phase = "search" /\ stack # <<>> /\ Top.remaining # {}
         /\ phase' = phase /\ workflows' = workflows
         /\ Neighbour \in DOMAIN color /\ Neighbour \in Known
         /\ Neighbour \in Outgoing(Node(Len(stack)))
         /\ \/ /\ color[Neighbour] = "gray" /\ color' = color /\ stack' = Rest
               /\ errors' = Append(errors, [kind |-> "call_cycle", path |-> CyclePath(Neighbour)])
            \/ /\ color[Neighbour] = "white" /\ color' = [color EXCEPT ![Neighbour] = "gray"]
               /\ stack' = Append(Rest, Opened(Neighbour)) /\ errors' = errors
            \/ /\ color[Neighbour] = "black" /\ color' = color /\ stack' = Rest
               /\ errors' = errors
  <1>1. /\ phase = "search" /\ stack # <<>> /\ Top.remaining # {}
        /\ phase' = phase /\ workflows' = workflows
    BY DEF Explore
  <1>2. Neighbour \in Outgoing(Node(Len(stack)))
    BY <1>1, TopFacts, RestFacts DEF SearchInv, Open, Node
  <1>3. Neighbour \in Known /\ Neighbour \in DOMAIN color
    BY <1>1, <1>2 DEF Outgoing, Types
  <1>4. color[Neighbour] \in Color
    BY <1>3 DEF Types
  <1> QED BY <1>1, <1>2, <1>3, <1>4 DEF Explore, Neighbour, Rest, Color

\* Of a neighbour that is open or closed only the note on the stack is taken.
LEMMA ExploreKnownStep ==
  ASSUME Types, SearchInv, Explore, color' = color, stack' = Rest,
         errors' # <<>> \/ (errors' = errors /\ Neighbour \in Black), Reported'
  PROVE  SearchInv'
  <1>1. /\ phase = "search" /\ stack # <<>> /\ Top.remaining # {}
        /\ phase' = phase /\ workflows' = workflows
    BY ExploreFacts
  <1>2. /\ Len(stack') = Len(stack) /\ DOMAIN stack' = DOMAIN stack
        /\ \A i \in DOMAIN stack : Node(i)' = Node(i)
        /\ \A i \in DOMAIN stack : i # Len(stack) => stack'[i].remaining = stack[i].remaining
        /\ stack'[Len(stack)].remaining = stack[Len(stack)].remaining \ {Neighbour}
    BY <1>1, RestFacts DEF Node
  <1>3. Len(stack) \in Nat /\ DOMAIN stack = 1..Len(stack)
    BY <1>1, TopFacts
  <1>4. /\ \A n : Outgoing(n)' = Outgoing(n)
        /\ \A i \in DOMAIN stack : Calls(Node(i))' = Calls(Node(i)) /\ Outgoing(Node(i))' = Outgoing(Node(i))
    BY <1>1, <1>2, GraphKept, NodeKept
  <1>5. Black' = Black /\ Gray' = Gray /\ Nodes' = Nodes
    BY <1>2 DEF Black, Gray, Nodes
  <1>6. \A i \in DOMAIN stack : stack'[i].remaining \subseteq stack[i].remaining
    BY <1>2
  <1>7. Open'
    <2>1. Gray' = Nodes' /\ \A i, j \in DOMAIN stack' : Node(i)' = Node(j)' => i = j
      BY <1>2, <1>5 DEF SearchInv, Open
    <2>2. ASSUME NEW i \in DOMAIN stack', i < Len(stack')
          PROVE  Node(i + 1)' \in Calls(Node(i))'
      <3>1. i \in DOMAIN stack /\ i + 1 \in DOMAIN stack /\ i < Len(stack)
        BY <1>2, <1>3, <2>2
      <3> QED BY <1>2, <1>4, <3>1 DEF SearchInv, Open
    <2>3. \A i \in DOMAIN stack' : stack'[i].remaining \subseteq Outgoing(Node(i))'
      BY <1>2, <1>4, <1>6 DEF SearchInv, Open
    <2>4. ASSUME errors' = <<>>, NEW i \in DOMAIN stack', NEW m \in Outgoing(Node(i))' \ stack'[i].remaining
          PROVE  m \in Black' \/ (i < Len(stack') /\ m = Node(i + 1)')
      <3>1. errors = <<>> /\ Neighbour \in Black
        BY <2>4
      <3>2. i \in DOMAIN stack /\ m \in Outgoing(Node(i))
        BY <1>2, <1>4
      <3>3. CASE m \in stack[i].remaining
        BY <1>2, <1>5, <3>1, <3>2, <3>3
      <3>4. CASE m \notin stack[i].remaining
        <4>1. m \in Black \/ (i < Len(stack) /\ m = Node(i + 1))
          BY <3>1, <3>2, <3>4 DEF SearchInv, Open
        <4>2. i < Len(stack) => i + 1 \in DOMAIN stack
          BY <1>3, <3>2
        <4> QED BY <1>2, <1>5, <4>1, <4>2
      <3> QED BY <3>3, <3>4
    <2> QED BY <2>1, <2>2, <2>3, <2>4 DEF Open
  <1>8. Closed'
    <2>1. errors' = <<>> => errors = <<>>
      OBVIOUS
    <2> QED BY <1>1, <1>4, <1>5, <2>1, GraphKept DEF SearchInv, Closed
  <1>9. Decided'
    BY <1>1 DEF Decided
  <1> QED BY <1>7, <1>8, <1>9 DEF SearchInv

\* A neighbour that is opened becomes the top.
LEMMA ExploreNewStep ==
  ASSUME Types, SearchInv, Explore, color[Neighbour] = "white",
         color' = [color EXCEPT ![Neighbour] = "gray"],
         stack' = Append(Rest, Opened(Neighbour)), errors' = errors
  PROVE  SearchInv'
  <1>0. PICK L \in Nat : L = Len(stack)
    <2>1. Len(stack) \in Nat
      BY ExploreFacts, TopFacts
    <2> QED BY <2>1
  <1>1. /\ phase = "search" /\ stack # <<>> /\ Top.remaining # {}
        /\ phase' = phase /\ workflows' = workflows
        /\ Neighbour \in DOMAIN color /\ Neighbour \in Known
        /\ Neighbour \in Outgoing(Node(L))
    BY <1>0, ExploreFacts
  <1>2. L > 0 /\ DOMAIN stack = 1..L
    BY <1>0, <1>1, TopFacts
  <1>3. PICK n : n = Neighbour
    OBVIOUS
  <1>4. PICK e \in OpenNode : e = Opened(n) /\ e.node = n /\ e.remaining = Outgoing(n)
    BY <1>1, <1>3, OpenedTyped
  <1>5. /\ Len(stack') = L + 1 /\ DOMAIN stack' = 1..(L + 1)
        /\ stack'[L + 1] = e
        /\ \A i \in 1..L : stack'[i] = Rest[i]
    <2>1. Rest \in Seq(OpenNode) /\ Len(Rest) = L
      BY <1>0, <1>1, RestFacts
    <2>2. stack' = Append(Rest, e)
      BY <1>3, <1>4
    <2> HIDE DEF OpenNode
    <2> QED BY <2>1, <2>2, AppendFacts
  <1>6. /\ \A i \in 1..L : Node(i)' = Node(i)
        /\ \A i \in 1..L : i # L => stack'[i].remaining = stack[i].remaining
        /\ stack'[L].remaining = stack[L].remaining \ {n}
        /\ Node(L + 1)' = n /\ stack'[L + 1].remaining = Outgoing(n)
    BY <1>0, <1>1, <1>2, <1>3, <1>4, <1>5, RestFacts DEF Node
  <1>7. /\ \A k : Outgoing(k)' = Outgoing(k)
        /\ \A i \in 1..L : Calls(Node(i))' = Calls(Node(i)) /\ Outgoing(Node(i))' = Outgoing(Node(i))
        /\ Outgoing(Node(L + 1))' = Outgoing(n)
    BY <1>1, <1>6, GraphKept, NodeKept
  <1>8. n \notin Gray /\ n \notin Black /\ n \notin Nodes
    BY <1>3 DEF Gray, Black, SearchInv, Open
  <1>9. Black' = Black /\ Gray' = Gray \cup {n}
    BY <1>1, <1>3 DEF Gray, Black
  <1>10. \A i \in 1..(L + 1) : i \in 1..L \/ i = L + 1
    OBVIOUS
  <1>11. \A i \in 1..L : i \in 1..(L + 1) /\ i < L + 1 /\ i + 1 \in 1..(L + 1) /\ i # L + 1
                         /\ (i < L => i + 1 \in 1..L) /\ (i < L \/ i = L)
    OBVIOUS
  <1>12. L + 1 \in 1..(L + 1) /\ L \in 1..L
    BY <1>2
  <1>13. \A i \in 1..L : Node(i) \in Nodes
    BY <1>2 DEF Nodes
  <1>14. n \in Calls(Node(L)) /\ n \in Outgoing(Node(L))
    BY <1>1, <1>3 DEF Outgoing
  <1>15. Open'
    <2>1. Gray' = Nodes'
      <3>1. Nodes' = Nodes \cup {n}
        <4>1. Nodes' = {Node(i)' : i \in 1..(L + 1)}
          BY <1>5 DEF Nodes, Node
        <4>2. Nodes = {Node(i) : i \in 1..L}
          BY <1>2 DEF Nodes
        <4> QED BY <1>6, <1>10, <1>11, <1>12, <4>1, <4>2
      <3> QED BY <1>9, <3>1 DEF SearchInv, Open
    <2>2. ASSUME NEW i \in 1..(L + 1), NEW j \in 1..(L + 1), Node(i)' = Node(j)'
          PROVE  i = j
      <3>1. CASE i \in 1..L /\ j \in 1..L
        BY <1>2, <1>6, <2>2, <3>1 DEF SearchInv, Open
      <3>2. CASE i \in 1..L /\ j = L + 1
        BY <1>6, <1>8, <1>13, <2>2, <3>2
      <3>3. CASE i = L + 1 /\ j \in 1..L
        BY <1>6, <1>8, <1>13, <2>2, <3>3
      <3> QED BY <1>10, <3>1, <3>2, <3>3
    <2>3. ASSUME NEW i \in 1..(L + 1), i < L + 1
          PROVE  Node(i + 1)' \in Calls(Node(i))'
      <3>1. i \in 1..L
        BY <1>2, <2>3
      <3>2. CASE i = L
        BY <1>6, <1>7, <1>14, <3>1, <3>2
      <3>3. CASE i < L
        <4>1. i + 1 \in 1..L
          BY <1>11, <3>1, <3>3
        <4>2. Node(i + 1) \in Calls(Node(i))
          BY <1>0, <1>2, <3>1, <3>3 DEF SearchInv, Open
        <4> QED BY <1>6, <1>7, <3>1, <4>1, <4>2
      <3> QED BY <1>11, <3>1, <3>2, <3>3
    <2>4. ASSUME NEW i \in 1..(L + 1)
          PROVE  stack'[i].remaining \subseteq Outgoing(Node(i))'
      <3>1. CASE i = L + 1
        BY <1>6, <1>7, <3>1
      <3>2. CASE i \in 1..L
        <4>1. stack[i].remaining \subseteq Outgoing(Node(i))
          BY <1>2, <3>2 DEF SearchInv, Open
        <4>2. stack'[i].remaining \subseteq stack[i].remaining
          BY <1>6, <3>2
        <4> QED BY <1>7, <3>2, <4>1, <4>2
      <3> QED BY <1>10, <3>1, <3>2
    <2>5. ASSUME errors' = <<>>, NEW i \in 1..(L + 1), NEW m \in Outgoing(Node(i))' \ stack'[i].remaining
          PROVE  m \in Black' \/ (i < L + 1 /\ m = Node(i + 1)')
      <3>1. CASE i = L + 1
        BY <1>6, <1>7, <3>1
      <3>2. CASE i \in 1..L
        <4>1. m \in Outgoing(Node(i)) /\ i < L + 1
          BY <1>7, <1>11, <3>2
        <4>2. CASE m \in stack[i].remaining
          BY <1>6, <4>1, <4>2, <3>2
        <4>3. CASE m \notin stack[i].remaining
          <5>1. m \in Black \/ (i < L /\ m = Node(i + 1))
            BY <1>0, <1>2, <2>5, <3>2, <4>1, <4>3 DEF SearchInv, Open
          <5> QED BY <1>6, <1>9, <1>11, <3>2, <4>1, <5>1
        <4> QED BY <4>2, <4>3
      <3> QED BY <1>10, <3>1, <3>2
    <2> QED BY <1>5, <2>1, <2>2, <2>3, <2>4, <2>5 DEF Open
  <1>16. Closed'
    BY <1>1, <1>9, GraphKept DEF SearchInv, Closed
  <1>17. Reported' /\ Decided'
    BY <1>1, GraphKept DEF SearchInv, Reported, Decided
  <1> QED BY <1>15, <1>16, <1>17 DEF SearchInv

LEMMA ExploreStep ==
  ASSUME Types, SearchInv, Explore
  PROVE  SearchInv'
  <1>1. /\ phase = "search" /\ stack # <<>> /\ phase' = phase /\ workflows' = workflows
        /\ Neighbour \in DOMAIN color /\ Neighbour \in Outgoing(Node(Len(stack)))
    BY ExploreFacts
  <1>2. CASE /\ color[Neighbour] = "gray" /\ color' = color /\ stack' = Rest
             /\ errors' = Append(errors, [kind |-> "call_cycle", path |-> CyclePath(Neighbour)])
    <2>1. Cycle(CyclePath(Neighbour))
      <3>1. Neighbour \in Gray
        BY <1>1, <1>2 DEF Gray
      <3> QED BY <1>1, <3>1, ReportedCycle DEF SearchInv
    <2>2. PICK path : path = CyclePath(Neighbour)
      OBVIOUS
    <2>3. PICK e \in Error : e = [kind |-> "call_cycle", path |-> path]
      <3>1. path \in Seq(Name)
        BY <2>1, <2>2 DEF Cycle, Types
      <3> QED BY <3>1 DEF Error
    <2>4. errors' \in Seq(Error) /\ DOMAIN errors' = 1..(Len(errors) + 1)
          /\ errors'[Len(errors) + 1] = e /\ \A i \in 1..Len(errors) : errors'[i] = errors[i]
      <3>1. errors' = Append(errors, e) /\ errors \in Seq(Error)
        BY <1>2, <2>2, <2>3 DEF Types
      <3> HIDE DEF Error
      <3> QED BY <3>1, AppendFacts
    <2>5. Len(errors) \in Nat /\ DOMAIN errors = 1..Len(errors)
      <3>1. errors \in Seq(Error)
        BY DEF Types
      <3> HIDE DEF Error
      <3> QED BY <3>1, DomainIsInterval
    <2>6. Len(errors) + 1 \in DOMAIN errors' /\ errors' # <<>>
      BY <2>4, <2>5
    <2>7. Reported'
      <3>1. e.kind = "call_cycle" /\ e.path = path
        BY <2>3
      <3>2. ASSUME NEW i \in DOMAIN errors', errors'[i].kind = "call_cycle"
            PROVE  Cycle(errors[i].path)'
        <4>1. \A p : Cycle(p)' <=> Cycle(p)
          BY <1>1, GraphKept
        <4>2. PICK p : p = errors'[i].path
          OBVIOUS
        <4>3. Cycle(p)
          <5>1. CASE i = Len(errors) + 1
            BY <2>1, <2>2, <2>4, <3>1, <4>2, <5>1
          <5>2. CASE i # Len(errors) + 1
            <6>1. i \in DOMAIN errors /\ errors'[i] = errors[i]
              BY <2>4, <2>5, <5>2
            <6> QED BY <3>2, <4>2, <6>1 DEF SearchInv, Reported
          <5> QED BY <5>1, <5>2
        <4> QED BY <1>1, <4>2, <4>3, CycleKept
      <3>3. \E i \in DOMAIN errors' : errors'[i].kind = "call_cycle"
        BY <2>4, <2>6, <3>1
      <3> QED BY <2>6, <3>2, <3>3 DEF Reported
    <2> QED BY <1>2, <2>6, <2>7, ExploreKnownStep
  <1>3. CASE /\ color[Neighbour] = "white" /\ color' = [color EXCEPT ![Neighbour] = "gray"]
             /\ stack' = Append(Rest, Opened(Neighbour)) /\ errors' = errors
    BY <1>3, ExploreNewStep
  <1>4. CASE /\ color[Neighbour] = "black" /\ color' = color /\ stack' = Rest
             /\ errors' = errors
    <2>1. Neighbour \in Black
      BY <1>1, <1>4 DEF Black
    <2>2. Reported'
      BY <1>1, <1>4, GraphKept DEF SearchInv, Reported
    <2> QED BY <1>4, <2>1, <2>2, ExploreKnownStep
  <1> QED BY <1>2, <1>3, <1>4, ExploreFacts

\* The inductive invariant of the loader, for every reachable state.
THEOREM Invariant == Spec => [](Types /\ SearchInv)
  <1>1. Init => Types /\ SearchInv
    BY TypesInitially, IdleInitially
  <1>2. Types /\ SearchInv /\ [Next]_vars => (Types /\ SearchInv)'
    <2> SUFFICES ASSUME Types, SearchInv, [Next]_vars
                 PROVE  Types' /\ SearchInv'
      OBVIOUS
    <2>1. Types'
      BY TypesInvariant DEF SearchInv
    <2>2. CASE LoadRegistry \/ \E f \in File : LoadWorkflow(f)
      BY <2>1, <2>2, IdleLoading
    <2>3. CASE CheckTargets
      BY <2>1, <2>3, CheckTargetsStep
    <2>4. CASE Visit
      BY <2>1, <2>4, VisitStep
    <2>5. CASE Explore
      BY <2>1, <2>5, ExploreStep
    <2>6. CASE Close
      BY <2>1, <2>6, CloseStep
    <2>7. CASE Conclude
      BY <2>1, <2>7, ConcludeStep
    <2>8. CASE UNCHANGED vars
      <3>1. /\ phase' = phase /\ workflows' = workflows /\ color' = color
            /\ stack' = stack /\ errors' = errors
        BY <2>8 DEF vars
      <3>2. Gray' = Gray /\ Black' = Black /\ Nodes' = Nodes
        BY <3>1 DEF Gray, Black, Nodes, Node
      <3>3. Open'
        BY <3>1, <3>2 DEF SearchInv, Open, Node, Outgoing, Calls, Known
      <3>4. Closed'
        BY <3>1, <3>2, GraphKept DEF SearchInv, Closed
      <3>5. Reported'
        BY <3>1, GraphKept DEF SearchInv, Reported
      <3>6. Decided'
        BY <3>1, <3>2, GraphKept DEF SearchInv, Decided
      <3> QED BY <2>1, <3>3, <3>4, <3>5, <3>6 DEF SearchInv
    <2> QED BY <2>1, <2>2, <2>3, <2>4, <2>5, <2>6, <2>7, <2>8 DEF Next
  <1> QED BY <1>1, <1>2, PTL DEF Spec

\* SearchSound: while validate_workflow_calls runs, the gray nodes are the
\* stack, the stack is a chain of calls, a closed node's calls are closed or an
\* error was found, and every cycle it reports can be walked.
THEOREM SearchIsSound == Spec => []SearchSound
  <1>1. Types /\ SearchInv => SearchSound
    <2> SUFFICES ASSUME Types, SearchInv
                 PROVE  SearchSound
      OBVIOUS
    <2>1. {n \in DOMAIN color : color[n] = "gray"} = {stack[i].node : i \in DOMAIN stack}
      BY DEF SearchInv, Open, Gray, Nodes, Node
    <2>2. Walk([i \in DOMAIN stack |-> stack[i].node])
      <3> DEFINE path == [i \in DOMAIN stack |-> stack[i].node]
      <3>1. Len(stack) \in Nat /\ DOMAIN stack = 1..Len(stack)
        BY StackBounded, DomainIsInterval DEF Types, SearchInv
      <3>2. Len(path) = Len(stack) /\ \A i \in 1..Len(stack) : path[i] = Node(i)
        BY <3>1 DEF Node
      <3>3. ASSUME NEW i \in 1..(Len(path) - 1)
            PROVE  path[i + 1] \in Calls(path[i])
        <4>1. i \in DOMAIN stack /\ i + 1 \in DOMAIN stack /\ i < Len(stack)
          BY <3>1, <3>2
        <4>2. Node(i + 1) \in Calls(Node(i))
          BY <4>1 DEF SearchInv, Open
        <4> QED BY <3>1, <3>2, <4>1, <4>2
      <3> QED BY <3>3 DEF Walk
    <2>3. ASSUME NEW i \in DOMAIN errors, errors[i].kind = "call_cycle"
          PROVE  Walk(errors[i].path) /\ Head(errors[i].path) = Last(errors[i].path)
      <3>1. PICK path : path = errors[i].path /\ Cycle(path)
        BY <2>3 DEF SearchInv, Reported
      <3>2. path \in Seq(Known) /\ Len(path) >= 2 /\ path[1] = path[Len(path)] /\ Walk(path)
        BY <3>1 DEF Cycle
      <3>3. Head(path) = path[1] /\ Last(path) = path[Len(path)]
        BY <3>2 DEF Last
      <3> QED BY <3>1, <3>2, <3>3
    <2>4. errors = <<>> => \A n \in DOMAIN color : color[n] = "black" =>
            \A m \in Outgoing(n) : color[m] = "black"
      BY DEF SearchInv, Closed, Black
    <2> QED BY <2>1, <2>2, <2>3, <2>4 DEF SearchSound
  <1> QED BY <1>1, Invariant, PTL

\* CallGraphVerdict: whatever files are read in whatever order, the server
\* starts after the search if and only if every called workflow exists and no
\* workflow reaches itself through calls.
THEOREM VerdictIsRight == Spec => []CallGraphVerdict
  <1>1. Types /\ SearchInv => CallGraphVerdict
    <2> SUFFICES ASSUME Types, SearchInv, phase \in {"started", "refused"}, color # <<>>
                 PROVE  phase = "started" <=> TargetsKnown /\ CallsAcyclic
      BY DEF CallGraphVerdict
    <2>1. CASE phase = "started"
      <3>1. errors = <<>> /\ Black = Known
        BY <2>1 DEF SearchInv, Decided
      <3>2. TargetsKnown
        BY <2>1, <3>1 DEF SearchInv, Reported
      <3>3. CallsAcyclic
        BY <3>1 DEF SearchInv, Closed, CallsAcyclic
      <3> QED BY <2>1, <3>2, <3>3
    <2>2. CASE phase = "refused"
      <3>1. errors # <<>>
        BY <2>2 DEF SearchInv, Decided
      <3>2. CASE TargetsKnown
        <4>1. PICK i \in DOMAIN errors : errors[i].kind = "call_cycle"
          BY <3>1, <3>2 DEF SearchInv, Reported
        <4>2. PICK path : Cycle(path)
          BY <4>1 DEF SearchInv, Reported
        <4>3. ~CallsAcyclic
          BY <4>2, CycleReaches DEF CallsAcyclic
        <4> QED BY <2>2, <4>3
      <3> QED BY <2>2, <3>2
    <2> QED BY <2>1, <2>2
  <1> QED BY <1>1, Invariant, PTL

-----------------------------------------------------------------------------
(***************************************************************************)
(* The two readings of a precondition.                                     *)
(***************************************************************************)
\* What YAML and the schema give, and what the checks do not: no two steps
\* share an id, none is called __complete__, and the precondition of an mcp
\* step, whose optional fields are not validated, is one that can be evaluated.
Parsed(doc) ==
  /\ doc.steps \in Seq(Range(doc.steps))
  /\ \A i, j \in DOMAIN doc.steps : doc.steps[i].id = doc.steps[j].id => i = j
  /\ Complete \notin StepIds(doc)
  /\ \A step \in Range(doc.steps) :
       step.kind = "mcp" /\ "precondition" \in step.malformed => step.precondition = Null

AllParsed == \A dir \in Documents : \A f \in File : Parsed(dir[f])

\* No precondition refers to its own step or forward.
Backward(doc) ==
  \A k, m \in DOMAIN doc.steps :
    doc.steps[k].precondition # Null /\ doc.steps[k].precondition.ref = doc.steps[m].id => m < k

Loaded == \A n \in Known : Parsed(workflows[n]) /\ Backward(workflows[n])

\* Only a step with a precondition is ever skipped.
Skippable(wf) ==
  {wf.steps[i].id : i \in {j \in DOMAIN wf.steps : wf.steps[j].precondition # Null}}

LEMMA SkippedHavePreconditions ==
  ASSUME NEW wf, wf.steps \in Seq(Range(wf.steps)), NEW data
  PROVE  ComputeSkipped(wf, data) \subseteq Skippable(wf)
  <1> DEFINE len == Len(wf.steps)
             D == SUBSET Skippable(wf)
             Judged(i, S) == IF \/ wf.steps[i].id \in DOMAIN data
                                \/ EvaluatePrecondition(wf.steps[i].precondition, data, S) = "run"
                             THEN S ELSE S \cup {wf.steps[i].id}
             step == [i \in 1..len |-> [S \in D |-> Judged(i, S)]]
             IsPass(f) == f = [i \in 0..len |-> IF i = 0 THEN {} ELSE Judged(i, f[i - 1])]
  <1>1. len \in Nat /\ DOMAIN wf.steps = 1..len
    OBVIOUS
  <1>2. \A i \in 1..len, S \in D : Judged(i, S) \in D
    <2> TAKE i \in 1..len, S \in D
    <2>1. wf.steps[i].precondition = Null => Judged(i, S) = S
      BY DEF EvaluatePrecondition
    <2>2. wf.steps[i].precondition # Null => wf.steps[i].id \in Skippable(wf)
      BY <1>1 DEF Skippable
    <2> QED BY <2>1, <2>2
  <1>3. step \in [1..len -> [D -> D]]
    <2> HIDE DEF D, Judged, len
    <2> QED BY <1>2
  <1>4. PICK g : Runs(g, len, D, {}, step)
    <2>1. {} \in D
      OBVIOUS
    <2> HIDE DEF step, D, len
    <2> QED BY <1>1, <1>3, <2>1, Recursion
  <1>5. IsPass(g)
    <2>1. g \in [0..len -> D] /\ g[0] = {}
      BY <1>4 DEF Runs
    <2>2. ASSUME NEW i \in 1..len PROVE g[i] = Judged(i, g[i - 1])
      <3>1. g[i] = step[i][g[i - 1]]
        BY <1>4, <2>2 DEF Runs
      <3>2. g[i - 1] \in D
        BY <1>1, <2>1
      <3> HIDE DEF Judged, D, len
      <3> QED BY <3>1, <3>2
    <2> HIDE DEF Judged, D, len
    <2>3. \A i \in 0..len : g[i] = IF i = 0 THEN {} ELSE Judged(i, g[i - 1])
      BY <1>1, <2>1, <2>2
    <2> QED BY <2>1, <2>3
  <1>6. PICK f : IsPass(f) /\ ComputeSkipped(wf, data) = f[len]
    <2>1. ComputeSkipped(wf, data) = (CHOOSE f : IsPass(f))[len]
      BY DEF ComputeSkipped
    <2> HIDE DEF IsPass
    <2> QED BY <1>5, <2>1
  <1> DEFINE kept == {i \in 0..len : f[i] \in D}
  <1>7. 0 \in kept
    <2>1. f[0] = {}
      <3> HIDE DEF Judged
      <3> QED BY <1>1, <1>6
    <2> QED BY <1>1, <2>1
  <1>8. ASSUME NEW i \in 0..(len - 1), i \in kept PROVE i + 1 \in kept
    <2>1. i + 1 \in 1..len /\ i + 1 \in 0..len /\ (i + 1) - 1 = i /\ i + 1 # 0
      BY <1>1
    <2>2. f[i + 1] = Judged(i + 1, f[i])
      <3> HIDE DEF Judged, len
      <3> QED BY <1>6, <2>1
    <2>3. f[i + 1] \in D
      <3> HIDE DEF Judged, D, len
      <3> QED BY <1>2, <1>8, <2>1, <2>2
    <2> QED BY <2>1, <2>3
  <1>9. 0..len \subseteq kept
    <2> HIDE DEF kept, len
    <2> QED BY <1>1, <1>7, <1>8, InductiveInterval
  <1>10. f[len] \in D
    <2> HIDE DEF Judged, D, len
    <2> QED BY <1>1, <1>9
  <1> QED BY <1>6, <1>10

\* validate_workflow accepts no precondition that looks at its own step or
\* ahead.
LEMMA AcceptedIsBackward ==
  ASSUME NEW doc, Parsed(doc), WorkflowDefects(doc) = {}
  PROVE  Backward(doc)
  <1> SUFFICES ASSUME NEW k \in DOMAIN doc.steps, NEW m \in DOMAIN doc.steps,
                      doc.steps[k].precondition # Null,
                      doc.steps[k].precondition.ref = doc.steps[m].id
               PROVE  m < k
    BY DEF Backward
  <1>1. DOMAIN doc.steps = 1..Len(doc.steps) /\ Len(doc.steps) \in Nat
    BY DEF Parsed
  <1>2. doc.steps # <<>>
    BY <1>1
  <1>3. StepDefects(doc.steps[k]) = {} /\ PreconditionDefects(doc, k) = {}
    BY <1>2 DEF WorkflowDefects
  <1>4. "precondition" \notin doc.steps[k].malformed
    <2>1. CASE doc.steps[k].kind = "mcp"
      <3>1. doc.steps[k] \in Range(doc.steps)
        BY DEF Range
      <3> QED BY <2>1, <3>1 DEF Parsed
    <2>2. CASE doc.steps[k].kind # "mcp"
      <3>1. LlmStepDefects(doc.steps[k]) = {}
        BY <1>3, <2>2 DEF StepDefects
      <3>2. doc.steps[k].malformed \subseteq LlmStepDefects(doc.steps[k])
        BY DEF LlmStepDefects
      <3> QED BY <3>1, <3>2
    <2> QED BY <2>1, <2>2
  <1>5. doc.steps[m].id \in StepIds(doc)
    BY DEF StepIds
  <1>6. ~ForwardRef(doc, k, doc.steps[m].id)
    BY <1>3, <1>4, <1>5 DEF PreconditionDefects
  <1>7. IndexOf(doc, doc.steps[m].id) = m
    <2>1. {i \in DOMAIN doc.steps : doc.steps[i].id = doc.steps[m].id} = {m}
      BY DEF Parsed
    <2>2. Max({m}) = m
      BY <1>1 DEF Max
    <2> QED BY <2>1, <2>2 DEF IndexOf
  <1> QED BY <1>1, <1>6, <1>7 DEF ForwardRef

LEMMA LoadedInitially == Init => Loaded
  BY DEF Init, Loaded, Known

LEMMA LoadedKept ==
  ASSUME AllParsed, Types, Loaded, [Next]_vars
  PROVE  Loaded'
  <1>1. ASSUME NEW f \in File, LoadWorkflow(f) PROVE Loaded'
    <2>1. CASE WorkflowDefects(docs[f]) # {}
      BY <1>1, <2>1 DEF LoadWorkflow, Loaded, Known
    <2>2. CASE WorkflowDefects(docs[f]) = {}
      <3>1. Parsed(docs[f]) /\ Backward(docs[f])
        BY <2>2, AcceptedIsBackward DEF AllParsed, Types
      <3>2. \A n \in DOMAIN workflows' :
               workflows'[n] = docs[f] \/ (n \in DOMAIN workflows /\ workflows'[n] = workflows[n])
        BY <1>1, <2>2 DEF LoadWorkflow
      <3> QED BY <3>1, <3>2 DEF Loaded, Known
    <2> QED BY <2>1, <2>2
  <1>2. CASE workflows' = workflows
    BY <1>2 DEF Loaded, Known
  <1>3. (\E f \in File : LoadWorkflow(f)) \/ workflows' = workflows
    BY DEF Next, vars, LoadRegistry, CheckTargets, Visit, Explore, Close, Conclude
  <1> QED BY <1>1, <1>2, <1>3

\* The skip loop stops at a step whose precondition does not say skip.
LEMMA LoopVerdict ==
  ASSUME NEW wf, Parsed(wf), NEW data, NEW i \in DOMAIN wf.steps, NEW id, id = wf.steps[i].id,
         NEW verdict,
         verdict = EvaluatePrecondition(wf.steps[i].precondition, data, ComputeSkipped(wf, data))
  PROVE  LET loop == ApplySkipLoop(wf, id, data, FALSE)
         IN  /\ verdict = "run" <=> loop = [step |-> id, cascade |-> FALSE]
             /\ verdict = "cascade" <=> loop = [step |-> id, cascade |-> TRUE]
  <1> DEFINE base == ComputeSkipped(wf, data)
             len == Len(wf.steps)
             Verdict(k) == EvaluatePrecondition(wf.steps[k].precondition, data,
                               base \cup {wf.steps[j].id : j \in i..(k - 1)})
             stops == {k \in i..len : Verdict(k) # "skip"}
             loop == ApplySkipLoop(wf, id, data, FALSE)
  <1>1. len \in Nat /\ DOMAIN wf.steps = 1..len /\ i \in 1..len
    BY DEF Parsed
  <1>2. id \in StepIds(wf) /\ id # Complete
    BY DEF StepIds, Parsed
  <1>3. FindStep(wf, id) = i
    BY <1>2 DEF FindStep, Parsed
  <1>4. Verdict(i) = verdict
    <2>1. i..(i - 1) = {}
      BY <1>1
    <2> QED BY <2>1
  <1>5. verdict \in {"run", "skip", "cascade"}
    BY DEF EvaluatePrecondition
  <1>6. loop = IF stops = {} THEN [step |-> Complete, cascade |-> FALSE]
               ELSE [step |-> wf.steps[Min(stops)].id, cascade |-> Verdict(Min(stops)) = "cascade"]
    BY <1>2, <1>3 DEF ApplySkipLoop
  <1> SUFFICES /\ verdict = "run" <=> loop = [step |-> id, cascade |-> FALSE]
               /\ verdict = "cascade" <=> loop = [step |-> id, cascade |-> TRUE]
    OBVIOUS
  <1> HIDE DEF Verdict, loop
  <1>7. CASE verdict # "skip"
    <2>1. i \in stops /\ \A k \in stops : i <= k
      BY <1>1, <1>4, <1>7
    <2>2. Min(stops) = i
      <3>1. stops \in SUBSET Nat /\ stops # {}
        BY <1>1, <2>1
      <3> HIDE DEF stops
      <3>2. Min(stops) \in stops /\ Min(stops) <= i
        BY <2>1, <3>1, MinOfNames
      <3> QED BY <1>1, <2>1, <3>1, <3>2
    <2> HIDE DEF stops
    <2>3. CASE verdict = "run"
      <3>1. loop = [step |-> id, cascade |-> FALSE]
        BY <1>4, <1>6, <2>1, <2>2, <2>3
      <3>2. loop.cascade = FALSE
        BY <3>1
      <3>3. loop # [step |-> id, cascade |-> TRUE]
        BY <3>2
      <3> QED BY <2>3, <3>1, <3>3
    <2>4. CASE verdict = "cascade"
      <3>1. loop = [step |-> id, cascade |-> TRUE]
        BY <1>4, <1>6, <2>1, <2>2, <2>4
      <3>2. loop.cascade = TRUE
        BY <3>1
      <3>3. loop # [step |-> id, cascade |-> FALSE]
        BY <3>2
      <3> QED BY <2>4, <3>1, <3>3
    <2> QED BY <1>5, <1>7, <2>3, <2>4
  <1>8. CASE verdict = "skip"
    <2>1. loop.step # id
      <3>1. CASE stops = {}
        <4>1. loop = [step |-> Complete, cascade |-> FALSE]
          BY <1>6, <3>1
        <4> QED BY <1>2, <4>1
      <3>2. CASE stops # {}
        <4>1. i \notin stops /\ stops \subseteq 1..len /\ stops \in SUBSET Nat
          BY <1>1, <1>4, <1>8
        <4> HIDE DEF stops
        <4>2. Min(stops) \in stops
          BY <3>2, <4>1, MinOfNames
        <4>3. PICK k, c : k = Min(stops) /\ c = (Verdict(Min(stops)) = "cascade")
          OBVIOUS
        <4>4. loop = [step |-> wf.steps[k].id, cascade |-> c]
          BY <1>6, <3>2, <4>3
        <4>5. loop.step = wf.steps[k].id /\ k \in DOMAIN wf.steps /\ k # i
          BY <1>1, <4>1, <4>2, <4>3, <4>4
        <4>6. wf.steps[k].id # wf.steps[i].id
          BY <4>5 DEF Parsed
        <4> QED BY <4>5, <4>6
      <3> QED BY <3>1, <3>2
    <2>2. /\ loop # [step |-> id, cascade |-> FALSE]
          /\ loop # [step |-> id, cascade |-> TRUE]
      BY <2>1
    <2> QED BY <1>8, <2>2
  <1> QED BY <1>7, <1>8

\* SkipLoopAgrees: _compute_skipped_steps and _apply_skip_loop judge every step
\* alike, for every workflow the loader lets through and whatever data the
\* session holds.
THEOREM ReadingsAgree ==
  ASSUME AllParsed
  PROVE  Spec => []SkipLoopAgrees
  <1>1. Loaded => SkipLoopAgrees
    <2> SUFFICES ASSUME Loaded, NEW n \in Known, NEW data, NEW i \in DOMAIN workflows[n].steps
                 PROVE  LET wf == workflows[n]
                            id == wf.steps[i].id
                            before == ComputeSkipped(wf, data)
                                        \cap {wf.steps[k].id : k \in 1..(i - 1)}
                            verdict == EvaluatePrecondition(wf.steps[i].precondition, data, before)
                            loop == ApplySkipLoop(wf, id, data, FALSE)
                        IN  /\ verdict = "run" <=> loop = [step |-> id, cascade |-> FALSE]
                            /\ verdict = "cascade" <=> loop = [step |-> id, cascade |-> TRUE]
      BY ZenonT(30) DEF SkipLoopAgrees
    <2> DEFINE wf == workflows[n]
               before == ComputeSkipped(wf, data) \cap {wf.steps[k].id : k \in 1..(i - 1)}
               verdict == EvaluatePrecondition(wf.steps[i].precondition, data, before)
    <2>1. Parsed(wf) /\ Backward(wf)
      BY DEF Loaded
    <2>2. DOMAIN wf.steps = 1..Len(wf.steps) /\ Len(wf.steps) \in Nat
      BY <2>1 DEF Parsed
    <2>3. verdict = EvaluatePrecondition(wf.steps[i].precondition, data, ComputeSkipped(wf, data))
      <3>1. CASE wf.steps[i].precondition = Null
        BY <3>1 DEF EvaluatePrecondition
      <3>2. CASE wf.steps[i].precondition # Null
        <4>1. PICK ref : ref = wf.steps[i].precondition.ref
          OBVIOUS
        <4>2. ref \in ComputeSkipped(wf, data) => ref \in before
          <5> SUFFICES ASSUME ref \in ComputeSkipped(wf, data) PROVE ref \in before
            OBVIOUS
          <5>1. ref \in Skippable(wf)
            BY <2>1, SkippedHavePreconditions DEF Parsed
          <5>2. PICK m \in DOMAIN wf.steps : wf.steps[m].id = ref
            BY <5>1 DEF Skippable
          <5>3. m < i
            BY <2>1, <3>2, <4>1, <5>2 DEF Backward
          <5> QED BY <2>2, <5>2, <5>3
        <4>3. ref \in before <=> ref \in ComputeSkipped(wf, data)
          BY <4>2
        <4> QED BY <3>2, <4>1, <4>3 DEF EvaluatePrecondition
      <3> QED BY <3>1, <3>2
    <2> HIDE DEF wf, verdict
    <2>4. LET loop == ApplySkipLoop(wf, wf.steps[i].id, data, FALSE)
          IN  /\ verdict = "run" <=> loop = [step |-> wf.steps[i].id, cascade |-> FALSE]
              /\ verdict = "cascade" <=> loop = [step |-> wf.steps[i].id, cascade |-> TRUE]
      BY <2>1, <2>3, LoopVerdict DEF wf
    <2> QED BY <2>4 DEF wf, verdict
  <1>2. Loaded /\ Types /\ [Next]_vars => Loaded'
    BY LoadedKept
  <1>3. Types /\ SearchInv => Types
    OBVIOUS
  <1> QED BY <1>1, <1>2, <1>3, LoadedInitially, Invariant, PTL DEF Spec
=============================================================================
