---------------------------- MODULE QueryProofs ----------------------------
(***************************************************************************)
(* has_cycle and topological_sort are right on every graph, and agree with *)
(* each other.  The first part is what DagProofs and the guards of Dag     *)
(* take from has_cycle; the second counts in-degrees; the third shows that *)
(* each step brings the query nearer to its end.                           *)
(***************************************************************************)
EXTENDS DagQueries, FiniteSetTheorems, WellFoundedInduction, TLAPS

-----------------------------------------------------------------------------
(* has_cycle *)

\* The length of a prefix.
LEMMA PrefixLength ==
    ASSUME NEW S, NEW s \in Seq(S), NEW n \in Nat, n <= Len(s)
    PROVE  Len(SubSeq(s, 1, n)) = n
  OBVIOUS

\* Every step keeps the types of the search state.
LEMMA TypeStep == TypeOK /\ [Next]_vars => TypeOK'
<1> SUFFICES ASSUME TypeOK, [Next]_vars PROVE TypeOK'
  OBVIOUS
<1> USE DEF TypeOK
<1>0. path # <<>> => Len(path) \in Nat \ {0} /\ Top \in NodeId
  BY DEF Top
<1>1. ASSUME NEW id \in NodeId, VisitRoot(id) PROVE TypeOK'
  <2>1. CASE id \in visited
    BY <1>1, <2>1 DEF VisitRoot, graph
  <2>2. CASE id \notin visited
    <3>1. id \in nodes /\ UNCHANGED <<nodes, deps, verdict>>
      BY <1>1 DEF VisitRoot, graph
    <3>2. /\ roots' = roots \ {id}
          /\ visited' = visited \union {id}
          /\ stack' = stack \union {id}
          /\ path' = Append(path, id)
          /\ todo' = [todo EXCEPT ![id] = deps[id] \cap nodes]
      BY <1>1, <2>2 DEF VisitRoot, Enter
    <3>3. path' \in Seq(NodeId)
      BY <3>2
    <3> QED
      BY <3>1, <3>2, <3>3
  <2> QED
    BY <2>1, <2>2
<1>2. ASSUME NEW id \in NodeId, Descend(id) PROVE TypeOK'
  <2>1. id \in nodes /\ Top \in NodeId
    BY <1>0, <1>2 DEF Descend
  <2>2. /\ UNCHANGED <<nodes, deps, roots, verdict>>
        /\ visited' = visited \union {id}
        /\ stack' = stack \union {id}
        /\ path' = Append(path, id)
    BY <1>2 DEF Descend, Enter, graph
  <2>3. /\ todo' \in [NodeId -> SUBSET nodes]
        /\ \A n \in NodeId : todo'[n] \subseteq deps[n]
    BY <1>2, <2>1 DEF Descend, Enter
  <2> QED
    BY <2>1, <2>2, <2>3
<1>3. ASSUME NEW id \in NodeId, Seen(id) PROVE TypeOK'
  BY <1>0, <1>3 DEF Seen, graph
<1>4. CASE Leave
  <2>1. SubSeq(path, 1, Len(path) - 1) \in Seq(NodeId)
    BY <1>0, <1>4 DEF Leave
  <2> QED
    BY <1>4, <2>1 DEF Leave, graph
<1>5. CASE Finish
  BY <1>5 DEF Finish, graph
<1>6. CASE UNCHANGED vars
  BY <1>6 DEF vars
<1> QED
  BY <1>1, <1>2, <1>3, <1>4, <1>5, <1>6 DEF Next

\* The search state is always of its types.
THEOREM TypeCorrect == Spec => []TypeOK
<1>1. Init => TypeOK
  BY DEF Init, TypeOK
<1> QED
  BY <1>1, TypeStep, PTL DEF Spec

-----------------------------------------------------------------------------
(* The stack set is the call stack *)

\* Appending an id that is not on the path keeps stack and path together.
LEMMA EnterStack ==
    ASSUME TypeOK, StackIsPath, NEW id \in NodeId, id \notin stack,
           stack' = stack \union {id}, path' = Append(path, id), deps' = deps,
           path # <<>> => id \in deps[Top]
    PROVE  StackIsPath'
<1> USE DEF TypeOK, StackIsPath
<1>1. /\ Len(path) \in Nat /\ Len(path') = Len(path) + 1
      /\ \A i \in 1..Len(path) : path'[i] = path[i]
      /\ path'[Len(path) + 1] = id
  OBVIOUS
<1>2. stack' = {path'[i] : i \in 1..Len(path')}
  BY <1>1
<1>3. \A i, j \in 1..Len(path') : path'[i] = path'[j] => i = j
  BY <1>1
<1>4. ASSUME NEW i \in 1..(Len(path') - 1) PROVE path'[i+1] \in deps'[path'[i]]
  <2>1. CASE i < Len(path)
    BY <1>1, <2>1
  <2>2. CASE i = Len(path)
    BY <1>1, <2>2 DEF Top
  <2> QED
    BY <1>1, <2>1, <2>2
<1> QED
  BY <1>2, <1>3, <1>4

\* Every step keeps the stack set equal to the call stack.
LEMMA StackStep == TypeOK /\ StackIsPath /\ [Next]_vars => StackIsPath'
<1> SUFFICES ASSUME TypeOK, StackIsPath, [Next]_vars PROVE StackIsPath'
  OBVIOUS
<1>1. ASSUME NEW id \in NodeId, VisitRoot(id) PROVE StackIsPath'
  <2>1. CASE id \in visited
    BY <1>1, <2>1 DEF VisitRoot, StackIsPath, graph
  <2>2. CASE id \notin visited
    <3>1. id \notin stack
      BY <2>2 DEF TypeOK
    <3> QED
      BY <1>1, <2>2, <3>1, EnterStack DEF VisitRoot, Enter, graph
  <2> QED
    BY <2>1, <2>2
<1>2. ASSUME NEW id \in NodeId, Descend(id) PROVE StackIsPath'
  <2>1. path # <<>> /\ id \in todo[Top] /\ id \notin visited
    BY <1>2 DEF Descend
  <2>2. /\ stack' = stack \union {id} /\ path' = Append(path, id)
        /\ deps' = deps
    BY <1>2 DEF Descend, Enter, graph
  <2>3. id \notin stack
    BY <2>1 DEF TypeOK
  <2>4. id \in deps[Top]
    BY <2>1 DEF TypeOK, Top
  <2> QED
    BY <2>1, <2>2, <2>3, <2>4, EnterStack
<1>3. ASSUME NEW id \in NodeId, Seen(id) PROVE StackIsPath'
  BY <1>3 DEF Seen, StackIsPath, graph
<1>4. CASE Leave
  BY <1>4 DEF Leave, StackIsPath, graph, Top, TypeOK
<1>5. CASE Finish \/ UNCHANGED vars
  BY <1>5 DEF Finish, vars, StackIsPath, graph
<1> QED
  BY <1>1, <1>2, <1>3, <1>4, <1>5 DEF Next
-----------------------------------------------------------------------------
(* Finished nodes *)

\* Every step keeps the account of what the activations have looked at.
LEMMA ExploredStep ==
    TypeOK /\ StackIsPath /\ Explored /\ [Next]_vars => Explored'
<1> SUFFICES ASSUME TypeOK, StackIsPath, Explored, [Next]_vars PROVE Explored'
  OBVIOUS
<1> USE DEF TypeOK
<1> DEFINE Callee(i) == IF i < Len(path) THEN {path[i+1]} ELSE {}
<1>0. verdict = "none" => \A i \in 1..Len(path) :
        deps[path[i]] \cap nodes \subseteq todo[path[i]] \union Finished \union Callee(i)
  BY DEF Explored
\* Entering id: it was not visited, so every finished node stays finished.
<1>1. ASSUME NEW id \in NodeId, VisitRoot(id) PROVE Explored'
  <2>1. CASE id \in visited
    BY <1>1, <2>1 DEF VisitRoot, Explored, Finished, graph
  <2>2. CASE id \notin visited
    <3>1. /\ UNCHANGED <<nodes, deps, verdict>> /\ roots' = roots \ {id}
          /\ visited' = visited \union {id} /\ path' = Append(path, id)
          /\ todo' = [todo EXCEPT ![id] = deps[id] \cap nodes]
          /\ path = <<>>
      BY <1>1, <2>2 DEF VisitRoot, Enter, graph
    <3>2. Len(path') = 1 /\ path'[1] = id /\ todo'[id] = deps[id] \cap nodes
      BY <3>1
    <3> QED
      BY <3>1, <3>2 DEF Explored
  <2> QED
    BY <2>1, <2>2
<1>2. ASSUME NEW id \in NodeId, Descend(id) PROVE Explored'
  <2>1. /\ path # <<>> /\ id \in todo[Top] /\ id \notin visited
        /\ verdict = "none" /\ UNCHANGED <<nodes, deps, roots, verdict>>
        /\ visited' = visited \union {id} /\ stack' = stack \union {id}
        /\ path' = Append(path, id)
        /\ todo' = [[todo EXCEPT ![Top] = @ \ {id}]
                      EXCEPT ![id] = deps[id] \cap nodes]
    BY <1>2 DEF Descend, Enter, graph
  <2>2. /\ Len(path) \in Nat \ {0} /\ Len(path') = Len(path) + 1
        /\ \A i \in 1..Len(path) : path'[i] = path[i] /\ path[i] \in NodeId
        /\ path'[Len(path) + 1] = id
        /\ Top = path[Len(path)]
    BY <2>1 DEF Top
  <2>3. Finished' = Finished
    BY <2>1 DEF Finished
  <2>4. \A i \in 1..Len(path) : path[i] # id
    BY <2>1, <2>2 DEF StackIsPath
  <2>5. todo'[id] = deps[id] \cap nodes
    BY <2>1
  <2>6. \A i \in 1..Len(path) :
          /\ i < Len(path) => todo'[path[i]] = todo[path[i]]
          /\ todo[path[i]] \subseteq todo'[path[i]] \union {id}
    BY <2>1, <2>2, <2>4 DEF StackIsPath
  <2>7. ASSUME NEW i \in 1..Len(path')
        PROVE  deps[path'[i]] \cap nodes \subseteq
                 todo'[path'[i]] \union Finished \union
                   (IF i < Len(path') THEN {path'[i+1]} ELSE {})
    <3>1. CASE i < Len(path)
      <4>1. i \in 1..Len(path) /\ i + 1 \in 1..Len(path) /\ i < Len(path')
        BY <2>2, <3>1
      <4>2. deps[path[i]] \cap nodes \subseteq
              todo[path[i]] \union Finished \union {path[i+1]}
        BY <1>0, <2>1, <3>1, <4>1
      <4>3. path'[i] = path[i] /\ path'[i+1] = path[i+1]
        BY <2>2, <4>1
      <4> QED
        BY <2>6, <3>1, <4>1, <4>2, <4>3
    <3>2. CASE i = Len(path)
      <4>1. deps[path[i]] \cap nodes \subseteq todo[path[i]] \union Finished
        BY <1>0, <2>1, <2>2, <3>2
      <4>2. path'[i] = path[i] /\ path'[i+1] = id /\ i < Len(path')
        BY <2>2, <3>2
      <4> QED
        BY <2>2, <2>6, <3>2, <4>1, <4>2
    <3>3. CASE i = Len(path) + 1
      BY <2>2, <2>5, <3>3
    <3> QED
      BY <2>2, <3>1, <3>2, <3>3
  <2> QED
    BY <2>1, <2>3, <2>7 DEF Explored
<1>3. ASSUME NEW id \in NodeId, Seen(id) PROVE Explored'
  <2>1. /\ path # <<>> /\ id \in visited /\ verdict = "none"
        /\ UNCHANGED <<nodes, deps, roots, visited, stack, path>>
        /\ todo' = [todo EXCEPT ![Top] = @ \ {id}]
        /\ verdict' # "cycle" => id \in Finished
    BY <1>3 DEF Seen, graph, Finished
  <2>2. \A n \in NodeId : todo[n] \subseteq todo'[n] \union {id}
    BY <2>1
  <2> QED
    BY <1>0, <2>1, <2>2 DEF Explored, Finished
<1>4. CASE Leave
  <2>1. /\ path # <<>> /\ verdict = "none" /\ todo[Top] = {}
        /\ UNCHANGED <<nodes, deps, roots, visited, todo, verdict>>
        /\ stack' = stack \ {Top} /\ path' = SubSeq(path, 1, Len(path) - 1)
    BY <1>4 DEF Leave, graph
  <2>2. /\ Len(path) \in Nat \ {0} /\ Len(path') = Len(path) - 1
        /\ \A i \in 1..(Len(path) - 1) : path'[i] = path[i]
        /\ Top = path[Len(path)]
    <3>1. Len(path) \in Nat \ {0} /\ Top = path[Len(path)]
      BY <2>1 DEF Top
    <3>2. Len(path') = Len(path) - 1
      <4>1. Len(path) - 1 \in Nat /\ Len(path) - 1 <= Len(path)
        BY <3>1
      <4>2. Len(SubSeq(path, 1, Len(path) - 1)) = Len(path) - 1
        BY <4>1, PrefixLength, Zenon
      <4> QED
        BY <2>1, <4>2
    <3>3. \A i \in 1..(Len(path) - 1) : path'[i] = path[i]
      BY <2>1, <3>1
    <3> QED
      BY <3>1, <3>2, <3>3
  <2>3. Finished \subseteq Finished' /\ Top \in Finished'
    BY <2>1, <2>2 DEF Finished, StackIsPath
  <2>4. ASSUME NEW i \in 1..Len(path')
        PROVE  deps[path'[i]] \cap nodes \subseteq
                 todo'[path'[i]] \union Finished' \union
                   (IF i < Len(path') THEN {path'[i+1]} ELSE {})
    <3>1. i \in 1..Len(path) /\ i < Len(path) /\ path'[i] = path[i]
      BY <2>2
    <3>2. deps[path[i]] \cap nodes \subseteq
            todo[path[i]] \union Finished \union {path[i+1]}
      BY <1>0, <2>1, <3>1
    <3>3. i < Len(path') => path'[i+1] = path[i+1]
      BY <2>2, <3>1
    <3>4. i = Len(path') => path[i+1] = Top
      BY <2>2
    <3> QED
      BY <2>1, <2>2, <2>3, <3>1, <3>2, <3>3, <3>4
  <2> QED
    BY <2>1, <2>4 DEF Explored
<1>5. CASE Finish \/ UNCHANGED vars
  BY <1>5 DEF Finish, vars, Explored, Finished, graph
<1> QED
  BY <1>1, <1>2, <1>3, <1>4, <1>5 DEF Next

\* A node whose dependencies are all finished and which is not its own
\* dependency can be added to a closed acyclic set.
LEMMA AddFinished ==
    ASSUME NEW F, NEW id, id \notin F, F \subseteq nodes, id \in nodes,
           \A n \in F : deps[n] \cap nodes \subseteq F,
           \A S \in SUBSET F : ~CyclicSet(S),
           deps[id] \cap nodes \subseteq F
    PROVE  \A S \in SUBSET (F \union {id}) : ~CyclicSet(S)
<1> SUFFICES ASSUME NEW S \in SUBSET (F \union {id}), CyclicSet(S) PROVE FALSE
  OBVIOUS
<1> DEFINE T == S \ {id}
<1>1. \A n \in S : deps[n] \cap S \subseteq F
  OBVIOUS
<1>2. \A n \in S : deps[n] \cap T # {}
  BY <1>1 DEF CyclicSet
<1>3. T # {}
  BY <1>2 DEF CyclicSet
<1>4. T \in SUBSET F /\ CyclicSet(T)
  BY <1>2, <1>3 DEF CyclicSet
<1> QED
  BY <1>4

\* Every step keeps the finished nodes closed and acyclic.
LEMMA FinishedStep ==
    TypeOK /\ StackIsPath /\ Explored /\ FinishedAcyclic /\ [Next]_vars
        => FinishedAcyclic'
<1> SUFFICES ASSUME TypeOK, StackIsPath, Explored, FinishedAcyclic, [Next]_vars
             PROVE  FinishedAcyclic'
  OBVIOUS
\* A step that changes neither the graph nor the finished nodes.
<1>0. ASSUME UNCHANGED <<nodes, deps>>, Finished' = Finished PROVE FinishedAcyclic'
  BY <1>0 DEF FinishedAcyclic, CyclicSet
<1>1. ASSUME NEW id \in NodeId, VisitRoot(id) PROVE FinishedAcyclic'
  BY <1>0, <1>1 DEF VisitRoot, Enter, Finished, graph, TypeOK
<1>2. ASSUME NEW id \in NodeId, Descend(id) PROVE FinishedAcyclic'
  BY <1>0, <1>2 DEF Descend, Enter, Finished, graph, TypeOK
<1>3. ASSUME NEW id \in NodeId, Seen(id) PROVE FinishedAcyclic'
  BY <1>0, <1>3 DEF Seen, Finished, graph
<1>4. CASE Leave
  <2>1. /\ path # <<>> /\ verdict = "none" /\ todo[Top] = {}
        /\ UNCHANGED <<nodes, deps, visited>> /\ stack' = stack \ {Top}
    BY <1>4 DEF Leave, graph
  <2>2. Len(path) \in Nat \ {0} /\ Top = path[Len(path)]
    BY <2>1 DEF Top, TypeOK
  <2>3. Top \in stack /\ Top \in visited /\ Top \in nodes
    BY <2>2 DEF StackIsPath, TypeOK
  <2>4. Top \notin Finished /\ Finished' = Finished \union {Top}
    BY <2>1, <2>3 DEF Finished
  <2>5. deps[Top] \cap nodes \subseteq Finished
    BY <2>1, <2>2 DEF Explored
  <2>6. \A S \in SUBSET (Finished \union {Top}) : ~CyclicSet(S)
    BY <2>3, <2>4, <2>5, AddFinished DEF FinishedAcyclic, Finished, TypeOK
  <2>7. \A S : CyclicSet(S)' <=> CyclicSet(S)
    BY <2>1 DEF CyclicSet
  <2> QED
    BY <2>1, <2>4, <2>5, <2>6, <2>7 DEF FinishedAcyclic
<1>5. CASE Finish \/ UNCHANGED vars
  BY <1>0, <1>5 DEF Finish, vars, Finished, graph
<1> QED
  BY <1>1, <1>2, <1>3, <1>4, <1>5 DEF Next

-----------------------------------------------------------------------------
(* The verdict *)

\* A dependency on the stack closes a cycle: the activations from it on.
LEMMA BackEdge ==
    ASSUME TypeOK, StackIsPath, path # <<>>, NEW id \in stack, id \in todo[Top]
    PROVE  HasCycle
<1>1. Len(path) \in Nat \ {0} /\ Top = path[Len(path)]
  BY DEF TypeOK, Top
<1>2. PICK k \in 1..Len(path) : path[k] = id
  BY DEF StackIsPath
<1> DEFINE S == {path[i] : i \in k..Len(path)}
<1>3. S \in SUBSET nodes
  BY <1>1, <1>2 DEF StackIsPath, TypeOK
<1>4. S # {}
  BY <1>1, <1>2
<1>5. ASSUME NEW n \in S PROVE deps[n] \cap S # {}
  <2>1. PICK i \in k..Len(path) : n = path[i]
    OBVIOUS
  <2>2. CASE i < Len(path)
    <3>1. path[i+1] \in deps[n] /\ path[i+1] \in S
      BY <1>1, <1>2, <2>1, <2>2 DEF StackIsPath
    <3> QED
      BY <3>1
  <2>3. CASE i = Len(path)
    <3>1. id \in deps[n]
      BY <1>1, <2>1, <2>3 DEF TypeOK
    <3>2. id \in S
      BY <1>1, <1>2
    <3> QED
      BY <3>1, <3>2
  <2> QED
    BY <1>1, <1>2, <2>1, <2>2, <2>3
<1> QED
  BY <1>3, <1>4, <1>5 DEF HasCycle, CyclicSet

\* A step that gives a verdict gives the right one.
LEMMA VerdictStep ==
    TypeOK /\ StackIsPath /\ Explored /\ FinishedAcyclic /\ VerdictExact
        /\ [Next]_vars => VerdictExact'
<1> SUFFICES ASSUME TypeOK, StackIsPath, Explored, FinishedAcyclic, VerdictExact,
                    [Next]_vars
             PROVE  VerdictExact'
  OBVIOUS
<1>0. UNCHANGED <<nodes, deps>>
  BY DEF Next, vars, VisitRoot, Descend, Seen, Leave, Finish, graph
<1>1. HasCycle' <=> HasCycle
  BY <1>0 DEF HasCycle, CyclicSet
<1>2. CASE verdict' = verdict
  BY <1>1, <1>2 DEF VerdictExact
<1>3. ASSUME NEW id \in NodeId, Seen(id) PROVE VerdictExact'
  <2>1. CASE id \in stack
    <3>1. HasCycle
      BY <1>3, <2>1, BackEdge DEF Seen
    <3> QED
      BY <1>1, <1>3, <2>1, <3>1 DEF Seen, VerdictExact
  <2>2. CASE id \notin stack
    BY <1>3, <2>2 DEF Seen, VerdictExact
  <2> QED
    BY <2>1, <2>2
<1>4. CASE Finish
  <2>1. stack = {} /\ visited = nodes
    BY <1>4 DEF Finish, StackIsPath, Explored, TypeOK
  <2>2. ~HasCycle
    BY <2>1 DEF FinishedAcyclic, Finished, HasCycle
  <2> QED
    BY <1>1, <1>4, <2>2 DEF Finish, VerdictExact
<1> QED
  BY <1>2, <1>3, <1>4 DEF Next, vars, VisitRoot, Descend, Leave

\* has_cycle returns true exactly when the graph has a cycle, for every
\* graph and every order in which the map and the dependencies are walked.
THEOREM HasCycleExact == Spec => []VerdictExact
<1> DEFINE Inv == /\ TypeOK /\ StackIsPath /\ Explored /\ FinishedAcyclic
                  /\ VerdictExact
<1>1. Init => Inv
  <2> SUFFICES ASSUME Init PROVE Inv
    OBVIOUS
  <2>1. TypeOK
    BY DEF Init, TypeOK
  <2>2. StackIsPath /\ Explored /\ VerdictExact
    BY DEF Init, StackIsPath, Explored, VerdictExact
  <2>3. FinishedAcyclic
    BY DEF Init, FinishedAcyclic, Finished, CyclicSet
  <2> QED
    BY <2>1, <2>2, <2>3
<1>2. Inv /\ [Next]_vars => Inv'
  BY TypeStep, StackStep, ExploredStep, FinishedStep, VerdictStep
<1> QED
  BY <1>1, <1>2, PTL DEF Spec
-----------------------------------------------------------------------------
(* Sequences without duplicates *)

\* A listing of a finite set names each of its elements once.
LEMMA Listing ==
    ASSUME NEW S, IsFiniteSet(S), NEW f \in SetToSeqs(S)
    PROVE  f \in Seq(S) /\ IsInjective(f) /\ ToSet(f) = S
<1>1. Cardinality(S) \in Nat
  BY FS_CardinalityType
<1>2. f \in [1..Cardinality(S) -> S]
      /\ \A i, j \in 1..Cardinality(S) : i # j => f[i] # f[j]
  BY DEF SetToSeqs
<1>3. f \in Seq(S) /\ IsInjective(f)
  BY <1>1, <1>2 DEF IsInjective
<1>4. IsFiniteSet(1..Cardinality(S)) /\ Cardinality(1..Cardinality(S)) = Cardinality(S)
  BY <1>1, FS_Interval
<1>5. f \in Surjection(1..Cardinality(S), S)
  BY <1>2, <1>3, <1>4, FS_Injection DEF Injection
<1>6. ToSet(f) = S
  BY <1>2, <1>5 DEF Surjection, ToSet
<1> QED
  BY <1>3, <1>6

\* Append adds a new element.
LEMMA AppendSet ==
    ASSUME NEW S, NEW s \in Seq(S), NEW e \in S, IsInjective(s), e \notin ToSet(s)
    PROVE  /\ Append(s, e) \in Seq(S) /\ ToSet(Append(s, e)) = ToSet(s) \union {e}
           /\ IsInjective(Append(s, e)) /\ Len(Append(s, e)) = Len(s) + 1
           /\ \A i \in 1..Len(s) : Append(s, e)[i] = s[i]
           /\ Append(s, e)[Len(s) + 1] = e
<1> DEFINE t == Append(s, e)
<1>1. /\ t \in Seq(S) /\ Len(t) = Len(s) + 1 /\ DOMAIN t = 1..(Len(s) + 1)
      /\ DOMAIN s = 1..Len(s) /\ Len(s) \in Nat
      /\ \A i \in 1..Len(s) : t[i] = s[i] /\ t[Len(s) + 1] = e
  OBVIOUS
<1>2. t[Len(s) + 1] = e
  OBVIOUS
<1> HIDE DEF t
<1>3. ToSet(t) = ToSet(s) \union {e}
  <2>1. ASSUME NEW x \in ToSet(t) PROVE x \in ToSet(s) \union {e}
    <3>1. PICK i \in 1..(Len(s) + 1) : x = t[i]
      BY <1>1 DEF ToSet
    <3>2. i = Len(s) + 1 \/ i \in 1..Len(s)
      BY <1>1
    <3> QED
      BY <1>1, <1>2, <3>1, <3>2 DEF ToSet
  <2>2. ASSUME NEW x \in ToSet(s) \union {e} PROVE x \in ToSet(t)
    <3>1. CASE x = e
      BY <1>1, <1>2, <3>1 DEF ToSet
    <3>2. CASE x \in ToSet(s)
      <4>1. PICK i \in 1..Len(s) : x = s[i]
        BY <1>1, <3>2 DEF ToSet
      <4>2. i \in 1..(Len(s) + 1) /\ t[i] = x
        BY <1>1, <4>1
      <4> QED
        BY <1>1, <4>2 DEF ToSet
    <3> QED
      BY <3>1, <3>2
  <2> QED
    BY <2>1, <2>2
<1>4. IsInjective(t)
  <2> SUFFICES ASSUME NEW i \in 1..(Len(s) + 1), NEW j \in 1..(Len(s) + 1), t[i] = t[j]
               PROVE  i = j
    BY <1>1 DEF IsInjective
  <2>1. ASSUME NEW k \in 1..Len(s) PROVE t[k] = s[k] /\ s[k] # e
    BY <1>1 DEF ToSet
  <2>2. \A k \in 1..(Len(s) + 1) : k = Len(s) + 1 \/ k \in 1..Len(s)
    BY <1>1
  <2> QED
    BY <1>1, <1>2, <2>1, <2>2 DEF IsInjective
<1> QED
  BY <1>1, <1>2, <1>3, <1>4 DEF t

\* Tail takes the head away.
LEMMA TailSet ==
    ASSUME NEW S, NEW s \in Seq(S), s # <<>>, IsInjective(s)
    PROVE  /\ Head(s) \in S /\ Head(s) \in ToSet(s)
           /\ Tail(s) \in Seq(S) /\ IsInjective(Tail(s)) /\ ToSet(Tail(s)) = ToSet(s) \ {Head(s)}
<1> DEFINE t == Tail(s)
<1>1. /\ t \in Seq(S) /\ Len(s) \in Nat \ {0} /\ DOMAIN s = 1..Len(s)
      /\ DOMAIN t = 1..(Len(s) - 1)
      /\ \A i \in 1..(Len(s) - 1) : t[i] = s[i + 1]
      /\ Head(s) = s[1] /\ s[1] \in S
  OBVIOUS
<1> HIDE DEF t
<1>2. \A i, j \in 1..Len(s) : s[i] = s[j] => i = j
  BY <1>1 DEF IsInjective
<1>3. IsInjective(t)
  BY <1>1, <1>2 DEF IsInjective
<1>4. Head(s) \in ToSet(s)
  BY <1>1 DEF ToSet
<1>5. ASSUME NEW x \in ToSet(t) PROVE x \in ToSet(s) \ {Head(s)}
  <2>1. PICK i \in 1..(Len(s) - 1) : x = s[i + 1]
    BY <1>1 DEF ToSet
  <2>2. i + 1 \in 1..Len(s) /\ 1 \in 1..Len(s) /\ i + 1 # 1
    BY <1>1
  <2> QED
    BY <1>1, <1>2, <2>1, <2>2 DEF ToSet
<1>6. ASSUME NEW x \in ToSet(s) \ {Head(s)} PROVE x \in ToSet(t)
  <2>1. PICK i \in 1..Len(s) : x = s[i]
    BY <1>1 DEF ToSet
  <2>2. i - 1 \in 1..(Len(s) - 1) /\ (i - 1) + 1 = i
    BY <1>1, <2>1
  <2> QED
    BY <1>1, <2>1, <2>2 DEF ToSet
<1> QED
  BY <1>1, <1>3, <1>4, <1>5, <1>6 DEF t

\* Sequences with no element in common.
LEMMA ConcatSet ==
    ASSUME NEW S, NEW s \in Seq(S), NEW t \in Seq(S), IsInjective(s), IsInjective(t),
           ToSet(s) \cap ToSet(t) = {}
    PROVE  /\ s \o t \in Seq(S) /\ IsInjective(s \o t)
           /\ ToSet(s \o t) = ToSet(s) \union ToSet(t)
<1> DEFINE u == s \o t
<1>1. /\ u \in Seq(S) /\ Len(s) \in Nat /\ Len(t) \in Nat
      /\ DOMAIN s = 1..Len(s) /\ DOMAIN t = 1..Len(t) /\ DOMAIN u = 1..(Len(s) + Len(t))
      /\ \A i \in 1..Len(s) : u[i] = s[i]
      /\ \A i \in 1..Len(t) : u[Len(s) + i] = t[i]
  OBVIOUS
<1> HIDE DEF u
<1>2. ASSUME NEW i \in 1..(Len(s) + Len(t)), i \notin 1..Len(s)
      PROVE  i - Len(s) \in 1..Len(t) /\ i = Len(s) + (i - Len(s)) /\ u[i] = t[i - Len(s)]
  <2>1. i - Len(s) \in 1..Len(t) /\ i = Len(s) + (i - Len(s))
    BY <1>1, <1>2
  <2> QED
    BY <1>1, <2>1
<1>3. ASSUME NEW x \in ToSet(u) PROVE x \in ToSet(s) \union ToSet(t)
  BY <1>1, <1>2 DEF ToSet
<1>4. ASSUME NEW x \in ToSet(s) \union ToSet(t) PROVE x \in ToSet(u)
  <2>1. CASE x \in ToSet(s)
    <3>1. PICK i \in 1..Len(s) : x = s[i]
      BY <1>1, <2>1 DEF ToSet
    <3>2. i \in 1..(Len(s) + Len(t))
      BY <1>1
    <3> QED
      BY <1>1, <3>1, <3>2 DEF ToSet
  <2>2. CASE x \in ToSet(t)
    <3>1. PICK i \in 1..Len(t) : x = t[i]
      BY <1>1, <2>2 DEF ToSet
    <3>2. Len(s) + i \in 1..(Len(s) + Len(t))
      BY <1>1
    <3> QED
      BY <1>1, <3>1, <3>2 DEF ToSet
  <2> QED
    BY <2>1, <2>2
<1>5. IsInjective(u)
  <2> SUFFICES ASSUME NEW i \in 1..(Len(s) + Len(t)), NEW j \in 1..(Len(s) + Len(t)), u[i] = u[j]
               PROVE  i = j
    BY <1>1 DEF IsInjective
  <2>1. CASE i \in 1..Len(s) /\ j \in 1..Len(s)
    BY <1>1, <2>1 DEF IsInjective
  <2>2. CASE i \notin 1..Len(s) /\ j \notin 1..Len(s)
    <3>1. /\ i - Len(s) \in DOMAIN t /\ u[i] = t[i - Len(s)]
          /\ j - Len(s) \in DOMAIN t /\ u[j] = t[j - Len(s)]
      BY <1>1, <1>2, <2>2
    <3>2. i - Len(s) = j - Len(s)
      BY <3>1 DEF IsInjective
    <3> QED
      BY <1>1, <3>2
  <2>3. CASE i \in 1..Len(s) /\ j \notin 1..Len(s)
    <3>1. u[i] \in ToSet(s) /\ j - Len(s) \in DOMAIN t /\ u[j] = t[j - Len(s)]
      BY <1>1, <1>2, <2>3 DEF ToSet
    <3> QED
      BY <3>1 DEF ToSet
  <2>4. CASE i \notin 1..Len(s) /\ j \in 1..Len(s)
    <3>1. u[j] \in ToSet(s) /\ i - Len(s) \in DOMAIN t /\ u[i] = t[i - Len(s)]
      BY <1>1, <1>2, <2>4 DEF ToSet
    <3> QED
      BY <3>1 DEF ToSet
  <2> QED
    BY <2>1, <2>2, <2>3, <2>4
<1> QED
  BY <1>1, <1>3, <1>4, <1>5 DEF u
-----------------------------------------------------------------------------
(* In-degrees *)

\* The entries of depends_on that topological_sort counts.
Entries(n) == {i \in DOMAIN depSeq[n] : depSeq[n][i] \in nodes}

\* The graph that both queries read.
GraphOK == nodes \in SUBSET NodeId /\ depSeq \in [NodeId -> Seq(NodeId)]

\* An in-degree counts each dependency in the graph at least once, and
\* exactly once when depends_on has no duplicates.
LEMMA DegreeCounts ==
    ASSUME GraphOK, NEW n \in nodes
    PROVE  /\ IsFiniteSet(Sort!Edges(n)) /\ Sort!InDegree(n) \in Nat
           /\ Cardinality(Sort!Edges(n)) \in Nat
           /\ Cardinality(Sort!Edges(n)) <= Sort!InDegree(n)
           /\ IsInjective(depSeq[n]) => Cardinality(Sort!Edges(n)) = Sort!InDegree(n)
<1>1. n \in NodeId /\ depSeq[n] \in Seq(NodeId)
  BY DEF GraphOK
<1>2. DOMAIN depSeq[n] = 1..Len(depSeq[n]) /\ Len(depSeq[n]) \in Nat
  BY <1>1
<1>3. IsFiniteSet(Entries(n))
  <2>1. IsFiniteSet(1..Len(depSeq[n])) /\ Entries(n) \subseteq 1..Len(depSeq[n])
    BY <1>2, FS_Interval DEF Entries
  <2> QED
    BY <2>1, FS_Subset
<1>4. Sort!InDegree(n) = Cardinality(Entries(n))
  BY DEF Sort!InDegree, Sort!Cardinality, Cardinality, Entries
<1> DEFINE f == [i \in Entries(n) |-> depSeq[n][i]]
<1>5. Sort!Edges(n) = {depSeq[n][i] : i \in Entries(n)}
  BY DEF Sort!Edges, Sort!ToSet, Entries
<1>6. f \in Surjection(Entries(n), Sort!Edges(n))
  BY <1>5 DEF Surjection
<1>7. /\ IsFiniteSet(Sort!Edges(n)) /\ Cardinality(Sort!Edges(n)) <= Cardinality(Entries(n))
      /\ Cardinality(Sort!Edges(n)) = Cardinality(Entries(n)) <=> f \in Injection(Entries(n), Sort!Edges(n))
  BY <1>3, <1>6, FS_Surjection
<1>8. ASSUME IsInjective(depSeq[n]) PROVE f \in Injection(Entries(n), Sort!Edges(n))
  <2>1. f \in [Entries(n) -> Sort!Edges(n)]
    BY <1>5
  <2>2. IsInjective(f)
    BY <1>8 DEF IsInjective, Entries
  <2> QED
    BY <2>1, <2>2 DEF Injection
<1> QED
  BY <1>3, <1>4, <1>7, <1>8, FS_CardinalityType

-----------------------------------------------------------------------------
(* topological_sort *)

Popped == ToSet(sorted)
Queued == ToSet(queue)

\* What an in-degree has lost, it has lost to popped dependencies.
DegreeInv ==
    \A n \in nodes :
        inDegree[n] = Sort!InDegree(n) - Cardinality(Sort!Edges(n) \cap Popped)

\* The ids popped and queued are different ones, and those without a
\* dependency left to pop; each popped id came after its dependencies.
OrderInv ==
    /\ sorted \in Seq(nodes) /\ queue \in Seq(nodes)
    /\ IsInjective(sorted) /\ IsInjective(queue) /\ Popped \cap Queued = {}
    /\ \A n \in nodes : n \in Popped \union Queued <=> inDegree[n] = 0
    /\ \A i \in 1..Len(sorted) : Sort!Edges(sorted[i]) \subseteq {sorted[j] : j \in 1..(i - 1)}

\* The answer is given when the queue is empty.
AnswerInv ==
    /\ result \in {"none", "ok", "cycle"}
    /\ result # "none" => queue = <<>> /\ (result = "ok" <=> Len(sorted) = Cardinality(nodes))

SortInv ==
    /\ GraphOK /\ inDegree \in [nodes -> Int]
    /\ DegreeInv /\ OrderInv /\ AnswerInv

\* A node has an in-degree of zero only when all its dependencies in the
\* graph are popped, and a popped dependency more can always be subtracted.
LEMMA DegreeLeft ==
    ASSUME SortInv, NEW n \in nodes
    PROVE  /\ inDegree[n] \in Nat
           /\ inDegree[n] = 0 => Sort!Edges(n) \subseteq Popped
           /\ IsInjective(depSeq[n]) /\ inDegree[n] # 0 => ~(Sort!Edges(n) \subseteq Popped)
<1> DEFINE E == Sort!Edges(n)
           P == Sort!Edges(n) \cap Popped
<1>1. /\ IsFiniteSet(E) /\ Sort!InDegree(n) \in Nat /\ Cardinality(E) \in Nat
      /\ Cardinality(E) <= Sort!InDegree(n)
      /\ IsInjective(depSeq[n]) => Cardinality(E) = Sort!InDegree(n)
  BY DegreeCounts DEF SortInv
<1>2. P \subseteq E
  OBVIOUS
<1>3. inDegree[n] = Sort!InDegree(n) - Cardinality(P)
  BY DEF SortInv, DegreeInv
<1> HIDE DEF E, P
<1>4. /\ Cardinality(P) \in Nat /\ Cardinality(P) <= Cardinality(E)
      /\ Cardinality(P) = Cardinality(E) => P = E
  BY <1>1, <1>2, FS_Subset, FS_CardinalityType
<1>5. inDegree[n] \in Nat
  BY <1>1, <1>3, <1>4
<1>6. inDegree[n] = 0 => P = E
  BY <1>1, <1>3, <1>4
<1>7. IsInjective(depSeq[n]) /\ inDegree[n] # 0 => P # E
  BY <1>1, <1>3, <1>4
<1> QED
  BY <1>5, <1>6, <1>7 DEF E, P

\* One popped id: each node that depends on it loses one, and those that
\* have lost their last one are queued.
LEMMA PopStep == SortInv /\ Sort!PopFront => SortInv'
<1> SUFFICES ASSUME SortInv, Sort!PopFront PROVE SortInv'
  OBVIOUS
<1> DEFINE id == Head(queue)
           hit == {n \in nodes : id \in ToSet(depSeq[n])}
           zero == {n \in hit : inDegree[n] = 1}
<1>0. /\ GraphOK /\ inDegree \in [nodes -> Int] /\ DegreeInv /\ OrderInv /\ AnswerInv
  BY DEF SortInv
<1>1. /\ result = "none" /\ queue # <<>>
      /\ inDegree' = [n \in nodes |-> inDegree[n] - (IF n \in hit THEN 1 ELSE 0)]
      /\ \E zs \in SetToSeqs(zero) : queue' = Tail(queue) \o zs
      /\ sorted' = Append(sorted, id)
      /\ UNCHANGED <<nodes, depSeq, result>>
  BY DEF Sort!PopFront, Sort!graph, Sort!ToSet, ToSet, Sort!SetToSeqs, SetToSeqs,
         Sort!Cardinality, Cardinality
<1>2. PICK zs \in SetToSeqs(zero) : queue' = Tail(queue) \o zs
  BY <1>1
<1>3. /\ id \in nodes /\ id \in Queued /\ id \notin Popped
      /\ Tail(queue) \in Seq(nodes) /\ IsInjective(Tail(queue))
      /\ ToSet(Tail(queue)) = Queued \ {id}
  BY <1>0, <1>1, TailSet DEF OrderInv, Queued
<1>4. inDegree[id] = 0
  BY <1>0, <1>3 DEF OrderInv
<1>5. IsFiniteSet(zero) /\ zero \subseteq nodes
  <2>1. zero \subseteq NodeId /\ zero \subseteq nodes
    BY <1>0 DEF GraphOK
  <2> QED
    BY <2>1, QueryAssumption, FS_Subset
<1>6. zs \in Seq(zero) /\ IsInjective(zs) /\ ToSet(zs) = zero
  BY <1>2, <1>5, Listing
<1>7. \A n \in nodes : n \in hit <=> id \in Sort!Edges(n)
  BY <1>3 DEF Sort!Edges, Sort!ToSet, ToSet
<1>8. ASSUME NEW n \in nodes
      PROVE  Sort!Edges(n)' = Sort!Edges(n) /\ Sort!InDegree(n)' = Sort!InDegree(n)
  BY <1>1 DEF Sort!Edges, Sort!InDegree, Sort!ToSet
<1>9. /\ sorted' \in Seq(nodes) /\ Popped' = Popped \union {id} /\ IsInjective(sorted')
      /\ Len(sorted') = Len(sorted) + 1
      /\ \A i \in 1..Len(sorted) : sorted'[i] = sorted[i]
      /\ sorted'[Len(sorted) + 1] = id
  <2>1. sorted \in Seq(nodes) /\ IsInjective(sorted) /\ id \notin ToSet(sorted)
    BY <1>0, <1>3 DEF OrderInv, Popped
  <2>2. ToSet(sorted)' = ToSet(sorted')
    BY DEF ToSet
  <2> HIDE DEF id
  <2> QED
    BY <1>1, <1>3, <2>1, <2>2, AppendSet DEF Popped
<1> HIDE DEF id, hit, zero
<1>10. DegreeInv'
  <2> SUFFICES ASSUME NEW n \in nodes
               PROVE  inDegree'[n] = Sort!InDegree(n) - Cardinality(Sort!Edges(n) \cap (Popped \union {id}))
    BY <1>1, <1>8, <1>9 DEF DegreeInv
  <2>1. IsFiniteSet(Sort!Edges(n)) /\ Sort!InDegree(n) \in Nat
    BY <1>0, DegreeCounts
  <2> DEFINE P == Sort!Edges(n) \cap Popped
             Q == Sort!Edges(n) \cap (Popped \union {id})
  <2> SUFFICES inDegree'[n] = Sort!InDegree(n) - Cardinality(Q)
    OBVIOUS
  <2>2. IsFiniteSet(P) /\ Cardinality(P) \in Nat
    <3>1. P \subseteq Sort!Edges(n)
      OBVIOUS
    <3> QED
      BY <2>1, <3>1, FS_Subset, FS_CardinalityType
  <2>3. /\ inDegree[n] = Sort!InDegree(n) - Cardinality(P) /\ inDegree[n] \in Int
        /\ inDegree'[n] = inDegree[n] - (IF n \in hit THEN 1 ELSE 0)
    BY <1>0, <1>1 DEF DegreeInv
  <2>4. CASE n \in hit
    <3>1. Q = P \union {id} /\ id \notin P
      BY <1>3, <1>7, <2>4
    <3> HIDE DEF P, Q
    <3>2. Cardinality(P \union {id}) = Cardinality(P) + 1
      BY <2>2, <3>1, FS_AddElement
    <3> QED
      BY <2>1, <2>2, <2>3, <2>4, <3>1, <3>2
  <2>5. CASE n \notin hit
    <3>1. Q = P
      BY <1>7, <2>5
    <3> HIDE DEF P, Q
    <3> QED
      BY <2>3, <2>5, <3>1
  <2> QED
    BY <2>4, <2>5
<1>11. ASSUME NEW n \in nodes
       PROVE  /\ n \in hit => inDegree[n] # 0
              /\ n \in zero <=> inDegree[n] # 0 /\ inDegree'[n] = 0
              /\ inDegree[n] = 0 => inDegree'[n] = 0
  <2>1. n \in hit => inDegree[n] # 0
    BY <1>3, <1>7, DegreeLeft
  <2>2. inDegree[n] \in Int
    BY <1>0
  <2> QED
    BY <1>1, <2>1, <2>2 DEF zero
<1>12. Queued \cap zero = {}
  BY <1>0, <1>5, <1>11 DEF OrderInv
<1>13. queue' \in Seq(nodes) /\ IsInjective(queue') /\ Queued' = (Queued \ {id}) \union zero
  <2>1. zs \in Seq(nodes)
    BY <1>5, <1>6
  <2>2. ToSet(Tail(queue)) \cap ToSet(zs) = {}
    BY <1>3, <1>6, <1>12
  <2>3. /\ Tail(queue) \o zs \in Seq(nodes) /\ IsInjective(Tail(queue) \o zs)
        /\ ToSet(Tail(queue) \o zs) = (Queued \ {id}) \union zero
    <3>1. \A s, t \in Seq(nodes) :
            IsInjective(s) /\ IsInjective(t) /\ ToSet(s) \cap ToSet(t) = {} =>
               /\ s \o t \in Seq(nodes) /\ IsInjective(s \o t)
               /\ ToSet(s \o t) = ToSet(s) \union ToSet(t)
      BY ConcatSet
    <3> QED
      BY <1>3, <1>6, <2>1, <2>2, <3>1
  <2>4. Queued' = ToSet(queue')
    BY DEF Queued, ToSet
  <2> QED
    BY <1>2, <2>3, <2>4
<1>14. OrderInv'
  <2>1. Popped' \cap Queued' = {}
    BY <1>0, <1>3, <1>4, <1>5, <1>9, <1>11, <1>13 DEF OrderInv
  <2>2. \A n \in nodes : n \in Popped' \union Queued' <=> inDegree'[n] = 0
    BY <1>0, <1>3, <1>9, <1>11, <1>13 DEF OrderInv
  <2>3. ASSUME NEW i \in 1..Len(sorted')
        PROVE  Sort!Edges(sorted[i])' \subseteq {sorted'[j] : j \in 1..(i - 1)}
    <3>0. Len(sorted) \in Nat
      BY <1>0 DEF OrderInv
    <3>1. CASE i \in 1..Len(sorted)
      <4>1. sorted'[i] = sorted[i] /\ sorted[i] \in nodes
        BY <1>0, <1>9, <3>1 DEF OrderInv
      <4>2. Sort!Edges(sorted[i]) \subseteq {sorted[j] : j \in 1..(i - 1)}
        BY <1>0, <3>1 DEF OrderInv
      <4>3. \A j \in 1..(i - 1) : sorted'[j] = sorted[j]
        BY <1>9, <3>0, <3>1
      <4>4. Sort!Edges(sorted[i])' = Sort!Edges(sorted[i])
        BY <1>1, <4>1 DEF Sort!Edges, Sort!ToSet
      <4> QED
        BY <4>2, <4>3, <4>4
    <3>2. CASE i = Len(sorted) + 1
      <4>1. Sort!Edges(id) \subseteq Popped
        BY <1>3, <1>4, DegreeLeft
      <4>2. Sort!Edges(sorted[i])' = Sort!Edges(id)
        BY <1>1, <1>9, <3>2 DEF Sort!Edges, Sort!ToSet
      <4>3. Popped = {sorted'[j] : j \in 1..Len(sorted)}
        <5>1. DOMAIN sorted = 1..Len(sorted)
          BY <1>0 DEF OrderInv
        <5> QED
          BY <1>9, <5>1 DEF Popped, ToSet
      <4>4. i - 1 = Len(sorted)
        BY <3>0, <3>2
      <4> QED
        BY <4>1, <4>2, <4>3, <4>4
    <3> QED
      BY <1>9, <3>0, <3>1, <3>2
  <2>4. IsInjective(sorted)' /\ IsInjective(queue)'
    BY <1>9, <1>13 DEF IsInjective
  <2> QED
    BY <1>1, <1>9, <1>13, <2>1, <2>2, <2>3, <2>4 DEF OrderInv
<1>15. GraphOK' /\ inDegree' \in [nodes' -> Int] /\ AnswerInv'
  BY <1>0, <1>1 DEF GraphOK, AnswerInv
<1> QED
  BY <1>10, <1>14, <1>15 DEF SortInv

\* A nonempty set of naturals has a least element.
LEMMA LeastNat ==
    ASSUME NEW S \in SUBSET Nat, S # {}
    PROVE  \E n \in S : \A m \in S : ~(m < n)
<1> DEFINE R == {ss \in Nat \X Nat : ss[1] < ss[2]}
<1>1. IsWellFoundedOn(R, Nat)
  BY NatLessThanWellFounded DEF OpToRel
<1> HIDE DEF R
<1>2. PICK n \in S : \A m \in S : ~(<<m, n>> \in R)
  BY <1>1, WFMin
<1> QED
  BY <1>2 DEF R


\* The first queue lists the nodes that depend on nothing in the graph.
LEMMA SortInit == QueryInit => SortInv
<1> SUFFICES ASSUME QueryInit PROVE SortInv
  OBVIOUS
<1> DEFINE free == {n \in nodes : Sort!InDegree(n) = 0}
<1>1. /\ nodes \in SUBSET NodeId /\ depSeq \in [NodeId -> SeqOf(NodeId, MaxDeps)]
      /\ inDegree = [n \in nodes |-> Sort!InDegree(n)] /\ queue \in SetToSeqs(free)
      /\ sorted = <<>> /\ result = "none"
  BY DEF QueryInit, Sort!Init, Sort!SeqOf, SeqOf, Sort!SetToSeqs, SetToSeqs, Sort!Cardinality,
         Cardinality
<1>2. GraphOK
  <2>1. \A s \in SeqOf(NodeId, MaxDeps) : s \in Seq(NodeId)
    BY QueryAssumption DEF SeqOf
  <2> QED
    BY <1>1, <2>1 DEF GraphOK
<1>3. IsFiniteSet(free) /\ free \subseteq nodes
  <2>1. free \subseteq NodeId /\ free \subseteq nodes
    BY <1>1
  <2> QED
    BY <2>1, QueryAssumption, FS_Subset
<1>4. queue \in Seq(free) /\ IsInjective(queue) /\ Queued = free
  <2> HIDE DEF free
  <2> QED
    BY <1>1, <1>3, Listing DEF Queued
<1>5. Popped = {} /\ IsInjective(sorted) /\ sorted \in Seq(nodes) /\ Len(sorted) = 0
  BY <1>1 DEF Popped, ToSet, IsInjective
<1>6. \A n \in nodes : Sort!InDegree(n) \in Nat
  BY <1>2, DegreeCounts
<1>7. DegreeInv
  <2> SUFFICES ASSUME NEW n \in nodes
               PROVE  inDegree[n] = Sort!InDegree(n) - Cardinality(Sort!Edges(n) \cap Popped)
    BY DEF DegreeInv
  <2>1. Sort!Edges(n) \cap Popped = {}
    BY <1>5
  <2>2. Cardinality(Sort!Edges(n) \cap Popped) = 0
    BY <2>1, FS_EmptySet
  <2> QED
    BY <1>1, <1>6, <2>2
<1>8. OrderInv
  <2>1. queue \in Seq(nodes)
    BY <1>3, <1>4
  <2>2. \A n \in nodes : n \in Popped \union Queued <=> inDegree[n] = 0
    BY <1>1, <1>4, <1>5
  <2> QED
    BY <1>4, <1>5, <2>1, <2>2 DEF OrderInv
<1>9. inDegree \in [nodes -> Int] /\ AnswerInv
  BY <1>1, <1>6 DEF AnswerInv
<1> QED
  BY <1>2, <1>7, <1>8, <1>9 DEF SortInv

\* Whatever leaves the graph and the sort alone keeps what is known of them;
\* the return only looks.
LEMMA SortKept ==
    ASSUME SortInv, UNCHANGED <<nodes, depSeq, inDegree, queue, sorted>>,
           UNCHANGED result \/ Sort!Return
    PROVE  SortInv'
<1>1. ASSUME NEW n \in nodes
      PROVE  Sort!Edges(n)' = Sort!Edges(n) /\ Sort!InDegree(n)' = Sort!InDegree(n)
  BY DEF Sort!Edges, Sort!InDegree, Sort!ToSet
<1>2. Popped' = Popped /\ Queued' = Queued
  BY DEF Popped, Queued, ToSet
<1>3. GraphOK' /\ (inDegree \in [nodes -> Int])'
  BY DEF SortInv, GraphOK
<1>4. DegreeInv'
  BY <1>1, <1>2 DEF SortInv, DegreeInv
<1>5. OrderInv'
  <2>1. IsInjective(sorted)' /\ IsInjective(queue)'
    BY DEF SortInv, OrderInv, IsInjective
  <2>2. (\A i \in 1..Len(sorted) :
            Sort!Edges(sorted[i]) \subseteq {sorted[j] : j \in 1..(i - 1)})'
    <3>1. ASSUME NEW i \in 1..Len(sorted)
          PROVE  Sort!Edges(sorted[i])' \subseteq {sorted[j] : j \in 1..(i - 1)}
      BY DEF SortInv, OrderInv, Sort!Edges, Sort!ToSet
    <3> QED
      BY <3>1
  <2>3. (\A n \in nodes : n \in Popped \union Queued <=> inDegree[n] = 0)'
    BY <1>2 DEF SortInv, OrderInv
  <2>4. sorted' \in Seq(nodes') /\ queue' \in Seq(nodes') /\ Popped' \cap Queued' = {}
    BY <1>2 DEF SortInv, OrderInv
  <2> QED
    BY <2>1, <2>2, <2>3, <2>4 DEF OrderInv
<1>6. AnswerInv'
  BY DEF SortInv, AnswerInv, Sort!Return, Sort!Cardinality, Cardinality
<1> QED
  BY <1>3, <1>4, <1>5, <1>6 DEF SortInv

\* The two queries read one graph: has_cycle the set of the entries.
SameGraph == deps = [n \in NodeId |-> ToSet(depSeq[n])]

QueryInv == SortInv /\ SameGraph

\* Steps of either query keep it.
LEMMA QueryStep == QueryInv /\ [QueryNext]_queryVars => QueryInv'
<1> SUFFICES ASSUME QueryInv, [QueryNext]_queryVars PROVE QueryInv'
  OBVIOUS
<1>1. UNCHANGED <<nodes, deps, depSeq>>
  BY DEF QueryNext, AskCycle, AskOrder, queryVars, vars, Next, VisitRoot, Descend, Seen, Leave,
         Finish, graph, Sort!Next, Sort!PopFront, Sort!Return, Sort!graph
<1>2. SameGraph'
  BY <1>1 DEF QueryInv, SameGraph, ToSet
<1>3. Sort!PopFront \/ Sort!Return \/ UNCHANGED sortVars
  BY DEF QueryNext, AskCycle, AskOrder, queryVars, Sort!Next
<1>4. SortInv'
  <2>1. Sort!Return => UNCHANGED <<inDegree, queue, sorted>>
    BY DEF Sort!Return
  <2>2. SortInv
    BY DEF QueryInv
  <2> QED
    BY <1>1, <1>3, <2>1, <2>2, PopStep, SortKept DEF sortVars
<1> QED
  BY <1>2, <1>4 DEF QueryInv

\* When the sort has named every node, the graph has no cycle: of the nodes
\* of a cycle the one named first would come after another one.
LEMMA CompleteIsAcyclic == SortInv /\ Popped = nodes => ~Sort!HasCycle
<1> SUFFICES ASSUME SortInv, Popped = nodes, Sort!HasCycle PROVE FALSE
  OBVIOUS
<1>1. PICK S \in SUBSET nodes : S # {} /\ \A n \in S : Sort!Edges(n) \cap S # {}
  BY DEF Sort!HasCycle
<1> DEFINE places == {i \in 1..Len(sorted) : sorted[i] \in S}
<1>2. sorted \in Seq(nodes) /\ DOMAIN sorted = 1..Len(sorted) /\ Len(sorted) \in Nat
  BY DEF SortInv, OrderInv
<1>3. places \in SUBSET Nat /\ places # {}
  BY <1>1, <1>2 DEF Popped, ToSet
<1>4. PICK i \in places : \A j \in places : ~(j < i)
  <2> HIDE DEF places
  <2> QED
    BY <1>3, LeastNat
<1>5. PICK d \in S : d \in Sort!Edges(sorted[i])
  BY <1>1
<1>6. Sort!Edges(sorted[i]) \subseteq {sorted[j] : j \in 1..(i - 1)}
  BY DEF SortInv, OrderInv
<1>7. PICK j \in 1..(i - 1) : d = sorted[j]
  BY <1>5, <1>6
<1>8. j \in places /\ j < i
  BY <1>2, <1>5, <1>7
<1> QED
  BY <1>4, <1>8

\* As many ids as the graph has nodes are all of them.
LEMMA AllPopped == SortInv => (Len(sorted) = Cardinality(nodes) <=> Popped = nodes)
<1> SUFFICES ASSUME SortInv PROVE Len(sorted) = Cardinality(nodes) <=> Popped = nodes
  OBVIOUS
<1>1. /\ sorted \in Seq(nodes) /\ IsInjective(sorted) /\ DOMAIN sorted = 1..Len(sorted)
      /\ Len(sorted) \in Nat /\ sorted \in [1..Len(sorted) -> nodes]
  BY DEF SortInv, OrderInv
<1>2. IsFiniteSet(nodes)
  BY QueryAssumption, FS_Subset DEF SortInv, GraphOK
<1>3. Cardinality(1..Len(sorted)) = Len(sorted)
  BY <1>1, FS_Interval
<1>4. sorted \in Injection(1..Len(sorted), nodes)
  BY <1>1 DEF Injection
<1>5. Len(sorted) = Cardinality(nodes) <=> sorted \in Surjection(1..Len(sorted), nodes)
  BY <1>2, <1>3, <1>4, FS_Injection
<1>6. sorted \in Surjection(1..Len(sorted), nodes) <=> Popped = nodes
  BY <1>1 DEF Surjection, Popped, ToSet
<1> QED
  BY <1>5, <1>6

\* topological_sort is right on every graph, with duplicate, missing and
\* self dependencies, and in every order of the hash maps.
THEOREM SortHolds == QuerySpec => []SortedIsTopological
<1>1. QueryInit => QueryInv
  BY SortInit DEF QueryInv, QueryInit, SameGraph
<1>2. QueryInv => SortedIsTopological
  <2> SUFFICES ASSUME SortInv PROVE SortedIsTopological
    BY DEF QueryInv
  <2>0. /\ sorted \in Seq(nodes) /\ queue \in Seq(nodes) /\ Len(sorted) \in Nat
        /\ Len(queue) \in Nat /\ DOMAIN sorted = 1..Len(sorted) /\ DOMAIN queue = 1..Len(queue)
    BY DEF SortInv, OrderInv
  <2>1. Sort!TypeOK
    <3>1. inDegree \in [nodes -> Nat]
      BY DegreeLeft DEF SortInv
    <3> QED
      BY <2>0, <3>1 DEF Sort!TypeOK, SortInv, AnswerInv
  <2> DEFINE out == sorted \o queue
  <2>2. IsInjective(out)
    BY ConcatSet DEF SortInv, OrderInv, Popped, Queued
  <2>3. /\ Len(out) = Len(sorted) + Len(queue)
        /\ \A i \in 1..Len(sorted) : out[i] = sorted[i]
        /\ \A i \in 1..Len(out) : i \notin 1..Len(sorted) => out[i] = queue[i - Len(sorted)]
    BY <2>0
  <2> HIDE DEF out
  <2>4. ASSUME NEW i \in 1..Len(out)
        PROVE  Sort!Edges(out[i]) \subseteq {sorted[j] : j \in 1..(i - 1) \cap DOMAIN sorted}
    <3>1. CASE i \in 1..Len(sorted)
      <4>1. Sort!Edges(sorted[i]) \subseteq {sorted[j] : j \in 1..(i - 1)}
        BY <3>1 DEF SortInv, OrderInv
      <4>2. 1..(i - 1) \subseteq DOMAIN sorted
        BY <2>0, <3>1
      <4> QED
        BY <2>3, <3>1, <4>1, <4>2
    <3>2. CASE i \notin 1..Len(sorted)
      <4>1. i - Len(sorted) \in 1..Len(queue) /\ out[i] = queue[i - Len(sorted)]
            /\ 1..Len(sorted) \subseteq 1..(i - 1)
        BY <2>0, <2>3, <3>2
      <4>2. out[i] \in Queued /\ out[i] \in nodes
        BY <2>0, <4>1 DEF Queued, ToSet
      <4>3. Sort!Edges(out[i]) \subseteq Popped
        BY <4>2, DegreeLeft DEF SortInv, OrderInv
      <4> QED
        BY <2>0, <4>1, <4>3 DEF Popped, ToSet
    <3> QED
      BY <3>1, <3>2
  <2>5. Sort!SortedIsTopological
    BY <2>2, <2>4 DEF Sort!SortedIsTopological, Sort!IsInjective, IsInjective, out
  <2>6. Sort!OkIsComplete
    BY AllPopped, CompleteIsAcyclic DEF Sort!OkIsComplete, Sort!ToSet, ToSet, Popped, SortInv,
       AnswerInv
  <2> QED
    BY <2>1, <2>5, <2>6 DEF SortedIsTopological
<1> QED
  BY <1>1, <1>2, QueryStep, PTL DEF QuerySpec

\* The first query is the search that HasCycleExact is about.
LEMMA AsksHasCycle == QuerySpec => Spec
<1>1. QueryInit => Init
  <2> SUFFICES ASSUME QueryInit PROVE Init
    OBVIOUS
  <2>1. SortInv /\ deps = [n \in NodeId |-> ToSet(depSeq[n])]
    BY SortInit DEF QueryInit
  <2>2. \A n \in NodeId : ToSet(depSeq[n]) \subseteq NodeId
    <3>1. \A n \in NodeId : depSeq[n] \in Seq(NodeId)
      BY <2>1 DEF SortInv, GraphOK
    <3>2. ASSUME NEW s \in Seq(NodeId) PROVE ToSet(s) \subseteq NodeId
      <4>1. DOMAIN s = 1..Len(s) /\ \A i \in 1..Len(s) : s[i] \in NodeId
        OBVIOUS
      <4> QED
        BY <4>1 DEF ToSet
    <3> QED
      BY <3>1, <3>2
  <2> QED
    BY <2>1, <2>2 DEF QueryInit, Init, SortInv, GraphOK
<1>2. [QueryNext]_queryVars => [Next]_vars
  BY DEF QueryNext, AskCycle, AskOrder, queryVars, vars, search, Sort!Next, Sort!PopFront,
         Sort!Return, Sort!graph
<1> QED
  BY <1>1, <1>2, PTL DEF QuerySpec, Spec

\* has_cycle and topological_sort agree on every graph whose dependency
\* lists have no duplicates: what the sort has not named when its queue is
\* empty is a set of nodes each of which depends on another of the set.
THEOREM AgreeHolds == QuerySpec => []AnswersAgree
<1>1. QueryInit => QueryInv
  BY SortInit DEF QueryInv, QueryInit, SameGraph
<1>2. QueryInv /\ VerdictExact => AnswersAgree
  <2> SUFFICES ASSUME QueryInv, VerdictExact, verdict # "none", result # "none", NoDuplicates
               PROVE  verdict = "cycle" <=> result = "cycle"
    BY DEF AnswersAgree
  <2>0. SortInv /\ SameGraph
    BY DEF QueryInv
  <2>1. HasCycle <=> Sort!HasCycle
    <3>1. ASSUME NEW n \in nodes, NEW S \in SUBSET nodes
          PROVE  deps[n] \cap S = Sort!Edges(n) \cap S
      BY <2>0 DEF SameGraph, SortInv, GraphOK, Sort!Edges, Sort!ToSet, ToSet
    <3> QED
      BY <3>1 DEF HasCycle, CyclicSet, Sort!HasCycle
  <2>2. result = "ok" => ~Sort!HasCycle
    BY <2>0, AllPopped, CompleteIsAcyclic DEF SortInv, AnswerInv
  <2>3. ASSUME result = "cycle" PROVE Sort!HasCycle
    <3> DEFINE rest == nodes \ Popped
    <3>1. rest # {}
      <4>1. Popped # nodes
        BY <2>0, <2>3, AllPopped DEF SortInv, AnswerInv
      <4>2. Popped \subseteq nodes
        BY <2>0 DEF SortInv, OrderInv, Popped, ToSet
      <4> QED
        BY <4>1, <4>2
    <3>2. ASSUME NEW n \in rest PROVE Sort!Edges(n) \cap rest # {}
      <4>1. Queued = {}
        BY <2>0, <2>3 DEF SortInv, AnswerInv, Queued, ToSet
      <4>2. inDegree[n] # 0
        BY <2>0, <4>1 DEF SortInv, OrderInv
      <4>3. IsInjective(depSeq[n])
        BY DEF NoDuplicates
      <4>4. ~(Sort!Edges(n) \subseteq Popped)
        BY <2>0, <4>2, <4>3, DegreeLeft
      <4>5. Sort!Edges(n) \subseteq nodes
        BY DEF Sort!Edges
      <4> QED
        BY <4>4, <4>5
    <3> QED
      BY <3>1, <3>2 DEF Sort!HasCycle
  <2>4. result \in {"ok", "cycle"}
    BY <2>0 DEF SortInv, AnswerInv
  <2> QED
    BY <2>1, <2>2, <2>3, <2>4 DEF VerdictExact
<1> QED
  BY <1>1, <1>2, QueryStep, AsksHasCycle, HasCycleExact, PTL DEF QuerySpec

-----------------------------------------------------------------------------
(* Both run out of steps *)

\* Each step of the search makes its lexicographic measure smaller.
LEMMA SearchStep == TypeOK /\ Next => verdict = "none" /\ SearchAdvances
<1> SUFFICES ASSUME TypeOK, Next PROVE verdict = "none" /\ SearchAdvances
  OBVIOUS
<1> USE DEF TypeOK
<1>0. path # <<>> => Len(path) \in Nat \ {0} /\ Top \in NodeId
  BY DEF Top
<1>1. ASSUME NEW id \in NodeId, VisitRoot(id) PROVE verdict = "none" /\ SearchAdvances
  BY <1>1 DEF VisitRoot, Enter, SearchAdvances
<1>2. ASSUME NEW id \in NodeId, Descend(id) PROVE verdict = "none" /\ SearchAdvances
  BY <1>2 DEF Descend, Enter, SearchAdvances
<1>3. ASSUME NEW id \in NodeId, Seen(id) PROVE verdict = "none" /\ SearchAdvances
  <2>1. /\ verdict = "none" /\ Top \in NodeId /\ id \in todo[Top]
        /\ todo' = [todo EXCEPT ![Top] = @ \ {id}]
        /\ UNCHANGED <<roots, visited>>
    BY <1>0, <1>3 DEF Seen
  <2>2. todo'[Top] = todo[Top] \ {id} /\ \A n \in NodeId : todo'[n] \subseteq todo[n]
    BY <2>1
  <2>3. todo' # todo
    BY <2>1, <2>2
  <2> QED
    BY <2>1, <2>2, <2>3 DEF SearchAdvances
<1>4. CASE Leave
  <2>1. /\ verdict = "none" /\ path # <<>>
        /\ path' = SubSeq(path, 1, Len(path) - 1)
        /\ UNCHANGED <<roots, visited, todo>>
    BY <1>4 DEF Leave
  <2>2. Len(path') = Len(path) - 1
    <3>1. path \in Seq(NodeId)
      OBVIOUS
    <3>2. Len(path) - 1 \in Nat /\ Len(path) - 1 <= Len(path)
      BY <1>0, <2>1
    <3>3. Len(SubSeq(path, 1, Len(path) - 1)) = Len(path) - 1
      BY <3>1, <3>2, PrefixLength, Zenon
    <3> QED
      BY <2>1, <3>3, Zenon
  <2>3. Len(path') < Len(path)
    BY <1>0, <2>1, <2>2
  <2> QED
    BY <2>1, <2>3 DEF SearchAdvances
<1>5. CASE Finish
  BY <1>5 DEF Finish, SearchAdvances
<1> QED
  BY <1>1, <1>2, <1>3, <1>4, <1>5 DEF Next

\* Neither query can run for ever on any graph: every step takes the search
\* down a lexicographic measure that the finite graph bounds, or sorts one
\* more node.
THEOREM StepsAdvance == QuerySpec => EveryStepAdvances
<1>1. QueryInit => QueryInv
  BY SortInit DEF QueryInv, QueryInit, SameGraph
<1>2. TypeOK /\ QueryInv /\ [QueryNext]_queryVars =>
        [IF verdict = "none" THEN SearchAdvances
         ELSE /\ UNCHANGED search
              /\ result = "none"
              /\ Len(sorted') = Len(sorted) + 1 \/ result' # "none"]_queryVars
  <2> SUFFICES ASSUME TypeOK, QueryInv, QueryNext
               PROVE  IF verdict = "none" THEN SearchAdvances
                      ELSE /\ UNCHANGED search
                           /\ result = "none"
                           /\ Len(sorted') = Len(sorted) + 1 \/ result' # "none"
    OBVIOUS
  <2>1. CASE AskCycle
    BY <2>1, SearchStep DEF AskCycle
  <2>2. CASE AskOrder
    <3>1. verdict # "none" /\ UNCHANGED search /\ (Sort!PopFront \/ Sort!Return)
      BY <2>2 DEF AskOrder, Sort!Next
    <3>2. CASE Sort!PopFront
      <4>1. result = "none" /\ sorted' = Append(sorted, Head(queue))
        BY <3>2 DEF Sort!PopFront
      <4>2. sorted \in Seq(nodes)
        BY DEF QueryInv, SortInv, OrderInv
      <4>3. Len(sorted') = Len(sorted) + 1
        BY <4>1, <4>2
      <4> QED
        BY <3>1, <4>1, <4>3
    <3>3. CASE Sort!Return
      BY <3>1, <3>3 DEF Sort!Return
    <3> QED
      BY <3>1, <3>2, <3>3
  <2> QED
    BY <2>1, <2>2 DEF QueryNext
<1> QED
  BY <1>1, <1>2, QueryStep, AsksHasCycle, TypeCorrect, PTL DEF QuerySpec, EveryStepAdvances
=============================================================================
