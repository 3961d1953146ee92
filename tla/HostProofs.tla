----------------------------- MODULE HostProofs -----------------------------
(***************************************************************************)
(* Probes, scheduler and agents for any machine, any number of agents and  *)
(* any requirements.  The walks over the IOKit registry, the allocator and *)
(* the recommendation meet in no variable, so each has an invariant of its *)
(* own: WalkInv, AgentInv and ReadingInv.  That execute returns is checked *)
(* by TLC only.                                                            *)
(***************************************************************************)
EXTENDS Host, FiniteSetTheorems, WellFoundedInduction, TLAPS

-----------------------------------------------------------------------------
(* The walks over the IOKit registry *)

\* The references that the code owns before each foreign call.
Owned ==
    CASE at \in {"next", "endWalk"} -> {"iterator"}
      [] at = "key"                 -> {"iterator", "service"}
      [] at = "property"            -> {"iterator", "service", "key"}
      [] at \in {"type", "number"}  ->
           {"iterator", "props"} \union (IF probe = "power" THEN {"service"} ELSE {})
      [] at = "utilKey"             -> {"iterator", "props"}
      [] at = "value"               -> {"iterator", "props", "key"}
      [] OTHER                      -> {}

WalkLabels == {"match", "next", "key", "property", "type", "utilKey", "value", "number",
               "endWalk", "return", "done"}

\* The code owns one reference to each of those and no other.
WalkInv ==
    /\ probe \in {"gpu", "power", "none"} /\ at \in WalkLabels
    /\ at # "done" => probe # "none"
    /\ at \in {"utilKey", "value"} => probe = "gpu"
    /\ refs = [o \in Object |-> IF o \in Owned THEN 1 ELSE 0]

\* Each foreign call, whether it fails or not, takes and gives back what
\* leads from the references owned before it to those owned after it.
LEMMA WalkStep == WalkInv /\ (WalkNext \/ UNCHANGED walkVars) => WalkInv'
<1> SUFFICES ASSUME WalkInv, WalkNext \/ UNCHANGED walkVars PROVE WalkInv'
  OBVIOUS
<1> USE DEF WalkInv, Owned, WalkLabels, Object
<1>1. CASE MatchServices
  BY <1>1 DEF MatchServices, Own
<1>2. CASE NextService
  BY <1>2 DEF NextService, Own
<1>3. CASE CreateKey
  BY <1>3 DEF CreateKey, NextKey, Own, Release
<1>4. CASE CreateProperty
  BY <1>4 DEF CreateProperty, NextKey, Release
<1>5. CASE CheckType
  BY <1>5 DEF CheckType, NextKey, Release
<1>6. CASE CreateUtilKey
  BY <1>6 DEF CreateUtilKey, Own, Release
<1>7. CASE GetValue
  BY <1>7 DEF GetValue, Release
<1>8. CASE GetNumber
  BY <1>8 DEF GetNumber, NextKey, Release
<1>9. CASE EndWalk
  BY <1>9 DEF EndWalk, Release
<1>10. CASE ProbeReturns
  BY <1>10 DEF ProbeReturns
<1>11. CASE UNCHANGED walkVars
  BY <1>11 DEF walkVars
<1> QED
  BY <1>1, <1>2, <1>3, <1>4, <1>5, <1>6, <1>7, <1>8, <1>9, <1>10, <1>11 DEF WalkNext

\* Owning just those references is what HandlesReleasedOnce asks for.
LEMMA OwnedOnce == WalkInv => HandlesReleasedOnce
  BY DEF WalkInv, Owned, WalkLabels, HandlesReleasedOnce, Object

\* Whichever foreign calls fail, on any number of services and keys, every
\* reference is owned once, given back once and owned while it is used.
THEOREM HandlesHold == Spec => []HandlesReleasedOnce
<1>1. Init => WalkInv
  BY DEF Init, WalkInit, WalkInv, Owned, WalkLabels, Object
<1>2. WalkInv /\ [Next]_vars => WalkInv'
  <2> SUFFICES ASSUME WalkInv, [Next]_vars PROVE WalkInv'
    OBVIOUS
  <2>1. WalkNext \/ UNCHANGED walkVars
    BY DEF Next, Walk, Tick, Change, Ask, Run, ChildStep, Allocate, Deallocate, Spawn,
           SpawnFails, PromptWritten, Finished, TimesOut, ChildReads, ChildForks, ChildEnds,
           DescendantEnds, OrphanEnds, vars
  <2> QED
    BY <2>1, WalkStep
<1> QED
  BY <1>1, <1>2, OwnedOnce, PTL DEF Spec
-----------------------------------------------------------------------------
(* Numbers and small sets *)

\* The least of three numbers.
LEMMA LeastOfThree ==
    ASSUME NEW a \in Nat, NEW b \in Nat, NEW c \in Nat
    PROVE  LET m == Min({a, b, c}) IN m \in {a, b, c} /\ m <= a /\ m <= b /\ m <= c
<1>1. \E x \in {a, b, c} : \A y \in {a, b, c} : x <= y
  OBVIOUS
<1> QED
  BY <1>1 DEF Min

\* A nonempty set of naturals has a least element.
LEMMA LeastNat ==
    ASSUME NEW S \in SUBSET Nat, S # {}
    PROVE  \E n \in S : \A m \in S : ~(m < n)
<1> DEFINE R == {ss \in Nat \X Nat : ss[1] < ss[2]}
<1>1. IsWellFoundedOn(R, Nat)
  BY NatLessThanWellFounded DEF OpToRel
<1> HIDE DEF R
<1>2. PICK n \in S : \A m \in S : ~(<<m, n>> \in R)
  BY <1>1, WFMin
<1> QED
  BY <1>2 DEF R

\* The cardinality of small sets of numbers.
LEMMA SmallSets ==
    ASSUME NEW x \in Int, NEW y \in Int, NEW z \in Int, x < y, y < z
    PROVE  /\ Cardinality({}) = 0 /\ Cardinality({x}) = 1
           /\ Cardinality({x, y}) = 2 /\ Cardinality({x, y, z}) = 3
<1>1. Cardinality({}) = 0 /\ IsFiniteSet({x}) /\ Cardinality({x}) = 1
  BY FS_EmptySet, FS_Singleton
<1>2. IsFiniteSet({x} \union {y}) /\ Cardinality({x} \union {y}) = Cardinality({x}) + 1
  <2>1. y \notin {x}
    OBVIOUS
  <2> QED
    BY <1>1, <2>1, FS_AddElement
<1>3. {x, y} = {x} \union {y} /\ {x, y, z} = {x, y} \union {z}
  OBVIOUS
<1>4. IsFiniteSet({x, y}) /\ Cardinality({x, y}) = Cardinality({x}) + 1
  BY <1>2, <1>3, Zenon
<1>5. Cardinality({x, y} \union {z}) = Cardinality({x, y}) + 1
  <2>1. z \notin {x, y}
    OBVIOUS
  <2> QED
    BY <1>4, <2>1, FS_AddElement
<1>6. Cardinality({x, y, z}) = Cardinality({x, y}) + 1
  BY <1>3, <1>5, Zenon
<1> QED
  BY <1>1, <1>4, <1>6

-----------------------------------------------------------------------------
(* The allocator *)

\* The agents of a kind, and how many they are.
OfKind(S, k) == {a \in S : Kind[a] = k}
KindCount(S, k) == Cardinality(OfKind(S, k))

\* Needed, for any set of agents.
Need(S, need) == KindCount(S, "shell") * need["shell"] + KindCount(S, "cli") * need["cli"]

\* One agent more is one more of its kind, and needs what its kind needs.
LEMMA OneMore ==
    ASSUME NEW S \in SUBSET Agent, NEW a \in Agent \ S,
           NEW need \in [{"shell", "cli"} -> Nat]
    PROVE  /\ Cardinality(S) \in Nat /\ Cardinality(S \union {a}) = Cardinality(S) + 1
           /\ Need(S, need) \in Nat
           /\ Need(S \union {a}, need) = Need(S, need) + need[Kind[a]]
<1>1. IsFiniteSet(S) /\ \A k \in {"shell", "cli"} : IsFiniteSet(OfKind(S, k))
  <2>1. IsFiniteSet(S)
    BY HostAssumption, FS_Subset
  <2>2. ASSUME NEW k \in {"shell", "cli"} PROVE IsFiniteSet(OfKind(S, k))
    <3>1. OfKind(S, k) \subseteq S
      BY DEF OfKind
    <3> QED
      BY <2>1, <3>1, FS_Subset
  <2> QED
    BY <2>1, <2>2
<1>2. /\ Cardinality(S) \in Nat /\ Cardinality(S \union {a}) = Cardinality(S) + 1
      /\ \A k \in {"shell", "cli"} : KindCount(S, k) \in Nat
  <2>1. Cardinality(S \union {a}) = Cardinality(S) + 1
    BY <1>1, FS_AddElement
  <2> QED
    BY <1>1, <2>1, FS_CardinalityType DEF KindCount
<1>3. ASSUME NEW k \in {"shell", "cli"}
      PROVE  /\ k = Kind[a] => KindCount(S \union {a}, k) = KindCount(S, k) + 1
             /\ k # Kind[a] => KindCount(S \union {a}, k) = KindCount(S, k)
  <2>1. CASE k = Kind[a]
    <3>1. OfKind(S \union {a}, k) = OfKind(S, k) \union {a} /\ a \notin OfKind(S, k)
      BY <2>1 DEF OfKind
    <3>2. Cardinality(OfKind(S, k) \union {a}) = Cardinality(OfKind(S, k)) + 1
      BY <1>1, <3>1, FS_AddElement
    <3> QED
      BY <2>1, <3>1, <3>2 DEF KindCount
  <2>2. CASE k # Kind[a]
    <3>1. OfKind(S \union {a}, k) = OfKind(S, k)
      BY <2>2 DEF OfKind
    <3> QED
      BY <2>2, <3>1 DEF KindCount
  <2> QED
    BY <2>1, <2>2
<1>4. \A m, n, x, y \in Nat : /\ m * x + n * y \in Nat
                              /\ (m + 1) * x + n * y = m * x + n * y + x
                              /\ m * x + (n + 1) * y = m * x + n * y + y
  <2>1. \A m, x \in Nat : m * x \in Nat /\ (m + 1) * x = m * x + x
    OBVIOUS
  <2> QED
    BY <2>1
<1>5. /\ KindCount(S, "shell") \in Nat /\ KindCount(S, "cli") \in Nat
      /\ need["shell"] \in Nat /\ need["cli"] \in Nat /\ Kind[a] \in {"shell", "cli"}
  BY <1>2, HostAssumption
<1>6. Need(S, need) \in Nat
  BY <1>4, <1>5 DEF Need
<1>7. CASE Kind[a] = "shell"
  <2>1. /\ KindCount(S \union {a}, "shell") = KindCount(S, "shell") + 1
        /\ KindCount(S \union {a}, "cli") = KindCount(S, "cli")
    BY <1>3, <1>5, <1>7
  <2> QED
    BY <1>2, <1>4, <1>5, <1>6, <1>7, <2>1 DEF Need
<1>8. CASE Kind[a] = "cli"
  <2>1. /\ KindCount(S \union {a}, "cli") = KindCount(S, "cli") + 1
        /\ KindCount(S \union {a}, "shell") = KindCount(S, "shell")
    BY <1>3, <1>5, <1>8
  <2> QED
    BY <1>2, <1>4, <1>5, <1>6, <1>8, <2>1 DEF Need
<1> QED
  BY <1>5, <1>7, <1>8

\* What the allocator holds for the agents of S.
Charged(S) == [cpu |-> Need(S, Cpu), memory |-> Need(S, Memory), agents |-> Cardinality(S)]

AgentLabels == {"idle", "admitted", "allocated", "writing", "waiting", "returned"}

Outputs == [prompt : BOOLEAN, descendant : BOOLEAN, orphan : BOOLEAN]

\* A child and who holds its pipes live only while its agent is written to
\* or waited for, and the agent is Busy then; the counters are what the
\* holders need.
AgentInv ==
    /\ pc \in [Agent -> AgentLabels]
    /\ DOMAIN state = Agent /\ DOMAIN child = Agent
    /\ output \in [Agent -> Outputs]
    /\ \A a \in Agent : child[a] # "none" \/ output[a].descendant =>
         pc[a] \in {"writing", "waiting"}
    /\ \A a \in Agent : pc[a] \in {"writing", "waiting"} => state[a] = "Busy"
    /\ allocated = Charged(Holders)

\* What setting a field of one agent's output does.
LEMMA SetField ==
    ASSUME output \in [Agent -> Outputs], NEW a \in Agent, NEW v \in BOOLEAN
    PROVE  /\ [output EXCEPT ![a].prompt = v] \in [Agent -> Outputs]
           /\ \A b \in Agent :
                [output EXCEPT ![a].prompt = v][b].descendant = output[b].descendant
           /\ [output EXCEPT ![a].descendant = v] \in [Agent -> Outputs]
           /\ [output EXCEPT ![a].orphan = v] \in [Agent -> Outputs]
BY DEF Outputs

\* What DropPipes does.
LEMMA Dropped ==
    ASSUME output \in [Agent -> Outputs], NEW a \in Agent, NEW v \in BOOLEAN
    PROVE  LET out == [output EXCEPT ![a].descendant = FALSE, ![a].orphan = v]
           IN  /\ out \in [Agent -> Outputs] /\ ~out[a].descendant
               /\ \A b \in Agent \ {a} : out[b] = output[b]
BY DEF Outputs

\* The machine reports one of its readings, and the cache holds one.
ReadingInv ==
    /\ os \in DOMAIN Reading /\ reading \in Reading[os]
    /\ \E r \in Reading[os] : cached = r.res

\* Every step keeps them; allocate and release are the steps that matter.
LEMMA AgentStep == AgentInv /\ [Next]_vars => AgentInv'
<1> SUFFICES ASSUME AgentInv, [Next]_vars PROVE AgentInv'
  OBVIOUS
<1> DEFINE holding == {"allocated", "writing", "waiting", "returned"}
<1>0. Holders \in SUBSET Agent
  BY DEF Holders
<1>1. ASSUME NEW a \in Agent, Allocate(a) PROVE AgentInv'
  <2>1. Holders' = Holders \union {a} /\ a \notin Holders
    BY <1>1 DEF Allocate, AgentInv, Holders
  <2>2. /\ allocated.cpu = Need(Holders, Cpu) /\ allocated.memory = Need(Holders, Memory)
        /\ allocated.agents = Cardinality(Holders)
    BY DEF AgentInv, Charged
  <2>3. /\ Need(Holders \union {a}, Cpu) = allocated.cpu + Cpu[Kind[a]]
        /\ Need(Holders \union {a}, Memory) = allocated.memory + Memory[Kind[a]]
        /\ Cardinality(Holders \union {a}) = allocated.agents + 1
    BY <1>0, <2>1, <2>2, OneMore, HostAssumption
  <2>4. allocated' = Charged(Holders \union {a})
    BY <1>1, <2>3 DEF Allocate, Charged
  <2>5. allocated' = Charged(Holders)'
    BY <2>1, <2>4 DEF Charged, Need, KindCount, OfKind
  <2> QED
    BY <1>1, <2>5 DEF Allocate, AgentInv, AgentLabels
<1>2. ASSUME NEW a \in Agent, Deallocate(a) PROVE AgentInv'
  <2> DEFINE rest == Holders \ {a}
  <2>1. Holders' = rest /\ Holders = rest \union {a} /\ a \in Agent \ rest
        /\ rest \in SUBSET Agent
    BY <1>0, <1>2 DEF Deallocate, AgentInv, Holders, AgentLabels
  <2>2. /\ allocated.cpu = Need(Holders, Cpu) /\ allocated.memory = Need(Holders, Memory)
        /\ allocated.agents = Cardinality(Holders)
    BY DEF AgentInv, Charged
  <2> HIDE DEF rest
  <2>3. /\ allocated.cpu = Need(rest, Cpu) + Cpu[Kind[a]]
        /\ allocated.memory = Need(rest, Memory) + Memory[Kind[a]]
        /\ allocated.agents = Cardinality(rest) + 1
        /\ Need(rest, Cpu) \in Nat /\ Need(rest, Memory) \in Nat /\ Cardinality(rest) \in Nat
        /\ Cpu[Kind[a]] \in Nat /\ Memory[Kind[a]] \in Nat
    BY <2>1, <2>2, OneMore, HostAssumption
  <2>4. \A x, y, z \in Nat : z = x + y => SaturatingSub(z, y) = x
    BY DEF SaturatingSub
  <2>5. allocated' = Charged(rest)
    <3>1. /\ SaturatingSub(allocated.cpu, Cpu[Kind[a]]) = Need(rest, Cpu)
          /\ SaturatingSub(allocated.memory, Memory[Kind[a]]) = Need(rest, Memory)
          /\ SaturatingSub(allocated.agents, 1) = Cardinality(rest)
      <4>1. allocated.cpu \in Nat /\ allocated.memory \in Nat /\ allocated.agents \in Nat
        BY <2>3
      <4> QED
        BY <2>3, <2>4, <4>1
    <3> QED
      BY <1>2, <3>1 DEF Deallocate, Charged
  <2>6. allocated' = Charged(Holders)'
    BY <2>1, <2>5 DEF Charged, Need, KindCount, OfKind
  <2> QED
    BY <1>2, <2>6 DEF Deallocate, AgentInv, AgentLabels
<1>3. ASSUME UNCHANGED allocated, Holders' = Holders PROVE allocated' = Charged(Holders)'
  BY <1>3 DEF AgentInv, Charged, Need, KindCount
<1>4. ASSUME NEW a \in Agent,
             Ask(a) \/ Spawn(a) \/ SpawnFails(a) \/ PromptWritten(a) \/ TimesOut(a)
             \/ Finished(a, "Done") \/ Finished(a, "Failed")
      PROVE  AgentInv'
  <2>1. UNCHANGED allocated /\ \E l \in AgentLabels :
            pc' = [pc EXCEPT ![a] = l] /\ (l \in holding <=> pc[a] \in holding)
    BY <1>4 DEF Ask, Spawn, SpawnFails, PromptWritten, TimesOut, Finished, Ends, AgentLabels,
                AgentInv
  <2>2. Holders' = Holders
    BY <2>1 DEF Holders, AgentInv
  <2>3. allocated' = Charged(Holders)'
    BY <1>3, <2>1, <2>2
  <2>4. pc' \in [Agent -> AgentLabels]
    BY <2>1 DEF AgentInv
  <2>5. DOMAIN state' = Agent /\ DOMAIN child' = Agent
    BY <1>4 DEF Ask, Spawn, SpawnFails, PromptWritten, TimesOut, Finished, Ends, AgentInv
  <2>6. ASSUME NEW b \in Agent
        PROVE  /\ child'[b] # "none" => pc'[b] \in {"writing", "waiting"}
               /\ pc'[b] \in {"writing", "waiting"} => state'[b] = "Busy"
    BY <1>4 DEF Ask, Spawn, SpawnFails, PromptWritten, TimesOut, Finished, Ends, AgentInv
  <2>7. /\ output' \in [Agent -> Outputs]
        /\ \A b \in Agent : output'[b].descendant => pc'[b] \in {"writing", "waiting"}
    <3>1. output \in [Agent -> Outputs]
      BY DEF AgentInv
    <3>2. CASE Spawn(a)
      <4>1. PICK held \in BOOLEAN : output' = [output EXCEPT ![a].prompt = held]
        BY <3>2 DEF Spawn
      <4>2. output' \in [Agent -> Outputs]
            /\ \A b \in Agent : output'[b].descendant = output[b].descendant
        BY <3>1, <4>1, SetField
      <4> QED
        BY <3>2, <4>2 DEF Spawn, AgentInv
    <3>3. CASE TimesOut(a)
      <4>1. PICK gone \in BOOLEAN :
              output' = [output EXCEPT ![a].descendant = FALSE, ![a].orphan = gone]
        <5>1. output' = [output EXCEPT ![a].descendant = FALSE,
                                       ![a].orphan = output[a].orphan \/ output[a].descendant]
          BY <3>1, <3>3 DEF TimesOut, DropPipes, Outputs
        <5>2. (output[a].orphan \/ output[a].descendant) \in BOOLEAN
          OBVIOUS
        <5> QED
          BY <5>1, <5>2
      <4>2. output' \in [Agent -> Outputs] /\ ~output'[a].descendant
            /\ \A b \in Agent \ {a} : output'[b] = output[b]
        BY <3>1, <4>1, Dropped
      <4> QED
        BY <3>3, <4>2 DEF TimesOut, Ends, AgentInv
    <3>4. CASE UNCHANGED output /\ ~Spawn(a) /\ ~TimesOut(a)
      BY <1>4, <3>4 DEF Ask, SpawnFails, PromptWritten, Finished, NoReader, Ends, AgentInv
    <3> QED
      BY <1>4, <3>2, <3>3, <3>4 DEF Ask, SpawnFails, PromptWritten, Finished
  <2> QED
    BY <2>3, <2>4, <2>5, <2>6, <2>7 DEF AgentInv
<1>5. CASE UNCHANGED <<allocated, state, pc>> /\
           (UNCHANGED <<child, output>> \/ \E a \in Agent : ChildStep(a))
  <2>1. Holders' = Holders
    BY <1>5 DEF Holders
  <2>2. allocated' = Charged(Holders)'
    BY <1>3, <1>5, <2>1
  <2>3. CASE UNCHANGED <<child, output>>
    BY <1>5, <2>2, <2>3 DEF AgentInv
  <2>4. ASSUME NEW a \in Agent, ChildStep(a) PROVE AgentInv'
    <3>1. output' \in [Agent -> Outputs]
      <4>1. output \in [Agent -> Outputs]
        BY DEF AgentInv
      <4>2. \/ UNCHANGED output
            \/ \E v \in BOOLEAN : \/ output' = [output EXCEPT ![a].prompt = v]
                                  \/ output' = [output EXCEPT ![a].descendant = v]
                                  \/ output' = [output EXCEPT ![a].orphan = v]
        BY <2>4 DEF ChildStep, ChildReads, ChildForks, ChildEnds, DescendantEnds, OrphanEnds
      <4>3. CASE UNCHANGED output
        BY <4>1, <4>3
      <4>4. ASSUME NEW v \in BOOLEAN, output' = [output EXCEPT ![a].prompt = v]
            PROVE  output' \in [Agent -> Outputs]
        BY <4>1, <4>4, SetField
      <4>5. ASSUME NEW v \in BOOLEAN, output' = [output EXCEPT ![a].descendant = v]
            PROVE  output' \in [Agent -> Outputs]
        BY <4>1, <4>5, SetField
      <4>6. ASSUME NEW v \in BOOLEAN, output' = [output EXCEPT ![a].orphan = v]
            PROVE  output' \in [Agent -> Outputs]
        BY <4>1, <4>6, SetField
      <4> QED
        BY <4>2, <4>3, <4>4, <4>5, <4>6
    <3>2. DOMAIN child' = Agent /\ \A b \in Agent : child'[b] # "none" => child[b] # "none"
      BY <2>4 DEF ChildStep, ChildReads, ChildForks, ChildEnds, DescendantEnds, OrphanEnds,
                  AgentInv
    <3>3. ASSUME NEW b \in Agent, output'[b].descendant
          PROVE  output[b].descendant \/ child[b] # "none"
      BY <2>4, <3>3 DEF ChildStep, ChildReads, ChildForks, ChildEnds, DescendantEnds,
                        OrphanEnds, AgentInv, Outputs
    <3> QED
      BY <1>5, <2>2, <3>1, <3>2, <3>3 DEF AgentInv
  <2> QED
    BY <1>5, <2>3, <2>4
<1>6. ASSUME NEW a \in Agent, ChildStep(a)
      PROVE  UNCHANGED <<allocated, state, pc>>
  BY <1>6 DEF ChildStep, ChildReads, ChildForks, ChildEnds, DescendantEnds, OrphanEnds
<1>7. CASE Walk \/ Tick \/ Change \/ UNCHANGED vars
  BY <1>5, <1>7 DEF Walk, Tick, Change, vars, agentVars
<1> QED
  BY <1>1, <1>2, <1>4, <1>5, <1>6, <1>7 DEF Next, Run

\* probe_system caches what the machine reports.
LEMMA ReadingStep == ReadingInv /\ [Next]_vars => ReadingInv'
<1> SUFFICES ASSUME ReadingInv, [Next]_vars PROVE ReadingInv'
  OBVIOUS
<1>1. ASSUME NEW a \in Agent, Ask(a) PROVE ReadingInv'
  BY <1>1 DEF Ask, Probe, Probed, ReadingInv
<1>2. CASE Change
  BY <1>2 DEF Change, ReadingInv
<1>3. CASE UNCHANGED <<os, reading, cached>>
  BY <1>3 DEF ReadingInv
<1>4. ASSUME NEW a \in Agent, Run(a) \/ ChildStep(a) PROVE UNCHANGED <<os, reading, cached>>
  BY <1>4 DEF Run, ChildStep, Allocate, Deallocate, Spawn, SpawnFails, PromptWritten, Finished,
              TimesOut, ChildReads, ChildForks, ChildEnds, DescendantEnds, OrphanEnds,
              hostVars
<1>5. Walk \/ Tick \/ UNCHANGED vars => UNCHANGED <<os, reading, cached>>
  BY DEF Walk, Tick, vars, hostVars
<1> QED
  BY <1>1, <1>2, <1>3, <1>4, <1>5 DEF Next

\* The limits of which available_slots takes the least.
Limits(l, cpu, mem, c, m) ==
    {l} \union (IF c > 0 THEN {cpu \div c} ELSE {}) \union (IF m > 0 THEN {mem \div m} ELSE {})

\* The least of them is positive exactly when each of them is.
LEMMA SlotsLeft ==
    ASSUME NEW l \in Nat, NEW cpu \in Nat, NEW mem \in Nat, NEW c \in Nat, NEW m \in Nat
    PROVE  Min(Limits(l, cpu, mem, c, m)) > 0 <=> l > 0 /\ cpu >= c /\ mem >= m
<1>1. \A x, d \in Nat : d > 0 => x \div d \in Nat /\ (x \div d > 0 <=> x >= d)
  OBVIOUS
<1> DEFINE x == IF c > 0 THEN cpu \div c ELSE l
           y == IF m > 0 THEN mem \div m ELSE l
<1>2. Limits(l, cpu, mem, c, m) = {l, x, y}
  BY DEF Limits
<1>3. x \in Nat /\ y \in Nat
  BY <1>1
<1>4. l > 0 /\ x > 0 /\ y > 0 <=> l > 0 /\ cpu >= c /\ mem >= m
  BY <1>1
<1> HIDE DEF x, y
<1>5. Min({l, x, y}) \in {l, x, y} /\ Min({l, x, y}) <= l
      /\ Min({l, x, y}) <= x /\ Min({l, x, y}) <= y
  BY <1>3, LeastOfThree
<1>6. Min({l, x, y}) > 0 <=> l > 0 /\ x > 0 /\ y > 0
  BY <1>3, <1>5
<1> QED
  BY <1>2, <1>4, <1>6

\* The two questions have one answer.
LEMMA OneAnswer ==
    ASSUME ReadingInv, NEW a \in Agent, allocated.agents \in Nat
    PROVE  CanSchedule(Kind[a]) <=> AvailableSlots(Kind[a]) > 0
<1> DEFINE k == Kind[a]
           l == SaturatingSub(MaxAgentsLimit, allocated.agents)
<1>1. Probed.cpu \in Nat /\ Probed.avail \in Nat
  BY HostAssumption DEF ReadingInv, Probed
<1>2. /\ Probed.cpu * CpuUnit \in Nat /\ Cpu[k] \in Nat /\ Memory[k] \in Nat
      /\ l \in Nat /\ (l > 0 <=> allocated.agents < MaxAgentsLimit)
  BY <1>1, HostAssumption DEF SaturatingSub
<1>3. CASE Pressure = 2
  BY <1>3 DEF CanSchedule, AvailableSlots
<1>4. CASE Pressure # 2
  <2>1. AvailableSlots(k) = Min(Limits(l, Probed.cpu * CpuUnit, Probed.avail, Cpu[k], Memory[k]))
    BY <1>4 DEF AvailableSlots, Limits
  <2> HIDE DEF k, l
  <2>2. \A x, cpu, mem, c, m \in Nat :
          Min(Limits(x, cpu, mem, c, m)) > 0 <=> x > 0 /\ cpu >= c /\ mem >= m
    BY SlotsLeft
  <2>3. AvailableSlots(k) > 0 <=>
          l > 0 /\ Probed.cpu * CpuUnit >= Cpu[k] /\ Probed.avail >= Memory[k]
    <3>1. Min(Limits(l, Probed.cpu * CpuUnit, Probed.avail, Cpu[k], Memory[k])) > 0 <=>
            l > 0 /\ Probed.cpu * CpuUnit >= Cpu[k] /\ Probed.avail >= Memory[k]
      BY <1>1, <1>2, <2>2, Zenon
    <3> QED
      BY <2>1, <3>1
  <2> QED
    BY <1>2, <1>4, <2>3 DEF CanSchedule, k
<1> QED
  BY <1>3, <1>4

\* For any agents, requirements, limits and machine, the allocator's counters
\* are exact, no child outlives its agent's allocation, and can_schedule
\* says yes exactly when available_slots has a place.
THEOREM AllocatorHolds == Spec => []AllocatorSound
<1>1. Init => AgentInv /\ ReadingInv
  <2> SUFFICES ASSUME Init PROVE AgentInv /\ ReadingInv
    OBVIOUS
  <2>1. Holders = {}
    BY DEF Init, Holders
  <2>2. Cardinality({}) = 0 /\ \A k : OfKind({}, k) = {}
    BY FS_EmptySet DEF OfKind
  <2>3. Charged({}) = [cpu |-> 0, memory |-> 0, agents |-> 0]
    <3>1. \A x, y \in Nat : 0 * x + 0 * y = 0
      OBVIOUS
    <3>2. \A need \in [{"shell", "cli"} -> Nat] : Need({}, need) = 0
      BY <2>2, <3>1 DEF Need, KindCount
    <3> QED
      BY <2>2, <3>2, HostAssumption DEF Charged
  <2> QED
    <3>1. output \in [Agent -> Outputs] /\ \A a \in Agent : ~output[a].descendant
      BY DEF Init, Outputs
    <3> QED
      BY <2>1, <2>3, <3>1 DEF Init, AgentInv, ReadingInv, AgentLabels
<1>2. AgentInv /\ ReadingInv => AllocatorSound
  <2> SUFFICES ASSUME AgentInv, ReadingInv PROVE AllocatorSound
    OBVIOUS
  <2>1. allocated = Charged(Holders)
    BY DEF AgentInv
  <2>2. allocated.agents = Cardinality(Holders) /\ allocated.agents \in Nat
    <3>1. IsFiniteSet(Holders)
      BY HostAssumption, FS_Subset DEF Holders
    <3> QED
      BY <2>1, <3>1, FS_CardinalityType DEF Charged
  <2>3. allocated.cpu = Needed(Cpu) /\ allocated.memory = Needed(Memory)
    BY <2>1 DEF Charged, Needed, Need, KindCount, OfKind, HoldersOf
  <2>4. \A a \in Agent : child[a] = "running" \/ output[a].descendant =>
          a \in Holders /\ state[a] = "Busy"
    BY DEF AgentInv, Holders
  <2> QED
    BY <2>2, <2>3, <2>4, OneAnswer DEF AllocatorSound
<1> QED
  BY <1>1, <1>2, AgentStep, ReadingStep, PTL DEF Spec

-----------------------------------------------------------------------------
(* The recommendation *)

\* The level of a reading with two cut-offs, and below with
LEMMA TwoBands ==
    ASSUME NEW x \in Int, NEW c1 \in Int, NEW c2 \in Int, c1 < c2
    PROVE  Band(x, {c1, c2}) = IF x >= c2 THEN 2 ELSE IF x >= c1 THEN 1 ELSE 0
<1> DEFINE S == {c \in {c1, c2} : x >= c}
<1>1. S = IF x >= c2 THEN {c1, c2} ELSE IF x >= c1 THEN {c1} ELSE {}
  OBVIOUS
<1>2. Cardinality({c1, c2}) = 2 /\ Cardinality({c1}) = 1 /\ Cardinality({}) = 0
  <2>1. c2 < c2 + 1 /\ c2 + 1 \in Int
    OBVIOUS
  <2> QED
    BY <2>1, SmallSets
<1> QED
  BY <1>1, <1>2 DEF Band

\* ... three.
LEMMA ThreeBands ==
    ASSUME NEW x \in Int, NEW c1 \in Int, NEW c2 \in Int, NEW c3 \in Int, c1 < c2, c2 < c3
    PROVE  Band(x, {c1, c2, c3}) =
               IF x >= c3 THEN 3 ELSE IF x >= c2 THEN 2 ELSE IF x >= c1 THEN 1 ELSE 0
<1> DEFINE S == {c \in {c1, c2, c3} : x >= c}
<1>1. S = IF x >= c3 THEN {c1, c2, c3} ELSE IF x >= c2 THEN {c1, c2}
          ELSE IF x >= c1 THEN {c1} ELSE {}
  OBVIOUS
<1>2. /\ Cardinality({c1, c2, c3}) = 3
      /\ Cardinality({c1, c2}) = 2 /\ Cardinality({c1}) = 1 /\ Cardinality({}) = 0
  BY SmallSets
<1> QED
  BY <1>1, <1>2 DEF Band

\* Integer division keeps an order ...
LEMMA DivMono ==
    ASSUME NEW x \in Nat, NEW y \in Nat, NEW d \in Nat, d > 0, x <= y
    PROVE  x \div d \in Nat /\ y \div d \in Nat /\ x \div d <= y \div d
  OBVIOUS

\* ... and so does the cut to four, three, two or one quarters.
LEMMA Scaled ==
    ASSUME NEW m1 \in Nat, NEW m2 \in Nat, NEW t1 \in 0..3, NEW t2 \in 0..3, m2 <= m1, t1 <= t2
    PROVE  (m2 * (4 - t2)) \div 4 <= (m1 * (4 - t1)) \div 4
<1>1. t1 \in {0, 1, 2, 3} /\ t2 \in {0, 1, 2, 3}
  OBVIOUS
<1> QED
  BY <1>1

\* Types of what a machine may report.
Readable(res, now) ==
    /\ res.cpu \in Nat /\ res.total \in Nat /\ res.avail \in Nat /\ res.load \in Nat
    /\ IsOption(now.memorystatus, Int) /\ IsOption(now.compressor, Nat)
    /\ IsOption(now.xcpm, Int)
    /\ UNION now.zones \subseteq Int /\ IsFiniteSet(UNION now.zones)

\* A nonempty finite set of numbers has a largest one: the one that the
\* fewest others exceed.
LEMMA LargestExists ==
    ASSUME NEW S \in SUBSET Int, IsFiniteSet(S), S # {}
    PROVE  Max(S) \in S
<1> DEFINE above(x) == {y \in S : y > x}
           counts == {Cardinality(above(x)) : x \in S}
<1>1. ASSUME NEW x \in S PROVE IsFiniteSet(above(x)) /\ Cardinality(above(x)) \in Nat
  <2>1. above(x) \subseteq S
    OBVIOUS
  <2> QED
    BY <2>1, FS_Subset, FS_CardinalityType
<1> HIDE DEF above
<1>2. counts # {} /\ counts \in SUBSET Nat
  BY <1>1
<1>3. PICK x \in S : \A y \in S : ~(Cardinality(above(y)) < Cardinality(above(x)))
  <2>1. \E n \in counts : \A m \in counts : ~(m < n)
    <3> HIDE DEF counts
    <3> QED
      BY <1>2, LeastNat
  <2> QED
    BY <2>1
<1>4. ASSUME NEW y \in S PROVE y <= x
  <2>0. x \in Int /\ y \in Int /\ \A z \in S : z \in Int
    OBVIOUS
  <2> SUFFICES ASSUME y > x PROVE FALSE
    BY <2>0
  <2>1. above(y) \subseteq above(x) /\ y \in above(x) /\ y \notin above(y)
    <3>1. ASSUME NEW z \in above(y) PROVE z \in above(x)
      BY <2>0 DEF above
    <3>2. y \in above(x)
      BY <2>0 DEF above
    <3>3. y \notin above(y)
      BY <2>0 DEF above
    <3> QED
      BY <3>1, <3>2, <3>3
  <2>2. Cardinality(above(y)) <= Cardinality(above(x))
        /\ (Cardinality(above(y)) = Cardinality(above(x)) => above(y) = above(x))
    BY <1>1, <2>1, FS_Subset
  <2> QED
    BY <1>1, <1>3, <2>1, <2>2
<1>5. \E m \in S : \A y \in S : m >= y
  BY <1>4
<1> QED
  BY <1>5 DEF Max

\* What an Option holds.
LEMMA OptionValue ==
    ASSUME NEW S, NEW o, IsOption(o, S)
    PROVE  /\ o = {} \/ \E x \in S : o = {x}
           /\ \A d : o = {} => UnwrapOr(o, d) = d
           /\ \A d : \A x \in o : UnwrapOr(o, d) = x
<1>1. CASE o = {}
  BY <1>1 DEF UnwrapOr
<1>2. CASE o # {}
  <2>1. PICK x \in S : o = {x}
    BY <1>2 DEF IsOption
  <2>2. (CHOOSE y \in o : TRUE) = x
    BY <2>1
  <2> QED
    BY <2>1, <2>2 DEF UnwrapOr
<1> QED
  BY <1>1, <1>2

\* The hottest zone is a number, or there is none.
LEMMA ZoneType ==
    ASSUME NEW zones, UNION zones \subseteq Int, IsFiniteSet(UNION zones)
    PROVE  IsOption(MaxZone(zones), Int)
<1> DEFINE valid == UNION zones
<1>1. valid \in SUBSET Int /\ IsFiniteSet(valid)
  OBVIOUS
<1>2. valid # {} => Max(valid) \in valid
  <2> HIDE DEF valid
  <2> QED
    BY <1>1, LargestExists
<1>3. MaxZone(zones) = IF valid = {} THEN {} ELSE {Max(valid)}
  BY DEF MaxZone
<1> HIDE DEF valid
<1> QED
  BY <1>1, <1>2, <1>3 DEF IsOption

\* Nothing that got worse lowers the memory pressure ...
LEMMA PressureRises ==
    ASSUME NEW o, NEW res1, NEW now1, NEW res2, NEW now2, Readable(res1, now1),
           Readable(res2, now2), NoBetter(res1, now1, res2, now2)
    PROVE  /\ PressureLevel(o, res1, now1) \in 0..2 /\ PressureLevel(o, res2, now2) \in 0..2
           /\ PressureLevel(o, res1, now1) <= PressureLevel(o, res2, now2)
<1>1. ASSUME NEW t \in Nat, NEW a1 \in Nat, NEW a2 \in Nat, a2 <= a1
      PROVE  /\ RatioLevel(t, a1) \in 0..2 /\ RatioLevel(t, a2) \in 0..2
             /\ RatioLevel(t, a1) <= RatioLevel(t, a2)
  <2>1. CASE t = 0
    BY <2>1 DEF RatioLevel
  <2>2. CASE t # 0
    <3>1. ASSUME NEW a \in Nat
          PROVE  LET used == IF t > a THEN t - a ELSE 0
                 IN  RatioLevel(t, a) = IF 100 * used >= 85 * t THEN 2
                                        ELSE IF 100 * used >= 60 * t THEN 1 ELSE 0
      <4> DEFINE used == IF t > a THEN t - a ELSE 0
      <4>1. 100 * used \in Int /\ 60 * t \in Int /\ 85 * t \in Int /\ 60 * t < 85 * t
        BY <2>2
      <4>2. Band(100 * used, {60 * t, 85 * t}) =
              IF 100 * used >= 85 * t THEN 2 ELSE IF 100 * used >= 60 * t THEN 1 ELSE 0
        BY <4>1, TwoBands
      <4> QED
        BY <2>2, <4>2 DEF RatioLevel, SaturatingSub
    <3> QED
      BY <1>1, <2>2, <3>1
  <2> QED
    BY <2>1, <2>2
<1>2. ASSUME NEW t \in Nat, NEW c1 \in Nat, NEW c2 \in Nat, c1 <= c2
      PROVE  /\ CompressorLevel(t, c1) \in 0..2 /\ CompressorLevel(t, c2) \in 0..2
             /\ CompressorLevel(t, c1) <= CompressorLevel(t, c2)
  <2>1. CASE t = 0
    BY <2>1 DEF CompressorLevel
  <2>2. CASE t # 0
    <3>1. ASSUME NEW c \in Nat
          PROVE  CompressorLevel(t, c) = IF 100 * c > 50 * t THEN 2
                                         ELSE IF 100 * c > 30 * t THEN 1 ELSE 0
      <4>1. {x \in {30, 50} : 100 * c > x * t} =
              IF 100 * c > 50 * t THEN {30, 50} ELSE IF 100 * c > 30 * t THEN {30} ELSE {}
        BY <2>2
      <4>2. Cardinality({}) = 0 /\ Cardinality({30}) = 1 /\ Cardinality({30, 50}) = 2
        <5>1. \A x, y, z \in Int : x < y /\ y < z =>
                Cardinality({}) = 0 /\ Cardinality({x}) = 1 /\ Cardinality({x, y}) = 2
          BY SmallSets
        <5>2. 30 \in Int /\ 50 \in Int /\ 51 \in Int /\ 30 < 50 /\ 50 < 51
          OBVIOUS
        <5> QED
          BY <5>1, <5>2
      <4> QED
        BY <2>2, <4>1, <4>2 DEF CompressorLevel
    <3> QED
      BY <1>2, <2>2, <3>1
  <2> QED
    BY <2>1, <2>2
<1>3. /\ KernelLevel(now1.memorystatus) \in 0..2 /\ KernelLevel(now2.memorystatus) \in 0..2
      /\ KernelLevel(now2.memorystatus) >= KernelLevel(now1.memorystatus)
  BY DEF KernelLevel, NoBetter
<1> DEFINE k1 == KernelLevel(now1.memorystatus)
           k2 == KernelLevel(now2.memorystatus)
           t == res1.total
           c1 == CompressorLevel(t, UnwrapOr(now1.compressor, 0))
           c2 == CompressorLevel(t, UnwrapOr(now2.compressor, 0))
<1>4. res2.total = t /\ t \in Nat /\ res2.avail <= res1.avail
      /\ res1.avail \in Nat /\ res2.avail \in Nat
  BY DEF NoBetter, Readable
<1>5. c1 \in 0..2 /\ c2 \in 0..2 /\ c1 <= c2
  <2>1. ASSUME NEW o1, IsOption(o1, Nat) PROVE UnwrapOr(o1, 0) \in Nat
    BY <2>1, OptionValue
  <2>2. /\ UnwrapOr(now1.compressor, 0) \in Nat /\ UnwrapOr(now2.compressor, 0) \in Nat
        /\ UnwrapOr(now1.compressor, 0) <= UnwrapOr(now2.compressor, 0)
    BY <2>1 DEF NoBetter, Readable
  <2> QED
    BY <1>2, <1>4, <2>2
<1> HIDE DEF k1, k2, c1, c2
<1>6. CASE o = "macos"
  <2>1. PressureLevel(o, res1, now1) = Worse(k1, c1) /\ PressureLevel(o, res2, now2) = Worse(k2, c2)
    BY <1>4, <1>6 DEF PressureLevel, k1, k2, c1, c2
  <2>2. k1 \in 0..2 /\ k2 \in 0..2 /\ k1 <= k2
    BY <1>3 DEF k1, k2
  <2> QED
    BY <1>5, <2>1, <2>2 DEF Worse
<1>7. CASE o # "macos"
  <2>1. /\ PressureLevel(o, res1, now1) = RatioLevel(t, res1.avail)
        /\ PressureLevel(o, res2, now2) = RatioLevel(t, res2.avail)
    BY <1>4, <1>7 DEF PressureLevel
  <2> QED
    BY <1>1, <1>4, <2>1
<1> QED
  BY <1>6, <1>7

\* ... nor the thermal level, unless no CPU is left.
LEMMA ThermalRises ==
    ASSUME NEW o, NEW res1, NEW now1, NEW res2, NEW now2, Readable(res1, now1),
           Readable(res2, now2), NoBetter(res1, now1, res2, now2)
    PROVE  /\ ThermalLevel(o, res1, now1) \in 0..3 /\ ThermalLevel(o, res2, now2) \in 0..3
           /\ res2.cpu # 0 => ThermalLevel(o, res1, now1) <= ThermalLevel(o, res2, now2)
<1>1. ASSUME NEW x \in Int, NEW y \in Int, x <= y
      PROVE  /\ XcpmLevel(x) \in 0..3 /\ XcpmLevel(y) \in 0..3 /\ XcpmLevel(x) <= XcpmLevel(y)
             /\ CelsiusLevel(x) \in 0..3 /\ CelsiusLevel(y) \in 0..3
             /\ CelsiusLevel(x) <= CelsiusLevel(y)
  <2>1. ASSUME NEW z \in Int
        PROVE  /\ XcpmLevel(z) = IF z >= 61 THEN 3 ELSE IF z >= 31 THEN 2
                                 ELSE IF z >= 1 THEN 1 ELSE 0
               /\ CelsiusLevel(z) = IF z >= 95 THEN 3 ELSE IF z >= 80 THEN 2
                                    ELSE IF z >= 60 THEN 1 ELSE 0
    BY ThreeBands, 1 < 31, 31 < 61, 60 < 80, 80 < 95 DEF XcpmLevel, CelsiusLevel
  <2> QED
    BY <1>1, <2>1
<1>2. ASSUME NEW res, res.cpu \in Nat, res.load \in Nat
      PROVE  LoadLevel(res) = IF res.cpu = 0 THEN 0
                              ELSE IF res.load >= 150 * res.cpu THEN 3
                              ELSE IF res.load >= 100 * res.cpu THEN 2
                              ELSE IF res.load >= 70 * res.cpu THEN 1 ELSE 0
  <2>1. ASSUME NEW n \in Nat, NEW l \in Nat, n # 0
        PROVE  Band(l, {70 * n, 100 * n, 150 * n}) =
                 IF l >= 150 * n THEN 3 ELSE IF l >= 100 * n THEN 2
                 ELSE IF l >= 70 * n THEN 1 ELSE 0
    <3>1. /\ 70 * n \in Int /\ 100 * n \in Int /\ 150 * n \in Int
          /\ 70 * n < 100 * n /\ 100 * n < 150 * n
      BY <2>1
    <3> QED
      BY <3>1, ThreeBands
  <2> QED
    BY <1>2, <2>1 DEF LoadLevel
<1>3. /\ LoadLevel(res1) \in 0..3 /\ LoadLevel(res2) \in 0..3
      /\ res2.cpu # 0 => LoadLevel(res1) <= LoadLevel(res2)
  <2>1. /\ res1.cpu \in Nat /\ res1.load \in Nat /\ res2.cpu \in Nat /\ res2.load \in Nat
        /\ res2.cpu <= res1.cpu /\ res2.load >= res1.load
    BY DEF Readable, NoBetter
  <2> QED
    BY <1>2, <2>1
<1>4. ASSUME NEW o1, NEW o2, IsOption(o1, Int), IsOption(o2, Int), NoLower(o1, o2)
      PROVE  \/ o1 = {} /\ o2 = {}
             \/ \E x, y \in Int : o1 = {x} /\ o2 = {y} /\ x <= y
  <2>1. CASE o1 # {} /\ o2 # {}
    <3>1. PICK x \in Int : o1 = {x}
      BY <1>4, <2>1, OptionValue
    <3>2. PICK y \in Int : o2 = {y}
      BY <1>4, <2>1, OptionValue
    <3> QED
      BY <1>4, <3>1, <3>2 DEF NoLower
  <2> QED
    BY <1>4, <2>1 DEF NoLower
<1>8. \A d, v : UnwrapOr({v}, d) = v /\ UnwrapOr({}, d) = d
  BY DEF UnwrapOr
<1>5. CASE o = "macos"
  <2>1. \A x, y \in Int : x <= y =>
          XcpmLevel(x) \in 0..3 /\ XcpmLevel(y) \in 0..3 /\ XcpmLevel(x) <= XcpmLevel(y)
    BY <1>1
  <2>2. IsOption(now1.xcpm, Int) /\ IsOption(now2.xcpm, Int) /\ NoLower(now1.xcpm, now2.xcpm)
    BY DEF NoBetter, Readable
  <2>3. /\ ThermalLevel(o, res1, now1) = UnwrapOr({XcpmLevel(x) : x \in now1.xcpm}, LoadLevel(res1))
        /\ ThermalLevel(o, res2, now2) = UnwrapOr({XcpmLevel(x) : x \in now2.xcpm}, LoadLevel(res2))
    BY <1>5 DEF ThermalLevel
  <2>4. CASE now1.xcpm = {} /\ now2.xcpm = {}
    BY <1>3, <1>8, <2>3, <2>4
  <2>5. ASSUME NEW x \in Int, NEW y \in Int, now1.xcpm = {x}, now2.xcpm = {y}, x <= y
        PROVE  /\ ThermalLevel(o, res1, now1) = XcpmLevel(x)
               /\ ThermalLevel(o, res2, now2) = XcpmLevel(y)
    <3>1. {XcpmLevel(v) : v \in now1.xcpm} = {XcpmLevel(x)}
          /\ {XcpmLevel(v) : v \in now2.xcpm} = {XcpmLevel(y)}
      BY <2>5
    <3> QED
      BY <1>8, <2>3, <3>1
  <2> QED
    BY <1>4, <2>1, <2>2, <2>4, <2>5
<1>6. CASE o = "linux"
  <2> DEFINE z1 == MaxZone(now1.zones)
             z2 == MaxZone(now2.zones)
  <2>1. \A x, y \in Int : x <= y =>
          CelsiusLevel(x) \in 0..3 /\ CelsiusLevel(y) \in 0..3 /\ CelsiusLevel(x) <= CelsiusLevel(y)
    BY <1>1
  <2>2. IsOption(z1, Int) /\ IsOption(z2, Int) /\ NoLower(z1, z2)
    BY ZoneType DEF NoBetter, Readable
  <2>3. /\ ThermalLevel(o, res1, now1) = UnwrapOr({CelsiusLevel(x) : x \in z1}, LoadLevel(res1))
        /\ ThermalLevel(o, res2, now2) = UnwrapOr({CelsiusLevel(x) : x \in z2}, LoadLevel(res2))
    BY <1>6 DEF ThermalLevel
  <2> HIDE DEF z1, z2
  <2>4. CASE z1 = {} /\ z2 = {}
    BY <1>3, <1>8, <2>3, <2>4
  <2>5. ASSUME NEW x \in Int, NEW y \in Int, z1 = {x}, z2 = {y}, x <= y
        PROVE  /\ ThermalLevel(o, res1, now1) = CelsiusLevel(x)
               /\ ThermalLevel(o, res2, now2) = CelsiusLevel(y)
    <3>1. {CelsiusLevel(v) : v \in z1} = {CelsiusLevel(x)}
          /\ {CelsiusLevel(v) : v \in z2} = {CelsiusLevel(y)}
      BY <2>5
    <3> QED
      BY <1>8, <2>3, <3>1
  <2> QED
    BY <1>4, <2>1, <2>2, <2>4, <2>5
<1>7. CASE o # "macos" /\ o # "linux"
  <2>1. /\ ThermalLevel(o, res1, now1) = LoadLevel(res1)
        /\ ThermalLevel(o, res2, now2) = LoadLevel(res2)
    BY <1>7 DEF ThermalLevel, UnwrapOr
  <2> QED
    BY <1>3, <2>1
<1> QED
  BY <1>5, <1>6, <1>7

\* The capacity before the thermal cut, for one pressure and a higher one.
LEMMA CapacityFalls ==
    ASSUME NEW res1, NEW res2, res1.cpu \in Nat, res2.cpu \in Nat, res2.cpu <= res1.cpu,
           res1.avail \in Nat, res2.avail \in Nat, res2.avail <= res1.avail,
           NEW p1 \in 0..2, NEW p2 \in 0..2, p1 <= p2, NEW ram \in Nat
    PROVE  /\ MaxAgents(res1, p1, ram) \in Nat /\ MaxAgents(res2, p2, ram) \in Nat
           /\ MaxAgents(res2, p2, ram) <= MaxAgents(res1, p1, ram)
           /\ res2.cpu = 0 => MaxAgents(res2, p2, ram) = 0
<1> DEFINE free1 == SaturatingSub(res1.avail, Headroom(p1))
           free2 == SaturatingSub(res2.avail, Headroom(p2))
<1>1. Headroom(p1) \in Nat /\ Headroom(p2) \in Nat /\ Headroom(p1) <= Headroom(p2)
  <2>1. p1 \in {0, 1, 2} /\ p2 \in {0, 1, 2}
    OBVIOUS
  <2> QED
    BY <2>1, SensorsAssumption DEF Headroom
<1>2. free1 \in Nat /\ free2 \in Nat /\ free2 <= free1
  BY <1>1 DEF SaturatingSub
<1> HIDE DEF free1, free2
<1>3. ASSUME ram > 0
      PROVE  free1 \div ram \in Nat /\ free2 \div ram \in Nat /\ free2 \div ram <= free1 \div ram
  BY <1>2, <1>3, DivMono
<1> DEFINE a1 == 2 * res1.cpu
           a2 == 2 * res2.cpu
           b1 == IF ram > 0 THEN free1 \div ram ELSE a1
           b2 == IF ram > 0 THEN free2 \div ram ELSE a2
           h1 == IF HardLimit > 0 THEN HardLimit ELSE a1
           h2 == IF HardLimit > 0 THEN HardLimit ELSE a2
<1>4. a1 \in Nat /\ a2 \in Nat /\ a2 <= a1 /\ (res2.cpu = 0 => a2 = 0)
  OBVIOUS
<1>5. /\ b1 \in Nat /\ b2 \in Nat /\ b2 <= b1 /\ h1 \in Nat /\ h2 \in Nat /\ h2 <= h1
  BY <1>3, <1>4, SensorsAssumption
<1>6. MaxAgents(res1, p1, ram) = Min({a1, b1, h1}) /\ MaxAgents(res2, p2, ram) = Min({a2, b2, h2})
  <2>1. {a1, b1, h1} = {a1} \union (IF ram > 0 THEN {free1 \div ram} ELSE {})
                            \union (IF HardLimit > 0 THEN {HardLimit} ELSE {})
    OBVIOUS
  <2>2. {a2, b2, h2} = {a2} \union (IF ram > 0 THEN {free2 \div ram} ELSE {})
                            \union (IF HardLimit > 0 THEN {HardLimit} ELSE {})
    OBVIOUS
  <2> QED
    BY <2>1, <2>2 DEF MaxAgents, free1, free2
<1> HIDE DEF a1, a2, b1, b2, h1, h2
<1> DEFINE m1 == Min({a1, b1, h1})
           m2 == Min({a2, b2, h2})
<1>7. /\ m1 \in {a1, b1, h1} /\ m1 <= a1 /\ m1 <= b1 /\ m1 <= h1
      /\ m2 \in {a2, b2, h2} /\ m2 <= a2 /\ m2 <= b2 /\ m2 <= h2
  BY <1>4, <1>5, LeastOfThree
<1> HIDE DEF m1, m2
<1>8. m1 \in Nat /\ m2 \in Nat /\ m2 <= m1 /\ (res2.cpu = 0 => m2 = 0)
  BY <1>4, <1>5, <1>7
<1> QED
  BY <1>6, <1>8 DEF m1, m2

\* Readings that got no better never raise the recommendation, whatever
\* sensors the machine has and however the cache mixes old and new ones.
THEOREM AdviceHolds == Spec => WorseReadingsNeverRaise
<1> DEFINE Worsens == \A k \in DOMAIN Memory :
                         NoBetter(Probed, reading.now, Probed', reading'.now) =>
                             Advice(k)' <= Advice(k)
<1>1. Init => ReadingInv
  BY DEF Init, ReadingInv
<1>2. ReadingInv /\ ReadingInv' /\ [Next]_vars => Worsens
  <2> SUFFICES ASSUME ReadingInv, ReadingInv', [Next]_vars, NEW k \in DOMAIN Memory,
                      NoBetter(Probed, reading.now, Probed', reading'.now)
               PROVE  Advice(k)' <= Advice(k)
    OBVIOUS
  <2>1. os' = os
    BY DEF Next, Walk, Tick, Change, Ask, Run, ChildStep, Allocate, Deallocate, Spawn,
           SpawnFails, PromptWritten, Finished, TimesOut, ChildReads, ChildForks, ChildEnds,
           DescendantEnds, OrphanEnds, vars, hostVars
  <2>2. Readable(Probed, reading.now)
    BY HostAssumption DEF ReadingInv, Probed, Readable
  <2>3. Readable(Probed', reading'.now)
    BY HostAssumption DEF ReadingInv, Probed, Readable
  <2>4. PICK res1, now1, res2, now2, o :
           res1 = Probed /\ now1 = reading.now /\ res2 = Probed' /\ now2 = reading'.now /\ o = os
    OBVIOUS
  <2> DEFINE p1 == PressureLevel(o, res1, now1)
             p2 == PressureLevel(o, res2, now2)
             t1 == ThermalLevel(o, res1, now1)
             t2 == ThermalLevel(o, res2, now2)
             ram == Memory[k]
             m1 == MaxAgents(res1, p1, ram)
             m2 == MaxAgents(res2, p2, ram)
  <2>5. Readable(res1, now1) /\ Readable(res2, now2) /\ NoBetter(res1, now1, res2, now2)
    BY <2>2, <2>3, <2>4
  <2>6. Advice(k) = (m1 * (4 - t1)) \div 4 /\ Advice(k)' = (m2 * (4 - t2)) \div 4
    BY <2>1, <2>4 DEF Advice, MaxAgentsThermal, Pressure
  <2>7. p1 \in 0..2 /\ p2 \in 0..2 /\ p1 <= p2
    BY <2>5, PressureRises
  <2>8. t1 \in 0..3 /\ t2 \in 0..3 /\ (res2.cpu # 0 => t1 <= t2)
    BY <2>5, ThermalRises
  <2>9. ram \in Nat
    BY HostAssumption
  <2> HIDE DEF p1, p2, t1, t2, ram
  <2>10. m1 \in Nat /\ m2 \in Nat /\ m2 <= m1 /\ (res2.cpu = 0 => m2 = 0)
    <3>1. /\ res1.cpu \in Nat /\ res2.cpu \in Nat /\ res2.cpu <= res1.cpu
          /\ res1.avail \in Nat /\ res2.avail \in Nat /\ res2.avail <= res1.avail
      BY <2>5 DEF Readable, NoBetter
    <3> QED
      BY <2>7, <2>9, <3>1, CapacityFalls
  <2> HIDE DEF m1, m2
  <2>11. CASE res2.cpu # 0
    BY <2>6, <2>8, <2>10, <2>11, Scaled
  <2>12. CASE res2.cpu = 0
    <3>1. m2 * (4 - t2) = 0
      BY <2>8, <2>10, <2>12
    <3>2. m1 * (4 - t1) \in Nat
      BY <2>8, <2>10
    <3> QED
      BY <2>6, <3>1, <3>2
  <2> QED
    BY <2>11, <2>12
<1>3. Spec => [][Worsens]_vars
  BY <1>1, <1>2, ReadingStep, PTL DEF Spec
<1> QED
  BY <1>3 DEF WorseReadingsNeverRaise
=============================================================================
