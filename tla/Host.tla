-------------------------------- MODULE Host --------------------------------
(***************************************************************************)
(* The machine that agents run on: the probes of src/hardware, the         *)
(* scheduler of src/scheduler and the agents of src/agent, composed the    *)
(* way the end-to-end tests do it: probe, detect, ask the admission        *)
(* controller, allocate, execute, release.                                 *)
(*                                                                         *)
(* The GPU and power probes run first (nothing schedules by them yet).     *)
(* Then every agent goes its own way; they share the allocator and the     *)
(* cache of probe_system.  The machine's readings change at any time.      *)
(* Outputs, exit codes and durations are left out.                         *)
(***************************************************************************)
EXTENDS Sensors, IOKitWalk

CONSTANTS
    Agent,
    Kind,           \* of each agent: "shell" or "cli"
    Cpu, Memory,    \* ResourceRequirements of each kind
    MaxAgentsLimit, \* AdmissionController.max_agents_hard_limit
    CacheTicks,     \* CACHE_DURATION
    Reading,        \* per platform, what the machine may report
    CpuUnit         \* millicores of one CPU

\* Requirements and limits are unsigned; so are the resources a machine
\* reports, and a sensor gives a number or nothing.
ASSUME HostAssumption ==
    /\ IsFiniteSet(Agent) /\ Kind \in [Agent -> {"shell", "cli"}]
    /\ Cpu \in [{"shell", "cli"} -> Nat] /\ Memory \in [{"shell", "cli"} -> Nat]
    /\ MaxAgentsLimit \in Nat /\ CacheTicks \in Nat /\ CpuUnit \in Nat
    /\ \A o \in DOMAIN Reading : \A r \in Reading[o] :
         /\ r.res.cpu \in Nat /\ r.res.total \in Nat
         /\ r.res.avail \in Nat /\ r.res.load \in Nat
         /\ IsOption(r.now.memorystatus, Int) /\ IsOption(r.now.compressor, Nat)
         /\ IsOption(r.now.xcpm, Int)
         /\ UNION r.now.zones \subseteq Int /\ IsFiniteSet(UNION r.now.zones)

VARIABLES
    os,         \* the platform the kernel was built for
    reading,    \* what the sensors would say now
    cached,     \* CACHE: the resources last probed
    age,        \* how long ago, CacheTicks for expired or never
    allocated,  \* AllocatorState
    state,      \* AgentState of each agent
    pc,         \* where the caller of each agent is
    child,      \* the process of each agent: none, running, ended
    output      \* who holds its pipes: the prompt unread, a descendant alive;
                \* and whether one is alive that nobody waits for any more

hostVars  == <<os, reading, cached, age>>
agentVars == <<allocated, state, pc, child, output>>
vars      == <<walkVars, hostVars, agentVars>>

-----------------------------------------------------------------------------
(* Probing *)

\* probe_system: the cached resources for two seconds.
Probed == IF age < CacheTicks THEN cached ELSE reading.res

\* The cache after a call of probe_system.
Probe ==
    /\ cached' = Probed
    /\ age' = IF age < CacheTicks THEN age ELSE 0

\* detect_pressure(&probe_system())
Pressure == PressureLevel(os, Probed, reading.now)

\* Time passes.
Tick ==
    /\ age < CacheTicks
    /\ age' = age + 1
    /\ UNCHANGED <<walkVars, os, reading, cached, agentVars>>

\* The load on the machine changes.
Change ==
    /\ at = "done"
    /\ reading' \in Reading[os] \ {reading}
    /\ UNCHANGED <<walkVars, os, cached, age, agentVars>>

-----------------------------------------------------------------------------
(* AdmissionController and ResourceAllocator *)

\* can_schedule, given what is left of the CPUs and the memory.
CanSchedule(k) ==
    /\ Pressure # 2
    /\ Probed.cpu * CpuUnit >= Cpu[k]
    /\ Probed.avail >= Memory[k]
    /\ allocated.agents < MaxAgentsLimit

\* available_slots
AvailableSlots(k) ==
    IF Pressure = 2 THEN 0
    ELSE Min({SaturatingSub(MaxAgentsLimit, allocated.agents)}
             \union (IF Cpu[k] > 0 THEN {(Probed.cpu * CpuUnit) \div Cpu[k]} ELSE {})
             \union (IF Memory[k] > 0 THEN {Probed.avail \div Memory[k]} ELSE {}))

\* The caller probes and asks; refused, it may ask again later.
Ask(a) ==
    /\ at = "done" /\ pc[a] = "idle"
    /\ Probe
    /\ pc' = [pc EXCEPT ![a] = IF CanSchedule(Kind[a]) THEN "admitted" ELSE "idle"]
    /\ UNCHANGED <<walkVars, os, reading, allocated, state, child, output>>

\* allocate
Allocate(a) ==
    /\ pc[a] = "admitted"
    /\ allocated' = [cpu    |-> allocated.cpu + Cpu[Kind[a]],
                     memory |-> allocated.memory + Memory[Kind[a]],
                     agents |-> allocated.agents + 1]
    /\ pc' = [pc EXCEPT ![a] = "allocated"]
    /\ UNCHANGED <<walkVars, hostVars, state, child, output>>

\* release, and the agent's state is reset.
Deallocate(a) ==
    /\ pc[a] = "returned"
    /\ allocated' = [cpu    |-> SaturatingSub(allocated.cpu, Cpu[Kind[a]]),
                     memory |-> SaturatingSub(allocated.memory, Memory[Kind[a]]),
                     agents |-> SaturatingSub(allocated.agents, 1)]
    /\ state' = [state EXCEPT ![a] = "Idle"]
    /\ pc' = [pc EXCEPT ![a] = "idle"]
    /\ UNCHANGED <<walkVars, hostVars, child, output>>

-----------------------------------------------------------------------------
(* ShellAgent::execute and ClaudeCliAgent::execute *)

\* transition_to_done and transition_to_failed: only from Busy.
Ends(a, s) ==
    /\ state[a] = "Busy"
    /\ state' = [state EXCEPT ![a] = s]
    /\ pc' = [pc EXCEPT ![a] = "returned"]

\* transition_to_busy, and the child is spawned.  A shell is awaited with
\* the timeout running; the CLI is written its prompt first.  held says
\* whether the prompt is too long for the pipe.
Spawn(a) ==
    /\ pc[a] = "allocated"
    /\ state[a] = "Idle"
    /\ state' = [state EXCEPT ![a] = "Busy"]
    /\ pc' = [pc EXCEPT ![a] = IF Kind[a] = "cli" THEN "writing" ELSE "waiting"]
    /\ child' = [child EXCEPT ![a] = "running"]
    /\ \E held \in IF Kind[a] = "cli" THEN BOOLEAN ELSE {FALSE} :
         output' = [output EXCEPT ![a].prompt = held]
    /\ UNCHANGED <<walkVars, hostVars, allocated>>

\* The program cannot be spawned: execute returns an unsuccessful result.
SpawnFails(a) ==
    /\ pc[a] = "allocated"
    /\ state[a] = "Idle"
    /\ state' = [state EXCEPT ![a] = "Failed"]
    /\ pc' = [pc EXCEPT ![a] = "returned"]
    /\ UNCHANGED <<walkVars, hostVars, allocated, child, output>>

\* The pipe to the child has no reader left: the write fails, which the
\* code ignores.
NoReader(a) == child[a] # "running" /\ ~output[a].descendant

\* The prompt is written and stdin closed.
PromptWritten(a) ==
    /\ pc[a] = "writing"
    /\ ~output[a].prompt \/ NoReader(a)
    /\ pc' = [pc EXCEPT ![a] = "waiting"]
    /\ UNCHANGED <<walkVars, hostVars, allocated, state, child, output>>

\* The child has ended and nobody holds its pipes any more: the result is
\* that of its exit code.
Finished(a, s) ==
    /\ pc[a] = "waiting"
    /\ NoReader(a)
    /\ child' = [child EXCEPT ![a] = "none"]
    /\ Ends(a, s)
    /\ UNCHANGED <<walkVars, hostVars, allocated, output>>

\* The future that reads the child's pipes is dropped: a descendant goes on
\* without anybody waiting for it.
DropPipes(a) ==
    output' = [output EXCEPT ![a].descendant = FALSE,
                             ![a].orphan = @ \/ output[a].descendant]

\* Mutant: the child outlives the future that waits for it.
TimesOutWithoutKill(a) ==
    /\ pc[a] = "waiting"
    /\ DropPipes(a)
    /\ Ends(a, "Failed")
    /\ UNCHANGED <<walkVars, hostVars, allocated, child>>

\* Mutant: only a child that still runs is timed out.
TimesOutRunning(a) ==
    /\ pc[a] = "waiting" /\ child[a] = "running"
    /\ child' = [child EXCEPT ![a] = "none"]
    /\ DropPipes(a)
    /\ Ends(a, "Failed")
    /\ UNCHANGED <<walkVars, hostVars, allocated>>

\* The timeout elapses: the future is dropped, and kill_on_drop kills the
\* child, not its descendants.
TimesOut(a) ==
    /\ pc[a] = "waiting"
    /\ child' = [child EXCEPT ![a] = "none"]
    /\ DropPipes(a)
    /\ Ends(a, "Failed")
    /\ UNCHANGED <<walkVars, hostVars, allocated>>

\* What the child does, in any order or never: read the prompt, start a
\* process that keeps its pipes open, end; and that process ends.
ChildReads(a) ==
    /\ child[a] = "running" /\ output[a].prompt
    /\ output' = [output EXCEPT ![a].prompt = FALSE]
    /\ UNCHANGED <<walkVars, hostVars, allocated, state, pc, child>>

ChildForks(a) ==
    /\ child[a] = "running" /\ ~output[a].descendant
    /\ output' = [output EXCEPT ![a].descendant = TRUE]
    /\ UNCHANGED <<walkVars, hostVars, allocated, state, pc, child>>

ChildEnds(a) ==
    /\ child[a] = "running"
    /\ child' = [child EXCEPT ![a] = "ended"]
    /\ UNCHANGED <<walkVars, hostVars, allocated, state, pc, output>>

DescendantEnds(a) ==
    /\ output[a].descendant
    /\ output' = [output EXCEPT ![a].descendant = FALSE]
    /\ UNCHANGED <<walkVars, hostVars, allocated, state, pc, child>>

OrphanEnds(a) ==
    /\ output[a].orphan
    /\ output' = [output EXCEPT ![a].orphan = FALSE]
    /\ UNCHANGED <<walkVars, hostVars, allocated, state, pc, child>>

-----------------------------------------------------------------------------

\* Nothing probed, nothing allocated, every agent Idle.
Init ==
    /\ WalkInit
    /\ os \in DOMAIN Reading
    /\ reading \in Reading[os]
    /\ cached = reading.res
    /\ age = CacheTicks
    /\ allocated = [cpu |-> 0, memory |-> 0, agents |-> 0]
    /\ state = [a \in Agent |-> "Idle"]
    /\ pc = [a \in Agent |-> "idle"]
    /\ child = [a \in Agent |-> "none"]
    /\ output = [a \in Agent |-> [prompt |-> FALSE, descendant |-> FALSE, orphan |-> FALSE]]

Walk == WalkNext /\ UNCHANGED <<hostVars, agentVars>>

\* What the code does for an agent once it was admitted.
Run(a) ==
    \/ Allocate(a) \/ Spawn(a) \/ SpawnFails(a) \/ PromptWritten(a)
    \/ Finished(a, "Done") \/ Finished(a, "Failed") \/ TimesOut(a)
    \/ Deallocate(a)

ChildStep(a) ==
    ChildReads(a) \/ ChildForks(a) \/ ChildEnds(a) \/ DescendantEnds(a) \/ OrphanEnds(a)

Next ==
    \/ Walk \/ Tick \/ Change
    \/ \E a \in Agent : Ask(a) \/ Run(a) \/ ChildStep(a)

Spec == Init /\ [][Next]_vars

\* The runtime goes on polling and its timers fire.  Children owe nothing:
\* they may run, and leave their input unread, for ever.
FairSpec == Spec /\ WF_walkVars(Walk) /\ \A a \in Agent : WF_vars(Run(a))

-----------------------------------------------------------------------------
(* Properties *)

\* Agents between allocate and release, all and those of one kind.
Holders == {a \in Agent : pc[a] \in {"allocated", "writing", "waiting", "returned"}}
HoldersOf(k) == {a \in Holders : Kind[a] = k}

\* What the holders require, where need says what one of each kind does.
Needed(need) == Cardinality(HoldersOf("shell")) * need["shell"]
              + Cardinality(HoldersOf("cli")) * need["cli"]

\* The allocator's counters are those of the agents in between allocate and
\* release (no saturating_sub ever hides a miscount); the child process, and
\* a descendant that holds its pipes, run only for such an agent that is
\* Busy, so nothing that execute waits for runs uncharged (what a timeout
\* leaves behind, an orphan, does); and the two questions to the admission
\* controller have one answer.
AllocatorSound ==
    /\ allocated.agents = Cardinality(Holders)
    /\ allocated.cpu = Needed(Cpu) /\ allocated.memory = Needed(Memory)
    /\ \A a \in Agent : child[a] = "running" \/ output[a].descendant =>
         a \in Holders /\ state[a] = "Busy"
    /\ \A a \in Agent : CanSchedule(Kind[a]) <=> AvailableSlots(Kind[a]) > 0

\* The capacity that a caller would be told now.
Advice(k) ==
    MaxAgentsThermal(Probed, Pressure, ThermalLevel(os, Probed, reading.now), Memory[k])

\* Of two readings of one sensor the second is no lower.
NoLower(o1, o2) == (o1 = {} <=> o2 = {}) /\ \A x \in o1, y \in o2 : x <= y

\* The second readings say nothing better, with the same sensors alive.
NoBetter(res1, now1, res2, now2) ==
    /\ res2.cpu <= res1.cpu /\ res2.total = res1.total /\ res2.avail <= res1.avail
    /\ res2.load >= res1.load
    /\ KernelLevel(now2.memorystatus) >= KernelLevel(now1.memorystatus)
    /\ UnwrapOr(now2.compressor, 0) >= UnwrapOr(now1.compressor, 0)
    /\ NoLower(now1.xcpm, now2.xcpm)
    /\ NoLower(MaxZone(now1.zones), MaxZone(now2.zones))

\* "Thermal pressure can only ever lower the recommendation", and so for
\* memory and load: through cache, bands, headroom and rounding, readings
\* that got no better never raise the recommended number of agents.
WorseReadingsNeverRaise ==
    [][\A k \in DOMAIN Memory :
          NoBetter(Probed, reading.now, Probed', reading'.now) =>
              Advice(k)' <= Advice(k)]_vars

\* The prompt fills the pipe of a child that runs and does not read it.
PromptStuck(a) == pc[a] = "writing" /\ output[a].prompt /\ ~NoReader(a)

\* execute returns, whatever the child does: also when it hangs, and when a
\* process it left behind keeps its output open.  The one exception is a
\* prompt that is never read, which is written before the timeout starts.
ExecuteReturns ==
    \A a \in Agent :
        (state[a] = "Busy") ~> (pc[a] = "returned" \/ [](PromptStuck(a)))
=============================================================================
