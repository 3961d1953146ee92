------------------------------ MODULE Sensors ------------------------------
(***************************************************************************)
(* What the kernel makes of the machine's sensors: the pressure levels of  *)
(* src/hardware/{pressure,thermal}.rs and the capacity that                *)
(* src/scheduler/recommender.rs derives from them.                         *)
(*                                                                         *)
(* Levels are numbers, 0 the mildest (Normal, Nominal) and then in the     *)
(* order of the enums.  The floating-point ratios become comparisons of    *)
(* integer products, load is in hundredths of a core, temperatures are in  *)
(* degrees.  An Option is the set of the values it holds, none or one; the *)
(* texts that name the source of a level are left out.                     *)
(***************************************************************************)
EXTENDS Integers, FiniteSetsExt

CONSTANTS
    HeadroomBase,   \* Recommender.ram_headroom_base_mb
    HardLimit       \* Recommender.max_agents_hard_limit, 0 for none

ASSUME SensorsAssumption == HeadroomBase \in Nat /\ HardLimit \in Nat

\* An Option of a sensor that may give any of S, or nothing.
IsOption(o, S) == o \subseteq S /\ \A x, y \in o : x = y

\* unwrap_or
UnwrapOr(o, default) == IF o = {} THEN default ELSE CHOOSE x \in o : TRUE

SaturatingSub(x, y) == IF x > y THEN x - y ELSE 0

\* Bands: the level of x is the number of cut-offs it has reached.
Band(x, cuts) == Cardinality({c \in cuts : x >= c})

-----------------------------------------------------------------------------
(* Memory pressure *)

\* MemoryPressureLevel::worse
Worse(l1, l2) == IF l1 > l2 THEN l1 ELSE l2

\* detect_from_ratio: a machine without memory is under critical pressure.
RatioLevel(total, avail) ==
    LET used == SaturatingSub(total, avail) IN
    IF total = 0 THEN 2 ELSE Band(100 * used, {60 * total, 85 * total})

\* kern.memorystatus_level; an unknown or missing value is Normal.
KernelLevel(status) == CASE status = {1} -> 2 [] status = {2} -> 1 [] OTHER -> 0

\* The share of memory held by the compressor; unlike the ratio above the
\* cut-offs themselves are still in the milder band.
CompressorLevel(total, compressor) ==
    IF total = 0 THEN 0
    ELSE Cardinality({c \in {30, 50} : 100 * compressor > c * total})

\* detect_pressure(...).level
PressureLevel(os, res, now) ==
    IF os = "macos"
    THEN Worse(KernelLevel(now.memorystatus),
               CompressorLevel(res.total, UnwrapOr(now.compressor, 0)))
    ELSE RatioLevel(res.total, res.avail)

-----------------------------------------------------------------------------
(* Thermal pressure *)

\* classify_xcpm_level
XcpmLevel(raw) == Band(raw, {1, 31, 61})

\* classify_celsius
CelsiusLevel(celsius) == Band(celsius, {60, 80, 95})

\* max_zone_celsius: the hottest zone that can be read and parsed.
MaxZone(zones) ==
    LET valid == UNION zones IN
    IF valid = {} THEN {} ELSE {Max(valid)}

\* Mutant: the bands of the load ratio compare the other way round.
LoadLevelInverted(res) ==
    IF res.cpu = 0 THEN 0
    ELSE 3 - Band(res.load, {70 * res.cpu, 100 * res.cpu, 150 * res.cpu})

\* detect_from_load_ratio: no data is Nominal, "never throttle blindly".
LoadLevel(res) ==
    IF res.cpu = 0 THEN 0
    ELSE Band(res.load, {70 * res.cpu, 100 * res.cpu, 150 * res.cpu})

\* detect_thermal(...).level: the direct sensor, else the load ratio.
ThermalLevel(os, res, now) ==
    LET direct == CASE os = "macos" -> {XcpmLevel(raw) : raw \in now.xcpm}
                    [] os = "linux" -> {CelsiusLevel(c) : c \in MaxZone(now.zones)}
                    [] OTHER -> {}
    IN  UnwrapOr(direct, LoadLevel(res))

-----------------------------------------------------------------------------
(* Recommender *)

\* dynamic_headroom: 1, 1.75 and 2.5 times the base.
Headroom(pressure) ==
    (HeadroomBase * (CASE pressure = 0 -> 4 [] pressure = 1 -> 7 [] OTHER -> 10)) \div 4

\* recommend_max_agents: an agent that needs no memory is bound by the CPUs.
MaxAgents(res, pressure, ramPerAgent) ==
    LET cpuLimit == 2 * res.cpu
        ramLimit == SaturatingSub(res.avail, Headroom(pressure)) \div ramPerAgent
    IN  Min({cpuLimit}
            \union (IF ramPerAgent > 0 THEN {ramLimit} ELSE {})
            \union (IF HardLimit > 0 THEN {HardLimit} ELSE {}))

\* recommend_max_agents_thermal: 1, 0.75, 0.5 and 0.25 times that, rounded down.
MaxAgentsThermal(res, pressure, thermal, ramPerAgent) ==
    (MaxAgents(res, pressure, ramPerAgent) * (4 - thermal)) \div 4
=============================================================================
