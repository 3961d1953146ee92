----------------------------- MODULE IOKitWalk -----------------------------
(***************************************************************************)
(* The two walks over the IOKit registry on macOS:                         *)
(* read_iokit_utilization_pct (src/hardware/gpu.rs) and                    *)
(* read_smc_package_watts (src/hardware/power.rs).                         *)
(*                                                                         *)
(* A step is one foreign call and what the code does with its outcome up   *)
(* to the next one.  Any call may fail, on any service.  refs counts the   *)
(* references the code owns by the Create rule; what CFDictionaryGetValue  *)
(* returns is borrowed from the dictionary.  CString::new cannot fail on   *)
(* the literals it is given.                                               *)
(***************************************************************************)
EXTENDS Integers, FiniteSets

CONSTANTS
    MaxServices,    \* services that match one name
    NumKeys,        \* POWER_KEYS.len()
    RawReading      \* numbers that a property may hold, negative ones too

VARIABLES
    probe,      \* "gpu", "power", then "none" once both have returned
    at,         \* the next foreign call
    names,      \* service names still to be tried
    services,   \* services the iterator has still to hand out
    keys,       \* POWER_KEYS still to be tried on the service
    refs,       \* references owned
    found       \* the reading, a set with at most one element

walkVars == <<probe, at, names, services, keys, refs, found>>

Object == {"iterator", "service", "key", "props"}

\* A reference is taken, or given back.
Own(o)     == refs' = [refs EXCEPT ![o] = @ + 1]
Release(S) == refs' = [o \in Object |-> IF o \in S THEN refs[o] - 1 ELSE refs[o]]

\* IOServiceMatching and IOServiceGetMatchingServices, which consumes the
\* matching dictionary whether it succeeds or not.
MatchServices ==
    /\ at = "match"
    /\ names' = names - 1
    /\ \/ \* no dictionary, an error, or no iterator: the next name
          /\ at' = IF names > 1 THEN "match" ELSE "return"
          /\ UNCHANGED <<services, refs>>
       \/ /\ services' \in 0..MaxServices
          /\ Own("iterator")
          /\ at' = "next"
    /\ UNCHANGED <<probe, keys, found>>

\* IOIteratorNext
NextService ==
    /\ at = "next"
    /\ IF services = 0
       THEN at' = "endWalk" /\ UNCHANGED <<services, keys, refs>>
       ELSE /\ services' = services - 1
            /\ keys' = NumKeys
            /\ Own("service")
            /\ at' = "key"
    /\ UNCHANGED <<probe, names, found>>

\* power.rs: on to the next key, or the service is given back after the last.
\* More holds what is given back with it.
NextKey(More) ==
    /\ keys' = keys - 1
    /\ IF keys > 1 THEN at' = "key" /\ Release(More)
                   ELSE at' = "next" /\ Release(More \union {"service"})

\* CFStringCreateWithCString for the property's name
CreateKey ==
    /\ at = "key"
    /\ \/ Own("key") /\ at' = "property" /\ UNCHANGED keys
       \/ probe = "gpu" /\ Release({"service"}) /\ at' = "next" /\ UNCHANGED keys
       \/ probe = "power" /\ NextKey({})
    /\ UNCHANGED <<probe, names, services, found>>

\* Mutant: the service is kept while its properties are looked at.
CreatePropertyKeepsService ==
    /\ at = "property"
    /\ \/ /\ refs' = [refs EXCEPT !["key"] = @ - 1, !["props"] = @ + 1]
          /\ at' = "type"
          /\ UNCHANGED keys
       \/ probe = "gpu" /\ Release({"key"}) /\ at' = "next" /\ UNCHANGED keys
       \/ probe = "power" /\ NextKey({"key"})
    /\ UNCHANGED <<probe, names, services, found>>

\* IORegistryEntryCreateCFProperty; the key, and for the GPU the service,
\* are given back whatever it returns.
CreateProperty ==
    /\ at = "property"
    /\ \/ /\ refs' = [refs EXCEPT !["key"] = @ - 1, !["props"] = @ + 1,
                                  !["service"] = @ - (IF probe = "gpu" THEN 1 ELSE 0)]
          /\ at' = "type"
          /\ UNCHANGED keys
       \/ probe = "gpu" /\ Release({"key", "service"}) /\ at' = "next" /\ UNCHANGED keys
       \/ probe = "power" /\ NextKey({"key"})
    /\ UNCHANGED <<probe, names, services, found>>

\* CFGetTypeID: the GPU's property must be a dictionary, the power a number.
CheckType ==
    /\ at = "type"
    /\ \/ probe = "gpu" /\ at' = "utilKey" /\ UNCHANGED <<refs, keys>>
       \/ probe = "gpu" /\ Release({"props"}) /\ at' = "next" /\ UNCHANGED keys
       \/ probe = "power" /\ at' = "number" /\ UNCHANGED <<refs, keys>>
       \/ probe = "power" /\ NextKey({"props"})
    /\ UNCHANGED <<probe, names, services, found>>

\* gpu.rs: the name of the utilization entry
CreateUtilKey ==
    /\ at = "utilKey"
    /\ \/ Own("key") /\ at' = "value"
       \/ Release({"props"}) /\ at' = "next"
    /\ UNCHANGED <<probe, names, services, keys, found>>

\* gpu.rs: CFDictionaryGetValue, and that its answer is a number
GetValue ==
    /\ at = "value"
    /\ \/ Release({"key"}) /\ at' = "number"
       \/ Release({"key", "props"}) /\ at' = "next"
    /\ UNCHANGED <<probe, names, services, keys, found>>

\* A utilization is cut to 0..100, a power draw taken as it is.
Accepted(x) ==
    CASE probe = "power" -> x
      [] x < 0           -> 0
      [] x > 100         -> 100
      [] OTHER           -> x

\* CFNumberGetValue: the GPU takes any number, the power probe a finite one
\* that is not negative, and with it leaves the walk.
GetNumber ==
    /\ at = "number"
    /\ \/ \E x \in RawReading :
            /\ probe = "power" => x >= 0
            /\ found' = {Accepted(x)}
            /\ Release({"props"} \union (IF probe = "power" THEN {"service"} ELSE {}))
            /\ at' = "endWalk"
            /\ UNCHANGED keys
       \/ probe = "gpu" /\ Release({"props"}) /\ at' = "next" /\ UNCHANGED <<keys, found>>
       \/ probe = "power" /\ NextKey({"props"}) /\ UNCHANGED found
    /\ UNCHANGED <<probe, names, services>>

\* The iterator is given back; without a reading the next name is tried.
EndWalk ==
    /\ at = "endWalk"
    /\ Release({"iterator"})
    /\ services' = 0
    /\ keys' = 0
    /\ at' = IF found = {} /\ names > 0 THEN "match" ELSE "return"
    /\ UNCHANGED <<probe, names, found>>

\* detect_gpu returns and detect_power is called, then it returns; nothing
\* in the kernel keeps their results.
ProbeReturns ==
    /\ at = "return"
    /\ IF probe = "gpu"
       THEN probe' = "power" /\ at' = "match" /\ names' = 1
       ELSE probe' = "none" /\ at' = "done" /\ names' = 0
    /\ found' = {}
    /\ UNCHANGED <<services, keys, refs>>

\* AGXAccelerator and IOAccelerator are tried for the GPU.
WalkInit ==
    /\ probe = "gpu" /\ at = "match" /\ names = 2
    /\ services = 0 /\ keys = 0
    /\ refs = [o \in Object |-> 0]
    /\ found = {}

WalkNext ==
    \/ MatchServices \/ NextService \/ CreateKey \/ CreateProperty \/ CheckType
    \/ CreateUtilKey \/ GetValue \/ GetNumber \/ EndWalk \/ ProbeReturns

-----------------------------------------------------------------------------

\* On every path through the foreign calls, whichever of them fail: a
\* reference is owned once and given back once, the value that is read is
\* borrowed from a dictionary or owned itself, services are asked only while
\* they are owned, and a probe that returns owns nothing.
HandlesReleasedOnce ==
    /\ \A o \in Object : refs[o] \in {0, 1}
    /\ at \in {"type", "utilKey", "value", "number"} => refs["props"] = 1
    /\ at \in {"key", "property"} => refs["service"] = 1
    /\ at \in {"next", "endWalk"} => refs["iterator"] = 1 /\ refs["service"] = 0
    /\ at \in {"match", "return", "done"} => \A o \in Object : refs[o] = 0
=============================================================================
