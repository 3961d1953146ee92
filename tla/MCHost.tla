------------------------------- MODULE MCHost -------------------------------
(* One shell and one CLI agent with room for one; readings at the cut-offs. *)
EXTENDS Host

MCAgent  == {"a1", "a2"}
MCKind   == [a1 |-> "shell", a2 |-> "cli"]
MCCpu    == [shell |-> 1, cli |-> 2]
MCMemory == [shell |-> 1, cli |-> 3]

Quiet == [memorystatus |-> {}, compressor |-> {}, xcpm |-> {}, zones |-> {}]

Res(cpu, avail, load) == [cpu |-> cpu, total |-> 20, avail |-> avail, load |-> load]

MacReading == {
    [res |-> Res(2, 12, 0),   now |-> [Quiet EXCEPT !.memorystatus = {4}, !.xcpm = {-1}, !.compressor = {6}]],
    [res |-> Res(2, 12, 0),   now |-> [Quiet EXCEPT !.memorystatus = {2}, !.xcpm = {30}, !.compressor = {6}]],
    [res |-> Res(2, 9, 140),  now |-> [Quiet EXCEPT !.memorystatus = {4}, !.xcpm = {31}, !.compressor = {7}]],
    [res |-> Res(2, 8, 200),  now |-> [Quiet EXCEPT !.memorystatus = {1}, !.xcpm = {61}, !.compressor = {10}]],
    [res |-> Res(2, 8, 200),  now |-> [Quiet EXCEPT !.compressor = {11}]]}

LinuxReading == {
    [res |-> Res(2, 12, 0),   now |-> [Quiet EXCEPT !.zones = {{-1}, {}}]],
    [res |-> Res(2, 9, 139),  now |-> [Quiet EXCEPT !.zones = {{20}, {60}}]],
    [res |-> Res(2, 8, 200),  now |-> [Quiet EXCEPT !.zones = {{94}}]],
    [res |-> Res(2, 4, 300),  now |-> [Quiet EXCEPT !.zones = {{20}, {95}}]],
    [res |-> Res(2, 3, 299),  now |-> [Quiet EXCEPT !.zones = {{}}]]}

OtherReading == {
    [res |-> Res(2, 12, 139), now |-> Quiet],
    [res |-> Res(2, 9, 140),  now |-> Quiet],
    [res |-> Res(2, 8, 200),  now |-> Quiet],
    [res |-> Res(2, 8, 300),  now |-> Quiet],
    [res |-> Res(0, 20, 0),   now |-> Quiet]}

MCReading == [macos |-> MacReading, linux |-> LinuxReading, other |-> OtherReading]

MCRawReading == {-1, 0, 150}

\* A CLI agent alone on a quiet machine.
MCCliAgent   == {"a2"}
MCCliKind    == [a2 |-> "cli"]
MCCliReading == [other |-> {[res |-> Res(2, 12, 0), now |-> Quiet]}]
=============================================================================
