------------------------------- MODULE Kernel -------------------------------
(***************************************************************************)
(* The kernel daemon: boot, signals and graceful shutdown of               *)
(* src/main.rs, the RpcServer it spawns (src/dispatch/server.rs), the      *)
(* clients of the server (src/dispatch/client.rs) and the handler that     *)
(* answers them (KernelHandler), with crashes and restarts of the daemon.  *)
(*                                                                         *)
(* A connection is a pair of byte streams.  The lines in them are numbered *)
(* by the requests: nobody looks at the ids, which a call dropped before   *)
(* its first byte takes without a line.  What a line asks for is chosen    *)
(* when it is parsed.                                                      *)
(***************************************************************************)
EXTENDS KernelHandler, Sequences

CONSTANTS
    BootOrder,       \* the processes in the order of boot_sequence
    ShutdownOrder,   \* shutdown_order of graceful_shutdown
    MaxCalls         \* bound: calls made in one behaviour

ASSUME KernelAssumption ==
    /\ BootOrder \in Seq(ProcessId) /\ BootOrder # <<>>
    /\ ShutdownOrder \in Seq(ProcessId) /\ ShutdownOrder # <<>>
    /\ MaxCalls \in Nat

VARIABLES
    main,        \* where run_daemon is: a label and a position in an order
    signalled,   \* the watch channel: SIGINT or SIGTERM was received
    server,      \* the task that runs serve()
    rx,          \* its broadcast receiver: "none", "empty" or "shutdown"
    link,        \* each connection and its client
    calls        \* how many calls were made so far

daemonVars == <<main, signalled, server, rx>>
linkVars == <<link, calls>>
vars == <<handlerVars, daemonVars, linkVars>>

At0(l) == main = <<l, 0>>
NoLink == [phase |-> "none", sent |-> 0, read |-> 0, waiting |-> 0,
           requests |-> <<>>, handling |-> 0, answers |-> <<>>, told |-> FALSE,
           half |-> "no", broken |-> {}]

\* What was still in its streams no longer matters to the kernel.
Closed == [NoLink EXCEPT !.phase = "closed"]

Alive == ~At0("exited")

-----------------------------------------------------------------------------
(* run_daemon *)

SetState(p, s) == procState' = [procState EXCEPT ![p] = s]

\* boot_sequence: update_state(pid, Running), one process after the other.
Boot ==
    /\ main[1] = "boot"
    /\ SetState(BootOrder[main[2]], "Running")
    /\ main' = IF main[2] = Len(BootOrder) THEN <<"spawn", 0>> ELSE <<"boot", main[2] + 1>>
    /\ UNCHANGED <<registry, admitted, active, started, records, torn, lock, job,
                   signalled, server, rx, linkVars>>

\* serve() and health_loop() are spawned; main waits for the signal.
Spawn ==
    /\ At0("spawn")
    /\ server' = "spawned"
    /\ main' = <<"wait", 0>>
    /\ UNCHANGED <<handlerVars, signalled, rx, linkVars>>

\* shutdown(): the broadcast reaches the receivers that exist at this time,
\* the server's and those of its connections.
Broadcast ==
    /\ At0("wait") /\ signalled
    /\ rx' = IF rx = "empty" THEN "shutdown" ELSE rx
    /\ link' = [c \in Conn |-> [link[c] EXCEPT !.told = @ \/ link[c].phase \in {"open", "left"}]]
    /\ main' = <<"join", 0>>
    /\ UNCHANGED <<handlerVars, signalled, server, calls>>

JoinServer ==
    /\ At0("join") /\ server = "done"
    /\ main' = <<"stopping", 1>>
    /\ UNCHANGED <<handlerVars, signalled, server, rx, linkVars>>

\* graceful_shutdown: update_state(pid, Stopping), then Stopped.
StopProcess ==
    /\ main[1] \in {"stopping", "stopped"}
    /\ LET p == ShutdownOrder[main[2]] IN
         IF main[1] = "stopping"
         THEN SetState(p, "Stopping") /\ main' = <<"stopped", main[2]>>
         ELSE /\ SetState(p, "Stopped")
              /\ main' = IF main[2] = Len(ShutdownOrder) THEN <<"joinHealth", 0>>
                         ELSE <<"stopping", main[2] + 1>>
    /\ UNCHANGED <<registry, admitted, active, started, records, torn, lock, job,
                   signalled, server, rx, linkVars>>

\* run_daemon returns once the health loop has, which the watch channel
\* still tells of the signal; dropping the runtime ends every task at its
\* next await, and the puts of a cycle have none between them.
Exit ==
    /\ At0("joinHealth")
    /\ lock = Nobody
    /\ main' = <<"exited", 0>>
    /\ job' = [c \in Conn |-> NoJob]
    /\ link' = [c \in Conn |-> IF link[c].phase \in {"open", "left"}
                               THEN Closed ELSE link[c]]
    /\ UNCHANGED <<procState, registry, admitted, active, started, records, torn, lock,
                   signalled, server, rx, calls>>

\* signal_handler: the watch channel keeps its value for later readers.
Signal ==
    /\ ~signalled /\ Alive
    /\ signalled' = TRUE
    /\ UNCHANGED <<handlerVars, main, server, rx, linkVars>>

\* The daemon is killed and started again; the state store survives.
Crash ==
    /\ main' = <<"boot", 1>> /\ signalled' = FALSE
    /\ server' = "unborn" /\ rx' = "none"
    /\ procState' = [p \in ProcessId |-> "Starting"]
    /\ registry' = {} /\ admitted' = {}
    /\ active' = [t \in Tier |-> 0] /\ started' = 0
    /\ lock' = Nobody /\ job' = [c \in Conn |-> NoJob]
    /\ link' = [c \in Conn |-> NoLink]
    /\ UNCHANGED <<records, torn, calls>>

-----------------------------------------------------------------------------
(* serve() *)

\* remove_file and bind, which may fail, then subscribe.
Listen ==
    /\ server = "spawned"
    /\ \/ server' = "listening" /\ rx' = "empty"
       \/ server' = "done" /\ UNCHANGED rx
    /\ UNCHANGED <<handlerVars, main, signalled, linkVars>>

\* accept; the connection's own receiver is subscribed before it is spawned.
Accept(c) ==
    /\ server = "listening" /\ link[c].phase = "none"
    /\ link' = [link EXCEPT ![c].phase = "open"]
    /\ UNCHANGED <<handlerVars, daemonVars, calls>>

\* The receiver has the message, or accept() returned an error.
ServerEnds ==
    /\ server = "listening"
    /\ server' = "done"
    /\ UNCHANGED <<handlerVars, main, signalled, rx, linkVars>>

ServerStops == rx = "shutdown" /\ ServerEnds

-----------------------------------------------------------------------------
(* The loop of one connection *)

\* A line that the remains of a dropped call run into is no JSON value.
ReadLine(c) ==
    /\ Alive /\ link[c].phase \in {"open", "left"} /\ link[c].handling = 0
    /\ link[c].requests # <<>>
    /\ LET n == Head(link[c].requests) IN
         /\ link' = [link EXCEPT ![c].handling = n, ![c].requests = Tail(@),
                                 ![c].broken = @ \ {n}]
         /\ \E r \in Requests :
              (n \in link[c].broken => r.method = "parse error") /\ Dispatch(c, r)
    /\ UNCHANGED <<procState, registry, admitted, active, started, records, torn, lock,
                   daemonVars, calls>>

\* Mutant: the loop goes on to the next line before it has written.
AnswersUnwritten(c) == link[c].answers

\* Every line is answered, with the request's id where it has one.
AnswersAfter(c) == Append(link[c].answers, link[c].handling)

\* The write fails, and the loop ends, if the client has left.
WriteAnswer(c) ==
    /\ Alive /\ job[c].step = "done"
    /\ link' = [link EXCEPT ![c] = IF @.phase = "left" THEN Closed
                    ELSE [@ EXCEPT !.answers = AnswersAfter(c), !.handling = 0]]
    /\ job' = [job EXCEPT ![c] = NoJob]
    /\ UNCHANGED <<procState, registry, admitted, active, started, records, torn, lock,
                   daemonVars, calls>>

\* select! may take the shutdown although a line is waiting; the end of the
\* stream comes after the lines in it.
HangUp(c) ==
    /\ Alive /\ link[c].phase \in {"open", "left"} /\ link[c].handling = 0
    /\ link[c].told \/ (link[c].phase = "left" /\ link[c].requests = <<>>)
    /\ link' = [link EXCEPT ![c] = Closed]
    /\ UNCHANGED <<handlerVars, daemonVars, calls>>

-----------------------------------------------------------------------------
(* RpcClient *)

\* One call at a time: call() takes &mut self.
MayCall(c) == link[c].phase = "open" /\ link[c].waiting = 0 /\ calls < MaxCalls

\* The line ends whatever an earlier call has left of its own.
Call(c) ==
    /\ MayCall(c)
    /\ LET n == link[c].sent + 1 IN
         link' = [link EXCEPT ![c].sent = n, ![c].waiting = n, ![c].requests = Append(@, n),
                              ![c].half = "no",
                              ![c].broken = IF link[c].half = "no" THEN @ ELSE @ \union {n}]
    /\ calls' = calls + 1
    /\ UNCHANGED <<handlerVars, daemonVars>>

\* The future of call() is dropped inside write_all: a part of the line, at
\* most all of it but its end, stays in the stream.
CutOff(c) ==
    /\ MayCall(c)
    /\ link' = [link EXCEPT ![c].half = IF @ = "no" THEN "one" ELSE "many"]
    /\ calls' = calls + 1
    /\ UNCHANGED <<handlerVars, daemonVars>>

\* The next line is taken for the answer; its id is not looked at.
ReadAnswer(c) ==
    /\ link[c].waiting # 0 /\ link[c].answers # <<>>
    /\ link' = [link EXCEPT ![c].waiting = 0, ![c].read = @ + 1,
                            ![c].answers = Tail(@)]
    /\ UNCHANGED <<handlerVars, daemonVars, calls>>

\* The caller drops the future of call() after the line is written, as a
\* timeout around it would, or the connection is gone and call() returns an
\* error.  Of an answer that read_line has read in part the rest, its end of
\* line included, is the line the next call reads: still one for one.
Abandon(c) ==
    /\ link[c].waiting # 0
    /\ link' = [link EXCEPT ![c].waiting = 0]
    /\ UNCHANGED <<handlerVars, daemonVars, calls>>

\* The client goes away; the lines it has written are still read, and so is
\* a last one without an end, which may lack nothing else.
Leave(c) ==
    /\ link[c].phase = "open"
    /\ LET l == link[c]
           n == l.sent + 1
       IN  link' = [link EXCEPT ![c] =
                      [NoLink EXCEPT !.phase = "left", !.told = l.told, !.handling = l.handling,
                         !.requests = IF l.half = "no" THEN l.requests ELSE Append(l.requests, n),
                         !.broken = IF l.half = "many" THEN l.broken \union {n} ELSE l.broken]]
    /\ UNCHANGED <<handlerVars, daemonVars, calls>>

-----------------------------------------------------------------------------

Init ==
    /\ procState = [p \in ProcessId |-> "Starting"]   \* after the registrations
    /\ registry = {} /\ admitted = {}
    /\ active = [t \in Tier |-> 0] /\ started = 0
    /\ records = [k \in {"last_drift", "last_cycle", "head"} |-> 0]
    /\ torn = FALSE
    /\ lock = Nobody
    /\ job = [c \in Conn |-> NoJob]
    /\ main = <<"boot", 1>> /\ signalled = FALSE
    /\ server = "unborn" /\ rx = "none"
    /\ link = [c \in Conn |-> NoLink] /\ calls = 0

Daemon == Boot \/ Spawn \/ Broadcast \/ JoinServer \/ StopProcess \/ Exit

Handle(c) == Alive /\ HandlerStep(c) /\ UNCHANGED <<daemonVars, linkVars>>

RegisterTask == Alive /\ (\E t \in TaskIds : Register(t)) /\ UNCHANGED <<daemonVars, linkVars>>

Next ==
    \/ Daemon \/ Signal \/ Crash
    \/ Listen \/ ServerEnds \/ RegisterTask
    \/ \E c \in Conn : \/ Accept(c) \/ ReadLine(c) \/ Handle(c) \/ WriteAnswer(c) \/ HangUp(c)
                       \/ Call(c) \/ CutOff(c) \/ ReadAnswer(c) \/ Abandon(c) \/ Leave(c)

Spec == Init /\ [][Next]_vars

\* The runtime polls every task that can go on.  Nobody has to send a
\* signal, a request or a failure.
FairSpec ==
    /\ Spec
    /\ WF_vars(Daemon) /\ WF_vars(Listen) /\ WF_vars(ServerStops)
    /\ \A c \in Conn : WF_vars(Handle(c))

-----------------------------------------------------------------------------
(* Properties *)

\* When no MetaCycleComplete was cut short by a write error or a crash, the
\* drift score and the cycle the UI reads are of the same cycle, however
\* the requests of several connections interleave.
CycleRecordsConsistent == ~torn => records.last_drift = records.last_cycle

\* What the tiers are charged for together; like each counter, modulo the
\* word, so that a P1Normal counter that has wrapped below zero makes up for
\* the charges that were left in the other tiers.
Charge == (active["P0Critical"] + active["P1Normal"] + active["P2Background"]) % 2^WordBits

\* The tiers together are charged for every task that was admitted and has
\* not completed, whatever the priorities: racing, repeated and unknown
\* completions release a task once, although always from P1Normal.
LiveTasksCharged == Charge >= Cardinality(registry \union admitted)

\* "Maximum concurrent tasks at this priority": with submissions one at a
\* time, no more tasks of a tier are live than its max_concurrent.
MaxConcurrentKept ==
    \A t \in Tier :
        Cardinality({e.task_id : e \in {f \in Envelope : f.priority = t}}
                      \cap (registry \union admitted)) <= Limit[t]

\* On an open connection every line is answered once and in order, those
\* the remains of a dropped call have spoilt included: the unread answers,
\* the line in hand and the unread lines are exactly the lines sent and not
\* yet answered to the client.
OneAnswerEach ==
    \A c \in Conn : link[c].phase = "open" =>
        LET hand == IF link[c].handling = 0 THEN <<>> ELSE <<link[c].handling>>
            all  == link[c].answers \o hand \o link[c].requests
        IN  /\ link[c].read + Len(all) = link[c].sent
            /\ \A i \in 1..Len(all) : all[i] = link[c].read + i

\* "Blocks until shutdown is signaled": once the shutdown was broadcast,
\* run_daemon's wait for serve() comes to an end.
ServeReturns == At0("join") ~> ~At0("join")
=============================================================================
