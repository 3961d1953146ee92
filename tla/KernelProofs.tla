---------------------------- MODULE KernelProofs ----------------------------
(***************************************************************************)
(* What the daemon, its connections and its handlers keep, for any number  *)
(* of connections, processes, tasks and triggers, and across crashes: the  *)
(* records of a meta cycle agree, every live task is charged, and every    *)
(* line of an open connection is answered once and in order.               *)
(***************************************************************************)
EXTENDS Kernel, Integers, FiniteSetTheorems, SequenceTheorems, TLAPS

\* What a connection works on.
None  == [method |-> "none"]
Work  == Requests \union {None}
Steps == {"idle", "start", "admit", "release", "persist", "drift", "cycle", "head", "done"}
Jobs  == [req : Work, step : Steps]

RecordKeys == {"last_drift", "last_cycle", "head"}

Shape ==
    /\ job \in [Conn -> Jobs]
    /\ records = [k \in RecordKeys |-> records[k]]
    /\ torn \in BOOLEAN

Writing(c) == job[c].step \in {"drift", "cycle", "head"}

\* Whoever writes records holds the mutex; how far it is says which records
\* are of its cycle already.
WriterInv ==
    \A c \in Conn :
        /\ Writing(c) => lock = c
        /\ job[c].step = "cycle" =>
             torn /\ records["last_drift"] = job[c].req.trigger.cycle
        /\ job[c].step = "head" =>
             torn /\ records["last_drift"] = records["last_cycle"]

KInv == Shape /\ WriterInv /\ CycleRecordsConsistent

\* The variables that KInv is about.
storeVars == <<records, torn, lock, job>>

-----------------------------------------------------------------------------
(* What happens to the jobs *)

LEMMA JobsMade ==
    /\ \A w \in Work, s \in Steps : [req |-> w, step |-> s] \in Jobs
    /\ Done \in Jobs /\ Done.step = "done"
    /\ NoJob \in Jobs /\ NoJob.step = "idle"
<1>1. \A w \in Work, s \in Steps : [req |-> w, step |-> s] \in Jobs
  BY DEF Jobs
<1>2. None \in Work
  BY DEF Work
<1>3. "done" \in Steps /\ "idle" \in Steps
  BY DEF Steps
<1>4. Done = [req |-> None, step |-> "done"] /\ NoJob = [req |-> None, step |-> "idle"]
  BY DEF Done, NoJob, None
<1> QED
  BY <1>1, <1>2, <1>3, <1>4

LEMMA GoToEffect ==
    ASSUME Shape, NEW c \in Conn, NEW s \in Steps, GoTo(c, s)
    PROVE  /\ job' \in [Conn -> Jobs]
           /\ job'[c].step = s /\ job'[c].req = job[c].req
           /\ \A d \in Conn \ {c} : job'[d] = job[d]
BY DEF Shape, GoTo, Jobs

LEMMA StopEffect ==
    ASSUME Shape, NEW c \in Conn, Stop(c)
    PROVE  /\ job' \in [Conn -> Jobs]
           /\ job'[c].step = "done"
           /\ \A d \in Conn \ {c} : job'[d] = job[d]
BY JobsMade DEF Shape, Stop

\* A step that leaves the records and the mutex alone, and moves one
\* connection to a step at which it does not write, keeps the invariant.
LEMMA MoveOutside ==
    ASSUME KInv, NEW c \in Conn, job' \in [Conn -> Jobs], ~Writing(c)',
           \A d \in Conn \ {c} : job'[d] = job[d],
           UNCHANGED <<records, torn, lock>>
    PROVE  KInv'
<1>1. Shape'
  BY DEF KInv, Shape
<1>2. WriterInv'
  BY DEF KInv, WriterInv, Writing
<1>3. CycleRecordsConsistent'
  BY DEF KInv, CycleRecordsConsistent
<1> QED
  BY <1>1, <1>2, <1>3 DEF KInv

\* When every request is dropped, nobody writes.
LEMMA DropAll ==
    ASSUME KInv, job' = [c \in Conn |-> NoJob], UNCHANGED <<records, torn>>
    PROVE  KInv'
<1>1. Shape'
  BY JobsMade DEF KInv, Shape
<1>2. WriterInv'
  BY JobsMade DEF WriterInv, Writing
<1>3. CycleRecordsConsistent'
  BY DEF KInv, CycleRecordsConsistent
<1> QED
  BY <1>1, <1>2, <1>3 DEF KInv

LEMMA Unmoved == KInv /\ UNCHANGED storeVars => KInv'
BY DEF KInv, Shape, WriterInv, Writing, CycleRecordsConsistent, storeVars

-----------------------------------------------------------------------------
(* The steps of a request *)

LEMMA LockKeeps ==
    ASSUME KInv, NEW c \in Conn, LockStore(c)
    PROVE  KInv'
<1>1. /\ lock = Nobody /\ lock' = c /\ GoTo(c, "drift")
      /\ UNCHANGED <<records, torn>>
  BY DEF LockStore
<1>2. /\ job' \in [Conn -> Jobs] /\ job'[c].step = "drift"
      /\ \A d \in Conn \ {c} : job'[d] = job[d]
  BY <1>1, GoToEffect DEF KInv, Steps
<1>3. \A d \in Conn : ~Writing(d)
  BY <1>1, HandlerAssumption DEF KInv, WriterInv
<1>4. WriterInv'
  BY <1>1, <1>2, <1>3 DEF WriterInv, Writing
<1> QED
  BY <1>1, <1>2, <1>4 DEF KInv, Shape, CycleRecordsConsistent

\* A put that fails frees the mutex and leaves the records as they were.
LEMMA FailedPut ==
    ASSUME KInv, NEW c \in Conn, Writing(c), Stop(c), lock' = Nobody,
           UNCHANGED <<records, torn>>
    PROVE  KInv'
<1>1. /\ job' \in [Conn -> Jobs] /\ job'[c].step = "done"
      /\ \A d \in Conn \ {c} : job'[d] = job[d]
  BY StopEffect DEF KInv
<1>2. \A d \in Conn \ {c} : ~Writing(d)
  BY DEF KInv, WriterInv
<1>3. WriterInv'
  BY <1>1, <1>2 DEF WriterInv, Writing
<1> QED
  BY <1>1, <1>3 DEF KInv, Shape, CycleRecordsConsistent

LEMMA PutKeeps ==
    ASSUME KInv, NEW c \in Conn, PutDrift(c) \/ PutCycle(c) \/ PutHead(c)
    PROVE  KInv'
<1> DEFINE i == job[c].req.trigger.cycle
           Wrote(key, next) ==
             /\ records' = [records EXCEPT ![key] = i]
             /\ torn' = (next # "done")
             /\ lock' = IF next = "done" THEN Nobody ELSE lock
             /\ IF next = "done" THEN Stop(c) ELSE GoTo(c, next)
<1>1. Writing(c)
  BY DEF PutDrift, PutCycle, PutHead, PutRecord, At, Writing
<1>2. /\ lock = c
      /\ \A d \in Conn \ {c} : ~Writing(d)
  BY <1>1 DEF KInv, WriterInv
<1>3. \/ Stop(c) /\ lock' = Nobody /\ UNCHANGED <<records, torn>>
      \/ job[c].step = "drift" /\ Wrote("last_drift", "cycle")
      \/ job[c].step = "cycle" /\ Wrote("last_cycle", "head")
      \/ job[c].step = "cycle" /\ Wrote("last_cycle", "done")
      \/ job[c].step = "head" /\ Wrote("head", "done")
  <2>1. CASE PutDrift(c)
    BY <2>1 DEF PutDrift, PutRecord, At
  <2>2. CASE PutCycle(c)
    <3>1. CASE job[c].req.trigger.policy_changed
      BY <2>2, <3>1 DEF PutCycle, PutRecord, At
    <3>2. CASE ~job[c].req.trigger.policy_changed
      BY <2>2, <3>2 DEF PutCycle, PutRecord, At
    <3> QED
      BY <3>1, <3>2
  <2>3. CASE PutHead(c)
    BY <2>3 DEF PutHead, PutRecord, At
  <2> QED
    BY <2>1, <2>2, <2>3
<1>4. records = [k \in RecordKeys |-> records[k]]
  BY DEF KInv, Shape
<1>5. CASE Stop(c) /\ lock' = Nobody /\ UNCHANGED <<records, torn>>
  BY <1>1, <1>5, FailedPut
<1>6. CASE job[c].step = "drift" /\ Wrote("last_drift", "cycle")
  <2>1. GoTo(c, "cycle") /\ torn' = TRUE /\ lock' = c
        /\ records' = [records EXCEPT !["last_drift"] = i]
    BY <1>2, <1>6
  <2>2. /\ job' \in [Conn -> Jobs] /\ job'[c].step = "cycle"
        /\ job'[c].req = job[c].req
        /\ \A d \in Conn \ {c} : job'[d] = job[d]
    BY <2>1, GoToEffect DEF KInv, Steps
  <2>3. records' = [k \in RecordKeys |-> records'[k]] /\ records'["last_drift"] = i
    BY <1>4, <2>1 DEF RecordKeys
  <2>4. WriterInv'
    BY <1>2, <2>1, <2>2, <2>3 DEF WriterInv, Writing
  <2> QED
    BY <2>1, <2>2, <2>3, <2>4 DEF KInv, Shape, CycleRecordsConsistent
<1>7. CASE job[c].step = "cycle" /\ (Wrote("last_cycle", "head") \/ Wrote("last_cycle", "done"))
  <2>1. records' = [records EXCEPT !["last_cycle"] = i]
    BY <1>7
  <2>2. records["last_drift"] = i
    BY <1>7 DEF KInv, WriterInv
  <2>3. /\ records' = [k \in RecordKeys |-> records'[k]]
        /\ records'["last_drift"] = records'["last_cycle"]
    BY <1>4, <2>1, <2>2 DEF RecordKeys
  <2>4. CASE Wrote("last_cycle", "head")
    <3>1. GoTo(c, "head") /\ torn' = TRUE /\ lock' = c
      BY <1>2, <2>4
    <3>2. /\ job' \in [Conn -> Jobs] /\ job'[c].step = "head"
          /\ \A d \in Conn \ {c} : job'[d] = job[d]
      BY <3>1, GoToEffect DEF KInv, Steps
    <3>3. WriterInv'
      BY <1>2, <2>3, <3>1, <3>2 DEF WriterInv, Writing
    <3> QED
      BY <2>3, <3>1, <3>2, <3>3 DEF KInv, Shape, CycleRecordsConsistent
  <2>5. CASE Wrote("last_cycle", "done")
    <3>1. Stop(c) /\ torn' = FALSE
      BY <2>5
    <3>2. /\ job' \in [Conn -> Jobs] /\ job'[c].step = "done"
          /\ \A d \in Conn \ {c} : job'[d] = job[d]
      BY <3>1, StopEffect DEF KInv
    <3>3. WriterInv'
      BY <1>2, <3>2 DEF WriterInv, Writing
    <3> QED
      BY <2>3, <3>1, <3>2, <3>3 DEF KInv, Shape, CycleRecordsConsistent
  <2> QED
    BY <1>7, <2>4, <2>5
<1>8. CASE job[c].step = "head" /\ Wrote("head", "done")
  <2>1. Stop(c) /\ torn' = FALSE /\ records' = [records EXCEPT !["head"] = i]
    BY <1>8
  <2>2. /\ job' \in [Conn -> Jobs] /\ job'[c].step = "done"
        /\ \A d \in Conn \ {c} : job'[d] = job[d]
    BY <2>1, StopEffect DEF KInv
  <2>3. records["last_drift"] = records["last_cycle"]
    BY <1>8 DEF KInv, WriterInv
  <2>4. /\ records' = [k \in RecordKeys |-> records'[k]]
        /\ records'["last_drift"] = records'["last_cycle"]
    BY <1>4, <2>1, <2>3 DEF RecordKeys
  <2>5. WriterInv'
    BY <1>2, <2>2 DEF WriterInv, Writing
  <2> QED
    BY <2>1, <2>2, <2>4, <2>5 DEF KInv, Shape, CycleRecordsConsistent
<1> QED
  BY <1>3, <1>5, <1>6, <1>7, <1>8

LEMMA HandleKeeps ==
    ASSUME KInv, NEW c \in Conn, HandlerStep(c)
    PROVE  KInv'
<1>1. CASE CheckSubmit(c) \/ StartTask(c) \/ RemoveTask(c) \/ ReleaseBudget(c) \/ CheckTrigger(c)
  <2>1. UNCHANGED <<records, torn, lock>>
    BY <1>1 DEF CheckSubmit, StartTask, RemoveTask, ReleaseBudget, CheckTrigger
  <2>2. Stop(c) \/ GoTo(c, "admit") \/ GoTo(c, "release") \/ GoTo(c, "persist")
    BY <1>1 DEF CheckSubmit, StartTask, RemoveTask, ReleaseBudget, CheckTrigger
  <2>3. /\ job' \in [Conn -> Jobs]
        /\ job'[c].step \in {"done", "admit", "release", "persist"}
        /\ \A d \in Conn \ {c} : job'[d] = job[d]
    BY <2>2, StopEffect, GoToEffect DEF KInv, Steps
  <2> QED
    BY <2>1, <2>3, MoveOutside DEF Writing
<1>2. CASE LockStore(c)
  BY <1>2, LockKeeps
<1>3. CASE PutDrift(c) \/ PutCycle(c) \/ PutHead(c)
  BY <1>3, PutKeeps
<1> QED
  BY <1>1, <1>2, <1>3 DEF HandlerStep

-----------------------------------------------------------------------------

LEMMA NextKeeps == KInv /\ [Next]_vars => KInv'
<1> SUFFICES ASSUME KInv, [Next]_vars PROVE KInv'
  OBVIOUS
<1>1. CASE Boot \/ Spawn \/ Broadcast \/ JoinServer \/ StopProcess \/ Signal \/ Listen
           \/ ServerEnds \/ RegisterTask \/ UNCHANGED vars
  <2>1. UNCHANGED storeVars
    BY <1>1 DEF Boot, Spawn, Broadcast, JoinServer, StopProcess, Signal, Listen, ServerEnds,
                RegisterTask, Register, vars, handlerVars, storeVars
  <2> QED
    BY <2>1, Unmoved
<1>2. CASE Exit \/ Crash
  BY <1>2, DropAll DEF Exit, Crash
<1>3. ASSUME NEW c \in Conn,
             \/ Accept(c) \/ HangUp(c) \/ Call(c) \/ CutOff(c) \/ ReadAnswer(c)
             \/ Abandon(c) \/ Leave(c)
      PROVE  KInv'
  <2>1. UNCHANGED storeVars
    BY <1>3 DEF Accept, HangUp, Call, CutOff, ReadAnswer, Abandon, Leave, handlerVars, storeVars
  <2> QED
    BY <2>1, Unmoved
<1>4. ASSUME NEW c \in Conn, ReadLine(c) PROVE KInv'
  <2>1. PICK r \in Requests : Dispatch(c, r)
    BY <1>4 DEF ReadLine
  <2>2. /\ [req |-> r, step |-> "start"] \in Jobs
        /\ Done \in Jobs /\ Done.step = "done"
    BY JobsMade DEF Work, Steps
  <2>3. /\ job' \in [Conn -> Jobs] /\ job'[c].step \in {"start", "done"}
        /\ \A d \in Conn \ {c} : job'[d] = job[d]
    BY <2>1, <2>2 DEF Dispatch, KInv, Shape
  <2> QED
    BY <1>4, <2>3, MoveOutside DEF ReadLine, Writing
<1>5. ASSUME NEW c \in Conn, WriteAnswer(c) PROVE KInv'
  <2>1. NoJob \in Jobs /\ NoJob.step = "idle"
    BY JobsMade
  <2>2. /\ job' \in [Conn -> Jobs] /\ job'[c].step = "idle"
        /\ \A d \in Conn \ {c} : job'[d] = job[d]
    BY <1>5, <2>1 DEF WriteAnswer, KInv, Shape
  <2> QED
    BY <1>5, <2>2, MoveOutside DEF WriteAnswer, Writing
<1>6. ASSUME NEW c \in Conn, Handle(c) PROVE KInv'
  BY <1>6, HandleKeeps DEF Handle
<1> QED
  BY <1>1, <1>2, <1>3, <1>4, <1>5, <1>6 DEF Next, Daemon

LEMMA InitKInv == Init => KInv
<1> SUFFICES ASSUME Init PROVE KInv
  OBVIOUS
<1>1. Shape
  BY JobsMade DEF Init, Shape, RecordKeys
<1>2. WriterInv
  BY JobsMade DEF Init, WriterInv, Writing
<1>3. CycleRecordsConsistent
  BY DEF Init, CycleRecordsConsistent
<1> QED
  BY <1>1, <1>2, <1>3 DEF KInv

\* MetaCycleComplete writes its records under one lock of the store: unless a
\* write error or a crash cut the last one short, the drift score and the
\* cycle are of the same cycle, for any number of connections.
THEOREM CycleRecordsHold == Spec => []CycleRecordsConsistent
<1>1. KInv => CycleRecordsConsistent
  BY DEF KInv
<1> QED
  BY <1>1, InitKInv, NextKeeps, PTL DEF Spec

-----------------------------------------------------------------------------
(* The budget of the tiers *)

\* The connections that have taken a task out of the registry and still owe
\* the release of its budget.
Releasing == {c \in Conn : job[c].step = "release"}

\* The tasks that wait for their subprocess, run, or are being released.
Owing == Cardinality(registry) + Cardinality(admitted) + Cardinality(Releasing)

Word == 2^WordBits

\* The counters hold at least k charges.  Releases of every tier are taken
\* from P1Normal, so what its counter a1 stands for, n, may be negative: a1
\* is then n modulo the word.  The s starts bound how far that goes.
Holds(a0, a1, a2, s, k) ==
    \E n \in Int : /\ a1 = n \/ a1 = n + Word
                   /\ a0 + a2 <= s /\ n + a0 + a2 <= s
                   /\ k <= n + a0 + a2

Up(a)   == IF a = Word - 1 THEN 0 ELSE a + 1
Down(a) == IF a = 0 THEN Word - 1 ELSE a - 1
Word0   == {a \in Nat : a < Word}

ChargeInv ==
    /\ active \in [Tier -> Word0]
    /\ started \in Nat /\ started <= MaxStarts
    /\ IsFiniteSet(registry) /\ IsFiniteSet(admitted) /\ IsFiniteSet(Releasing)
    /\ Holds(active["P0Critical"], active["P1Normal"], active["P2Background"], started, Owing)

LEMMA WordBound == Word \in Nat /\ MaxStarts \in Nat /\ MaxStarts < Word
BY HandlerAssumption DEF Word

LEMMA HoldsLess ==
    ASSUME NEW a0 \in Word0, NEW a1 \in Word0, NEW a2 \in Word0, NEW s \in Nat,
           NEW k \in Nat, NEW j \in Nat, Holds(a0, a1, a2, s, k), j <= k
    PROVE  Holds(a0, a1, a2, s, j)
BY WordBound DEF Holds, Word0

LEMMA Modulo ==
    ASSUME NEW w \in Nat, NEW t \in Nat, t < w
    PROVE  t % w = t /\ (t + w) % w = t
<1>1. t % w = t
  OBVIOUS
<1>2. (t + w) % w = t
  OBVIOUS
<1> QED
  BY <1>1, <1>2

\* The sum of the counters modulo the word is the number of charges.
LEMMA HoldsSum ==
    ASSUME NEW a0 \in Word0, NEW a1 \in Word0, NEW a2 \in Word0, NEW s \in Nat,
           NEW k \in Nat, NEW j \in Nat, Holds(a0, a1, a2, s, k), j <= k, s <= MaxStarts
    PROVE  (a0 + a1 + a2) % Word >= j
<1>1. PICK n \in Int : /\ a1 = n \/ a1 = n + Word
                       /\ n + a0 + a2 <= s /\ k <= n + a0 + a2
  BY DEF Holds
<1> DEFINE t == n + a0 + a2
<1>2. a0 \in Nat /\ a1 \in Nat /\ a2 \in Nat
  BY DEF Word0
<1>3. t \in Nat /\ t < Word /\ t >= j
  BY <1>1, <1>2, WordBound
<1>4. a0 + a1 + a2 = t \/ a0 + a1 + a2 = t + Word
  BY <1>1, <1>2, WordBound
<1>5. t % Word = t /\ (t + Word) % Word = t
  <2> HIDE DEF t
  <2> QED
    BY <1>3, WordBound, Modulo
<1> QED
  BY <1>3, <1>4, <1>5

\* task_started on P1Normal.
LEMMA HoldsNormal ==
    ASSUME NEW a0 \in Word0, NEW a1 \in Word0, NEW a2 \in Word0, NEW s \in Nat,
           NEW k \in Nat, NEW j \in Nat, Holds(a0, a1, a2, s, k), j <= k + 1, s < MaxStarts
    PROVE  Up(a1) \in Word0 /\ Holds(a0, Up(a1), a2, s + 1, j)
<1>1. PICK n \in Int : /\ a1 = n \/ a1 = n + Word
                       /\ a0 + a2 <= s /\ n + a0 + a2 <= s /\ k <= n + a0 + a2
  BY DEF Holds
<1>2. a0 \in Nat /\ a1 \in Nat /\ a2 \in Nat /\ a1 < Word
  BY DEF Word0
<1>3. Up(a1) \in Nat /\ Up(a1) < Word /\ (Up(a1) = n + 1 \/ Up(a1) = (n + 1) + Word)
  BY <1>1, <1>2, WordBound DEF Up
<1>4. a0 + a2 <= s + 1 /\ (n + 1) + a0 + a2 <= s + 1 /\ j <= (n + 1) + a0 + a2
  BY <1>1, <1>2
<1>5. n + 1 \in Int
  OBVIOUS
<1> QED
  BY <1>3, <1>4, <1>5 DEF Holds, Word0

\* task_started on another tier, whose counter is never taken from.
LEMMA HoldsOther ==
    ASSUME NEW a0 \in Word0, NEW a1 \in Word0, NEW a2 \in Word0, NEW s \in Nat,
           NEW k \in Nat, NEW j \in Nat, Holds(a0, a1, a2, s, k), j <= k + 1, s < MaxStarts
    PROVE  /\ Up(a0) \in Word0 /\ Holds(Up(a0), a1, a2, s + 1, j)
           /\ Up(a2) \in Word0 /\ Holds(a0, a1, Up(a2), s + 1, j)
<1>1. PICK n \in Int : /\ a1 = n \/ a1 = n + Word
                       /\ a0 + a2 <= s /\ n + a0 + a2 <= s /\ k <= n + a0 + a2
  BY DEF Holds
<1>2. a0 \in Nat /\ a1 \in Nat /\ a2 \in Nat
  BY DEF Word0
<1>3. Up(a0) = a0 + 1 /\ Up(a2) = a2 + 1 /\ a0 + 1 < Word /\ a2 + 1 < Word
  BY <1>1, <1>2, WordBound DEF Up
<1>4. /\ (a0 + 1) + a2 <= s + 1 /\ n + (a0 + 1) + a2 <= s + 1 /\ j <= n + (a0 + 1) + a2
      /\ a0 + (a2 + 1) <= s + 1 /\ n + a0 + (a2 + 1) <= s + 1 /\ j <= n + a0 + (a2 + 1)
  BY <1>1, <1>2
<1>5. a0 + 1 \in Nat /\ a2 + 1 \in Nat
  BY <1>2
<1> QED
  BY <1>1, <1>3, <1>4, <1>5 DEF Holds, Word0

\* task_ended on P1Normal.
LEMMA HoldsEnd ==
    ASSUME NEW a0 \in Word0, NEW a1 \in Word0, NEW a2 \in Word0, NEW s \in Nat,
           NEW k \in Nat, NEW j \in Nat, Holds(a0, a1, a2, s, k), j = k - 1, s <= MaxStarts
    PROVE  Down(a1) \in Word0 /\ Holds(a0, Down(a1), a2, s, j)
<1>1. PICK n \in Int : /\ a1 = n \/ a1 = n + Word
                       /\ a0 + a2 <= s /\ n + a0 + a2 <= s /\ k <= n + a0 + a2
  BY DEF Holds
<1>2. a0 \in Nat /\ a1 \in Nat /\ a2 \in Nat /\ a1 < Word
  BY DEF Word0
<1>3. n > 0 - Word
  BY <1>1, <1>2, WordBound
<1>4. Down(a1) \in Nat /\ Down(a1) < Word /\ (Down(a1) = n - 1 \/ Down(a1) = (n - 1) + Word)
  BY <1>1, <1>2, <1>3, WordBound DEF Down
<1>5. n - 1 \in Int /\ (n - 1) + a0 + a2 <= s /\ j <= (n - 1) + a0 + a2
  BY <1>1, <1>2
<1> QED
  BY <1>1, <1>4, <1>5 DEF Holds, Word0

LEMMA ChargeFacts ==
    ASSUME ChargeInv
    PROVE  /\ active["P0Critical"] \in Word0 /\ active["P1Normal"] \in Word0
           /\ active["P2Background"] \in Word0
           /\ Cardinality(registry) \in Nat /\ Cardinality(admitted) \in Nat
           /\ Cardinality(Releasing) \in Nat /\ Owing \in Nat
<1>1. "P0Critical" \in Tier /\ "P1Normal" \in Tier /\ "P2Background" \in Tier
  BY DEF Tier
<1>2. Cardinality(registry) \in Nat /\ Cardinality(admitted) \in Nat
      /\ Cardinality(Releasing) \in Nat
  BY FS_CardinalityType DEF ChargeInv
<1> QED
  BY <1>1, <1>2 DEF ChargeInv, Owing

\* One connection moves on, and no other job changes.
LEMMA ReleasingAfter ==
    ASSUME NEW c \in Conn, \A d \in Conn \ {c} : job'[d] = job[d]
    PROVE  /\ job'[c].step = "release" => Releasing' = Releasing \union {c}
           /\ job'[c].step # "release" => Releasing' = Releasing \ {c}
BY DEF Releasing

LEMMA CardAfter ==
    ASSUME NEW S, IsFiniteSet(S), NEW x
    PROVE  /\ IsFiniteSet(S \union {x}) /\ IsFiniteSet(S \ {x})
           /\ Cardinality(S) \in Nat
           /\ Cardinality(S \union {x}) \in Nat /\ Cardinality(S \ {x}) \in Nat
           /\ Cardinality(S \union {x}) <= Cardinality(S) + 1
           /\ Cardinality(S \ {x}) <= Cardinality(S)
           /\ x \notin S => Cardinality(S \union {x}) = Cardinality(S) + 1
           /\ x \in S => Cardinality(S \ {x}) = Cardinality(S) - 1
<1>1. /\ IsFiniteSet(S \union {x})
      /\ Cardinality(S \union {x}) = IF x \in S THEN Cardinality(S) ELSE Cardinality(S) + 1
  BY FS_AddElement
<1>2. /\ IsFiniteSet(S \ {x})
      /\ Cardinality(S \ {x}) = IF x \in S THEN Cardinality(S) - 1 ELSE Cardinality(S)
  BY FS_RemoveElement
<1>3. Cardinality(S) \in Nat /\ Cardinality(S \union {x}) \in Nat /\ Cardinality(S \ {x}) \in Nat
  BY <1>1, <1>2, FS_CardinalityType
<1>4. Cardinality(S \union {x}) <= Cardinality(S) + 1
  BY <1>1, <1>3
<1>5. Cardinality(S \ {x}) <= Cardinality(S)
  BY <1>2, <1>3
<1> QED
  BY <1>1, <1>2, <1>3, <1>4, <1>5

\* Steps that leave the counters alone and owe nothing new.
LEMMA ChargeOwed ==
    ASSUME ChargeInv, UNCHANGED <<active, started>>, Owing' \in Nat, Owing' <= Owing,
           IsFiniteSet(registry'), IsFiniteSet(admitted'), IsFiniteSet(Releasing')
    PROVE  ChargeInv'
<1> DEFINE k == Owing
           j == Owing'
<1>1. k \in Nat /\ j \in Nat /\ j <= k
  BY ChargeFacts
<1>2. Holds(active["P0Critical"], active["P1Normal"], active["P2Background"], started, k)
  BY DEF ChargeInv
<1> HIDE DEF k, j
<1>3. started \in Nat
  BY DEF ChargeInv
<1>4. Holds(active["P0Critical"], active["P1Normal"], active["P2Background"], started, j)
  BY <1>1, <1>2, <1>3, ChargeFacts, HoldsLess
<1> QED
  BY <1>4 DEF ChargeInv, j

LEMMA ChargeMove ==
    ASSUME ChargeInv, NEW c \in Conn, \A d \in Conn \ {c} : job'[d] = job[d],
           job'[c].step # "release", UNCHANGED <<active, started, registry, admitted>>
    PROVE  ChargeInv'
<1>1. Releasing' = Releasing \ {c}
  BY ReleasingAfter
<1>2. /\ IsFiniteSet(Releasing') /\ Cardinality(Releasing') <= Cardinality(Releasing)
      /\ Cardinality(Releasing') \in Nat
  BY <1>1, CardAfter DEF ChargeInv
<1>3. Owing' \in Nat /\ Owing' <= Owing
  BY <1>2, ChargeFacts DEF Owing
<1> QED
  BY <1>2, <1>3, ChargeOwed DEF ChargeInv

LEMMA ChargeKept ==
    ChargeInv /\ UNCHANGED <<active, started, registry, admitted, job>> => ChargeInv'
BY DEF ChargeInv, Releasing, Owing

LEMMA SubmittedEnvelope ==
    ASSUME Shape, NEW c \in Conn, job[c].req.method = "task.submit"
    PROVE  job[c].req.env \in Envelope
<1> DEFINE r == job[c].req
           A == {[method |-> m] : m \in {"ping", "unknown", "parse error", "missing params"}}
           B == {[method |-> "task.submit", env |-> e] : e \in Envelope}
           C == {[method |-> m, task |-> t] :
                   m \in {"task.progress", "task.complete", "task.cancel"}, t \in TaskIds}
           D == {[method |-> "loop.trigger", trigger |-> g] : g \in Trigger}
<1>1. r \in Requests \/ r = None
  BY DEF Shape, Jobs, Work
<1>2. r.method = "task.submit"
  OBVIOUS
<1>3. Requests = ((A \union B) \union C) \union D
  BY DEF Requests
<1> HIDE DEF r
<1>4. r # None
  BY <1>2 DEF None
<1>5. r \notin A
  <2> SUFFICES ASSUME r \in A PROVE FALSE
    OBVIOUS
  <2>1. PICK m \in {"ping", "unknown", "parse error", "missing params"} : r = [method |-> m]
    BY Zenon
  <2> QED
    BY <1>2, <2>1
<1>6. r \notin C
  BY <1>2
<1>7. r \notin D
  BY <1>2
<1>8. r \in B
  <2> HIDE DEF A, B, C, D
  <2> QED
    BY <1>1, <1>3, <1>4, <1>5, <1>6, <1>7
<1> QED
  BY <1>8 DEF r

LEMMA StartCharges ==
    ASSUME Shape, ChargeInv, NEW c \in Conn, StartTask(c)
    PROVE  ChargeInv'
<1> DEFINE e == job[c].req.env
           k == Owing
           j == Owing'
<1>1. e.priority \in Tier
  BY SubmittedEnvelope, HandlerAssumption DEF StartTask, At
<1>2. /\ active' = [active EXCEPT ![e.priority] = Up(active[e.priority])]
      /\ admitted' = admitted \union {e.task_id}
      /\ registry' = registry /\ started < MaxStarts /\ started' = started + 1
  BY DEF StartTask, Up, Word
<1>3. /\ job'[c].step = "done" /\ \A d \in Conn \ {c} : job'[d] = job[d]
  BY StopEffect DEF StartTask
<1>4. Releasing' = Releasing \ {c}
  BY <1>3, ReleasingAfter
<1>5. /\ IsFiniteSet(Releasing') /\ Cardinality(Releasing') <= Cardinality(Releasing)
      /\ Cardinality(Releasing') \in Nat
  BY <1>4, CardAfter DEF ChargeInv
<1>6. /\ IsFiniteSet(admitted') /\ Cardinality(admitted') <= Cardinality(admitted) + 1
      /\ Cardinality(admitted') \in Nat
  BY <1>2, CardAfter DEF ChargeInv
<1>7. k \in Nat /\ j \in Nat /\ j <= k + 1
  BY <1>2, <1>5, <1>6, ChargeFacts DEF Owing
<1>8. Holds(active["P0Critical"], active["P1Normal"], active["P2Background"], started, k)
  BY DEF ChargeInv
<1>9. started \in Nat /\ started' \in Nat /\ started' <= MaxStarts
  BY <1>2, WordBound DEF ChargeInv
<1>10. IsFiniteSet(registry')
  BY <1>2 DEF ChargeInv
<1>11. active \in [Tier -> Word0]
  BY DEF ChargeInv
<1> HIDE DEF k, j, e
<1>12. /\ active' \in [Tier -> Word0]
       /\ Holds(active'["P0Critical"], active'["P1Normal"], active'["P2Background"], started', j)
  <2>1. CASE e.priority = "P1Normal"
    <3>1. /\ Up(active["P1Normal"]) \in Word0
          /\ Holds(active["P0Critical"], Up(active["P1Normal"]), active["P2Background"],
                   started + 1, j)
      BY <1>2, <1>7, <1>8, <1>9, ChargeFacts, HoldsNormal
    <3> QED
      BY <1>1, <1>2, <1>11, <2>1, <3>1 DEF Tier
  <2>2. CASE e.priority = "P0Critical"
    <3>1. /\ Up(active["P0Critical"]) \in Word0
          /\ Holds(Up(active["P0Critical"]), active["P1Normal"], active["P2Background"],
                   started + 1, j)
      BY <1>2, <1>7, <1>8, <1>9, ChargeFacts, HoldsOther
    <3> QED
      BY <1>1, <1>2, <1>11, <2>2, <3>1 DEF Tier
  <2>3. CASE e.priority = "P2Background"
    <3>1. /\ Up(active["P2Background"]) \in Word0
          /\ Holds(active["P0Critical"], active["P1Normal"], Up(active["P2Background"]),
                   started + 1, j)
      BY <1>2, <1>7, <1>8, <1>9, ChargeFacts, HoldsOther
    <3> QED
      BY <1>1, <1>2, <1>11, <2>3, <3>1 DEF Tier
  <2> QED
    BY <1>1, <2>1, <2>2, <2>3 DEF Tier
<1> QED
  BY <1>5, <1>6, <1>9, <1>10, <1>12 DEF ChargeInv, j

LEMMA RemoveCharges ==
    ASSUME Shape, ChargeInv, NEW c \in Conn, RemoveTask(c)
    PROVE  ChargeInv'
<1> DEFINE t == job[c].req.task
<1>1. /\ registry' = registry \ {t} /\ UNCHANGED <<active, started, admitted>>
      /\ job[c].step = "start"
  BY DEF RemoveTask, At
<1>2. c \notin Releasing
  BY <1>1 DEF Releasing
<1>3. CASE t \in registry
  <2>1. job'[c].step = "release" /\ \A d \in Conn \ {c} : job'[d] = job[d]
    BY <1>3, GoToEffect DEF RemoveTask, Steps
  <2>2. Releasing' = Releasing \union {c}
    BY <2>1, ReleasingAfter
  <2>3. /\ IsFiniteSet(Releasing') /\ Cardinality(Releasing') = Cardinality(Releasing) + 1
    BY <1>2, <2>2, CardAfter DEF ChargeInv
  <2>4. /\ IsFiniteSet(registry') /\ Cardinality(registry') = Cardinality(registry) - 1
    BY <1>1, <1>3, CardAfter DEF ChargeInv
  <2>5. Owing' = Owing
    BY <1>1, <2>3, <2>4, ChargeFacts DEF Owing
  <2>6. Owing' \in Nat /\ Owing' <= Owing
    BY <2>5, ChargeFacts
  <2> QED
    BY <1>1, <2>3, <2>4, <2>6, ChargeOwed DEF ChargeInv
<1>4. CASE t \notin registry
  <2>1. job'[c].step = "done" /\ \A d \in Conn \ {c} : job'[d] = job[d]
    BY <1>4, StopEffect DEF RemoveTask
  <2>2. registry' = registry
    BY <1>1, <1>4
  <2> QED
    BY <1>1, <2>1, <2>2, ChargeMove
<1> QED
  BY <1>3, <1>4

LEMMA ReleaseCharges ==
    ASSUME Shape, ChargeInv, NEW c \in Conn, ReleaseBudget(c)
    PROVE  ChargeInv'
<1> DEFINE k == Owing
           j == Owing'
<1>1. /\ c \in Releasing /\ UNCHANGED <<registry, admitted, started>>
      /\ active' = [active EXCEPT !["P1Normal"] = Down(active["P1Normal"])]
  BY DEF ReleaseBudget, At, Releasing, Down, Word
<1>2. job'[c].step = "done" /\ \A d \in Conn \ {c} : job'[d] = job[d]
  BY StopEffect DEF ReleaseBudget
<1>3. Releasing' = Releasing \ {c}
  BY <1>2, ReleasingAfter
<1>4. /\ Cardinality(Releasing') \in Nat
      /\ IsFiniteSet(Releasing') /\ Cardinality(Releasing') = Cardinality(Releasing) - 1
  BY <1>1, <1>3, CardAfter DEF ChargeInv
<1>5. k \in Nat /\ j \in Nat /\ j = k - 1
  BY <1>1, <1>4, ChargeFacts DEF Owing
<1>6. Holds(active["P0Critical"], active["P1Normal"], active["P2Background"], started, k)
      /\ started \in Nat /\ started <= MaxStarts /\ active \in [Tier -> Word0]
  BY DEF ChargeInv
<1> HIDE DEF k, j
<1>7. /\ Down(active["P1Normal"]) \in Word0
      /\ Holds(active["P0Critical"], Down(active["P1Normal"]), active["P2Background"], started, j)
  BY <1>5, <1>6, ChargeFacts, HoldsEnd
<1>8. /\ active' \in [Tier -> Word0]
      /\ Holds(active'["P0Critical"], active'["P1Normal"], active'["P2Background"], started', j)
  BY <1>1, <1>6, <1>7 DEF Tier
<1> QED
  BY <1>1, <1>4, <1>8 DEF ChargeInv, j

LEMMA RegisterCharges ==
    ASSUME ChargeInv, NEW t, Register(t)
    PROVE  ChargeInv'
<1>1. /\ t \in admitted /\ admitted' = admitted \ {t} /\ registry' = registry \union {t}
      /\ UNCHANGED <<active, started>> /\ Releasing' = Releasing
  BY DEF Register, Releasing
<1>2. IsFiniteSet(admitted') /\ Cardinality(admitted') = Cardinality(admitted) - 1
  BY <1>1, CardAfter DEF ChargeInv
<1>3. /\ IsFiniteSet(registry') /\ Cardinality(registry') \in Nat
      /\ Cardinality(registry') <= Cardinality(registry) + 1
  BY <1>1, CardAfter DEF ChargeInv
<1>4. Cardinality(admitted') \in Nat
  BY <1>2, FS_CardinalityType
<1>5. Owing' \in Nat /\ Owing' <= Owing
  BY <1>1, <1>2, <1>3, <1>4, ChargeFacts DEF Owing
<1> QED
  BY <1>1, <1>2, <1>3, <1>5, ChargeOwed DEF ChargeInv

\* No task is charged yet.
LEMMA NoCharges ==
    ASSUME Releasing = {}, registry = {}, admitted = {}, started = 0, active = [t \in Tier |-> 0]
    PROVE  ChargeInv
<1>1. IsFiniteSet({}) /\ Cardinality({}) = 0
  BY FS_EmptySet
<1>2. Owing = 0
  BY <1>1 DEF Owing
<1>3. 0 \in Word0
  BY WordBound DEF Word0
<1>4. active \in [Tier -> Word0] /\ active["P0Critical"] = 0 /\ active["P1Normal"] = 0
      /\ active["P2Background"] = 0
  BY <1>3 DEF Tier
<1>5. Holds(0, 0, 0, 0, 0)
  BY DEF Holds
<1> QED
  BY <1>1, <1>2, <1>4, <1>5, WordBound DEF ChargeInv

LEMMA ChargeStep == KInv /\ ChargeInv /\ [Next]_vars => ChargeInv'
<1> SUFFICES ASSUME KInv, ChargeInv, [Next]_vars PROVE ChargeInv'
  OBVIOUS
<1>0. Shape
  BY DEF KInv
<1>1. CASE Boot \/ Spawn \/ Broadcast \/ JoinServer \/ StopProcess \/ Signal \/ Listen
           \/ ServerEnds \/ UNCHANGED vars
  <2>1. UNCHANGED <<active, started, registry, admitted, job>>
    BY <1>1 DEF Boot, Spawn, Broadcast, JoinServer, StopProcess, Signal, Listen, ServerEnds,
                vars, handlerVars
  <2> QED
    BY <2>1, ChargeKept
<1>2. CASE RegisterTask
  BY <1>2, RegisterCharges DEF RegisterTask
<1>3. CASE Exit \/ Crash
  <2>1. job' = [c \in Conn |-> NoJob]
    BY <1>3 DEF Exit, Crash
  <2>2. Releasing' = {}
    BY <2>1, JobsMade DEF Releasing
  <2>3. CASE Exit
    <3>1. IsFiniteSet(Releasing') /\ Cardinality(Releasing') = 0
      BY <2>2, FS_EmptySet
    <3>2. UNCHANGED <<active, started, registry, admitted>>
      BY <2>3 DEF Exit
    <3>3. Owing' \in Nat /\ Owing' <= Owing
      BY <3>1, <3>2, ChargeFacts DEF Owing
    <3> QED
      BY <3>1, <3>2, <3>3, ChargeOwed DEF ChargeInv
  <2>4. CASE Crash
    <3>1. active' = [t \in Tier |-> 0] /\ registry' = {} /\ admitted' = {} /\ started' = 0
      BY <2>4 DEF Crash
    <3>2. IsFiniteSet({}) /\ Cardinality({}) = 0
      BY FS_EmptySet
    <3>3. Owing' = 0
      BY <2>2, <3>1, <3>2 DEF Owing
    <3>4. 0 \in Word0 /\ 0 <= MaxStarts
      BY WordBound DEF Word0
    <3>5. active' \in [Tier -> Word0] /\ active'["P0Critical"] = 0 /\ active'["P1Normal"] = 0
          /\ active'["P2Background"] = 0
      BY <3>1, <3>4 DEF Tier
    <3>6. Holds(0, 0, 0, 0, 0)
      BY DEF Holds
    <3> QED
      BY <2>2, <3>1, <3>2, <3>3, <3>4, <3>5, <3>6 DEF ChargeInv
  <2> QED
    BY <1>3, <2>3, <2>4
<1>4. ASSUME NEW c \in Conn,
             \/ Accept(c) \/ HangUp(c) \/ Call(c) \/ CutOff(c) \/ ReadAnswer(c)
             \/ Abandon(c) \/ Leave(c)
      PROVE  ChargeInv'
  <2>1. UNCHANGED <<active, started, registry, admitted, job>>
    BY <1>4 DEF Accept, HangUp, Call, CutOff, ReadAnswer, Abandon, Leave, handlerVars
  <2> QED
    BY <2>1, ChargeKept
<1>5. ASSUME NEW c \in Conn, ReadLine(c) \/ WriteAnswer(c) PROVE ChargeInv'
  <2>1. UNCHANGED <<active, started, registry, admitted>>
    BY <1>5 DEF ReadLine, WriteAnswer
  <2>2. job'[c].step # "release" /\ \A d \in Conn \ {c} : job'[d] = job[d]
    <3>1. CASE ReadLine(c)
      <4>1. PICK r \in Requests : Dispatch(c, r)
        BY <3>1 DEF ReadLine
      <4> QED
        BY <1>0, <4>1, JobsMade DEF Dispatch, Shape
    <3>2. CASE WriteAnswer(c)
      BY <1>0, <3>2, JobsMade DEF WriteAnswer, Shape
    <3> QED
      BY <1>5, <3>1, <3>2
  <2> QED
    BY <2>1, <2>2, ChargeMove
<1>6. ASSUME NEW c \in Conn, Handle(c) PROVE ChargeInv'
  <2>1. CASE StartTask(c)
    BY <1>0, <2>1, StartCharges
  <2>2. CASE RemoveTask(c)
    BY <1>0, <2>2, RemoveCharges
  <2>3. CASE ReleaseBudget(c)
    BY <1>0, <2>3, ReleaseCharges
  <2>4. CASE CheckSubmit(c) \/ CheckTrigger(c) \/ LockStore(c) \/ PutDrift(c) \/ PutCycle(c)
             \/ PutHead(c)
    <3>1. UNCHANGED <<active, started, registry, admitted>>
      BY <2>4 DEF CheckSubmit, CheckTrigger, LockStore, PutDrift, PutCycle, PutHead, PutRecord
    <3>2. Stop(c) \/ \E s \in {"admit", "persist", "drift", "cycle", "head"} : GoTo(c, s)
      BY <2>4 DEF CheckSubmit, CheckTrigger, LockStore, PutDrift, PutCycle, PutHead, PutRecord
    <3>3. job'[c].step # "release" /\ \A d \in Conn \ {c} : job'[d] = job[d]
      BY <1>0, <3>2, StopEffect, GoToEffect DEF Steps
    <3> QED
      BY <3>1, <3>3, ChargeMove
  <2> QED
    BY <1>6, <2>1, <2>2, <2>3, <2>4 DEF Handle, HandlerStep
<1> QED
  BY <1>1, <1>2, <1>3, <1>4, <1>5, <1>6 DEF Next, Daemon

\* Whatever the priorities of the tasks and however many connections submit,
\* register and complete them side by side, completions of unknown and of
\* completed tasks included, the tiers together stay charged for every task
\* that was admitted and has not completed, as long as the tasks of one life
\* of the daemon are fewer than the counters can hold.
THEOREM ChargeHolds == Spec => []LiveTasksCharged
<1>1. Init => KInv /\ ChargeInv
  <2> SUFFICES ASSUME Init PROVE KInv /\ ChargeInv
    OBVIOUS
  <2>1. KInv
    BY InitKInv
  <2>2. Releasing = {}
    BY JobsMade DEF Init, Releasing
  <2>3. ChargeInv
    BY <2>2, NoCharges DEF Init
  <2> QED
    BY <2>1, <2>3
<1>2. ChargeInv => LiveTasksCharged
  <2> SUFFICES ASSUME ChargeInv PROVE Charge >= Cardinality(registry \union admitted)
    BY DEF LiveTasksCharged
  <2> DEFINE k == Owing
             j == Cardinality(registry \union admitted)
  <2>1. k \in Nat /\ j \in Nat /\ j <= k
    <3>1. /\ IsFiniteSet(registry \union admitted) /\ IsFiniteSet(registry \cap admitted)
          /\ Cardinality(registry \union admitted) =
               Cardinality(registry) + Cardinality(admitted) - Cardinality(registry \cap admitted)
      BY FS_Union, FS_Intersection DEF ChargeInv
    <3>2. Cardinality(registry \cap admitted) \in Nat /\ j \in Nat
      BY <3>1, FS_CardinalityType
    <3> QED
      BY <3>1, <3>2, ChargeFacts DEF Owing
  <2>2. Holds(active["P0Critical"], active["P1Normal"], active["P2Background"], started, k)
        /\ started \in Nat /\ started <= MaxStarts
    BY DEF ChargeInv
  <2> HIDE DEF k, j
  <2>3. (active["P0Critical"] + active["P1Normal"] + active["P2Background"]) % Word >= j
    BY <2>1, <2>2, ChargeFacts, HoldsSum
  <2> QED
    BY <2>3 DEF Charge, Word, j
<1> QED
  BY <1>1, <1>2, NextKeeps, ChargeStep, PTL DEF Spec

-----------------------------------------------------------------------------
(* The lines of a connection *)

\* The streams of a connection hold consecutive ids, from the oldest answer
\* to the newest request: n answers were read, a are unread, h is in hand, r
\* are unread lines and s were sent.
Taken(a, h) == IF h = 0 THEN Len(a) ELSE Len(a) + 1

Ordered(n, a, h, r, s) ==
    /\ n + Taken(a, h) + Len(r) = s
    /\ \A i \in 1..Len(a) : a[i] = n + i
    /\ h # 0 => h = n + Len(a) + 1
    /\ \A i \in 1..Len(r) : r[i] = n + Taken(a, h) + i

-----------------------------------------------------------------------------

LEMMA TakenIs ==
    ASSUME NEW a \in Seq(Nat), NEW h \in Nat
    PROVE  /\ Len(a) \in Nat /\ Taken(a, h) \in Nat
           /\ h = 0 => Taken(a, h) = Len(a)
           /\ h # 0 => Taken(a, h) = Len(a) + 1
BY DEF Taken

LEMMA Taking ==
    ASSUME NEW a \in Seq(Nat), NEW r \in Seq(Nat), NEW n \in Nat, NEW s \in Nat,
           Ordered(n, a, 0, r, s), r # <<>>
    PROVE  Ordered(n, a, Head(r), Tail(r), s) /\ Head(r) # 0
<1> DEFINE h == Head(r)
           q == Tail(r)
<1>1. /\ Len(r) \in Nat /\ Len(r) > 0 /\ Len(a) \in Nat
      /\ h = r[1] /\ h \in Nat /\ q \in Seq(Nat) /\ Len(q) = Len(r) - 1
      /\ \A i \in 1..Len(q) : q[i] = r[i + 1]
  OBVIOUS
<1> HIDE DEF h, q
<1>9. Taken(a, 0) = Len(a)
  BY TakenIs
<1>2. h = n + Len(a) + 1
  <2>1. 1 \in 1..Len(r)
    BY <1>1
  <2>2. r[1] = n + Taken(a, 0) + 1
    BY <2>1 DEF Ordered
  <2> QED
    BY <1>1, <1>9, <2>2
<1>3. h # 0 /\ Taken(a, h) = Len(a) + 1
  <2>1. h # 0
    BY <1>1, <1>2
  <2> QED
    BY <1>1, <2>1, TakenIs
<1>4. ASSUME NEW i \in 1..Len(q) PROVE q[i] = n + Taken(a, h) + i
  <2>1. i + 1 \in 1..Len(r) /\ q[i] = r[i + 1]
    BY <1>1
  <2>2. r[i + 1] = n + Taken(a, 0) + (i + 1)
    BY <2>1 DEF Ordered
  <2>3. i \in Int
    BY <1>1
  <2>4. r[i + 1] = n + Len(a) + (i + 1) /\ Len(a) \in Nat
    BY <1>1, <1>9, <2>2
  <2>5. n + Len(a) + (i + 1) = n + (Len(a) + 1) + i
    BY <2>3, <2>4
  <2> QED
    BY <1>3, <2>1, <2>4, <2>5
<1>5. n + Taken(a, h) + Len(q) = s
  <2>1. n + Taken(a, 0) + Len(r) = s
    BY DEF Ordered
  <2>2. n + Len(a) + Len(r) = s
    BY <1>9, <2>1
  <2>3. Len(a) \in Nat /\ Len(r) \in Nat /\ Len(q) = Len(r) - 1
    BY <1>1
  <2>4. \A x, y, z \in Int : n + x + y = s /\ z = y - 1 => n + (x + 1) + z = s
    OBVIOUS
  <2>5. n + (Len(a) + 1) + Len(q) = s
    <3>1. Len(a) \in Int /\ Len(r) \in Int /\ Len(q) \in Int
      BY <2>3
    <3> QED
      BY <2>2, <2>3, <2>4, <3>1, Zenon
  <2> QED
    BY <1>3, <2>5
<1>6. \A i \in 1..Len(a) : a[i] = n + i
  BY DEF Ordered
<1>7. Ordered(n, a, h, q, s)
  BY <1>2, <1>4, <1>5, <1>6 DEF Ordered
<1> QED
  BY <1>3, <1>7 DEF h, q

LEMMA Putting ==
    ASSUME NEW a \in Seq(Nat), NEW r \in Seq(Nat), NEW n \in Nat, NEW s \in Nat,
           NEW h \in Nat, Ordered(n, a, h, r, s), h # 0
    PROVE  Ordered(n, Append(a, h), 0, r, s)
<1> DEFINE b == Append(a, h)
<1>1. /\ b \in Seq(Nat) /\ Len(a) \in Nat /\ Len(b) = Len(a) + 1
      /\ \A i \in 1..Len(a) : b[i] = a[i]
      /\ b[Len(a) + 1] = h
  OBVIOUS
<1> HIDE DEF b
<1>2. Taken(a, h) = Len(a) + 1 /\ Taken(b, 0) = Len(a) + 1
  BY <1>1, TakenIs
<1>3. \A i \in 1..Len(b) : b[i] = n + i
  <2> TAKE i \in 1..Len(b)
  <2>1. CASE i = Len(a) + 1
    BY <1>1, <2>1 DEF Ordered
  <2>2. CASE i \in 1..Len(a)
    BY <1>1, <2>2 DEF Ordered
  <2> QED
    BY <1>1, <2>1, <2>2
<1>4. Ordered(n, b, 0, r, s)
  BY <1>1, <1>2, <1>3 DEF Ordered
<1> QED
  BY <1>4 DEF b

LEMMA Sending ==
    ASSUME NEW a \in Seq(Nat), NEW r \in Seq(Nat), NEW n \in Nat, NEW s \in Nat,
           NEW h \in Nat, Ordered(n, a, h, r, s)
    PROVE  Ordered(n, a, h, Append(r, s + 1), s + 1)
<1> DEFINE q == Append(r, s + 1)
<1>1. /\ Len(r) \in Nat /\ Len(q) = Len(r) + 1
      /\ \A i \in 1..Len(r) : q[i] = r[i]
      /\ q[Len(r) + 1] = s + 1
  OBVIOUS
<1> HIDE DEF q
<1>2. Taken(a, h) \in Nat
  BY TakenIs
<1>3. \A i \in 1..Len(q) : q[i] = n + Taken(a, h) + i
  <2> TAKE i \in 1..Len(q)
  <2>1. CASE i = Len(r) + 1
    BY <1>1, <1>2, <2>1 DEF Ordered
  <2>2. CASE i \in 1..Len(r)
    BY <1>1, <1>2, <2>2 DEF Ordered
  <2> QED
    BY <1>1, <2>1, <2>2
<1>4. Ordered(n, a, h, q, s + 1)
  BY <1>1, <1>2, <1>3 DEF Ordered
<1> QED
  BY <1>4 DEF q

LEMMA Reading ==
    ASSUME NEW a \in Seq(Nat), NEW r \in Seq(Nat), NEW n \in Nat, NEW s \in Nat,
           NEW h \in Nat, Ordered(n, a, h, r, s), a # <<>>
    PROVE  Ordered(n + 1, Tail(a), h, r, s)
<1> DEFINE b == Tail(a)
<1>1. /\ b \in Seq(Nat) /\ Len(a) \in Nat /\ Len(a) > 0 /\ Len(b) = Len(a) - 1
      /\ \A i \in 1..Len(b) : b[i] = a[i + 1]
  OBVIOUS
<1> HIDE DEF b
<1>2. Taken(b, h) = Taken(a, h) - 1 /\ Taken(a, h) \in Nat
  <2>1. CASE h = 0
    <3>1. Taken(b, h) = Len(b) /\ Taken(a, h) = Len(a)
      BY <1>1, <2>1, TakenIs
    <3> QED
      BY <1>1, <3>1
  <2>2. CASE h # 0
    <3>1. Taken(b, h) = Len(b) + 1 /\ Taken(a, h) = Len(a) + 1
      BY <1>1, <2>2, TakenIs
    <3> QED
      BY <1>1, <3>1
  <2> QED
    BY <2>1, <2>2
<1>3. ASSUME NEW i \in 1..Len(b) PROVE b[i] = (n + 1) + i
  <2>1. i + 1 \in 1..Len(a) /\ b[i] = a[i + 1]
    BY <1>1
  <2>2. a[i + 1] = n + (i + 1)
    BY <2>1 DEF Ordered
  <2> QED
    BY <1>1, <2>1, <2>2
<1>4. \A i \in 1..Len(r) : r[i] = (n + 1) + Taken(b, h) + i
  BY <1>2 DEF Ordered
<1>5. (n + 1) + Taken(b, h) + Len(r) = s /\ (h # 0 => h = (n + 1) + Len(b) + 1)
  BY <1>1, <1>2 DEF Ordered
<1>6. Ordered(n + 1, b, h, r, s)
  BY <1>3, <1>4, <1>5 DEF Ordered
<1> QED
  BY <1>6 DEF b

\* What OneAnswerEach says of the concatenation of the streams.
Answered(n, a, h, r, s) ==
    LET hand == IF h = 0 THEN <<>> ELSE <<h>>
        all  == a \o hand \o r
    IN  /\ n + Len(all) = s
        /\ \A i \in 1..Len(all) : all[i] = n + i

LEMMA Concatenated ==
    ASSUME NEW a \in Seq(Nat), NEW r \in Seq(Nat), NEW n \in Nat, NEW s \in Nat,
           NEW h \in Nat, Ordered(n, a, h, r, s)
    PROVE  Answered(n, a, h, r, s)
<1> DEFINE hand == IF h = 0 THEN <<>> ELSE <<h>>
           front == a \o hand
           all   == front \o r
<1>0. Len(a) \in Nat /\ Len(r) \in Nat
  OBVIOUS
<1>1. hand \in Seq(Nat) /\ (h = 0 => Len(hand) = 0) /\ (h # 0 => Len(hand) = 1 /\ hand[1] = h)
  <2>1. CASE h = 0
    BY <2>1
  <2>2. CASE h # 0
    BY <2>2
  <2> QED
    BY <2>1, <2>2
<1> HIDE DEF hand
<1>2. /\ front \in Seq(Nat) /\ Len(front) = Len(a) + Len(hand)
      /\ \A i \in 1..Len(a) + Len(hand) :
           front[i] = IF i <= Len(a) THEN a[i] ELSE hand[i - Len(a)]
  BY <1>1, ConcatProperties
<1> HIDE DEF front
<1>3. Len(front) = Taken(a, h) /\ Len(front) \in Nat
  <2>1. CASE h = 0
    BY <1>0, <1>1, <1>2, <2>1, TakenIs
  <2>2. CASE h # 0
    BY <1>0, <1>1, <1>2, <2>2, TakenIs
  <2> QED
    BY <2>1, <2>2
<1>4. ASSUME NEW i \in 1..Len(front) PROVE front[i] = n + i
  <2>1. CASE i <= Len(a)
    BY <1>0, <1>2, <2>1 DEF Ordered
  <2>2. CASE i > Len(a)
    <3>1. h # 0
      BY <1>0, <1>1, <1>2, <2>2
    <3>2. i = Len(a) + 1 /\ front[i] = hand[i - Len(a)]
      <4>1. Len(front) = Len(a) + 1 /\ Len(hand) = 1
        BY <1>1, <1>2, <3>1
      <4>2. i \in 1..Len(a) + Len(hand) /\ i = Len(a) + 1 /\ ~(i <= Len(a))
        BY <1>0, <2>2, <4>1
      <4> QED
        BY <1>2, <4>2
    <3>3. h = n + Len(a) + 1
      BY <3>1 DEF Ordered
    <3> QED
      BY <1>0, <1>1, <3>1, <3>2, <3>3
  <2> QED
    BY <1>0, <2>1, <2>2
<1>5. /\ all \in Seq(Nat) /\ Len(all) = Len(front) + Len(r)
      /\ \A i \in 1..Len(front) + Len(r) :
           all[i] = IF i <= Len(front) THEN front[i] ELSE r[i - Len(front)]
  <2>1. front \in Seq(Nat)
    BY <1>2
  <2> QED
    BY <2>1, ConcatProperties, Zenon
<1> HIDE DEF all
<1>6. n + Len(all) = s
  BY <1>0, <1>3, <1>5 DEF Ordered
<1>7. ASSUME NEW i \in 1..Len(all) PROVE all[i] = n + i
  <2>1. CASE i <= Len(front)
    BY <1>0, <1>3, <1>4, <1>5, <2>1
  <2>2. CASE i > Len(front)
    <3>1. i - Len(front) \in 1..Len(r) /\ all[i] = r[i - Len(front)]
      BY <1>0, <1>3, <1>5, <2>2
    <3> QED
      BY <1>0, <1>3, <3>1 DEF Ordered
  <2> QED
    BY <1>0, <1>3, <1>5, <2>1, <2>2
<1> QED
  BY <1>6, <1>7 DEF hand, front, all, Answered

-----------------------------------------------------------------------------

Phases == {"none", "open", "left", "closed"}
Halves == {"no", "one", "many"}
Links ==
    [phase : Phases, sent : Nat, read : Nat, waiting : Nat, requests : Seq(Nat),
     handling : Nat, answers : Seq(Nat), told : BOOLEAN, half : Halves, broken : SUBSET Nat]

\* A link and the job of its connection.
LinkOK(l, j) ==
    /\ l.phase = "none" =>
         /\ l.sent = 0 /\ l.read = 0 /\ l.handling = 0
         /\ l.requests = <<>> /\ l.answers = <<>>
    /\ l.phase = "open" => Ordered(l.read, l.answers, l.handling, l.requests, l.sent)
    /\ l.phase = "left" => \A i \in 1..Len(l.requests) : l.requests[i] # 0
    /\ l.phase = "closed" => l.handling = 0
    /\ l.handling = 0 <=> j.step = "idle"

LinkInv ==
    /\ link \in [Conn -> Links]
    /\ \A c \in Conn : LinkOK(link[c], job[c])

LEMMA LinksMade ==
    /\ NoLink \in Links /\ NoLink.phase = "none" /\ NoLink.sent = 0 /\ NoLink.read = 0
    /\ NoLink.handling = 0 /\ NoLink.requests = <<>> /\ NoLink.answers = <<>>
    /\ Closed \in Links /\ Closed.phase = "closed" /\ Closed.handling = 0
<1>1. <<>> \in Seq(Nat)
  OBVIOUS
<1>2. NoLink \in Links
  BY <1>1 DEF NoLink, Links, Phases, Halves
<1>3. NoLink.phase = "none" /\ NoLink.sent = 0 /\ NoLink.read = 0
      /\ NoLink.handling = 0 /\ NoLink.requests = <<>> /\ NoLink.answers = <<>>
  BY DEF NoLink
<1>4. Closed \in Links /\ Closed.phase = "closed" /\ Closed.handling = 0
  BY <1>2, <1>3 DEF Closed, Links, Phases
<1> QED
  BY <1>2, <1>3, <1>4

LEMMA LinkFields ==
    ASSUME NEW l \in Links
    PROVE  /\ l.sent \in Nat /\ l.read \in Nat /\ l.handling \in Nat
           /\ l.requests \in Seq(Nat) /\ l.answers \in Seq(Nat)
           /\ l.half \in Halves /\ l.broken \in SUBSET Nat
BY DEF Links

\* A step that changes one connection, its link and its job.
LEMMA OneLink ==
    ASSUME LinkInv, NEW c \in Conn, NEW l \in Links, link' = [link EXCEPT ![c] = l],
           \A d \in Conn \ {c} : job'[d] = job[d], LinkOK(l, job'[c])
    PROVE  LinkInv'
<1>1. link' \in [Conn -> Links] /\ link'[c] = l /\ \A d \in Conn \ {c} : link'[d] = link[d]
  BY DEF LinkInv
<1>2. ASSUME NEW d \in Conn PROVE LinkOK(link'[d], job'[d])
  <2>1. CASE d = c
    BY <1>1, <2>1
  <2>2. CASE d # c
    BY <1>1, <2>2 DEF LinkInv
  <2> QED
    BY <2>1, <2>2
<1> QED
  BY <1>1, <1>2 DEF LinkInv

LEMMA AcceptLinks == ASSUME LinkInv, NEW c \in Conn, Accept(c) PROVE LinkInv'
<1> DEFINE l == [link[c] EXCEPT !.phase = "open"]
<1>1. link' = [link EXCEPT ![c] = l] /\ job' = job /\ link[c].phase = "none"
  BY DEF Accept, handlerVars
<1>2. link[c] \in Links /\ LinkOK(link[c], job[c])
  BY DEF LinkInv
<1>3. /\ l \in Links /\ l.phase = "open" /\ l.sent = link[c].sent /\ l.read = link[c].read
      /\ l.handling = link[c].handling /\ l.requests = link[c].requests
      /\ l.answers = link[c].answers
  BY <1>2 DEF Links, Phases
<1>4. Ordered(0, <<>>, 0, <<>>, 0)
  BY DEF Ordered, Taken
<1> HIDE DEF l
<1>5. LinkOK(l, job'[c])
  BY <1>1, <1>2, <1>3, <1>4 DEF LinkOK
<1> QED
  BY <1>1, <1>3, <1>5, OneLink

LEMMA ReadLineLinks == ASSUME Shape, LinkInv, NEW c \in Conn, ReadLine(c) PROVE LinkInv'
<1> DEFINE k == link[c]
           l == [link[c] EXCEPT !.handling = Head(link[c].requests),
                                !.requests = Tail(link[c].requests),
                                !.broken = link[c].broken \ {Head(link[c].requests)}]
<1>1. /\ link' = [link EXCEPT ![c] = l] /\ k.handling = 0 /\ k.requests # <<>>
      /\ k.phase \in {"open", "left"}
  BY DEF ReadLine
<1>2. k \in Links /\ LinkOK(k, job[c])
  BY DEF LinkInv
<1>3. k.sent \in Nat /\ k.read \in Nat /\ k.requests \in Seq(Nat) /\ k.answers \in Seq(Nat)
  BY <1>2, LinkFields
<1>4. /\ Head(k.requests) \in Nat /\ Tail(k.requests) \in Seq(Nat)
      /\ k.broken \ {Head(k.requests)} \in SUBSET Nat
  BY <1>1, <1>2, <1>3, LinkFields
<1>5. /\ l \in Links /\ l.phase = k.phase /\ l.sent = k.sent /\ l.read = k.read
      /\ l.handling = Head(k.requests) /\ l.requests = Tail(k.requests)
      /\ l.answers = k.answers
  BY <1>2, <1>4 DEF Links
<1>6. /\ \A d \in Conn \ {c} : job'[d] = job[d]
      /\ job'[c].step # "idle"
  <2>1. PICK r \in Requests : Dispatch(c, r)
    BY DEF ReadLine
  <2> QED
    BY <2>1, JobsMade DEF Dispatch, Shape
<1> HIDE DEF l
<1>7. CASE k.phase = "open"
  <2>1. Ordered(k.read, k.answers, 0, k.requests, k.sent)
    BY <1>1, <1>2, <1>7 DEF LinkOK
  <2>2. /\ Ordered(k.read, k.answers, Head(k.requests), Tail(k.requests), k.sent)
        /\ Head(k.requests) # 0
    BY <1>1, <1>3, <2>1, Taking
  <2>3. LinkOK(l, job'[c])
    BY <1>5, <1>6, <1>7, <2>2 DEF LinkOK
  <2> QED
    BY <1>1, <1>5, <1>6, <2>3, OneLink
<1>8. CASE k.phase = "left"
  <2>1. \A i \in 1..Len(k.requests) : k.requests[i] # 0
    BY <1>2, <1>8 DEF LinkOK
  <2>2. /\ Head(k.requests) # 0
        /\ \A i \in 1..Len(Tail(k.requests)) : Tail(k.requests)[i] # 0
    BY <1>1, <1>3, <2>1
  <2>3. LinkOK(l, job'[c])
    BY <1>5, <1>6, <1>8, <2>2 DEF LinkOK
  <2> QED
    BY <1>1, <1>5, <1>6, <2>3, OneLink
<1> QED
  BY <1>1, <1>7, <1>8

LEMMA WriteLinks == ASSUME Shape, LinkInv, NEW c \in Conn, WriteAnswer(c) PROVE LinkInv'
<1> DEFINE k == link[c]
           l == [link[c] EXCEPT !.answers = AnswersAfter(c), !.handling = 0]
<1>1. /\ link' = [link EXCEPT ![c] = IF k.phase = "left" THEN Closed ELSE l]
      /\ job[c].step = "done"
  BY DEF WriteAnswer
<1>2. job'[c].step = "idle" /\ \A d \in Conn \ {c} : job'[d] = job[d]
  BY JobsMade DEF WriteAnswer, Shape
<1>3. k \in Links /\ LinkOK(k, job[c])
  BY DEF LinkInv
<1>4. /\ k.sent \in Nat /\ k.read \in Nat /\ k.handling \in Nat
      /\ k.requests \in Seq(Nat) /\ k.answers \in Seq(Nat)
  BY <1>3, LinkFields
<1>5. k.handling # 0 /\ k.phase \in {"open", "left"}
  BY <1>1, <1>3 DEF LinkOK, Links, Phases
<1>6. AnswersAfter(c) = Append(k.answers, k.handling) /\ AnswersAfter(c) \in Seq(Nat)
  BY <1>4 DEF AnswersAfter
<1>7. /\ l \in Links /\ l.phase = k.phase /\ l.sent = k.sent /\ l.read = k.read
      /\ l.handling = 0 /\ l.requests = k.requests /\ l.answers = AnswersAfter(c)
  BY <1>3, <1>6 DEF Links
<1> HIDE DEF l
<1>8. CASE k.phase = "left"
  <2>1. link' = [link EXCEPT ![c] = Closed]
    BY <1>1, <1>8
  <2>2. LinkOK(Closed, job'[c])
    BY <1>2, LinksMade DEF LinkOK
  <2> QED
    BY <1>2, <2>1, <2>2, LinksMade, OneLink
<1>9. CASE k.phase = "open"
  <2>1. link' = [link EXCEPT ![c] = l]
    BY <1>1, <1>9
  <2>2. Ordered(k.read, k.answers, k.handling, k.requests, k.sent)
    BY <1>3, <1>9 DEF LinkOK
  <2>3. Ordered(l.read, l.answers, 0, l.requests, l.sent)
    BY <1>4, <1>5, <1>6, <1>7, <2>2, Putting
  <2>4. LinkOK(l, job'[c])
    BY <1>2, <1>7, <1>9, <2>3 DEF LinkOK
  <2> QED
    BY <1>2, <1>7, <2>1, <2>4, OneLink
<1> QED
  BY <1>5, <1>8, <1>9

LEMMA HangUpLinks == ASSUME LinkInv, NEW c \in Conn, HangUp(c) PROVE LinkInv'
<1>1. link' = [link EXCEPT ![c] = Closed] /\ job' = job /\ link[c].handling = 0
  BY DEF HangUp, handlerVars
<1>2. LinkOK(Closed, job'[c])
  BY <1>1, LinksMade DEF LinkInv, LinkOK
<1> QED
  BY <1>1, <1>2, LinksMade, OneLink

LEMMA CallLinks == ASSUME LinkInv, NEW c \in Conn, Call(c) PROVE LinkInv'
<1> DEFINE k == link[c]
           l == [link[c] EXCEPT !.sent = link[c].sent + 1, !.waiting = link[c].sent + 1,
                                !.requests = Append(link[c].requests, link[c].sent + 1),
                                !.half = "no",
                                !.broken = IF link[c].half = "no" THEN link[c].broken
                                           ELSE link[c].broken \union {link[c].sent + 1}]
<1>1. link' = [link EXCEPT ![c] = l] /\ job' = job /\ k.phase = "open"
  BY DEF Call, MayCall, handlerVars
<1>2. k \in Links /\ LinkOK(k, job[c])
  BY DEF LinkInv
<1>3. /\ k.sent \in Nat /\ k.read \in Nat /\ k.handling \in Nat
      /\ k.requests \in Seq(Nat) /\ k.answers \in Seq(Nat)
  BY <1>2, LinkFields
<1>4. /\ k.sent + 1 \in Nat /\ Append(k.requests, k.sent + 1) \in Seq(Nat) /\ "no" \in Halves
      /\ k.broken \in SUBSET Nat /\ k.broken \union {k.sent + 1} \in SUBSET Nat
  BY <1>2, <1>3, LinkFields DEF Halves
<1>5. /\ l \in Links /\ l.phase = k.phase /\ l.sent = k.sent + 1 /\ l.read = k.read
      /\ l.handling = k.handling /\ l.requests = Append(k.requests, k.sent + 1)
      /\ l.answers = k.answers
  BY <1>2, <1>4 DEF Links
<1> HIDE DEF l
<1>6. Ordered(k.read, k.answers, k.handling, k.requests, k.sent)
  BY <1>1, <1>2 DEF LinkOK
<1>7. Ordered(l.read, l.answers, l.handling, l.requests, l.sent)
  BY <1>3, <1>5, <1>6, Sending
<1>8. LinkOK(l, job'[c])
  BY <1>1, <1>2, <1>5, <1>7 DEF LinkOK
<1> QED
  BY <1>1, <1>5, <1>8, OneLink

LEMMA CutOffLinks == ASSUME LinkInv, NEW c \in Conn, CutOff(c) PROVE LinkInv'
<1> DEFINE k == link[c]
           l == [link[c] EXCEPT !.half = IF link[c].half = "no" THEN "one" ELSE "many"]
<1>1. link' = [link EXCEPT ![c] = l] /\ job' = job
  BY DEF CutOff, handlerVars
<1>2. k \in Links /\ LinkOK(k, job[c])
  BY DEF LinkInv
<1>3. /\ l \in Links /\ l.phase = k.phase /\ l.sent = k.sent /\ l.read = k.read
      /\ l.handling = k.handling /\ l.requests = k.requests /\ l.answers = k.answers
  BY <1>2 DEF Links, Halves
<1> HIDE DEF l
<1>4. LinkOK(l, job'[c])
  BY <1>1, <1>2, <1>3 DEF LinkOK
<1> QED
  BY <1>1, <1>3, <1>4, OneLink

LEMMA ReadAnswerLinks == ASSUME LinkInv, NEW c \in Conn, ReadAnswer(c) PROVE LinkInv'
<1> DEFINE k == link[c]
           l == [link[c] EXCEPT !.waiting = 0, !.read = link[c].read + 1,
                                !.answers = Tail(link[c].answers)]
<1>1. link' = [link EXCEPT ![c] = l] /\ job' = job /\ k.answers # <<>>
  BY DEF ReadAnswer, handlerVars
<1>2. k \in Links /\ LinkOK(k, job[c])
  BY DEF LinkInv
<1>3. /\ k.sent \in Nat /\ k.read \in Nat /\ k.handling \in Nat
      /\ k.requests \in Seq(Nat) /\ k.answers \in Seq(Nat)
  BY <1>2, LinkFields
<1>4. k.read + 1 \in Nat /\ Tail(k.answers) \in Seq(Nat)
  BY <1>1, <1>3
<1>5. /\ l \in Links /\ l.phase = k.phase /\ l.sent = k.sent /\ l.read = k.read + 1
      /\ l.handling = k.handling /\ l.requests = k.requests
      /\ l.answers = Tail(k.answers)
  BY <1>2, <1>4 DEF Links
<1> HIDE DEF l
<1>6. k.phase # "none"
  BY <1>1, <1>2 DEF LinkOK
<1>7. k.phase = "open" => Ordered(l.read, l.answers, l.handling, l.requests, l.sent)
  BY <1>1, <1>2, <1>3, <1>5, Reading DEF LinkOK
<1>8. LinkOK(l, job'[c])
  BY <1>1, <1>2, <1>5, <1>6, <1>7 DEF LinkOK
<1> QED
  BY <1>1, <1>5, <1>8, OneLink

LEMMA AbandonLinks == ASSUME LinkInv, NEW c \in Conn, Abandon(c) PROVE LinkInv'
<1> DEFINE k == link[c]
           l == [link[c] EXCEPT !.waiting = 0]
<1>1. link' = [link EXCEPT ![c] = l] /\ job' = job
  BY DEF Abandon, handlerVars
<1>2. k \in Links /\ LinkOK(k, job[c])
  BY DEF LinkInv
<1>3. /\ l \in Links /\ l.phase = k.phase /\ l.sent = k.sent /\ l.read = k.read
      /\ l.handling = k.handling /\ l.requests = k.requests /\ l.answers = k.answers
  BY <1>2 DEF Links
<1> HIDE DEF l
<1>4. LinkOK(l, job'[c])
  BY <1>1, <1>2, <1>3 DEF LinkOK
<1> QED
  BY <1>1, <1>3, <1>4, OneLink

LEMMA LeaveLinks == ASSUME LinkInv, NEW c \in Conn, Leave(c) PROVE LinkInv'
<1> DEFINE k == link[c]
           n == k.sent + 1
           r == IF k.half = "no" THEN k.requests ELSE Append(k.requests, n)
           b == IF k.half = "many" THEN k.broken \union {n} ELSE k.broken
           l == [NoLink EXCEPT !.phase = "left", !.told = k.told, !.handling = k.handling,
                               !.requests = r, !.broken = b]
<1>1. link' = [link EXCEPT ![c] = l] /\ job' = job /\ k.phase = "open"
  BY DEF Leave, handlerVars
<1>2. k \in Links /\ LinkOK(k, job[c])
  BY DEF LinkInv
<1>3. /\ k.sent \in Nat /\ k.read \in Nat /\ k.handling \in Nat
      /\ k.requests \in Seq(Nat) /\ k.answers \in Seq(Nat) /\ k.broken \in SUBSET Nat
  BY <1>2, LinkFields
<1>4. r \in Seq(Nat) /\ b \in SUBSET Nat
  BY <1>3
<1>5. \A i \in 1..Len(k.requests) : k.requests[i] # 0
  <2> TAKE i \in 1..Len(k.requests)
  <2>1. k.requests[i] = k.read + Taken(k.answers, k.handling) + i
    BY <1>1, <1>2 DEF LinkOK, Ordered
  <2>2. Taken(k.answers, k.handling) \in Nat /\ Len(k.requests) \in Nat
    BY <1>3, TakenIs
  <2> QED
    BY <1>3, <2>1, <2>2
<1>6. \A i \in 1..Len(r) : r[i] # 0
  <2>1. CASE k.half = "no"
    BY <1>5, <2>1
  <2>2. CASE k.half # "no"
    <3>1. r = Append(k.requests, n) /\ n \in Nat /\ n # 0
      BY <1>3, <2>2
    <3> HIDE DEF r, n
    <3> QED
      BY <1>3, <1>5, <3>1
  <2> QED
    BY <2>1, <2>2
<1> HIDE DEF r, b
<1>7. /\ l \in Links /\ l.phase = "left" /\ l.handling = k.handling /\ l.requests = r
  BY <1>2, <1>4, LinksMade DEF Links, Phases
<1> HIDE DEF l
<1>8. LinkOK(l, job'[c])
  BY <1>1, <1>2, <1>6, <1>7 DEF LinkOK
<1> QED
  BY <1>1, <1>7, <1>8, OneLink

-----------------------------------------------------------------------------

\* The shutdown is noted in the links; what they carry stays.
LEMMA BroadcastLinks == ASSUME LinkInv, Broadcast PROVE LinkInv'
<1>1. job' = job
  BY DEF Broadcast, handlerVars
<1>2. ASSUME NEW c \in Conn PROVE link'[c] \in Links /\ LinkOK(link'[c], job'[c])
  <2> DEFINE l == [link[c] EXCEPT !.told = link[c].told \/ link[c].phase \in {"open", "left"}]
  <2>1. link'[c] = l
    BY DEF Broadcast
  <2>2. link[c] \in Links /\ LinkOK(link[c], job[c])
    BY DEF LinkInv
  <2>3. /\ l \in Links /\ l.phase = link[c].phase /\ l.sent = link[c].sent
        /\ l.read = link[c].read /\ l.handling = link[c].handling
        /\ l.requests = link[c].requests /\ l.answers = link[c].answers
    BY <2>2 DEF Links
  <2> HIDE DEF l
  <2> QED
    BY <1>1, <2>1, <2>2, <2>3 DEF LinkOK
<1>3. link' \in [Conn -> Links]
  <2>1. link' = [c \in Conn |-> link'[c]]
    BY DEF Broadcast
  <2> QED
    BY <1>2, <2>1
<1> QED
  BY <1>2, <1>3 DEF LinkInv

LEMMA ExitLinks == ASSUME LinkInv, Exit PROVE LinkInv'
<1>1. /\ job' = [c \in Conn |-> NoJob]
      /\ link' = [c \in Conn |-> IF link[c].phase \in {"open", "left"} THEN Closed ELSE link[c]]
  BY DEF Exit
<1>2. ASSUME NEW c \in Conn PROVE link'[c] \in Links /\ LinkOK(link'[c], job'[c])
  <2>1. job'[c].step = "idle" /\ link[c] \in Links /\ LinkOK(link[c], job[c])
    BY <1>1, JobsMade DEF LinkInv
  <2>2. CASE link[c].phase \in {"open", "left"}
    BY <1>1, <2>1, <2>2, LinksMade DEF LinkOK
  <2>3. CASE link[c].phase \notin {"open", "left"}
    <3>1. link'[c] = link[c] /\ link[c].phase \in {"none", "closed"}
      BY <1>1, <2>1, <2>3 DEF Links, Phases
    <3> QED
      BY <2>1, <3>1 DEF LinkOK
  <2> QED
    BY <2>2, <2>3
<1> QED
  BY <1>1, <1>2 DEF LinkInv

LEMMA CrashLinks == ASSUME LinkInv, Crash PROVE LinkInv'
<1>1. job' = [c \in Conn |-> NoJob] /\ link' = [c \in Conn |-> NoLink]
  BY DEF Crash
<1> QED
  BY <1>1, JobsMade, LinksMade DEF LinkInv, LinkOK

LEMMA LinkUnmoved == LinkInv /\ UNCHANGED <<link, job>> => LinkInv'
BY DEF LinkInv

\* A handler moves its own connection only, from a job to a job.
LEMMA HandleLinks == ASSUME Shape, LinkInv, NEW c \in Conn, Handle(c) PROVE LinkInv'
<1>1. link' = link
  BY DEF Handle, linkVars
<1>2. job[c].step # "idle"
  BY DEF Handle, HandlerStep, CheckSubmit, StartTask, RemoveTask, ReleaseBudget, CheckTrigger,
         LockStore, PutDrift, PutCycle, PutHead, PutRecord, At
<1>3. \/ Stop(c)
      \/ \E s \in {"admit", "release", "persist", "drift", "cycle", "head"} : GoTo(c, s)
  BY DEF Handle, HandlerStep, CheckSubmit, StartTask, RemoveTask, ReleaseBudget, CheckTrigger,
         LockStore, PutDrift, PutCycle, PutHead, PutRecord
<1>4. job'[c].step # "idle" /\ \A d \in Conn \ {c} : job'[d] = job[d]
  BY <1>3, StopEffect, GoToEffect DEF Steps
<1>5. ASSUME NEW d \in Conn PROVE LinkOK(link'[d], job'[d])
  <2>1. CASE d = c
    BY <1>1, <1>2, <1>4, <2>1 DEF LinkInv, LinkOK
  <2>2. CASE d # c
    BY <1>1, <1>4, <2>2 DEF LinkInv
  <2> QED
    BY <2>1, <2>2
<1> QED
  BY <1>1, <1>5 DEF LinkInv

LEMMA LinkStep == KInv /\ LinkInv /\ [Next]_vars => LinkInv'
<1> SUFFICES ASSUME KInv, LinkInv, [Next]_vars PROVE LinkInv'
  OBVIOUS
<1>0. Shape
  BY DEF KInv
<1>1. CASE Boot \/ Spawn \/ JoinServer \/ StopProcess \/ Signal \/ Listen
           \/ ServerEnds \/ RegisterTask \/ UNCHANGED vars
  <2>1. UNCHANGED <<link, job>>
    BY <1>1 DEF Boot, Spawn, JoinServer, StopProcess, Signal, Listen, ServerEnds,
                RegisterTask, Register, vars, handlerVars, linkVars
  <2> QED
    BY <2>1, LinkUnmoved
<1>2. CASE Broadcast
  BY <1>2, BroadcastLinks
<1>3. CASE Exit
  BY <1>3, ExitLinks
<1>4. CASE Crash
  BY <1>4, CrashLinks
<1>5. ASSUME NEW c \in Conn,
             \/ Accept(c) \/ ReadLine(c) \/ Handle(c) \/ WriteAnswer(c) \/ HangUp(c)
             \/ Call(c) \/ CutOff(c) \/ ReadAnswer(c) \/ Abandon(c) \/ Leave(c)
      PROVE  LinkInv'
  BY <1>0, <1>5, AcceptLinks, ReadLineLinks, HandleLinks, WriteLinks, HangUpLinks, CallLinks,
     CutOffLinks, ReadAnswerLinks, AbandonLinks, LeaveLinks
<1> QED
  BY <1>1, <1>2, <1>3, <1>4, <1>5 DEF Next, Daemon

\* On an open connection every line is answered once and in order, for any
\* number of clients that call, drop calls inside a line or after it and go
\* away, and across shutdowns and crashes.
THEOREM OneAnswerHolds == Spec => []OneAnswerEach
<1>1. Init => LinkInv
  BY JobsMade, LinksMade DEF Init, LinkInv, LinkOK
<1>2. LinkInv => OneAnswerEach
  <2> SUFFICES ASSUME LinkInv, NEW c \in Conn, link[c].phase = "open"
               PROVE  Answered(link[c].read, link[c].answers, link[c].handling,
                               link[c].requests, link[c].sent)
    BY DEF OneAnswerEach, Answered
  <2>1. /\ link[c].sent \in Nat /\ link[c].read \in Nat /\ link[c].handling \in Nat
        /\ link[c].requests \in Seq(Nat) /\ link[c].answers \in Seq(Nat)
    BY LinkFields DEF LinkInv
  <2>2. Ordered(link[c].read, link[c].answers, link[c].handling, link[c].requests, link[c].sent)
    BY DEF LinkInv, LinkOK
  <2> QED
    BY <2>1, <2>2, Concatenated
<1> QED
  BY <1>1, <1>2, InitKInv, NextKeeps, LinkStep, PTL DEF Spec
=============================================================================
