---------------------------- MODULE CountersProofs ----------------------------
(***************************************************************************)
(* Proofs about Counters for any finite set of handlers, any width of a    *)
(* size_t and any bounds: type correctness, and the other invariants of    *)
(* the run counters.                                                       *)
(*                                                                         *)
(* What a thread has loaded is only worth something as long as nobody else *)
(* stores: LockInv says who holds trans_count_mutex, RegInv what that says *)
(* of the loaded values, and of the worker's, which no mutex protects.     *)
(* That the list in Redis is never shorter than what will be removed from  *)
(* it takes a count of the handlers between the list and the queue.        *)
(***************************************************************************)
EXTENDS Counters, FiniteSetTheorems, TLAPS

\* The handlers that have listed a transaction and not yet queued it.
Pushing == {h \in Handlers : pc[h] = "push"}

\* Typing that does not depend on what the counts count: where the threads
\* are, what the counters hold, the queue, and the rest of the history.
PcTypes ==
  /\ main \in {"down", "load", "up"}
  /\ holder \in Handlers \cup {Nobody}
  /\ pc \in [Handlers -> HandlerPcs] /\ counter \in [Handlers -> Locked]
  /\ wpc \in {"wait", "load", "store", "arg", "set"}
ValueTypes ==
  /\ reg \in [Handlers -> Nat] /\ wreg \in Nat
  /\ copy \in [Handlers -> [Counters -> Nat \cup {Unread}]]
  /\ data \in [Counters -> Nat] /\ cached \in [Counters -> Nat]
  /\ happened \in [Counters -> Nat] /\ base \in [Counters -> Nat]
QueueTypes ==
  /\ toLoad \in Nat /\ jobs \in Nat /\ listed \in Int /\ queueBase \in Int
  /\ current_n \in 0 .. Modulus - 1
FlagTypes == torn \in BOOLEAN /\ disturbed \in BOOLEAN
BoundTypes == posts \in Nat /\ admin \in Nat /\ crashes \in Nat
TypeInv == PcTypes /\ ValueTypes /\ QueueTypes /\ FlagTypes /\ BoundTypes

\* The threads of a process that is not there, or does not serve yet.
PhaseInv ==
  /\ main # "up" => \A h \in Handlers : pc[h] = "idle"
  /\ main = "up" => toLoad = 0
  /\ main = "down" => wpc = "wait" /\ jobs = 0 /\ toLoad = 0
                      /\ current_n = 0 /\ queueBase = 0

\* Who is in a critical section of trans_count_mutex holds it.
LockInv == \A h \in Handlers : pc[h] \in {"store", "set", "report"} => holder = h

\* What the threads have loaded.
RegInv ==
  /\ \A h \in Handlers : pc[h] = "store" => reg[h] = data[counter[h]]
  /\ wpc = "store" => /\ wreg <= happened["n_processed_trans"]
                      /\ ~torn => wreg = data["n_processed_trans"]
  /\ wpc = "set" => wreg <= happened["n_processed_trans"]

\* Everything that is queued, will be queued or will be loaded is listed.
ListedInv == listed >= jobs + toLoad + Cardinality(Pushing) /\ queueBase >= 0

\* The part that the list and the queue have no part in, and all of it.
CountInv == /\ TypeInv /\ PhaseInv /\ LockInv /\ RegInv
            /\ NeverMoreThanHappened /\ CountersExact
QueueInv == ListedInv /\ QueueCountModular
IInv == CountInv /\ QueueInv

-----------------------------------------------------------------------------
(***************************************************************************)
(* Arithmetic modulo m.                                                    *)
(***************************************************************************)

\* The remainder is the only number in range that differs by a multiple.
LEMMA ModUnique ==
  ASSUME NEW m \in Nat \ {0}, NEW x \in Int, NEW q \in Int, NEW r \in 0 .. m - 1,
         x = m * q + r
  PROVE  x % m = r
BY SMT

\* A size_t wraps below zero.
LEMMA ModBelow ==
  ASSUME NEW m \in Nat \ {0}
  PROVE  (0 - 1) % m = m - 1
BY SMT

\* A size_t that is incremented.
LEMMA ModSucc ==
  ASSUME NEW m \in Nat \ {0}, NEW x \in Int
  PROVE  ((x % m) + 1) % m = (x + 1) % m
<1> DEFINE q == x \div m
           r == x % m
<1>1. q \in Int /\ r \in 0 .. m - 1 /\ x = m * q + r
  BY SMT
<1> HIDE DEF q, r
<1>2. CASE r < m - 1
  <2>1. (x + 1) % m = r + 1
    <3>1. x + 1 = m * q + (r + 1) /\ r + 1 \in 0 .. m - 1
      BY <1>1, <1>2
    <3> QED BY <1>1, <3>1, ModUnique
  <2>2. (r + 1) % m = r + 1
    BY <1>1, <1>2
  <2> QED BY <2>1, <2>2 DEF r
<1>3. CASE r = m - 1
  <2>1. (x + 1) % m = 0
    <3>1. x + 1 = m * (q + 1) + 0 /\ q + 1 \in Int
      BY <1>1, <1>3
    <3> QED BY <3>1, ModUnique
  <2>2. (r + 1) % m = 0
    BY <1>1, <1>3
  <2> QED BY <2>1, <2>2 DEF r
<1> QED BY <1>1, <1>2, <1>3

\* A size_t that is decremented.
LEMMA ModPred ==
  ASSUME NEW m \in Nat \ {0}, NEW x \in Int
  PROVE  ((x % m) - 1) % m = (x - 1) % m
<1> DEFINE q == x \div m
           r == x % m
<1>1. q \in Int /\ r \in 0 .. m - 1 /\ x = m * q + r
  BY SMT
<1> HIDE DEF q, r
<1>2. CASE r > 0
  <2>1. (x - 1) % m = r - 1
    <3>1. x - 1 = m * q + (r - 1) /\ r - 1 \in 0 .. m - 1
      BY <1>1, <1>2
    <3> QED BY <1>1, <3>1, ModUnique
  <2>2. (r - 1) % m = r - 1
    BY <1>1, <1>2
  <2> QED BY <2>1, <2>2 DEF r
<1>3. CASE r = 0
  <2>1. (x - 1) % m = m - 1
    <3>1. x - 1 = m * (q - 1) + (m - 1) /\ q - 1 \in Int /\ x - 1 \in Int
      BY <1>1, <1>3
    <3>2. m - 1 \in 0 .. m - 1
      OBVIOUS
    <3> QED BY <3>1, <3>2, ModUnique
  <2>2. (r - 1) % m = m - 1
    BY <1>3, ModBelow
  <2> QED BY <2>1, <2>2 DEF r
<1> QED BY <1>1, <1>2, <1>3

\* The same of what current_n_trans_in_worker_queue counts.
LEMMA QueueMod ==
  ASSUME NEW l \in Int, NEW t \in Int, NEW b \in Int
  PROVE  /\ (((l - t - b) % Modulus) + 1) % Modulus = ((l - t - b) + 1) % Modulus
         /\ (((l - t - b) % Modulus) - 1) % Modulus = ((l - t - b) - 1) % Modulus
<1>1. l - t - b \in Int
  OBVIOUS
<1> QED BY <1>1, ModSucc, ModPred, ModulusAssumption, Zenon

-----------------------------------------------------------------------------
(***************************************************************************)
(* CountInv: the counters.                                                 *)
(***************************************************************************)

\* A counter of a handler is one that the mutex protects.
LEMMA LockedIsCounter ==
  /\ Locked \subseteq Counters
  /\ "n_processed_trans" \in Counters /\ "n_processed_trans" \notin Locked
BY DEF Counters, Locked

\* A size_t stays in its range.
LEMMA ModRange ==
  ASSUME NEW x \in Int
  PROVE  x % Modulus \in 0 .. Modulus - 1
BY ModulusAssumption

\* The initial states satisfy it.
LEMMA InitCount == Init => CountInv
<1> SUFFICES ASSUME Init PROVE CountInv
  OBVIOUS
<1> USE DEF Init, Zero, NoCopy
<1>1. TypeInv
  <2>1. PcTypes
    BY DEF PcTypes, HandlerPcs, Locked
  <2>2. ValueTypes
    BY DEF ValueTypes, Unread
  <2>3. QueueTypes
    BY ModulusAssumption DEF QueueTypes
  <2>4. FlagTypes /\ BoundTypes
    BY DEF FlagTypes, BoundTypes
  <2> QED BY <2>1, <2>2, <2>3, <2>4 DEF TypeInv
<1>2. PhaseInv /\ LockInv /\ RegInv
  BY DEF PhaseInv, LockInv, RegInv
<1>3. NeverMoreThanHappened /\ CountersExact
  BY DEF NeverMoreThanHappened, CountersExact, Unread
<1> QED BY <1>1, <1>2, <1>3 DEF CountInv

\* The flags and the bounds are typed whatever happens.
LEMMA FlagStep ==
  ASSUME TypeInv, Next
  PROVE  FlagTypes' /\ BoundTypes'
<1> USE DEF TypeInv, Moves, Arrives, WorkerMoves, MainMoves, historyVars, boundVars
<1>1. FlagTypes'
  <2>1. ASSUME NEW h \in Handlers, HandlerStep(h) PROVE FlagTypes'
    BY <2>1, Zenon DEF FlagTypes, HandlerStep, Post, Lock, Store, Set, Add, Push, Reset,
       ResetQueue, InitArrives, InitReads, InitWrites, Report, ReportProcessed, Reported
  <2>2. CASE WorkerStep \/ MainStep \/ Crash
    BY <2>2, Zenon DEF FlagTypes, WorkerStep, MainStep, Crash, Take, ProcessedLoad,
       ProcessedStore, ProcessedRead, ProcessedSet, Start, Load, Serve
  <2> QED BY <2>1, <2>2 DEF Next
<1>2. BoundTypes'
  <2>1. ASSUME NEW h \in Handlers, HandlerStep(h) PROVE BoundTypes'
    BY <2>1 DEF BoundTypes, HandlerStep, Post, Lock, Store, Set, Add, Push, Reset,
       ResetQueue, InitArrives, InitReads, InitWrites, Report, ReportProcessed, Reported
  <2>2. CASE WorkerStep \/ MainStep \/ Crash
    BY <2>2 DEF BoundTypes, WorkerStep, MainStep, Crash, Take, ProcessedLoad,
       ProcessedStore, ProcessedRead, ProcessedSet, Start, Load, Serve
  <2> QED BY <2>1, <2>2 DEF Next
<1> QED BY <1>1, <1>2

\* Where the threads are.
LEMMA PcStep ==
  ASSUME TypeInv, Next
  PROVE  PcTypes'
<1> USE DEF TypeInv, PcTypes, HandlerPcs, Locked
<1>1. ASSUME NEW h \in Handlers, HandlerStep(h) PROVE PcTypes'
  <2> USE DEF Moves, Arrives, mainVars, workerVars
  <2>1. CASE Post(h) \/ Lock(h) \/ Store(h) \/ Add(h) \/ Push(h)
    BY <2>1 DEF Post, Lock, Store, Add, Push
  <2>2. CASE Set(h)
    BY <2>2 DEF Set
  <2>3. CASE Reset(h) \/ ResetQueue(h) \/ InitArrives(h) \/ InitReads(h) \/ InitWrites(h)
    BY <2>3 DEF Reset, ResetQueue, InitArrives, InitReads, InitWrites
  <2>4. CASE Report(h) \/ ReportProcessed(h) \/ Reported(h)
    BY <2>4 DEF Report, ReportProcessed, Reported
  <2> QED BY <1>1, <2>1, <2>2, <2>3, <2>4 DEF HandlerStep
<1>2. CASE WorkerStep
  BY <1>2 DEF WorkerStep, WorkerMoves, Take, ProcessedLoad, ProcessedStore,
     ProcessedRead, ProcessedSet, mainVars, handlerVars
<1>3. CASE MainStep
  BY <1>3 DEF MainStep, MainMoves, Start, Load, Serve, handlerVars, workerVars
<1>4. CASE Crash
  BY <1>4 DEF Crash
<1> QED BY <1>1, <1>2, <1>3, <1>4 DEF Next

\* What the counters and the copies of them hold.
LEMMA ValueStep ==
  ASSUME CountInv, Next
  PROVE  ValueTypes'
<1> USE DEF CountInv, TypeInv, PcTypes, ValueTypes
<1>1. ASSUME NEW h \in Handlers, HandlerStep(h) PROVE ValueTypes'
  <2> USE DEF Moves, Arrives, workerVars, historyVars
  <2>1. CASE Post(h) \/ Add(h) \/ Push(h) \/ ResetQueue(h) \/ InitArrives(h)
    BY <2>1 DEF Post, Add, Push, ResetQueue, InitArrives
  <2>2. CASE Lock(h)
    BY <2>2, LockedIsCounter DEF Lock
  <2>3. CASE Store(h)
    BY <2>3, LockedIsCounter DEF Store
  <2>4. CASE Set(h)
    BY <2>4, LockedIsCounter DEF Set
  <2>5. CASE Reset(h)
    BY <2>5 DEF Reset, Zero
  <2>6. CASE InitReads(h)
    BY <2>6 DEF InitReads
  <2>7. CASE InitWrites(h)
    <3>1. cached' \in [Counters -> Nat]
      BY <2>7 DEF InitWrites
    <3>2. copy' \in [Handlers -> [Counters -> Nat \cup {Unread}]]
      BY <2>7 DEF InitWrites, NoCopy
    <3> QED BY <2>7, <3>1, <3>2 DEF InitWrites
  <2>8. CASE Report(h) \/ ReportProcessed(h) \/ Reported(h)
    <3>1. copy' \in [Handlers -> [Counters -> Nat \cup {Unread}]]
      <4>1. CASE Report(h)
        BY <4>1 DEF Report
      <4>2. CASE ReportProcessed(h)
        BY <4>2, LockedIsCounter DEF ReportProcessed
      <4>3. CASE Reported(h)
        BY <4>3 DEF Reported, NoCopy
      <4> QED BY <2>8, <4>1, <4>2, <4>3
    <3> QED BY <2>8, <3>1 DEF Report, ReportProcessed, Reported
  <2> QED BY <1>1, <2>1, <2>2, <2>3, <2>4, <2>5, <2>6, <2>7, <2>8 DEF HandlerStep
<1>2. CASE WorkerStep
  <2>1. wreg' \in Nat /\ data' \in [Counters -> Nat]
    BY <1>2, LockedIsCounter DEF WorkerStep, Take, ProcessedLoad, ProcessedStore,
       ProcessedRead, ProcessedSet
  <2>2. cached' \in [Counters -> Nat] /\ happened' \in [Counters -> Nat] /\ base' = base
    BY <1>2, LockedIsCounter DEF WorkerStep, Take, ProcessedLoad, ProcessedStore,
       ProcessedRead, ProcessedSet
  <2>3. UNCHANGED <<reg, copy>>
    BY <1>2 DEF WorkerStep, WorkerMoves, Take, ProcessedLoad, ProcessedStore,
       ProcessedRead, ProcessedSet, handlerVars
  <2> QED BY <2>1, <2>2, <2>3
<1>3. CASE Start
  <2>1. \A c \in Counters : happened[c] - cached[c] \in Nat
    BY DEF NeverMoreThanHappened
  <2>2. base' \in [Counters -> Nat]
    BY <1>3, <2>1 DEF Start
  <2> QED BY <1>3, <2>2 DEF Start, MainMoves, handlerVars, workerVars
<1>4. CASE Load \/ Serve
  BY <1>4 DEF Load, Serve, MainMoves, handlerVars, workerVars
<1>5. CASE Crash
  BY <1>5 DEF Crash, Zero, NoCopy
<1> QED BY <1>1, <1>2, <1>3, <1>4, <1>5 DEF Next, MainStep

\* The queue and its counter.  The list in Redis has no less than the reply
\* that main reads of it at a start.
LEMMA QueueStep ==
  ASSUME TypeInv, Next, listed >= 0
  PROVE  QueueTypes'
<1> USE ModRange DEF TypeInv, QueueTypes
<1>1. ASSUME NEW h \in Handlers, HandlerStep(h) PROVE QueueTypes'
  <2> USE DEF Moves, Arrives, mainVars, queueVars, historyVars
  <2>1. CASE Post(h) \/ Lock(h) \/ Store(h) \/ Set(h)
    BY <2>1 DEF Post, Lock, Store, Set
  <2>2. CASE Add(h) \/ Push(h)
    BY <2>2 DEF Add, Push
  <2>3. CASE Reset(h) \/ ResetQueue(h)
    BY <2>3, ModulusAssumption DEF Reset, ResetQueue
  <2>4. CASE InitArrives(h) \/ InitReads(h) \/ InitWrites(h)
    BY <2>4 DEF InitArrives, InitReads, InitWrites
  <2>5. CASE Report(h) \/ ReportProcessed(h) \/ Reported(h)
    BY <2>5 DEF Report, ReportProcessed, Reported
  <2> QED BY <1>1, <2>1, <2>2, <2>3, <2>4, <2>5 DEF HandlerStep
<1>2. CASE WorkerStep
  BY <1>2 DEF WorkerStep, WorkerMoves, Take, ProcessedLoad, ProcessedStore,
     ProcessedRead, ProcessedSet, mainVars, queueVars
<1>3. CASE MainStep
  BY <1>3 DEF MainStep, MainMoves, Start, Load, Serve
<1>4. CASE Crash
  BY <1>4, ModulusAssumption DEF Crash
<1> QED BY <1>1, <1>2, <1>3, <1>4 DEF Next

\* A handler that is not idle runs in a service that is up.
LEMMA BusyIsUp ==
  ASSUME CountInv, NEW h \in Handlers, pc[h] # "idle"
  PROVE  main = "up"
BY DEF CountInv, PhaseInv

\* A step of a handler that stays out of the critical sections and leaves the
\* counters alone.
LEMMA QuietStep ==
  ASSUME CountInv, main = "up", NEW h \in Handlers, NEW from, NEW to,
         Moves(h, from, to), to \notin {"store", "set", "report"},
         UNCHANGED <<holder, reg, copy, data, cached, happened, base, torn>>,
         \A k \in Handlers : k # h => counter'[k] = counter[k]
  PROVE  PhaseInv' /\ LockInv' /\ RegInv' /\ NeverMoreThanHappened' /\ CountersExact'
<1> USE DEF CountInv, Moves, mainVars, workerVars
<1>1. pc' = [pc EXCEPT ![h] = to] /\ pc \in [Handlers -> HandlerPcs]
  BY DEF TypeInv, PcTypes
<1>2. PhaseInv' /\ LockInv' /\ RegInv'
  BY <1>1 DEF PhaseInv, LockInv, RegInv
<1>3. NeverMoreThanHappened' /\ CountersExact'
  BY DEF NeverMoreThanHappened, CountersExact
<1> QED BY <1>2, <1>3

\* The steps of a handler that have nothing to do with the counters.
LEMMA QuietCount ==
  ASSUME CountInv, NEW h \in Handlers,
         Post(h) \/ Add(h) \/ Push(h) \/ ResetQueue(h) \/ InitArrives(h), TypeInv'
  PROVE  CountInv'
<1>1. CASE Post(h)
  BY <1>1, QuietStep DEF Post, CountInv, TypeInv, PcTypes, historyVars
<1>2. CASE Add(h)
  BY <1>2, QuietStep, BusyIsUp DEF Add, Moves, CountInv, historyVars
<1>3. CASE Push(h)
  BY <1>3, QuietStep, BusyIsUp DEF Push, Moves, CountInv, TypeInv, PcTypes, historyVars
<1>4. CASE ResetQueue(h)
  <2>1. main = "up"
    BY <1>4, BusyIsUp DEF ResetQueue, Moves
  <2> QED BY <1>4, <2>1, QuietStep DEF ResetQueue, CountInv
<1>5. CASE InitArrives(h)
  BY <1>5, QuietStep DEF InitArrives, Arrives, CountInv, historyVars
<1> QED BY <1>1, <1>2, <1>3, <1>4, <1>5

\* An increment under the mutex: what has been loaded is what is stored to.
LEMMA LockedCount ==
  ASSUME CountInv, NEW h \in Handlers, Lock(h) \/ Store(h) \/ Set(h), TypeInv'
  PROVE  CountInv'
<1> USE LockedIsCounter, NobodyAssumption
        DEF CountInv, TypeInv, PcTypes, ValueTypes, Moves, mainVars, workerVars
<1>0. main = "up"
  BY BusyIsUp DEF Lock, Store, Set
<1>1. CASE Lock(h)
  <2>1. PhaseInv' /\ LockInv'
    BY <1>0, <1>1 DEF Lock, PhaseInv, LockInv
  <2>2. RegInv'
    BY <1>1 DEF Lock, RegInv, historyVars
  <2>3. NeverMoreThanHappened' /\ CountersExact'
    BY <1>1 DEF Lock, NeverMoreThanHappened, CountersExact, historyVars
  <2> QED BY <2>1, <2>2, <2>3
<1>2. CASE Store(h)
  <2>1. reg[h] = data[counter[h]] /\ counter[h] \in Locked
    BY <1>2 DEF Store, RegInv
  <2>2. \A k \in Handlers : pc[k] = "store" => k = h
    BY <1>2 DEF Store, LockInv
  <2>3. PhaseInv' /\ LockInv'
    BY <1>0, <1>2 DEF Store, PhaseInv, LockInv
  <2>4. RegInv'
    <3>1. \A k \in Handlers : pc'[k] # "store"
      BY <1>2, <2>2 DEF Store
    <3>2. /\ data'["n_processed_trans"] = data["n_processed_trans"]
          /\ happened'["n_processed_trans"] = happened["n_processed_trans"]
      BY <1>2, <2>1 DEF Store
    <3> QED BY <1>2, <3>1, <3>2 DEF Store, RegInv
  <2>5. NeverMoreThanHappened'
    <3>1. \A c \in Counters : happened'[c] >= happened[c]
      BY <1>2 DEF Store
    <3>2. \A c \in Counters : data'[c] <= happened'[c]
      BY <1>2, <2>1 DEF Store, NeverMoreThanHappened
    <3>3. ASSUME NEW c \in Counters
          PROVE  /\ cached'[c] <= happened'[c]
                 /\ \A k \in Handlers : copy'[k][c] <= happened'[c]
      BY <1>2, <3>1 DEF Store, NeverMoreThanHappened, Unread
    <3> QED BY <3>2, <3>3 DEF NeverMoreThanHappened
  <2>6. CountersExact'
    BY <1>2, <2>1 DEF Store, CountersExact
  <2> QED BY <2>3, <2>4, <2>5, <2>6
<1>3. CASE Set(h)
  <2>1. PhaseInv'
    BY <1>0, <1>3 DEF Set, PhaseInv
  <2>2. \A k \in Handlers : pc'[k] \notin {"store", "set", "report"}
    BY <1>3 DEF Set, LockInv
  <2>3. LockInv' /\ RegInv'
    BY <1>3, <2>2 DEF Set, LockInv, RegInv, historyVars
  <2>4. NeverMoreThanHappened'
    BY <1>3 DEF Set, NeverMoreThanHappened, historyVars
  <2>5. CountersExact'
    BY <1>3 DEF Set, CountersExact, historyVars
  <2> QED BY <2>1, <2>3, <2>4, <2>5
<1> QED BY <1>1, <1>2, <1>3

\* The requests that read, zero or save all counters.
LEMMA AdminCount ==
  ASSUME CountInv, NEW h \in Handlers, TypeInv',
         Reset(h) \/ InitReads(h) \/ InitWrites(h)
         \/ Report(h) \/ ReportProcessed(h) \/ Reported(h)
  PROVE  CountInv'
<1> USE LockedIsCounter, NobodyAssumption
        DEF CountInv, TypeInv, PcTypes, ValueTypes, Moves, mainVars, workerVars, historyVars
<1>0. main = "up"
  BY BusyIsUp DEF Reset, InitReads, InitWrites, Report, ReportProcessed, Reported, Arrives
<1>1. CASE Reset(h)
  <2> USE DEF Reset, Arrives
  <2>1. PhaseInv' /\ LockInv'
    BY <1>0, <1>1 DEF PhaseInv, LockInv
  <2>2. \A k \in Handlers : pc'[k] # "store"
    BY <1>1 DEF LockInv
  <2>3. RegInv'
    BY <1>1, <2>2 DEF RegInv
  <2>4. NeverMoreThanHappened' /\ CountersExact'
    BY <1>1 DEF NeverMoreThanHappened, CountersExact, Zero
  <2> QED BY <2>1, <2>3, <2>4
<1>2. CASE InitReads(h) \/ InitWrites(h)
  <2> USE DEF InitReads, InitWrites
  <2>1. PhaseInv' /\ LockInv' /\ RegInv'
    BY <1>0, <1>2 DEF PhaseInv, LockInv, RegInv
  <2>2. NeverMoreThanHappened'
    <3>1. CASE InitReads(h)
      BY <3>1 DEF NeverMoreThanHappened
    <3>2. CASE InitWrites(h)
      BY <3>2 DEF NeverMoreThanHappened, NoCopy, Unread
    <3> QED BY <1>2, <3>1, <3>2
  <2>3. CountersExact'
    BY <1>2 DEF CountersExact
  <2> QED BY <2>1, <2>2, <2>3
<1>3. CASE Report(h) \/ ReportProcessed(h) \/ Reported(h)
  <2> USE DEF Report, ReportProcessed, Reported, Arrives
  <2>1. PhaseInv' /\ LockInv' /\ RegInv'
    BY <1>0, <1>3 DEF PhaseInv, LockInv, RegInv
  <2>2. NeverMoreThanHappened'
    <3>1. CASE Report(h)
      BY <3>1 DEF NeverMoreThanHappened, Unread
    <3>2. CASE ReportProcessed(h)
      BY <3>2 DEF NeverMoreThanHappened
    <3>3. CASE Reported(h)
      BY <3>3 DEF NeverMoreThanHappened, NoCopy, Unread
    <3> QED BY <1>3, <3>1, <3>2, <3>3
  <2>3. CountersExact'
    BY <1>3 DEF CountersExact
  <2> QED BY <2>1, <2>2, <2>3
<1> QED BY <1>1, <1>2, <1>3

\* The worker thread: what it has loaded is what it stores to, unless a reset
\* fell between, and then it is at most what has happened.
LEMMA WorkerCount ==
  ASSUME CountInv, WorkerStep, TypeInv'
  PROVE  CountInv'
<1> USE LockedIsCounter
        DEF CountInv, TypeInv, PcTypes, ValueTypes, WorkerMoves, mainVars, handlerVars
<1>1. main # "down"
  BY DEF PhaseInv, QueueTypes, WorkerStep, Take, ProcessedLoad, ProcessedStore,
     ProcessedRead, ProcessedSet
<1>2. PhaseInv' /\ LockInv'
  BY <1>1 DEF PhaseInv, LockInv, WorkerStep, Take, ProcessedLoad, ProcessedStore,
     ProcessedRead, ProcessedSet
<1>3. CASE Take \/ ProcessedLoad \/ ProcessedRead \/ ProcessedSet
  <2> USE DEF Take, ProcessedLoad, ProcessedRead, ProcessedSet
  <2>1. RegInv'
    BY <1>3 DEF RegInv, NeverMoreThanHappened
  <2>2. NeverMoreThanHappened'
    BY <1>3 DEF NeverMoreThanHappened, RegInv
  <2>3. CountersExact'
    BY <1>3 DEF CountersExact
  <2> QED BY <1>2, <2>1, <2>2, <2>3
<1>4. CASE ProcessedStore
  <2> USE DEF ProcessedStore
  <2>1. RegInv'
    BY <1>4 DEF RegInv
  <2>2. NeverMoreThanHappened'
    <3>1. \A c \in Counters : happened'[c] >= happened[c] /\ data'[c] <= happened'[c]
      BY <1>4 DEF NeverMoreThanHappened, RegInv
    <3> QED BY <1>4, <3>1 DEF NeverMoreThanHappened, Unread
  <2>3. CountersExact'
    BY <1>4 DEF CountersExact, RegInv
  <2> QED BY <1>2, <2>1, <2>2, <2>3
<1> QED BY <1>3, <1>4 DEF WorkerStep

\* The end of the process and the next start.
LEMMA MainCount ==
  ASSUME CountInv, MainStep \/ Crash, TypeInv'
  PROVE  CountInv'
<1> USE LockedIsCounter
        DEF CountInv, TypeInv, PcTypes, ValueTypes, QueueTypes, MainMoves, handlerVars,
            workerVars
<1>1. CASE Start
  <2>1. PhaseInv' /\ LockInv' /\ RegInv'
    BY <1>1 DEF Start, PhaseInv, LockInv, RegInv
  <2>2. NeverMoreThanHappened' /\ CountersExact'
    BY <1>1 DEF Start, NeverMoreThanHappened, CountersExact
  <2> QED BY <2>1, <2>2
<1>2. CASE Load \/ Serve
  <2>1. PhaseInv' /\ LockInv' /\ RegInv'
    BY <1>2 DEF Load, Serve, PhaseInv, LockInv, RegInv
  <2>2. NeverMoreThanHappened' /\ CountersExact'
    BY <1>2 DEF Load, Serve, NeverMoreThanHappened, CountersExact
  <2> QED BY <2>1, <2>2
<1>3. CASE Crash
  <2>1. PhaseInv' /\ LockInv' /\ RegInv'
    BY <1>3 DEF Crash, PhaseInv, LockInv, RegInv
  <2>2. NeverMoreThanHappened' /\ CountersExact'
    BY <1>3 DEF Crash, NeverMoreThanHappened, CountersExact, Zero, NoCopy, Unread
  <2> QED BY <2>1, <2>2
<1> QED BY <1>1, <1>2, <1>3 DEF MainStep

\* Every step preserves CountInv.
LEMMA CountStep ==
  ASSUME CountInv, Next, TypeInv'
  PROVE  CountInv'
BY QuietCount, LockedCount, AdminCount, WorkerCount, MainCount DEF Next, HandlerStep

-----------------------------------------------------------------------------
(***************************************************************************)
(* QueueInv: the list in Redis, the job queue and the counter of them.     *)
(***************************************************************************)

\* The handlers between the list and the queue can be counted.
LEMMA PushingFinite ==
  ASSUME TRUE
  PROVE  IsFiniteSet(Pushing) /\ Cardinality(Pushing) \in Nat
<1>1. Pushing \in SUBSET Handlers
  BY DEF Pushing
<1>2. IsFiniteSet(Pushing)
  BY <1>1, FS_Subset, HandlersAssumption
<1> QED BY <1>2, FS_CardinalityType

\* The handlers of a service that does not serve are at none of these places.
LEMMA NobodyPushes ==
  ASSUME PhaseInv, main # "up"
  PROVE  Pushing = {} /\ Cardinality(Pushing) = 0
<1>1. Pushing = {}
  BY DEF PhaseInv, Pushing
<1> QED BY <1>1, FS_EmptySet

\* The initial states satisfy it.
LEMMA InitQueue == Init => QueueInv
<1> SUFFICES ASSUME Init PROVE QueueInv
  OBVIOUS
<1>1. Pushing = {}
  BY DEF Init, Pushing
<1>2. Cardinality(Pushing) = 0
  BY <1>1, FS_EmptySet
<1>3. 0 % Modulus = 0
  BY ModulusAssumption
<1> QED BY <1>2, <1>3 DEF Init, QueueInv, ListedInv, QueueCountModular

\* The steps of a handler, of which Add, Push and ResetQueue matter.
LEMMA HandlerQueue ==
  ASSUME IInv, NEW h \in Handlers, HandlerStep(h)
  PROVE  QueueInv'
<1> DEFINE n == Cardinality(Pushing)
<1>0. n \in Nat
  BY PushingFinite
<1>m. /\ (((listed - toLoad - queueBase) % Modulus) + 1) % Modulus
           = ((listed - toLoad - queueBase) + 1) % Modulus
      /\ (((listed - toLoad - queueBase) % Modulus) - 1) % Modulus
           = ((listed - toLoad - queueBase) - 1) % Modulus
  <2>1. listed \in Int /\ toLoad \in Int /\ queueBase \in Int
    BY DEF IInv, CountInv, TypeInv, QueueTypes
  <2> QED BY <2>1, QueueMod, Zenon
<1> USE DEF IInv, CountInv, QueueInv, ListedInv, QueueCountModular, TypeInv, PcTypes,
            QueueTypes, Moves, Arrives, mainVars, queueVars, historyVars
<1>1. CASE Add(h)
  <2>1. main = "up" /\ toLoad = 0
    BY <1>1, BusyIsUp DEF Add, PhaseInv
  <2>2. n' = n + 1
    <3>1. Pushing' = Pushing \cup {h} /\ h \notin Pushing
      BY <1>1 DEF Add, Pushing
    <3> QED BY <3>1, PushingFinite, FS_AddElement
  <2>3. listed' = listed + 1 /\ current_n' = (current_n + 1) % Modulus
    BY <1>1 DEF Add
  <2>5. (listed - toLoad - queueBase) + 1 = (listed + 1) - toLoad - queueBase
    OBVIOUS
  <2>6. ListedInv'
    BY <1>0, <1>1, <2>2, <2>3 DEF Add
  <2>7. QueueCountModular'
    BY <1>m, <1>1, <2>1, <2>3, <2>5 DEF Add
  <2> QED BY <2>6, <2>7
<1>2. CASE Push(h)
  <2>1. n' = n - 1
    <3>1. Pushing' = Pushing \ {h} /\ h \in Pushing
      BY <1>2 DEF Push, Pushing
    <3> QED BY <3>1, PushingFinite, FS_RemoveElement
  <2> QED BY <1>0, <1>2, <2>1 DEF Push
<1>4. CASE ResetQueue(h)
  <2>1. main = "up" /\ toLoad = 0
    BY <1>4, BusyIsUp DEF ResetQueue, PhaseInv
  <2>2. Pushing' = Pushing
    BY <1>4 DEF ResetQueue, Pushing
  <2>3. n' = n
    BY <2>2
  <2>4. 0 % Modulus = 0
    BY ModulusAssumption
  <2>5. ListedInv'
    BY <1>0, <1>4, <2>3 DEF ResetQueue
  <2>6. current_n' = 0 /\ listed' - toLoad' - queueBase' = 0
    BY <1>4, <2>1 DEF ResetQueue
  <2>7. QueueCountModular'
    BY <2>4, <2>6
  <2> QED BY <2>5, <2>7
<1>5. CASE \/ Post(h) \/ Lock(h) \/ Store(h) \/ Set(h) \/ Reset(h) \/ InitArrives(h)
           \/ InitReads(h) \/ InitWrites(h) \/ Report(h) \/ ReportProcessed(h) \/ Reported(h)
  <2> USE DEF Post, Lock, Store, Set, Reset, InitArrives, InitReads, InitWrites, Report,
              ReportProcessed, Reported
  <2>1. Pushing' = Pushing
    BY <1>5 DEF Pushing
  <2>2. n' = n
    BY <2>1
  <2>3. UNCHANGED <<main, toLoad, jobs, listed, current_n, queueBase>>
    BY <1>5
  <2> QED BY <1>0, <2>2, <2>3
<1> QED BY <1>1, <1>2, <1>4, <1>5 DEF HandlerStep

\* The steps of the worker thread, of which Take matters.
LEMMA WorkerQueue ==
  ASSUME IInv, WorkerStep
  PROVE  QueueInv'
<1> DEFINE n == Cardinality(Pushing)
<1>0. n \in Nat
  BY PushingFinite
<1>m. /\ (((listed - toLoad - queueBase) % Modulus) + 1) % Modulus
           = ((listed - toLoad - queueBase) + 1) % Modulus
      /\ (((listed - toLoad - queueBase) % Modulus) - 1) % Modulus
           = ((listed - toLoad - queueBase) - 1) % Modulus
  <2>1. listed \in Int /\ toLoad \in Int /\ queueBase \in Int
    BY DEF IInv, CountInv, TypeInv, QueueTypes
  <2> QED BY <2>1, QueueMod, Zenon
<1> USE DEF IInv, CountInv, QueueInv, ListedInv, QueueCountModular, TypeInv, QueueTypes,
            WorkerMoves, mainVars, handlerVars, queueVars
<1>1. Pushing' = Pushing
  BY DEF Pushing, WorkerStep, Take, ProcessedLoad, ProcessedStore, ProcessedRead,
     ProcessedSet
<1>2. n' = n
  BY <1>1
<1>3. CASE Take
  <2>1. main # "down"
    BY <1>3 DEF Take, PhaseInv
  <2>2. listed' = listed - 1 /\ current_n' = (current_n - 1) % Modulus
    BY <1>3 DEF Take
  <2>4. (listed - toLoad - queueBase) - 1 = (listed - 1) - toLoad - queueBase
    OBVIOUS
  <2>5. ListedInv'
    BY <1>0, <1>2, <1>3, <2>2 DEF Take
  <2>6. QueueCountModular'
    BY <1>m, <1>3, <2>1, <2>2, <2>4 DEF Take
  <2> QED BY <2>5, <2>6
<1>4. CASE ProcessedLoad \/ ProcessedStore \/ ProcessedRead \/ ProcessedSet
  <2>1. UNCHANGED <<main, toLoad, jobs, listed, current_n, queueBase>>
    BY <1>4 DEF ProcessedLoad, ProcessedStore, ProcessedRead, ProcessedSet
  <2> QED BY <1>0, <1>2, <2>1
<1> QED BY <1>3, <1>4 DEF WorkerStep

\* The end of the process and the next start.
LEMMA MainQueue ==
  ASSUME IInv, MainStep \/ Crash
  PROVE  QueueInv'
<1> DEFINE n == Cardinality(Pushing)
<1>0. n \in Nat
  BY PushingFinite
<1>m. /\ (((listed - toLoad - queueBase) % Modulus) + 1) % Modulus
           = ((listed - toLoad - queueBase) + 1) % Modulus
      /\ (((listed - toLoad - queueBase) % Modulus) - 1) % Modulus
           = ((listed - toLoad - queueBase) - 1) % Modulus
  <2>1. listed \in Int /\ toLoad \in Int /\ queueBase \in Int
    BY DEF IInv, CountInv, TypeInv, QueueTypes
  <2> QED BY <2>1, QueueMod, Zenon
<1> USE DEF IInv, CountInv, QueueInv, ListedInv, QueueCountModular, TypeInv, QueueTypes,
            MainMoves, handlerVars
<1>1. CASE MainStep
  <2>1. Pushing' = Pushing
    BY <1>1 DEF Pushing, MainStep, Start, Load, Serve
  <2>2. n' = n
    BY <2>1
  <2>3. CASE Start
    <3>1. n = 0 /\ jobs = 0 /\ current_n = 0 /\ queueBase = 0
      BY <2>3, NobodyPushes DEF Start, PhaseInv
    <3>2. listed - listed - 0 = 0 /\ 0 % Modulus = 0
      BY ModulusAssumption
    <3>3. /\ toLoad' = listed /\ jobs' = 0 /\ listed' = listed
          /\ current_n' = 0 /\ queueBase' = 0
      BY <2>3, <3>1 DEF Start
    <3> QED BY <2>2, <3>1, <3>2, <3>3
  <2>4. CASE Load
    <3>1. /\ main = "load" /\ toLoad' = toLoad - 1 /\ jobs' \in {jobs, jobs + 1}
          /\ listed' = listed /\ queueBase' = queueBase
          /\ current_n' = (current_n + 1) % Modulus
      BY <2>4 DEF Load
    <3>3. (listed - toLoad - queueBase) + 1 = listed - (toLoad - 1) - queueBase
      OBVIOUS
    <3>4. ListedInv'
      BY <1>0, <2>2, <3>1
    <3>5. QueueCountModular'
      BY <1>m, <3>1, <3>3
    <3> QED BY <3>4, <3>5
  <2>5. CASE Serve
    <3>1. /\ main = "load"
          /\ UNCHANGED <<toLoad, jobs, listed, current_n, queueBase>>
      BY <2>5 DEF Serve
    <3> QED BY <1>0, <2>2, <3>1
  <2> QED BY <1>1, <2>3, <2>4, <2>5 DEF MainStep
<1>2. CASE Crash
  <2>1. Pushing' = {}
    BY <1>2 DEF Crash, Pushing
  <2>2. n' = 0
    BY <2>1, FS_EmptySet
  <2> QED BY <1>0, <1>2, <2>2 DEF Crash
<1> QED BY <1>1, <1>2

-----------------------------------------------------------------------------
(***************************************************************************)
(* The invariant and what follows from it.                                 *)
(***************************************************************************)

\* Every step preserves the invariant.
LEMMA StepInv == IInv /\ [Next]_vars => IInv'
<1> SUFFICES ASSUME IInv, [Next]_vars PROVE IInv'
  OBVIOUS
<1>1. CASE Next
  <2>1. listed >= 0
    BY PushingFinite DEF IInv, QueueInv, ListedInv, CountInv, TypeInv, QueueTypes
  <2>2. TypeInv'
    BY <1>1, <2>1, FlagStep, PcStep, ValueStep, QueueStep DEF IInv, CountInv, TypeInv
  <2>3. CountInv'
    BY <1>1, <2>2, CountStep DEF IInv
  <2>4. QueueInv'
    BY <1>1, HandlerQueue, WorkerQueue, MainQueue DEF Next
  <2> QED BY <2>3, <2>4 DEF IInv
<1>2. CASE UNCHANGED vars
  <2>1. TypeInv'
    <3> USE <1>2 DEF IInv, CountInv, TypeInv, vars, mainVars, handlerVars, workerVars,
                     queueVars, historyVars, boundVars
    <3>1. PcTypes' /\ ValueTypes' /\ QueueTypes' /\ BoundTypes'
      BY DEF PcTypes, ValueTypes, QueueTypes, BoundTypes
    <3>2. FlagTypes'
      BY Zenon DEF FlagTypes
    <3> QED BY <3>1, <3>2
  <2>2. PhaseInv' /\ LockInv' /\ RegInv'
    BY <1>2 DEF IInv, CountInv, PhaseInv, LockInv, RegInv, vars, mainVars, handlerVars,
       workerVars, queueVars, historyVars
  <2>3. NeverMoreThanHappened' /\ CountersExact'
    BY <1>2 DEF IInv, CountInv, NeverMoreThanHappened, CountersExact, vars, handlerVars,
       historyVars
  <2>4. Pushing' = Pushing
    BY <1>2 DEF Pushing, vars, handlerVars
  <2>5. QueueInv'
    BY <1>2, <2>4 DEF IInv, QueueInv, ListedInv, QueueCountModular, vars, mainVars,
       queueVars, historyVars
  <2> QED BY <2>1, <2>2, <2>3, <2>5 DEF IInv, CountInv
<1> QED BY <1>1, <1>2

\* The strengthened invariant holds in every reachable state: who holds
\* trans_count_mutex, what the loaded values are worth, and that whatever is
\* queued, about to be queued or about to be loaded is in the list in Redis.
THEOREM CountersInvariant == Spec => []IInv
BY InitCount, InitQueue, StepInv, PTL DEF Spec, IInv

\* The variables have their types; neither what is listed nor what a counter
\* has forgotten is ever negative.
THEOREM CountersTypeCorrect == Spec => []TypeOK
<1>1. IInv => TypeOK
  <2> SUFFICES ASSUME IInv PROVE TypeOK
    OBVIOUS
  <2> USE DEF IInv, CountInv, TypeInv
  <2>1. listed \in Nat /\ queueBase \in Nat
    BY PushingFinite DEF QueueInv, ListedInv, QueueTypes
  <2>2. FlagTypes
    OBVIOUS
  <2>3. /\ jobs \in Nat /\ toLoad \in Nat /\ current_n \in 0 .. Modulus - 1
        /\ BoundTypes
    BY DEF QueueTypes
  <2> QED BY <2>1, <2>2, <2>3, Zenon DEF TypeOK, PcTypes, ValueTypes, FlagTypes, BoundTypes
<1> QED BY <1>1, CountersInvariant, PTL

\* Resets, inits, restarts and the worker's unlocked increment of
\* n_processed_trans never make a counter more than what has happened.
THEOREM CountersNeverInvent == Spec => []NeverMoreThanHappened
<1>1. IInv => NeverMoreThanHappened
  BY DEF IInv, CountInv
<1> QED BY <1>1, CountersInvariant, PTL

\* The mutex makes the four counters exact; n_processed_trans is, unless a reset
\* falls between the load and the store of an increment.
THEOREM CountersAlwaysExact == Spec => []CountersExact
<1>1. IInv => CountersExact
  BY DEF IInv, CountInv
<1> QED BY <1>1, CountersInvariant, PTL

\* current_n_trans_in_worker_queue is the length of the list in Redis less what
\* is left to load and what the last reset forgot, for a size_t of any width.
THEOREM QueueCountAlwaysModular == Spec => []QueueCountModular
<1>1. IInv => QueueCountModular
  BY DEF IInv, QueueInv
<1> QED BY <1>1, CountersInvariant, PTL

-----------------------------------------------------------------------------
(***************************************************************************)
(* ReportAddsUp.  The counters in Redis follow those in memory, and leave  *)
(* room for every transaction that is somewhere between two of them; what  *)
(* a restart loads leaves it too, therefore.                               *)
(***************************************************************************)

\* The handlers whose transaction Redis counts in n_trans, but not yet as good
\* or bad; those whose transaction it counts as received, but not yet as good;
\* and those that will list theirs next.
Counted  == {h \in Handlers : \/ pc[h] \in {"add", "push"}
                              \/ pc[h] \in {"lock", "store", "set"} /\ counter[h] # "n_trans"}
Received == {h \in Handlers : \/ pc[h] \in {"add", "push"}
                              \/ pc[h] \in {"lock", "store", "set"} /\ counter[h] = "n_good_trans"}
Listing  == {h \in Handlers : pc[h] = "add"}

\* A counter in memory is ahead of the one in Redis by the increment that is
\* still to be written.
Ahead(c) == IF \E h \in Handlers : pc[h] = "set" /\ counter[h] = c THEN 1 ELSE 0

SyncInv ==
  ~disturbed /\ main # "down" =>
    /\ \A c \in Locked : data[c] = cached[c] + Ahead(c)
    /\ data["n_processed_trans"] =
         cached["n_processed_trans"] + (IF wpc \in {"arg", "set"} THEN 1 ELSE 0)
    /\ wpc \in {"store", "set"} => wreg = data["n_processed_trans"]

\* The counters in Redis leave room for all that is on its way.
RoomInv ==
  ~disturbed =>
    /\ cached["n_good_trans"] + cached["n_bad_trans"] + Cardinality(Counted)
         <= cached["n_trans"]
    /\ cached["n_good_trans"] + Cardinality(Received) <= cached["n_received_trans"]
    /\ cached["n_processed_trans"] + listed + Cardinality(Listing)
         + (IF wpc = "wait" THEN 0 ELSE 1) <= cached["n_received_trans"]

\* A report that holds the mutex has what is in memory.
CopyInv ==
  \A h \in Handlers : pc[h] = "report" => \A c \in Locked : copy[h][c] = data[c]

AddsInv == SyncInv /\ RoomInv /\ CopyInv /\ ReportAddsUp

\* A set of handlers that differs from another in one handler at most.
LEMMA OneMoves ==
  ASSUME NEW S \in SUBSET Handlers, NEW T \in SUBSET Handlers, NEW h \in Handlers,
         \A k \in Handlers : k # h => (k \in S <=> k \in T)
  PROVE  /\ Cardinality(S) \in Nat
         /\ Cardinality(T) = Cardinality(S) + (IF h \in T THEN 1 ELSE 0)
                                            - (IF h \in S THEN 1 ELSE 0)
<1>1. IsFiniteSet(S) /\ Cardinality(S) \in Nat
  BY FS_Subset, FS_CardinalityType, HandlersAssumption
<1>2. CASE h \in S /\ h \notin T
  <2>1. T = S \ {h}
    BY <1>2
  <2>2. Cardinality(T) = Cardinality(S) - 1
    BY <1>1, <1>2, <2>1, FS_RemoveElement
  <2> QED BY <1>1, <1>2, <2>2
<1>3. CASE h \notin S /\ h \in T
  <2>1. T = S \cup {h}
    BY <1>3
  <2>2. Cardinality(T) = Cardinality(S) + 1
    BY <1>1, <1>3, <2>1, FS_AddElement
  <2> QED BY <1>1, <1>3, <2>2
<1>4. CASE h \in S <=> h \in T
  <2>1. T = S
    BY <1>4
  <2> QED BY <1>1, <1>4, <2>1
<1> QED BY <1>2, <1>3, <1>4

\* One handler moves.
LEMMA RoomShift ==
  ASSUME NEW h \in Handlers,
         \A k \in Handlers : k # h => pc'[k] = pc[k] /\ counter'[k] = counter[k]
  PROVE  /\ Cardinality(Counted) \in Nat
         /\ Cardinality(Counted') = Cardinality(Counted) + (IF h \in Counted' THEN 1 ELSE 0)
                                                         - (IF h \in Counted THEN 1 ELSE 0)
         /\ Cardinality(Received) \in Nat
         /\ Cardinality(Received') = Cardinality(Received) + (IF h \in Received' THEN 1 ELSE 0)
                                                           - (IF h \in Received THEN 1 ELSE 0)
         /\ Cardinality(Listing) \in Nat
         /\ Cardinality(Listing') = Cardinality(Listing) + (IF h \in Listing' THEN 1 ELSE 0)
                                                         - (IF h \in Listing THEN 1 ELSE 0)
<1>1. \A k \in Handlers : k # h => /\ k \in Counted <=> k \in Counted'
                                   /\ k \in Received <=> k \in Received'
                                   /\ k \in Listing <=> k \in Listing'
  BY DEF Counted, Received, Listing
<1>2. /\ Counted \in SUBSET Handlers /\ Counted' \in SUBSET Handlers
      /\ Received \in SUBSET Handlers /\ Received' \in SUBSET Handlers
      /\ Listing \in SUBSET Handlers /\ Listing' \in SUBSET Handlers
  BY DEF Counted, Received, Listing
<1> QED BY <1>1, <1>2, OneMoves

\* A handler moves, and not from one of these places to another.
LEMMA RoomKept ==
  ASSUME NEW h \in Handlers,
         \A k \in Handlers : k # h => pc'[k] = pc[k] /\ counter'[k] = counter[k],
         h \in Counted <=> h \in Counted', h \in Received <=> h \in Received',
         h \in Listing <=> h \in Listing'
  PROVE  UNCHANGED <<Counted, Received, Listing>>
<1>1. \A k \in Handlers : /\ k \in Counted <=> k \in Counted'
                          /\ k \in Received <=> k \in Received'
                          /\ k \in Listing <=> k \in Listing'
  <2>1. \A k \in Handlers : k # h => /\ k \in Counted <=> k \in Counted'
                                     /\ k \in Received <=> k \in Received'
                                     /\ k \in Listing <=> k \in Listing'
    BY DEF Counted, Received, Listing
  <2> QED BY <2>1
<1>2. /\ Counted \subseteq Handlers /\ Counted' \subseteq Handlers
      /\ Received \subseteq Handlers /\ Received' \subseteq Handlers
      /\ Listing \subseteq Handlers /\ Listing' \subseteq Handlers
  BY DEF Counted, Received, Listing
<1> QED BY <1>1, <1>2

\* Nobody moves among these places.
LEMMA RoomStays ==
  ASSUME UNCHANGED <<pc, counter>>
  PROVE  /\ UNCHANGED <<Counted, Received, Listing>>
         /\ \A c \in Counters : Ahead(c)' = Ahead(c)
BY DEF Counted, Received, Listing, Ahead

\* A handler's step.
LEMMA HandlerMoves ==
  ASSUME IInv, NEW h \in Handlers, HandlerStep(h)
  PROVE  /\ main = "up" /\ UNCHANGED <<main, wpc, wreg>>
         /\ pc[h] \in HandlerPcs /\ counter[h] \in Locked
         /\ pc' = [pc EXCEPT ![h] = pc'[h]]
         /\ \A k \in Handlers : k # h => pc'[k] = pc[k] /\ counter'[k] = counter[k]
<1> USE DEF IInv, CountInv, TypeInv, PcTypes
<1>1. \E from \in HandlerPcs, to \in HandlerPcs : Moves(h, from, to)
  BY DEF HandlerStep, Post, Lock, Store, Set, Add, Push, Reset, ResetQueue, InitArrives,
     InitReads, InitWrites, Report, ReportProcessed, Reported, Arrives, HandlerPcs
<1>2. \A k \in Handlers : k # h => counter'[k] = counter[k]
  BY DEF HandlerStep, Post, Lock, Store, Set, Add, Push, Reset, ResetQueue, InitArrives,
     InitReads, InitWrites, Report, ReportProcessed, Reported, Arrives
<1>3. main = "up"
  BY <1>1, BusyIsUp DEF HandlerStep, Post, Lock, Store, Set, Add, Push, Reset, ResetQueue,
     InitArrives, InitReads, InitWrites, Report, ReportProcessed, Reported, Arrives, Moves
<1> QED BY <1>1, <1>2, <1>3 DEF Moves, mainVars, workerVars

\* Requests that touch neither the counters nor the places between them.
LEMMA AddsQuiet ==
  ASSUME IInv, AddsInv, NEW h \in Handlers,
         Post(h) \/ InitArrives(h) \/ InitReads(h) \/ Reported(h) \/ ResetQueue(h)
  PROVE  AddsInv'
<1>1. HandlerStep(h)
  BY DEF HandlerStep
<1>2. /\ UNCHANGED <<data, cached, listed, disturbed, wpc, wreg, main>> /\ main = "up"
      /\ \A k \in Handlers : k # h => copy'[k] = copy[k]
  <2>1. UNCHANGED <<data, cached, listed, disturbed>>
    BY DEF Post, InitArrives, InitReads, Reported, ResetQueue, Arrives, queueVars, historyVars
  <2>2. \A k \in Handlers : k # h => copy'[k] = copy[k]
    <3>1. copy \in [Handlers -> [Counters -> Nat \cup {Unread}]]
      BY DEF IInv, CountInv, TypeInv, ValueTypes
    <3>2. CASE Post(h) \/ InitArrives(h) \/ ResetQueue(h)
      BY <3>2 DEF Post, InitArrives, ResetQueue
    <3>3. CASE InitReads(h) \/ Reported(h)
      BY <3>1, <3>3 DEF InitReads, Reported
    <3> QED BY <3>2, <3>3
  <2> QED BY <1>1, <2>1, <2>2, HandlerMoves
<1>3. \/ pc[h] = "idle" /\ pc'[h] = "init"
      \/ pc[h] \in {"init", "queue", "reported"} /\ pc'[h] \in {"idle", "init"}
      \/ pc[h] = "idle" /\ pc'[h] = "lock" /\ counter'[h] = "n_trans"
  BY DEF Post, InitArrives, InitReads, Reported, ResetQueue, Arrives, Moves, IInv, CountInv,
     TypeInv, PcTypes
<1>4. \A k \in Handlers : k # h => pc'[k] = pc[k] /\ counter'[k] = counter[k]
  BY <1>1, HandlerMoves
<1>5. /\ h \notin Counted /\ h \notin Counted' /\ h \notin Received /\ h \notin Received'
      /\ h \notin Listing /\ h \notin Listing'
  BY <1>3 DEF Counted, Received, Listing
<1>6. \A c \in Locked : Ahead(c)' = Ahead(c)
  BY <1>3, <1>4 DEF Ahead
<1>7. SyncInv'
  BY <1>2, <1>6 DEF AddsInv, SyncInv
<1>8. RoomInv'
  <2>1. /\ Cardinality(Counted') = Cardinality(Counted)
        /\ Cardinality(Received') = Cardinality(Received)
        /\ Cardinality(Listing') = Cardinality(Listing)
    BY <1>4, <1>5, RoomKept
  <2> QED BY <1>2, <2>1 DEF AddsInv, RoomInv
<1>9. CopyInv' /\ ReportAddsUp'
  BY <1>2, <1>3, <1>4 DEF AddsInv, CopyInv, ReportAddsUp
<1> QED BY <1>7, <1>8, <1>9 DEF AddsInv

\* Who is about to write to Redis is alone with the mutex.
LEMMA AloneAhead ==
  ASSUME IInv, NEW h \in Handlers, NEW c \in Locked
  PROVE  /\ pc[h] \in {"store", "report"} \/ holder = Nobody => Ahead(c) = 0
         /\ pc[h] = "set" => Ahead(c) = IF c = counter[h] THEN 1 ELSE 0
<1>1. \A k \in Handlers : pc[k] \in {"store", "set", "report"} => holder = k
  BY DEF IInv, CountInv, LockInv
<1>2. \A k \in Handlers : k # Nobody
  BY NobodyAssumption
<1> QED BY <1>1, <1>2 DEF Ahead

\* An increment under the mutex.
LEMMA AddsLocked ==
  ASSUME IInv, IInv', AddsInv, NEW h \in Handlers, Lock(h) \/ Store(h) \/ Set(h)
  PROVE  AddsInv'
<1>0. HandlerStep(h)
  BY DEF HandlerStep
<1>1. /\ main = "up" /\ UNCHANGED <<main, wpc, wreg, disturbed, listed, copy>>
      /\ counter[h] \in Locked
      /\ \A k \in Handlers : k # h => pc'[k] = pc[k] /\ counter'[k] = counter[k]
  <2>1. UNCHANGED <<disturbed, listed, copy>>
    BY DEF Lock, Store, Set, queueVars, historyVars
  <2> QED BY <1>0, <2>1, HandlerMoves
<1>2. TypeInv /\ TypeInv' /\ LockInv
  BY DEF IInv, CountInv
<1>c. "n_processed_trans" \notin Locked /\ Locked \subseteq Counters
  BY LockedIsCounter
<1>3. CASE Lock(h)
  <2>1. /\ pc[h] = "lock" /\ pc'[h] = "store" /\ UNCHANGED <<counter, data, cached>>
    BY <1>2, <1>3 DEF Lock, Moves, TypeInv, PcTypes, historyVars
  <2>2. /\ h \in Counted <=> h \in Counted'
        /\ h \in Received <=> h \in Received'
        /\ h \in Listing <=> h \in Listing'
    BY <2>1 DEF Counted, Received, Listing
  <2>3. /\ Cardinality(Counted') = Cardinality(Counted)
        /\ Cardinality(Received') = Cardinality(Received)
        /\ Cardinality(Listing') = Cardinality(Listing)
    BY <1>1, <2>2, RoomKept
  <2>4. \A c \in Locked : Ahead(c)' = Ahead(c)
    BY <1>1, <2>1 DEF Ahead
  <2>5. SyncInv'
    BY <1>1, <2>1, <2>4 DEF AddsInv, SyncInv
  <2>6. RoomInv'
    BY <1>1, <2>1, <2>3 DEF AddsInv, RoomInv
  <2>7. CopyInv' /\ ReportAddsUp'
    BY <1>1, <2>1 DEF AddsInv, CopyInv, ReportAddsUp
  <2> QED BY <2>5, <2>6, <2>7 DEF AddsInv
<1>4. CASE Store(h)
  <2>1. /\ pc[h] = "store" /\ pc'[h] = "set" /\ UNCHANGED <<counter, cached>>
        /\ data' = [data EXCEPT ![counter[h]] = reg[h] + 1]
    BY <1>2, <1>4 DEF Store, Moves, TypeInv, PcTypes
  <2>2. reg[h] = data[counter[h]]
    BY <2>1 DEF IInv, CountInv, RegInv
  <2>3. /\ data'[counter[h]] = data[counter[h]] + 1
        /\ \A c \in Counters : c # counter[h] => data'[c] = data[c]
    BY <1>1, <1>2, <1>c, <2>1, <2>2 DEF TypeInv, ValueTypes
  <2>4. /\ h \in Counted <=> h \in Counted'
        /\ h \in Received <=> h \in Received'
        /\ h \in Listing <=> h \in Listing'
    BY <2>1 DEF Counted, Received, Listing
  <2>5. /\ Cardinality(Counted') = Cardinality(Counted)
        /\ Cardinality(Received') = Cardinality(Received)
        /\ Cardinality(Listing') = Cardinality(Listing)
    BY <1>1, <2>4, RoomKept
  <2>6. \A c \in Locked : Ahead(c) = 0
    BY <2>1, AloneAhead
  <2>7. \A c \in Locked : Ahead(c)' = IF c = counter[h] THEN 1 ELSE 0
    <3>1. \A k \in Handlers : pc'[k] = "set" => k = h
      BY <1>1, <2>1 DEF IInv, CountInv, LockInv
    <3> QED BY <2>1, <3>1 DEF Ahead
  <2>8. SyncInv'
    <3> SUFFICES ASSUME ~disturbed
                 PROVE  /\ \A c \in Locked : data'[c] = cached'[c] + Ahead(c)'
                        /\ data'["n_processed_trans"] = cached'["n_processed_trans"]
                             + (IF wpc' \in {"arg", "set"} THEN 1 ELSE 0)
                        /\ wpc' \in {"store", "set"} => wreg' = data'["n_processed_trans"]
      BY <1>1 DEF SyncInv
    <3>1. \A c \in Locked : data[c] = cached[c] /\ data[c] \in Nat
      BY <1>1, <1>2, <1>c, <2>6 DEF AddsInv, SyncInv, TypeInv, ValueTypes
    <3>2. \A c \in Locked : data'[c] = cached'[c] + Ahead(c)'
      BY <1>1, <1>c, <2>1, <2>3, <2>7, <3>1
    <3>3. data'["n_processed_trans"] = data["n_processed_trans"]
      BY <1>1, <1>c, <2>3, LockedIsCounter
    <3> QED BY <1>1, <2>1, <3>2, <3>3 DEF AddsInv, SyncInv
  <2>9. RoomInv'
    BY <1>1, <2>1, <2>5 DEF AddsInv, RoomInv
  <2>10. CopyInv'
    BY <1>1, <2>1 DEF IInv, CountInv, LockInv, CopyInv
  <2>11. ReportAddsUp'
    BY <1>1, <2>1 DEF AddsInv, ReportAddsUp
  <2> QED BY <2>8, <2>9, <2>10, <2>11 DEF AddsInv
<1>5. CASE Set(h)
  <2>1. /\ pc[h] = "set" /\ pc'[h] \in {"lock", "add", "idle"} /\ data' = data
        /\ cached' = [cached EXCEPT ![counter[h]] = data[counter[h]]]
    BY <1>2, <1>5 DEF Set, Moves, TypeInv, PcTypes, historyVars
  <2>2. \/ counter[h] = "n_trans" /\ pc'[h] = "lock"
           /\ counter'[h] \in {"n_bad_trans", "n_received_trans"}
        \/ counter[h] = "n_received_trans" /\ pc'[h] = "add"
        \/ counter[h] \in {"n_trans", "n_bad_trans", "n_good_trans"} /\ pc'[h] = "idle"
    BY <1>2, <1>5 DEF Set, Moves, TypeInv, PcTypes
  <2>3. \A c \in Locked : Ahead(c) = IF c = counter[h] THEN 1 ELSE 0
    BY <2>1, AloneAhead
  <2>4. \A c \in Locked : Ahead(c)' = 0
    <3>1. \A k \in Handlers : pc'[k] # "set"
      BY <1>1, <2>1 DEF IInv, CountInv, LockInv
    <3> QED BY <3>1 DEF Ahead
  <2>5. \A c \in Counters : c # counter[h] => cached'[c] = cached[c]
    BY <1>2, <2>1 DEF TypeInv, ValueTypes
  <2>6. ~disturbed => cached'[counter[h]] = cached[counter[h]] + 1
    <3>1. cached'[counter[h]] = data[counter[h]]
      BY <1>1, <1>2, <1>c, <2>1 DEF TypeInv, ValueTypes
    <3> QED BY <1>1, <2>3, <3>1 DEF AddsInv, SyncInv
  <2>7. SyncInv'
    <3> SUFFICES ASSUME ~disturbed
                 PROVE  /\ \A c \in Locked : data'[c] = cached'[c] + Ahead(c)'
                        /\ data'["n_processed_trans"] = cached'["n_processed_trans"]
                             + (IF wpc' \in {"arg", "set"} THEN 1 ELSE 0)
                        /\ wpc' \in {"store", "set"} => wreg' = data'["n_processed_trans"]
      BY <1>1 DEF SyncInv
    <3>1. \A c \in Locked : cached[c] \in Nat
      BY <1>2, <1>c DEF TypeInv, ValueTypes
    <3>2. \A c \in Locked : data[c] = cached[c] + Ahead(c)
      BY <1>1 DEF AddsInv, SyncInv
    <3>3. \A c \in Locked : data'[c] = cached'[c] + Ahead(c)'
      BY <1>c, <2>1, <2>3, <2>4, <2>5, <2>6, <3>1, <3>2
    <3>4. cached'["n_processed_trans"] = cached["n_processed_trans"]
      BY <1>1, <1>c, <2>5, LockedIsCounter
    <3> QED BY <1>1, <2>1, <3>3, <3>4 DEF AddsInv, SyncInv
  <2>8. RoomInv'
    <3> SUFFICES ASSUME ~disturbed
                 PROVE  RoomInv'
      BY <1>1 DEF RoomInv
    <3>1. /\ cached["n_trans"] \in Nat /\ cached["n_bad_trans"] \in Nat
          /\ cached["n_good_trans"] \in Nat /\ cached["n_received_trans"] \in Nat
          /\ cached["n_processed_trans"] \in Nat /\ listed \in Int
      BY <1>2 DEF TypeInv, ValueTypes, QueueTypes, Counters, Locked
    <3>2. h \notin Listing
      BY <2>1 DEF Listing
    <3>3. CASE counter[h] = "n_trans"
      <4>1. /\ h \notin Counted /\ h \notin Received /\ h \notin Received'
            /\ h \notin Listing'
        BY <2>1, <2>2, <3>3 DEF Counted, Received, Listing
      <4>2. /\ cached'["n_trans"] = cached["n_trans"] + 1
            /\ cached'["n_bad_trans"] = cached["n_bad_trans"]
            /\ cached'["n_good_trans"] = cached["n_good_trans"]
            /\ cached'["n_received_trans"] = cached["n_received_trans"]
            /\ cached'["n_processed_trans"] = cached["n_processed_trans"]
        BY <2>5, <2>6, <3>3 DEF Counters, Locked
      <4> QED BY <1>1, <3>1, <3>2, <4>1, <4>2, RoomShift DEF AddsInv, RoomInv
    <3>4. CASE counter[h] = "n_received_trans"
      <4>1. /\ h \in Counted /\ h \in Counted' /\ h \notin Received /\ h \in Received'
            /\ h \in Listing'
        BY <2>1, <2>2, <3>4 DEF Counted, Received, Listing
      <4>2. /\ cached'["n_trans"] = cached["n_trans"]
            /\ cached'["n_bad_trans"] = cached["n_bad_trans"]
            /\ cached'["n_good_trans"] = cached["n_good_trans"]
            /\ cached'["n_received_trans"] = cached["n_received_trans"] + 1
            /\ cached'["n_processed_trans"] = cached["n_processed_trans"]
        BY <2>5, <2>6, <3>4 DEF Counters, Locked
      <4> QED BY <1>1, <3>1, <3>2, <4>1, <4>2, RoomShift DEF AddsInv, RoomInv
    <3>5. CASE counter[h] = "n_bad_trans"
      <4>1. /\ h \in Counted /\ h \notin Counted' /\ h \notin Received /\ h \notin Received'
            /\ h \notin Listing'
        BY <2>1, <2>2, <3>5 DEF Counted, Received, Listing
      <4>2. /\ cached'["n_trans"] = cached["n_trans"]
            /\ cached'["n_bad_trans"] = cached["n_bad_trans"] + 1
            /\ cached'["n_good_trans"] = cached["n_good_trans"]
            /\ cached'["n_received_trans"] = cached["n_received_trans"]
            /\ cached'["n_processed_trans"] = cached["n_processed_trans"]
        BY <2>5, <2>6, <3>5 DEF Counters, Locked
      <4> QED BY <1>1, <3>1, <3>2, <4>1, <4>2, RoomShift DEF AddsInv, RoomInv
    <3>6. CASE counter[h] = "n_good_trans"
      <4>1. /\ h \in Counted /\ h \notin Counted' /\ h \in Received /\ h \notin Received'
            /\ h \notin Listing'
        BY <2>1, <2>2, <3>6 DEF Counted, Received, Listing
      <4>2. /\ cached'["n_trans"] = cached["n_trans"]
            /\ cached'["n_bad_trans"] = cached["n_bad_trans"]
            /\ cached'["n_good_trans"] = cached["n_good_trans"] + 1
            /\ cached'["n_received_trans"] = cached["n_received_trans"]
            /\ cached'["n_processed_trans"] = cached["n_processed_trans"]
        BY <2>5, <2>6, <3>6 DEF Counters, Locked
      <4> QED BY <1>1, <3>1, <3>2, <4>1, <4>2, RoomShift DEF AddsInv, RoomInv
    <3> QED BY <1>1, <3>3, <3>4, <3>5, <3>6 DEF Locked
  <2>9. CopyInv' /\ ReportAddsUp'
    BY <1>1, <2>1 DEF AddsInv, CopyInv, ReportAddsUp
  <2> QED BY <2>7, <2>8, <2>9 DEF AddsInv
<1> QED BY <1>3, <1>4, <1>5

\* The list and the job queue.
LEMMA AddsPush ==
  ASSUME IInv, AddsInv, NEW h \in Handlers, Add(h) \/ Push(h)
  PROVE  AddsInv'
<1>0. HandlerStep(h)
  BY DEF HandlerStep
<1>1. /\ main = "up" /\ UNCHANGED <<main, wpc, wreg, disturbed, copy, data, cached>>
      /\ \A k \in Handlers : k # h => pc'[k] = pc[k] /\ counter'[k] = counter[k]
  <2>1. UNCHANGED <<disturbed, copy, data, cached>>
    BY DEF Add, Push, historyVars
  <2> QED BY <1>0, <2>1, HandlerMoves
<1>2. pc \in [Handlers -> HandlerPcs] /\ counter \in [Handlers -> Locked]
  BY DEF IInv, CountInv, TypeInv, PcTypes
<1>3. \/ /\ pc[h] = "add" /\ pc'[h] = "push" /\ listed' = listed + 1
         /\ h \in Counted /\ h \in Counted' /\ h \in Received /\ h \in Received'
         /\ h \in Listing /\ h \notin Listing'
      \/ /\ pc[h] = "push" /\ pc'[h] = "lock" /\ listed' = listed
         /\ h \in Counted /\ h \in Counted' /\ h \in Received /\ h \in Received'
         /\ h \notin Listing /\ h \notin Listing'
  <2>1. CASE Add(h)
    BY <1>2, <2>1 DEF Add, Moves, Counted, Received, Listing
  <2>2. CASE Push(h)
    BY <1>2, <2>2 DEF Push, Moves, Counted, Received, Listing
  <2> QED BY <2>1, <2>2
<1>4. \A c \in Locked : Ahead(c)' = Ahead(c)
  BY <1>1, <1>3 DEF Ahead
<1>5. SyncInv'
  BY <1>1, <1>4 DEF AddsInv, SyncInv
<1>6. RoomInv'
  <2>1. /\ cached["n_processed_trans"] \in Nat /\ listed \in Int
        /\ cached["n_good_trans"] \in Nat /\ cached["n_received_trans"] \in Nat
    BY DEF IInv, CountInv, TypeInv, ValueTypes, QueueTypes, Counters, Locked
  <2> QED BY <1>1, <1>3, <2>1, RoomShift DEF AddsInv, RoomInv
<1>7. CopyInv' /\ ReportAddsUp'
  BY <1>1, <1>3 DEF AddsInv, CopyInv, ReportAddsUp
<1> QED BY <1>5, <1>6, <1>7 DEF AddsInv

\* A reset or an init disturbs the counts; a report reads them.
LEMMA AddsAdmin ==
  ASSUME IInv, AddsInv, NEW h \in Handlers,
         Reset(h) \/ InitWrites(h) \/ Report(h) \/ ReportProcessed(h)
  PROVE  AddsInv'
<1>0. HandlerStep(h)
  BY DEF HandlerStep
<1>1. /\ main = "up" /\ UNCHANGED <<main, wpc, wreg>>
      /\ \A k \in Handlers : k # h => pc'[k] = pc[k] /\ counter'[k] = counter[k]
  BY <1>0, HandlerMoves
<1>2. /\ pc \in [Handlers -> HandlerPcs] /\ counter \in [Handlers -> Locked]
      /\ copy \in [Handlers -> [Counters -> Nat \cup {Unread}]]
      /\ data \in [Counters -> Nat] /\ cached \in [Counters -> Nat]
  BY DEF IInv, CountInv, TypeInv, PcTypes, ValueTypes
<1>c. "n_processed_trans" \in Counters \ Locked /\ Locked \subseteq Counters
  BY LockedIsCounter
<1>3. CASE Reset(h)
  <2>1. /\ disturbed' /\ pc'[h] = "queue" /\ holder = Nobody
    BY <1>2, <1>3 DEF Reset, Arrives, Moves
  <2>2. \A k \in Handlers : pc'[k] # "report"
    BY <1>1, <2>1, NobodyAssumption DEF IInv, CountInv, LockInv
  <2> QED BY <2>1, <2>2 DEF AddsInv, SyncInv, RoomInv, CopyInv, ReportAddsUp
<1>4. CASE InitWrites(h)
  <2>1. /\ disturbed' /\ pc'[h] = "idle" /\ data' = data
        /\ \A k \in Handlers : k # h => copy'[k] = copy[k]
    BY <1>2, <1>4 DEF InitWrites, Moves
  <2>2. CopyInv'
    BY <1>1, <2>1 DEF AddsInv, CopyInv
  <2> QED BY <2>1, <2>2 DEF AddsInv, SyncInv, RoomInv, ReportAddsUp
<1>5. CASE Report(h) \/ ReportProcessed(h)
  <2>1. /\ UNCHANGED <<data, cached, listed, disturbed, counter>>
        /\ \A k \in Handlers : k # h => copy'[k] = copy[k]
    BY <1>2, <1>5 DEF Report, ReportProcessed, Arrives, queueVars, historyVars
  <2>2. pc[h] \in {"idle", "report"} /\ pc'[h] \in {"report", "reported"}
    BY <1>2, <1>5 DEF Report, ReportProcessed, Arrives, Moves
  <2>3. UNCHANGED <<Counted, Received, Listing>>
    <3>1. /\ h \notin Counted /\ h \notin Counted' /\ h \notin Received
          /\ h \notin Received' /\ h \notin Listing /\ h \notin Listing'
      BY <2>2 DEF Counted, Received, Listing
    <3> QED BY <1>1, <3>1, RoomKept
  <2>4. \A c \in Locked : Ahead(c)' = Ahead(c)
    BY <1>1, <2>1, <2>2 DEF Ahead
  <2>5. SyncInv'
    BY <1>1, <2>1, <2>4 DEF AddsInv, SyncInv
  <2>6. RoomInv'
    BY <1>1, <2>1, <2>3 DEF AddsInv, RoomInv
  <2>7. CASE Report(h)
    <3>1. pc'[h] = "report"
      BY <1>2, <2>7 DEF Report, Arrives, Moves
    <3>2. \A c \in Locked : copy'[h][c] = data[c]
      BY <1>2, <1>c, <2>7 DEF Report
    <3>3. CopyInv' /\ ReportAddsUp'
      BY <1>1, <2>1, <3>1, <3>2 DEF AddsInv, CopyInv, ReportAddsUp
    <3> QED BY <2>5, <2>6, <3>3 DEF AddsInv
  <2>8. CASE ReportProcessed(h)
    <3>1. pc[h] = "report" /\ pc'[h] = "reported"
      BY <1>2, <2>8 DEF ReportProcessed, Moves
    <3>2. \A c \in Counters : copy'[h][c] = data[c]
      <4>1. \A c \in Locked : copy[h][c] = data[c]
        BY <3>1 DEF AddsInv, CopyInv
      <4>2. copy' = [copy EXCEPT ![h]["n_processed_trans"] = data["n_processed_trans"]]
        BY <2>8 DEF ReportProcessed
      <4> QED BY <1>2, <4>1, <4>2 DEF Counters
    <3>3. ASSUME ~disturbed
          PROVE  /\ data["n_good_trans"] + data["n_bad_trans"] <= data["n_trans"]
                 /\ data["n_good_trans"] <= data["n_received_trans"]
                 /\ data["n_processed_trans"] <= data["n_received_trans"]
      <4>1. \A c \in Locked : data[c] = cached[c]
        <5>1. \A c \in Locked : Ahead(c) = 0 /\ cached[c] \in Nat
          BY <1>2, <1>c, <3>1, AloneAhead
        <5> QED BY <1>1, <3>3, <5>1 DEF AddsInv, SyncInv
      <4>2. data["n_processed_trans"] <= cached["n_processed_trans"]
                                          + (IF wpc = "wait" THEN 0 ELSE 1)
        BY <1>1, <1>2, <1>c, <3>3 DEF AddsInv, SyncInv
      <4>3. /\ Cardinality(Counted) \in Nat /\ Cardinality(Received) \in Nat
            /\ Cardinality(Listing) \in Nat
        BY <1>1, RoomShift
      <4>4. listed >= 0 /\ listed \in Int
        BY PushingFinite DEF IInv, QueueInv, ListedInv, CountInv, TypeInv, QueueTypes
      <4>5. \A c \in Counters : cached[c] \in Nat /\ data[c] \in Nat
        BY <1>2
      <4> QED BY <3>3, <4>1, <4>2, <4>3, <4>4, <4>5 DEF AddsInv, RoomInv, Counters, Locked
    <3>4. CopyInv'
      BY <1>1, <2>1, <3>1 DEF AddsInv, CopyInv
    <3>5. ReportAddsUp'
      <4> SUFFICES ASSUME ~disturbed, NEW k \in Handlers, pc'[k] = "reported"
                   PROVE  /\ copy'[k]["n_good_trans"] + copy'[k]["n_bad_trans"]
                               <= copy'[k]["n_trans"]
                          /\ copy'[k]["n_good_trans"] <= copy'[k]["n_received_trans"]
                          /\ copy'[k]["n_processed_trans"] <= copy'[k]["n_received_trans"]
        BY <2>1 DEF ReportAddsUp
      <4>1. CASE k = h
        BY <3>2, <3>3, <4>1 DEF Counters, Locked
      <4>2. CASE k # h
        BY <1>1, <2>1, <4>2 DEF AddsInv, ReportAddsUp
      <4> QED BY <4>1, <4>2
    <3> QED BY <2>5, <2>6, <3>4, <3>5 DEF AddsInv
  <2> QED BY <1>5, <2>7, <2>8
<1> QED BY <1>3, <1>4, <1>5

\* The worker thread.
LEMMA AddsWorker ==
  ASSUME IInv, AddsInv, WorkerStep
  PROVE  AddsInv'
<1>1. UNCHANGED <<main, pc, counter, copy, disturbed>>
  BY DEF WorkerStep, WorkerMoves, Take, ProcessedLoad, ProcessedStore, ProcessedRead,
     ProcessedSet, mainVars, handlerVars
<1>2. UNCHANGED <<Counted, Received, Listing>> /\ \A c \in Locked : Ahead(c)' = Ahead(c)
  BY <1>1, RoomStays, LockedIsCounter
<1>3. /\ data \in [Counters -> Nat] /\ cached \in [Counters -> Nat] /\ listed \in Int
      /\ "n_processed_trans" \in Counters \ Locked /\ Locked \subseteq Counters
      /\ "n_received_trans" \in Counters
      /\ wpc \in {"wait", "load", "store", "arg", "set"}
  BY LockedIsCounter DEF IInv, CountInv, TypeInv, PcTypes, ValueTypes, QueueTypes, Counters,
     Locked
<1>4. \A c \in Locked : data'[c] = data[c] /\ cached'[c] = cached[c]
  BY <1>3 DEF WorkerStep, Take, ProcessedLoad, ProcessedStore, ProcessedRead, ProcessedSet
<1>5. CopyInv' /\ ReportAddsUp'
  BY <1>1, <1>4 DEF AddsInv, CopyInv, ReportAddsUp
<1>6. main # "down"
  BY DEF IInv, CountInv, PhaseInv, TypeInv, QueueTypes, WorkerStep, WorkerMoves, Take,
     ProcessedLoad, ProcessedStore, ProcessedRead, ProcessedSet
<1> DEFINE p == "n_processed_trans"
<1>7. ASSUME ~disturbed
      PROVE  /\ data'[p] = cached'[p] + (IF wpc' \in {"arg", "set"} THEN 1 ELSE 0)
             /\ wpc' \in {"store", "set"} => wreg' = data'[p]
             /\ cached'[p] + listed' + (IF wpc' = "wait" THEN 0 ELSE 1)
                  = cached[p] + listed + (IF wpc = "wait" THEN 0 ELSE 1)
  <2>1. /\ data[p] = cached[p] + (IF wpc \in {"arg", "set"} THEN 1 ELSE 0)
        /\ wpc \in {"store", "set"} => wreg = data[p]
    BY <1>6, <1>7 DEF AddsInv, SyncInv
  <2>2. CASE Take
    BY <1>3, <2>1, <2>2 DEF Take, WorkerMoves
  <2>3. CASE ProcessedLoad \/ ProcessedRead
    BY <1>3, <2>1, <2>3 DEF ProcessedLoad, ProcessedRead, WorkerMoves, queueVars
  <2>4. CASE ProcessedStore
    BY <1>3, <2>1, <2>4 DEF ProcessedStore, WorkerMoves, queueVars
  <2>5. CASE ProcessedSet
    BY <1>3, <2>1, <2>5 DEF ProcessedSet, WorkerMoves, queueVars
  <2> QED BY <2>2, <2>3, <2>4, <2>5 DEF WorkerStep
<1>8. SyncInv'
  BY <1>1, <1>2, <1>4, <1>7 DEF AddsInv, SyncInv
<1>9. RoomInv'
  <2> SUFFICES ASSUME ~disturbed
               PROVE  RoomInv'
    BY <1>1 DEF RoomInv
  <2>1. Cardinality(Listing) \in Nat
    <3>1. IsFiniteSet(Listing)
      <4>1. Listing \subseteq Handlers
        BY DEF Listing
      <4> QED BY <4>1, FS_Subset, HandlersAssumption
    <3> QED BY <3>1, FS_CardinalityType
  <2>2. cached[p] + listed + Cardinality(Listing) + (IF wpc = "wait" THEN 0 ELSE 1)
          <= cached["n_received_trans"]
    BY DEF AddsInv, RoomInv
  <2>3. cached'[p] + listed' + Cardinality(Listing) + (IF wpc' = "wait" THEN 0 ELSE 1)
          <= cached["n_received_trans"]
    <3>1. cached[p] \in Int /\ cached'[p] \in Int /\ listed \in Int /\ listed' \in Int
          /\ cached["n_received_trans"] \in Int
      BY <1>3 DEF WorkerStep, Take, ProcessedLoad, ProcessedStore, ProcessedRead, ProcessedSet,
         queueVars, IInv, CountInv, TypeInv, ValueTypes
    <3> QED BY <1>7, <2>1, <2>2, <3>1
  <2> QED BY <1>1, <1>2, <1>4, <2>3 DEF AddsInv, RoomInv, Locked
<1> QED BY <1>5, <1>8, <1>9 DEF AddsInv

\* The end of the process and the next start.
LEMMA AddsMain ==
  ASSUME IInv, AddsInv, MainStep \/ Crash
  PROVE  AddsInv'
<1>1. CASE Start
  <2>1. /\ UNCHANGED <<pc, counter, copy, cached, listed, disturbed, wpc, wreg>>
        /\ main = "down" /\ data' = cached
    BY <1>1 DEF Start, MainMoves, handlerVars, workerVars
  <2>2. (\A h \in Handlers : pc[h] = "idle") /\ wpc = "wait"
    BY <2>1 DEF IInv, CountInv, PhaseInv
  <2>3. UNCHANGED <<Counted, Received, Listing>>
    BY <2>1, RoomStays
  <2>4. \A c \in Locked : Ahead(c)' = 0
    BY <2>1, <2>2 DEF Ahead
  <2>5. \A c \in Counters : cached[c] \in Nat
    BY DEF IInv, CountInv, TypeInv, ValueTypes
  <2>6. SyncInv'
    BY <2>1, <2>2, <2>4, <2>5, LockedIsCounter DEF SyncInv
  <2>7. RoomInv' /\ CopyInv' /\ ReportAddsUp'
    BY <2>1, <2>2, <2>3 DEF AddsInv, RoomInv, CopyInv, ReportAddsUp
  <2> QED BY <2>6, <2>7 DEF AddsInv
<1>2. CASE Load \/ Serve
  <2>1. /\ UNCHANGED <<pc, counter, copy, cached, data, listed, disturbed, wpc, wreg>>
        /\ main # "down"
    BY <1>2 DEF Load, Serve, MainMoves, handlerVars, workerVars
  <2>2. /\ UNCHANGED <<Counted, Received, Listing>>
        /\ \A c \in Locked : Ahead(c)' = Ahead(c)
    BY <2>1, RoomStays, LockedIsCounter
  <2> QED BY <2>1, <2>2 DEF AddsInv, SyncInv, RoomInv, CopyInv, ReportAddsUp
<1>3. CASE Crash
  <2>1. /\ UNCHANGED <<cached, listed, disturbed>> /\ main' = "down" /\ wpc' = "wait"
        /\ \A h \in Handlers : pc'[h] = "idle"
    BY <1>3 DEF Crash
  <2>2. Counted' = {} /\ Received' = {} /\ Listing' = {}
    BY <2>1 DEF Counted, Received, Listing
  <2>3. /\ Cardinality(Counted') = 0 /\ Cardinality(Received') = 0
        /\ Cardinality(Listing') = 0
    BY <2>2, FS_EmptySet
  <2>4. /\ Cardinality(Counted) \in Nat /\ Cardinality(Received) \in Nat
        /\ Cardinality(Listing) \in Nat
    <3>1. Counted \subseteq Handlers /\ Received \subseteq Handlers /\ Listing \subseteq Handlers
      BY DEF Counted, Received, Listing
    <3> QED BY <3>1, FS_Subset, FS_CardinalityType, HandlersAssumption
  <2>5. (\A c \in Counters : cached[c] \in Nat) /\ listed \in Int
    BY DEF IInv, CountInv, TypeInv, ValueTypes, QueueTypes
  <2>6. RoomInv'
    <3> SUFFICES ASSUME ~disturbed
                 PROVE  RoomInv'
      BY <2>1 DEF RoomInv
    <3>1. /\ cached["n_good_trans"] + cached["n_bad_trans"] + Cardinality(Counted)
               <= cached["n_trans"]
          /\ cached["n_good_trans"] + Cardinality(Received) <= cached["n_received_trans"]
          /\ cached["n_processed_trans"] + listed + Cardinality(Listing)
               + (IF wpc = "wait" THEN 0 ELSE 1) <= cached["n_received_trans"]
      BY DEF AddsInv, RoomInv
    <3>2. /\ cached["n_trans"] \in Nat /\ cached["n_bad_trans"] \in Nat
          /\ cached["n_good_trans"] \in Nat /\ cached["n_received_trans"] \in Nat
          /\ cached["n_processed_trans"] \in Nat
      BY <2>5 DEF Counters, Locked
    <3>3. /\ cached["n_good_trans"] + cached["n_bad_trans"] + 0 <= cached["n_trans"]
          /\ cached["n_good_trans"] + 0 <= cached["n_received_trans"]
          /\ cached["n_processed_trans"] + listed + 0 + 0 <= cached["n_received_trans"]
      BY <2>4, <2>5, <3>1, <3>2
    <3> QED BY <2>1, <2>3, <3>3 DEF RoomInv
  <2>7. SyncInv' /\ CopyInv' /\ ReportAddsUp'
    BY <2>1 DEF SyncInv, CopyInv, ReportAddsUp
  <2> QED BY <2>6, <2>7 DEF AddsInv
<1> QED BY <1>1, <1>2, <1>3 DEF MainStep

LEMMA InitAdds == Init => AddsInv
<1> SUFFICES ASSUME Init
             PROVE  AddsInv
  OBVIOUS
<1>1. Counted = {} /\ Received = {} /\ Listing = {}
  BY DEF Init, Counted, Received, Listing
<1>2. Cardinality(Counted) = 0 /\ Cardinality(Received) = 0 /\ Cardinality(Listing) = 0
  BY <1>1, FS_EmptySet
<1>3. \A c \in Locked : Ahead(c) = 0
  BY DEF Init, Ahead
<1>4. SyncInv
  BY <1>3, LockedIsCounter DEF Init, SyncInv, Zero
<1>5. RoomInv
  BY <1>2 DEF Init, RoomInv, Zero, Counters, Locked
<1>6. CopyInv /\ ReportAddsUp
  BY DEF Init, CopyInv, ReportAddsUp
<1> QED BY <1>4, <1>5, <1>6 DEF AddsInv

LEMMA AddsStep == IInv /\ IInv' /\ AddsInv /\ [Next]_vars => AddsInv'
<1> SUFFICES ASSUME IInv, IInv', AddsInv, [Next]_vars
             PROVE  AddsInv'
  OBVIOUS
<1>1. CASE Next
  BY <1>1, AddsQuiet, AddsLocked, AddsPush, AddsAdmin, AddsWorker, AddsMain DEF Next, HandlerStep
<1>2. CASE UNCHANGED vars
  <2>1. UNCHANGED <<main, pc, counter, copy, wpc, wreg, listed, data, cached, disturbed>>
    BY <1>2 DEF vars, mainVars, handlerVars, workerVars, queueVars, historyVars
  <2>2. /\ UNCHANGED <<Counted, Received, Listing>>
        /\ \A c \in Locked : Ahead(c)' = Ahead(c)
    BY <2>1, RoomStays, LockedIsCounter
  <2> QED BY <2>1, <2>2 DEF AddsInv, SyncInv, RoomInv, CopyInv, ReportAddsUp
<1> QED BY <1>1, <1>2

\* Before a reset or an init, the counters of a report add up: good and bad to
\* no more than all, good and processed to no more than received.
THEOREM ReportsAlwaysAddUp == Spec => []ReportAddsUp
<1>1. AddsInv => ReportAddsUp
  BY DEF AddsInv
<1>2. Spec => []AddsInv
  BY CountersInvariant, InitAdds, AddsStep, PTL DEF Spec
<1> QED BY <1>1, <1>2, PTL

=============================================================================
