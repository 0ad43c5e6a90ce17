------------------------- MODULE WorkerControlProofs -------------------------
(***************************************************************************)
(* Proofs about WorkerControl for any number of handlers, requests and     *)
(* crashes: type correctness, and the three invariants of the run          *)
(* control_races.                                                          *)
(*                                                                         *)
(* None of them is inductive.  What the service does when it serves again  *)
(* depends on each step that service_init has taken before, so StartInv    *)
(* says what is established at which point of it; what Redis says depends  *)
(* on who may have written it, which is the matter of LastInv and TimesInv.*)
(***************************************************************************)
EXTENDS WorkerControl, TLAPS

\* What service_init has established, from step to step.
StartInv ==
  /\ main # "up" => pc = Idle
  /\ fresh => main = "up" /\ pc = Idle
  /\ main = "down" => worker = "none" /\ ~first
  /\ ~test => main = "down" /\ cached = Nil
  /\ main = "state" /\ first => cached = Nil
  /\ main = "fetch" => (first => state = cached /\ cached # Nil)
  /\ main \in {"worker", "update"} => state = cached
  /\ main = "update" => worker = "available" /\ state.worker_state # "stopped"
  /\ main \in {"worker", "update", "up"} => cached # Nil

\* What Redis was last asked for, when no init has written to it.
LastInv ==
  ~inited =>
    /\ \A h \in Handlers : pc[h] # "reading"
    /\ cached = Nil => last = "available"
    /\ cached # Nil => (last = "stopped" <=> cached.worker_state = "stopped")

\* What the worker does while a process that has not raced serves a request.
SerialInv ==
  main = "up" /\ ~raced /\ ~inited =>
    /\ \A h, k \in Handlers : pc[h] # "idle" /\ pc[k] # "idle" => h = k
    /\ \A h \in Handlers :
         /\ pc[h] = "resumed" => worker = "available"
         /\ pc[h] = "stopped" => worker = "stopped"
    /\ pc = Idle => worker = last

\* The times of the state in Redis are in order, and those of the past.
TimesInv ==
  /\ CachedTimesMatchState
  /\ cached # Nil /\ ~inited =>
       cached.worker_last_started <= now /\ cached.worker_last_stopped <= now

IInv == TypeOK /\ StartInv /\ RestartHeals /\ LastInv /\ SerialInv /\ TimesInv

-----------------------------------------------------------------------------
(***************************************************************************)
(* Each step preserves the invariant.                                      *)
(***************************************************************************)

\* A zeroed state is one of the states.
LEMMA ZeroIsState == ZeroState \in States /\ 0 \in Times /\ 1 \in Times
BY BoundsAssumption DEF ZeroState, States, Times

\* The initial states satisfy the invariant.
LEMMA InitInv == Init => IInv
<1> SUFFICES ASSUME Init PROVE IInv
  OBVIOUS
<1> USE BoundsAssumption, NilAssumption DEF Init, Idle, Nothing, NoSnap
<1>1. TypeOK
  <2>1. /\ state \in States /\ cached \in States \cup {Nil} /\ now \in Times \ {0}
        /\ requests \in 0 .. MaxRequests /\ crashes \in 0 .. MaxCrashes
    BY ZeroIsState
  <2>2. /\ pc \in [Handlers -> HandlerPcs] /\ unread \in [Handlers -> SUBSET Fields]
        /\ snap \in [Handlers -> States]
    BY ZeroIsState DEF HandlerPcs
  <2> QED BY <2>1, <2>2 DEF TypeOK, MainPcs
<1>2. StartInv /\ RestartHeals /\ LastInv /\ SerialInv /\ TimesInv
  BY DEF StartInv, RestartHeals, LastInv, SerialInv, TimesInv, CachedTimesMatchState
<1> QED BY <1>1, <1>2 DEF IInv

\* A start in memory or in Redis is a state whose third field stays.
LEMMA StartedIs ==
  ASSUME NEW s \in States, NEW time \in Times
  PROVE  /\ Started(s, time) \in States
         /\ Started(s, time).worker_state = "available"
         /\ Started(s, time).worker_last_started = time
         /\ Started(s, time).worker_last_stopped = s.worker_last_stopped
BY DEF Started, States

\* The same of a stop.
LEMMA HaltedIs ==
  ASSUME NEW s \in States, NEW time \in Times
  PROVE  /\ Halted(s, time) \in States
         /\ Halted(s, time).worker_state = "stopped"
         /\ Halted(s, time).worker_last_stopped = time
         /\ Halted(s, time).worker_last_started = s.worker_last_started
BY DEF Halted, States

\* A request that arrives changes neither Redis nor the clock, and when another
\* is under way the process has raced.
LEMMA ArrivalStep ==
  ASSUME IInv, NEW h \in Handlers,
         Resume(h) \/ Stop(h) \/ Reset(h) \/ InitArrives(h)
  PROVE  IInv'
<1> USE DEF IInv, Arrives
<1>1. TypeOK'
  <2>1. /\ main' \in MainPcs /\ first' \in BOOLEAN /\ test' \in BOOLEAN
        /\ raced' \in BOOLEAN /\ inited' \in BOOLEAN /\ fresh' \in BOOLEAN
    BY DEF TypeOK, Resume, Stop, Reset, InitArrives
  <2>2. requests' \in 0 .. MaxRequests /\ crashes' \in 0 .. MaxCrashes
    BY BoundsAssumption DEF TypeOK, Resume, Stop, Reset, InitArrives
  <2>3. /\ worker' \in {"none", "available", "stopped"}
        /\ state' \in States /\ cached' \in States \cup {Nil}
        /\ now' \in Times \ {0} /\ last' \in {"available", "stopped"}
        /\ snap' \in [Handlers -> States]
    BY ZeroIsState DEF TypeOK, Resume, Stop, Reset, InitArrives
  <2>4. pc' \in [Handlers -> HandlerPcs] /\ unread' \in [Handlers -> SUBSET Fields]
    BY DEF TypeOK, Resume, Stop, Reset, InitArrives, HandlerPcs
  <2> QED BY <2>1, <2>2, <2>3, <2>4 DEF TypeOK
<1>2. StartInv'
  BY DEF StartInv, Resume, Stop, Reset, InitArrives
<1>3. RestartHeals'
  BY DEF Resume, Stop, Reset, InitArrives, RestartHeals
<1>4. LastInv'
  <2> SUFFICES ASSUME ~inited' PROVE LastInv'
    BY DEF LastInv
  <2>1. ~inited /\ ~InitArrives(h) /\ UNCHANGED <<cached, last>>
    BY DEF Resume, Stop, Reset, InitArrives
  <2>2. \A k \in Handlers : pc'[k] # "reading"
    BY <2>1 DEF TypeOK, LastInv, Resume, Stop, Reset
  <2> QED BY <2>1, <2>2 DEF LastInv
<1>5. SerialInv'
  <2> SUFFICES ASSUME main' = "up", ~raced', ~inited' PROVE SerialInv'
    BY DEF SerialInv
  <2>1. pc = Idle /\ worker = last /\ (Resume(h) \/ Stop(h) \/ Reset(h))
    BY DEF Resume, Stop, Reset, InitArrives, SerialInv
  <2>2. CASE pc' = pc /\ worker' = worker /\ last' = last
    BY <2>1, <2>2 DEF SerialInv, Idle
  <2>3. CASE pc' = [pc EXCEPT ![h] = "resumed"] /\ worker' = "available"
    BY <2>1, <2>3 DEF SerialInv, Idle, TypeOK
  <2>4. CASE pc' = [pc EXCEPT ![h] = "stopped"] /\ worker' = "stopped"
    BY <2>1, <2>4 DEF SerialInv, Idle, TypeOK
  <2> QED BY <2>1, <2>2, <2>3, <2>4 DEF Resume, Stop, Reset
<1>6. TimesInv'
  BY DEF TimesInv, CachedTimesMatchState, Resume, Stop, Reset, InitArrives
<1> QED BY <1>1, <1>2, <1>3, <1>4, <1>5, <1>6

\* The second step of a start.
LEMMA ResumedStep ==
  ASSUME IInv, NEW h \in Handlers, Resumed(h)
  PROVE  IInv'
<1> USE DEF IInv, Resumed, Continues, UpdateStart
<1>1. main = "up" /\ cached \in States /\ state \in States /\ now' \in Times /\ now <= now'
  BY BoundsAssumption DEF TypeOK, StartInv, Idle, Tick, Times
<1>2. /\ cached' \in States /\ state' \in States
      /\ cached'.worker_state = "available"
      /\ cached'.worker_last_started = now'
      /\ cached'.worker_last_stopped = cached.worker_last_stopped
  BY <1>1, StartedIs
<1>3. TypeOK'
  BY <1>1, <1>2 DEF TypeOK, HandlerPcs, Tick, Times
<1>4. StartInv' /\ RestartHeals'
  BY <1>1, <1>2, NilAssumption DEF TypeOK, StartInv, RestartHeals, Idle
<1>5. LastInv'
  BY <1>2, NilAssumption DEF TypeOK, LastInv
<1>6. SerialInv'
  BY <1>1 DEF TypeOK, SerialInv, Idle
<1>7. TimesInv'
  BY <1>1, <1>2, NilAssumption DEF TypeOK, TimesInv, CachedTimesMatchState, States, Times
<1> QED BY <1>3, <1>4, <1>5, <1>6, <1>7

\* The second step of a stop.
LEMMA StoppedStep ==
  ASSUME IInv, NEW h \in Handlers, Stopped(h)
  PROVE  IInv'
<1> USE DEF IInv, Stopped, Continues, UpdateStop
<1>1. main = "up" /\ cached \in States /\ state \in States /\ now' \in Times /\ now <= now'
  BY BoundsAssumption DEF TypeOK, StartInv, Idle, Tick, Times
<1>2. /\ cached' \in States /\ state' \in States
      /\ cached'.worker_state = "stopped"
      /\ cached'.worker_last_stopped = now'
      /\ cached'.worker_last_started = cached.worker_last_started
  BY <1>1, HaltedIs
<1>3. TypeOK'
  BY <1>1, <1>2 DEF TypeOK, HandlerPcs, Tick, Times
<1>4. StartInv' /\ RestartHeals'
  BY <1>1, <1>2, NilAssumption DEF TypeOK, StartInv, RestartHeals, Idle
<1>5. LastInv'
  BY <1>2, NilAssumption DEF TypeOK, LastInv
<1>6. SerialInv'
  BY <1>1 DEF TypeOK, SerialInv, Idle
<1>7. TimesInv'
  BY <1>1, <1>2, NilAssumption DEF TypeOK, TimesInv, CachedTimesMatchState, States, Times
<1> QED BY <1>3, <1>4, <1>5, <1>6, <1>7

\* The reads and the MSET of an init: all that is claimed of Redis is claimed
\* for as long as there is none.
LEMMA InitStep ==
  ASSUME IInv, NEW h \in Handlers, InitReads(h) \/ InitWrites(h)
  PROVE  IInv'
<1> USE DEF IInv, Continues
<1>1. main = "up" /\ inited /\ inited' /\ ~fresh /\ ~fresh'
  BY DEF TypeOK, StartInv, LastInv, Idle, InitReads, InitWrites
<1>2. TypeOK'
  <2>1. CASE InitReads(h)
    BY <2>1 DEF InitReads, TypeOK, HandlerPcs, States, Fields
  <2>2. CASE InitWrites(h)
    BY <2>2, ZeroIsState DEF InitWrites, TypeOK, HandlerPcs
  <2> QED BY <2>1, <2>2
<1>3. StartInv'
  BY <1>1, NilAssumption DEF StartInv, InitReads, InitWrites, TypeOK
<1>4. RestartHeals' /\ LastInv' /\ SerialInv' /\ TimesInv'
  BY <1>1 DEF RestartHeals, LastInv, SerialInv, TimesInv, CachedTimesMatchState
<1> QED BY <1>2, <1>3, <1>4

-----------------------------------------------------------------------------
(***************************************************************************)
(* service_init and the end of the process.                                *)
(***************************************************************************)

\* Before the worker is started.
LEMMA EarlyStep ==
  ASSUME IInv, RedisInit \/ StateInit \/ Fetch
  PROVE  IInv'
<1> USE NilAssumption DEF IInv, MainMoves, RedisInit, StateInit, Fetch
<1>1. TypeOK'
  BY ZeroIsState DEF TypeOK, MainPcs
<1>2. StartInv'
  <2>1. CASE RedisInit
    BY <2>1 DEF StartInv
  <2>2. CASE StateInit
    BY <2>2, ZeroIsState DEF StartInv
  <2>3. CASE Fetch
    BY <2>3 DEF StartInv
  <2> QED BY <2>1, <2>2, <2>3
<1>3. RestartHeals' /\ SerialInv'
  BY DEF RestartHeals, SerialInv
<1>4. LastInv'
  BY DEF LastInv, StartInv, ZeroState
<1>5. TimesInv'
  BY BoundsAssumption DEF TimesInv, CachedTimesMatchState, TypeOK, ZeroState, Times
<1> QED BY <1>1, <1>2, <1>3, <1>4, <1>5

\* worker_start_with_state.
LEMMA WorkerInitStep ==
  ASSUME IInv, WorkerInit
  PROVE  IInv'
<1> USE DEF IInv, MainMoves, WorkerInit
<1>1. main = "worker" /\ pc = Idle /\ state = cached /\ cached # Nil
  BY DEF StartInv
<1>2. TypeOK' /\ StartInv'
  BY <1>1 DEF TypeOK, MainPcs, StartInv
<1>3. RestartHeals'
  BY <1>1 DEF RestartHeals
<1>4. LastInv' /\ TimesInv'
  BY <1>1 DEF LastInv, TimesInv, CachedTimesMatchState
<1>5. SerialInv'
  BY <1>1 DEF SerialInv, LastInv, Idle
<1> QED BY <1>2, <1>3, <1>4, <1>5

\* The time of the start goes to memory and to Redis.
LEMMA WorkerStartedStep ==
  ASSUME IInv, WorkerStarted
  PROVE  IInv'
<1> USE DEF IInv, MainMoves, WorkerStarted, UpdateStart
<1>1. /\ main = "update" /\ pc = Idle /\ state = cached /\ cached \in States
      /\ worker = "available" /\ state.worker_state # "stopped"
      /\ now' \in Times /\ now <= now'
  BY BoundsAssumption DEF TypeOK, StartInv, Tick, Times
<1>2. /\ cached' \in States /\ state' = cached'
      /\ cached'.worker_state = "available"
      /\ cached'.worker_last_started = now'
      /\ cached'.worker_last_stopped = cached.worker_last_stopped
  BY <1>1, StartedIs
<1>3. TypeOK'
  BY <1>1, <1>2 DEF TypeOK, MainPcs, Tick, Times
<1>4. StartInv' /\ RestartHeals'
  BY <1>1, <1>2, NilAssumption DEF StartInv, RestartHeals
<1>5. LastInv'
  BY <1>1, <1>2, NilAssumption DEF LastInv, TypeOK
<1>6. SerialInv'
  BY <1>1, NilAssumption DEF SerialInv, LastInv, TypeOK, Idle
<1>7. TimesInv'
  BY <1>1, <1>2, NilAssumption DEF TypeOK, TimesInv, CachedTimesMatchState, States, Times
<1> QED BY <1>3, <1>4, <1>5, <1>6, <1>7

\* Nothing is left of a process but what is in Redis.
LEMMA EndStep ==
  ASSUME IInv, ProcessDies, crashes' \in 0 .. MaxCrashes
  PROVE  IInv'
<1> USE DEF IInv, ProcessDies
<1>1. TypeOK'
  <2>1. requests' \in 0 .. MaxRequests /\ crashes' \in 0 .. MaxCrashes
    BY BoundsAssumption DEF TypeOK
  <2>2. /\ pc' \in [Handlers -> HandlerPcs] /\ unread' \in [Handlers -> SUBSET Fields]
        /\ snap' \in [Handlers -> States]
    BY ZeroIsState DEF HandlerPcs, Idle, Nothing, NoSnap
  <2>3. state' \in States /\ cached' \in States \cup {Nil} /\ now' \in Times \ {0}
    BY ZeroIsState DEF TypeOK
  <2> QED BY <2>1, <2>2, <2>3 DEF TypeOK, MainPcs
<1>2. StartInv' /\ RestartHeals' /\ SerialInv'
  BY DEF StartInv, RestartHeals, SerialInv
<1>3. LastInv' /\ TimesInv'
  BY DEF LastInv, TimesInv, CachedTimesMatchState, Idle
<1> QED BY <1>1, <1>2, <1>3

\* Every step of the service preserves the invariant.
LEMMA StepInv == IInv /\ [Next]_vars => IInv'
<1> SUFFICES ASSUME IInv, [Next]_vars PROVE IInv'
  OBVIOUS
<1>1. ASSUME NEW h \in Handlers,
             Resume(h) \/ Stop(h) \/ Reset(h) \/ InitArrives(h) \/ HandlerStep(h)
      PROVE  IInv'
  BY <1>1, ArrivalStep, ResumedStep, StoppedStep, InitStep DEF HandlerStep
<1>2. CASE MainStep
  BY <1>2, EarlyStep, WorkerInitStep, WorkerStartedStep DEF MainStep
<1>3. CASE Crash \/ NilState
  <2>1. crashes' \in 0 .. MaxCrashes
    BY <1>3, BoundsAssumption DEF Crash, NilState, IInv, TypeOK
  <2> QED BY <1>3, <2>1, EndStep DEF Crash, NilState
<1>4. CASE UNCHANGED vars
  BY <1>4 DEF vars, IInv, TypeOK, StartInv, RestartHeals, LastInv, SerialInv, TimesInv,
     CachedTimesMatchState
<1> QED BY <1>1, <1>2, <1>3, <1>4 DEF Next

-----------------------------------------------------------------------------
(***************************************************************************)
(* What follows for the service.                                           *)
(***************************************************************************)

\* The invariant holds of service_init, the handlers and every restart.
THEOREM ControlInvariant == Spec => []IInv
BY InitInv, StepInv, PTL DEF Spec

\* The fields of the state, in memory, in Redis and in the copy of a
\* state/init, have the types of state.h.
THEOREM ControlTypeCorrect == Spec => []TypeOK
<1>1. IInv => TypeOK
  BY DEF IInv
<1> QED BY <1>1, ControlInvariant, PTL

\* A restart repairs every disagreement of worker, memory and Redis that
\* crashes and racing requests have left.
THEOREM RestartHealsAlways == Spec => []RestartHeals
<1>1. IInv => RestartHeals
  BY DEF IInv
<1> QED BY <1>1, ControlInvariant, PTL

\* A process that has not raced does what Redis was last asked for.
THEOREM PersistedRequestAlwaysHolds == Spec => []PersistedRequestHolds
<1>1. IInv => PersistedRequestHolds
  BY DEF IInv, SerialInv, PersistedRequestHolds
<1> QED BY <1>1, ControlInvariant, PTL

\* The times in Redis agree with the state next to them.
THEOREM CachedTimesAlwaysMatch == Spec => []CachedTimesMatchState
<1>1. IInv => CachedTimesMatchState
  BY DEF IInv, TimesInv
<1> QED BY <1>1, ControlInvariant, PTL

=============================================================================
