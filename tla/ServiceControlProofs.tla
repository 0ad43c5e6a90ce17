------------------------ MODULE ServiceControlProofs ------------------------
(***************************************************************************)
(* Proofs about ServiceControl: the pipeline keeps what it promises when   *)
(* its worker is stopped and started, and what a stopped worker does.      *)
(*                                                                         *)
(* Each step of the whole is a step of the pipeline or not seen in it, so  *)
(* all that is proved of TransPipeline holds here.  To the control it is   *)
(* not quite WorkerControl, for it begins with a service that serves and   *)
(* may end by a job without a transaction; but its inductive invariant is  *)
(* preserved all the same.                                                 *)
(***************************************************************************)
EXTENDS ServiceControl, TransPipelineProofs

C ==
  INSTANCE WorkerControlProofs WITH
    Handlers    <- Operators,
    MaxRequests <- MaxControls,
    main        <- cmain,
    cached      <- ccached,
    pc          <- cpc,
    requests    <- controls,
    crashes     <- ccrashes

\* The list is loaded when the worker is there.
MeetInv == cmain # "up" => main = "down"

SInv == C!IInv /\ MeetInv

-----------------------------------------------------------------------------
(***************************************************************************)
(* What the pipeline sees.                                                 *)
(***************************************************************************)

\* Every step is a step of the pipeline, or changes nothing of it.
LEMMA StepOfPipeline == [SNext]_allVars => [Next]_vars
<1> SUFFICES ASSUME SNext \/ UNCHANGED allVars PROVE [Next]_vars
  OBVIOUS
<1>1. CASE Arrives \/ \E h \in Handlers : HandlerGoes(h)
  BY <1>1 DEF Arrives, HandlerGoes, Next
<1>2. CASE ControlArrives \/ \E h \in Operators : ControlGoes(h)
  BY <1>2 DEF ControlArrives, ControlGoes
<1>3. CASE WorkerGoes
  BY <1>3 DEF WorkerGoes, Take, Finish, Next, WorkerStep
<1>4. CASE ServiceInit
  BY <1>4 DEF ServiceInit, Next
<1>5. CASE Dies \/ DiesOfNull \/ DiesEarly
  BY <1>5 DEF Dies, DiesOfNull, DiesEarly, Next
<1>6. CASE UNCHANGED allVars
  BY <1>6 DEF allVars
<1> QED BY <1>1, <1>2, <1>3, <1>4, <1>5, <1>6 DEF SNext

\* The service with a worker that is stopped and started implements the
\* pipeline: what is proved of TransPipeline, its refinement of WorkQueue too,
\* holds whatever is asked of the worker.
THEOREM PipelineImplemented == SSpec => Spec
<1>1. SInit => Init
  BY DEF SInit
<1> QED BY <1>1, StepOfPipeline, PTL DEF SSpec, Spec

-----------------------------------------------------------------------------
(***************************************************************************)
(* What the control sees.                                                  *)
(***************************************************************************)

\* What WorkerControl assumes of its constants holds of these.
LEMMA ControlConstants == C!RequestsAssumption /\ C!BoundsAssumption /\ C!NilAssumption
BY RequestsAssumption, ControlAssumption, BoundsAssumption
   DEF C!RequestsAssumption, C!BoundsAssumption, C!NilAssumption, Control!AllRequests,
       C!AllRequests, Control!States, C!States, Control!Times, C!Times

\* The first start has left the worker available, in memory and in Redis.
LEMMA InitControl == SInit => SInv
<1> SUFFICES ASSUME SInit PROVE SInv
  OBVIOUS
<1> USE DEF SInit
<1>1. /\ C!ZeroState \in C!States /\ 1 \in C!Times /\ 0 \in C!Times
  BY ControlConstants, C!ZeroIsState
<1>2. /\ ccached = state /\ state \in C!States
      /\ state.worker_state = "available"
      /\ state.worker_last_started = 1 /\ state.worker_last_stopped = 0
  BY <1>1 DEF Control!Started, Control!ZeroState, C!ZeroState, C!States
<1>3. cpc = C!Idle /\ unread = C!Nothing /\ snap = C!NoSnap
  BY DEF Control!Idle, C!Idle, Control!Nothing, C!Nothing, Control!NoSnap, C!NoSnap,
         Control!ZeroState, C!ZeroState
<1>4. state # Nil
  BY <1>2, ControlConstants DEF C!NilAssumption
<1>5. C!TypeOK
  <2>1. /\ cpc \in [Operators -> C!HandlerPcs]
        /\ unread \in [Operators -> SUBSET C!Fields] /\ snap \in [Operators -> C!States]
    BY <1>1, <1>3 DEF C!Idle, C!Nothing, C!NoSnap, C!HandlerPcs
  <2>2. controls \in 0 .. MaxControls /\ ccrashes \in 0 .. MaxCrashes
    BY ControlAssumption, BoundsAssumption
  <2>3. /\ first \in BOOLEAN /\ test \in BOOLEAN /\ raced \in BOOLEAN /\ inited \in BOOLEAN
        /\ fresh \in BOOLEAN
    OBVIOUS
  <2>4. now \in C!Times \ {0}
    BY <1>1
  <2>5. /\ cmain \in C!MainPcs /\ worker \in {"none", "available", "stopped"}
        /\ last \in {"available", "stopped"}
    BY DEF C!MainPcs
  <2> HIDE DEF SInit
  <2> QED BY <1>2, <2>1, <2>2, <2>3, <2>4, <2>5 DEF C!TypeOK
<1>6. C!StartInv /\ C!RestartHeals /\ C!LastInv /\ C!SerialInv
  BY <1>2, <1>3, <1>4
     DEF C!StartInv, C!RestartHeals, C!LastInv, C!SerialInv, C!Idle
<1>7. C!TimesInv
  BY <1>2 DEF C!TimesInv, C!CachedTimesMatchState
<1> QED BY <1>5, <1>6, <1>7 DEF SInv, MeetInv, C!IInv

\* A request of an operator.
LEMMA RequestStep ==
  ASSUME SInv, NEW h \in Operators,
         Control!Resume(h) \/ Control!Stop(h) \/ Control!Reset(h)
           \/ Control!InitArrives(h) \/ Control!HandlerStep(h)
  PROVE  C!IInv' /\ UNCHANGED cmain
<1>1. CASE Control!Resume(h) \/ Control!Stop(h) \/ Control!Reset(h) \/ Control!InitArrives(h)
  <2>1. C!Resume(h) \/ C!Stop(h) \/ C!Reset(h) \/ C!InitArrives(h)
    BY <1>1 DEF Control!Resume, Control!Stop, Control!Reset, Control!InitArrives,
                Control!Arrives, C!Resume, C!Stop, C!Reset, C!InitArrives, C!Arrives,
                Control!Idle, C!Idle, Control!ZeroState, C!ZeroState, Control!Fields, C!Fields
  <2>2. C!IInv'
    BY <2>1, ControlConstants, C!ArrivalStep DEF SInv
  <2>3. UNCHANGED cmain
    BY <1>1 DEF Control!Resume, Control!Stop, Control!Reset, Control!InitArrives,
                Control!Arrives
  <2> QED BY <2>2, <2>3
<1>2. CASE Control!Resumed(h)
  <2>1. C!Resumed(h)
    BY <1>2 DEF Control!Resumed, Control!Continues, Control!UpdateStart, Control!Tick,
                Control!Started, C!Resumed, C!Continues, C!UpdateStart, C!Tick, C!Started
  <2> QED BY <1>2, <2>1, ControlConstants, C!ResumedStep
          DEF SInv, Control!Resumed, Control!Continues
<1>3. CASE Control!Stopped(h)
  <2>1. C!Stopped(h)
    BY <1>3 DEF Control!Stopped, Control!Continues, Control!UpdateStop, Control!Tick,
                Control!Halted, C!Stopped, C!Continues, C!UpdateStop, C!Tick, C!Halted
  <2> QED BY <1>3, <2>1, ControlConstants, C!StoppedStep
          DEF SInv, Control!Stopped, Control!Continues
<1>4. CASE Control!InitReads(h) \/ Control!InitWrites(h)
  <2>1. C!InitReads(h) \/ C!InitWrites(h)
    BY <1>4 DEF Control!InitReads, Control!InitWrites, Control!Continues, Control!ZeroState,
                C!InitReads, C!InitWrites, C!Continues, C!ZeroState
  <2> QED BY <1>4, <2>1, ControlConstants, C!InitStep
          DEF SInv, Control!InitReads, Control!InitWrites, Control!Continues
<1> QED BY <1>1, <1>2, <1>3, <1>4 DEF Control!HandlerStep

\* service_init as far as the worker.
LEMMA ControlInitStep ==
  ASSUME SInv, Control!MainStep
  PROVE  C!IInv'
<1>1. C!MainStep
  BY DEF Control!MainStep, Control!RedisInit, Control!StateInit, Control!Fetch,
         Control!WorkerInit, Control!WorkerStarted, Control!MainMoves, Control!UpdateStart,
         Control!Tick, Control!Started, Control!ZeroState,
         C!MainStep, C!RedisInit, C!StateInit, C!Fetch, C!WorkerInit, C!WorkerStarted,
         C!MainMoves, C!UpdateStart, C!Tick, C!Started, C!ZeroState
<1> QED BY <1>1, ControlConstants, C!EarlyStep, C!WorkerInitStep, C!WorkerStartedStep
        DEF SInv, C!MainStep

\* The end of the process, counted or not.
LEMMA ControlEndStep ==
  ASSUME SInv, Control!Crash \/ (Control!ProcessDies /\ UNCHANGED ccrashes)
  PROVE  C!IInv' /\ cmain' = "down"
<1>1. Control!ProcessDies
  BY DEF Control!Crash
<1>2. C!ProcessDies
  BY <1>1 DEF Control!ProcessDies, Control!Idle, Control!Nothing, Control!NoSnap,
              Control!ZeroState, C!ProcessDies, C!Idle, C!Nothing, C!NoSnap, C!ZeroState
<1>3. ccrashes' \in 0 .. MaxCrashes
  BY BoundsAssumption DEF Control!Crash, SInv, C!IInv, C!TypeOK
<1> QED BY <1>1, <1>2, <1>3, ControlConstants, C!EndStep DEF SInv, Control!ProcessDies

\* The pipeline changes nothing of the control.
LEMMA QuietStep ==
  ASSUME SInv, UNCHANGED controlVars
  PROVE  C!IInv' /\ UNCHANGED cmain
BY DEF SInv, controlVars, C!IInv, C!TypeOK, C!StartInv, C!RestartHeals, C!LastInv, C!SerialInv,
       C!TimesInv, C!CachedTimesMatchState

-----------------------------------------------------------------------------
(***************************************************************************)
(* The theorems.                                                           *)
(***************************************************************************)

\* The list is loaded by a main thread that has started the worker before.
LEMMA PipelineBehind ==
  ASSUME SInv, Arrives \/ WorkerGoes \/ \E h \in Handlers : HandlerGoes(h)
  PROVE  MeetInv'
<1>1. UNCHANGED <<main, controlVars>>
  BY DEF Arrives, WorkerGoes, HandlerGoes, Take, Finish, Create, Delete, HandlerStep, Get,
         GetFails, Parse, ParseFails, Insert, InsertFails, Receive, AddToQueue, Push, Good,
         Respond, Bad, Return, HandlerMoves, Pull, SetCurrent, SetKey, Work, Processed, Result,
         GiveBack, WorkerMoves, mainVars
<1> QED BY <1>1 DEF SInv, MeetInv, controlVars

\* Every step of the whole preserves the invariant of the control.
LEMMA NextControl == SInv /\ [SNext]_allVars => SInv'
<1> SUFFICES ASSUME SInv, SNext \/ UNCHANGED allVars PROVE SInv'
  OBVIOUS
<1>1. CASE Arrives \/ WorkerGoes \/ \E h \in Handlers : HandlerGoes(h)
  <2>1. UNCHANGED controlVars
    BY <1>1 DEF Arrives, WorkerGoes, HandlerGoes, Take, Finish
  <2> QED BY <1>1, <2>1, QuietStep, PipelineBehind DEF SInv
<1>2. CASE ControlArrives \/ \E h \in Operators : ControlGoes(h)
  <2>1. UNCHANGED vars
    BY <1>2 DEF ControlArrives, ControlGoes
  <2>2. C!IInv' /\ UNCHANGED cmain
    BY <1>2, RequestStep DEF ControlArrives, ControlGoes
  <2> QED BY <2>1, <2>2 DEF SInv, MeetInv, vars, mainVars
<1>3. CASE ServiceInit
  <2>1. CASE main = "down" /\ Control!MainStep /\ UNCHANGED vars
    BY <2>1, ControlInitStep DEF SInv, MeetInv, vars, mainVars
  <2>2. CASE cmain = "up" /\ MainStep /\ UNCHANGED controlVars
    BY <2>2, QuietStep DEF SInv, MeetInv
  <2> QED BY <1>3, <2>1, <2>2 DEF ServiceInit
<1>4. CASE Dies \/ DiesOfNull \/ DiesEarly
  <2>1. main' = "down"
    BY <1>4 DEF Dies, DiesOfNull, DiesEarly, Crash, NullJob, ProcessDies, vars, mainVars
  <2>2. C!IInv'
    BY <1>4, ControlEndStep DEF Dies, DiesOfNull, DiesEarly
  <2> QED BY <2>1, <2>2 DEF SInv, MeetInv
<1>5. CASE UNCHANGED allVars
  BY <1>5, QuietStep DEF SInv, MeetInv, allVars, vars, mainVars
<1> QED BY <1>1, <1>2, <1>3, <1>4, <1>5 DEF SNext

\* What WorkerControl says of itself holds also of the service as a whole,
\* where the process may end by a job without a transaction.
THEOREM ControlKept == SSpec => []SInv
BY InitControl, NextControl, PTL DEF SSpec

\* In the whole service, too, a start repairs what crashes and racing requests
\* have left, and the worker does what Redis was last asked for.
THEOREM RestartHealsHere ==
  SSpec => [](Control!RestartHeals /\ Control!PersistedRequestHolds)
<1>1. SInv => Control!RestartHeals /\ Control!PersistedRequestHolds
  BY DEF SInv, C!IInv, C!RestartHeals, C!SerialInv, Control!RestartHeals,
         Control!PersistedRequestHolds, Control!Idle, C!Idle
<1> QED BY <1>1, ControlKept, PTL

\* A worker that was told to stop takes no job: neither in the process that was
\* told, nor in one that comes after it.
LEMMA StoppedTakesNothing ==
  ASSUME SInv, IInv, last = "stopped", cpc = Control!Idle, ~ raced, ~ inited
  PROVE  ~ Take
<1>1. CASE cmain = "up"
  <2>1. worker = last
    BY <1>1 DEF SInv, MeetInv, C!IInv, C!SerialInv, C!Idle, Control!Idle
  <2> QED BY <2>1 DEF Take
<1>2. CASE cmain # "up"
  BY <1>2 DEF SInv, MeetInv, IInv, OwnersInv, MainInv, Take, Pull
<1> QED BY <1>1, <1>2

\* While the worker thread waits, a step other than Take keeps the list or appends
\* to it.
LEMMA ListAppended ==
  ASSUME IInv, wpc = "wait", [SNext]_allVars, ~ Take
  PROVE  wpc' = "wait" /\ (list' = list \/ \E t \in Trans : list' = Append(list, t))
<1>1. ASSUME NEW h \in Handlers, Create(h) \/ HandlerStep(h)
      PROVE  wpc' = "wait" /\ (list' = list \/ \E t \in Trans : list' = Append(list, t))
  <2>1. CASE AddToQueue(h)
    <3>1. mem[slot[h]] \in Trans
      BY <2>1 DEF AddToQueue, HandlerMoves, IInv, OwnersInv, HandlerInv, Filled, Stored
    <3> QED BY <2>1, <3>1 DEF AddToQueue, HandlerMoves
  <2>2. CASE ~ AddToQueue(h)
    BY <1>1, <2>2 DEF HandlerStep, Create, Get, GetFails, Parse, ParseFails, Insert, InsertFails,
                Receive, Push, Good, Respond, Bad, Return, HandlerMoves
  <2> QED BY <2>1, <2>2
<1>2. CASE MainStep \/ Crash \/ NullJob
  BY <1>2 DEF MainStep, Start, Lookup, LookupFails, CountFromBackup, PushFromBackup, Serve,
              MainMoves, Crash, NullJob, ProcessDies
<1>3. ASSUME NEW t \in Trans, Delete(t) PROVE UNCHANGED <<wpc, list>>
  BY <1>3 DEF Delete, workerVars
<1>4. CASE UNCHANGED vars
  BY <1>4 DEF vars, workerVars
<1>5. CASE WorkerGoes
  BY <1>5 DEF WorkerGoes, Finish, SetCurrent, SetKey, Work, Processed, Result, GiveBack,
              WorkerMoves
<1>6. WorkerGoes \/ (\E h \in Handlers : Create(h) \/ HandlerStep(h))
        \/ (\E t \in Trans : Delete(t)) \/ MainStep \/ Crash \/ NullJob \/ UNCHANGED vars
  BY DEF SNext, Arrives, HandlerGoes, ControlArrives, ControlGoes, ServiceInit, Dies,
         DiesOfNull, DiesEarly, allVars
<1> QED BY <1>1, <1>2, <1>3, <1>4, <1>5, <1>6

\* A sequence is a prefix of what is appended to it.
LEMMA AppendIsPrefix ==
  ASSUME NEW S, NEW s \in Seq(S), NEW e \in S
  PROVE  IsPrefix(s, s) /\ IsPrefix(s, Append(s, e))
<1>1. /\ Append(s, e) \in Seq(S) /\ Len(Append(s, e)) = Len(s) + 1
      /\ \A i \in 1 .. Len(s) : Append(s, e)[i] = s[i]
  BY AppendProperties
<1>2. SubSeq(s, 1, Len(s)) = SubSeq(Append(s, e), 1, Len(s))
  BY <1>1
<1> QED BY <1>1, <1>2 DEF IsPrefix

\* While no requests race and none is a state/init, a worker that was told to stop takes up nothing once
\* it has finished what it had, and what waits only grows, across any number of
\* restarts.
THEOREM StoppedListGrowsAlways == SSpec => StoppedListGrows
<1>1. SInv /\ IInv /\ [SNext]_allVars =>
        [last = "stopped" /\ cpc = Control!Idle /\ ~raced /\ ~inited /\ wpc = "wait"
           => wpc' = "wait" /\ IsPrefix(list, list')]_allVars
  <2> SUFFICES ASSUME SInv, IInv, [SNext]_allVars,
                      last = "stopped", cpc = Control!Idle, ~ raced, ~ inited, wpc = "wait"
               PROVE  wpc' = "wait" /\ IsPrefix(list, list')
    OBVIOUS
  <2>1. wpc' = "wait" /\ (list' = list \/ \E t \in Trans : list' = Append(list, t))
    BY StoppedTakesNothing, ListAppended
  <2>2. list \in Seq(Trans)
    BY DEF IInv, TypeOK
  <2>3. IsPrefix(list, list)
    BY <2>2 DEF IsPrefix
  <2> QED BY <2>1, <2>2, <2>3, AppendIsPrefix
<1>2. SSpec => []IInv
  BY PipelineImplemented, OwnersInvariant
<1> QED BY <1>1, <1>2, ControlKept, PTL DEF SSpec, StoppedListGrows

\* Whatever is asked of the worker, the pipeline keeps its promises to clients:
\* an answered transaction is not lost, none is worked on twice, and no object
\* has two owners.
THEOREM PromisesKept ==
  SSpec => [](AckedNotLost /\ NoRework /\ OneOwner /\ QueueIsDurable) /\ ImplementsWorkQueue
<1>1. Spec => [](AckedNotLost /\ NoRework /\ OneOwner /\ QueueIsDurable)
  BY AckedNotLostCorrect, NoReworkCorrect, OneOwnerCorrect, QueueIsDurableCorrect, PTL
<1> QED BY <1>1, PipelineImplemented, Refinement

=============================================================================
