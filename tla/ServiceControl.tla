---------------------------- MODULE ServiceControl ----------------------------
(***************************************************************************)
(* The pipeline under a worker that is stopped and started.                *)
(*                                                                         *)
(* TransPipeline takes the worker to run all the time, WorkerControl knows *)
(* nothing of jobs.  Here they run together in one process: requests to    *)
(* start and stop the worker come while transactions are created and       *)
(* worked on, a stopped worker finishes its job and takes no other, the    *)
(* queue and the list grow, and a restart first starts the worker in the   *)
(* state that Redis has and then loads the list.  They meet in the job     *)
(* queue, in service_init and in the end of the process.                   *)
(*                                                                         *)
(* That a worker which is resumed takes the jobs that have waited is what  *)
(* the service expects of cerver.                                          *)
(***************************************************************************)
EXTENDS TransPipeline

CONSTANTS
  Operators,    \* the threads of cerver's pool that run control requests
  Requests,     \* the control requests that clients make
  Nil,          \* a key that does not exist in Redis
  MaxControls,  \* bound on the control requests
  MaxTime       \* bound on the clock

ASSUME ControlAssumption == MaxControls \in Nat /\ MaxTime \in Nat \ {0}

\* The variables of WorkerControl: those whose name TransPipeline has already
\* begin with a c.
VARIABLES
  cmain, first, test, worker, state, ccached, cpc, unread, snap, now,
  last, raced, inited, fresh, controls, ccrashes

Control ==
  INSTANCE WorkerControl WITH
    Handlers    <- Operators,
    MaxRequests <- MaxControls,
    main        <- cmain,
    cached      <- ccached,
    pc          <- cpc,
    requests    <- controls,
    crashes     <- ccrashes

controlVars == <<cmain, first, test, worker, state, ccached, cpc, unread, snap, now,
                 last, raced, inited, fresh, controls, ccrashes>>

allVars == <<vars, controlVars>>

ASSUME RequestsAssumption ==
  Requests \subseteq Control!AllRequests /\ Nil \notin Control!States

-----------------------------------------------------------------------------

\* cerver's worker takes a job only while it is not stopped.
Take == worker = "available" /\ Pull /\ UNCHANGED controlVars

\* The rest of worker_handler_method is not interrupted by a stop.
Finish ==
  /\ SetCurrent \/ SetKey \/ Work \/ Processed \/ Result \/ GiveBack
  /\ UNCHANGED controlVars

WorkerGoes == Take \/ Finish

\* The handlers of transactions do not look at the state of the worker.
HandlerGoes(h) == HandlerStep(h) /\ UNCHANGED controlVars

Arrives ==
  /\ \/ \E h \in Handlers : Create(h)
     \/ \E t \in Trans : Delete(t)
  /\ UNCHANGED controlVars

\* The control requests, once cerver serves.
ControlArrives ==
  /\ main = "up"
  /\ \E h \in Operators :
       Control!Resume(h) \/ Control!Stop(h) \/ Control!Reset(h) \/ Control!InitArrives(h)
  /\ UNCHANGED vars

ControlGoes(h) == Control!HandlerStep(h) /\ UNCHANGED vars

\* service_init: the state and the worker, then the counters and the list.
ServiceInit ==
  \/ main = "down" /\ Control!MainStep /\ UNCHANGED vars
  \/ cmain = "up" /\ MainStep /\ UNCHANGED controlVars

\* The end of the process, while it serves or loads the list, ...
Dies == Crash /\ Control!Crash

\* ... brought about by the worker thread, ...
DiesOfNull == NullJob /\ Control!ProcessDies /\ UNCHANGED ccrashes

\* ... or before the list is loaded.  A start that dies early leaves nothing in
\* memory, so these crashes need no bound.
DiesEarly ==
  main = "down" /\ Control!ProcessDies /\ UNCHANGED ccrashes /\ UNCHANGED vars

-----------------------------------------------------------------------------

\* The first start of the service has ended and nothing has been asked of it.
SInit ==
  /\ Init
  /\ cmain = "up" /\ first = TRUE /\ test = TRUE /\ worker = "available"
  /\ now = 1 /\ state = Control!Started(Control!ZeroState, now) /\ ccached = state
  /\ cpc = Control!Idle /\ unread = Control!Nothing /\ snap = Control!NoSnap
  /\ last = "available" /\ raced = FALSE /\ inited = FALSE /\ fresh = TRUE
  /\ controls = 0 /\ ccrashes = 0

SNext ==
  \/ Arrives \/ ControlArrives
  \/ \E h \in Handlers : HandlerGoes(h)
  \/ \E h \in Operators : ControlGoes(h)
  \/ WorkerGoes
  \/ ServiceInit
  \/ Dies \/ DiesOfNull \/ DiesEarly

SSpec == SInit /\ [][SNext]_allVars

\* The operating system schedules the threads, and a thread that can take its
\* next step takes it.  Clients need not ask for anything, and nothing need
\* start again.
Fairness ==
  /\ \A h \in Handlers : WF_allVars(HandlerGoes(h))
  /\ WF_allVars(WorkerGoes \/ DiesOfNull)
  /\ WF_allVars(ServiceInit /\ cmain # "down")

FairSpec == SSpec /\ Fairness

-----------------------------------------------------------------------------

\* A worker that was told to stop takes up nothing once it has finished what it
\* had, and the list of what waits only grows: across resets, failed requests
\* and any number of crashes and restarts, which load the list again, as long
\* as no requests race in the process and none was a state/init.  (A reset and
\* then a state/init make Redis forget the stop, and the next start runs the
\* worker.)
StoppedListGrows ==
  [][last = "stopped" /\ cpc = Control!Idle /\ ~raced /\ ~inited /\ wpc = "wait"
       => wpc' = "wait" /\ IsPrefix(list, list')]_allVars

\* An answered transaction that is not deleted is worked on in the end, or the
\* process dies while the worker has it: also when the worker was stopped as it
\* came, it was loaded from the list again, or an earlier process did not queue
\* it.  It may wait for ever only while the service stays down, the worker stays
\* stopped, or the process that serves has itself failed to queue a transaction:
\* a push that fails (worker.c:130, its result is ignored) or a lookup that
\* fails at the start (backup.c:276) is not tried again before the next start.
AckedProcessed ==
  <>[](main # "down" /\ worker = "available" /\ ~lostJob) =>
    \A t \in Trans :
      t \in acked ~> t \in finished \cup interrupted \/ db[t] = "deleted"

=============================================================================
