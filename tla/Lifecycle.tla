------------------------------ MODULE Lifecycle ------------------------------
(***************************************************************************)
(* How the process comes up and how it goes down.                          *)
(*                                                                         *)
(* main calls service_init, which acquires one thing after the other,      *)
(* starts the worker and says whether it failed; then it serves, and at    *)
(* the end calls service_end.  SIGINT and SIGTERM run end(), at any point  *)
(* of this, on the main thread or on another: it tears the cerver down,    *)
(* calls service_end too and exits.  The handler of one of the two signals *)
(* may interrupt that of the other.  An interrupted thread does not go on, *)
(* for end() does not return: what it holds it keeps.  So the module has   *)
(* the mutexes of service_data that the worker takes, and who holds them.  *)
(*                                                                         *)
(* The service runs with CONNECT_TO_REDIS true.  The data, the state and   *)
(* the pool are never released: service_data_end, service_state_end and    *)
(* service_trans_end have no caller.                                       *)
(***************************************************************************)
EXTENDS Naturals, Sequences

CONSTANTS
  Signals,   \* those that come: see AllSignals
  Failures,  \* the calls that may fail: see AllFailures
  Handlers   \* the threads of cerver's pool

AllSignals  == {"int", "term"}
AllFailures == {"env", "mongo", "ping", "model", "redis", "responses", "trans",
                "worker", "create", "start"}

ASSUME SignalsAssumption  == Signals \subseteq AllSignals
ASSUME FailuresAssumption == Failures \subseteq AllFailures
ASSUME HandlersAssumption == {"main", "worker", "nobody"} \cap Handlers = {}

VARIABLES
  pc,         \* pc["main"]: where main is; pc[s]: where end() is for signal s
  suspended,  \* the threads of control that a signal has interrupted
  started,    \* started of service.c
  errors,     \* what service_init has gathered of errors
  have,       \* what is there
  cerver,     \* worker_service of main.c
  alive       \* the process has not exited

\* The threads that share service_data.
VARIABLES
  work,     \* the place in WorkerLocks that the worker's job has come to
  holder,   \* holder[m]: the thread that holds mutex m
  stopped   \* the threads of cerver and of the worker that a signal has interrupted

\* History variables.
VARIABLES
  failed,     \* the calls that have failed
  acquired,   \* what was there once
  released,   \* released[r]: how often r was released
  overlap     \* a signal came during a teardown, or not to the main thread

controlVars == <<pc, suspended, started, errors, have, cerver, alive,
                 failed, acquired, released, overlap>>
threadVars  == <<work, holder, stopped>>

vars == <<controlVars, threadVars>>

Controls == {"main"} \cup Signals

\* values are service_data and service_state; trans is the pool with the
\* responses of controllers/transactions.c.
Resources   == {"mongo", "model", "redis", "values", "responses", "trans",
                "worker", "cerver"}
Releasable  == Resources \ {"values", "trans"}

\* The mutexes that worker_handler_method takes, one after the other; trans_count
\* is not one of them.
WorkerLocks == <<"worker_trans", "waiting_time", "process_time", "complete_time">>
Mutexes     == {WorkerLocks[k] : k \in 1..4}
Threads     == Handlers \cup {"main", "worker"}

InitPcs  == {"env", "mongo", "model", "redis", "values", "responses", "trans",
             "worker", "data", "check"}
ServePcs == {"create", "start", "serve"}
EndPcs   == {"stop", "worker_end", "model_end", "disconnect", "credis_end",
             "responses_end", "exit"}

-----------------------------------------------------------------------------

Runs(c, from, to) ==
  /\ alive /\ c \notin suspended
  /\ pc[c] = from
  /\ pc' = [pc EXCEPT ![c] = to]
  /\ UNCHANGED <<suspended, overlap, threadVars>>

Acquire(R) == have' = have \cup R /\ acquired' = acquired \cup R

\* The call may fail.
Fails(call) == call \in Failures /\ failed' = failed \cup {call}

\* Something that was there once is released, again perhaps: the pointers are
\* not cleared.
Release(r) ==
  /\ have' = have \ {r}
  /\ released' = IF r \in acquired THEN [released EXCEPT ![r] = @ + 1] ELSE released

-----------------------------------------------------------------------------
(***************************************************************************)
(* service_init.                                                           *)
(***************************************************************************)

InitMoves(from, to) ==
  /\ Runs("main", from, to)
  /\ UNCHANGED <<cerver, alive, released>>

\* One thing that service_init needs: without it, it returns what retval was
\* set to at the beginning, zero.
Needs(from, to, R, call) ==
  \/ InitMoves(from, to) /\ Acquire(R) /\ UNCHANGED <<started, errors, failed>>
  \/ /\ InitMoves(from, "create") /\ Fails(call)
     /\ UNCHANGED <<started, errors, have, acquired>>

\* service_init_env.
Env == Needs("env", "mongo", {}, "env")

\* service_mongo_connect: mongo_connect, and the ping, which may fail when the
\* connection is there ...
MongoConnect ==
  \/ Needs("mongo", "model", {"mongo"}, "mongo")
  \/ InitMoves("mongo", "create") /\ Fails("ping") /\ Acquire({"mongo"})
     /\ UNCHANGED <<started, errors>>

\* ... and transactions_model_init.
ModelInit == Needs("model", "redis", {"model"}, "model")

\* service_redis_init: credis_init, and the ping, which may fail after it.
RedisInit ==
  \/ Needs("redis", "values", {"redis"}, "redis")
  \/ InitMoves("redis", "create") /\ Fails("redis") /\ Acquire({"redis"})
     /\ UNCHANGED <<started, errors>>

\* started, service_data_init, service_state_init and the state from Redis.
ValuesInit ==
  /\ InitMoves("values", "responses")
  /\ started' = TRUE
  /\ Acquire({"values"})
  /\ UNCHANGED <<errors, failed>>

\* A call whose failure is gathered in errors; service_init goes on.
Tries(from, to, R, call) ==
  \/ InitMoves(from, to) /\ Acquire(R) /\ UNCHANGED <<started, errors, failed>>
  \/ /\ InitMoves(from, to) /\ Fails(call) /\ errors' = TRUE
     /\ UNCHANGED <<started, have, acquired>>

\* worker_service_init, service_trans_init and worker_current_init.
ResponsesInit == Tries("responses", "trans", {"responses"}, "responses")
TransInit     == Tries("trans", "worker", {"trans"}, "trans")
WorkerInit    == Tries("worker", "data", {"worker"}, "worker")

\* The sleep, and backup_fetch_data_from_cache, which has let go of the mutex that
\* it takes for each transaction (BackupLock, BackupUnlock).
FetchData ==
  /\ holder["worker_trans"] # "main"
  /\ InitMoves("data", "check")
  /\ UNCHANGED <<started, errors, have, failed, acquired>>

\* Mistake: main does not look at what service_init returns.
CheckNothing ==
  /\ InitMoves("check", "create")
  /\ UNCHANGED <<started, errors, have, failed, acquired>>

\* Mistake: main runs end(), as a signal does.
CheckTearsDown ==
  /\ InitMoves("check", IF errors THEN "teardown" ELSE "create")
  /\ UNCHANGED <<started, errors, have, failed, acquired>>

\* main looks at what service_init returns.
Check ==
  /\ InitMoves("check", IF errors THEN "stop" ELSE "create")
  /\ UNCHANGED <<started, errors, have, failed, acquired>>

-----------------------------------------------------------------------------
(***************************************************************************)
(* start.                                                                  *)
(***************************************************************************)

ServeMoves(from, to) ==
  /\ Runs("main", from, to)
  /\ UNCHANGED <<started, errors, alive>>

\* cerver_create; when it fails worker_service is NULL.
Create ==
  \/ /\ ServeMoves("create", "start")
     /\ cerver' = "created" /\ Acquire({"cerver"}) /\ UNCHANGED <<failed, released>>
  \/ ServeMoves("create", "stop") /\ Fails("create")
     /\ UNCHANGED <<cerver, have, acquired, released>>

\* cerver_start; when it fails worker_service is deleted and not cleared.
Start ==
  \/ ServeMoves("start", "serve") /\ cerver' = "serving"
     /\ UNCHANGED <<have, failed, acquired, released>>
  \/ /\ ServeMoves("start", "stop") /\ Fails("start")
     /\ cerver' = "deleted" /\ Release("cerver") /\ UNCHANGED acquired

\* cerver_start returns when the cerver is torn down.
Served ==
  /\ ServeMoves("serve", "stop")
  /\ cerver = "deleted"
  /\ UNCHANGED <<cerver, have, failed, acquired, released>>

-----------------------------------------------------------------------------
(***************************************************************************)
(* service_end, called by main and by end().                               *)
(***************************************************************************)

EndMoves(c, from, to) ==
  /\ Runs(c, from, to)
  /\ UNCHANGED <<started, errors, failed, acquired>>

\* Mistake: Mongo is closed before the worker has ended.
StopMongoFirst(c) ==
  /\ EndMoves(c, "stop", IF started THEN "worker_end" ELSE "model_end")
  /\ Release("mongo")
  /\ UNCHANGED <<cerver, alive>>

\* Mistake: a teardown waits for the other one to end.
StopWaits(c) ==
  /\ \A d \in Controls \ {c} : pc[d] \notin EndPcs \ {"stop"}
  /\ EndMoves(c, "stop", IF started THEN "worker_end" ELSE "model_end")
  /\ UNCHANGED <<have, cerver, released, alive>>

\* running is set to FALSE, and nothing reads it.
Stop(c) ==
  /\ EndMoves(c, "stop", IF started THEN "worker_end" ELSE "model_end")
  /\ UNCHANGED <<have, cerver, released, alive>>

\* worker_end and worker_delete.  worker_end lets the worker thread finish its job
\* and waits for its end; where there is no thread, or no more, it returns.
WorkerEnd(c) ==
  /\ "worker" \in have => work = 0 /\ "worker" \notin stopped
  /\ EndMoves(c, "worker_end", "model_end")
  /\ Release("worker")
  /\ UNCHANGED <<cerver, alive>>

\* service_mongo_end: mongo_get_status and transactions_model_end ...
ModelEnd(c) ==
  /\ \/ "mongo" \in have /\ EndMoves(c, "model_end", "disconnect") /\ Release("model")
     \/ "mongo" \notin have /\ EndMoves(c, "model_end", "credis_end")
        /\ UNCHANGED <<have, released>>
  /\ UNCHANGED <<cerver, alive>>

\* ... and mongo_disconnect.
Disconnect(c) ==
  /\ EndMoves(c, "disconnect", "credis_end")
  /\ Release("mongo")
  /\ UNCHANGED <<cerver, alive>>

CredisEnd(c) ==
  /\ EndMoves(c, "credis_end", IF started THEN "responses_end" ELSE "exit")
  /\ Release("redis")
  /\ UNCHANGED <<cerver, alive>>

\* worker_service_end.
ResponsesEnd(c) ==
  /\ EndMoves(c, "responses_end", "exit")
  /\ Release("responses")
  /\ UNCHANGED <<cerver, alive>>

\* Mistake: end() returns to what the signal has interrupted.
EndReturns(c) ==
  /\ alive /\ c \notin suspended /\ pc[c] = "exit"
  /\ pc' = [pc EXCEPT ![c] = "done"]
  /\ alive' = (c # "main")
  /\ suspended' = IF c = "main" THEN suspended ELSE suspended \ {"main"}
  /\ UNCHANGED <<started, errors, have, cerver, failed, acquired, released, overlap,
                 threadVars>>

\* cerver_end, and exit or the end of main.
Exit(c) ==
  /\ EndMoves(c, "exit", "done")
  /\ alive' = FALSE
  /\ UNCHANGED <<have, cerver, released>>

ServiceEnd(c) ==
  Stop(c) \/ WorkerEnd(c) \/ ModelEnd(c) \/ Disconnect(c) \/ CredisEnd(c)
  \/ ResponsesEnd(c) \/ Exit(c)

-----------------------------------------------------------------------------
(***************************************************************************)
(* Signals.                                                                *)
(***************************************************************************)

\* Signal s is delivered to the thread of control c, or to a thread of the
\* worker or of cerver, which has one that takes connections besides Handlers.
Signal(s) ==
  /\ alive /\ pc[s] = "idle"
  /\ pc' = [pc EXCEPT ![s] = "teardown"]
  /\ \/ \E c \in Controls \ suspended :
          /\ pc[c] # "idle"
          /\ suspended' = suspended \cup {c}
          /\ overlap' = (overlap \/ c # "main" \/ pc["main"] \in EndPcs)
          /\ UNCHANGED stopped
     \/ /\ \/ "worker" \in have \ stopped /\ stopped' = stopped \cup {"worker"}
           \/ cerver = "serving" /\ \E h \in Handlers \ stopped : stopped' = stopped \cup {h}
           \/ cerver = "serving" /\ UNCHANGED stopped
        /\ overlap' = TRUE
        /\ UNCHANGED suspended
  /\ UNCHANGED <<started, errors, have, cerver, alive, failed, acquired, released,
                 work, holder>>

\* end(): cerver_teardown, if there is a cerver.
Teardown(s) ==
  /\ EndMoves(s, "teardown", "stop")
  /\ \/ cerver = "none" /\ UNCHANGED <<cerver, have, released>>
     \/ cerver # "none" /\ cerver' = "deleted" /\ Release("cerver")
  /\ UNCHANGED alive

MainStep ==
  \/ Env \/ MongoConnect \/ ModelInit \/ RedisInit \/ ValuesInit
  \/ ResponsesInit \/ TransInit \/ WorkerInit \/ FetchData \/ Check
  \/ Create \/ Start \/ Served
  \/ ServiceEnd("main")

EndStep(s) == Teardown(s) \/ ServiceEnd(s)

-----------------------------------------------------------------------------
(***************************************************************************)
(* The threads that share service_data, as long as they run.               *)
(***************************************************************************)

Locks(x, m) ==
  /\ alive /\ x \notin stopped
  /\ holder[m] = "nobody" /\ holder' = [holder EXCEPT ![m] = x]
  /\ UNCHANGED <<controlVars, stopped>>

Unlocks(x, m) ==
  /\ alive /\ x \notin stopped
  /\ holder[m] = x /\ holder' = [holder EXCEPT ![m] = "nobody"]
  /\ UNCHANGED <<controlVars, stopped>>

\* The worker takes a job, if worker_end has not told it to end.
WorkerTakes ==
  /\ alive /\ "worker" \in have \ stopped
  /\ work = 0 /\ \A c \in Controls : pc[c] # "worker_end"
  /\ work' = 1
  /\ UNCHANGED <<controlVars, holder, stopped>>

\* service_data_set_current_worker_trans and the three updates of the times.
WorkerLock == work # 0 /\ Locks("worker", WorkerLocks[work]) /\ UNCHANGED work

WorkerUnlock ==
  /\ work # 0 /\ Unlocks("worker", WorkerLocks[work])
  /\ work' = (work + 1) % 5

\* A time that is not positive updates nothing.
WorkerSkips ==
  /\ alive /\ "worker" \notin stopped
  /\ work > 1 /\ holder[WorkerLocks[work]] # "worker"
  /\ work' = (work + 1) % 5
  /\ UNCHANGED <<controlVars, holder, stopped>>

\* A handler takes one of the mutexes at a time: a push takes worker_trans, the
\* report takes those of the times, and data/reset takes all of them.
HandlerLock(h) ==
  /\ cerver = "serving" /\ \A m \in Mutexes : holder[m] # h
  /\ \E m \in Mutexes : Locks(h, m)
  /\ UNCHANGED work

HandlerUnlock(h) == (\E m \in Mutexes : Unlocks(h, m)) /\ UNCHANGED work

\* service_data_add_to_current_trans_in_worker_queue_from_backup.
BackupLock ==
  /\ pc["main"] = "data" /\ "main" \notin suspended
  /\ Locks("main", "worker_trans") /\ UNCHANGED work

BackupUnlock ==
  /\ "main" \notin suspended
  /\ Unlocks("main", "worker_trans") /\ UNCHANGED work

ThreadStep ==
  \/ WorkerTakes \/ WorkerLock \/ WorkerUnlock \/ WorkerSkips
  \/ BackupLock \/ BackupUnlock
  \/ \E h \in Handlers : HandlerLock(h) \/ HandlerUnlock(h)

-----------------------------------------------------------------------------

Init ==
  /\ pc = [c \in Controls |-> IF c = "main" THEN "env" ELSE "idle"]
  /\ suspended = {} /\ started = FALSE /\ errors = FALSE
  /\ have = {} /\ cerver = "none" /\ alive = TRUE
  /\ failed = {} /\ acquired = {} /\ released = [r \in Resources |-> 0]
  /\ overlap = FALSE
  /\ work = 0 /\ holder = [m \in Mutexes |-> "nobody"] /\ stopped = {}

Next ==
  \/ MainStep
  \/ ThreadStep
  \/ \E s \in Signals : Signal(s) \/ EndStep(s)

Spec == Init /\ [][Next]_vars

\* The operating system runs every thread that can run, and gives a mutex that is
\* free again and again to a thread that waits for it.  The list that main loads
\* is finite.  No client, no job and no signal need come.  Nothing is assumed of
\* a cerver_teardown that runs on, or beside, an interrupted thread of its pool.
FairSpec ==
  /\ Spec
  /\ WF_vars(MainStep) /\ SF_vars(FetchData) /\ WF_vars(BackupUnlock)
  /\ \A s \in Signals :
       WF_vars(ServiceEnd(s)) /\ WF_vars(Handlers \cap stopped = {} /\ Teardown(s))
  /\ SF_vars(WorkerLock) /\ WF_vars(WorkerUnlock)
  /\ \A h \in Handlers : WF_vars(HandlerUnlock(h))

-----------------------------------------------------------------------------

\* The variables have the types of main.c and service.c, and what is there was
\* acquired.
TypeOK ==
  /\ pc["main"] \in InitPcs \cup ServePcs \cup EndPcs \cup {"done"}
  /\ \A s \in Signals : pc[s] \in {"idle", "teardown", "done"} \cup EndPcs
  /\ suspended \subseteq Controls /\ started \in BOOLEAN /\ errors \in BOOLEAN
  /\ acquired \subseteq Resources /\ have \subseteq acquired
  /\ cerver \in {"none", "created", "serving", "deleted"} /\ alive \in BOOLEAN
  /\ failed \subseteq Failures /\ released \in [Resources -> Nat] /\ overlap \in BOOLEAN
  /\ work \in 0..4 /\ holder \in [Mutexes -> Threads \cup {"nobody"}]
  /\ stopped \subseteq Threads \ {"main"}

\* What worker_handler_method and delete_data use is there as long as the worker
\* is: the worker is started after and ended before Mongo, Redis and the values,
\* wherever a signal interrupts, and however two teardowns overlap.  When
\* service_trans_init fails service_init starts the worker all the same.
WorkerHasWhatItUses ==
  "worker" \in have =>
    /\ {"mongo", "model", "redis", "values"} \subseteq have
    /\ "trans" \in have \/ "trans" \in failed

\* When the service serves, service_init has done all that the handlers of the
\* routes rely on.  There are two exceptions: when the environment, Mongo or
\* Redis failed, service_init returns zero and main serves without any of it;
\* and a signal that another thread than main handles goes on beside main.
ServesReady ==
  cerver = "serving" =>
    \/ Resources \subseteq have
    \/ failed \cap {"env", "mongo", "ping", "model", "redis"} # {}
    \/ overlap

\* What was acquired and can be released is released once when the process
\* exits, from whatever point of service_init or of serving a signal or an
\* error has taken it there.  A signal that meets a teardown, and one that
\* meets the cerver that start() has deleted and not forgotten, release
\* things a second time.
ReleasedOnce ==
  \/ overlap \/ "start" \in failed
  \/ \A r \in Releasable :
       /\ released[r] <= 1
       /\ ~alive /\ r \in acquired => released[r] = 1

\* The threads that a signal has interrupted: they hold what they held.
Interrupted == stopped \cup (suspended \cap {"main"})

\* What a teardown waits for in vain: the worker thread, when a signal has
\* interrupted it or a thread that holds the mutex it needs, and perhaps the
\* threads of cerver's pool.
WaitsInVain ==
  \/ "worker" \in stopped
  \/ work # 0 /\ holder[WorkerLocks[work]] \in Interrupted
  \/ Handlers \cap stopped # {} /\ \E s \in Signals : pc[s] = "teardown"

\* After a signal, or when service_init fails with an error, the process ends:
\* service_end waits for the worker and the worker for its mutexes, and whoever
\* holds them lets go of them, unless a signal has interrupted it there; then the
\* teardown may wait in vain for ever, and only then.
EndsWhenTold ==
  (\E s \in Signals : pc[s] # "idle") \/ errors
    ~> ~alive \/ []WaitsInVain

=============================================================================
