------------------------------ MODULE Counters ------------------------------
(***************************************************************************)
(* The counters of service_data under every request that touches them.     *)
(*                                                                         *)
(* Four of the five transaction counters are incremented by the request    *)
(* handlers under trans_count_mutex; n_processed_trans is incremented by   *)
(* the worker thread without it.  data/reset zeroes all five in memory     *)
(* under the mutex and then, under worker_trans_mutex, the number of the   *)
(* transactions in the worker's queue.  data/init copies the counters to   *)
(* Redis and takes no mutex; a report reads them under the mutex.  At a    *)
(* restart they are loaded from Redis and the queue is counted anew.       *)
(*                                                                         *)
(* Which transaction is where is the matter of TransPipeline: the list and *)
(* the job queue are numbers here.  What is under worker_trans_mutex is    *)
(* one step, for nothing else touches it.  Left out are the Redis keys     *)
(* that the service never reads, and the clock and documents.              *)
(***************************************************************************)
EXTENDS Integers, FiniteSets

CONSTANTS
  Handlers,    \* the threads of cerver's pool
  Nobody,      \* the owner of a mutex that is free
  Modulus,     \* 2^w, where w is the width of a size_t
  Admin,       \* the requests made besides POST: see AllAdmin
  MaxPosts,    \* bound on the POST requests
  MaxAdmin,    \* bound on the requests of Admin
  MaxCrashes   \* bound on the crashes

AllAdmin == {"init", "reset", "report"}

ASSUME HandlersAssumption == IsFiniteSet(Handlers)
ASSUME NobodyAssumption  == Nobody \notin Handlers
ASSUME ModulusAssumption == Modulus \in Nat \ {0}
ASSUME AdminAssumption   == Admin \subseteq AllAdmin
ASSUME BoundsAssumption  == MaxPosts \in Nat /\ MaxAdmin \in Nat /\ MaxCrashes \in Nat

VARIABLES
  main,       \* where the main thread is in service_init
  toLoad,     \* the elements of the LRANGE reply that are still to be pushed
  holder,     \* the handler that holds trans_count_mutex
  pc,         \* pc[h]: what handler h does next
  counter,    \* counter[h]: the counter that handler h increments
  reg,        \* reg[h]: the value of it that handler h has loaded
  copy,       \* copy[h]: the counters that handler h has read for a MSET or report
  wpc,        \* what the worker thread does next
  wreg,       \* the value that the worker thread has loaded
  jobs,       \* the number of jobs in the worker's queue
  listed,     \* Redis: the length of current_trans_in_worker_queue
  data,       \* service_data: the five counters
  current_n,  \* service_data->current_n_trans_in_worker_queue, a size_t
  cached      \* Redis: the five counters

\* History variables.
VARIABLES
  happened,   \* happened[c]: the increments of counter c so far
  base,       \* base[c]: those that c does not count since a reset or a restart
  queueBase,  \* the transactions that were listed at the last reset
  torn,       \* a reset fell into an increment of the worker thread
  disturbed,  \* there was a reset, or an init has written to Redis
  posts, admin, crashes  \* how often each has happened

mainVars    == <<main, toLoad>>
handlerVars == <<holder, pc, counter, reg, copy>>
workerVars  == <<wpc, wreg>>
queueVars   == <<jobs, listed, current_n>>
historyVars == <<happened, base, queueBase, torn, disturbed>>
boundVars   == <<posts, admin, crashes>>

vars == <<mainVars, handlerVars, workerVars, queueVars, data, cached,
          historyVars, boundVars>>

\* Those that trans_count_mutex protects, and all of them.
Locked   == {"n_trans", "n_bad_trans", "n_good_trans", "n_received_trans"}
Counters == Locked \cup {"n_processed_trans"}

Zero   == [c \in Counters |-> 0]
Unread == -1
NoCopy == [c \in Counters |-> Unread]

HandlerPcs == {"idle", "lock", "store", "set", "add", "push", "queue",
               "init", "report", "reported"}

-----------------------------------------------------------------------------
(***************************************************************************)
(* POST /api/transactions, as far as the counters go.                      *)
(***************************************************************************)

Moves(h, from, to) ==
  /\ pc[h] = from
  /\ pc' = [pc EXCEPT ![h] = to]
  /\ UNCHANGED <<mainVars, workerVars, crashes>>

Post(h) ==
  /\ main = "up" /\ posts < MaxPosts
  /\ posts' = posts + 1
  /\ Moves(h, "idle", "lock")
  /\ counter' = [counter EXCEPT ![h] = "n_trans"]
  /\ UNCHANGED <<holder, reg, copy, queueVars, data, cached, historyVars, admin>>

\* Mistake: the increment takes no mutex.
LockNothing(h) ==
  /\ Moves(h, "lock", "store")
  /\ reg' = [reg EXCEPT ![h] = data[counter[h]]]
  /\ UNCHANGED <<holder, counter, copy, queueVars, data, cached, historyVars,
                 posts, admin>>

\* service_data_update_trans_count and its like: lock and load, ...
Lock(h) ==
  /\ Moves(h, "lock", "store")
  /\ holder = Nobody /\ holder' = h
  /\ reg' = [reg EXCEPT ![h] = data[counter[h]]]
  /\ UNCHANGED <<counter, copy, queueVars, data, cached, historyVars, posts, admin>>

\* ... store, ...
Store(h) ==
  /\ Moves(h, "store", "set")
  /\ data' = [data EXCEPT ![counter[h]] = reg[h] + 1]
  /\ happened' = [happened EXCEPT ![counter[h]] = @ + 1]
  /\ UNCHANGED <<holder, counter, reg, copy, queueVars, cached, base, queueBase,
                 torn, disturbed, posts, admin>>

\* ... write to Redis and unlock.  A request that finds no object ends with
\* n_trans: it is neither good nor bad.
Set(h) ==
  /\ \/ counter[h] = "n_trans" /\ Moves(h, "set", "lock")
        /\ \E c \in {"n_bad_trans", "n_received_trans"} :
             counter' = [counter EXCEPT ![h] = c]
     \/ counter[h] = "n_received_trans" /\ Moves(h, "set", "add") /\ UNCHANGED counter
     \/ counter[h] \in {"n_trans", "n_bad_trans", "n_good_trans"}
        /\ Moves(h, "set", "idle") /\ UNCHANGED counter
  /\ cached' = [cached EXCEPT ![counter[h]] = data[counter[h]]]
  /\ holder' = Nobody /\ reg' = [reg EXCEPT ![h] = 0]
  /\ UNCHANGED <<copy, queueVars, data, historyVars, posts, admin>>

\* service_data_add_to_current_trans_in_worker_queue.
Add(h) ==
  /\ Moves(h, "add", "push")
  /\ current_n' = (current_n + 1) % Modulus /\ listed' = listed + 1
  /\ UNCHANGED <<holder, counter, reg, copy, jobs, data, cached, historyVars,
                 posts, admin>>

\* worker_push_job, whose failure is ignored.
Push(h) ==
  /\ Moves(h, "push", "lock")
  /\ jobs' \in {jobs, jobs + 1}
  /\ counter' = [counter EXCEPT ![h] = "n_good_trans"]
  /\ UNCHANGED <<holder, reg, copy, listed, current_n, data, cached, historyVars,
                 posts, admin>>

-----------------------------------------------------------------------------
(***************************************************************************)
(* The other requests.                                                     *)
(***************************************************************************)

Arrives(h, kind, to) ==
  /\ main = "up" /\ kind \in Admin /\ admin < MaxAdmin
  /\ admin' = admin + 1
  /\ Moves(h, "idle", to)
  /\ UNCHANGED <<counter, reg, queueVars, cached, posts>>

\* Mistake: the reset of the counters takes no mutex.
ResetUnlocked(h) ==
  /\ Arrives(h, "reset", "queue")
  /\ data' = Zero /\ base' = happened
  /\ torn' = (torn \/ wpc = "store") /\ disturbed' = TRUE
  /\ UNCHANGED <<holder, copy, happened, queueBase>>

\* GET /api/service/data/reset: service_data_reset_trans_count ...
Reset(h) ==
  /\ Arrives(h, "reset", "queue")
  /\ holder = Nobody
  /\ data' = Zero /\ base' = happened
  /\ torn' = (torn \/ wpc = "store") /\ disturbed' = TRUE
  /\ UNCHANGED <<holder, copy, happened, queueBase>>

\* ... and service_data_reset_current_trans_in_worker_queue.
ResetQueue(h) ==
  /\ Moves(h, "queue", "idle")
  /\ current_n' = 0 /\ queueBase' = listed
  /\ UNCHANGED <<holder, counter, reg, copy, jobs, listed, data, cached, happened,
                 base, torn, disturbed, posts, admin>>

\* GET /api/service/data/init: service_data_init_trans_counts reads the fields
\* without the mutex, in an order that C leaves open ...
InitArrives(h) ==
  /\ Arrives(h, "init", "init")
  /\ UNCHANGED <<holder, copy, data, historyVars>>

InitReads(h) ==
  /\ Moves(h, "init", "init")
  /\ \E c \in Counters :
       copy[h][c] = Unread /\ copy' = [copy EXCEPT ![h][c] = data[c]]
  /\ UNCHANGED <<holder, counter, reg, queueVars, data, cached, historyVars, posts, admin>>

\* ... and writes them with one MSET.
InitWrites(h) ==
  /\ Moves(h, "init", "idle")
  /\ \A c \in Counters : copy[h][c] # Unread
  /\ cached' = copy[h] /\ copy' = [copy EXCEPT ![h] = NoCopy]
  /\ disturbed' = TRUE
  /\ UNCHANGED <<holder, counter, reg, queueVars, data, happened, base, queueBase,
                 torn, posts, admin>>

\* Mistake: the report takes no mutex.
ReportNothingLocked(h) ==
  /\ Arrives(h, "report", "report")
  /\ copy' = [copy EXCEPT ![h] = [data EXCEPT !["n_processed_trans"] = Unread]]
  /\ UNCHANGED <<holder, data, historyVars>>

\* GET /api/service/data: service_data_trans_count_to_json reads the counters
\* under the mutex, which keeps all but the last as they are ...
Report(h) ==
  /\ Arrives(h, "report", "report")
  /\ holder = Nobody /\ holder' = h
  /\ copy' = [copy EXCEPT ![h] = [data EXCEPT !["n_processed_trans"] = Unread]]
  /\ UNCHANGED <<data, historyVars>>

ReportProcessed(h) ==
  /\ Moves(h, "report", "reported")
  /\ copy' = [copy EXCEPT ![h]["n_processed_trans"] = data["n_processed_trans"]]
  /\ holder' = Nobody
  /\ UNCHANGED <<counter, reg, queueVars, data, cached, historyVars, posts, admin>>

\* ... and service_data_handler answers with them.
Reported(h) ==
  /\ Moves(h, "reported", "idle")
  /\ copy' = [copy EXCEPT ![h] = NoCopy]
  /\ UNCHANGED <<holder, counter, reg, queueVars, data, cached, historyVars, posts, admin>>

HandlerStep(h) ==
  \/ Post(h) \/ Lock(h) \/ Store(h) \/ Set(h) \/ Add(h) \/ Push(h)
  \/ Reset(h) \/ ResetQueue(h)
  \/ InitArrives(h) \/ InitReads(h) \/ InitWrites(h)
  \/ Report(h) \/ ReportProcessed(h) \/ Reported(h)

-----------------------------------------------------------------------------
(***************************************************************************)
(* The worker thread.                                                      *)
(***************************************************************************)

WorkerMoves(from, to) ==
  /\ wpc = from
  /\ wpc' = to
  /\ UNCHANGED <<mainVars, handlerVars, queueBase, torn, disturbed, boundVars>>

\* Mistake: the worker thread does not wait for a job.
TakeAnyway ==
  /\ WorkerMoves("wait", "load")
  /\ jobs' = jobs - 1
  /\ current_n' = (current_n - 1) % Modulus /\ listed' = listed - 1
  /\ UNCHANGED <<wreg, data, cached, happened, base>>

\* The next job: service_data_set_current_worker_trans.
Take ==
  /\ WorkerMoves("wait", "load")
  /\ jobs > 0 /\ jobs' = jobs - 1
  /\ current_n' = (current_n - 1) % Modulus /\ listed' = listed - 1
  /\ UNCHANGED <<wreg, data, cached, happened, base>>

\* service_data_update_processed_trans_count, without the mutex: load, ...
ProcessedLoad ==
  /\ WorkerMoves("load", "store")
  /\ wreg' = data["n_processed_trans"]
  /\ UNCHANGED <<queueVars, data, cached, happened, base>>

\* ... store, ...
ProcessedStore ==
  /\ WorkerMoves("store", "arg")
  /\ data' = [data EXCEPT !["n_processed_trans"] = wreg + 1]
  /\ happened' = [happened EXCEPT !["n_processed_trans"] = @ + 1]
  /\ wreg' = 0
  /\ UNCHANGED <<queueVars, cached, base>>

\* ... read again for credis_set_large, and write to Redis.
ProcessedRead ==
  /\ WorkerMoves("arg", "set")
  /\ wreg' = data["n_processed_trans"]
  /\ UNCHANGED <<queueVars, data, cached, happened, base>>

ProcessedSet ==
  /\ WorkerMoves("set", "wait")
  /\ cached' = [cached EXCEPT !["n_processed_trans"] = wreg]
  /\ wreg' = 0
  /\ UNCHANGED <<queueVars, data, happened, base>>

WorkerStep ==
  Take \/ ProcessedLoad \/ ProcessedStore \/ ProcessedRead \/ ProcessedSet

-----------------------------------------------------------------------------
(***************************************************************************)
(* The end of the process and the next start.                              *)
(***************************************************************************)

Crash ==
  /\ main # "down" /\ crashes < MaxCrashes
  /\ crashes' = crashes + 1
  /\ main' = "down" /\ toLoad' = 0
  /\ holder' = Nobody /\ pc' = [h \in Handlers |-> "idle"]
  /\ counter' = [h \in Handlers |-> "n_trans"] /\ reg' = [h \in Handlers |-> 0]
  /\ copy' = [h \in Handlers |-> NoCopy]
  /\ wpc' = "wait" /\ wreg' = 0 /\ jobs' = 0
  /\ data' = Zero /\ current_n' = 0 /\ base' = happened /\ queueBase' = 0
  /\ torn' = FALSE
  /\ UNCHANGED <<listed, cached, happened, disturbed, posts, admin>>

MainMoves(from, to) ==
  /\ main = from
  /\ main' = to
  /\ UNCHANGED <<handlerVars, workerVars, listed, cached, happened, queueBase, torn,
                 disturbed, boundVars>>

\* Mistake: two of the five arguments of service_data_restore_trans_count change
\* places.
StartSwapped ==
  /\ MainMoves("down", "load")
  /\ data' = [cached EXCEPT !["n_bad_trans"] = cached["n_good_trans"],
                            !["n_good_trans"] = cached["n_bad_trans"]]
  /\ base' = [c \in Counters |-> happened[c] - data'[c]]
  /\ toLoad' = listed
  /\ UNCHANGED <<jobs, current_n>>

\* backup_fetch_trans_counts, and the LRANGE of the transactions that wait.
Start ==
  /\ MainMoves("down", "load")
  /\ data' = cached
  /\ base' = [c \in Counters |-> happened[c] - cached[c]]
  /\ toLoad' = listed
  /\ UNCHANGED <<jobs, current_n>>

\* Mistake: the transaction is pushed and not counted.
LoadUncounted ==
  /\ MainMoves("load", "load")
  /\ toLoad > 0 /\ toLoad' = toLoad - 1
  /\ jobs' = jobs + 1
  /\ UNCHANGED <<data, base, current_n>>

\* worker_current_push_from_backup, for each of them: the worker thread runs, and
\* a push that fails is ignored.
Load ==
  /\ MainMoves("load", "load")
  /\ toLoad > 0 /\ toLoad' = toLoad - 1
  /\ current_n' = (current_n + 1) % Modulus /\ jobs' \in {jobs, jobs + 1}
  /\ UNCHANGED <<data, base>>

Serve ==
  /\ MainMoves("load", "up")
  /\ toLoad = 0
  /\ UNCHANGED <<toLoad, jobs, current_n, data, base>>

MainStep == Start \/ Load \/ Serve

-----------------------------------------------------------------------------

\* service_data_init at the first start of all: zeroed memory, zeroes in Redis.
Init ==
  /\ main = "up" /\ toLoad = 0
  /\ holder = Nobody /\ pc = [h \in Handlers |-> "idle"]
  /\ counter = [h \in Handlers |-> "n_trans"] /\ reg = [h \in Handlers |-> 0]
  /\ copy = [h \in Handlers |-> NoCopy]
  /\ wpc = "wait" /\ wreg = 0 /\ jobs = 0 /\ listed = 0
  /\ data = Zero /\ current_n = 0 /\ cached = Zero
  /\ happened = Zero /\ base = Zero /\ queueBase = 0
  /\ torn = FALSE /\ disturbed = FALSE
  /\ posts = 0 /\ admin = 0 /\ crashes = 0

Next ==
  \/ \E h \in Handlers : HandlerStep(h)
  \/ WorkerStep
  \/ MainStep
  \/ Crash

Spec == Init /\ [][Next]_vars

-----------------------------------------------------------------------------

\* The variables have the types of data.h, and no count of what waits is
\* negative.
TypeOK ==
  /\ main \in {"down", "load", "up"} /\ toLoad \in Nat
  /\ holder \in Handlers \cup {Nobody}
  /\ pc \in [Handlers -> HandlerPcs] /\ counter \in [Handlers -> Locked]
  /\ reg \in [Handlers -> Nat]
  /\ copy \in [Handlers -> [Counters -> Nat \cup {Unread}]]
  /\ wpc \in {"wait", "load", "store", "arg", "set"} /\ wreg \in Nat
  /\ jobs \in Nat /\ listed \in Nat
  /\ data \in [Counters -> Nat] /\ cached \in [Counters -> Nat]
  /\ current_n \in 0 .. Modulus - 1
  /\ happened \in [Counters -> Nat] /\ base \in [Counters -> Nat]
  /\ queueBase \in Nat /\ torn \in BOOLEAN /\ disturbed \in BOOLEAN
  /\ posts \in Nat /\ admin \in Nat /\ crashes \in Nat

\* No counter, in memory, in Redis or in a copy on the way from one to the
\* other, is ever more than what has happened: resets, inits, restarts and the
\* worker's unlocked increment can make a counter forget and never invent.
NeverMoreThanHappened ==
  \A c \in Counters :
    /\ data[c] <= happened[c] /\ cached[c] <= happened[c]
    /\ \A h \in Handlers : copy[h][c] <= happened[c]

\* A counter counts exactly what has happened since the last reset or restart,
\* with those that the restart has loaded.  n_processed_trans too, unless a
\* reset fell between the load and the store of the worker's unlocked increment.
CountersExact ==
  \A c \in Counters :
    c \in Locked \/ ~torn => data[c] = happened[c] - base[c]

\* current_n_trans_in_worker_queue is, in the arithmetic of a size_t, the length
\* of the list in Redis without those that were in it at the last reset, and
\* without those that a restart has still to load.  So it wraps below zero
\* after a reset while transactions wait, and at no other time, and a restart
\* puts it right.
QueueCountModular ==
  main # "down" => current_n = (listed - toLoad - queueBase) % Modulus

\* A report adds up: no more transactions are good or bad than there are, no
\* more good or processed than received.  It does so because the mutex is held
\* over all of it, although the worker thread does not take it.  A reset or an
\* init in the middle of a request ends this, for memory or from the next
\* restart on.
ReportAddsUp ==
  ~disturbed => \A h \in Handlers :
    pc[h] = "reported" =>
      /\ copy[h]["n_good_trans"] + copy[h]["n_bad_trans"] <= copy[h]["n_trans"]
      /\ copy[h]["n_good_trans"] <= copy[h]["n_received_trans"]
      /\ copy[h]["n_processed_trans"] <= copy[h]["n_received_trans"]

=============================================================================
