---------------------------- MODULE TransPipeline ----------------------------
(***************************************************************************)
(* The path of a transaction through the worker service.                   *)
(*                                                                         *)
(* A request handler thread (POST /api/transactions) takes a Transaction   *)
(* object out of the pool, fills it, inserts it into Mongo, appends its id *)
(* to the Redis list current_trans_in_worker_queue and pushes the object   *)
(* to the worker's job queue.  The worker thread pulls the object, removes *)
(* the id from the list, does the work, stores the result in Mongo and     *)
(* gives the object back to the pool.  When the process dies everything    *)
(* but Redis and Mongo is gone; service_init then rebuilds the queue from  *)
(* the list.                                                               *)
(*                                                                         *)
(* The service runs with CONNECT_TO_REDIS true.  Durations, the hash and   *)
(* the other fields of a transaction are abstracted: an object holds the   *)
(* id of its transaction, or NoTrans when it is zeroed.                    *)
(***************************************************************************)
EXTENDS Naturals, Integers, Sequences, FiniteSets, SequencesExt, FiniteSetsExt

CONSTANTS
  Handlers,     \* the threads of cerver's pool, each runs one request at a time
  Trans,        \* the ids that bson_oid_init may produce
  Slots,        \* the memory for Transaction objects
  NoTrans,      \* the id of a zeroed object; "0" in current_trans_in_worker_thread
  NoSlot,       \* the NULL Transaction pointer
  PoolInit,     \* DEFAULT_TRANS_POOL_INIT, the objects the pool starts with
  Deletable,    \* the transactions that clients delete
  Faults,       \* the calls that may fail: see AllFaults
  MaxRequests,  \* bound on the POST requests
  MaxCrashes    \* bound on the crashes that the environment causes

AllFaults == {"memory", "insert", "find", "push", "result"}

ASSUME NoTransAssumption == NoTrans \notin Trans
ASSUME NoSlotAssumption  == NoSlot \notin Slots
ASSUME BoundsAssumption  == MaxRequests \in Nat /\ MaxCrashes \in Nat
ASSUME FaultsAssumption  == Faults \subseteq AllFaults
ASSUME FiniteAssumption  == IsFiniteSet(Handlers) /\ IsFiniteSet(Slots)
ASSUME PoolAssumption    == PoolInit \in 0 .. Cardinality(Slots)
ASSUME DeleteAssumption  == Deletable \subseteq Trans

VARIABLES
  main,         \* where the main thread is: service_init, then serving
  reply,        \* the ids of the LRANGE reply that are still to be loaded
  bslot,        \* the object the main thread is loading
  pc,           \* pc[h]: where handler h is in service_trans_create
  slot,         \* slot[h]: the variable trans of service_trans_create
  wpc,          \* where the worker thread is in worker_handler_method
  wslot,        \* the object the worker thread works on
  queue,        \* the worker's job queue: pointers to Transaction objects
  mem,          \* mem[s]: the id stored in object s
  pool,         \* trans_pool
  heap,         \* the objects that have been allocated
  data,         \* service_data: the five transaction counters
  current_n,    \* service_data->current_n_trans_in_worker_queue
  cached,       \* Redis: the five transaction counters
  list,         \* Redis: current_trans_in_worker_queue
  cur,          \* Redis: current_trans_in_worker_thread
  db            \* Mongo: what is known of each transaction

\* History variables: no guard of an action reads them, except for the bound
\* on the crashes and the choice of an id that no other request has.
VARIABLES
  req,          \* req[h]: the id given to the request of handler h
  acked,        \* the transactions whose creation was answered with 200
  finished,     \* the transactions that the worker has completed
  interrupted,  \* the transactions that the worker held when the process died
  uncounted,    \* requests in n_trans that ended neither good nor bad
  lostJob,      \* a counted transaction did not get a job since the last start
  crashes       \* the crashes so far

mainVars    == <<main, reply, bslot>>
handlerVars == <<pc, slot, req>>
workerVars  == <<wpc, wslot, queue>>
poolVars    == <<mem, pool, heap>>
countVars   == <<data, cached>>
historyVars == <<acked, finished, interrupted, uncounted, lostJob, crashes>>

vars == <<mainVars, handlerVars, workerVars, poolVars, countVars, current_n,
          list, cur, db, historyVars>>

Counters == {"n_trans", "n_bad_trans", "n_good_trans",
             "n_received_trans", "n_processed_trans"}

MainPcs    == {"down", "lookup", "count", "push", "up"}
HandlerPcs == {"idle", "get", "parse", "insert", "receive", "add", "push",
               "good", "respond", "bad", "return"}
WorkerPcs  == {"wait", "set", "key", "work", "processed", "result", "return"}

\* The handler owns its object: from pool_pop to worker_push_job or pool_push.
Holding == {"parse", "insert", "receive", "add", "push", "bad", "return"}

\* The request is in n_trans and not yet in n_good_trans or n_bad_trans.
Undecided == {"get", "parse", "insert", "receive", "add", "push", "good", "bad"}

\* The worker has removed the id from the list and not yet stored the result.
Processing == {"key", "work", "processed", "result"}

-----------------------------------------------------------------------------
(***************************************************************************)
(* The pool of Transaction objects, and the counters of service_data.      *)
(***************************************************************************)

\* pool_pop: an object of the pool or, when it is empty, a new one.
PoolPop(s) ==
  \/ s \in pool /\ pool' = pool \ {s} /\ UNCHANGED heap
  \/ pool = {} /\ s \in Slots \ heap /\ heap' = heap \cup {s} /\ UNCHANGED pool

\* pool_pop gives NULL: the pool is empty and transaction_new fails.
PoolFails == pool = {} /\ (heap = Slots \/ "memory" \in Faults)

\* service_trans_return: the object is zeroed, then put into the pool.
TransReturn(s) ==
  /\ mem' = [mem EXCEPT ![s] = NoTrans]
  /\ pool' = pool \cup {s}
  /\ UNCHANGED heap

\* The counter and its key in Redis change together, under trans_count_mutex
\* (n_processed_trans: without it, but only the worker thread changes it).
Count(c) ==
  /\ data' = [data EXCEPT ![c] = @ + 1]
  /\ cached' = [cached EXCEPT ![c] = data[c] + 1]

-----------------------------------------------------------------------------
(***************************************************************************)
(* Request handlers: service_trans_create, one step per lock, Mongo or     *)
(* queue operation.                                                        *)
(***************************************************************************)

\* What no step of a handler changes.
HandlerMoves(h, from, to) ==
  /\ pc[h] = from
  /\ pc' = [pc EXCEPT ![h] = to]
  /\ UNCHANGED <<mainVars, wpc, wslot, cur, finished, interrupted, crashes>>

\* A POST request arrives: service_data_update_trans_count.
Create(h) ==
  /\ main = "up"
  /\ data["n_trans"] < MaxRequests
  /\ HandlerMoves(h, "idle", "get")
  /\ Count("n_trans")
  /\ UNCHANGED <<slot, req, queue, poolVars, current_n, list, db, acked,
                 uncounted, lostJob>>

\* service_trans_get.  Without an object the request fails, and no counter
\* but n_trans knows of it.
Get(h) ==
  /\ HandlerMoves(h, "get", "parse")
  /\ \E s \in Slots : PoolPop(s) /\ slot' = [slot EXCEPT ![h] = s]
  /\ UNCHANGED <<req, queue, mem, countVars, current_n, list, db, acked,
                 uncounted, lostJob>>

GetFails(h) ==
  /\ HandlerMoves(h, "get", "idle")
  /\ PoolFails
  /\ uncounted' = uncounted + 1
  /\ UNCHANGED <<slot, req, queue, poolVars, countVars, current_n, list, db,
                 acked, lostJob>>

\* Mistake: the new oid is not written into trans->id.
ParseWithoutId(h) ==
  /\ HandlerMoves(h, "parse", "insert")
  /\ \E t \in Trans :
       /\ db[t] = "absent" /\ \A k \in Handlers : req[k] # t
       /\ req' = [req EXCEPT ![h] = t]
  /\ UNCHANGED <<slot, queue, poolVars, countVars, current_n, list, db, acked,
                 uncounted, lostJob>>

\* A body with a title: service_trans_create_actual gives the object a new id.
Parse(h) ==
  /\ HandlerMoves(h, "parse", "insert")
  /\ \E t \in Trans :
       /\ db[t] = "absent" /\ \A k \in Handlers : req[k] # t
       /\ mem' = [mem EXCEPT ![slot[h]] = t]
       /\ req' = [req EXCEPT ![h] = t]
  /\ UNCHANGED <<slot, queue, pool, heap, countVars, current_n, list, db, acked,
                 uncounted, lostJob>>

\* No body, a body that is not JSON, or one without a title.
ParseFails(h) ==
  /\ HandlerMoves(h, "parse", "bad")
  /\ UNCHANGED <<slot, req, queue, poolVars, countVars, current_n, list, db,
                 acked, uncounted, lostJob>>

\* transaction_insert_one.
Insert(h) ==
  /\ HandlerMoves(h, "insert", "receive")
  /\ db' = [db EXCEPT ![mem[slot[h]]] = "stored"]
  /\ UNCHANGED <<slot, req, queue, poolVars, countVars, current_n, list, acked,
                 uncounted, lostJob>>

\* Mistake: a failed insert is not counted as a bad transaction.
InsertFailsUncounted(h) ==
  /\ "insert" \in Faults
  /\ HandlerMoves(h, "insert", "return")
  /\ UNCHANGED <<slot, req, queue, poolVars, countVars, current_n, list, db,
                 acked, uncounted, lostJob>>

InsertFails(h) ==
  /\ "insert" \in Faults
  /\ HandlerMoves(h, "insert", "bad")
  /\ UNCHANGED <<slot, req, queue, poolVars, countVars, current_n, list, db,
                 acked, uncounted, lostJob>>

\* worker_current_push: service_data_update_received_trans_count ...
Receive(h) ==
  /\ HandlerMoves(h, "receive", "add")
  /\ Count("n_received_trans")
  /\ UNCHANGED <<slot, req, queue, poolVars, current_n, list, db, acked,
                 uncounted, lostJob>>

\* Mistake: the count alone, as worker_current_push_from_backup does.
AddCountOnly(h) ==
  /\ HandlerMoves(h, "add", "push")
  /\ current_n' = current_n + 1
  /\ UNCHANGED <<slot, req, queue, poolVars, countVars, list, db, acked,
                 uncounted, lostJob>>

\* ... then service_data_add_to_current_trans_in_worker_queue, under
\* worker_trans_mutex ...
AddToQueue(h) ==
  /\ HandlerMoves(h, "add", "push")
  /\ current_n' = current_n + 1
  /\ list' = Append(list, mem[slot[h]])
  /\ UNCHANGED <<slot, req, queue, poolVars, countVars, db, acked, uncounted,
                 lostJob>>

\* ... then worker_push_job.  Its failure is ignored by the caller.
PushJob(s) ==
  \/ queue' = Append(queue, s) /\ UNCHANGED lostJob
  \/ "push" \in Faults /\ lostJob' = TRUE /\ UNCHANGED queue

\* Mistake: the handler gives the object back after the push.
PushThenReturn(h) ==
  /\ HandlerMoves(h, "push", "return")
  /\ PushJob(slot[h])
  /\ UNCHANGED <<slot, req, poolVars, countVars, current_n, list, db, acked,
                 uncounted>>

Push(h) ==
  /\ HandlerMoves(h, "push", "good")
  /\ PushJob(slot[h])
  /\ UNCHANGED <<slot, req, poolVars, countVars, current_n, list, db, acked,
                 uncounted>>

\* service_data_update_good_trans_count.
Good(h) ==
  /\ HandlerMoves(h, "good", "respond")
  /\ Count("n_good_trans")
  /\ UNCHANGED <<slot, req, queue, poolVars, current_n, list, db, acked,
                 uncounted, lostJob>>

\* service_transaction_create_handler answers 200.
Respond(h) ==
  /\ HandlerMoves(h, "respond", "idle")
  /\ acked' = acked \cup {req[h]}
  /\ slot' = [slot EXCEPT ![h] = NoSlot]
  /\ req' = [req EXCEPT ![h] = NoTrans]
  /\ UNCHANGED <<queue, poolVars, countVars, current_n, list, db, uncounted,
                 lostJob>>

\* Mistake: the error path forgets service_trans_return.
BadKeepsObject(h) ==
  /\ HandlerMoves(h, "bad", "idle")
  /\ Count("n_bad_trans")
  /\ slot' = [slot EXCEPT ![h] = NoSlot]
  /\ req' = [req EXCEPT ![h] = NoTrans]
  /\ UNCHANGED <<queue, poolVars, current_n, list, db, acked, uncounted, lostJob>>

\* service_data_update_bad_trans_count.
Bad(h) ==
  /\ HandlerMoves(h, "bad", "return")
  /\ Count("n_bad_trans")
  /\ UNCHANGED <<slot, req, queue, poolVars, current_n, list, db, acked,
                 uncounted, lostJob>>

\* service_trans_return on the error path, and the error response.
Return(h) ==
  /\ HandlerMoves(h, "return", "idle")
  /\ TransReturn(slot[h])
  /\ slot' = [slot EXCEPT ![h] = NoSlot]
  /\ req' = [req EXCEPT ![h] = NoTrans]
  /\ UNCHANGED <<queue, countVars, current_n, list, db, acked, uncounted, lostJob>>

\* DELETE /api/transactions/:id/remove: one Mongo operation.  The list and the
\* job queue are left alone.
Delete(t) ==
  /\ main = "up"
  /\ \E h \in Handlers : pc[h] = "idle"
  /\ t \in Deletable /\ db[t] \in {"stored", "done"}
  /\ db' = [db EXCEPT ![t] = "deleted"]
  /\ UNCHANGED <<mainVars, handlerVars, workerVars, poolVars, countVars, current_n,
                 list, cur, historyVars>>

HandlerStep(h) ==
  \/ Get(h) \/ GetFails(h) \/ Parse(h) \/ ParseFails(h) \/ Insert(h)
  \/ InsertFails(h) \/ Receive(h) \/ AddToQueue(h) \/ Push(h) \/ Good(h)
  \/ Respond(h) \/ Bad(h) \/ Return(h)

-----------------------------------------------------------------------------
(***************************************************************************)
(* The worker thread: cerver's loop around worker_handler_method.          *)
(***************************************************************************)

\* What no step of the worker thread changes.
WorkerMoves(from, to) ==
  /\ wpc = from
  /\ wpc' = to
  /\ UNCHANGED <<mainVars, handlerVars, acked, interrupted, uncounted, lostJob,
                 crashes>>

\* cerver takes the oldest job and calls the handler method with its object.
Pull ==
  /\ WorkerMoves("wait", "set")
  /\ queue # <<>>
  /\ wslot' = Head(queue)
  /\ queue' = Tail(queue)
  /\ UNCHANGED <<poolVars, countVars, current_n, list, cur, db, finished>>

\* Mistake: the id stays in the list until the work is done, or for ever.
SetCurrentKeeps ==
  /\ WorkerMoves("set", "key")
  /\ wslot # NoSlot
  /\ current_n' = current_n - 1
  /\ UNCHANGED <<wslot, queue, poolVars, countVars, list, cur, db, finished>>

\* Mistake: LPOP in the place of LREM.
SetCurrentPops ==
  /\ WorkerMoves("set", "key")
  /\ wslot # NoSlot
  /\ current_n' = current_n - 1
  /\ list' = Tail(list)
  /\ UNCHANGED <<wslot, queue, poolVars, countVars, cur, db, finished>>

\* service_data_set_current_worker_trans: the count and the list ...
SetCurrent ==
  /\ WorkerMoves("set", "key")
  /\ wslot # NoSlot
  /\ current_n' = current_n - 1
  /\ list' = RemoveFirst(list, mem[wslot])
  /\ UNCHANGED <<wslot, queue, poolVars, countVars, cur, db, finished>>

\* ... and the key that names the transaction in work.
SetKey ==
  /\ WorkerMoves("key", "work")
  /\ cur' = mem[wslot]
  /\ UNCHANGED <<wslot, queue, poolVars, countVars, current_n, list, db, finished>>

\* Mistake: the key is left as it is.
WorkKeepsKey ==
  /\ WorkerMoves("work", "processed")
  /\ UNCHANGED <<wslot, queue, poolVars, countVars, current_n, list, cur, db,
                 finished>>

\* The work itself, then service_data_clean_current_worker_trans.
Work ==
  /\ WorkerMoves("work", "processed")
  /\ cur' = NoTrans
  /\ UNCHANGED <<wslot, queue, poolVars, countVars, current_n, list, db, finished>>

\* service_data_update_processed_trans_count.
Processed ==
  /\ WorkerMoves("processed", "result")
  /\ Count("n_processed_trans")
  /\ UNCHANGED <<wslot, queue, poolVars, current_n, list, cur, db, finished>>

\* transaction_update_result: no document matches when it has been deleted,
\* and the handler ignores a failure.
Result ==
  /\ WorkerMoves("result", "return")
  /\ LET t == mem[wslot]
     IN  /\ \/ db' = [db EXCEPT ![t] = IF @ = "stored" THEN "done" ELSE @]
            \/ "result" \in Faults /\ UNCHANGED db
         /\ finished' = finished \cup {t}
  /\ UNCHANGED <<wslot, queue, poolVars, countVars, current_n, list, cur>>

\* cerver hands the object to delete_data, which is service_trans_return.
GiveBack ==
  /\ WorkerMoves("return", "wait")
  /\ TransReturn(wslot)
  /\ wslot' = NoSlot
  /\ UNCHANGED <<queue, countVars, current_n, list, cur, db, finished>>

WorkerStep ==
  Pull \/ SetCurrent \/ SetKey \/ Work \/ Processed \/ Result \/ GiveBack

-----------------------------------------------------------------------------
(***************************************************************************)
(* The main thread: service_init loads the counters and the queue from     *)
(* Redis, with the worker thread already running, before cerver serves.    *)
(***************************************************************************)

MainMoves(from, to) ==
  /\ main = from
  /\ main' = to
  /\ UNCHANGED <<handlerVars, wpc, wslot, cached, list, cur, db, acked, finished,
                 interrupted, uncounted, crashes>>

\* Mistake: the list is not loaded, as current_trans_in_worker_thread is not.
StartWithoutList ==
  /\ MainMoves("down", "lookup")
  /\ heap' \in kSubset(PoolInit, Slots) /\ pool' = heap'
  /\ data' = cached
  /\ reply' = <<>>
  /\ UNCHANGED <<bslot, queue, mem, current_n, lostJob>>

\* service_init up to the first element of the LRANGE reply: the handler and
\* worker variables are those of a new process (see ProcessDies).
Start ==
  /\ MainMoves("down", "lookup")
  /\ heap' \in kSubset(PoolInit, Slots) /\ pool' = heap'
  /\ data' = cached
  /\ reply' = list
  /\ UNCHANGED <<bslot, queue, mem, current_n, lostJob>>

\* service_trans_get_by_id: an object that holds the transaction ...
Lookup ==
  /\ MainMoves("lookup", "count")
  /\ reply # <<>>
  /\ db[Head(reply)] \in {"stored", "done"}
  /\ \E s \in Slots :
       /\ PoolPop(s)
       /\ mem' = [mem EXCEPT ![s] = Head(reply)]
       /\ bslot' = s
  /\ UNCHANGED <<reply, queue, data, current_n, lostJob>>

\* ... or NULL, when there is no object for it, no document or no answer.  The
\* object that was taken for it is back in the pool.
LookupFails ==
  /\ MainMoves("lookup", "count")
  /\ reply # <<>>
  /\ \/ PoolFails /\ UNCHANGED <<mem, pool, heap>>
     \/ /\ db[Head(reply)] = "deleted" \/ "find" \in Faults
        /\ \E s \in Slots :
             /\ s \in pool \/ (pool = {} /\ s \in Slots \ heap)
             /\ heap' = heap \cup {s}
             /\ pool' = pool \cup {s}
             /\ mem' = [mem EXCEPT ![s] = NoTrans]
  /\ bslot' = NoSlot
  /\ UNCHANGED <<reply, queue, data, current_n, lostJob>>

\* Mistake: service_data_add_to_current_trans_in_worker_queue is called again.
CountAndListFromBackup ==
  /\ main = "count" /\ main' = "push"
  /\ current_n' = current_n + 1
  /\ list' = Append(list, Head(reply))
  /\ UNCHANGED <<reply, bslot, queue, handlerVars, wpc, wslot, poolVars, countVars,
                 cur, db, historyVars>>

\* Mistake: the restored count is trusted, and not rebuilt.
CountNothingFromBackup ==
  /\ MainMoves("count", "push")
  /\ UNCHANGED <<reply, bslot, queue, poolVars, data, current_n, lostJob>>

\* worker_current_push_from_backup: the count ...
CountFromBackup ==
  /\ MainMoves("count", "push")
  /\ current_n' = current_n + 1
  /\ UNCHANGED <<reply, bslot, queue, poolVars, data, lostJob>>

\* ... and the push.  What worker_push_job does with NULL is not known from
\* the callers: it may refuse it, or queue a job without a transaction.
PushFromBackup ==
  /\ MainMoves("push", "lookup")
  /\ \/ bslot # NoSlot /\ PushJob(bslot)
     \/ /\ bslot = NoSlot
        /\ queue' = Append(queue, NoSlot) \/ UNCHANGED queue
        /\ lostJob' = TRUE
  /\ reply' = Tail(reply)
  /\ bslot' = NoSlot
  /\ UNCHANGED <<poolVars, data, current_n>>

\* The list is loaded: service_init returns and cerver_start serves.
Serve ==
  /\ MainMoves("lookup", "up")
  /\ reply = <<>>
  /\ UNCHANGED <<reply, bslot, queue, poolVars, data, current_n, lostJob>>

MainStep ==
  Start \/ Lookup \/ LookupFails \/ CountFromBackup \/ PushFromBackup \/ Serve

-----------------------------------------------------------------------------
(***************************************************************************)
(* The end of the process: Redis and Mongo stay as they are.               *)
(***************************************************************************)

ProcessDies ==
  /\ main # "down"
  /\ main' = "down" /\ reply' = <<>> /\ bslot' = NoSlot
  /\ pc' = [h \in Handlers |-> "idle"]
  /\ slot' = [h \in Handlers |-> NoSlot]
  /\ req' = [h \in Handlers |-> NoTrans]
  /\ wpc' = "wait" /\ wslot' = NoSlot /\ queue' = <<>>
  /\ mem' = [s \in Slots |-> NoTrans] /\ pool' = {} /\ heap' = {}
  /\ data' = [c \in Counters |-> 0] /\ current_n' = 0
  /\ interrupted' = IF wpc \in Processing THEN interrupted \cup {mem[wslot]}
                                          ELSE interrupted
  /\ uncounted' = uncounted + Cardinality({h \in Handlers : pc[h] \in Undecided})
  /\ lostJob' = FALSE
  /\ UNCHANGED <<cached, list, cur, db, acked, finished>>

Crash ==
  /\ crashes < MaxCrashes
  /\ crashes' = crashes + 1
  /\ ProcessDies

\* worker_handler_method reads trans->id through the NULL pointer of a job.
NullJob ==
  /\ wpc = "set" /\ wslot = NoSlot
  /\ ProcessDies
  /\ UNCHANGED crashes

-----------------------------------------------------------------------------

\* The first start of the service has ended: FIRST_TIME was true, the default
\* values are in Redis, and nothing has been posted.
Init ==
  /\ main = "up" /\ reply = <<>> /\ bslot = NoSlot
  /\ pc = [h \in Handlers |-> "idle"]
  /\ slot = [h \in Handlers |-> NoSlot]
  /\ req = [h \in Handlers |-> NoTrans]
  /\ wpc = "wait" /\ wslot = NoSlot /\ queue = <<>>
  /\ mem = [s \in Slots |-> NoTrans]
  /\ heap \in kSubset(PoolInit, Slots) /\ pool = heap
  /\ data = [c \in Counters |-> 0] /\ cached = data /\ current_n = 0
  /\ list = <<>> /\ cur = NoTrans
  /\ db = [t \in Trans |-> "absent"]
  /\ acked = {} /\ finished = {} /\ interrupted = {}
  /\ uncounted = 0 /\ lostJob = FALSE /\ crashes = 0

Next ==
  \/ \E h \in Handlers : Create(h) \/ HandlerStep(h)
  \/ \E t \in Trans : Delete(t)
  \/ WorkerStep
  \/ MainStep
  \/ Crash
  \/ NullJob

Spec == Init /\ [][Next]_vars

-----------------------------------------------------------------------------
(***************************************************************************)
(* Who has an object.                                                      *)
(***************************************************************************)

HandlerHeld == {slot[h] : h \in {k \in Handlers : pc[k] \in Holding}}
Queued      == ToSet(queue) \ {NoSlot}
WorkerHeld  == {wslot} \ {NoSlot}
MainHeld    == {bslot} \ {NoSlot}

InUse == HandlerHeld \cup Queued \cup WorkerHeld \cup MainHeld

\* Every variable has the type that the declarations in data.h, transaction.h
\* and worker.h give it, what is pooled has been allocated, and what is in the
\* Redis list is the id of a transaction.
TypeOK ==
  /\ main \in MainPcs /\ reply \in Seq(Trans) /\ bslot \in Slots \cup {NoSlot}
  /\ pc \in [Handlers -> HandlerPcs]
  /\ slot \in [Handlers -> Slots \cup {NoSlot}]
  /\ req \in [Handlers -> Trans \cup {NoTrans}]
  /\ wpc \in WorkerPcs /\ wslot \in Slots \cup {NoSlot}
  /\ queue \in Seq(Slots \cup {NoSlot})
  /\ mem \in [Slots -> Trans \cup {NoTrans}]
  /\ heap \in SUBSET Slots /\ pool \in SUBSET heap
  /\ data \in [Counters -> Nat] /\ cached \in [Counters -> Nat]
  /\ current_n \in Int
  /\ list \in Seq(Trans) /\ cur \in Trans \cup {NoTrans}
  /\ db \in [Trans -> {"absent", "stored", "done", "deleted"}]
  /\ acked \in SUBSET Trans /\ finished \in SUBSET Trans
  /\ interrupted \in SUBSET Trans
  /\ uncounted \in Nat /\ lostJob \in BOOLEAN /\ crashes \in Nat

\* A Transaction object has one owner: the pool, the handler that fills it, the
\* job queue, the worker thread or the main thread that loads it.  Nothing but
\* this protects the object: transaction.h has no lock and no reference count.
OneOwner ==
  /\ \A h, k \in Handlers :
       pc[h] \in Holding /\ pc[k] \in Holding /\ slot[h] = slot[k] => h = k
  /\ \A i, j \in DOMAIN queue : queue[i] = queue[j] /\ queue[i] # NoSlot => i = j
  /\ pool \cap InUse = {}
  /\ HandlerHeld \cap (Queued \cup WorkerHeld \cup MainHeld) = {}
  /\ Queued \cap (WorkerHeld \cup MainHeld) = {}
  /\ WorkerHeld \cap MainHeld = {}

\* No object is forgotten: every error path of service_trans_create and of
\* service_trans_get_by_id, and cerver's delete_data, brings it back to the
\* pool.  Only a push that fails (worker.c:130, its result is ignored) leaks.
NoLeak == ~lostJob => heap = pool \cup InUse

\* A transaction in the volatile job queue is in the Redis list, so that a
\* crash at any point brings it back: the RPUSH precedes worker_push_job, and
\* LREM follows the pull.
QueueIsDurable ==
  \A i \in DOMAIN queue : queue[i] # NoSlot => mem[queue[i]] \in ToSet(list)

\* A transaction in the Redis list has, or is about to get, its job: it is
\* still in the reply of LRANGE, its handler is between the RPUSH and the push,
\* it is in the job queue, or the worker has pulled it and not yet removed it.
NoOrphan ==
  main # "down" /\ ~lostJob =>
    \A t \in ToSet(list) :
      \/ t \in ToSet(reply)
      \/ \E h \in Handlers : pc[h] = "push" /\ mem[slot[h]] = t
      \/ \E s \in Queued : mem[s] = t
      \/ wpc = "set" /\ mem[wslot] = t

\* current_n_trans_in_worker_queue counts the jobs, the pushes that are under
\* way and the pull that is not yet subtracted.  So the subtraction in
\* service_data_set_current_worker_trans never wraps a size_t that is zero.
QueueCountExact ==
  ~lostJob =>
    current_n = Len(queue)
                  + Cardinality({h \in Handlers : pc[h] = "push"})
                  + (IF main = "push" THEN 1 ELSE 0)
                  + (IF wpc = "set" THEN 1 ELSE 0)

\* Every request in n_trans is in n_good_trans or in n_bad_trans, except for
\* those whose handler has not decided yet, that died with the process, or that
\* found no object.  It holds of the values in Redis, and of those in memory
\* from the time the counts are loaded.
RequestAccounting ==
  /\ cached["n_trans"] = cached["n_good_trans"] + cached["n_bad_trans"]
       + Cardinality({h \in Handlers : pc[h] \in Undecided}) + uncounted
  /\ main # "down" => data = cached

\* n_processed_trans never passes n_received_trans, across restarts too: no
\* transaction is processed twice and none is processed that was not received.
ProcessedWithinReceived ==
  cached["n_processed_trans"] <= cached["n_received_trans"]

\* No transaction is worked on again once it is finished or was interrupted: it
\* is not in the list, in which a transaction is at most once, nor in the queue.
NoRework ==
  /\ \A i, j \in DOMAIN list : list[i] = list[j] => i = j
  /\ \A i, j \in DOMAIN queue :
       queue[i] # NoSlot /\ queue[j] # NoSlot /\ mem[queue[i]] = mem[queue[j]] => i = j
  /\ (ToSet(list) \cup {mem[s] : s \in Queued}) \cap (finished \cup interrupted) = {}
  /\ finished \cap interrupted = {}

\* A transaction that was answered with 200 is finished, is in the list, is in
\* the worker's hands, or was there when the process died.
AckedNotLost ==
  \A t \in acked :
    \/ t \in finished \cup ToSet(list) \cup interrupted
    \/ wpc \in Processing /\ mem[wslot] = t

\* current_trans_in_worker_thread, the one trace of an interrupted transaction,
\* names the transaction in work or an interrupted one, never a finished one.
KeyNamesUnfinished ==
  cur # NoTrans =>
    cur \in interrupted \/ (wpc = "work" /\ mem[wslot] = cur)

\* The service implements the abstract queue.  The list is what is pending.
Abstract ==
  INSTANCE WorkQueue WITH
    None    <- NoTrans,
    pending <- ToSet(list),
    current <- IF wpc \in Processing THEN mem[wslot] ELSE NoTrans,
    lost    <- interrupted

ImplementsWorkQueue == Abstract!Spec

-----------------------------------------------------------------------------
(***************************************************************************)
(* What comments in the code say, and the code does not do.                *)
(***************************************************************************)

\* backup.c:315, "get the trans that was being processed": what the service
\* answered for is still known to it after a crash.
AckedSurvives ==
  \A t \in acked :
    \/ t \in finished \cup ToSet(list)
    \/ wpc \in Processing /\ mem[wslot] = t

\* data.c:440, "a new trans has been inserted into the worker's queue / adds
\* one": when no thread is between the two, the count is the number of
\* transactions in the worker's queue.
QueueCountsTransactions ==
  main = "up" /\ wpc = "wait" /\ (\A h \in Handlers : pc[h] = "idle") =>
    current_n = Cardinality({i \in DOMAIN queue : queue[i] # NoSlot})

=============================================================================
