------------------------------ MODULE TimeStats ------------------------------
(***************************************************************************)
(* The statistics of the worker's times.                                   *)
(*                                                                         *)
(* service_data keeps three of them, alike but for their names: how long   *)
(* transactions waited in the queue, how long the work took, how long all  *)
(* of it took.  This module models one.  The worker thread adds a duration *)
(* under the mutex of the statistic and writes all fields to Redis with    *)
(* one MSET; data/reset changes memory under the mutex; data/init writes   *)
(* memory to Redis without it.  When the service starts the main thread    *)
(* first pushes the listed transactions to the worker and then loads the   *)
(* statistic, field after field and without the mutex.                     *)
(*                                                                         *)
(* A duration is a number of ticks.  Redis keeps six decimals of a second, *)
(* which are Unit ticks.                                                   *)
(***************************************************************************)
EXTENDS Integers, Sequences

CONSTANTS
  Handlers,       \* the threads of cerver's pool
  Waiting,        \* TRUE: the statistic of the waiting times
  Durations,      \* how long the work may take, when Waiting is FALSE
  DataMax,        \* SERVICE_DATA_MAX, in ticks
  Unit,           \* the ticks of what %f prints as 0.000001
  Admin,          \* the requests made of the statistic: "init" and "reset"
  StartTime,      \* the time at which the service started for the first time
  MaxJobs,        \* bound on the transactions
  MaxCrashes,     \* bound on the crashes
  MaxAdmin,       \* bound on the requests of Admin
  MaxTime         \* bound on the clock

ASSUME WaitingAssumption   == Waiting \in BOOLEAN
ASSUME DurationsAssumption == Durations \subseteq Nat
ASSUME UnitAssumption      == Unit \in Nat \ {0} /\ DataMax \in Nat /\ DataMax % Unit = 0
ASSUME AdminAssumption     == Admin \subseteq {"init", "reset"}
ASSUME BoundsAssumption    ==
  {StartTime, MaxJobs, MaxCrashes, MaxAdmin, MaxTime} \subseteq Nat

VARIABLES
  main,      \* where the main thread is in service_init
  mfield,    \* the index of the field that the main thread restores
  reply,     \* the reply of the MGET
  stopped,   \* the worker was stopped before the service went down
  wpc,       \* where the worker thread is in worker_handler_method
  wfield,    \* the index of the field that the worker thread updates
  reg,       \* the value that the worker thread has loaded from that field
  v,         \* the duration that the worker thread adds
  st,        \* the statistic in service_data
  cached,    \* the statistic in Redis
  queue,     \* worker_time of the transactions in the job queue
  listed,    \* the length of current_trans_in_worker_queue in Redis
  snap,      \* snap[h]: the fields that handler h has read for its MSET
  now        \* the clock

\* History variables.
VARIABLES
  measured,  \* n, min, max and sum of the durations that were measured
  truth,     \* the same of those that are in Redis, by the MSET of the worker
  restarts,  \* the times the statistic was loaded from Redis
  raced,     \* a restart has found the worker available
  jobs,      \* the transactions so far
  admin,     \* the requests of Admin so far
  crashes    \* the crashes so far

mainVars    == <<main, mfield, reply, stopped>>
workerVars  == <<wpc, wfield, reg, v>>
queueVars   == <<queue, listed>>
historyVars == <<measured, truth, restarts, raced, jobs, admin, crashes>>

vars == <<mainVars, workerVars, queueVars, historyVars, st, cached, snap, now>>

\* The fields in the order of the declarations and of all the code.
Fields == <<"n", "min", "max", "sum", "avg">>
FieldNames == {Fields[i] : i \in DOMAIN Fields}

\* The values of service_data_create and of a reset.  The average is the pair of
\* the numbers it is the quotient of.
Zero == [n |-> 0, min |-> DataMax, max |-> 0, sum |-> 0, avg |-> <<0, 0>>]

\* A handler has read no field.
Nothing == [f \in {} |-> 0]

\* printf's %f, for a duration: the nearest multiple of Unit.
Decimal(d) == ((2 * d + Unit) \div (2 * Unit)) * Unit

\* %lu for n, %f for the durations.  The decimals of an average are not told
\* apart: it is computed anew from sum and n before it is used.
Printed(s) == [n   |-> s.n,            min |-> Decimal(s.min), max |-> Decimal(s.max),
               sum |-> Decimal(s.sum), avg |-> s.avg]

Lower(a, b)  == IF a < b THEN a ELSE b
Higher(a, b) == IF a > b THEN a ELSE b

\* The duration d among those that t counts.
Add(t, d) == [n   |-> t.n + 1,          min |-> Lower(d, t.min),
              max |-> Higher(d, t.max), sum |-> t.sum + d]

-----------------------------------------------------------------------------
(***************************************************************************)
(* Transactions arrive and the worker thread takes them.                   *)
(***************************************************************************)

\* worker_current_push: worker_time is the time of the push.
Post ==
  /\ main = "up" /\ jobs < MaxJobs
  /\ jobs' = jobs + 1
  /\ queue' = Append(queue, now) /\ listed' = listed + 1
  /\ UNCHANGED <<mainVars, workerVars, st, cached, snap, now, measured, truth,
                 restarts, raced, admin, crashes>>

\* Time passes between the push of a transaction and its work.
Tick ==
  /\ Waiting /\ now < MaxTime
  /\ now' = now + 1
  /\ UNCHANGED <<mainVars, workerVars, queueVars, historyVars, st, cached, snap>>

WorkerMoves(from, to) ==
  /\ wpc = from
  /\ wpc' = to
  /\ UNCHANGED <<mainVars, snap, now, restarts, raced, jobs, admin, crashes>>

\* worker_handler_method has measured a duration.  One of zero is not added.
Measure ==
  /\ queue # <<>>
  /\ stopped => main = "up"
  /\ queue' = Tail(queue) /\ listed' = listed - 1
  /\ \E d \in IF Waiting THEN {now - Head(queue)} ELSE Durations :
       \/ d = 0 /\ WorkerMoves("wait", "wait") /\ UNCHANGED <<wfield, v, measured>>
       \/ /\ d > 0 /\ WorkerMoves("wait", "load")
          /\ v' = d /\ wfield' = 1 /\ measured' = Add(measured, d)
  /\ UNCHANGED <<reg, st, cached, truth>>

\* What the worker thread makes of the value of a field.
Updated(f, old) ==
  CASE f = "n"   -> old + 1
    [] f = "min" -> Lower(v, old)
    [] f = "max" -> Higher(v, old)
    [] f = "sum" -> old + v
    [] f = "avg" -> <<st.sum, st.n>>

\* service_data_update_waiting_time, _process_time and _complete_time, between
\* lock and unlock: each field is loaded and stored ...
Load ==
  /\ WorkerMoves("load", "store")
  /\ reg' = st[Fields[wfield]]
  /\ UNCHANGED <<wfield, v, queueVars, st, cached, measured, truth>>

StoreField ==
  /\ wpc = "store"
  /\ LET f == Fields[wfield] IN st' = [st EXCEPT ![f] = Updated(f, reg)]
  /\ IF wfield < Len(Fields)
       THEN WorkerMoves("store", "load") /\ wfield' = wfield + 1
       ELSE WorkerMoves("store", "mset") /\ UNCHANGED wfield
  /\ reg' = 0
  /\ UNCHANGED <<v, queueVars, cached, measured, truth>>

\* ... and then all of them go to Redis.
MSet ==
  /\ WorkerMoves("mset", "wait")
  /\ cached' = Printed(st)
  /\ truth' = Add(truth, v)
  /\ v' = 0 /\ wfield' = 0
  /\ UNCHANGED <<reg, queueVars, st, measured>>

WorkerStep == Measure \/ Load \/ StoreField \/ MSet

-----------------------------------------------------------------------------
(***************************************************************************)
(* The requests data/reset and data/init.                                  *)
(***************************************************************************)

Arrives(kind) ==
  /\ main = "up" /\ kind \in Admin
  /\ admin < MaxAdmin /\ admin' = admin + 1
  /\ UNCHANGED <<mainVars, workerVars, queueVars, now, measured, truth,
                 restarts, raced, jobs, crashes>>

\* Mistake: the reset does not wait for the mutex.
ResetUnlocked ==
  /\ Arrives("reset")
  /\ st' = Zero
  /\ UNCHANGED <<cached, snap>>

\* service_data_reset_waiting_time, _process_time and _complete_time: memory
\* only, under the mutex.
Reset ==
  /\ Arrives("reset")
  /\ wpc = "wait"
  /\ st' = Zero
  /\ UNCHANGED <<cached, snap>>

\* service_data_init_waiting_time, _process_time and _complete_time read the
\* fields without the mutex, in an order that C leaves open ...
InitReads(h) ==
  /\ \/ DOMAIN snap[h] = {} /\ Arrives("init")
     \/ DOMAIN snap[h] # {} /\ UNCHANGED <<mainVars, workerVars, queueVars, now, historyVars>>
  /\ \E f \in FieldNames \ DOMAIN snap[h] :
       snap' = [snap EXCEPT ![h] =
                  [g \in DOMAIN snap[h] \cup {f} |-> IF g = f THEN st[f] ELSE snap[h][g]]]
  /\ UNCHANGED <<st, cached>>

\* ... and write what they have read.
InitWrites(h) ==
  /\ DOMAIN snap[h] = FieldNames
  /\ cached' = Printed(snap[h])
  /\ snap' = [snap EXCEPT ![h] = Nothing]
  /\ UNCHANGED <<mainVars, workerVars, queueVars, historyVars, st, now>>

-----------------------------------------------------------------------------
(***************************************************************************)
(* service_init, in the main thread, with the worker thread running.       *)
(***************************************************************************)

MainMoves(from, to) ==
  /\ main = from
  /\ main' = to
  /\ UNCHANGED <<workerVars, listed, cached, snap, now, measured, truth, jobs,
                 admin, crashes>>

\* Mistake: the loop over the reply runs one element too far.
PushOneMore ==
  /\ MainMoves("down", "fetch")
  /\ queue' = [i \in 1 .. listed + 1 |-> 0]
  /\ stopped' \in BOOLEAN /\ raced' = (raced \/ ~stopped')
  /\ UNCHANGED <<mfield, reply, st, restarts>>

\* backup_fetch_current_trans_in_worker_queue pushes the listed transactions.
\* trans_doc_parse does not read worker.time: worker_time is zero.  The worker
\* has been started as the state in Redis says, available or stopped.
PushListed ==
  /\ MainMoves("down", "fetch")
  /\ queue' = [i \in 1 .. listed |-> 0]
  /\ stopped' \in BOOLEAN /\ raced' = (raced \/ ~stopped')
  /\ UNCHANGED <<mfield, reply, st, restarts>>

\* The MGET of backup_fetch_waiting_time, _process_time, _complete_time ...
MGet ==
  /\ MainMoves("fetch", "restore")
  /\ reply' = cached /\ mfield' = 1 /\ restarts' = restarts + 1
  /\ UNCHANGED <<queue, stopped, st, raced>>

\* Mistake: the sum is not restored.
RestoreWithoutSum ==
  /\ main = "restore"
  /\ LET f == Fields[mfield] IN st' = [st EXCEPT ![f] = IF f = "sum" THEN @ ELSE reply[f]]
  /\ IF mfield < Len(Fields)
       THEN MainMoves("restore", "restore") /\ mfield' = mfield + 1
       ELSE MainMoves("restore", "up") /\ mfield' = 0
  /\ UNCHANGED <<reply, queue, stopped, restarts, raced>>

\* Mistake: what is restored is added to what the worker has counted meanwhile.
RestoreAdds ==
  /\ main = "restore"
  /\ LET f == Fields[mfield] IN
       st' = [st EXCEPT ![f] = IF f \in {"n", "sum"} THEN @ + reply[f] ELSE reply[f]]
  /\ IF mfield < Len(Fields)
       THEN MainMoves("restore", "restore") /\ mfield' = mfield + 1
       ELSE MainMoves("restore", "up") /\ mfield' = 0
  /\ UNCHANGED <<reply, queue, stopped, restarts, raced>>

\* ... and service_data_restore_waiting_time, _process_time, _complete_time.
Restore ==
  /\ main = "restore"
  /\ LET f == Fields[mfield] IN st' = [st EXCEPT ![f] = reply[f]]
  /\ IF mfield < Len(Fields)
       THEN MainMoves("restore", "restore") /\ mfield' = mfield + 1
       ELSE MainMoves("restore", "up") /\ mfield' = 0
  /\ UNCHANGED <<reply, queue, stopped, restarts, raced>>

MainStep == PushListed \/ MGet \/ Restore

\* The process ends.  The transaction in work is not taken up again; its
\* duration counts only when Redis has it.
Crash ==
  /\ main # "down" /\ crashes < MaxCrashes
  /\ crashes' = crashes + 1
  /\ main' = "down" /\ mfield' = 0 /\ reply' = Zero /\ stopped' = FALSE
  /\ wpc' = "wait" /\ wfield' = 0 /\ reg' = 0 /\ v' = 0
  /\ st' = Zero /\ queue' = <<>> /\ snap' = [h \in Handlers |-> Nothing]
  /\ UNCHANGED <<cached, listed, now, measured, truth, restarts, raced, jobs, admin>>

-----------------------------------------------------------------------------

\* The first start of the service has ended: Redis has the default values.
Init ==
  /\ main = "up" /\ mfield = 0 /\ reply = Zero /\ stopped = FALSE
  /\ wpc = "wait" /\ wfield = 0 /\ reg = 0 /\ v = 0
  /\ st = Zero /\ cached = Zero
  /\ queue = <<>> /\ listed = 0
  /\ snap = [h \in Handlers |-> Nothing] /\ now = StartTime
  /\ measured = [n |-> 0, min |-> DataMax, max |-> 0, sum |-> 0]
  /\ truth = measured
  /\ restarts = 0 /\ raced = FALSE /\ jobs = 0 /\ admin = 0 /\ crashes = 0

Next ==
  \/ Post
  \/ Tick
  \/ WorkerStep
  \/ Reset
  \/ \E h \in Handlers : InitReads(h) \/ InitWrites(h)
  \/ MainStep
  \/ Crash

Spec == Init /\ [][Next]_vars

-----------------------------------------------------------------------------

\* A statistic has the types of data.h.
Stat == [n : Nat, min : Nat, max : Nat, sum : Nat, avg : Nat \X Nat]

TypeOK ==
  /\ main \in {"down", "fetch", "restore", "up"} /\ mfield \in 0 .. Len(Fields)
  /\ stopped \in BOOLEAN /\ raced \in BOOLEAN
  /\ wpc \in {"wait", "load", "store", "mset"} /\ wfield \in 0 .. Len(Fields)
  /\ reply \in Stat /\ st \in Stat /\ cached \in Stat
  /\ queue \in Seq(0 .. now) /\ listed \in Nat
  /\ Len(queue) <= listed

\* The sum and the extremes pass through %f at each restart.
Tolerance == Unit \div 2

\* No statistic, in memory or in Redis, claims more than was measured, however
\* the threads interleave: a race can lose a duration, not invent one.
WithinMeasured ==
  \A s \in {st, cached} :
    /\ s.n <= measured.n
    /\ s.sum <= measured.sum + Tolerance * (restarts + 1)
    /\ s.max <= measured.max + Tolerance
    /\ s.min >= measured.min - Tolerance

\* The statistic t is that of the durations r, up to the printing.
Tells(t, r) ==
  /\ t.n = r.n
  /\ t.sum - r.sum \in -Tolerance * (restarts + 1) .. Tolerance * (restarts + 1)
  /\ t.max - r.max \in -Tolerance .. Tolerance
  /\ t.min - r.min \in -Tolerance .. Tolerance
  /\ t.avg[2] = t.n

\* When the worker was stopped before each restart, and no request meddled, the
\* statistics survive crashes, restarts and transactions that wait in the list:
\* at any time Redis has what was measured and memory too once it is loaded.
SurvivesRestart ==
  ~raced /\ admin = 0 =>
    /\ Tells(cached, truth)
    /\ main = "up" /\ wpc = "wait" => Tells(st, truth)

\* While the process lives, the worker thread and data/reset never mix their
\* writes: when the mutex is free the average is that of the sum and the number
\* next to it, and a statistic of nothing has the default values.
Coherent ==
  main = "up" /\ restarts = 0 /\ wpc = "wait" =>
    /\ st.avg = <<st.sum, st.n>>
    /\ st.n = 0 => st = Zero

-----------------------------------------------------------------------------
(***************************************************************************)
(* What a comment says and the code does not do.                           *)
(***************************************************************************)

\* data.h:27, "total amount of waiting trans": when the service serves and the
\* worker waits, n_waits is the number of durations that were measured.
TotalOfMeasured == main = "up" /\ wpc = "wait" => st.n = truth.n

=============================================================================
