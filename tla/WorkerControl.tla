---------------------------- MODULE WorkerControl ----------------------------
(***************************************************************************)
(* Starting and stopping the worker.                                       *)
(*                                                                         *)
(* Whether the worker runs is known in three places: cerver's Worker, the  *)
(* ServiceState in memory, and three keys of Redis.  A start or a stop     *)
(* request changes the worker first and then, in a second step under       *)
(* worker_mutex, the state and Redis.  The state/init and state/reset      *)
(* requests touch only the last two.  service_init reads Redis back and    *)
(* starts the worker accordingly; on the first start of all it writes the  *)
(* keys.                                                                   *)
(***************************************************************************)
EXTENDS Naturals

CONSTANTS
  Handlers,    \* the threads of cerver's pool
  Requests,    \* the requests that clients make: see AllRequests
  Nil,         \* a key that does not exist in Redis
  MaxRequests, \* bound on the requests
  MaxCrashes,  \* bound on the crashes
  MaxTime      \* bound on the clock

AllRequests == {"start", "stop", "init", "reset"}

ASSUME RequestsAssumption == Requests \subseteq AllRequests
ASSUME BoundsAssumption   ==
  MaxRequests \in Nat /\ MaxCrashes \in Nat /\ MaxTime \in Nat \ {0}

Fields == {"worker_state", "worker_last_started", "worker_last_stopped"}

\* What time(NULL) returned first is 1; 0 is the value of a reset field.
Times  == 0 .. MaxTime
States == [worker_state : {"none", "available", "stopped"},
           worker_last_started : Times, worker_last_stopped : Times]
ZeroState == [worker_state |-> "none",
              worker_last_started |-> 0, worker_last_stopped |-> 0]

ASSUME NilAssumption == Nil \notin States

VARIABLES
  main,      \* where the main thread is in service_init
  first,     \* FIRST_TIME
  test,      \* Redis: the key that credis_set_test writes
  worker,    \* the state of cerver's worker; "none" before it is started
  state,     \* *service_state
  cached,    \* Redis: the three keys of the state, or Nil
  pc,        \* pc[h]: what handler h has still to do
  unread,    \* unread[h]: the fields that handler h has still to read ...
  snap,      \* snap[h]: ... and those it has read for its MSET
  now        \* the clock

\* History variables.
VARIABLES
  last,      \* what the last start or stop that reached Redis asked for
  raced,     \* two requests have overlapped since the process started
  inited,    \* there was a request of the kind "init"
  fresh,     \* no request has come since the process started to serve
  requests,  \* the requests so far
  crashes    \* the crashes so far

vars == <<main, first, test, worker, state, cached, pc, unread, snap, now,
          last, raced, inited, fresh, requests, crashes>>

MainPcs    == {"down", "state", "fetch", "worker", "update", "up"}
HandlerPcs == {"idle", "resumed", "stopped", "reading"}

Idle == [h \in Handlers |-> "idle"]
NoSnap == [h \in Handlers |-> ZeroState]
Nothing == [h \in Handlers |-> {}]

-----------------------------------------------------------------------------
(***************************************************************************)
(* ServiceState, in memory and in Redis.                                   *)
(***************************************************************************)

\* time(NULL) has a resolution of a second.
Tick == now' \in {now, now + 1} /\ now' <= MaxTime

\* Two fields change in memory and, with one MSET, in Redis.
Started(s, time) ==
  [s EXCEPT !.worker_state = "available", !.worker_last_started = time]
Halted(s, time) ==
  [s EXCEPT !.worker_state = "stopped", !.worker_last_stopped = time]

\* service_state_update_start_worker.
UpdateStart ==
  /\ Tick
  /\ state' = Started(state, now') /\ cached' = Started(cached, now')

\* Mistake: the time of the stop is written where that of the start belongs.
UpdateStopTime ==
  /\ Tick
  /\ state' = [Started(state, now') EXCEPT !.worker_state = "stopped"]
  /\ cached' = [Started(cached, now') EXCEPT !.worker_state = "stopped"]

\* Mistake: the stop is kept in memory, Redis is not told.
UpdateStopMemory ==
  /\ Tick
  /\ state' = Halted(state, now')
  /\ UNCHANGED cached

\* service_state_update_stop_worker.
UpdateStop ==
  /\ Tick
  /\ state' = Halted(state, now') /\ cached' = Halted(cached, now')

-----------------------------------------------------------------------------
(***************************************************************************)
(* Request handlers.                                                       *)
(***************************************************************************)

\* A request of the given kind arrives at an idle thread.
Arrives(h, kind) ==
  /\ main = "up" /\ pc[h] = "idle"
  /\ kind \in Requests
  /\ requests < MaxRequests /\ requests' = requests + 1
  /\ fresh' = FALSE
  /\ raced' = (raced \/ pc # Idle)
  /\ inited' = (inited \/ kind = "init")
  /\ UNCHANGED <<main, first, test, crashes>>

\* What no later step of a handler changes.
Continues(h, from, to) ==
  /\ pc[h] = from
  /\ pc' = [pc EXCEPT ![h] = to]
  /\ UNCHANGED <<main, first, test, raced, inited, fresh, requests, crashes>>

\* GET /api/worker/start.  worker_resume may fail, and then nothing changes.
Resume(h) ==
  /\ Arrives(h, "start")
  /\ \/ worker' = "available" /\ pc' = [pc EXCEPT ![h] = "resumed"]
     \/ UNCHANGED <<worker, pc>>
  /\ UNCHANGED <<state, cached, unread, snap, now, last>>

Resumed(h) ==
  /\ Continues(h, "resumed", "idle")
  /\ UpdateStart
  /\ last' = "available"
  /\ UNCHANGED <<worker, unread, snap>>

\* GET /api/worker/stop.  worker_stop may fail, and then nothing changes.
Stop(h) ==
  /\ Arrives(h, "stop")
  /\ \/ worker' = "stopped" /\ pc' = [pc EXCEPT ![h] = "stopped"]
     \/ UNCHANGED <<worker, pc>>
  /\ UNCHANGED <<state, cached, unread, snap, now, last>>

Stopped(h) ==
  /\ Continues(h, "stopped", "idle")
  /\ UpdateStop
  /\ last' = "stopped"
  /\ UNCHANGED <<worker, unread, snap>>

\* GET /api/service/state/reset: memory only, under worker_mutex.
Reset(h) ==
  /\ Arrives(h, "reset")
  /\ state' = ZeroState
  /\ UNCHANGED <<worker, cached, pc, unread, snap, now, last>>

\* GET /api/service/state/init: the arguments of the MSET are read without the
\* mutex, in an order that C leaves open ...
InitArrives(h) ==
  /\ Arrives(h, "init")
  /\ pc' = [pc EXCEPT ![h] = "reading"]
  /\ unread' = [unread EXCEPT ![h] = Fields]
  /\ UNCHANGED <<worker, state, cached, snap, now, last>>

InitReads(h) ==
  /\ Continues(h, "reading", "reading")
  /\ \E f \in unread[h] :
       /\ unread' = [unread EXCEPT ![h] = @ \ {f}]
       /\ snap' = [snap EXCEPT ![h][f] = state[f]]
  /\ UNCHANGED <<worker, state, cached, now, last>>

\* ... and then written.
InitWrites(h) ==
  /\ Continues(h, "reading", "idle")
  /\ unread[h] = {}
  /\ cached' = snap[h]
  /\ snap' = [snap EXCEPT ![h] = ZeroState]
  /\ UNCHANGED <<worker, state, unread, now, last>>

HandlerStep(h) ==
  Resumed(h) \/ Stopped(h) \/ InitReads(h) \/ InitWrites(h)

-----------------------------------------------------------------------------
(***************************************************************************)
(* service_init, in the main thread.                                       *)
(***************************************************************************)

MainMoves(from, to) ==
  /\ main = from
  /\ main' = to
  /\ fresh' = (to = "up")
  /\ UNCHANGED <<pc, unread, snap, raced, inited, requests, crashes>>

\* service_redis_init: the key is written before anything it stands for.
RedisInit ==
  /\ MainMoves("down", "state")
  /\ first' = ~test
  /\ test' = TRUE
  /\ UNCHANGED <<worker, state, cached, now, last>>

\* service_state_init: zeroed memory and, the first time, zeroes in Redis.
StateInit ==
  /\ MainMoves("state", "fetch")
  /\ state' = ZeroState
  /\ cached' = IF first THEN ZeroState ELSE cached
  /\ UNCHANGED <<first, test, worker, now, last>>

\* Mistake: the elements of the reply are used without a look at them.
FetchAnything ==
  /\ MainMoves("fetch", "worker")
  /\ IF first THEN UNCHANGED state ELSE state' = cached
  /\ UNCHANGED <<first, test, worker, cached, now, last>>

\* backup_fetch_state_from_cache, unless it is the first time.
Fetch ==
  /\ MainMoves("fetch", "worker")
  /\ \/ first /\ UNCHANGED state
     \/ ~first /\ cached # Nil /\ state' = cached
  /\ UNCHANGED <<first, test, worker, cached, now, last>>

\* Mistake: the worker is always started available.
InitAvailable ==
  /\ MainMoves("worker", IF state.worker_state = "stopped" THEN "up" ELSE "update")
  /\ worker' = "available"
  /\ UNCHANGED <<first, test, state, cached, now, last>>

\* worker_current_init: worker_start_with_state ...
WorkerInit ==
  /\ \/ /\ state.worker_state \in {"none", "available"}
        /\ MainMoves("worker", "update")
        /\ worker' = "available"
     \/ /\ state.worker_state = "stopped"
        /\ MainMoves("worker", "up")
        /\ worker' = "stopped"
  /\ UNCHANGED <<first, test, state, cached, now, last>>

\* ... and service_state_update_start_worker.
WorkerStarted ==
  /\ MainMoves("update", "up")
  /\ UpdateStart
  /\ UNCHANGED <<first, test, worker, last>>

MainStep == RedisInit \/ StateInit \/ Fetch \/ WorkerInit \/ WorkerStarted

ProcessDies ==
  /\ main # "down"
  /\ main' = "down" /\ fresh' = FALSE
  /\ first' = FALSE /\ worker' = "none" /\ state' = ZeroState
  /\ pc' = Idle /\ unread' = Nothing /\ snap' = NoSnap /\ raced' = FALSE
  /\ UNCHANGED <<test, cached, now, last, inited, requests>>

\* A crash, or a signal: end() does not change what is in Redis.
Crash ==
  /\ crashes < MaxCrashes
  /\ crashes' = crashes + 1
  /\ ProcessDies

\* backup_fetch_worker_state: atoi of the NULL string of a missing key.
NilState ==
  /\ main = "fetch" /\ ~first /\ cached = Nil
  /\ ProcessDies
  /\ UNCHANGED crashes

-----------------------------------------------------------------------------

Init ==
  /\ main = "down" /\ first = FALSE /\ test = FALSE
  /\ worker = "none" /\ state = ZeroState /\ cached = Nil
  /\ pc = Idle /\ unread = Nothing /\ snap = NoSnap /\ now = 1
  /\ last = "available" /\ raced = FALSE /\ inited = FALSE /\ fresh = FALSE
  /\ requests = 0 /\ crashes = 0

Next ==
  \/ \E h \in Handlers :
       \/ Resume(h) \/ Stop(h) \/ Reset(h) \/ InitArrives(h)
       \/ HandlerStep(h)
  \/ MainStep
  \/ Crash
  \/ NilState

Spec == Init /\ [][Next]_vars

-----------------------------------------------------------------------------

\* The fields have the types of state.h, and a handler's copies are of them.
TypeOK ==
  /\ main \in MainPcs /\ first \in BOOLEAN /\ test \in BOOLEAN
  /\ worker \in {"none", "available", "stopped"}
  /\ state \in States /\ cached \in States \cup {Nil}
  /\ pc \in [Handlers -> HandlerPcs]
  /\ unread \in [Handlers -> SUBSET Fields] /\ snap \in [Handlers -> States]
  /\ now \in Times \ {0}
  /\ last \in {"available", "stopped"}
  /\ raced \in BOOLEAN /\ inited \in BOOLEAN /\ fresh \in BOOLEAN
  /\ requests \in 0 .. MaxRequests /\ crashes \in 0 .. MaxCrashes

\* A restart repairs every disagreement that crashes and racing requests have
\* left: when the service starts to serve, the worker does what the state in
\* memory and the state in Redis say.
RestartHeals ==
  fresh => worker = state.worker_state /\ state = cached

\* As long as the process has served one request at a time, the worker does
\* what the last start or stop that reached Redis asked for, or runs if there
\* was none: across resets, failed requests, crashes between the two steps of a
\* request, restarts, and races of an earlier process.  (An init writes to
\* Redis what memory says; it is no request to start or to stop.)
PersistedRequestHolds ==
  main = "up" /\ pc = Idle /\ ~raced /\ ~inited => worker = last

\* The times in Redis agree with the state next to them, although racing starts
\* and stops write only two of the three keys each and a reset writes none.  An
\* init that reads the fields while another request changes them breaks this.
CachedTimesMatchState ==
  cached # Nil /\ ~inited =>
    /\ cached.worker_state = "available" =>
         cached.worker_last_started >= cached.worker_last_stopped
    /\ cached.worker_state = "stopped" =>
         cached.worker_last_stopped >= cached.worker_last_started

-----------------------------------------------------------------------------
(***************************************************************************)
(* What the README and comments say, and the code does not do.             *)
(***************************************************************************)

\* README.md:38, GET /api/service/state "Returns uploads service workers states":
\* when no request is under way the state is that of the worker.
StateIsWorkers ==
  main = "up" /\ pc = Idle => state.worker_state = worker

\* service.c:327, "check if the service was up before": when it is not the first
\* time, an earlier start has left its state in Redis.
NotFirstTimeWasUp ==
  main = "fetch" /\ ~first => cached # Nil

=============================================================================
