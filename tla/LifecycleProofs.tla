--------------------------- MODULE LifecycleProofs ---------------------------
(***************************************************************************)
(* Proofs about Lifecycle for any of the signals and of the failures.      *)
(*                                                                         *)
(* Until the worker is there a signal can only interrupt main, which never *)
(* goes on then; so a teardown that has found that service_init had not    *)
(* started the worker cannot be overtaken by its start (SignalInv,         *)
(* WorkerInv).  Without overlapping signals one thread of control at most  *)
(* tears down, and where it is says what was released (ReleaseInv).        *)
(***************************************************************************)
EXTENDS Lifecycle, TLAPS

Early == InitPcs \ {"data", "check"}

Pcs == InitPcs \cup ServePcs \cup EndPcs \cup {"idle", "teardown", "done"}

\* The calls without which main serves all the same.
NeededCalls == {"env", "mongo", "ping", "model", "redis"}

TypeInv == TypeOK /\ pc \in [Controls -> Pcs]

\* Signals and main: as long as service_init has not tried to start the worker,
\* a signal can only interrupt main.  When no signals overlap, one of them has
\* interrupted main, which was not ending.
SignalInv ==
  /\ pc["main"] \in InitPcs \cup {"create"} => cerver = "none"
  /\ pc["main"] \in {"start", "serve"} => cerver # "none"
  /\ pc["main"] \in Early => "worker" \notin have
  /\ pc["main"] \in Early /\ "main" \notin suspended =>
       ~overlap /\ \A s \in Signals : pc[s] = "idle"
  /\ ~overlap =>
       /\ suspended \subseteq {"main"}
       /\ \A s \in Signals : pc[s] # "idle" =>
            "main" \in suspended /\ pc["main"] \notin EndPcs \cup {"done"}
       /\ \A s, t \in Signals : pc[s] # "idle" /\ pc[t] # "idle" => s = t
  /\ alive => \A c \in Controls : pc[c] # "done"
  /\ ~alive => \E c \in Controls : pc[c] = "done"

\* Where service_end is when r is gone.
Past(r) ==
  CASE r = "cerver"    -> EndPcs \cup {"done"}
    [] r = "worker"    -> (EndPcs \ {"stop", "worker_end"}) \cup {"done"}
    [] r = "model"     -> {"disconnect", "credis_end", "responses_end", "exit", "done"}
    [] r = "mongo"     -> {"credis_end", "responses_end", "exit", "done"}
    [] r = "redis"     -> {"responses_end", "exit", "done"}
    [] r = "responses" -> {"exit", "done"}
    [] OTHER           -> {}

\* The worker is there with what it uses, and before service_end goes on to that.
WorkerInv ==
  /\ "worker" \in have => {"mongo", "model", "redis", "values"} \subseteq have /\ started
  /\ \A c \in Controls : pc[c] \in Past("worker") => "worker" \notin have

\* The pool of the objects, unless service_trans_init has failed.
HasPool == "trans" \in have \/ "trans" \in failed

PoolInv == pc["main"] \in {"worker", "data", "check"} \/ "worker" \in have => HasPool

\* What main has gathered when it is at p, the calls of service_init that may
\* fail having gathered errors otherwise.
Gathered ==
  /\ pc["main"] \in (InitPcs \cup ServePcs) \ {"env", "mongo"} => "mongo" \in have
  /\ pc["main"] \in (InitPcs \cup ServePcs) \ {"env", "mongo", "model"} => "model" \in have
  /\ pc["main"] \in {"values", "responses", "trans", "worker", "data", "check"} \cup ServePcs =>
       "redis" \in have
  /\ pc["main"] \in {"responses", "trans", "worker", "data", "check"} \cup ServePcs =>
       "values" \in have /\ started
  /\ pc["main"] \in {"trans", "worker", "data", "check"} => "responses" \in have \/ errors
  /\ pc["main"] \in {"worker", "data", "check"} => "trans" \in have \/ errors
  /\ pc["main"] \in {"data", "check"} => "worker" \in have \/ errors
  /\ pc["main"] \in ServePcs => {"responses", "trans", "worker"} \subseteq have
  /\ pc["main"] \in {"start", "serve"} => "cerver" \in have

ReadyInv ==
  /\ pc["main"] \in InitPcs => failed \cap NeededCalls = {}
  /\ ~overlap /\ failed \cap NeededCalls = {} /\ (\A s \in Signals : pc[s] \in {"idle", "teardown"})
       => Gathered
  /\ cerver = "serving" /\ ~overlap =>
       pc["main"] = "serve" /\ \A s \in Signals : pc[s] \in {"idle", "teardown"}

AcquiredInv ==
  /\ pc["main"] \in {"responses", "trans", "worker", "data", "check"} => started
  /\ "worker" \in acquired \/ "responses" \in acquired => started
  /\ pc["main"] = "model" \/ "model" \in acquired => "mongo" \in acquired

Released(r) == r \in acquired /\ \E c \in Controls : pc[c] \in Past(r)

ReleaseInv ==
  ~overlap /\ "start" \notin failed =>
    /\ "cerver" \in acquired <=> cerver # "none"
    /\ pc["main"] \in EndPcs \cup {"done"} => "cerver" \notin acquired
    /\ cerver = "deleted" => \E s \in Signals : pc[s] \in Past("cerver")
    /\ \A r \in Releasable :
         /\ released[r] = IF Released(r) THEN 1 ELSE 0
         /\ r \in acquired /\ released[r] = 0 => r \in have

IInv == TypeInv /\ SignalInv /\ WorkerInv /\ PoolInv /\ ReadyInv /\ AcquiredInv /\ ReleaseInv

-----------------------------------------------------------------------------
(***************************************************************************)
(* What the steps do.                                                      *)
(***************************************************************************)

LEMMA MainIsNoSignal == "main" \notin Signals /\ "main" \in Controls
BY SignalsAssumption DEF AllSignals, Controls

\* One thread of control moves.
LEMMA RunsMoves ==
  ASSUME TypeInv, NEW c \in Controls, NEW from, NEW to, Runs(c, from, to)
  PROVE  /\ alive /\ c \notin suspended /\ pc[c] = from
         /\ pc'[c] = to /\ \A d \in Controls : d # c => pc'[d] = pc[d]
         /\ suspended' = suspended /\ overlap' = overlap
BY DEF Runs, TypeInv

InitStep == Env \/ MongoConnect \/ ModelInit \/ RedisInit \/ ValuesInit
            \/ ResponsesInit \/ TransInit \/ WorkerInit \/ FetchData \/ Check

\* service_init acquires; it starts after nothing and is followed by start, or
\* by service_end when it has failed.
LEMMA InitFacts ==
  ASSUME TypeInv, InitStep
  PROVE  /\ alive /\ "main" \notin suspended /\ pc["main"] \in InitPcs
         /\ pc' = [pc EXCEPT !["main"] = pc'["main"]]
         /\ pc'["main"] \in InitPcs \cup {"create", "stop"}
         /\ \A s \in Signals : pc'[s] = pc[s]
         /\ UNCHANGED <<suspended, overlap, cerver, alive, released>>
         /\ have \subseteq have' /\ acquired \subseteq acquired'
         /\ have' \subseteq acquired' /\ acquired' \subseteq (Resources \ {"cerver"}) \cup acquired
         /\ acquired' \ acquired \subseteq have'
         /\ failed \subseteq failed' /\ failed' \subseteq Failures
         /\ "start" \in failed' => "start" \in failed
         /\ started' \in BOOLEAN /\ errors' \in BOOLEAN
         /\ started => started'
<1> DEFINE Moves   == \E from \in InitPcs, to \in InitPcs \cup {"create", "stop"} : InitMoves(from, to)
           Gathers == \/ \E R \in SUBSET (Resources \ {"cerver"}) : Acquire(R)
                      \/ UNCHANGED <<have, acquired>>
           Tried   == \/ \E call \in Failures \ {"start"} : failed' = failed \cup {call}
                      \/ failed' = failed
           Says    == started' \in {started, TRUE} /\ errors' \in {errors, TRUE}
<1>1. Moves
  BY DEF InitStep, InitPcs, Env, MongoConnect, ModelInit, RedisInit, ValuesInit, ResponsesInit, TransInit, WorkerInit, FetchData, Check, Needs, Tries
<1>2. Gathers
  BY DEF InitStep, Resources, Env, MongoConnect, ModelInit, RedisInit, ValuesInit, ResponsesInit, TransInit, WorkerInit, FetchData, Check, Needs, Tries
<1>3. Tried
  BY DEF InitStep, Fails, Env, MongoConnect, ModelInit, RedisInit, ValuesInit, ResponsesInit, TransInit, WorkerInit, FetchData, Check, Needs, Tries
<1>4. Says
  BY DEF InitStep, Env, MongoConnect, ModelInit, RedisInit, ValuesInit, ResponsesInit, TransInit, WorkerInit, FetchData, Check, Needs, Tries
<1>5. /\ alive /\ "main" \notin suspended /\ pc["main"] \in InitPcs
      /\ pc' = [pc EXCEPT !["main"] = pc'["main"]]
      /\ pc'["main"] \in InitPcs \cup {"create", "stop"}
      /\ \A s \in Signals : pc'[s] = pc[s]
      /\ UNCHANGED <<suspended, overlap, cerver, alive, released>>
  BY <1>1, MainIsNoSignal DEF InitMoves, Runs, TypeInv
<1>6. /\ have \subseteq have' /\ acquired \subseteq acquired'
      /\ have' \subseteq acquired' /\ acquired' \subseteq (Resources \ {"cerver"}) \cup acquired
      /\ acquired' \ acquired \subseteq have'
  BY <1>2 DEF Acquire, TypeInv, TypeOK
<1>7. /\ failed \subseteq failed' /\ failed' \subseteq Failures
      /\ "start" \in failed' => "start" \in failed
  BY <1>3 DEF TypeInv, TypeOK
<1>8. /\ started' \in BOOLEAN /\ errors' \in BOOLEAN
      /\ started => started'
  <2>1. started \in BOOLEAN /\ errors \in BOOLEAN
    BY DEF TypeInv, TypeOK
  <2>2. started' = started \/ started' = TRUE
    BY <1>4
  <2>3. errors' = errors \/ errors' = TRUE
    BY <1>4
  <2>4. started' \in BOOLEAN /\ (started => started')
    BY <2>1, <2>2, Zenon
  <2>5. errors' \in BOOLEAN
    BY <2>1, <2>3, Zenon
  <2> QED BY <2>4, <2>5
<1> QED BY <1>5, <1>6, <1>7, <1>8


\* Where a step of service_init goes and what it gathers.
Gets(from, to, R) ==
  /\ pc["main"] = from /\ pc'["main"] = to
  /\ have' = have \cup R /\ acquired' = acquired \cup R

Goes(from, to, R) == Gets(from, to, R) /\ UNCHANGED <<started, errors, failed>>

\* The call fails and service_init returns zero, or goes on with an error.
Misses(from, R) ==
  /\ Gets(from, "create", R) /\ UNCHANGED <<started, errors>>
  /\ \E call \in NeededCalls : failed' = failed \cup {call}

Errs(from, to) ==
  /\ Gets(from, to, {}) /\ started' = started /\ errors' = TRUE
  /\ \E call \in Failures \ (NeededCalls \cup {"start"}) : failed' = failed \cup {call}

LEMMA InitKinds ==
  ASSUME TypeInv, InitStep
  PROVE  \/ Goes("env", "mongo", {}) \/ Misses("env", {})
         \/ Goes("mongo", "model", {"mongo"}) \/ Misses("mongo", {}) \/ Misses("mongo", {"mongo"})
         \/ Goes("model", "redis", {"model"}) \/ Misses("model", {})
         \/ Goes("redis", "values", {"redis"}) \/ Misses("redis", {}) \/ Misses("redis", {"redis"})
         \/ /\ Gets("values", "responses", {"values"}) /\ started' = TRUE
            /\ UNCHANGED <<errors, failed>>
         \/ Goes("responses", "trans", {"responses"}) \/ Errs("responses", "trans")
         \/ Goes("trans", "worker", {"trans"}) \/ Errs("trans", "worker")
         \/ Goes("worker", "data", {"worker"}) \/ Errs("worker", "data")
         \/ Goes("data", "check", {})
         \/ Goes("check", IF errors THEN "stop" ELSE "create", {})
<1>1. ASSUME NEW from, NEW to, InitMoves(from, to)
      PROVE  pc["main"] = from /\ pc'["main"] = to
  BY <1>1, MainIsNoSignal, RunsMoves DEF InitMoves
<1>2. ASSUME NEW from, NEW to, NEW R, NEW call \in NeededCalls, Needs(from, to, R, call)
      PROVE  Goes(from, to, R) \/ Misses(from, {})
  BY <1>1, <1>2 DEF Needs, Goes, Misses, Gets, Acquire, Fails
<1>3. ASSUME NEW from, NEW R, NEW call \in NeededCalls, InitMoves(from, "create"), Fails(call),
             Acquire(R), UNCHANGED <<started, errors>>
      PROVE  Misses(from, R)
  BY <1>1, <1>3 DEF Misses, Gets, Acquire, Fails
<1>4. ASSUME NEW from, NEW to, NEW R, NEW call, call \notin NeededCalls, call # "start",
             Tries(from, to, R, call)
      PROVE  Goes(from, to, R) \/ Errs(from, to)
  BY <1>1, <1>4 DEF Tries, Goes, Errs, Gets, Acquire, Fails
<1>5. CASE Env \/ ModelInit
  BY <1>2, <1>5 DEF Env, ModelInit, NeededCalls
<1>6. CASE MongoConnect
  BY <1>2, <1>3, <1>6 DEF MongoConnect, NeededCalls
<1>7. CASE RedisInit
  BY <1>2, <1>3, <1>7 DEF RedisInit, NeededCalls
<1>8. CASE ValuesInit
  BY <1>1, <1>8 DEF ValuesInit, Gets, Acquire
<1>9. CASE ResponsesInit \/ TransInit \/ WorkerInit
  <2>1. "responses" \notin NeededCalls /\ "trans" \notin NeededCalls /\ "worker" \notin NeededCalls
    BY DEF NeededCalls
  <2> QED BY <1>4, <1>9, <2>1 DEF ResponsesInit, TransInit, WorkerInit
<1>10. CASE FetchData \/ Check
  BY <1>1, <1>10 DEF FetchData, Check, Goes, Gets
<1> QED BY <1>5, <1>6, <1>7, <1>8, <1>9, <1>10 DEF InitStep

\* service_end releases, step by step, until the process exits.
LEMMA EndFacts ==
  ASSUME TypeInv, NEW c \in Controls, ServiceEnd(c)
  PROVE  /\ alive /\ c \notin suspended /\ pc[c] \in EndPcs
         /\ pc' = [pc EXCEPT ![c] = pc'[c]]
         /\ pc'[c] \in (EndPcs \ {"stop"}) \cup {"done"}
         /\ UNCHANGED <<suspended, overlap, started, errors, failed, acquired, cerver>>
         /\ alive' = IF pc'[c] = "done" THEN FALSE ELSE alive
         /\ \/ UNCHANGED <<have, released>>
            \/ \E r \in Releasable \ {"cerver"} : Release(r)
<1>1. /\ \E from \in EndPcs, to \in (EndPcs \ {"stop"}) \cup {"done"} : EndMoves(c, from, to)
      /\ UNCHANGED cerver
  BY DEF ServiceEnd, EndPcs, Stop, WorkerEnd, ModelEnd, Disconnect, CredisEnd, ResponsesEnd, Exit
<1>2. \/ UNCHANGED <<have, released>>
      \/ \E r \in Releasable \ {"cerver"} : Release(r)
  BY DEF ServiceEnd, Releasable, Resources, Stop, WorkerEnd, ModelEnd, Disconnect, CredisEnd,
         ResponsesEnd, Exit
<1>3. /\ alive /\ c \notin suspended /\ pc[c] \in EndPcs
      /\ pc' = [pc EXCEPT ![c] = pc'[c]]
      /\ pc'[c] \in (EndPcs \ {"stop"}) \cup {"done"}
      /\ UNCHANGED <<suspended, overlap, started, errors, failed, acquired>>
  BY <1>1 DEF EndMoves, Runs, TypeInv
<1>4. alive' = IF pc'[c] = "done" THEN FALSE ELSE alive
  BY DEF ServiceEnd, EndPcs, EndMoves, Runs, Stop, WorkerEnd, ModelEnd, Disconnect, CredisEnd,
         ResponsesEnd, Exit, TypeInv
<1> QED BY <1>1, <1>2, <1>3, <1>4

\* A release counts.
LEMMA ReleaseData ==
  ASSUME TypeInv, NEW r \in Resources, Release(r)
  PROVE  /\ have' = have \ {r} /\ released' \in [Resources -> Nat]
         /\ released'[r] = IF r \in acquired THEN released[r] + 1 ELSE released[r]
         /\ \A q \in Resources : q # r => released'[q] = released[q]
BY DEF Release, TypeInv, TypeOK

\* Where start goes and what it gathers.
LEMMA ServeKinds ==
  ASSUME TypeInv, Create \/ Start \/ Served
  PROVE  \/ /\ pc["main"] = "create" /\ pc'["main"] = "start" /\ cerver' = "created"
            /\ have' = have \cup {"cerver"} /\ acquired' = acquired \cup {"cerver"}
            /\ UNCHANGED <<failed, released>>
         \/ /\ pc["main"] = "create" /\ pc'["main"] = "stop" /\ failed' = failed \cup {"create"}
            /\ UNCHANGED <<cerver, have, acquired, released>>
         \/ /\ pc["main"] = "start" /\ pc'["main"] = "serve" /\ cerver' = "serving"
            /\ UNCHANGED <<have, failed, acquired, released>>
         \/ /\ pc["main"] = "start" /\ pc'["main"] = "stop" /\ failed' = failed \cup {"start"}
            /\ cerver' = "deleted" /\ Release("cerver") /\ UNCHANGED acquired
         \/ /\ pc["main"] = "serve" /\ pc'["main"] = "stop" /\ cerver = "deleted"
            /\ UNCHANGED <<cerver, have, failed, acquired, released>>
<1>1. ASSUME NEW from, NEW to, ServeMoves(from, to)
      PROVE  pc["main"] = from /\ pc'["main"] = to
  BY <1>1, MainIsNoSignal, RunsMoves DEF ServeMoves
<1> QED BY <1>1 DEF Create, Start, Served, Acquire, Fails

\* Where service_end goes and what it releases.
LEMMA EndKinds ==
  ASSUME TypeInv, NEW c \in Controls, ServiceEnd(c)
  PROVE  \/ /\ pc[c] = "stop" /\ UNCHANGED <<have, released>>
            /\ \/ started /\ pc'[c] = "worker_end"
               \/ ~started /\ pc'[c] = "model_end"
         \/ pc[c] = "worker_end" /\ pc'[c] = "model_end" /\ Release("worker")
         \/ pc[c] = "model_end" /\ pc'[c] = "disconnect" /\ Release("model")
         \/ /\ pc[c] = "model_end" /\ pc'[c] = "credis_end" /\ "mongo" \notin have
            /\ UNCHANGED <<have, released>>
         \/ pc[c] = "disconnect" /\ pc'[c] = "credis_end" /\ Release("mongo")
         \/ /\ pc[c] = "credis_end" /\ Release("redis")
            /\ \/ started /\ pc'[c] = "responses_end"
               \/ ~started /\ pc'[c] = "exit"
         \/ pc[c] = "responses_end" /\ pc'[c] = "exit" /\ Release("responses")
         \/ pc[c] = "exit" /\ pc'[c] = "done" /\ UNCHANGED <<have, released>>
<1>1. ASSUME NEW from, NEW to, EndMoves(c, from, to)
      PROVE  pc[c] = from /\ pc'[c] = to
  BY <1>1, RunsMoves DEF EndMoves
<1> QED BY <1>1 DEF ServiceEnd, Stop, WorkerEnd, ModelEnd, Disconnect, CredisEnd, ResponsesEnd, Exit

\* The positions of service_end, one resource after the other.
LEMMA PastFacts ==
  /\ Past("cerver") = EndPcs \cup {"done"}
  /\ Past("worker") = (EndPcs \ {"stop", "worker_end"}) \cup {"done"}
  /\ Past("model") = {"disconnect", "credis_end", "responses_end", "exit", "done"}
  /\ Past("mongo") = {"credis_end", "responses_end", "exit", "done"}
  /\ Past("redis") = {"responses_end", "exit", "done"}
  /\ Past("responses") = {"exit", "done"}
BY DEF Past

LEMMA PastIsEnding ==
  ASSUME NEW r \in Releasable
  PROVE  Past(r) \subseteq EndPcs \cup {"done"} /\ "done" \in Past(r)
<1>1. r \in {"mongo", "model", "redis", "responses", "worker", "cerver"}
  BY DEF Releasable, Resources
<1> QED BY <1>1, PastFacts DEF EndPcs

-----------------------------------------------------------------------------
(***************************************************************************)
(* Types.                                                                  *)
(***************************************************************************)

\* service_end takes no mutex itself.
LEMMA EndKeepsThreads == \A c : ServiceEnd(c) => UNCHANGED threadVars
BY DEF ServiceEnd, Stop, WorkerEnd, ModelEnd, Disconnect, CredisEnd, ResponsesEnd, Exit,
       EndMoves, Runs

\* The threads that share service_data change nothing else.
LEMMA ThreadsKeepControl == ThreadStep => UNCHANGED controlVars
BY DEF ThreadStep, WorkerTakes, WorkerLock, WorkerUnlock, WorkerSkips, HandlerLock,
       HandlerUnlock, BackupLock, BackupUnlock, Locks, Unlocks

ThreadTypes == /\ work \in 0..4 /\ holder \in [Mutexes -> Threads \cup {"nobody"}]
               /\ stopped \subseteq Threads \ {"main"}

\* A signal stops a thread, and only the threads lock and unlock.
LEMMA ThreadTypeStep == ThreadTypes /\ [Next]_vars => ThreadTypes'
<1> SUFFICES ASSUME ThreadTypes, [Next]_vars
             PROVE  ThreadTypes'
  OBVIOUS
<1>1. CASE ThreadStep
  <2>1. \A x, m : Locks(x, m) \/ Unlocks(x, m) =>
          stopped' = stopped /\ (holder' = [holder EXCEPT ![m] = x]
                                \/ holder' = [holder EXCEPT ![m] = "nobody"])
    BY DEF Locks, Unlocks
  <2>2. (work + 1) % 5 \in 0..4
    BY DEF ThreadTypes
  <2>3. \/ holder' = holder
        \/ \E x \in Threads \cup {"nobody"} : \E m : holder' = [holder EXCEPT ![m] = x]
    BY <1>1, <2>1 DEF ThreadStep, WorkerTakes, WorkerLock, WorkerUnlock, WorkerSkips,
         HandlerLock, HandlerUnlock, BackupLock, BackupUnlock, Threads
  <2>4. stopped' = stopped
    BY <1>1, <2>1 DEF ThreadStep, WorkerTakes, WorkerLock, WorkerUnlock, WorkerSkips,
         HandlerLock, HandlerUnlock, BackupLock, BackupUnlock
  <2>5. work' \in {work, 1, (work + 1) % 5}
    BY <1>1 DEF ThreadStep, WorkerTakes, WorkerLock, WorkerUnlock, WorkerSkips,
         HandlerLock, HandlerUnlock, BackupLock, BackupUnlock
  <2>6. holder' \in [Mutexes -> Threads \cup {"nobody"}]
    BY <2>3 DEF ThreadTypes
  <2> QED BY <2>2, <2>4, <2>5, <2>6 DEF ThreadTypes
<1>2. ASSUME NEW s \in Signals, Signal(s)
      PROVE  ThreadTypes'
  <2>1. UNCHANGED <<work, holder>>
    BY <1>2 DEF Signal
  <2>2. stopped' \subseteq Threads \ {"main"}
    <3>1. stopped' = stopped \/ \E x \in Handlers \cup {"worker"} : stopped' = stopped \cup {x}
      BY <1>2 DEF Signal
    <3>2. Handlers \cup {"worker"} \subseteq Threads \ {"main"}
      BY HandlersAssumption DEF Threads
    <3> QED BY <3>1, <3>2 DEF ThreadTypes
  <2> QED BY <2>1, <2>2 DEF ThreadTypes
<1>3. ASSUME UNCHANGED threadVars
      PROVE  ThreadTypes'
  BY <1>3 DEF ThreadTypes, threadVars
<1>4. CASE MainStep
  <2>1. InitStep => UNCHANGED threadVars
    BY DEF InitStep, Env, MongoConnect, ModelInit, RedisInit, ValuesInit, ResponsesInit,
           TransInit, WorkerInit, FetchData, Check, Needs, Tries, InitMoves, Runs
  <2>2. Create \/ Start \/ Served => UNCHANGED threadVars
    BY DEF Create, Start, Served, ServeMoves, Runs
  <2>3. ServiceEnd("main") => UNCHANGED threadVars
    BY EndKeepsThreads
  <2> QED BY <1>3, <1>4, <2>1, <2>2, <2>3 DEF MainStep, InitStep
<1>5. ASSUME NEW s \in Signals, EndStep(s)
      PROVE  ThreadTypes'
  <2>1. Teardown(s) => UNCHANGED threadVars
    BY DEF Teardown, EndMoves, Runs
  <2> QED BY <1>3, <1>5, <2>1, EndKeepsThreads DEF EndStep
<1> QED BY <1>1, <1>2, <1>3, <1>4, <1>5 DEF Next, vars, threadVars

LEMMA TypeStep == TypeInv /\ [Next]_vars => TypeInv'
<1> SUFFICES ASSUME TypeInv, [Next]_vars
             PROVE  TypeInv'
  OBVIOUS
<1> DEFINE Bools == /\ started \in BOOLEAN /\ errors \in BOOLEAN /\ alive \in BOOLEAN
                    /\ overlap \in BOOLEAN
           Main  == pc["main"] \in InitPcs \cup ServePcs \cup EndPcs \cup {"done"}
           Ends  == \A s \in Signals : pc[s] \in {"idle", "teardown", "done"} \cup EndPcs
           Rest  == /\ suspended \subseteq Controls
                    /\ acquired \subseteq Resources /\ have \subseteq acquired
                    /\ cerver \in {"none", "created", "serving", "deleted"}
                    /\ failed \subseteq Failures /\ released \in [Resources -> Nat]
                    /\ pc \in [Controls -> Pcs]
<1>1. Bools /\ Main /\ Ends /\ Rest
  BY DEF TypeInv, TypeOK
<1>2. SUFFICES Bools' /\ Main' /\ Ends' /\ Rest'
  BY ThreadTypeStep DEF TypeInv, TypeOK, ThreadTypes
<1>3. CASE InitStep
  <2>1. Bools'
    BY <1>1, <1>3, InitFacts, Zenon
  <2>2. Main' /\ Ends' /\ Rest'
    BY <1>1, <1>3, InitFacts, MainIsNoSignal DEF Pcs, InitPcs, ServePcs, EndPcs, Resources
  <2> QED BY <2>1, <2>2
<1>4. CASE Create \/ Start \/ Served
  <2>1. /\ started' = started /\ errors' = errors /\ alive' = alive /\ overlap' = overlap
        /\ suspended' = suspended
    BY <1>4 DEF Create, Start, Served, ServeMoves, Runs
  <2>2. Bools'
    BY <1>1, <2>1, Zenon
  <2>3. \E from \in Pcs, to \in {"start", "serve", "stop"} : Runs("main", from, to)
    BY <1>4 DEF Create, Start, Served, ServeMoves, Pcs, InitPcs, ServePcs, EndPcs
  <2>4. Main' /\ Ends' /\ pc' \in [Controls -> Pcs]
    BY <1>1, <2>3, MainIsNoSignal DEF Runs, Pcs, InitPcs, ServePcs, EndPcs
  <2>5. \/ Acquire({"cerver"}) /\ released' = released
        \/ Release("cerver") /\ acquired' = acquired
        \/ UNCHANGED <<have, acquired, released>>
    BY <1>4 DEF Create, Start, Served
  <2>6. acquired' \subseteq Resources /\ have' \subseteq acquired' /\ released' \in [Resources -> Nat]
    BY <1>1, <2>5, ReleaseData DEF Acquire, Resources
  <2>7. /\ cerver' \in {"none", "created", "serving", "deleted"} /\ failed' \subseteq Failures
    BY <1>1, <1>4 DEF Create, Start, Served, Fails
  <2> QED BY <1>1, <2>1, <2>2, <2>4, <2>6, <2>7
<1>5. ASSUME NEW c \in Controls, ServiceEnd(c)
      PROVE  Bools' /\ Main' /\ Ends' /\ Rest'
  <2>1. Bools'
    BY <1>1, <1>5, EndFacts, Zenon
  <2>2. Main' /\ Ends' /\ pc' \in [Controls -> Pcs]
    BY <1>1, <1>5, EndFacts, MainIsNoSignal DEF Pcs, InitPcs, ServePcs, EndPcs, Controls
  <2>3. have' \subseteq have /\ released' \in [Resources -> Nat]
    BY <1>1, <1>5, EndFacts, ReleaseData DEF Releasable
  <2> QED BY <1>1, <1>5, EndFacts, <2>1, <2>2, <2>3
<1>6. ASSUME NEW s \in Signals, Signal(s)
      PROVE  Bools' /\ Main' /\ Ends' /\ Rest'
  <2>1. overlap' \in BOOLEAN
    BY <1>1, <1>6, Zenon DEF Signal
  <2>2. Bools'
    BY <1>1, <1>6, <2>1, Zenon DEF Signal
  <2>3. Main' /\ Ends' /\ Rest'
    BY <1>1, <1>6, MainIsNoSignal DEF Signal, Pcs, Controls
  <2> QED BY <2>2, <2>3
<1>7. ASSUME NEW s \in Signals, Teardown(s)
      PROVE  Bools' /\ Main' /\ Ends' /\ Rest'
  <2>1. Bools'
    BY <1>1, <1>7, Zenon DEF Teardown, EndMoves, Runs
  <2>2. Main' /\ Ends' /\ pc' \in [Controls -> Pcs]
    BY <1>1, <1>7, MainIsNoSignal DEF Teardown, EndMoves, Runs, Pcs, EndPcs, Controls
  <2>3. have' \subseteq have /\ released' \in [Resources -> Nat]
    BY <1>1, <1>7, ReleaseData DEF Teardown, Resources
  <2>4. /\ UNCHANGED <<suspended, failed, acquired>>
        /\ cerver' \in {"none", "created", "serving", "deleted"}
    BY <1>1, <1>7 DEF Teardown, EndMoves, Runs
  <2> QED BY <1>1, <2>1, <2>2, <2>3, <2>4
<1>8. CASE UNCHANGED controlVars
  <2>1. Bools'
    BY <1>1, <1>8, Zenon DEF controlVars
  <2>2. Main' /\ Ends' /\ Rest'
    BY <1>1, <1>8 DEF controlVars
  <2> QED BY <2>1, <2>2
<1> HIDE DEF Bools, Main, Ends, Rest
<1> QED BY <1>3, <1>4, <1>5, <1>6, <1>7, <1>8, MainIsNoSignal, ThreadsKeepControl
        DEF Next, MainStep, EndStep, InitStep, Controls, vars


-----------------------------------------------------------------------------
(***************************************************************************)
(* The threads of control.                                                 *)
(***************************************************************************)

\* start, and the return of cerver_start.
LEMMA ServeFacts ==
  ASSUME TypeInv, Create \/ Start \/ Served
  PROVE  /\ alive /\ "main" \notin suspended /\ pc["main"] \in ServePcs
         /\ pc' = [pc EXCEPT !["main"] = pc'["main"]]
         /\ pc'["main"] \in {"start", "serve", "stop"}
         /\ \A s \in Signals : pc'[s] = pc[s]
         /\ UNCHANGED <<suspended, overlap, started, errors, alive>>
         /\ have \ {"cerver"} = have' \ {"cerver"}
         /\ acquired \subseteq acquired' /\ acquired' \subseteq acquired \cup {"cerver"}
<1>1. \E from \in ServePcs, to \in {"start", "serve", "stop"} : ServeMoves(from, to)
  BY DEF Create, Start, Served, ServePcs
<1>2. /\ have \ {"cerver"} = have' \ {"cerver"}
      /\ acquired \subseteq acquired' /\ acquired' \subseteq acquired \cup {"cerver"}
  BY DEF Create, Start, Served, Acquire, Release
<1> QED BY <1>1, <1>2, MainIsNoSignal DEF ServeMoves, Runs, TypeInv

\* end() runs.
LEMMA SignalFacts ==
  ASSUME TypeInv, NEW s \in Signals, Signal(s)
  PROVE  /\ alive /\ pc[s] = "idle" /\ pc'[s] = "teardown"
         /\ \A c \in Controls : c # s => pc'[c] = pc[c]
         /\ pc'["main"] = pc["main"] /\ suspended \subseteq suspended'
         /\ \/ /\ "main" \notin suspended /\ suspended' = suspended \cup {"main"}
               /\ overlap' = (overlap \/ pc["main"] \in EndPcs)
            \/ /\ \E t \in Signals \ suspended :
                    pc[t] # "idle" /\ suspended' = suspended \cup {t}
               /\ overlap'
            \/ /\ "worker" \in have \/ cerver = "serving"
               /\ overlap' /\ suspended' = suspended
         /\ UNCHANGED <<started, errors, have, cerver, alive, failed, acquired, released>>
<1>1. /\ alive /\ pc[s] = "idle" /\ pc'[s] = "teardown"
      /\ \A c \in Controls : c # s => pc'[c] = pc[c]
      /\ pc'["main"] = pc["main"]
      /\ UNCHANGED <<started, errors, have, cerver, alive, failed, acquired, released>>
  BY MainIsNoSignal DEF Signal, TypeInv, Controls
<1>2. \/ /\ "main" \notin suspended /\ suspended' = suspended \cup {"main"}
         /\ overlap' = (overlap \/ pc["main"] \in EndPcs)
      \/ /\ \E t \in Signals \ suspended :
              pc[t] # "idle" /\ suspended' = suspended \cup {t}
         /\ overlap'
      \/ /\ "worker" \in have \/ cerver = "serving"
         /\ overlap' /\ suspended' = suspended
  <2>1. CASE \E c \in Controls \ suspended :
               /\ pc[c] # "idle"
               /\ suspended' = suspended \cup {c}
               /\ overlap' = (overlap \/ c # "main" \/ pc["main"] \in EndPcs)
    <3>1. PICK c \in Controls \ suspended :
               /\ pc[c] # "idle"
               /\ suspended' = suspended \cup {c}
               /\ overlap' = (overlap \/ c # "main" \/ pc["main"] \in EndPcs)
      BY <2>1
    <3>2. CASE c = "main"
      BY <3>1, <3>2
    <3>3. CASE c # "main"
      BY <3>1, <3>3 DEF Controls
    <3> QED BY <3>2, <3>3
  <2>2. CASE ("worker" \in have \/ cerver = "serving") /\ overlap' = TRUE /\ UNCHANGED suspended
    BY <2>2
  <2> QED BY <2>1, <2>2 DEF Signal
<1> QED BY <1>1, <1>2

\* cerver_teardown.
LEMMA TeardownFacts ==
  ASSUME TypeInv, NEW s \in Signals, Teardown(s)
  PROVE  /\ alive /\ s \notin suspended /\ pc[s] = "teardown" /\ pc'[s] = "stop"
         /\ \A c \in Controls : c # s => pc'[c] = pc[c]
         /\ pc'["main"] = pc["main"]
         /\ UNCHANGED <<suspended, overlap, started, errors, alive, failed, acquired>>
         /\ \/ cerver = "none" /\ UNCHANGED <<cerver, have, released>>
            \/ cerver # "none" /\ cerver' = "deleted" /\ Release("cerver")
         /\ have \ {"cerver"} = have' \ {"cerver"}
<1>1. EndMoves(s, "teardown", "stop") /\ s \in Controls /\ s # "main" /\ alive' = alive
      /\ \/ cerver = "none" /\ UNCHANGED <<cerver, have, released>>
         \/ cerver # "none" /\ cerver' = "deleted" /\ Release("cerver")
  BY MainIsNoSignal DEF Teardown, Controls
<1> QED BY <1>1, MainIsNoSignal DEF EndMoves, Runs, TypeInv, Release

\* The kinds of steps.
LEMMA StepKinds ==
  ASSUME [Next]_vars
  PROVE  \/ InitStep
         \/ Create \/ Start \/ Served
         \/ \E c \in Controls : ServiceEnd(c)
         \/ \E s \in Signals : Signal(s)
         \/ \E s \in Signals : Teardown(s)
         \/ UNCHANGED controlVars
BY ThreadsKeepControl, MainIsNoSignal DEF Next, MainStep, EndStep, InitStep, Controls, vars

LEMMA SignalStep == TypeInv /\ SignalInv /\ [Next]_vars => SignalInv'
<1> SUFFICES ASSUME TypeInv, SignalInv, [Next]_vars
             PROVE  SignalInv'
  OBVIOUS
<1>1. CASE InitStep
  <2>1. pc'["main"] \in InitPcs \cup {"create"} => cerver' = "none"
    BY <1>1, InitFacts DEF SignalInv
  <2>2. pc'["main"] \in Early => pc["main"] \in Early /\ ("worker" \in have' => "worker" \in have)
    BY <1>1, InitKinds DEF Goes, Misses, Errs, Gets, Early, InitPcs
  <2>3. \A c \in Controls : pc'[c] = "done" => pc[c] = "done"
    BY <1>1, InitFacts DEF Controls, InitPcs
  <2>4. \A c \in Controls : pc[c] = "done" => pc'[c] = "done"
    BY <1>1, InitFacts DEF Controls, InitPcs
  <2>5. ~overlap => \A s \in Signals : pc[s] = "idle"
    BY <1>1, InitFacts DEF SignalInv
  <2>6. alive' = alive /\ overlap' = overlap /\ suspended' = suspended
        /\ \A s \in Signals : pc'[s] = pc[s]
    BY <1>1, InitFacts
  <2>7. alive' => \A c \in Controls : pc'[c] # "done"
    BY <2>3, <2>6 DEF SignalInv
  <2>8. ~alive' => \E c \in Controls : pc'[c] = "done"
    BY <2>4, <2>6 DEF SignalInv
  <2>9. pc'["main"] \notin {"start", "serve"}
    BY <1>1, InitFacts DEF InitPcs
  <2> QED BY <2>1, <2>2, <2>5, <2>6, <2>7, <2>8, <2>9 DEF SignalInv
<1>2. CASE Create \/ Start \/ Served
  <2>1. pc'["main"] \notin InitPcs \cup {"create", "done"}
    BY <1>2, ServeFacts DEF InitPcs
  <2>2. pc["main"] # "done"
    BY <1>2, ServeFacts DEF ServePcs
  <2>3. alive' = alive /\ overlap' = overlap /\ suspended' = suspended /\ "main" \notin suspended
        /\ \A s \in Signals : pc'[s] = pc[s]
    BY <1>2, ServeFacts
  <2>4. \A c \in Controls : pc'[c] = "done" <=> pc[c] = "done"
    BY <2>1, <2>2, <2>3 DEF Controls
  <2>5. pc'["main"] \in {"start", "serve"} => cerver' # "none"
    BY <1>2, ServeKinds
  <2> QED BY <2>1, <2>3, <2>4, <2>5 DEF SignalInv, Early
<1>3. ASSUME NEW c \in Controls, ServiceEnd(c)
      PROVE  SignalInv'
  <2>1. /\ \A d \in Controls : d # c => pc'[d] = pc[d]
        /\ pc[c] \in EndPcs /\ pc'[c] \in EndPcs \cup {"done"}
    BY <1>3, EndFacts DEF TypeInv
  <2>2. /\ alive /\ c \notin suspended
        /\ UNCHANGED <<suspended, overlap, cerver>>
        /\ alive' = IF pc'[c] = "done" THEN FALSE ELSE alive
    BY <1>3, EndFacts
  <2>3. have' \subseteq have
    BY <1>3, EndFacts DEF Release
  <2>4. /\ pc'["main"] \in InitPcs \cup {"create"} => c # "main" /\ pc["main"] = pc'["main"]
        /\ c = "main" => pc["main"] \notin InitPcs
    BY <2>1, MainIsNoSignal DEF InitPcs, EndPcs
  <2>5. \A s \in Signals : pc'[s] = "idle" <=> pc[s] = "idle"
    BY <2>1 DEF EndPcs, Controls
  <2>6. /\ alive' => \A d \in Controls : pc'[d] # "done"
        /\ ~alive' => \E d \in Controls : pc'[d] = "done"
    BY <2>1, <2>2 DEF SignalInv
  <2>7. ~overlap => \A s \in Signals : pc[s] # "idle" => c # "main"
    BY <2>2 DEF SignalInv
  <2>8. c # "main" => pc'["main"] = pc["main"]
    BY <2>1, MainIsNoSignal
  <2>9. pc'["main"] \in {"start", "serve"} => pc["main"] = pc'["main"]
    BY <2>1, <2>8 DEF EndPcs
  <2> QED BY <2>2, <2>3, <2>4, <2>5, <2>6, <2>7, <2>8, <2>9 DEF SignalInv, Early
<1>4. ASSUME NEW s \in Signals, Signal(s)
      PROVE  SignalInv'
  <2>1. pc["main"] \in Early => pc["main"] \notin EndPcs /\ ~("worker" \in have \/ cerver = "serving")
    BY DEF SignalInv, Early, InitPcs, EndPcs
  <2>2. pc["main"] \in Early => "main" \in suspended'
    BY <1>4, <2>1, SignalFacts DEF SignalInv
  <2>3. \A c \in Controls : pc'[c] = "done" <=> pc[c] = "done"
    BY <1>4, SignalFacts DEF Controls
  <2>4. alive /\ alive' = alive
    BY <1>4, SignalFacts
  <2>5. pc["main"] # "done"
    BY <2>4, MainIsNoSignal DEF SignalInv
  <2>6. ~overlap' =>
          /\ ~overlap /\ "main" \notin suspended /\ suspended' = suspended \cup {"main"}
          /\ pc["main"] \notin EndPcs
    BY <1>4, SignalFacts
  <2>7. ~overlap' => \A t \in Signals : pc[t] = "idle"
    BY <2>6 DEF SignalInv
  <2>8. \A t \in Signals : t # s => pc'[t] = pc[t]
    BY <1>4, SignalFacts DEF Controls
  <2>9. pc'["main"] = pc["main"] /\ UNCHANGED <<cerver, have>>
    BY <1>4, SignalFacts
  <2> QED BY <2>2, <2>3, <2>4, <2>5, <2>6, <2>7, <2>8, <2>9 DEF SignalInv
<1>5. ASSUME NEW s \in Signals, Teardown(s)
      PROVE  SignalInv'
  <2>1. /\ \A c \in Controls : pc'[c] = "done" <=> pc[c] = "done"
        /\ \A t \in Signals : pc'[t] = "idle" <=> pc[t] = "idle"
    BY <1>5, TeardownFacts DEF Controls
  <2>2. pc["main"] \in InitPcs \cup {"create"} => cerver' = "none"
    BY <1>5, TeardownFacts DEF SignalInv
  <2>3. "worker" \in have' => "worker" \in have
    BY <1>5, TeardownFacts
  <2>4. pc'["main"] = pc["main"] /\ alive' = alive /\ overlap' = overlap /\ suspended' = suspended
    BY <1>5, TeardownFacts
  <2>5. cerver' # "none" \/ cerver = "none"
    BY <1>5, TeardownFacts
  <2> QED BY <2>1, <2>2, <2>3, <2>4, <2>5 DEF SignalInv
<1>6. CASE UNCHANGED controlVars
  BY <1>6 DEF SignalInv, controlVars
<1> QED BY <1>1, <1>2, <1>3, <1>4, <1>5, <1>6, StepKinds

-----------------------------------------------------------------------------
(***************************************************************************)
(* The worker and what it uses.                                            *)
(***************************************************************************)

LEMMA WorkerStep ==
  TypeInv /\ SignalInv /\ WorkerInv /\ ReadyInv /\ [Next]_vars => WorkerInv'
<1> SUFFICES ASSUME TypeInv, SignalInv, WorkerInv, ReadyInv, [Next]_vars
             PROVE  WorkerInv'
  OBVIOUS
<1> DEFINE Used == {"mongo", "model", "redis", "values"}
<1>1. CASE InitStep
  <2>1. CASE "worker" \in have' \ have
    <3>1. /\ pc["main"] = "worker" /\ pc'["main"] = "data"
          /\ have' = have \cup {"worker"} /\ started' = started
      <4>1. \/ Gets("worker", "data", {"worker"}) /\ started' = started
            \/ \E from, to : Gets(from, to, {})
            \/ \E from, to, r : r # "worker" /\ Gets(from, to, {r})
        BY <1>1, InitKinds DEF Goes, Misses, Errs
      <4> QED BY <2>1, <4>1 DEF Gets
    <3>2. pc["main"] \in InitPcs /\ pc["main"] \in Early /\ "main" \notin suspended
      BY <1>1, <3>1, InitFacts DEF Early, InitPcs
    <3>3. ~overlap /\ \A s \in Signals : pc[s] = "idle"
      BY <3>2 DEF SignalInv
    <3>4. Gathered
      BY <3>2, <3>3 DEF ReadyInv
    <3>5. Used \subseteq have' /\ started'
      BY <3>1, <3>4 DEF Gathered, InitPcs
    <3>6. \A s \in Signals : pc'[s] \notin Past("worker")
      BY <1>1, <3>3, InitFacts, PastFacts DEF EndPcs
    <3>7. pc'["main"] \notin Past("worker")
      BY <3>1, PastFacts DEF EndPcs
    <3> QED BY <3>5, <3>6, <3>7 DEF WorkerInv, Controls
  <2>2. CASE "worker" \notin have' \ have
    <3>1. pc'["main"] \notin Past("worker")
      BY <1>1, InitFacts, PastFacts DEF InitPcs, EndPcs
    <3> QED BY <1>1, <2>2, <3>1, InitFacts DEF WorkerInv, Controls
  <2> QED BY <2>1, <2>2
<1>2. CASE Create \/ Start \/ Served
  <2>1. pc'["main"] \notin Past("worker")
    BY <1>2, ServeFacts, PastFacts DEF EndPcs
  <2> QED BY <1>2, <2>1, ServeFacts DEF WorkerInv, Controls
<1>3. ASSUME NEW c \in Controls, ServiceEnd(c)
      PROVE  WorkerInv'
  <2>1. /\ \A d \in Controls : d # c => pc'[d] = pc[d]
        /\ started' = started /\ have' \subseteq have
    BY <1>3, EndFacts DEF TypeInv, Release
  <2>2. pc[c] \in Past("worker") => "worker" \notin have
    BY DEF WorkerInv
  <2>3. "worker" \in have' => have' = have
    BY <1>3, <2>1, <2>2, EndKinds, PastFacts DEF Release, EndPcs
  <2>4. pc'[c] \in Past("worker") => "worker" \notin have'
    BY <1>3, <2>1, <2>2, EndKinds, PastFacts DEF Release, EndPcs, WorkerInv
  <2> QED BY <2>1, <2>3, <2>4 DEF WorkerInv
<1>4. ASSUME NEW s \in Signals, Signal(s)
      PROVE  WorkerInv'
  <2>1. pc'[s] \notin Past("worker")
    BY <1>4, SignalFacts, PastFacts DEF EndPcs
  <2> QED BY <1>4, <2>1, SignalFacts DEF WorkerInv
<1>5. ASSUME NEW s \in Signals, Teardown(s)
      PROVE  WorkerInv'
  <2>1. pc'[s] \notin Past("worker")
    BY <1>5, TeardownFacts, PastFacts DEF EndPcs
  <2> QED BY <1>5, <2>1, TeardownFacts DEF WorkerInv
<1>6. CASE UNCHANGED controlVars
  BY <1>6 DEF WorkerInv, controlVars
<1> QED BY <1>1, <1>2, <1>3, <1>4, <1>5, <1>6, StepKinds

LEMMA PoolStep == TypeInv /\ PoolInv /\ [Next]_vars => PoolInv'
<1> SUFFICES ASSUME TypeInv, PoolInv, [Next]_vars
             PROVE  PoolInv'
  OBVIOUS
<1>1. CASE InitStep
  <2>1. HasPool => HasPool'
    BY <1>1, InitFacts DEF HasPool
  <2>2. CASE TransInit
    BY <2>2 DEF TransInit, Tries, Acquire, Fails, PoolInv, HasPool
  <2>3. CASE ~TransInit
    <3>1. pc'["main"] \in {"worker", "data", "check"} => pc["main"] \in {"worker", "data", "check"}
      BY <1>1, <2>3, MainIsNoSignal, RunsMoves
         DEF InitStep, Env, MongoConnect, ModelInit, RedisInit, ValuesInit, ResponsesInit,
             WorkerInit, FetchData, Check, Needs, Tries, InitMoves
    <3>2. "worker" \in have' => "worker" \in have \/ pc["main"] = "worker"
      BY <1>1, InitKinds DEF Goes, Misses, Errs, Gets
    <3> QED BY <2>1, <3>1, <3>2 DEF PoolInv
  <2> QED BY <2>2, <2>3
<1>2. CASE Create \/ Start \/ Served
  BY <1>2, ServeFacts, ServeKinds DEF PoolInv, HasPool, Fails, ServePcs
<1>3. ASSUME NEW c \in Controls, ServiceEnd(c)
      PROVE  PoolInv'
  <2>1. pc'["main"] \in {"worker", "data", "check"} => pc["main"] \in {"worker", "data", "check"}
    BY <1>3, EndFacts, MainIsNoSignal DEF TypeInv, EndPcs
  <2>2. have' \subseteq have /\ ("trans" \in have => "trans" \in have') /\ failed' = failed
    BY <1>3, EndFacts DEF Release, Releasable
  <2> QED BY <2>1, <2>2 DEF PoolInv, HasPool
<1>4. ASSUME NEW s \in Signals, Signal(s)
      PROVE  PoolInv'
  BY <1>4, SignalFacts DEF PoolInv, HasPool
<1>5. ASSUME NEW s \in Signals, Teardown(s)
      PROVE  PoolInv'
  <2>1. ("trans" \in have => "trans" \in have') /\ have' \subseteq have
    BY <1>5, TeardownFacts DEF Release
  <2> QED BY <1>5, <2>1, TeardownFacts DEF PoolInv, HasPool
<1>6. CASE UNCHANGED controlVars
  BY <1>6 DEF PoolInv, HasPool, controlVars
<1> QED BY <1>1, <1>2, <1>3, <1>4, <1>5, <1>6, StepKinds

-----------------------------------------------------------------------------
(***************************************************************************)
(* What main has gathered.                                                 *)
(***************************************************************************)

LEMMA ReadyStep == TypeInv /\ SignalInv /\ ReadyInv /\ [Next]_vars => ReadyInv'
<1> SUFFICES ASSUME TypeInv, SignalInv, ReadyInv, [Next]_vars
             PROVE  ReadyInv'
  OBVIOUS
<1> DEFINE Quiet == \A s \in Signals : pc[s] \in {"idle", "teardown"}
           Fed   == failed \cap NeededCalls = {}
           Going == pc["main"] \in InitPcs => Fed
           Has   == ~overlap /\ Fed /\ Quiet => Gathered
           Up    == cerver = "serving" /\ ~overlap => pc["main"] = "serve" /\ Quiet
<1>0. Going /\ Has /\ Up
  BY DEF ReadyInv
<1>1. CASE InitStep
  <2>1. pc["main"] \in InitPcs /\ Fed
    BY <1>0, <1>1, InitFacts
  <2>2. Going'
    BY <1>1, <2>1, InitKinds DEF Goes, Misses, Errs, Gets, InitPcs, NeededCalls
  <2>3. ASSUME ~overlap', Fed', Quiet'
        PROVE  Gathered'
    <3>1. Gathered
      BY <1>0, <1>1, <2>1, <2>3, InitFacts
    <3>2. ~Misses("env", {}) /\ ~Misses("mongo", {}) /\ ~Misses("mongo", {"mongo"})
          /\ ~Misses("model", {}) /\ ~Misses("redis", {}) /\ ~Misses("redis", {"redis"})
      BY <2>3 DEF Misses
    <3>3. CASE Goes("check", IF errors THEN "stop" ELSE "create", {})
      <4>1. CASE errors
        BY <3>3, <4>1 DEF Gathered, Goes, Gets, InitPcs, ServePcs
      <4>2. CASE ~errors
        BY <3>1, <3>3, <4>2 DEF Gathered, Goes, Gets, InitPcs, ServePcs
      <4> QED BY <4>1, <4>2
    <3>4. CASE \/ Goes("env", "mongo", {}) \/ Goes("mongo", "model", {"mongo"})
               \/ Goes("model", "redis", {"model"}) \/ Goes("redis", "values", {"redis"})
      BY <3>1, <3>4 DEF Gathered, Goes, Gets, InitPcs, ServePcs
    <3>5. CASE Gets("values", "responses", {"values"}) /\ started' = TRUE
      BY <3>1, <3>5 DEF Gathered, Gets, InitPcs, ServePcs
    <3>6. CASE \/ Goes("responses", "trans", {"responses"}) \/ Goes("trans", "worker", {"trans"})
               \/ Goes("worker", "data", {"worker"}) \/ Goes("data", "check", {})
      BY <3>1, <3>6 DEF Gathered, Goes, Gets, InitPcs, ServePcs
    <3>7. CASE Errs("responses", "trans") \/ Errs("trans", "worker") \/ Errs("worker", "data")
      BY <3>1, <3>7 DEF Gathered, Errs, Gets, InitPcs, ServePcs
    <3> QED BY <1>1, <3>2, <3>3, <3>4, <3>5, <3>6, <3>7, InitKinds
  <2>4. Up'
    BY <1>1, <2>1, InitFacts DEF SignalInv
  <2> QED BY <2>2, <2>3, <2>4 DEF ReadyInv
<1>2. CASE Create \/ Start \/ Served
  <2>1. /\ "main" \notin suspended /\ overlap' = overlap /\ UNCHANGED <<started, errors>>
        /\ \A s \in Signals : pc'[s] = pc[s]
    BY <1>2, ServeFacts
  <2>2. pc["main"] \in ServePcs /\ pc'["main"] \in {"start", "serve", "stop"}
    BY <1>2, ServeFacts
  <2>3. Going'
    BY <2>2 DEF InitPcs
  <2>4. ~overlap => \A s \in Signals : pc[s] = "idle"
    BY <2>1 DEF SignalInv
  <2>5. ASSUME ~overlap', Fed', Quiet'
        PROVE  Gathered'
    <3>1. failed \subseteq failed'
      BY <1>2, ServeKinds
    <3>2. Gathered
      BY <1>0, <2>1, <2>5, <3>1
    <3> QED BY <1>2, <2>1, <2>2, <3>2, ServeKinds DEF Gathered, InitPcs, ServePcs
  <2>6. cerver' = "serving" => pc'["main"] = "serve" \/ cerver = "serving"
    BY <1>2, ServeKinds
  <2>7. cerver = "serving" /\ cerver' = "serving" /\ ~overlap => pc'["main"] = "serve"
    BY <1>0, <1>2, ServeKinds
  <2>8. Up'
    BY <2>1, <2>4, <2>6, <2>7
  <2> QED BY <2>3, <2>5, <2>8 DEF ReadyInv
<1>3. ASSUME NEW c \in Controls, ServiceEnd(c)
      PROVE  ReadyInv'
  <2>1. /\ \A d \in Controls : d # c => pc'[d] = pc[d]
        /\ pc[c] \in EndPcs /\ pc'[c] \in EndPcs \cup {"done"}
        /\ UNCHANGED <<overlap, cerver, failed>>
    BY <1>3, EndFacts DEF TypeInv
  <2>2. CASE c = "main"
    <3>1. pc'["main"] \notin InitPcs \cup ServePcs /\ pc["main"] # "serve"
      BY <2>1, <2>2 DEF InitPcs, ServePcs, EndPcs
    <3>2. Gathered'
      BY <3>1 DEF Gathered, InitPcs, ServePcs
    <3> QED BY <1>0, <2>1, <3>1, <3>2 DEF ReadyInv
  <2>3. CASE c # "main"
    <3>1. c \in Signals /\ pc'["main"] = pc["main"]
      BY <2>1, <2>3, MainIsNoSignal DEF Controls
    <3>2. ~Quiet /\ ~Quiet'
      BY <2>1, <3>1 DEF EndPcs
    <3> QED BY <1>0, <2>1, <3>1, <3>2 DEF ReadyInv
  <2> QED BY <2>2, <2>3
<1>4. ASSUME NEW s \in Signals, Signal(s)
      PROVE  ReadyInv'
  <2>1. /\ pc'["main"] = pc["main"] /\ UNCHANGED <<started, errors, have, cerver, failed>>
        /\ pc[s] = "idle" /\ pc'[s] = "teardown"
        /\ \A t \in Signals : t # s => pc'[t] = pc[t]
    BY <1>4, SignalFacts DEF Controls
  <2>2. ~overlap' => ~overlap
    BY <1>4, SignalFacts
  <2>3. Quiet' <=> Quiet
    BY <2>1
  <2>4. Gathered => Gathered'
    BY <2>1 DEF Gathered
  <2> QED BY <1>0, <2>1, <2>2, <2>3, <2>4 DEF ReadyInv
<1>5. ASSUME NEW s \in Signals, Teardown(s)
      PROVE  ReadyInv'
  <2>1. /\ pc'["main"] = pc["main"] /\ failed' = failed /\ cerver' # "serving"
        /\ pc'[s] = "stop"
    BY <1>5, TeardownFacts
  <2>2. ~Quiet'
    BY <2>1
  <2> QED BY <1>0, <2>1, <2>2 DEF ReadyInv
<1>6. CASE UNCHANGED controlVars
  BY <1>6 DEF ReadyInv, Gathered, controlVars
<1> QED BY <1>1, <1>2, <1>3, <1>4, <1>5, <1>6, StepKinds

-----------------------------------------------------------------------------
(***************************************************************************)
(* What was acquired and what was released.                                *)
(***************************************************************************)

LEMMA AcquiredStep == TypeInv /\ AcquiredInv /\ [Next]_vars => AcquiredInv'
<1> SUFFICES ASSUME TypeInv, AcquiredInv, [Next]_vars
             PROVE  AcquiredInv'
  OBVIOUS
<1>1. CASE InitStep
  <2>1. started => started'
    BY <1>1, InitFacts
  <2>2. CASE Gets("values", "responses", {"values"}) /\ started' = TRUE
    BY <2>2 DEF AcquiredInv, Gets
  <2>3. CASE ~(Gets("values", "responses", {"values"}) /\ started' = TRUE)
    <3>1. pc'["main"] \in {"responses", "trans", "worker", "data", "check"} =>
            pc["main"] \in {"responses", "trans", "worker", "data", "check"}
      BY <1>1, <2>3, InitKinds DEF Goes, Misses, Errs, Gets
    <3>2. /\ "worker" \in acquired' => "worker" \in acquired \/ pc["main"] = "worker"
          /\ "responses" \in acquired' => "responses" \in acquired \/ pc["main"] = "responses"
      BY <1>1, <2>3, InitKinds DEF Goes, Misses, Errs, Gets
    <3>3. pc'["main"] = "model" \/ "model" \in acquired' => "mongo" \in acquired'
      BY <1>1, <2>3, InitKinds DEF Goes, Misses, Errs, Gets, AcquiredInv
    <3> QED BY <2>1, <3>1, <3>2, <3>3 DEF AcquiredInv
  <2> QED BY <2>2, <2>3
<1>2. CASE Create \/ Start \/ Served
  BY <1>2, ServeFacts DEF AcquiredInv
<1>3. ASSUME NEW c \in Controls, ServiceEnd(c)
      PROVE  AcquiredInv'
  <2>1. UNCHANGED <<started, acquired>>
    BY <1>3, EndFacts
  <2>2. pc'["main"] \in EndPcs \cup {"done"} \/ pc'["main"] = pc["main"]
    BY <1>3, EndFacts, MainIsNoSignal DEF TypeInv
  <2> QED BY <2>1, <2>2 DEF AcquiredInv, EndPcs
<1>4. ASSUME NEW s \in Signals, Signal(s)
      PROVE  AcquiredInv'
  BY <1>4, SignalFacts DEF AcquiredInv
<1>5. ASSUME NEW s \in Signals, Teardown(s)
      PROVE  AcquiredInv'
  BY <1>5, TeardownFacts DEF AcquiredInv
<1>6. CASE UNCHANGED controlVars
  BY <1>6 DEF AcquiredInv, controlVars
<1> QED BY <1>1, <1>2, <1>3, <1>4, <1>5, <1>6, StepKinds

\* The parts of ReleaseInv.
Counted(r) ==
  /\ released[r] = IF Released(r) THEN 1 ELSE 0
  /\ r \in acquired /\ released[r] = 0 => r \in have

CerverInv ==
  /\ "cerver" \in acquired <=> cerver # "none"
  /\ pc["main"] \in EndPcs \cup {"done"} => "cerver" \notin acquired
  /\ cerver = "deleted" => \E s \in Signals : pc[s] \in Past("cerver")

LEMMA ReleaseParts ==
  /\ ReleaseInv <=> (~overlap /\ "start" \notin failed =>
                       CerverInv /\ \A r \in Releasable : Counted(r))
BY DEF ReleaseInv, CerverInv, Counted

\* While no signals overlap, the others are not tearing down when one is.
LEMMA OneEnds ==
  ASSUME TypeInv, SignalInv, ~overlap, NEW c \in Controls, c \notin suspended,
         pc[c] # "idle"
  PROVE  \A d \in Controls : d # c => pc[d] \notin EndPcs \cup {"done"}
<1>1. CASE c = "main"
  BY <1>1 DEF SignalInv, Controls, EndPcs
<1>2. CASE c # "main"
  <2>1. c \in Signals
    BY <1>2 DEF Controls
  <2>2. pc["main"] \notin EndPcs \cup {"done"}
    BY <2>1 DEF SignalInv
  <2>3. \A s \in Signals : s # c => pc[s] = "idle"
    BY <2>1 DEF SignalInv
  <2> QED BY <2>2, <2>3 DEF Controls, EndPcs
<1> QED BY <1>1, <1>2

\* Nobody tears down while main goes on.
LEMMA MainGoesOn ==
  ASSUME TypeInv, SignalInv, ~overlap, "main" \notin suspended
  PROVE  \A s \in Signals : pc[s] = "idle"
BY DEF SignalInv

LEMMA NothingReleased ==
  ASSUME TypeInv, NEW r \in Releasable,
         \A c \in Controls : pc[c] \notin EndPcs \cup {"done"}
  PROVE  ~Released(r)
BY PastIsEnding DEF Released

LEMMA ReleaseStep ==
  TypeInv /\ SignalInv /\ AcquiredInv /\ ReleaseInv /\ [Next]_vars => ReleaseInv'
<1> SUFFICES ASSUME TypeInv, SignalInv, AcquiredInv, ReleaseInv, [Next]_vars,
                    ~overlap', "start" \notin failed'
             PROVE  CerverInv' /\ \A r \in Releasable : Counted(r)'
  BY ReleaseParts DEF ReleaseInv, CerverInv, Counted
<1>0. ~overlap /\ "start" \notin failed => CerverInv /\ \A r \in Releasable : Counted(r)
  BY ReleaseParts
<1>r. Releasable \subseteq Resources
  BY DEF Releasable
<1>1. CASE InitStep
  <2>1. /\ CerverInv /\ \A r \in Releasable : Counted(r)
        /\ ~overlap /\ "main" \notin suspended /\ pc["main"] \in InitPcs
        /\ UNCHANGED <<cerver, released>>
        /\ \A s \in Signals : pc'[s] = pc[s]
    BY <1>0, <1>1, InitFacts
  <2>2. \A s \in Signals : pc[s] = "idle"
    BY <2>1, MainGoesOn
  <2>3. cerver = "none" /\ "cerver" \notin acquired
    BY <2>1 DEF SignalInv, CerverInv
  <2>4. "cerver" \notin acquired'
    BY <1>1, <2>3, InitFacts
  <2>5. CerverInv'
    BY <2>1, <2>3, <2>4 DEF CerverInv
  <2>6. ASSUME NEW r \in Releasable
        PROVE  Counted(r)'
    <3>1. ~Released(r)
      BY <2>1, <2>2, NothingReleased DEF Controls, InitPcs, EndPcs
    <3>2. released[r] = 0 /\ (r \in acquired => r \in have)
      BY <2>1, <3>1 DEF Counted
    <3>3. r \in acquired' => r \in have'
      BY <1>1, <3>2, InitFacts
    <3>4. r # "cerver" => \A c \in Controls : pc'[c] \notin Past(r)
      <4>1. pc'["main"] \in InitPcs \cup {"create", "stop"}
        BY <1>1, InitFacts
      <4>2. r # "cerver" => pc'["main"] \notin Past(r)
        BY <4>1, PastFacts DEF Releasable, Resources, InitPcs, EndPcs
      <4>3. \A s \in Signals : pc'[s] \notin Past(r)
        BY <2>1, <2>2, PastIsEnding DEF EndPcs
      <4> QED BY <4>2, <4>3 DEF Controls
    <3>5. ~Released(r)'
      BY <2>4, <3>4 DEF Released
    <3> QED BY <2>1, <3>2, <3>3, <3>5 DEF Counted
  <2> QED BY <2>5, <2>6
<1>2. CASE Create \/ Start \/ Served
  <2>0. failed \subseteq failed'
    BY <1>2, ServeKinds
  <2>1. /\ CerverInv /\ \A r \in Releasable : Counted(r)
        /\ ~overlap /\ "main" \notin suspended /\ pc["main"] \in ServePcs
        /\ \A s \in Signals : pc'[s] = pc[s]
    BY <1>0, <1>2, <2>0, ServeFacts
  <2>2. \A s \in Signals : pc[s] = "idle"
    BY <2>1, MainGoesOn
  <2>3. cerver # "deleted"
    BY <2>1, <2>2, PastFacts DEF CerverInv, EndPcs
  <2>4. \/ /\ pc["main"] = "create" /\ pc'["main"] = "start" /\ cerver' = "created"
           /\ have' = have \cup {"cerver"} /\ acquired' = acquired \cup {"cerver"}
           /\ released' = released
        \/ /\ pc["main"] = "create" /\ pc'["main"] = "stop"
           /\ UNCHANGED <<cerver, have, acquired, released>>
        \/ /\ pc["main"] = "start" /\ pc'["main"] = "serve" /\ cerver' = "serving"
           /\ UNCHANGED <<have, acquired, released>>
    BY <1>2, <2>3, ServeKinds
  <2>5. pc["main"] = "create" => cerver = "none" /\ "cerver" \notin acquired
    BY <2>1 DEF SignalInv, CerverInv
  <2>6. pc["main"] = "start" => "cerver" \in acquired
    BY <2>1 DEF SignalInv, CerverInv
  <2>7. CerverInv'
    BY <2>1, <2>3, <2>4, <2>5, <2>6 DEF CerverInv, EndPcs
  <2>8. ASSUME NEW r \in Releasable
        PROVE  Counted(r)'
    <3>1. ~Released(r)
      BY <2>1, <2>2, NothingReleased DEF Controls, ServePcs, EndPcs
    <3>2. released[r] = 0 /\ (r \in acquired => r \in have)
      BY <2>1, <3>1 DEF Counted
    <3>3. released' = released /\ (r \in acquired' => r \in have')
      BY <2>4, <3>2
    <3>4. r = "cerver" /\ r \in acquired' => pc'["main"] \notin Past(r)
      BY <2>4, <2>5, PastFacts DEF EndPcs
    <3>5. r # "cerver" => pc'["main"] \notin Past(r)
      BY <2>4, PastFacts DEF Releasable, Resources, EndPcs
    <3>6. \A s \in Signals : pc'[s] \notin Past(r)
      BY <2>1, <2>2, PastIsEnding DEF EndPcs
    <3>7. ~Released(r)'
      BY <3>4, <3>5, <3>6 DEF Released, Controls
    <3> QED BY <3>2, <3>3, <3>7 DEF Counted
  <2> QED BY <2>7, <2>8
<1>3. ASSUME NEW c \in Controls, ServiceEnd(c)
      PROVE  CerverInv' /\ \A r \in Releasable : Counted(r)'
  <2>1. /\ CerverInv /\ \A r \in Releasable : Counted(r)
        /\ ~overlap /\ c \notin suspended /\ pc[c] \in EndPcs
        /\ pc'[c] \in (EndPcs \ {"stop"}) \cup {"done"}
        /\ UNCHANGED <<acquired, cerver>>
    BY <1>0, <1>3, EndFacts
  <2>2. \A d \in Controls : d # c => pc'[d] = pc[d]
    BY <1>3, EndFacts DEF TypeInv
  <2>3. \A d \in Controls : d # c => pc[d] \notin EndPcs \cup {"done"}
    BY <2>1, OneEnds DEF EndPcs
  <2>4. CerverInv'
    <3>1. pc'["main"] \in EndPcs \cup {"done"} => pc["main"] \in EndPcs \cup {"done"}
      BY <2>1, <2>2, MainIsNoSignal
    <3>2. \A s \in Signals : pc[s] \in Past("cerver") => pc'[s] \in Past("cerver")
      BY <2>1, <2>2, PastFacts DEF Controls
    <3> QED BY <2>1, <3>1, <3>2 DEF CerverInv
  <2>5. ASSUME NEW r \in Releasable
        PROVE  Counted(r)'
    <3> DEFINE was == r \in acquired /\ pc[c] \in Past(r)
               is  == r \in acquired /\ pc'[c] \in Past(r)
    <3>1. /\ Released(r) <=> was
          /\ Released(r)' <=> is
      BY <2>1, <2>2, <2>3, PastIsEnding DEF Released
    <3>2. /\ released[r] = IF was THEN 1 ELSE 0
          /\ r \in acquired /\ released[r] = 0 => r \in have
      BY <2>1, <3>1 DEF Counted
    <3> DEFINE Keeps  == /\ was <=> is
                         /\ released'[r] = released[r] /\ (r \in have => r \in have')
               Counts == /\ ~was /\ (r \in acquired <=> is)
                         /\ released'[r] = IF r \in acquired THEN released[r] + 1 ELSE released[r]
    <3>0. SUFFICES Keeps \/ Counts
      <4> HIDE DEF was, is
      <4>1. ASSUME Keeps
            PROVE  Counted(r)'
        BY <2>1, <3>1, <3>2, <4>1 DEF Counted
      <4>2. ASSUME Counts
            PROVE  Counted(r)'
        BY <2>1, <3>1, <3>2, <4>2 DEF Counted
      <4> QED BY <4>1, <4>2
    <3>3. r \in {"mongo", "model", "redis", "responses", "worker", "cerver"}
      BY DEF Releasable, Resources
    <3>4. ASSUME NEW q \in Releasable, Release(q)
          PROVE  /\ released'[q] = IF q \in acquired THEN released[q] + 1 ELSE released[q]
                 /\ r # q => released'[r] = released[r] /\ (r \in have => r \in have')
      BY <1>r, <3>4, ReleaseData
    <3>5. CASE pc[c] = "stop"
      <4>1. UNCHANGED <<have, released>>
        BY <1>3, <3>5, EndKinds
      <4>2. (started /\ pc'[c] = "worker_end") \/ (~started /\ pc'[c] = "model_end")
        BY <1>3, <3>5, EndKinds
      <4>3. ~started => "worker" \notin acquired
        BY DEF AcquiredInv
      <4>4. was <=> is
        BY <3>3, <3>5, <4>2, <4>3, PastFacts DEF EndPcs
      <4> QED BY <4>1, <4>4
    <3>6. CASE pc[c] = "worker_end"
      <4>1. Release("worker") /\ pc'[c] = "model_end" /\ "worker" \in Releasable
        BY <1>3, <3>6, EndKinds DEF Releasable, Resources
      <4>2. r # "worker" => (was <=> is)
        BY <3>3, <3>6, <4>1, PastFacts DEF EndPcs
      <4>3. r = "worker" => ~was /\ (r \in acquired <=> is)
        BY <3>6, <4>1, PastFacts DEF EndPcs
      <4> QED BY <3>4, <4>1, <4>2, <4>3
    <3>7. CASE pc[c] = "model_end" /\ pc'[c] # "credis_end"
      <4>1. Release("model") /\ pc'[c] = "disconnect" /\ "model" \in Releasable
        BY <1>3, <3>7, EndKinds DEF Releasable, Resources
      <4>2. r # "model" => (was <=> is)
        BY <3>3, <3>7, <4>1, PastFacts DEF EndPcs
      <4>3. r = "model" => ~was /\ (r \in acquired <=> is)
        BY <3>7, <4>1, PastFacts DEF EndPcs
      <4> QED BY <3>4, <4>1, <4>2, <4>3
    <3>8. CASE pc[c] = "model_end" /\ pc'[c] = "credis_end"
      <4>1. UNCHANGED <<have, released>> /\ "mongo" \notin have
        BY <1>3, <3>8, EndKinds
      <4>2. "mongo" \notin acquired
        <5>1. Counted("mongo")
          BY <2>1 DEF Releasable, Resources
        <5>2. ~Released("mongo")
          BY <2>3, <3>8, PastFacts DEF Released, EndPcs
        <5> QED BY <4>1, <5>1, <5>2 DEF Counted
      <4>3. "model" \notin acquired
        BY <4>2 DEF AcquiredInv
      <4>4. was <=> is
        BY <3>3, <3>8, <4>2, <4>3, PastFacts DEF EndPcs
      <4> QED BY <4>1, <4>4
    <3>9. CASE pc[c] = "disconnect"
      <4>1. Release("mongo") /\ pc'[c] = "credis_end" /\ "mongo" \in Releasable
        BY <1>3, <3>9, EndKinds DEF Releasable, Resources
      <4>2. r # "mongo" => (was <=> is)
        BY <3>3, <3>9, <4>1, PastFacts DEF EndPcs
      <4>3. r = "mongo" => ~was /\ (r \in acquired <=> is)
        BY <3>9, <4>1, PastFacts DEF EndPcs
      <4> QED BY <3>4, <4>1, <4>2, <4>3
    <3>10. CASE pc[c] = "credis_end"
      <4>1. Release("redis") /\ "redis" \in Releasable
        BY <1>3, <3>10, EndKinds DEF Releasable, Resources
      <4>2. (started /\ pc'[c] = "responses_end") \/ (~started /\ pc'[c] = "exit")
        BY <1>3, <3>10, EndKinds
      <4>3. ~started => "responses" \notin acquired
        BY DEF AcquiredInv
      <4>4. r # "redis" => (was <=> is)
        BY <3>3, <3>10, <4>2, <4>3, PastFacts DEF EndPcs
      <4>5. r = "redis" => ~was /\ (r \in acquired <=> is)
        BY <3>10, <4>2, PastFacts DEF EndPcs
      <4> QED BY <3>4, <4>1, <4>4, <4>5
    <3>11. CASE pc[c] = "responses_end"
      <4>1. Release("responses") /\ pc'[c] = "exit" /\ "responses" \in Releasable
        BY <1>3, <3>11, EndKinds DEF Releasable, Resources
      <4>2. r # "responses" => (was <=> is)
        BY <3>3, <3>11, <4>1, PastFacts DEF EndPcs
      <4>3. r = "responses" => ~was /\ (r \in acquired <=> is)
        BY <3>11, <4>1, PastFacts DEF EndPcs
      <4> QED BY <3>4, <4>1, <4>2, <4>3
    <3>12. CASE pc[c] = "exit"
      <4>1. UNCHANGED <<have, released>> /\ pc'[c] = "done"
        BY <1>3, <3>12, EndKinds
      <4>2. was <=> is
        BY <3>3, <3>12, <4>1, PastFacts DEF EndPcs
      <4> QED BY <4>1, <4>2
    <3> QED
      <4>1. pc[c] \in EndPcs
        BY <2>1
      <4> QED BY <3>5, <3>6, <3>7, <3>8, <3>9, <3>10, <3>11, <3>12, <4>1 DEF EndPcs
  <2> QED BY <2>4, <2>5
<1>4. ASSUME NEW s \in Signals, Signal(s)
      PROVE  CerverInv' /\ \A r \in Releasable : Counted(r)'
  <2>1. /\ CerverInv /\ \A r \in Releasable : Counted(r)
        /\ pc[s] = "idle" /\ pc'[s] = "teardown"
        /\ \A c \in Controls : c # s => pc'[c] = pc[c]
        /\ pc'["main"] = pc["main"]
        /\ UNCHANGED <<have, cerver, acquired, released>>
    BY <1>0, <1>4, SignalFacts
  <2>2. \A r \in Releasable, c \in Controls : pc'[c] \in Past(r) <=> pc[c] \in Past(r)
    BY <2>1, PastIsEnding DEF EndPcs
  <2>3. CerverInv'
    BY <2>1, <2>2 DEF CerverInv, Controls, Releasable, Resources
  <2>4. \A r \in Releasable : Released(r)' <=> Released(r)
    BY <2>1, <2>2 DEF Released
  <2>5. ASSUME NEW r \in Releasable
        PROVE  Counted(r)'
    BY <2>1, <2>4 DEF Counted
  <2> QED BY <2>3, <2>5
<1>5. ASSUME NEW s \in Signals, Teardown(s)
      PROVE  CerverInv' /\ \A r \in Releasable : Counted(r)'
  <2>1. /\ CerverInv /\ \A r \in Releasable : Counted(r)
        /\ ~overlap /\ s \in Controls /\ s \notin suspended
        /\ pc[s] = "teardown" /\ pc'[s] = "stop"
        /\ \A c \in Controls : c # s => pc'[c] = pc[c]
        /\ pc'["main"] = pc["main"] /\ acquired' = acquired
    BY <1>0, <1>5, TeardownFacts DEF Controls
  <2>2. \A c \in Controls : pc[c] \notin EndPcs \cup {"done"}
    BY <2>1, OneEnds DEF EndPcs
  <2>3. \/ cerver = "none" /\ UNCHANGED <<cerver, have, released>>
        \/ cerver # "none" /\ cerver' = "deleted" /\ Release("cerver")
    BY <1>5, TeardownFacts
  <2>4. pc'[s] \in Past("cerver") /\ "main" \in Controls
    BY <2>1, PastFacts, MainIsNoSignal DEF EndPcs
  <2>5. CerverInv'
    BY <2>1, <2>2, <2>3, <2>4 DEF CerverInv
  <2>6. ASSUME NEW r \in Releasable
        PROVE  Counted(r)'
    <3>1. released[r] = 0 /\ (r \in acquired => r \in have)
      BY <2>1, <2>2, NothingReleased DEF Counted
    <3>2. CASE r = "cerver"
      <4>1. Released(r)' <=> r \in acquired
        BY <2>1, <2>4, <3>2 DEF Released
      <4>2. cerver = "none" => r \notin acquired
        BY <2>1, <3>2 DEF CerverInv
      <4>3. released'[r] = IF r \in acquired THEN 1 ELSE 0
        BY <1>r, <2>3, <3>1, <3>2, <4>2, ReleaseData
      <4> QED BY <2>1, <4>1, <4>3 DEF Counted
    <3>3. CASE r # "cerver"
      <4>1. pc'[s] \notin Past(r)
        BY <2>1, <3>3, PastFacts DEF Releasable, Resources
      <4>2. \A c \in Controls : pc'[c] \notin Past(r)
        BY <2>1, <2>2, <4>1, PastIsEnding
      <4>3. ~Released(r)'
        BY <4>2 DEF Released
      <4>4. released'[r] = released[r] /\ (r \in have => r \in have')
        BY <1>r, <2>3, <3>3, ReleaseData DEF Releasable, Resources
      <4> QED BY <2>1, <3>1, <4>3, <4>4 DEF Counted
    <3> QED BY <3>2, <3>3
  <2> QED BY <2>5, <2>6
<1>6. CASE UNCHANGED controlVars
  <2>1. ~overlap /\ "start" \notin failed
    BY <1>6 DEF controlVars
  <2>2. CerverInv'
    BY <1>0, <1>6, <2>1 DEF CerverInv, controlVars
  <2>3. \A r \in Releasable : Counted(r)'
    BY <1>0, <1>6, <2>1 DEF Counted, Released, controlVars
  <2> QED BY <2>2, <2>3
<1> QED BY <1>1, <1>2, <1>3, <1>4, <1>5, <1>6, StepKinds

-----------------------------------------------------------------------------
(***************************************************************************)
(* The theorems.                                                           *)
(***************************************************************************)

LEMMA InitInv == Init => IInv
<1> SUFFICES ASSUME Init
             PROVE  IInv
  OBVIOUS
<1>1. TypeInv
  <2>1. ThreadTypes
    BY DEF Init, ThreadTypes
  <2>2. /\ pc["main"] = "env" /\ \A s \in Signals : pc[s] = "idle"
        /\ pc \in [Controls -> Pcs]
    BY MainIsNoSignal DEF Init, Pcs, InitPcs, Controls
  <2>3. released \in [Resources -> Nat]
    BY DEF Init
  <2>4. /\ suspended = {} /\ have = {} /\ acquired = {} /\ failed = {} /\ cerver = "none"
        /\ started \in BOOLEAN /\ errors \in BOOLEAN /\ alive \in BOOLEAN
        /\ overlap \in BOOLEAN
    BY DEF Init
  <2> QED BY <2>1, <2>2, <2>3, <2>4 DEF TypeInv, TypeOK, ThreadTypes, InitPcs
<1>2. \A c \in Controls : pc[c] \notin EndPcs \cup {"done"}
  BY DEF Init, EndPcs
<1>3. SignalInv
  BY <1>2, MainIsNoSignal DEF Init, SignalInv, Controls, InitPcs, EndPcs
<1>4. WorkerInv
  BY <1>2, PastFacts DEF Init, WorkerInv
<1>5. ReadyInv
  BY MainIsNoSignal DEF Init, ReadyInv, Gathered, InitPcs, ServePcs, Controls
<1>6. AcquiredInv
  BY MainIsNoSignal DEF Init, AcquiredInv
<1>7. CerverInv
  BY <1>2 DEF Init, CerverInv, Controls
<1>8. \A r \in Releasable : Counted(r)
  BY DEF Init, Counted, Released, Releasable
<1>9. PoolInv
  BY MainIsNoSignal DEF Init, PoolInv, Controls
<1> QED BY <1>1, <1>3, <1>4, <1>9, <1>5, <1>6, <1>7, <1>8, ReleaseParts DEF IInv

LEMMA NextInv == IInv /\ [Next]_vars => IInv'
BY TypeStep, SignalStep, WorkerStep, PoolStep, ReadyStep, AcquiredStep, ReleaseStep DEF IInv

\* What each thread of control may still do, what main has gathered and what
\* was released, in every state of the process.
THEOREM LifecycleInvariant == Spec => []IInv
BY InitInv, NextInv, PTL DEF Spec

\* The variables keep the types of main.c and service.c.
THEOREM TypeCorrect == Spec => []TypeOK
<1>1. IInv => TypeOK
  BY DEF IInv, TypeInv
<1> QED BY <1>1, LifecycleInvariant, PTL

\* The worker never runs without Mongo, Redis, the values and, if there is one, the
\* pool, wherever signals come and however many teardowns overlap.
THEOREM WorkerHasWhatItUsesCorrect == Spec => []WorkerHasWhatItUses
<1>1. IInv => WorkerHasWhatItUses
  BY DEF IInv, WorkerInv, PoolInv, HasPool, WorkerHasWhatItUses
<1> QED BY <1>1, LifecycleInvariant, PTL

\* A service that serves has all it relies on, but for the calls whose failure
\* main does not see and for the signals that other threads handle.
THEOREM ServesReadyCorrect == Spec => []ServesReady
<1>1. IInv => ServesReady
  <2> SUFFICES ASSUME IInv, cerver = "serving", ~overlap, failed \cap NeededCalls = {}
               PROVE  Resources \subseteq have
    BY DEF ServesReady, NeededCalls
  <2>1. pc["main"] = "serve" /\ Gathered
    BY DEF IInv, ReadyInv
  <2> QED BY <2>1 DEF Gathered, Resources, InitPcs, ServePcs
<1> QED BY <1>1, LifecycleInvariant, PTL

\* What was acquired is released once by the end, but for overlapping signals
\* and for the cerver that start deleted.
THEOREM ReleasedOnceCorrect == Spec => []ReleasedOnce
<1>1. IInv => ReleasedOnce
  <2> SUFFICES ASSUME IInv, ~overlap, "start" \notin failed, NEW r \in Releasable
               PROVE  /\ released[r] <= 1
                      /\ ~alive /\ r \in acquired => released[r] = 1
    BY DEF ReleasedOnce
  <2>1. Counted(r)
    BY ReleaseParts DEF IInv
  <2>2. ~alive /\ r \in acquired => Released(r)
    BY PastIsEnding DEF IInv, SignalInv, Released
  <2> QED BY <2>1, <2>2 DEF Counted
<1> QED BY <1>1, LifecycleInvariant, PTL

=============================================================================
