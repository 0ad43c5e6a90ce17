------------------------ MODULE TransPipelineProofs ------------------------
(***************************************************************************)
(* Proofs about TransPipeline for every number of handlers, transactions   *)
(* and objects: type correctness, the ownership of Transaction objects,    *)
(* that none is forgotten, what the counters count, what becomes of a      *)
(* listed transaction, and the refinement of WorkQueue.                    *)
(*                                                                         *)
(* TypeOK is not inductive.  That the id that is appended to the list is   *)
(* one of a transaction needs to know what is in the object of a handler,  *)
(* which needs to know that nobody else writes into it.  So the invariant  *)
(* describes each actor that may have an object: what it has, what is      *)
(* stored there, and that nobody else has it.                              *)
(***************************************************************************)
EXTENDS TransPipeline, SeqLemmas, FiniteSetTheorems, TLAPS

\* The object of the handler holds the id of its request.
Filled == {"insert", "receive", "add", "push"}

\* The request has an id that db does not yet know, or already knows.
Unstored == {"insert"}
Stored   == {"receive", "add", "push", "good", "respond"}

\* s is allocated and not in the pool.
Taken(s) == s \in heap /\ s \notin pool

\* Handlers have objects of their own, filled with the id of the request, and
\* are idle unless the service is up.
HandlerInv ==
  /\ \A h \in Handlers : pc[h] \in Holding => Taken(slot[h])
  /\ \A h, k \in Handlers :
       pc[h] \in Holding /\ pc[k] \in Holding /\ slot[h] = slot[k] => h = k
  /\ \A h \in Handlers : pc[h] \in Filled => mem[slot[h]] = req[h]
  /\ \A h \in Handlers : pc[h] \in Unstored \cup Stored => req[h] \in Trans
  /\ \A h \in Handlers : main # "up" => pc[h] = "idle"

\* An object is queued once, with a transaction in it, and no handler has it.
QueueInv ==
  /\ NoRepeats(queue, NoSlot)
  /\ \A s \in Queued : Taken(s) /\ mem[s] \in Trans
  /\ \A h \in Handlers : pc[h] \in Holding => slot[h] \notin Queued

\* The object that the worker thread pulled is out of the queue.
WorkerInv ==
  /\ wslot # NoSlot => /\ Taken(wslot)
                       /\ mem[wslot] \in Trans
                       /\ wslot \notin Queued
                       /\ \A h \in Handlers : pc[h] \in Holding => slot[h] # wslot
  /\ wpc = "wait" => wslot = NoSlot
  /\ wpc \notin {"wait", "set"} => wslot # NoSlot

\* The main thread has an object only between its lookup and its push, and
\* nothing is left when the process is down.
MainInv ==
  /\ bslot # NoSlot => /\ Taken(bslot)
                       /\ mem[bslot] \in Trans
                       /\ bslot \notin Queued
                       /\ bslot # wslot
                       /\ main \in {"count", "push"}
  /\ main \in {"count", "push"} => reply # <<>>
  /\ main = "down" => wpc = "wait" /\ queue = <<>>

\* An id is listed once, after it was stored; requests have different ids.
ListInv ==
  /\ NoRepeats(list, NoTrans)
  /\ \A t \in ToSet(list) : db[t] # "absent"
  /\ \A h, k \in Handlers : req[h] = req[k] /\ req[h] # NoTrans => h = k
  /\ \A h \in Handlers : pc[h] \in {"insert", "receive", "add"} => req[h] \notin ToSet(list)
  /\ \A h \in Handlers : pc[h] \in Stored => db[req[h]] # "absent"

OwnersInv == HandlerInv /\ QueueInv /\ WorkerInv /\ MainInv /\ ListInv

IInv == TypeOK /\ OwnersInv

-----------------------------------------------------------------------------
(***************************************************************************)
(* The handlers.                                                           *)
(***************************************************************************)

\* A step of a handler that moves on to a point about which the invariant says
\* no more, and changes nothing but counters, preserves who has which object.
LEMMA QuietHandlerStep ==
  ASSUME IInv, main = "up",
         NEW h \in Handlers, NEW from, NEW to, HandlerMoves(h, from, to),
         UNCHANGED <<slot, req, queue, mem, pool, heap, list, db>>,
         to \in Holding => from \in Holding,
         to \in Filled => from \in Filled,
         to \in Unstored \cup Stored => from \in Unstored \cup Stored,
         to \in {"insert", "receive", "add"} => from \in {"insert", "receive", "add"},
         to \in Stored => from \in Stored
  PROVE  OwnersInv'
<1> USE DEF IInv, OwnersInv, HandlerMoves, mainVars, Taken, Queued
<1>1. HandlerInv'
  BY DEF TypeOK, HandlerInv
<1>2. QueueInv'
  BY DEF TypeOK, QueueInv
<1>3. WorkerInv'
  BY DEF TypeOK, WorkerInv
<1>4. MainInv'
  BY DEF MainInv
<1>5. ListInv'
  BY DEF TypeOK, ListInv
<1> QED BY <1>1, <1>2, <1>3, <1>4, <1>5

\* Incremented counters are natural numbers.
LEMMA CountType ==
  ASSUME TypeOK, NEW c \in Counters, Count(c)
  PROVE  data' \in [Counters -> Nat] /\ cached' \in [Counters -> Nat]
BY DEF TypeOK, Count

\* A handler that is not idle runs in a service that is up.
LEMMA BusyIsUp ==
  ASSUME HandlerInv, NEW h \in Handlers, pc[h] # "idle"
  PROVE  main = "up"
BY DEF HandlerInv

\* A request that arrives (service_trans_create) preserves the invariant.
LEMMA CreateStep ==
  ASSUME IInv, NEW h \in Handlers, Create(h)
  PROVE  IInv'
<1> USE DEF Create
<1>1. TypeOK'
  BY CountType DEF IInv, TypeOK, HandlerMoves, HandlerPcs, Counters, mainVars, poolVars
<1>2. OwnersInv'
  BY QuietHandlerStep DEF Holding, Filled, Unstored, Stored, poolVars
<1> QED BY <1>1, <1>2 DEF IInv

\* pool_pop gives the handler an object that nobody else has.
LEMMA GetStep ==
  ASSUME IInv, NEW h \in Handlers, Get(h)
  PROVE  IInv'
<1> USE DEF IInv, Get, HandlerMoves, mainVars, countVars
<1>1. PICK s \in Slots : PoolPop(s) /\ slot' = [slot EXCEPT ![h] = s]
  OBVIOUS
<1>2. TypeOK'
  BY <1>1 DEF TypeOK, PoolPop, HandlerPcs
<1>3. /\ ~ Taken(s) /\ Taken(s)'
      /\ \A r \in Slots : r # s => (Taken(r)' <=> Taken(r))
  BY <1>1 DEF TypeOK, PoolPop, Taken
<1> USE DEF OwnersInv, Queued, Taken
<1>4. HandlerInv'
  BY <1>1, <1>3 DEF TypeOK, HandlerInv, Filled, Unstored, Stored, Holding
<1>5. QueueInv'
  BY <1>1, <1>3 DEF TypeOK, QueueInv, HandlerInv, Holding
<1>6. WorkerInv'
  BY <1>1, <1>3 DEF TypeOK, WorkerInv, Holding
<1>7. MainInv'
  BY <1>1, <1>3 DEF TypeOK, MainInv
<1>8. ListInv'
  BY DEF TypeOK, ListInv, Stored
<1> QED BY <1>2, <1>4, <1>5, <1>6, <1>7, <1>8

\* A request that finds no object preserves the invariant.
LEMMA GetFailsStep ==
  ASSUME IInv, NEW h \in Handlers, GetFails(h)
  PROVE  IInv'
<1> USE DEF GetFails
<1>1. TypeOK'
  BY DEF IInv, TypeOK, HandlerMoves, HandlerPcs, mainVars, poolVars, countVars
<1>2. OwnersInv'
  BY BusyIsUp, QuietHandlerStep
     DEF IInv, OwnersInv, HandlerMoves, Holding, Filled, Unstored, Stored, poolVars
<1> QED BY <1>1, <1>2 DEF IInv

\* The handler writes the new id into its own object.
LEMMA ParseStep ==
  ASSUME IInv, NEW h \in Handlers, Parse(h)
  PROVE  IInv'
<1> USE DEF IInv, Parse, HandlerMoves, mainVars, countVars
<1>1. PICK t \in Trans : /\ db[t] = "absent" /\ \A k \in Handlers : req[k] # t
                         /\ mem' = [mem EXCEPT ![slot[h]] = t]
                         /\ req' = [req EXCEPT ![h] = t]
  OBVIOUS
<1>2. TypeOK'
  BY <1>1 DEF TypeOK, HandlerPcs
<1> USE DEF OwnersInv, Queued, Taken
<1>3. slot[h] \in Slots /\ pc[h] \in Holding /\ mem'[slot[h]] = t
  BY <1>1 DEF TypeOK, HandlerInv, Holding
<1>4. \A s \in Slots : s # slot[h] => mem'[s] = mem[s]
  BY <1>1 DEF TypeOK
<1>5. HandlerInv'
  BY <1>1, <1>3, <1>4 DEF TypeOK, HandlerInv, Filled, Unstored, Stored, Holding
<1>6. QueueInv'
  BY <1>3, <1>4 DEF TypeOK, QueueInv, Holding
<1>7. WorkerInv'
  BY <1>3, <1>4 DEF TypeOK, WorkerInv, Holding
<1>8. MainInv'
  BY <1>3, <1>4, BusyIsUp DEF TypeOK, MainInv
<1>9. ListInv'
  BY <1>1, NoTransAssumption DEF TypeOK, ListInv, Stored
<1> QED BY <1>2, <1>5, <1>6, <1>7, <1>8, <1>9

\* A body that is refused leaves every object where it is.
LEMMA ParseFailsStep ==
  ASSUME IInv, NEW h \in Handlers, ParseFails(h)
  PROVE  IInv'
<1> USE DEF ParseFails
<1>1. TypeOK'
  BY DEF IInv, TypeOK, HandlerMoves, HandlerPcs, mainVars, poolVars, countVars
<1>2. OwnersInv'
  BY BusyIsUp, QuietHandlerStep
     DEF IInv, OwnersInv, HandlerMoves, Holding, Filled, Unstored, Stored, poolVars
<1> QED BY <1>1, <1>2 DEF IInv

\* transaction_insert_one stores the id of the request.
LEMMA InsertStep ==
  ASSUME IInv, NEW h \in Handlers, Insert(h)
  PROVE  IInv'
<1> USE DEF IInv, Insert, HandlerMoves, mainVars, countVars, poolVars
<1>1. TypeOK'
  BY DEF TypeOK, HandlerPcs
<1> USE DEF OwnersInv, Queued, Taken
<1>2. mem[slot[h]] = req[h] /\ req[h] \in Trans
  BY DEF HandlerInv, Filled, Unstored
<1>3. HandlerInv'
  BY DEF TypeOK, HandlerInv, Filled, Unstored, Stored, Holding
<1>4. QueueInv'
  BY DEF TypeOK, QueueInv, Holding
<1>5. WorkerInv'
  BY DEF TypeOK, WorkerInv, Holding
<1>6. MainInv'
  BY DEF TypeOK, MainInv
<1>7. ListInv'
  BY <1>2 DEF TypeOK, ListInv, Stored
<1> QED BY <1>1, <1>3, <1>4, <1>5, <1>6, <1>7

\* A failed insert leaves every object where it is.
LEMMA InsertFailsStep ==
  ASSUME IInv, NEW h \in Handlers, InsertFails(h)
  PROVE  IInv'
<1> USE DEF InsertFails
<1>1. TypeOK'
  BY DEF IInv, TypeOK, HandlerMoves, HandlerPcs, mainVars, poolVars, countVars
<1>2. OwnersInv'
  BY BusyIsUp, QuietHandlerStep
     DEF IInv, OwnersInv, HandlerMoves, Holding, Filled, Unstored, Stored, poolVars
<1> QED BY <1>1, <1>2 DEF IInv

\* service_data_update_received_trans_count changes counters only.
LEMMA ReceiveStep ==
  ASSUME IInv, NEW h \in Handlers, Receive(h)
  PROVE  IInv'
<1> USE DEF Receive
<1>1. TypeOK'
  BY CountType DEF IInv, TypeOK, HandlerMoves, HandlerPcs, Counters, mainVars, poolVars
<1>2. OwnersInv'
  BY BusyIsUp, QuietHandlerStep
     DEF IInv, OwnersInv, HandlerMoves, Holding, Filled, Unstored, Stored, poolVars
<1> QED BY <1>1, <1>2 DEF IInv

\* The id of the request is appended to the list, where it was not before.
LEMMA AddToQueueStep ==
  ASSUME IInv, NEW h \in Handlers, AddToQueue(h)
  PROVE  IInv'
<1> USE DEF IInv, AddToQueue, HandlerMoves, mainVars, countVars, poolVars
<1>1. /\ mem[slot[h]] = req[h] /\ req[h] \in Trans
      /\ list \in Seq(Trans) /\ list' = Append(list, req[h])
  BY DEF OwnersInv, HandlerInv, Filled, Stored, TypeOK
<1>2. list' \in Seq(Trans)
  BY <1>1, AppendProperties
<1>3. TypeOK'
  BY <1>2 DEF TypeOK, HandlerPcs
<1> USE DEF OwnersInv, Queued, Taken
<1>4. HandlerInv'
  BY DEF TypeOK, HandlerInv, Filled, Unstored, Stored, Holding
<1>5. QueueInv'
  BY DEF TypeOK, QueueInv, Holding
<1>6. WorkerInv'
  BY DEF TypeOK, WorkerInv, Holding
<1>7. MainInv'
  BY DEF TypeOK, MainInv
<1>8. ToSet(list') = ToSet(list) \cup {req[h]}
  BY <1>1, ToSetAppend
<1>9. NoRepeats(list', NoTrans)
  BY <1>1, AppendNoRepeats DEF ListInv
<1>10. ListInv'
  BY <1>1, <1>8, <1>9, NoTransAssumption DEF TypeOK, ListInv, Stored
<1> QED BY <1>3, <1>4, <1>5, <1>6, <1>7, <1>10

\* worker_push_job passes the object from the handler to the queue.
LEMMA PushStep ==
  ASSUME IInv, NEW h \in Handlers, Push(h)
  PROVE  IInv'
<1> USE DEF IInv, Push, HandlerMoves, mainVars, countVars, poolVars
<1>1. /\ slot[h] \in Slots /\ Taken(slot[h]) /\ mem[slot[h]] \in Trans
      /\ slot[h] \notin Queued /\ slot[h] # wslot /\ bslot = NoSlot
      /\ \A k \in Handlers : pc'[k] \in Holding => pc[k] \in Holding /\ slot[k] # slot[h]
      /\ pc[h] \in Holding /\ main = "up"
  BY NoSlotAssumption DEF OwnersInv, TypeOK, HandlerInv, QueueInv, WorkerInv, MainInv,
                          Filled, Stored, Holding, Taken
<1>2. /\ queue \in Seq(Slots \cup {NoSlot})
      /\ queue' = queue \/ queue' = Append(queue, slot[h])
      /\ lostJob' \in BOOLEAN
  BY DEF PushJob, TypeOK
<1>3. queue' \in Seq(Slots \cup {NoSlot})
  BY <1>1, <1>2, AppendProperties
<1>4. TypeOK'
  BY <1>2, <1>3 DEF TypeOK, HandlerPcs
<1>5. ToSet(queue') \subseteq ToSet(queue) \cup {slot[h]}
  <2>1. ToSet(Append(queue, slot[h])) = ToSet(queue) \cup {slot[h]}
    <3> HIDE DEF IInv, Push, PushJob
    <3> QED BY <1>1, <1>2, ToSetAppend
  <2> QED BY <1>2, <2>1
<1>6. NoRepeats(queue', NoSlot)
  <2>1. NoRepeats(queue, NoSlot) /\ slot[h] \notin ToSet(queue)
    BY <1>1, NoSlotAssumption DEF OwnersInv, QueueInv, Queued
  <2>2. NoRepeats(Append(queue, slot[h]), NoSlot)
    <3> HIDE DEF IInv, Push
    <3> QED BY <1>1, <1>2, <2>1, AppendNoRepeats
  <2> QED BY <1>2, <2>1, <2>2
<1> USE DEF OwnersInv, Queued, Taken
<1>7. HandlerInv'
  BY DEF TypeOK, HandlerInv, Filled, Unstored, Stored, Holding
<1>8. QueueInv'
  BY <1>1, <1>5, <1>6 DEF TypeOK, QueueInv
<1>9. WorkerInv'
  BY <1>1, <1>5 DEF TypeOK, WorkerInv
<1>10. MainInv'
  BY <1>1 DEF TypeOK, MainInv
<1>11. ListInv'
  BY DEF TypeOK, ListInv, Stored
<1> QED BY <1>4, <1>7, <1>8, <1>9, <1>10, <1>11

\* service_data_update_good_trans_count changes counters only.
LEMMA GoodStep ==
  ASSUME IInv, NEW h \in Handlers, Good(h)
  PROVE  IInv'
<1> USE DEF Good
<1>1. TypeOK'
  BY CountType DEF IInv, TypeOK, HandlerMoves, HandlerPcs, Counters, mainVars, poolVars
<1>2. OwnersInv'
  BY BusyIsUp, QuietHandlerStep
     DEF IInv, OwnersInv, HandlerMoves, Holding, Filled, Unstored, Stored, poolVars
<1> QED BY <1>1, <1>2 DEF IInv

\* The response ends the request, whose handler has no object any more.
LEMMA RespondStep ==
  ASSUME IInv, NEW h \in Handlers, Respond(h)
  PROVE  IInv'
<1> USE DEF IInv, Respond, HandlerMoves, mainVars, countVars, poolVars
<1>1. req[h] \in Trans
  BY DEF OwnersInv, HandlerInv, Stored
<1>2. TypeOK'
  BY <1>1 DEF TypeOK, HandlerPcs
<1> USE DEF OwnersInv, Queued, Taken
<1>3. HandlerInv'
  BY DEF TypeOK, HandlerInv, Filled, Unstored, Stored, Holding
<1>4. QueueInv'
  BY DEF TypeOK, QueueInv, Holding
<1>5. WorkerInv'
  BY DEF TypeOK, WorkerInv, Holding
<1>6. MainInv'
  BY DEF TypeOK, MainInv
<1>7. ListInv'
  BY DEF TypeOK, ListInv, Stored
<1> QED BY <1>2, <1>3, <1>4, <1>5, <1>6, <1>7

\* service_data_update_bad_trans_count changes counters only.
LEMMA BadStep ==
  ASSUME IInv, NEW h \in Handlers, Bad(h)
  PROVE  IInv'
<1> USE DEF Bad
<1>1. TypeOK'
  BY CountType DEF IInv, TypeOK, HandlerMoves, HandlerPcs, Counters, mainVars, poolVars
<1>2. OwnersInv'
  BY BusyIsUp, QuietHandlerStep
     DEF IInv, OwnersInv, HandlerMoves, Holding, Filled, Unstored, Stored, poolVars
<1> QED BY <1>1, <1>2 DEF IInv

\* service_trans_return passes the object from the handler to the pool.
LEMMA ReturnStep ==
  ASSUME IInv, NEW h \in Handlers, Return(h)
  PROVE  IInv'
<1> USE DEF IInv, Return, TransReturn, HandlerMoves, mainVars, countVars
<1>1. /\ slot[h] \in Slots /\ Taken(slot[h]) /\ slot[h] \notin Queued
      /\ slot[h] # wslot /\ bslot = NoSlot
      /\ \A k \in Handlers : pc'[k] \in Holding => /\ k # h /\ slot[k] # slot[h]
                                               /\ pc[k] \in Holding /\ slot[k] \in Slots
  BY NoSlotAssumption DEF OwnersInv, TypeOK, HandlerInv, QueueInv, WorkerInv, MainInv,
                          Holding, Taken
<1>2. TypeOK'
  BY <1>1 DEF TypeOK, HandlerPcs, Taken
<1>3. \A s \in Slots : s # slot[h] => (Taken(s)' <=> Taken(s)) /\ mem'[s] = mem[s]
  BY <1>1 DEF TypeOK, Taken
<1> USE DEF OwnersInv, Queued
<1>4. HandlerInv'
  BY <1>1, <1>3 DEF TypeOK, HandlerInv, Filled, Unstored, Stored, Holding
<1>5. QueueInv'
  BY <1>1, <1>3 DEF TypeOK, QueueInv, Holding, Taken
<1>6. WorkerInv'
  BY <1>1, <1>3 DEF TypeOK, WorkerInv, Holding
<1>7. MainInv'
  BY <1>1, <1>3 DEF TypeOK, MainInv
<1>8. ListInv'
  BY DEF TypeOK, ListInv, Stored
<1> QED BY <1>2, <1>4, <1>5, <1>6, <1>7, <1>8

\* A delete changes a stored transaction in Mongo only.
LEMMA DeleteStep ==
  ASSUME IInv, NEW t \in Trans, Delete(t)
  PROVE  IInv'
<1> USE DEF IInv, Delete, mainVars, handlerVars, workerVars, poolVars, countVars,
            historyVars
<1>1. TypeOK'
  BY DEF TypeOK
<1>2. HandlerInv' /\ QueueInv' /\ WorkerInv' /\ MainInv'
  BY DEF OwnersInv, HandlerInv, QueueInv, WorkerInv, MainInv, Queued, Taken
<1>3. ListInv'
  BY DEF OwnersInv, TypeOK, ListInv, Stored
<1> QED BY <1>1, <1>2, <1>3 DEF OwnersInv

-----------------------------------------------------------------------------
(***************************************************************************)
(* The worker thread.                                                      *)
(***************************************************************************)

\* A step of the worker thread that keeps its object changes nobody's.
LEMMA QuietWorkerStep ==
  ASSUME IInv, NEW from, NEW to, WorkerMoves(from, to), from # "wait", to # "wait",
         from = "set" => wslot # NoSlot,
         UNCHANGED <<wslot, queue, mem, pool, heap, list>>,
         db' \in [Trans -> {"absent", "stored", "done", "deleted"}],
         \A t \in Trans : db[t] # "absent" => db'[t] # "absent"
  PROVE  OwnersInv'
<1> USE DEF IInv, OwnersInv, WorkerMoves, mainVars, handlerVars, Taken, Queued
<1>1. HandlerInv'
  BY DEF HandlerInv
<1>2. QueueInv'
  BY DEF QueueInv
<1>3. WorkerInv'
  BY DEF WorkerInv
<1>4. MainInv'
  BY DEF MainInv
<1>5. ToSet(list) \subseteq Trans
  BY DEF TypeOK, ToSet
<1>6. ListInv'
  BY <1>5 DEF TypeOK, ListInv, HandlerInv, Stored
<1> QED BY <1>1, <1>2, <1>3, <1>4, <1>6

\* The pull passes the object from the queue to the worker thread.
LEMMA PullStep ==
  ASSUME IInv, Pull
  PROVE  IInv'
<1> USE DEF IInv, Pull, WorkerMoves, mainVars, handlerVars, poolVars, countVars
<1>1. queue \in Seq(Slots \cup {NoSlot}) /\ queue # <<>> /\ NoRepeats(queue, NoSlot)
  BY DEF TypeOK, OwnersInv, QueueInv
<1>2. /\ wslot' \in Slots \cup {NoSlot} /\ queue' \in Seq(Slots \cup {NoSlot})
      /\ wslot' \in ToSet(queue)
      /\ ToSet(queue') \subseteq ToSet(queue)
      /\ NoRepeats(queue', NoSlot)
      /\ wslot' # NoSlot => wslot' \notin ToSet(queue')
  BY <1>1, TailOf
<1>3. TypeOK'
  BY <1>2 DEF TypeOK, WorkerPcs
<1> USE DEF OwnersInv, Queued, Taken
<1>4. HandlerInv'
  BY DEF HandlerInv
<1>5. QueueInv'
  BY <1>2 DEF QueueInv
<1>6. WorkerInv'
  BY <1>2 DEF QueueInv, WorkerInv
<1>7. MainInv'
  BY <1>2 DEF MainInv
<1>8. ListInv'
  BY DEF ListInv
<1> QED BY <1>3, <1>4, <1>5, <1>6, <1>7, <1>8

\* LREM takes the id of the worker's transaction out of the list.
LEMMA SetCurrentStep ==
  ASSUME IInv, SetCurrent
  PROVE  IInv'
<1> USE DEF IInv, SetCurrent, WorkerMoves, mainVars, handlerVars, poolVars, countVars
<1>1. /\ mem[wslot] \in Trans /\ mem[wslot] # NoTrans
      /\ list \in Seq(Trans) /\ NoRepeats(list, NoTrans)
  BY NoTransAssumption DEF TypeOK, OwnersInv, WorkerInv, ListInv
<1>2. /\ list' \in Seq(Trans) /\ NoRepeats(list', NoTrans)
      /\ ToSet(list') \subseteq ToSet(list)
  <2>1. list' = RemoveFirst(list, mem[wslot])
    OBVIOUS
  <2> HIDE DEF IInv, SetCurrent
  <2> QED BY <1>1, <2>1, RemoveFirstUnique
<1>3. TypeOK'
  BY <1>2 DEF TypeOK, WorkerPcs
<1> USE DEF OwnersInv, Queued, Taken
<1>4. HandlerInv' /\ QueueInv'
  BY DEF HandlerInv, QueueInv
<1>5. WorkerInv' /\ MainInv'
  BY DEF WorkerInv, MainInv
<1>6. ListInv'
  BY <1>2 DEF ListInv
<1> QED BY <1>3, <1>4, <1>5, <1>6

\* The key of the transaction in work is set to the id of a transaction.
LEMMA SetKeyStep ==
  ASSUME IInv, SetKey
  PROVE  IInv'
<1> USE DEF IInv, SetKey
<1>1. mem[wslot] \in Trans
  BY DEF OwnersInv, WorkerInv, WorkerMoves
<1>2. TypeOK'
  BY <1>1 DEF TypeOK, WorkerMoves, WorkerPcs, mainVars, handlerVars, poolVars, countVars
<1>3. OwnersInv'
  BY QuietWorkerStep DEF TypeOK, poolVars
<1> QED BY <1>2, <1>3

\* The work and the reset of the key leave every object where it is.
LEMMA WorkStep ==
  ASSUME IInv, Work
  PROVE  IInv'
<1> USE DEF IInv, Work
<1>1. TypeOK'
  BY DEF TypeOK, WorkerMoves, WorkerPcs, mainVars, handlerVars, poolVars, countVars
<1>2. OwnersInv'
  BY QuietWorkerStep DEF TypeOK, poolVars
<1> QED BY <1>1, <1>2

\* service_data_update_processed_trans_count changes counters only.
LEMMA ProcessedStep ==
  ASSUME IInv, Processed
  PROVE  IInv'
<1> USE DEF IInv, Processed
<1>1. TypeOK'
  BY CountType
     DEF TypeOK, WorkerMoves, WorkerPcs, Counters, mainVars, handlerVars, poolVars
<1>2. OwnersInv'
  BY QuietWorkerStep DEF TypeOK, poolVars
<1> QED BY <1>1, <1>2

\* transaction_update_result makes no transaction absent.
LEMMA ResultStep ==
  ASSUME IInv, Result
  PROVE  IInv'
<1> USE DEF IInv, Result
<1>1. mem[wslot] \in Trans
  BY DEF OwnersInv, WorkerInv, WorkerMoves
<1>2. /\ db' \in [Trans -> {"absent", "stored", "done", "deleted"}]
      /\ \A t \in Trans : db[t] # "absent" => db'[t] # "absent"
  BY <1>1 DEF TypeOK
<1>3. TypeOK'
  BY <1>1, <1>2
     DEF TypeOK, WorkerMoves, WorkerPcs, mainVars, handlerVars, poolVars, countVars
<1>4. OwnersInv'
  BY <1>2, QuietWorkerStep DEF poolVars
<1> QED BY <1>3, <1>4

\* delete_data passes the object from the worker thread to the pool.
LEMMA GiveBackStep ==
  ASSUME IInv, GiveBack
  PROVE  IInv'
<1> USE DEF IInv, GiveBack, TransReturn, WorkerMoves, mainVars, handlerVars, countVars
<1>1. /\ wslot \in Slots /\ Taken(wslot) /\ wslot \notin Queued /\ bslot # wslot
      /\ \A h \in Handlers : pc[h] \in Holding => slot[h] # wslot /\ slot[h] \in Slots
  BY DEF OwnersInv, TypeOK, WorkerInv, MainInv, HandlerInv, Taken
<1>2. TypeOK'
  BY <1>1 DEF TypeOK, WorkerPcs, Taken
<1>3. \A s \in Slots : s # wslot => (Taken(s)' <=> Taken(s)) /\ mem'[s] = mem[s]
  BY <1>1 DEF TypeOK, Taken
<1> USE DEF OwnersInv, Queued
<1>4. HandlerInv'
  BY <1>1, <1>3 DEF HandlerInv, Filled, Holding
<1>5. QueueInv'
  BY <1>1, <1>3 DEF TypeOK, QueueInv, Taken
<1>6. WorkerInv'
  BY DEF WorkerInv
<1>7. MainInv'
  BY <1>1, <1>3 DEF TypeOK, MainInv, Taken
<1>8. ListInv'
  BY DEF ListInv
<1> QED BY <1>2, <1>4, <1>5, <1>6, <1>7, <1>8

-----------------------------------------------------------------------------
(***************************************************************************)
(* The main thread, and the end of the process.                            *)
(***************************************************************************)

\* While the main thread loads the list, no handler has an object.
LEMMA NoHandlerHolds ==
  ASSUME HandlerInv, main # "up"
  PROVE  \A h \in Handlers : pc[h] = "idle"
BY DEF HandlerInv

\* A new process has a new pool, and none of the objects of the old one.
LEMMA StartStep ==
  ASSUME IInv, Start
  PROVE  IInv'
<1> USE DEF IInv, Start, MainMoves, handlerVars
<1>1. heap' \in SUBSET Slots /\ pool' = heap'
  BY DEF kSubset
<1>2. TypeOK'
  BY <1>1 DEF TypeOK, MainPcs
<1> USE DEF OwnersInv
<1>3. wslot = NoSlot /\ bslot = NoSlot /\ Queued = {} /\ Queued' = {}
  BY DEF WorkerInv, MainInv, Queued, ToSet
<1>4. HandlerInv'
  BY DEF HandlerInv, Holding, Filled, Unstored, Stored
<1>5. QueueInv'
  BY <1>3 DEF QueueInv
<1>6. WorkerInv' /\ MainInv'
  BY <1>3 DEF WorkerInv, MainInv
<1>7. ListInv'
  BY DEF ListInv
<1> QED BY <1>2, <1>4, <1>5, <1>6, <1>7

\* service_trans_get_by_id gives the main thread an object that nobody else has.
LEMMA LookupStep ==
  ASSUME IInv, Lookup
  PROVE  IInv'
<1> USE DEF IInv, Lookup, MainMoves, handlerVars
<1>1. PICK s \in Slots : /\ PoolPop(s)
                         /\ mem' = [mem EXCEPT ![s] = Head(reply)]
                         /\ bslot' = s
  OBVIOUS
<1>2. Head(reply) \in Trans
  BY HeadTailProperties DEF TypeOK
<1>3. TypeOK'
  BY <1>1, <1>2 DEF TypeOK, PoolPop, MainPcs
<1>4. /\ ~ Taken(s) /\ Taken(s)' /\ mem'[s] \in Trans
      /\ \A r \in Slots : r # s => (Taken(r)' <=> Taken(r)) /\ mem'[r] = mem[r]
  BY <1>1, <1>2 DEF TypeOK, PoolPop, Taken
<1>5. \A h \in Handlers : pc[h] = "idle"
  BY NoHandlerHolds DEF OwnersInv
<1> USE DEF OwnersInv, Queued
<1>6. HandlerInv'
  BY <1>5 DEF HandlerInv, Holding, Filled, Unstored, Stored
<1>7. QueueInv'
  BY <1>4 DEF TypeOK, QueueInv, Taken
<1>8. WorkerInv'
  BY <1>4 DEF TypeOK, WorkerInv, Taken
<1>9. MainInv'
  BY <1>1, <1>4 DEF TypeOK, QueueInv, WorkerInv, MainInv
<1>10. ListInv'
  BY DEF ListInv
<1> QED BY <1>3, <1>6, <1>7, <1>8, <1>9, <1>10

\* A lookup that fails brings its object back to the pool.
LEMMA LookupFailsStep ==
  ASSUME IInv, LookupFails
  PROVE  IInv'
<1> USE DEF IInv, LookupFails, MainMoves, handlerVars
<1>1. /\ heap' \in SUBSET Slots /\ pool' \in SUBSET heap'
      /\ mem' \in [Slots -> Trans \cup {NoTrans}]
      /\ \A r \in Slots : Taken(r) => Taken(r)' /\ mem'[r] = mem[r]
  BY DEF TypeOK, Taken
<1>2. TypeOK'
  BY <1>1 DEF TypeOK, MainPcs
<1>3. \A h \in Handlers : pc[h] = "idle"
  BY NoHandlerHolds DEF OwnersInv
<1> USE DEF OwnersInv, Queued
<1>4. HandlerInv'
  BY <1>3 DEF HandlerInv, Holding, Filled, Unstored, Stored
<1>5. QueueInv'
  BY <1>1, <1>3 DEF TypeOK, QueueInv, Taken
<1>6. WorkerInv'
  BY <1>1, <1>3 DEF TypeOK, WorkerInv, Taken
<1>7. MainInv'
  BY DEF MainInv
<1>8. ListInv'
  BY DEF ListInv
<1> QED BY <1>2, <1>4, <1>5, <1>6, <1>7, <1>8

\* The count of a restored transaction leaves every object where it is.
LEMMA CountFromBackupStep ==
  ASSUME IInv, CountFromBackup
  PROVE  IInv'
<1> USE DEF IInv, CountFromBackup, MainMoves, handlerVars, poolVars
<1>1. TypeOK'
  BY DEF TypeOK, MainPcs
<1> USE DEF OwnersInv, Queued, Taken
<1>2. HandlerInv'
  BY DEF HandlerInv
<1>3. QueueInv' /\ WorkerInv'
  BY DEF QueueInv, WorkerInv
<1>4. MainInv' /\ ListInv'
  BY DEF MainInv, ListInv
<1> QED BY <1>1, <1>2, <1>3, <1>4

\* The restored object passes from the main thread to the queue.
LEMMA PushFromBackupStep ==
  ASSUME IInv, PushFromBackup
  PROVE  IInv'
<1> USE DEF IInv, PushFromBackup, MainMoves, handlerVars, poolVars
<1>1. /\ reply # <<>> /\ \A h \in Handlers : pc[h] = "idle"
      /\ bslot # NoSlot => /\ bslot \notin ToSet(queue) /\ bslot # wslot
                           /\ Taken(bslot) /\ mem[bslot] \in Trans
  BY NoHandlerHolds DEF OwnersInv, MainInv, Queued
<1>2. /\ queue \in Seq(Slots \cup {NoSlot}) /\ bslot \in Slots \cup {NoSlot}
      /\ queue' = queue \/ queue' = Append(queue, bslot)
      /\ lostJob' \in BOOLEAN
  BY DEF PushJob, TypeOK
<1>3. reply' \in Seq(Trans)
  BY <1>1, HeadTailProperties DEF TypeOK
<1>4. queue' \in Seq(Slots \cup {NoSlot})
  BY <1>2, AppendProperties
<1>5. TypeOK'
  BY <1>2, <1>3, <1>4 DEF TypeOK, MainPcs
<1>6. ToSet(queue') \subseteq ToSet(queue) \cup {bslot}
  <2>1. ToSet(Append(queue, bslot)) = ToSet(queue) \cup {bslot}
    <3> HIDE DEF IInv, PushFromBackup
    <3> QED BY <1>2, ToSetAppend
  <2> QED BY <1>2, <2>1
<1>7. NoRepeats(queue', NoSlot)
  <2>1. NoRepeats(queue, NoSlot)
    BY DEF OwnersInv, QueueInv
  <2>2. NoRepeats(Append(queue, bslot), NoSlot)
    <3> HIDE DEF IInv, PushFromBackup
    <3> QED BY <1>1, <1>2, <2>1, AppendNoRepeats
  <2> QED BY <1>2, <2>1, <2>2
<1> USE DEF OwnersInv, Queued
<1>8. HandlerInv'
  BY <1>1 DEF HandlerInv, Holding, Filled, Unstored, Stored
<1>9. QueueInv'
  BY <1>1, <1>6, <1>7 DEF QueueInv, Taken, Holding
<1>10. WorkerInv'
  BY <1>1, <1>6 DEF WorkerInv, Taken, Holding
<1>11. MainInv'
  BY DEF MainInv
<1>12. ListInv'
  BY DEF ListInv
<1> QED BY <1>5, <1>8, <1>9, <1>10, <1>11, <1>12

\* Serving begins with the queue as it was loaded.
LEMMA ServeStep ==
  ASSUME IInv, Serve
  PROVE  IInv'
<1> USE DEF IInv, Serve, MainMoves, handlerVars, poolVars
<1>1. TypeOK'
  BY DEF TypeOK, MainPcs
<1> USE DEF OwnersInv, Queued, Taken
<1>2. HandlerInv'
  BY DEF HandlerInv
<1>3. QueueInv' /\ WorkerInv'
  BY DEF QueueInv, WorkerInv
<1>4. MainInv' /\ ListInv'
  BY DEF MainInv, ListInv
<1> QED BY <1>1, <1>2, <1>3, <1>4

\* Nothing in memory survives the process.
LEMMA ProcessDiesStep ==
  ASSUME IInv, ProcessDies, crashes' \in Nat
  PROVE  IInv'
<1> USE DEF IInv, ProcessDies
<1>1. IsFiniteSet(Handlers)
  BY FiniteAssumption
<1>2. Cardinality({h \in Handlers : pc[h] \in Undecided}) \in Nat
  <2> DEFINE U == {h \in Handlers : pc[h] \in Undecided}
  <2>1. U \in SUBSET Handlers
    OBVIOUS
  <2> HIDE DEF U
  <2>2. IsFiniteSet(U)
    BY <1>1, <2>1, FS_Subset
  <2>3. Cardinality(U) \in Nat
    BY <2>2, FS_CardinalityType
  <2> QED BY <2>3 DEF U
<1>3. uncounted' \in Nat
  BY <1>2 DEF TypeOK
<1>4. interrupted' \in SUBSET Trans
  BY DEF TypeOK, OwnersInv, WorkerInv, Processing
<1>5. queue' \in Seq(Slots \cup {NoSlot}) /\ reply' \in Seq(Trans) /\ ToSet(queue') = {}
  BY DEF ToSet
<1>6. TypeOK'
  <2>1. /\ main' \in MainPcs /\ bslot' = NoSlot /\ wslot' = NoSlot /\ wpc' \in WorkerPcs
        /\ pool' = {} /\ heap' = {} /\ current_n' = 0 /\ lostJob' \in BOOLEAN
        /\ UNCHANGED <<cached, list, cur, db, acked, finished>>
    BY DEF MainPcs, WorkerPcs
  <2>2. /\ pc' \in [Handlers -> HandlerPcs]
        /\ slot' \in [Handlers -> Slots \cup {NoSlot}]
        /\ req' \in [Handlers -> Trans \cup {NoTrans}]
        /\ mem' \in [Slots -> Trans \cup {NoTrans}]
        /\ data' \in [Counters -> Nat]
    BY DEF HandlerPcs
  <2> HIDE DEF ProcessDies
  <2> QED BY <1>3, <1>4, <1>5, <2>1, <2>2 DEF TypeOK
<1> USE DEF OwnersInv
<1>7. HandlerInv'
  BY DEF HandlerInv, Holding, Filled, Unstored, Stored
<1>8. QueueInv'
  BY <1>5 DEF QueueInv, NoRepeats, Queued, Holding
<1>9. WorkerInv' /\ MainInv'
  BY DEF WorkerInv, MainInv
<1>10. ListInv'
  BY DEF ListInv, Stored
<1> QED BY <1>6, <1>7, <1>8, <1>9, <1>10

-----------------------------------------------------------------------------
(***************************************************************************)
(* The theorems.                                                           *)
(***************************************************************************)

\* The invariant holds when the first start has ended.
LEMMA InitOwners == Init => IInv
<1> SUFFICES ASSUME Init PROVE IInv
  OBVIOUS
<1> USE DEF Init
<1>1. heap \in SUBSET Slots
  BY DEF kSubset
<1>2. queue \in Seq(Slots \cup {NoSlot}) /\ reply \in Seq(Trans) /\ list \in Seq(Trans)
      /\ ToSet(queue) = {} /\ ToSet(list) = {}
  BY DEF ToSet
<1>3. TypeOK
  <2>1. /\ main \in MainPcs /\ bslot = NoSlot /\ wslot = NoSlot /\ wpc \in WorkerPcs
        /\ pool = heap /\ current_n = 0 /\ lostJob \in BOOLEAN /\ uncounted = 0 /\ crashes = 0
        /\ cur = NoTrans /\ acked = {} /\ finished = {} /\ interrupted = {}
    BY DEF MainPcs, WorkerPcs
  <2>2. /\ pc \in [Handlers -> HandlerPcs]
        /\ slot \in [Handlers -> Slots \cup {NoSlot}]
        /\ req \in [Handlers -> Trans \cup {NoTrans}]
        /\ mem \in [Slots -> Trans \cup {NoTrans}]
        /\ data \in [Counters -> Nat] /\ cached \in [Counters -> Nat]
        /\ db \in [Trans -> {"absent", "stored", "done", "deleted"}]
    BY DEF HandlerPcs
  <2> HIDE DEF Init
  <2> QED BY <1>1, <1>2, <2>1, <2>2 DEF TypeOK
<1>4. HandlerInv
  BY DEF HandlerInv, Holding, Filled, Unstored, Stored
<1>5. QueueInv
  BY <1>2 DEF QueueInv, NoRepeats, Queued, Holding
<1>6. WorkerInv /\ MainInv
  BY DEF WorkerInv, MainInv
<1>7. ListInv
  BY <1>2 DEF ListInv, NoRepeats, Stored
<1> QED BY <1>3, <1>4, <1>5, <1>6, <1>7 DEF IInv, OwnersInv

\* Every step of the service preserves the invariant.
LEMMA NextOwners == IInv /\ [Next]_vars => IInv'
<1> SUFFICES ASSUME IInv, [Next]_vars PROVE IInv'
  OBVIOUS
<1>1. ASSUME NEW h \in Handlers, Create(h) \/ HandlerStep(h) PROVE IInv'
  BY <1>1, CreateStep, GetStep, GetFailsStep, ParseStep, ParseFailsStep, InsertStep,
     InsertFailsStep, ReceiveStep, AddToQueueStep, PushStep, GoodStep, RespondStep,
     BadStep, ReturnStep DEF HandlerStep
<1>2. ASSUME NEW t \in Trans, Delete(t) PROVE IInv'
  BY <1>2, DeleteStep
<1>3. CASE WorkerStep
  BY <1>3, PullStep, SetCurrentStep, SetKeyStep, WorkStep, ProcessedStep, ResultStep,
     GiveBackStep DEF WorkerStep
<1>4. CASE MainStep
  BY <1>4, StartStep, LookupStep, LookupFailsStep, CountFromBackupStep,
     PushFromBackupStep, ServeStep DEF MainStep
<1>5. CASE Crash \/ NullJob
  <2>1. crashes' \in Nat
    BY <1>5 DEF Crash, NullJob, IInv, TypeOK
  <2> QED BY <1>5, <2>1, ProcessDiesStep DEF Crash, NullJob
<1>6. CASE UNCHANGED vars
  <2> USE <1>6 DEF IInv, vars, mainVars, handlerVars, workerVars, poolVars, countVars,
                   historyVars
  <2>1. TypeOK'
    BY DEF TypeOK
  <2>2. HandlerInv' /\ QueueInv' /\ WorkerInv' /\ MainInv'
    BY DEF OwnersInv, HandlerInv, QueueInv, WorkerInv, MainInv, Queued, Taken
  <2>3. ListInv'
    BY DEF OwnersInv, ListInv
  <2> QED BY <2>1, <2>2, <2>3 DEF OwnersInv
<1> QED BY <1>1, <1>2, <1>3, <1>4, <1>5, <1>6 DEF Next

\* In every reachable state, for any number of handlers, transactions and
\* objects, each actor has its own objects and knows what is in them.
THEOREM OwnersInvariant == Spec => []IInv
BY InitOwners, NextOwners, PTL DEF Spec

\* The variables always have the types of the declarations, and only ids of
\* transactions are ever pushed to current_trans_in_worker_queue.
THEOREM TypeCorrect == Spec => []TypeOK
<1>1. IInv => TypeOK
  BY DEF IInv
<1> QED BY <1>1, OwnersInvariant, PTL

\* A Transaction object never has two owners, in whatever order the handlers,
\* the worker thread and a restart pass it on.
THEOREM OneOwnerCorrect == Spec => []OneOwner
<1>1. IInv => OneOwner
  <2> SUFFICES ASSUME IInv PROVE OneOwner
    OBVIOUS
  <2> USE DEF IInv, OwnersInv
  <2>1. \A i, j \in DOMAIN queue : queue[i] = queue[j] /\ queue[i] # NoSlot => i = j
    BY DEF QueueInv, NoRepeats
  <2>2. \A h, k \in Handlers :
          pc[h] \in Holding /\ pc[k] \in Holding /\ slot[h] = slot[k] => h = k
    BY DEF HandlerInv
  <2>3. \A s \in InUse : Taken(s)
    BY DEF InUse, HandlerHeld, WorkerHeld, MainHeld, HandlerInv, QueueInv, WorkerInv,
           MainInv
  <2>4. pool \cap InUse = {}
    BY <2>3 DEF Taken
  <2>5. HandlerHeld \cap (Queued \cup WorkerHeld) = {}
    BY DEF HandlerHeld, WorkerHeld, QueueInv, WorkerInv
  <2>6. HandlerHeld \cap MainHeld = {}
    BY DEF HandlerHeld, MainHeld, HandlerInv, MainInv, Holding
  <2>7. Queued \cap (WorkerHeld \cup MainHeld) = {} /\ WorkerHeld \cap MainHeld = {}
    BY DEF WorkerHeld, MainHeld, WorkerInv, MainInv
  <2> QED BY <2>1, <2>2, <2>4, <2>5, <2>6, <2>7 DEF OneOwner
<1> QED BY <1>1, OwnersInvariant, PTL

-----------------------------------------------------------------------------
(***************************************************************************)
(* No object is forgotten.                                                 *)
(***************************************************************************)

\* Unless a push failed, what is allocated and not pooled is in use.
LeakInv == ~ lostJob => \A s \in Slots : Taken(s) => s \in InUse

\* A step of a handler that neither takes, pushes nor returns an object.
LEMMA QuietHandlerLeak ==
  ASSUME IInv, LeakInv, NEW h \in Handlers, NEW from, NEW to, HandlerMoves(h, from, to),
         UNCHANGED <<queue, pool, heap, lostJob>>,
         from \in Holding <=> to \in Holding,
         \A k \in Handlers : k # h \/ to \in Holding => slot'[k] = slot[k]
  PROVE  LeakInv'
<1>1. HandlerHeld \subseteq HandlerHeld'
  BY DEF HandlerMoves, HandlerHeld, IInv, TypeOK
<1> QED BY <1>1 DEF LeakInv, InUse, Taken, HandlerMoves, mainVars, Queued, WorkerHeld, MainHeld

\* An object that a handler takes, passes on or returns is not forgotten.
LEMMA HandlerLeak ==
  ASSUME IInv, LeakInv, NEW h \in Handlers, Create(h) \/ HandlerStep(h)
  PROVE  LeakInv'
<1>1. CASE Create(h) \/ GetFails(h)
  BY <1>1, QuietHandlerLeak DEF Create, GetFails, poolVars, Holding
<1>2. CASE Parse(h) \/ ParseFails(h)
  BY <1>2, QuietHandlerLeak DEF Parse, ParseFails, poolVars, Holding
<1>3. CASE Insert(h) \/ InsertFails(h)
  BY <1>3, QuietHandlerLeak DEF Insert, InsertFails, poolVars, Holding
<1>4. CASE Receive(h) \/ AddToQueue(h)
  BY <1>4, QuietHandlerLeak DEF Receive, AddToQueue, poolVars, Holding
<1>5. CASE Good(h) \/ Bad(h)
  BY <1>5, QuietHandlerLeak DEF Good, Bad, poolVars, Holding
<1>6. CASE Respond(h)
  <2>1. \A k \in Handlers : k # h => slot'[k] = slot[k]
    BY <1>6 DEF Respond, IInv, TypeOK
  <2> QED BY <1>6, <2>1, QuietHandlerLeak DEF Respond, poolVars, Holding
<1>7. ASSUME HandlerMoves(h, pc[h], pc'[h]), UNCHANGED queue
      PROVE  Queued' = Queued /\ WorkerHeld' = WorkerHeld /\ MainHeld' = MainHeld
  BY <1>7 DEF HandlerMoves, mainVars, Queued, WorkerHeld, MainHeld
<1>8. CASE Get(h)
  <2>1. PICK s \in Slots : PoolPop(s) /\ slot' = [slot EXCEPT ![h] = s]
    BY <1>8 DEF Get
  <2>2. \A r \in Slots : r # s => (Taken(r)' <=> Taken(r))
    BY <2>1 DEF PoolPop, Taken, IInv, TypeOK
  <2>3. HandlerHeld' = HandlerHeld \cup {s}
    BY <1>8, <2>1 DEF Get, HandlerMoves, HandlerHeld, Holding, IInv, TypeOK
  <2>4. UNCHANGED <<queue, wslot, bslot, lostJob>>
    BY <1>8 DEF Get, HandlerMoves, mainVars
  <2> QED BY <2>2, <2>3, <2>4 DEF LeakInv, InUse, Queued, WorkerHeld, MainHeld
<1>9. CASE Push(h)
  <2>1. UNCHANGED <<wslot, bslot, pool, heap, slot>> /\ pc[h] = "push" /\ pc'[h] = "good"
    BY <1>9 DEF Push, HandlerMoves, mainVars, poolVars, IInv, TypeOK
  <2>2. HandlerHeld \subseteq HandlerHeld' \cup {slot[h]}
    BY <1>9, <2>1 DEF Push, HandlerMoves, HandlerHeld, IInv, TypeOK
  <2>3. slot[h] \in Slots
    BY <2>1, NoSlotAssumption DEF IInv, TypeOK, OwnersInv, HandlerInv, Holding, Taken
  <2>4. ASSUME ~ lostJob' PROVE Queued' = Queued \cup {slot[h]} /\ ~ lostJob
    <3>1. queue' = Append(queue, slot[h]) /\ ~ lostJob
          /\ queue \in Seq(Slots \cup {NoSlot})
      BY <1>9, <2>4 DEF Push, PushJob, IInv, TypeOK
    <3>2. ToSet(queue') = ToSet(queue) \cup {slot[h]}
      BY <2>3, <3>1, ToSetAppend
    <3> QED BY <2>3, <3>1, <3>2, NoSlotAssumption DEF Queued
  <2> QED BY <2>1, <2>2, <2>4 DEF LeakInv, InUse, Taken, WorkerHeld, MainHeld
<1>10. CASE Return(h)
  <2>1. UNCHANGED <<wslot, bslot, queue, heap, lostJob>> /\ pool' = pool \cup {slot[h]}
    BY <1>10 DEF Return, TransReturn, HandlerMoves, mainVars
  <2>2. HandlerHeld \subseteq HandlerHeld' \cup {slot[h]}
    BY <1>10 DEF Return, HandlerMoves, HandlerHeld, Holding, IInv, TypeOK
  <2> QED BY <2>1, <2>2 DEF LeakInv, InUse, Taken, Queued, WorkerHeld, MainHeld
<1> QED BY <1>1, <1>2, <1>3, <1>4, <1>5, <1>6, <1>8, <1>9, <1>10 DEF HandlerStep

\* The worker thread takes an object out of the queue and gives it back.
LEMMA WorkerLeak ==
  ASSUME IInv, LeakInv, WorkerStep
  PROVE  LeakInv'
<1>1. HandlerHeld' = HandlerHeld /\ MainHeld' = MainHeld /\ lostJob' = lostJob
  BY DEF WorkerStep, Pull, SetCurrent, SetKey, Work, Processed, Result, GiveBack,
         WorkerMoves, mainVars, handlerVars, HandlerHeld, MainHeld
<1>2. CASE Pull
  <2>1. UNCHANGED <<pool, heap>> /\ wslot = NoSlot
    BY <1>2 DEF Pull, WorkerMoves, poolVars, IInv, OwnersInv, WorkerInv
  <2>2. Queued \subseteq Queued' \cup WorkerHeld'
    <3>1. queue \in Seq(Slots \cup {NoSlot}) /\ queue # <<>>
          /\ wslot' = Head(queue) /\ queue' = Tail(queue)
      BY <1>2 DEF Pull, IInv, TypeOK
    <3> QED BY <3>1, TailOf DEF Queued, WorkerHeld
  <2> QED BY <1>1, <2>1, <2>2 DEF LeakInv, InUse, Taken, WorkerHeld
<1>3. CASE SetCurrent \/ SetKey \/ Work \/ Processed \/ Result
  <2>1. UNCHANGED <<pool, heap, wslot, queue>>
    BY <1>3 DEF SetCurrent, SetKey, Work, Processed, Result, poolVars
  <2> QED BY <1>1, <2>1 DEF LeakInv, InUse, Taken, Queued, WorkerHeld
<1>4. CASE GiveBack
  <2>1. UNCHANGED <<heap, queue>> /\ pool' = pool \cup {wslot}
    BY <1>4 DEF GiveBack, TransReturn
  <2> QED BY <1>1, <2>1 DEF LeakInv, InUse, Taken, Queued, WorkerHeld
<1> QED BY <1>2, <1>3, <1>4 DEF WorkerStep

\* service_init gets an object from the pool, and pushes it or has none.
LEMMA MainLeak ==
  ASSUME IInv, LeakInv, MainStep
  PROVE  LeakInv'
<1>1. HandlerHeld' = HandlerHeld /\ WorkerHeld' = WorkerHeld
  BY DEF MainStep, Start, Lookup, LookupFails, CountFromBackup, PushFromBackup, Serve,
         MainMoves, handlerVars, HandlerHeld, WorkerHeld
<1>2. CASE Start
  BY <1>2 DEF Start, LeakInv, Taken
<1>3. CASE Lookup \/ LookupFails
  <2>1. UNCHANGED <<queue, lostJob>> /\ bslot = NoSlot
    BY <1>3 DEF Lookup, LookupFails, MainMoves, IInv, OwnersInv, MainInv
  <2>2. \A s \in Slots : Taken(s)' => Taken(s) \/ s \in MainHeld'
    BY <1>3, NoSlotAssumption
       DEF Lookup, LookupFails, PoolPop, Taken, MainHeld, IInv, TypeOK
  <2> QED BY <1>1, <2>1, <2>2 DEF LeakInv, InUse, Queued, MainHeld
<1>4. CASE CountFromBackup \/ Serve
  BY <1>1, <1>4 DEF CountFromBackup, Serve, poolVars, LeakInv, InUse, Taken, Queued, MainHeld
<1>5. CASE PushFromBackup
  <2>1. UNCHANGED <<pool, heap>>
    BY <1>5 DEF PushFromBackup, poolVars
  <2>2. ASSUME ~ lostJob' PROVE Queued' = Queued \cup MainHeld /\ ~ lostJob
    <3>1. /\ queue' = Append(queue, bslot) /\ bslot # NoSlot /\ ~ lostJob
          /\ queue \in Seq(Slots \cup {NoSlot}) /\ bslot \in Slots \cup {NoSlot}
      BY <1>5, <2>2 DEF PushFromBackup, PushJob, IInv, TypeOK
    <3>2. ToSet(queue') = ToSet(queue) \cup {bslot}
      BY <3>1, ToSetAppend
    <3> QED BY <3>1, <3>2 DEF Queued, MainHeld
  <2> QED BY <1>1, <2>1, <2>2 DEF LeakInv, InUse, Taken
<1> QED BY <1>2, <1>3, <1>4, <1>5 DEF MainStep

\* Unless a push failed, every object is in the pool or has an owner: no error
\* path forgets service_trans_return.
THEOREM NoLeakCorrect == Spec => []NoLeak
<1>1. Init => LeakInv
  BY DEF Init, LeakInv, Taken
<1>2. IInv /\ LeakInv /\ [Next]_vars => LeakInv'
  <2> SUFFICES ASSUME IInv, LeakInv, [Next]_vars PROVE LeakInv'
    OBVIOUS
  <2>1. ASSUME NEW t \in Trans, Delete(t) PROVE LeakInv'
    BY <2>1 DEF Delete, mainVars, handlerVars, workerVars, poolVars, historyVars, LeakInv,
                InUse, Taken, HandlerHeld, Queued, WorkerHeld, MainHeld
  <2>2. CASE Crash \/ NullJob
    BY <2>2 DEF Crash, NullJob, ProcessDies, LeakInv, Taken
  <2>3. CASE UNCHANGED vars
    BY <2>3 DEF vars, mainVars, handlerVars, workerVars, poolVars, historyVars, LeakInv,
                InUse, Taken, HandlerHeld, Queued, WorkerHeld, MainHeld
  <2> QED BY <2>1, <2>2, <2>3, HandlerLeak, WorkerLeak, MainLeak DEF Next
<1>3. IInv /\ LeakInv => NoLeak
  <2> SUFFICES ASSUME IInv, LeakInv, ~ lostJob PROVE heap = pool \cup InUse
    BY DEF NoLeak
  <2>1. \A s \in InUse : Taken(s)
    BY DEF IInv, OwnersInv, InUse, HandlerHeld, WorkerHeld, MainHeld, HandlerInv, QueueInv,
           WorkerInv, MainInv
  <2> QED BY <2>1 DEF LeakInv, Taken, IInv, TypeOK
<1> QED BY <1>1, <1>2, <1>3, OwnersInvariant, PTL DEF Spec

-----------------------------------------------------------------------------
(***************************************************************************)
(* The counters.                                                           *)
(***************************************************************************)

\* The handlers that are at one of the points S.
At(f, S) == {k \in Handlers : f[k] \in S}

\* There are finitely many handlers.
LEMMA AtFinite ==
  ASSUME NEW f, NEW S
  PROVE  IsFiniteSet(At(f, S)) /\ Cardinality(At(f, S)) \in Nat
<1>1. At(f, S) \in SUBSET Handlers
  BY DEF At
<1>2. IsFiniteSet(At(f, S))
  BY <1>1, FiniteAssumption, FS_Subset
<1> QED BY <1>2, FS_CardinalityType

\* What the move of one handler does to the number of handlers at S.
LEMMA MoveCount ==
  ASSUME NEW f, NEW g, NEW h \in Handlers, \A k \in Handlers \ {h} : g[k] = f[k], NEW S
  PROVE  /\ (f[h] \in S <=> g[h] \in S) => At(g, S) = At(f, S)
         /\ f[h] \notin S /\ g[h] \in S =>
              Cardinality(At(g, S)) = Cardinality(At(f, S)) + 1
         /\ f[h] \in S /\ g[h] \notin S =>
              Cardinality(At(g, S)) = Cardinality(At(f, S)) - 1
<1>1. IsFiniteSet(At(f, S))
  BY AtFinite
<1>2. (f[h] \in S <=> g[h] \in S) => At(g, S) = At(f, S)
  BY DEF At
<1>3. f[h] \notin S /\ g[h] \in S => At(g, S) = At(f, S) \cup {h} /\ h \notin At(f, S)
  BY DEF At
<1>4. f[h] \in S /\ g[h] \notin S => At(g, S) = At(f, S) \ {h} /\ h \in At(f, S)
  BY DEF At
<1> HIDE DEF At
<1>5. h \notin At(f, S) => Cardinality(At(f, S) \cup {h}) = Cardinality(At(f, S)) + 1
  BY <1>1, FS_AddElement
<1>6. h \in At(f, S) => Cardinality(At(f, S) \ {h}) = Cardinality(At(f, S)) - 1
  BY <1>1, FS_RemoveElement
<1> QED BY <1>2, <1>3, <1>4, <1>5, <1>6

\* The same of the handlers that TransPipeline moves.
LEMMA MoveHandler ==
  ASSUME TypeOK, NEW h \in Handlers, NEW from, NEW to, HandlerMoves(h, from, to), NEW S
  PROVE  /\ (from \in S <=> to \in S) => Cardinality(At(pc, S))' = Cardinality(At(pc, S))
         /\ from \notin S /\ to \in S => Cardinality(At(pc, S))' = Cardinality(At(pc, S)) + 1
         /\ from \in S /\ to \notin S => Cardinality(At(pc, S))' = Cardinality(At(pc, S)) - 1
<1>1. \A k \in Handlers \ {h} : pc'[k] = pc[k]
  BY DEF HandlerMoves, TypeOK
<1>2. /\ (pc[h] \in S <=> pc'[h] \in S) => At(pc', S) = At(pc, S)
      /\ pc[h] \notin S /\ pc'[h] \in S => Cardinality(At(pc', S)) = Cardinality(At(pc, S)) + 1
      /\ pc[h] \in S /\ pc'[h] \notin S => Cardinality(At(pc', S)) = Cardinality(At(pc, S)) - 1
  BY <1>1, MoveCount
<1>3. pc[h] = from /\ pc'[h] = to
  BY DEF HandlerMoves, TypeOK
<1>4. Cardinality(At(pc, S))' = Cardinality(At(pc', S))
  BY DEF At
<1> QED BY <1>2, <1>3, <1>4

\* A counter is incremented in memory and in Redis together.
LEMMA CountAdds ==
  ASSUME TypeOK, data = cached, NEW c \in Counters, Count(c)
  PROVE  /\ data' = cached' /\ cached'[c] = cached[c] + 1
         /\ \A d \in Counters : d # c => cached'[d] = cached[d]
         /\ \A d \in Counters : cached[d] \in Nat
BY DEF TypeOK, Count

\* The equation of RequestAccounting.
Ledger(n, good, bad, undecided, lost) == n = good + bad + undecided + lost

\* The request of a handler is in one of the terms of the sum.
LEMMA HandlerAccount ==
  ASSUME IInv, RequestAccounting, NEW h \in Handlers, Create(h) \/ HandlerStep(h)
  PROVE  RequestAccounting'
<1> DEFINE U == Cardinality(At(pc, Undecided))
<1>1. TypeOK /\ main = "up" /\ data = cached /\ UNCHANGED main /\ uncounted \in Nat
  BY BusyIsUp
     DEF IInv, OwnersInv, RequestAccounting, HandlerStep, Create, Get, GetFails, Parse,
         ParseFails, Insert, InsertFails, Receive, AddToQueue, Push, Good, Respond, Bad,
         Return, HandlerMoves, mainVars, TypeOK
<1>2. /\ RequestAccounting <=>
           /\ Ledger(cached["n_trans"], cached["n_good_trans"], cached["n_bad_trans"],
                     U, uncounted)
           /\ main # "down" => data = cached
      /\ RequestAccounting' <=>
           /\ Ledger(cached'["n_trans"], cached'["n_good_trans"], cached'["n_bad_trans"],
                     U', uncounted')
           /\ main' # "down" => data' = cached'
  BY DEF RequestAccounting, Ledger, At
<1>3. U \in Nat
  BY AtFinite
<1>11. ASSUME NEW from, NEW to, HandlerMoves(h, from, to)
       PROVE  /\ (from \in Undecided <=> to \in Undecided) => U' = U
              /\ from \notin Undecided /\ to \in Undecided => U' = U + 1
              /\ from \in Undecided /\ to \notin Undecided => U' = U - 1
  BY <1>1, <1>11, MoveHandler
<1> HIDE DEF U
<1>4. \A c \in Counters : cached[c] \in Nat
  BY <1>1 DEF TypeOK
<1>5. CASE Create(h)
  <2>1. Count("n_trans") /\ HandlerMoves(h, "idle", "get") /\ UNCHANGED uncounted
    BY <1>5 DEF Create
  <2>2. U' = U + 1
    BY <1>11, <2>1 DEF Undecided
  <2>3. /\ data' = cached' /\ cached'["n_trans"] = cached["n_trans"] + 1
        /\ cached'["n_good_trans"] = cached["n_good_trans"]
        /\ cached'["n_bad_trans"] = cached["n_bad_trans"]
    BY <1>1, <2>1, CountAdds DEF Counters
  <2> QED BY <1>1, <1>2, <1>3, <1>4, <2>1, <2>2, <2>3 DEF Counters, Ledger
<1>6. CASE GetFails(h)
  <2>1. HandlerMoves(h, "get", "idle") /\ UNCHANGED <<data, cached>>
        /\ uncounted' = uncounted + 1
    BY <1>6 DEF GetFails, countVars
  <2>2. U' = U - 1
    BY <1>11, <2>1 DEF Undecided
  <2> QED BY <1>1, <1>2, <1>3, <1>4, <2>1, <2>2 DEF Counters, Ledger
<1>7. CASE Good(h)
  <2>1. Count("n_good_trans") /\ HandlerMoves(h, "good", "respond") /\ UNCHANGED uncounted
    BY <1>7 DEF Good
  <2>2. U' = U - 1
    BY <1>11, <2>1 DEF Undecided
  <2> QED BY <1>1, <1>2, <1>3, <1>4, <2>1, <2>2, CountAdds DEF Counters, Ledger
<1>8. CASE Bad(h)
  <2>1. Count("n_bad_trans") /\ HandlerMoves(h, "bad", "return") /\ UNCHANGED uncounted
    BY <1>8 DEF Bad
  <2>2. U' = U - 1
    BY <1>11, <2>1 DEF Undecided
  <2> QED BY <1>1, <1>2, <1>3, <1>4, <2>1, <2>2, CountAdds DEF Counters, Ledger
<1>9. CASE Receive(h)
  <2>1. Count("n_received_trans") /\ HandlerMoves(h, "receive", "add") /\ UNCHANGED uncounted
    BY <1>9 DEF Receive
  <2>2. U' = U
    BY <1>11, <2>1 DEF Undecided
  <2> QED BY <1>1, <1>2, <1>3, <1>4, <2>1, <2>2, CountAdds DEF Counters, Ledger
<1>10. CASE \/ Get(h) \/ Parse(h) \/ ParseFails(h) \/ Insert(h) \/ InsertFails(h)
            \/ AddToQueue(h) \/ Push(h) \/ Respond(h) \/ Return(h)
  <2>1. UNCHANGED <<data, cached, uncounted>>
    BY <1>10 DEF Get, Parse, ParseFails, Insert, InsertFails, AddToQueue, Push, Respond,
                 Return, countVars
  <2>2. U' = U
    <3>1. CASE Get(h) \/ Parse(h) \/ ParseFails(h)
      BY <1>11, <3>1 DEF Get, Parse, ParseFails, Undecided
    <3>2. CASE Insert(h) \/ InsertFails(h) \/ AddToQueue(h)
      BY <1>11, <3>2 DEF Insert, InsertFails, AddToQueue, Undecided
    <3>3. CASE Push(h) \/ Respond(h) \/ Return(h)
      BY <1>11, <3>3 DEF Push, Respond, Return, Undecided
    <3> QED BY <1>10, <3>1, <3>2, <3>3
  <2> QED BY <1>1, <1>2, <2>1, <2>2
<1> QED BY <1>5, <1>6, <1>7, <1>8, <1>9, <1>10 DEF HandlerStep

\* Every request in n_trans is good, bad, undecided, or ended with the process
\* or for want of an object.
THEOREM RequestAccountingCorrect == Spec => []RequestAccounting
<1>1. Init => RequestAccounting
  <2> SUFFICES ASSUME Init PROVE RequestAccounting
    OBVIOUS
  <2>1. {h \in Handlers : pc[h] \in Undecided} = {}
    BY DEF Init, Undecided
  <2>2. Cardinality({h \in Handlers : pc[h] \in Undecided}) = 0
    BY <2>1, FS_EmptySet
  <2>3. \A c \in Counters : cached[c] = 0
    BY DEF Init
  <2> QED BY <2>2, <2>3 DEF Init, RequestAccounting, Counters
<1>2. IInv /\ RequestAccounting /\ [Next]_vars => RequestAccounting'
  <2> SUFFICES ASSUME IInv, RequestAccounting, [Next]_vars PROVE RequestAccounting'
    OBVIOUS
  <2>1. CASE Processed
    <3>1. data = cached /\ TypeOK /\ Count("n_processed_trans") /\ UNCHANGED <<main, pc, uncounted>>
      BY <2>1 DEF Processed, WorkerMoves, mainVars, handlerVars, RequestAccounting, IInv,
                  OwnersInv, MainInv
    <3>2. data' = cached' /\ \A d \in Counters : d # "n_processed_trans" => cached'[d] = cached[d]
      BY <3>1, CountAdds DEF Counters
    <3> QED BY <3>1, <3>2 DEF RequestAccounting, Counters
  <2>2. CASE Pull \/ SetCurrent \/ SetKey \/ Work \/ Result \/ GiveBack
    BY <2>2 DEF Pull, SetCurrent, SetKey, Work, Result, GiveBack, WorkerMoves, mainVars,
                handlerVars, countVars, RequestAccounting
  <2>3. CASE MainStep
    BY <2>3 DEF MainStep, Start, Lookup, LookupFails, CountFromBackup, PushFromBackup, Serve,
                MainMoves, handlerVars, RequestAccounting
  <2>4. CASE Crash \/ NullJob
    <3>1. ProcessDies
      BY <2>4 DEF Crash, NullJob
    <3>2. {h \in Handlers : pc'[h] \in Undecided} = {}
      BY <3>1 DEF ProcessDies, Undecided
    <3>3. Cardinality({h \in Handlers : pc'[h] \in Undecided}) = 0
      BY <3>2, FS_EmptySet
    <3>4. At(pc, Undecided) = {h \in Handlers : pc[h] \in Undecided}
      BY DEF At
    <3>5. Cardinality(At(pc, Undecided)) \in Nat
      BY AtFinite
    <3>6. \A c \in Counters : cached[c] \in Nat
      BY DEF IInv, TypeOK
    <3>7. /\ UNCHANGED cached /\ main' = "down" /\ uncounted \in Nat
          /\ uncounted' = uncounted + Cardinality(At(pc, Undecided))
      BY <3>1, <3>4 DEF ProcessDies, IInv, TypeOK
    <3> QED BY <3>3, <3>4, <3>5, <3>6, <3>7 DEF RequestAccounting, Counters
  <2>5. CASE UNCHANGED vars \/ \E t \in Trans : Delete(t)
    BY <2>5 DEF vars, Delete, mainVars, handlerVars, countVars, historyVars, RequestAccounting
  <2> QED BY <2>1, <2>2, <2>3, <2>4, <2>5, HandlerAccount DEF Next, WorkerStep
<1> QED BY <1>1, <1>2, OwnersInvariant, PTL DEF Spec

\* The handlers that have counted a job and not yet pushed it.
Pushing == Cardinality(At(pc, {"push"}))

\* The equation of QueueCountExact.
CountInv ==
  ~ lostJob =>
    current_n = Len(queue) + Pushing + (IF main = "push" THEN 1 ELSE 0)
                                     + (IF wpc = "set" THEN 1 ELSE 0)

\* A handler counts the job, then pushes it.
LEMMA HandlerQueueCount ==
  ASSUME IInv, CountInv, NEW h \in Handlers, Create(h) \/ HandlerStep(h)
  PROVE  CountInv'
<1>1. TypeOK /\ current_n \in Int /\ UNCHANGED <<main, wpc>>
      /\ queue \in Seq(Slots \cup {NoSlot}) /\ Len(queue) \in Nat
  <2>1. TypeOK /\ current_n \in Int /\ queue \in Seq(Slots \cup {NoSlot})
    BY DEF IInv, TypeOK
  <2>2. UNCHANGED <<main, wpc>>
    BY DEF HandlerStep, Create, Get, GetFails, Parse, ParseFails, Insert, InsertFails,
           Receive, AddToQueue, Push, Good, Respond, Bad, Return, HandlerMoves, mainVars
  <2> QED BY <2>1, <2>2, LenProperties
<1>2. Pushing \in Nat
  BY AtFinite DEF Pushing
<1>3. ASSUME NEW from, NEW to, HandlerMoves(h, from, to)
      PROVE  /\ (from # "push" /\ to # "push") => Pushing' = Pushing
             /\ from # "push" /\ to = "push" => Pushing' = Pushing + 1
             /\ from = "push" /\ to # "push" => Pushing' = Pushing - 1
  <2>1. /\ (from \in {"push"} <=> to \in {"push"}) => Pushing' = Pushing
        /\ from \notin {"push"} /\ to \in {"push"} => Pushing' = Pushing + 1
        /\ from \in {"push"} /\ to \notin {"push"} => Pushing' = Pushing - 1
    BY <1>1, <1>3, MoveHandler DEF Pushing
  <2> QED BY <2>1
<1>4. CASE AddToQueue(h)
  <2>1. UNCHANGED <<queue, lostJob>> /\ current_n' = current_n + 1 /\ Pushing' = Pushing + 1
    BY <1>3, <1>4 DEF AddToQueue
  <2> QED BY <1>1, <1>2, <2>1 DEF CountInv
<1>5. CASE Push(h)
  <2>1. UNCHANGED current_n /\ Pushing' = Pushing - 1 /\ PushJob(slot[h]) /\ pc[h] = "push"
    <3>1. HandlerMoves(h, "push", "good") /\ UNCHANGED current_n /\ PushJob(slot[h])
      BY <1>5 DEF Push
    <3>2. Pushing' = Pushing - 1
      BY <1>3, <3>1
    <3>3. pc[h] = "push"
      BY <3>1 DEF HandlerMoves
    <3> QED BY <3>1, <3>2, <3>3
  <2>2. CASE queue' = Append(queue, slot[h]) /\ UNCHANGED lostJob
    <3>1. slot[h] \in Slots
      BY <2>1, NoSlotAssumption DEF IInv, TypeOK, OwnersInv, HandlerInv, Holding, Taken
    <3>2. Len(queue') = Len(queue) + 1
      BY <1>1, <2>2, <3>1, AppendProperties
    <3> QED BY <1>1, <1>2, <2>1, <2>2, <3>2 DEF CountInv
  <2>3. CASE lostJob' = TRUE
    BY <2>3 DEF CountInv
  <2> QED BY <2>1, <2>2, <2>3 DEF PushJob
<1>6. CASE Create(h) \/ (HandlerStep(h) /\ ~ AddToQueue(h) /\ ~ Push(h))
  <2>1. UNCHANGED <<queue, lostJob, current_n>>
    BY <1>6 DEF HandlerStep, Create, Get, GetFails, Parse, ParseFails, Insert, InsertFails,
                Receive, Good, Respond, Bad, Return
  <2>2. Pushing' = Pushing
    BY <1>3, <1>6
       DEF HandlerStep, Create, Get, GetFails, Parse, ParseFails, Insert, InsertFails,
           Receive, Good, Respond, Bad, Return
  <2> QED BY <1>1, <2>1, <2>2 DEF CountInv
<1> QED BY <1>4, <1>5, <1>6

\* The worker thread pulls the job, then subtracts it.
LEMMA WorkerQueueCount ==
  ASSUME IInv, CountInv, WorkerStep
  PROVE  CountInv'
<1>1. /\ current_n \in Int /\ UNCHANGED <<main, lostJob>> /\ Pushing' = Pushing
      /\ queue \in Seq(Slots \cup {NoSlot})
  BY DEF WorkerStep, Pull, SetCurrent, SetKey, Work, Processed, Result, GiveBack, WorkerMoves,
         mainVars, handlerVars, Pushing, At, IInv, TypeOK
<1>2. Pushing \in Nat
  BY AtFinite DEF Pushing
<1>3. CASE Pull
  <2>1. queue # <<>> /\ queue' = Tail(queue) /\ wpc = "wait" /\ wpc' = "set" /\ UNCHANGED current_n
    BY <1>3 DEF Pull, WorkerMoves
  <2>2. Len(queue') = Len(queue) - 1 /\ Len(queue) \in Nat
    BY <1>1, <2>1, HeadTailProperties, LenProperties
  <2> QED BY <1>1, <1>2, <2>1, <2>2 DEF CountInv
<1>4. CASE SetCurrent
  <2>1. UNCHANGED queue /\ wpc = "set" /\ wpc' = "key" /\ current_n' = current_n - 1
    BY <1>4 DEF SetCurrent, WorkerMoves
  <2>2. Len(queue) \in Nat
    BY <1>1, LenProperties
  <2> QED BY <1>1, <1>2, <2>1, <2>2 DEF CountInv
<1>5. CASE SetKey \/ Work \/ Processed \/ Result \/ GiveBack
  BY <1>1, <1>5 DEF SetKey, Work, Processed, Result, GiveBack, WorkerMoves, CountInv
<1> QED BY <1>3, <1>4, <1>5 DEF WorkerStep

\* The main thread counts a restored job, then pushes it.
LEMMA MainQueueCount ==
  ASSUME IInv, CountInv, MainStep
  PROVE  CountInv'
<1>1. /\ current_n \in Int /\ UNCHANGED wpc /\ Pushing' = Pushing
      /\ queue \in Seq(Slots \cup {NoSlot}) /\ bslot \in Slots \cup {NoSlot}
  BY DEF MainStep, Start, Lookup, LookupFails, CountFromBackup, PushFromBackup, Serve,
         MainMoves, handlerVars, Pushing, At, IInv, TypeOK
<1>2. Pushing \in Nat /\ Len(queue) \in Nat
  BY <1>1, AtFinite, LenProperties DEF Pushing
<1>3. CASE Start \/ Lookup \/ LookupFails \/ Serve
  BY <1>1, <1>3 DEF Start, Lookup, LookupFails, Serve, MainMoves, CountInv
<1>4. CASE CountFromBackup
  <2>1. UNCHANGED <<queue, lostJob>> /\ main = "count" /\ main' = "push"
        /\ current_n' = current_n + 1
    BY <1>4 DEF CountFromBackup, MainMoves
  <2> QED BY <1>1, <1>2, <2>1 DEF CountInv
<1>5. CASE PushFromBackup
  <2>1. main = "push" /\ main' = "lookup" /\ UNCHANGED current_n
    BY <1>5 DEF PushFromBackup, MainMoves
  <2>2. CASE queue' = Append(queue, bslot) /\ UNCHANGED lostJob
    <3>1. Len(queue') = Len(queue) + 1
      BY <1>1, <2>2, AppendProperties
    <3> QED BY <1>1, <1>2, <2>1, <2>2, <3>1 DEF CountInv
  <2>3. CASE lostJob' = TRUE
    BY <2>3 DEF CountInv
  <2> QED BY <1>5, <2>2, <2>3 DEF PushFromBackup, PushJob
<1> QED BY <1>3, <1>4, <1>5 DEF MainStep

\* Unless a push failed, current_n_trans_in_worker_queue counts the jobs, the
\* pushes under way and the pull that is not yet subtracted; so the size_t
\* never wraps.
THEOREM QueueCountExactCorrect == Spec => []QueueCountExact
<1>1. ASSUME \A h \in Handlers : pc[h] = "idle" PROVE Pushing = 0
  <2>1. At(pc, {"push"}) = {}
    BY <1>1 DEF At
  <2> QED BY <2>1, FS_EmptySet DEF Pushing
<1>2. Init => CountInv
  BY <1>1 DEF Init, CountInv
<1>3. IInv /\ CountInv /\ [Next]_vars => CountInv'
  <2> SUFFICES ASSUME IInv, CountInv, [Next]_vars PROVE CountInv'
    OBVIOUS
  <2>1. ASSUME NEW t \in Trans, Delete(t) PROVE CountInv'
    BY <2>1 DEF Delete, mainVars, handlerVars, workerVars, historyVars, CountInv, Pushing, At
  <2>2. CASE Crash \/ NullJob
    <3>1. At(pc, {"push"})' = {}
      BY <2>2 DEF Crash, NullJob, ProcessDies, At
    <3>2. Pushing' = 0
      BY <3>1, FS_EmptySet DEF Pushing
    <3>3. current_n' = 0 /\ queue' = <<>> /\ main' = "down" /\ wpc' = "wait"
      BY <2>2 DEF Crash, NullJob, ProcessDies
    <3> QED BY <3>2, <3>3 DEF CountInv
  <2>3. CASE UNCHANGED vars
    BY <2>3 DEF vars, mainVars, handlerVars, workerVars, historyVars, CountInv, Pushing, At
  <2> QED BY <2>1, <2>2, <2>3, HandlerQueueCount, WorkerQueueCount, MainQueueCount DEF Next
<1>4. CountInv => QueueCountExact
  <2>1. At(pc, {"push"}) = {h \in Handlers : pc[h] = "push"}
    BY DEF At
  <2> QED BY <2>1 DEF CountInv, QueueCountExact, Pushing
<1> QED BY <1>2, <1>3, <1>4, OwnersInvariant, PTL DEF Spec

-----------------------------------------------------------------------------
(***************************************************************************)
(* What becomes of a listed transaction.  Here the ids stored in the       *)
(* objects matter: a transaction has one job, its job is backed by the     *)
(* Redis list, and once it is finished or interrupted it has none.  From   *)
(* that follow QueueIsDurable, NoRework, AckedNotLost, NoOrphan, what the  *)
(* counters of received and processed transactions say, and the refinement *)
(* of WorkQueue.                                                           *)
(***************************************************************************)

\* A queued transaction is listed, is queued once, and is neither the one that
\* the worker thread has nor the one that a handler is about to push.
JobInv ==
  /\ \A s \in Queued : mem[s] \in ToSet(list)
  /\ \A s, r \in Queued : mem[s] = mem[r] => s = r
  /\ \A h \in Handlers : pc[h] = "push" =>
       req[h] \in ToSet(list) /\ \A s \in Queued : mem[s] # req[h]
  /\ wslot # NoSlot =>
       /\ db[mem[wslot]] # "absent"
       /\ \A s \in Queued : mem[s] # mem[wslot]
       /\ \A h \in Handlers : pc[h] \in Filled => req[h] # mem[wslot]
       /\ wpc = "set" => mem[wslot] \in ToSet(list)

\* What the main thread still has to load is listed, once, and has no job yet.
ReplyInv ==
  /\ NoRepeats(reply, NoTrans)
  /\ main = "up" => reply = <<>>
  /\ ToSet(reply) \subseteq ToSet(list)
  /\ \A s \in Queued : mem[s] \notin ToSet(reply)
  /\ wslot # NoSlot => mem[wslot] \notin ToSet(reply)
  /\ bslot # NoSlot => mem[bslot] = Head(reply)

\* A transaction that is finished or interrupted is stored, is not listed, and
\* is not the one in work or one that a handler is about to list.
EndInv ==
  /\ finished \cap interrupted = {}
  /\ ToSet(list) \cap (finished \cup interrupted) = {}
  /\ \A t \in finished \cup interrupted : db[t] # "absent"
  /\ wpc \in Processing => mem[wslot] \notin finished \cup interrupted \cup ToSet(list)
  /\ \A h \in Handlers : pc[h] \in Filled => req[h] \notin finished \cup interrupted

FateInv == JobInv /\ ReplyInv /\ EndInv

-----------------------------------------------------------------------------
(***************************************************************************)
(* The steps preserve the fate of a transaction.                           *)
(***************************************************************************)

\* A step that lists, queues, takes and ends no transaction.
LEMMA KeepFate ==
  ASSUME TypeOK, FateInv,
         Queued' \subseteq Queued, \A s \in Queued : mem'[s] = mem[s],
         UNCHANGED <<list, finished, interrupted, reply>>,
         wslot' # NoSlot => wslot' = wslot /\ mem'[wslot] = mem[wslot],
         wslot' # NoSlot \/ wpc' \notin Processing,
         wslot' # NoSlot => mem[wslot] \in Trans,
         wpc' = "set" => wpc = "set", wpc' \in Processing => wpc \in Processing,
         bslot' # NoSlot => bslot' = bslot /\ mem'[bslot] = mem[bslot],
         main' = "up" => reply = <<>>,
         \A h \in Handlers : pc'[h] \in Filled => pc[h] \in Filled /\ req'[h] = req[h],
         \A h \in Handlers : pc'[h] = "push" => pc[h] = "push",
         \A t \in Trans : db[t] # "absent" => db'[t] # "absent"
  PROVE  FateInv'
<1>1. JobInv'
  BY DEF FateInv, JobInv, Filled
<1>2. ReplyInv'
  BY DEF FateInv, ReplyInv
<1>3. finished \cup interrupted \subseteq Trans
  BY DEF TypeOK
<1>4. EndInv'
  BY <1>3 DEF FateInv, EndInv
<1> QED BY <1>1, <1>2, <1>4 DEF FateInv

\* What a handler that pushes nothing moves on to leaves every job alone.
LEMMA KeepFateHandler ==
  ASSUME IInv, FateInv, NEW h \in Handlers, NEW from, NEW to,
         HandlerMoves(h, from, to), main = "up",
         UNCHANGED <<queue, list>>,
         \A s \in Slots : Taken(s) /\ (from \in Holding => s # slot[h]) => mem'[s] = mem[s],
         to \in Filled => from \in Filled, to # "push",
         \A k \in Handlers : k # h \/ to \in Filled => req'[k] = req[k],
         \A t \in Trans : db[t] # "absent" => db'[t] # "absent"
  PROVE  FateInv'
<1>1. Queued' = Queued /\ \A s \in Queued : mem'[s] = mem[s] /\ Taken(s)
  BY DEF HandlerMoves, IInv, OwnersInv, QueueInv, TypeOK, Queued, Taken
<1>2. wslot # NoSlot => mem'[wslot] = mem[wslot] /\ mem[wslot] \in Trans
  BY DEF HandlerMoves, IInv, OwnersInv, WorkerInv, TypeOK, Taken
<1>3. /\ UNCHANGED <<wslot, wpc, bslot, main, reply, finished, interrupted>>
      /\ bslot = NoSlot
      /\ wslot # NoSlot \/ wpc \notin Processing
  BY DEF HandlerMoves, mainVars, IInv, OwnersInv, WorkerInv, MainInv, Processing
<1>4. /\ \A k \in Handlers : pc'[k] \in Filled => pc[k] \in Filled /\ req'[k] = req[k]
      /\ \A k \in Handlers : pc'[k] = "push" => pc[k] = "push"
  BY DEF HandlerMoves, IInv, TypeOK
<1>5. TypeOK /\ reply = <<>>
  BY DEF IInv, FateInv, ReplyInv
<1> QED BY <1>1, <1>2, <1>3, <1>4, <1>5, KeepFate

\* Every step of a handler but Parse, AddToQueue and Push.
LEMMA QuietHandlerFate ==
  ASSUME IInv, FateInv, NEW h \in Handlers,
         \/ Create(h) \/ Get(h) \/ GetFails(h) \/ ParseFails(h) \/ Insert(h)
         \/ InsertFails(h) \/ Receive(h) \/ Good(h) \/ Respond(h) \/ Bad(h) \/ Return(h)
  PROVE  FateInv'
<1>1. main = "up"
  BY BusyIsUp DEF IInv, OwnersInv, Create, Get, GetFails, ParseFails, Insert, InsertFails,
     Receive, Good, Respond, Bad, Return, HandlerMoves
<1>2. CASE Create(h)
  BY <1>1, <1>2, KeepFateHandler DEF Create, poolVars, Filled
<1>3. CASE Get(h)
  BY <1>1, <1>3, KeepFateHandler DEF Get, Filled
<1>4. CASE GetFails(h)
  BY <1>1, <1>4, KeepFateHandler DEF GetFails, poolVars, Filled
<1>5. CASE ParseFails(h)
  BY <1>1, <1>5, KeepFateHandler DEF ParseFails, poolVars, Filled
<1>6. CASE Insert(h)
  <2>1. \A t \in Trans : db[t] # "absent" => db'[t] # "absent"
    BY <1>6 DEF Insert, IInv, TypeOK
  <2> QED BY <1>1, <1>6, <2>1, KeepFateHandler DEF Insert, poolVars, Filled
<1>7. CASE InsertFails(h)
  BY <1>1, <1>7, KeepFateHandler DEF InsertFails, poolVars, Filled
<1>8. CASE Receive(h)
  BY <1>1, <1>8, KeepFateHandler DEF Receive, poolVars, Filled
<1>9. CASE Good(h)
  BY <1>1, <1>9, KeepFateHandler DEF Good, poolVars, Filled
<1>10. CASE Respond(h)
  <2>1. \A k \in Handlers : k # h => req'[k] = req[k]
    BY <1>10 DEF Respond, IInv, TypeOK
  <2> QED BY <1>1, <1>10, <2>1, KeepFateHandler DEF Respond, poolVars, Filled
<1>11. CASE Bad(h)
  BY <1>1, <1>11, KeepFateHandler DEF Bad, poolVars, Filled
<1>12. CASE Return(h)
  <2>1. \A s \in Slots : s # slot[h] => mem'[s] = mem[s]
    BY <1>12 DEF Return, TransReturn, IInv, TypeOK
  <2>2. \A k \in Handlers : k # h => req'[k] = req[k]
    BY <1>12 DEF Return, IInv, TypeOK
  <2> QED BY <1>1, <1>12, <2>1, <2>2, KeepFateHandler DEF Return, Filled, Holding
<1> QED BY <1>2, <1>3, <1>4, <1>5, <1>6, <1>7, <1>8, <1>9, <1>10, <1>11, <1>12

\* The new id is one that nothing knows of.
LEMMA ParseFate ==
  ASSUME IInv, FateInv, NEW h \in Handlers, Parse(h)
  PROVE  FateInv'
<1> USE DEF IInv, OwnersInv
<1>1. PICK t \in Trans : /\ db[t] = "absent"
                         /\ mem' = [mem EXCEPT ![slot[h]] = t]
                         /\ req' = [req EXCEPT ![h] = t]
  BY DEF Parse
<1>2. /\ UNCHANGED <<main, reply, bslot, wpc, wslot, finished, interrupted, queue, list, db>>
      /\ Queued' = Queued
  BY DEF Parse, HandlerMoves, mainVars, Queued
<1>3. /\ slot[h] \in Slots /\ pc[h] \in Holding /\ bslot = NoSlot
      /\ \A s \in Queued \cup WorkerHeld : s \in Slots /\ mem'[s] = mem[s] /\ mem[s] \in Trans
  BY <1>1, NoSlotAssumption
     DEF Parse, HandlerMoves, TypeOK, HandlerInv, QueueInv, WorkerInv, MainInv, Holding,
         WorkerHeld, Taken
<1>4. t \notin ToSet(list) \cup finished \cup interrupted /\ (wslot # NoSlot => mem[wslot] # t)
  BY <1>1 DEF ListInv, FateInv, EndInv, JobInv
<1>5. /\ req'[h] = t /\ pc'[h] = "insert"
      /\ \A k \in Handlers : k # h => req'[k] = req[k] /\ pc'[k] = pc[k]
  BY <1>1 DEF TypeOK, Parse, HandlerMoves
<1>6. JobInv'
  BY <1>2, <1>3, <1>4, <1>5 DEF FateInv, JobInv, WorkerHeld
<1>7. ReplyInv'
  BY <1>2, <1>3 DEF FateInv, ReplyInv, WorkerHeld
<1>8. wpc \in Processing => wslot # NoSlot
  BY DEF Processing, WorkerInv
<1>9. EndInv'
  BY <1>2, <1>3, <1>4, <1>5, <1>8 DEF FateInv, EndInv, WorkerHeld
<1> QED BY <1>6, <1>7, <1>9 DEF FateInv

\* The id is listed before it is queued.
LEMMA AddToQueueFate ==
  ASSUME IInv, FateInv, NEW h \in Handlers, AddToQueue(h)
  PROVE  FateInv'
<1> USE DEF IInv, OwnersInv
<1>1. /\ UNCHANGED <<main, reply, bslot, wpc, wslot, mem, req, finished, interrupted, queue, db>>
      /\ Queued' = Queued
  BY DEF AddToQueue, HandlerMoves, mainVars, Queued, poolVars
<1>2. /\ pc[h] = "add" /\ mem[slot[h]] = req[h] /\ req[h] \in Trans /\ list \in Seq(Trans)
      /\ list' = Append(list, req[h]) /\ req[h] \notin ToSet(list)
  BY DEF AddToQueue, HandlerMoves, HandlerInv, ListInv, Filled, Stored, TypeOK
<1>3. ToSet(list') = ToSet(list) \cup {req[h]}
  BY <1>2, ToSetAppend
<1>4. /\ pc'[h] = "push"
      /\ \A k \in Handlers : k # h => pc'[k] = pc[k]
  BY DEF TypeOK, AddToQueue, HandlerMoves
<1>5. JobInv'
  BY <1>1, <1>2, <1>3, <1>4 DEF FateInv, JobInv, Filled
<1>6. ReplyInv'
  BY <1>1, <1>3 DEF FateInv, ReplyInv
<1>7. wpc \in Processing => wslot # NoSlot
  BY DEF Processing, WorkerInv
<1>8. EndInv'
  BY <1>1, <1>2, <1>3, <1>4, <1>7 DEF FateInv, EndInv, JobInv, Filled
<1> QED BY <1>5, <1>6, <1>8 DEF FateInv

\* The job that is pushed is one of a listed transaction that has no other.
LEMMA PushFate ==
  ASSUME IInv, FateInv, NEW h \in Handlers, Push(h)
  PROVE  FateInv'
<1> USE DEF IInv, OwnersInv
<1>1. UNCHANGED <<main, reply, bslot, wpc, wslot, mem, req, finished, interrupted, list, db>>
  BY DEF Push, HandlerMoves, mainVars, poolVars
<1>2. /\ pc[h] = "push" /\ slot[h] \in Slots /\ mem[slot[h]] = req[h] /\ main = "up"
  BY NoSlotAssumption
     DEF Push, HandlerMoves, HandlerInv, TypeOK, Filled, Holding, Taken
<1>3. Queued' \subseteq Queued \cup {slot[h]}
  <2>1. queue \in Seq(Slots \cup {NoSlot})
    BY DEF TypeOK
  <2>2. queue' = queue \/ queue' = Append(queue, slot[h])
    BY DEF Push, PushJob
  <2>3. ToSet(Append(queue, slot[h])) = ToSet(queue) \cup {slot[h]}
    BY <1>2, <2>1, ToSetAppend
  <2> QED BY <2>2, <2>3 DEF Queued
<1>4. /\ pc'[h] = "good" /\ pc[h] \in Filled
      /\ \A k \in Handlers : k # h => pc'[k] = pc[k] /\ (pc[k] = "push" => req[k] # req[h])
  BY <1>2, NoTransAssumption
     DEF TypeOK, Push, HandlerMoves, ListInv, HandlerInv, Filled, Stored
<1>5. JobInv'
  BY <1>1, <1>2, <1>3, <1>4 DEF FateInv, JobInv, Filled
<1>6. ReplyInv'
  BY <1>1, <1>2, <1>3 DEF FateInv, ReplyInv, ToSet
<1>7. EndInv'
  BY <1>1, <1>4 DEF FateInv, EndInv, Filled
<1> QED BY <1>5, <1>6, <1>7 DEF FateInv

\* A step of the worker thread that keeps its object and ends nothing.
LEMMA QuietWorkerFate ==
  ASSUME IInv, FateInv, SetKey \/ Work \/ Processed \/ GiveBack
  PROVE  FateInv'
<1> USE DEF IInv, OwnersInv
<1>1. /\ UNCHANGED <<mainVars, handlerVars, queue, list, db, finished, interrupted>>
      /\ Queued' = Queued
      /\ wpc # "wait" /\ wpc' # "set" /\ (wpc' \in Processing => wpc \in Processing)
      /\ wslot # NoSlot /\ wslot \in Slots /\ wslot' \in {wslot, NoSlot}
      /\ wpc' \notin Processing \/ wslot' = wslot
  BY DEF SetKey, Work, Processed, GiveBack, WorkerMoves, mainVars, handlerVars, Queued,
         Processing, WorkerInv, TypeOK
<1>2. \A s \in Slots : s # wslot \/ wslot' = wslot => mem'[s] = mem[s]
  BY NoSlotAssumption, <1>1
     DEF SetKey, Work, Processed, GiveBack, TransReturn, poolVars, TypeOK
<1>3. /\ mem[wslot] \in Trans /\ wslot \notin Queued
      /\ Queued \subseteq Slots
      /\ bslot # NoSlot => bslot # wslot /\ bslot \in Slots
  BY <1>1 DEF WorkerInv, MainInv, QueueInv, TypeOK, Taken
<1>4. /\ UNCHANGED <<main, reply, bslot, pc, req>>
      /\ main = "up" => reply = <<>>
  BY <1>1 DEF mainVars, handlerVars, FateInv, ReplyInv
<1>5. \A s \in Queued : mem'[s] = mem[s]
  BY <1>2, <1>3
<1>6. /\ wslot' # NoSlot => wslot' = wslot /\ mem'[wslot] = mem[wslot]
      /\ bslot' # NoSlot => bslot' = bslot /\ mem'[bslot] = mem[bslot]
  BY <1>1, <1>2, <1>3, <1>4
<1> HIDE DEF OwnersInv
<1> QED BY <1>1, <1>3, <1>4, <1>5, <1>6, KeepFate

\* The oldest job passes to the worker thread, which had none.
LEMMA PullFate ==
  ASSUME IInv, FateInv, Pull
  PROVE  FateInv'
<1> USE DEF IInv, OwnersInv
<1>1. /\ UNCHANGED <<main, reply, bslot, pc, req, mem, list, db, finished, interrupted>>
      /\ wslot = NoSlot /\ wpc = "wait" /\ wpc' = "set"
  BY DEF Pull, WorkerMoves, mainVars, handlerVars, poolVars, WorkerInv
<1>2. /\ Queued' \subseteq Queued
      /\ wslot' # NoSlot => wslot' \in Queued /\ wslot' \notin Queued'
  <2>1. queue \in Seq(Slots \cup {NoSlot}) /\ queue # <<>> /\ NoRepeats(queue, NoSlot)
    BY DEF Pull, TypeOK, QueueInv
  <2>2. wslot' = Head(queue) /\ queue' = Tail(queue)
    BY DEF Pull
  <2> QED BY <2>1, <2>2, TailOf DEF Queued
<1>3. JobInv'
  BY <1>1, <1>2 DEF FateInv, JobInv, ListInv, Filled
<1>4. ReplyInv'
  BY <1>1, <1>2 DEF FateInv, ReplyInv
<1>5. EndInv'
  BY <1>1 DEF FateInv, EndInv, Processing
<1> QED BY <1>3, <1>4, <1>5 DEF FateInv

\* The id of the worker's transaction, and no other, leaves the list.
LEMMA SetCurrentFate ==
  ASSUME IInv, FateInv, SetCurrent
  PROVE  FateInv'
<1> USE DEF IInv, OwnersInv
<1>1. /\ UNCHANGED <<main, reply, bslot, pc, req, mem, wslot, queue, db, finished, interrupted>>
      /\ Queued' = Queued
      /\ wslot # NoSlot /\ wpc = "set" /\ wpc' = "key"
  BY DEF SetCurrent, WorkerMoves, mainVars, handlerVars, poolVars, Queued
<1>2. ToSet(list') = ToSet(list) \ {mem[wslot]}
  <2>1. /\ list \in Seq(Trans) /\ NoRepeats(list, NoTrans) /\ mem[wslot] # NoTrans
    BY <1>1, NoTransAssumption DEF TypeOK, WorkerInv, ListInv
  <2>2. list' = RemoveFirst(list, mem[wslot])
    BY DEF SetCurrent
  <2> QED BY <2>1, <2>2, RemoveFirstUnique
<1>3. mem[wslot] \in ToSet(list)
  BY <1>1 DEF FateInv, JobInv
<1>4. JobInv'
  BY <1>1, <1>2 DEF FateInv, JobInv, Filled
<1>5. ReplyInv'
  BY <1>1, <1>2 DEF FateInv, ReplyInv
<1>6. EndInv'
  BY <1>1, <1>2, <1>3 DEF FateInv, EndInv
<1> QED BY <1>4, <1>5, <1>6 DEF FateInv

\* The transaction in work, which has no other job, is finished.
LEMMA ResultFate ==
  ASSUME IInv, FateInv, Result
  PROVE  FateInv'
<1> USE DEF IInv, OwnersInv
<1>1. /\ UNCHANGED <<main, reply, bslot, pc, req, mem, wslot, queue, list, interrupted>>
      /\ Queued' = Queued /\ finished' = finished \cup {mem[wslot]}
      /\ wslot # NoSlot /\ wpc = "result" /\ wpc' = "return" /\ mem[wslot] \in Trans
  BY DEF Result, WorkerMoves, mainVars, handlerVars, poolVars, Queued, WorkerInv
<1>2. \A t \in Trans : db[t] # "absent" => db'[t] # "absent"
  BY <1>1 DEF Result, TypeOK
<1>3. JobInv'
  BY <1>1, <1>2 DEF FateInv, JobInv
<1>4. ReplyInv'
  BY <1>1 DEF FateInv, ReplyInv
<1>5. finished \cup interrupted \subseteq Trans
  BY DEF TypeOK
<1>6. EndInv'
  BY <1>1, <1>2, <1>5 DEF FateInv, EndInv, JobInv, Processing
<1> QED BY <1>3, <1>4, <1>6 DEF FateInv

\* A new process loads what is listed and has no job yet.
LEMMA StartFate ==
  ASSUME IInv, FateInv, Start
  PROVE  FateInv'
<1> USE DEF IInv, OwnersInv
<1>1. /\ UNCHANGED <<bslot, pc, req, mem, wpc, wslot, queue, list, db, finished, interrupted>>
      /\ main' = "lookup" /\ reply' = list /\ NoRepeats(list, NoTrans)
      /\ wslot = NoSlot /\ bslot = NoSlot /\ Queued = {} /\ Queued' = {}
  BY DEF Start, MainMoves, handlerVars, WorkerInv, MainInv, ListInv, Queued, ToSet
<1>2. JobInv' /\ EndInv'
  BY <1>1 DEF FateInv, JobInv, EndInv
<1>3. ReplyInv'
  BY <1>1 DEF FateInv, ReplyInv
<1> QED BY <1>2, <1>3 DEF FateInv

\* The main thread writes into an object that nobody has.
LEMMA LookupFate ==
  ASSUME IInv, FateInv, Lookup \/ LookupFails
  PROVE  FateInv'
<1> USE DEF IInv, OwnersInv
<1>1. /\ UNCHANGED <<reply, pc, req, wpc, wslot, queue, list, db, finished, interrupted>>
      /\ main' = "count" /\ Queued' = Queued
  BY DEF Lookup, LookupFails, MainMoves, handlerVars, Queued
<1>2. \A s \in Slots : Taken(s) => mem'[s] = mem[s]
  BY DEF Lookup, LookupFails, PoolPop, TypeOK, Taken
<1>3. bslot' # NoSlot => mem'[bslot'] = Head(reply)
  BY DEF Lookup, LookupFails, TypeOK
<1>4. \A s \in Queued \cup WorkerHeld : mem'[s] = mem[s]
  BY <1>2 DEF QueueInv, WorkerInv, TypeOK, Taken, WorkerHeld
<1>5. JobInv'
  BY <1>1, <1>4 DEF FateInv, JobInv, WorkerHeld
<1>6. ReplyInv'
  BY <1>1, <1>3, <1>4 DEF FateInv, ReplyInv, WorkerHeld
<1>7. wpc \in Processing => wslot # NoSlot
  BY DEF Processing, WorkerInv
<1>8. EndInv'
  BY <1>1, <1>4, <1>7 DEF FateInv, EndInv, WorkerHeld
<1> QED BY <1>5, <1>6, <1>8 DEF FateInv

\* The head of the reply gets its job when it leaves the reply.
LEMMA PushFromBackupFate ==
  ASSUME IInv, FateInv, PushFromBackup
  PROVE  FateInv'
<1> USE DEF IInv, OwnersInv
<1>1. /\ UNCHANGED <<pc, req, mem, wpc, wslot, list, db, finished, interrupted>>
      /\ main = "push" /\ main' = "lookup" /\ bslot' = NoSlot
      /\ \A h \in Handlers : pc[h] = "idle"
  BY DEF PushFromBackup, MainMoves, handlerVars, poolVars, HandlerInv
<1>2. /\ Head(reply) \in ToSet(reply) /\ ToSet(reply') \subseteq ToSet(reply)
      /\ NoRepeats(reply', NoTrans) /\ Head(reply) \notin ToSet(reply')
  <2>1. reply \in Seq(Trans) /\ reply # <<>> /\ NoRepeats(reply, NoTrans) /\ reply' = Tail(reply)
    BY <1>1 DEF PushFromBackup, TypeOK, MainInv, FateInv, ReplyInv
  <2> QED BY <2>1, TailOf, NoTransAssumption
<1>3. Queued' \subseteq Queued \cup MainHeld
  <2>1. queue \in Seq(Slots \cup {NoSlot}) /\ bslot \in Slots \cup {NoSlot}
    BY DEF TypeOK
  <2>2. queue' = queue \/ queue' = Append(queue, bslot)
    BY DEF PushFromBackup, PushJob
  <2>3. ToSet(Append(queue, bslot)) = ToSet(queue) \cup {bslot}
    BY <2>1, ToSetAppend
  <2> QED BY <2>2, <2>3 DEF Queued, MainHeld
<1>4. \A s \in MainHeld : mem[s] = Head(reply)
  BY DEF MainHeld, FateInv, ReplyInv
<1>5. JobInv'
  BY <1>1, <1>2, <1>3, <1>4 DEF FateInv, JobInv, ReplyInv, Filled, MainHeld
<1>6. ReplyInv'
  BY <1>1, <1>2, <1>3, <1>4 DEF FateInv, ReplyInv
<1>7. EndInv'
  BY <1>1 DEF FateInv, EndInv
<1> QED BY <1>5, <1>6, <1>7 DEF FateInv

\* The count of a restored transaction, and the end of the loading.
LEMMA QuietMainFate ==
  ASSUME IInv, FateInv, CountFromBackup \/ Serve
  PROVE  FateInv'
<1> USE DEF CountFromBackup, Serve, MainMoves, handlerVars, poolVars
<1>1. JobInv'
  BY DEF FateInv, JobInv, Queued
<1>2. ReplyInv' /\ EndInv'
  BY DEF FateInv, ReplyInv, EndInv, Queued
<1> QED BY <1>1, <1>2 DEF FateInv

\* When the process dies the transaction in work is interrupted; no job is left.
LEMMA ProcessDiesFate ==
  ASSUME IInv, FateInv, ProcessDies
  PROVE  FateInv'
<1>1. /\ Queued' = {} /\ wslot' = NoSlot /\ bslot' = NoSlot /\ reply' = <<>>
      /\ wpc' = "wait" /\ main' = "down"
      /\ UNCHANGED <<list, db, finished>>
      /\ \A h \in Handlers : pc'[h] = "idle"
      /\ interrupted' = IF wpc \in Processing THEN interrupted \cup {mem[wslot]}
                                              ELSE interrupted
  BY DEF ProcessDies, Queued, ToSet
<1>2. JobInv'
  BY <1>1 DEF JobInv, Filled
<1>3. ReplyInv'
  BY <1>1 DEF ReplyInv, NoRepeats, ToSet
<1>4. wpc \in Processing => wslot # NoSlot
  BY DEF Processing, IInv, OwnersInv, WorkerInv
<1>5. EndInv'
  BY <1>1, <1>4 DEF FateInv, EndInv, JobInv, Filled, Processing
<1> QED BY <1>2, <1>3, <1>5 DEF FateInv

\* A delete leaves the document known to have been there.
LEMMA DeleteFate ==
  ASSUME IInv, FateInv, NEW t \in Trans, Delete(t)
  PROVE  FateInv'
<1> USE DEF Delete, mainVars, handlerVars, workerVars, poolVars, historyVars
<1>1. \A u \in Trans : db[u] # "absent" => db'[u] # "absent"
  BY DEF IInv, TypeOK
<1>2. finished \cup interrupted \subseteq Trans /\ (wslot # NoSlot => mem[wslot] \in Trans)
  BY DEF IInv, TypeOK, OwnersInv, WorkerInv
<1>3. JobInv'
  BY <1>1, <1>2 DEF FateInv, JobInv, Queued
<1>4. ReplyInv' /\ EndInv'
  BY <1>1, <1>2 DEF FateInv, ReplyInv, EndInv, Queued
<1> QED BY <1>3, <1>4 DEF FateInv

\* The first start has listed nothing.
LEMMA InitFate == Init => FateInv
<1> SUFFICES ASSUME Init PROVE FateInv
  OBVIOUS
<1> USE DEF Init
<1>1. Queued = {} /\ ToSet(list) = {} /\ ToSet(reply) = {}
  BY DEF Queued, ToSet
<1>2. JobInv /\ EndInv
  BY <1>1 DEF JobInv, EndInv, Filled, Processing
<1>3. ReplyInv
  BY <1>1 DEF ReplyInv, NoRepeats
<1> QED BY <1>2, <1>3 DEF FateInv

\* Every step of the service preserves the fate of a transaction.
LEMMA NextFate == IInv /\ FateInv /\ [Next]_vars => FateInv'
<1> SUFFICES ASSUME IInv, FateInv, [Next]_vars PROVE FateInv'
  OBVIOUS
<1>1. ASSUME NEW h \in Handlers, Create(h) \/ HandlerStep(h) PROVE FateInv'
  BY <1>1, QuietHandlerFate, ParseFate, AddToQueueFate, PushFate DEF HandlerStep
<1>2. ASSUME NEW t \in Trans, Delete(t) PROVE FateInv'
  BY <1>2, DeleteFate
<1>3. CASE WorkerStep
  BY <1>3, PullFate, SetCurrentFate, QuietWorkerFate, ResultFate DEF WorkerStep
<1>4. CASE MainStep
  BY <1>4, StartFate, LookupFate, QuietMainFate, PushFromBackupFate DEF MainStep
<1>5. CASE Crash \/ NullJob
  BY <1>5, ProcessDiesFate DEF Crash, NullJob
<1>6. CASE UNCHANGED vars
  <2> USE <1>6 DEF vars, mainVars, handlerVars, workerVars, poolVars, historyVars
  <2>1. JobInv'
    BY DEF FateInv, JobInv, Queued
  <2>2. ReplyInv' /\ EndInv'
    BY DEF FateInv, ReplyInv, EndInv, Queued
  <2> QED BY <2>1, <2>2 DEF FateInv
<1> QED BY <1>1, <1>2, <1>3, <1>4, <1>5, <1>6 DEF Next

\* In every reachable state a listed transaction has at most one job, and one
\* that is finished or interrupted has none.
THEOREM FateInvariant == Spec => []FateInv
BY InitFate, NextFate, OwnersInvariant, PTL DEF Spec

\* The job queue is volatile, but a crash at any point brings back what is in
\* it: every queued transaction is in the Redis list.
THEOREM QueueIsDurableCorrect == Spec => []QueueIsDurable
<1>1. FateInv => QueueIsDurable
  <2> SUFFICES ASSUME FateInv, NEW i \in DOMAIN queue, queue[i] # NoSlot
               PROVE  mem[queue[i]] \in ToSet(list)
    BY DEF QueueIsDurable
  <2>1. queue[i] \in Queued
    BY DEF Queued, ToSet
  <2> QED BY <2>1 DEF FateInv, JobInv
<1> QED BY <1>1, FateInvariant, PTL

\* No transaction is worked on again once it is finished or was interrupted.
THEOREM NoReworkCorrect == Spec => []NoRework
<1>1. IInv /\ FateInv => NoRework
  <2> SUFFICES ASSUME IInv, FateInv PROVE NoRework
    OBVIOUS
  <2>1. \A i, j \in DOMAIN list : list[i] = list[j] => i = j
    <3>1. list \in Seq(Trans) /\ NoRepeats(list, NoTrans)
      BY DEF IInv, TypeOK, OwnersInv, ListInv
    <3>2. \A i \in DOMAIN list : list[i] # NoTrans
      BY <3>1, LenProperties, NoTransAssumption
    <3> QED BY <3>1, <3>2 DEF NoRepeats
  <2>2. ASSUME NEW i \in DOMAIN queue, NEW j \in DOMAIN queue,
               queue[i] # NoSlot, queue[j] # NoSlot, mem[queue[i]] = mem[queue[j]]
        PROVE  i = j
    <3>1. queue[i] \in Queued /\ queue[j] \in Queued
      BY <2>2 DEF Queued, ToSet
    <3> QED BY <2>2, <3>1 DEF FateInv, JobInv, IInv, OwnersInv, QueueInv, NoRepeats
  <2>3. (ToSet(list) \cup {mem[s] : s \in Queued}) \cap (finished \cup interrupted) = {}
    BY DEF FateInv, JobInv, EndInv
  <2> QED BY <2>1, <2>2, <2>3 DEF NoRework, FateInv, EndInv
<1> QED BY <1>1, OwnersInvariant, FateInvariant, PTL

-----------------------------------------------------------------------------
(***************************************************************************)
(* The refinement of WorkQueue.                                            *)
(***************************************************************************)

\* The transaction in work, as Abstract maps it.
Current == IF wpc \in Processing THEN mem[wslot] ELSE NoTrans

\* A step that leaves the list, the worker's transaction and the ends alone is
\* not seen in the abstract queue.
LEMMA Unseen ==
  ASSUME UNCHANGED <<list, finished, interrupted>>, Current' = Current
  PROVE  UNCHANGED Abstract!vars
BY DEF Abstract!vars, Current

\* The object of the worker thread is nobody else's to write into.
LEMMA CurrentKept ==
  ASSUME IInv, UNCHANGED <<wpc, wslot>>,
         \A s \in Slots : Taken(s) /\ (\A h \in Handlers : pc[h] \in Holding => slot[h] # s)
                         => mem'[s] = mem[s]
  PROVE  Current' = Current
BY DEF IInv, OwnersInv, WorkerInv, TypeOK, Current, Processing

\* A handler writes into its own object only.
LEMMA HandlerKeepsCurrent ==
  ASSUME IInv, NEW h \in Handlers, Create(h) \/ HandlerStep(h)
  PROVE  Current' = Current
<1>1. UNCHANGED <<wpc, wslot>>
  BY DEF HandlerStep, Create, Get, GetFails, Parse, ParseFails, Insert, InsertFails, Receive,
         AddToQueue, Push, Good, Respond, Bad, Return, HandlerMoves
<1>2. \A s \in Slots : (pc[h] \in Holding => slot[h] # s) => mem'[s] = mem[s]
  BY DEF HandlerStep, Create, Get, GetFails, Parse, ParseFails, Insert, InsertFails, Receive,
         AddToQueue, Push, Good, Respond, Bad, Return, TransReturn, poolVars, HandlerMoves,
         Holding, IInv, TypeOK
<1> QED BY <1>1, <1>2, CurrentKept

\* The main thread writes into objects that nobody has.
LEMMA MainKeepsCurrent ==
  ASSUME IInv, MainStep
  PROVE  Current' = Current
<1>1. UNCHANGED <<wpc, wslot>>
  BY DEF MainStep, Start, Lookup, LookupFails, CountFromBackup, PushFromBackup, Serve, MainMoves
<1>2. \A s \in Slots : Taken(s) => mem'[s] = mem[s]
  BY DEF MainStep, Start, Lookup, LookupFails, CountFromBackup, PushFromBackup, Serve,
         PoolPop, poolVars, Taken, IInv, TypeOK
<1> QED BY <1>1, <1>2, CurrentKept

\* The handlers: RPUSH accepts a transaction, nothing else is seen.
LEMMA HandlerRefines ==
  ASSUME IInv, FateInv, NEW h \in Handlers, Create(h) \/ HandlerStep(h)
  PROVE  [Abstract!Next]_Abstract!vars
<1> USE DEF IInv, OwnersInv
<1>1. UNCHANGED <<wpc, wslot, finished, interrupted>>
  BY DEF HandlerStep, Create, Get, GetFails, Parse, ParseFails, Insert, InsertFails, Receive,
         AddToQueue, Push, Good, Respond, Bad, Return, HandlerMoves
<1>2. CASE AddToQueue(h)
  <2>1. /\ mem[slot[h]] = req[h] /\ req[h] \in Trans /\ list \in Seq(Trans)
        /\ list' = Append(list, req[h]) /\ UNCHANGED mem /\ pc[h] = "add"
    BY <1>2 DEF AddToQueue, HandlerMoves, HandlerInv, ListInv, Filled, Stored, TypeOK, poolVars
  <2>2. ToSet(list') = ToSet(list) \cup {req[h]}
    BY <2>1, ToSetAppend
  <2>3. Current' = Current /\ (wpc \in Processing => wslot # NoSlot)
    BY <1>2, HandlerKeepsCurrent DEF HandlerStep, WorkerInv, Processing
  <2>4. req[h] \notin ToSet(list) \cup {Current} \cup finished \cup interrupted
    BY <2>1, <2>3, NoTransAssumption DEF Current, FateInv, EndInv, JobInv, ListInv, Filled
  <2>5. Abstract!Accept(req[h])
    BY <1>1, <2>2, <2>3, <2>4 DEF Abstract!Accept, Current
  <2> QED BY <2>1, <2>5 DEF Abstract!Next
<1>3. CASE ~ AddToQueue(h)
  <2>1. UNCHANGED list
    BY <1>3 DEF HandlerStep, Create, Get, GetFails, Parse, ParseFails, Insert, InsertFails,
                Receive, Push, Good, Respond, Bad, Return
  <2> QED BY <1>1, <2>1, HandlerKeepsCurrent, Unseen
<1> QED BY <1>2, <1>3

\* The worker thread: LREM takes a transaction, its result finishes it.
LEMMA WorkerRefines ==
  ASSUME IInv, FateInv, WorkerStep
  PROVE  [Abstract!Next]_Abstract!vars
<1> USE DEF IInv, OwnersInv
<1>1. CASE SetCurrent
  <2>1. /\ wslot # NoSlot /\ wpc = "set" /\ wpc' = "key" /\ UNCHANGED <<mem, wslot>>
        /\ UNCHANGED <<finished, interrupted>>
        /\ mem[wslot] \in Trans /\ mem[wslot] \in ToSet(list)
    BY <1>1 DEF SetCurrent, WorkerMoves, poolVars, WorkerInv, FateInv, JobInv
  <2>2. ToSet(list') = ToSet(list) \ {mem[wslot]}
    <3>1. /\ list \in Seq(Trans) /\ NoRepeats(list, NoTrans) /\ mem[wslot] # NoTrans
          /\ list' = RemoveFirst(list, mem[wslot])
      BY <1>1, <2>1, NoTransAssumption DEF TypeOK, ListInv, SetCurrent
    <3> QED BY <3>1, RemoveFirstUnique
  <2>3. Abstract!Take(mem[wslot])
    BY <2>1, <2>2 DEF Abstract!Take, Processing
  <2> QED BY <2>1, <2>3 DEF Abstract!Next
<1>2. CASE Result
  <2>1. /\ wslot # NoSlot /\ wpc = "result" /\ wpc' = "return" /\ mem[wslot] # NoTrans
        /\ UNCHANGED <<list, interrupted>> /\ finished' = finished \cup {mem[wslot]}
    BY <1>2, NoTransAssumption DEF Result, WorkerMoves, WorkerInv
  <2>2. Abstract!Finish
    BY <2>1 DEF Abstract!Finish, Processing
  <2> QED BY <2>2 DEF Abstract!Next
<1>3. CASE Pull \/ SetKey \/ Work \/ Processed \/ GiveBack
  <2>1. UNCHANGED <<list, finished, interrupted>>
    BY <1>3 DEF Pull, SetKey, Work, Processed, GiveBack, WorkerMoves
  <2>2. Current' = Current
    BY <1>3 DEF Pull, SetKey, Work, Processed, GiveBack, WorkerMoves, poolVars, Current,
                Processing
  <2> QED BY <2>1, <2>2, Unseen
<1> QED BY <1>1, <1>2, <1>3 DEF WorkerStep

\* The start of the service is not seen.
LEMMA MainRefines ==
  ASSUME IInv, MainStep
  PROVE  [Abstract!Next]_Abstract!vars
<1>1. UNCHANGED <<list, finished, interrupted>>
  BY DEF MainStep, Start, Lookup, LookupFails, CountFromBackup, PushFromBackup, Serve, MainMoves
<1> QED BY <1>1, MainKeepsCurrent, Unseen

\* The end of the process loses the transaction in work, and no other.
LEMMA DeathRefines ==
  ASSUME IInv, ProcessDies
  PROVE  [Abstract!Next]_Abstract!vars
<1>1. /\ UNCHANGED <<list, finished>> /\ wpc' = "wait"
      /\ interrupted' = IF wpc \in Processing THEN interrupted \cup {mem[wslot]}
                                              ELSE interrupted
  BY DEF ProcessDies
<1>2. CASE wpc \in Processing
  <2>1. mem[wslot] # NoTrans
    BY <1>2, NoTransAssumption DEF IInv, OwnersInv, WorkerInv, Processing
  <2>2. Abstract!Lose
    BY <1>1, <1>2, <2>1 DEF Abstract!Lose, Processing
  <2> QED BY <2>2 DEF Abstract!Next
<1>3. CASE wpc \notin Processing
  BY <1>1, <1>3, Unseen DEF Current, Processing
<1> QED BY <1>2, <1>3

\* Every step of the service is one of the abstract queue, or not seen in it.
LEMMA NextRefines == IInv /\ FateInv /\ [Next]_vars => [Abstract!Next]_Abstract!vars
<1> SUFFICES ASSUME IInv, FateInv, [Next]_vars PROVE [Abstract!Next]_Abstract!vars
  OBVIOUS
<1>1. ASSUME NEW h \in Handlers, Create(h) \/ HandlerStep(h)
      PROVE  [Abstract!Next]_Abstract!vars
  BY <1>1, HandlerRefines
<1>2. ASSUME NEW t \in Trans, Delete(t) PROVE [Abstract!Next]_Abstract!vars
  BY <1>2, Unseen DEF Delete, workerVars, poolVars, historyVars, Current
<1>3. CASE WorkerStep
  BY <1>3, WorkerRefines
<1>4. CASE MainStep
  BY <1>4, MainRefines
<1>5. CASE Crash \/ NullJob
  BY <1>5, DeathRefines DEF Crash, NullJob
<1>6. CASE UNCHANGED vars
  BY <1>6, Unseen DEF vars, workerVars, poolVars, historyVars, Current
<1> QED BY <1>1, <1>2, <1>3, <1>4, <1>5, <1>6 DEF Next

\* The service implements the abstract queue: each listed transaction is worked
\* on at most once, and one that was taken is finished or, when the process
\* died during the work, lost.
THEOREM Refinement == Spec => ImplementsWorkQueue
<1>1. Init => Abstract!Init
  BY DEF Init, Abstract!Init, ToSet, Processing
<1> QED BY <1>1, NextRefines, OwnersInvariant, FateInvariant, PTL
           DEF Spec, ImplementsWorkQueue, Abstract!Spec

-----------------------------------------------------------------------------
(***************************************************************************)
(* What the client was answered for.                                       *)
(***************************************************************************)

\* What the abstract queue has accepted.
Known == ToSet(list) \cup {Current} \cup finished \cup interrupted

\* A transaction is known before its creation is answered.
AckInv ==
  /\ acked \subseteq Known
  /\ \A h \in Handlers : pc[h] \in {"push", "good", "respond"} => req[h] \in Known

\* Nothing that was accepted is forgotten, whatever happens in between.
LEMMA KnownForEver ==
  ASSUME [Abstract!Next]_Abstract!vars, NEW t \in Trans, t \in Known
  PROVE  t \in Known'
<1> USE NoTransAssumption DEF Known, Current
<1>1. CASE UNCHANGED Abstract!vars
  BY <1>1 DEF Abstract!vars
<1>2. ASSUME NEW u \in Trans, Abstract!Accept(u) \/ Abstract!Take(u) PROVE t \in Known'
  BY <1>2 DEF Abstract!Accept, Abstract!Take
<1>3. CASE Abstract!Finish \/ Abstract!Lose
  BY <1>3 DEF Abstract!Finish, Abstract!Lose
<1> QED BY <1>1, <1>2, <1>3 DEF Abstract!Next

\* Every step of the service preserves the invariant.
LEMMA NextAck == IInv /\ FateInv /\ AckInv /\ [Next]_vars => AckInv'
<1> SUFFICES ASSUME IInv, FateInv, AckInv, [Next]_vars PROVE AckInv'
  OBVIOUS
<1>1. \A t \in Trans : t \in Known => t \in Known'
  BY NextRefines, KnownForEver
<1>2. ASSUME NEW h \in Handlers, pc'[h] \in {"push", "good", "respond"}
      PROVE  req'[h] \in Known'
  <2>1. CASE pc[h] \in {"push", "good", "respond"} /\ req'[h] = req[h]
    BY <1>1, <2>1 DEF AckInv, IInv, OwnersInv, HandlerInv, Stored
  <2>2. CASE AddToQueue(h)
    <3>1. /\ mem[slot[h]] = req[h] /\ req'[h] = req[h] /\ list \in Seq(Trans) /\ req[h] \in Trans
          /\ list' = Append(list, req[h])
      BY <2>2 DEF AddToQueue, HandlerMoves, IInv, OwnersInv, HandlerInv, Filled, TypeOK, Stored
    <3>2. ToSet(list') = ToSet(list) \cup {req[h]}
      BY <3>1, ToSetAppend
    <3> QED BY <3>1, <3>2 DEF Known
  <2>3. ASSUME NEW k \in Handlers, Create(k) \/ HandlerStep(k), ~ AddToQueue(h)
        PROVE  pc[h] \in {"push", "good", "respond"} /\ req'[h] = req[h]
    BY <1>2, <2>3 DEF HandlerStep, Create, Get, GetFails, Parse, ParseFails, Insert, InsertFails,
              Receive, AddToQueue, Push, Good, Respond, Bad, Return, HandlerMoves, IInv, TypeOK
  <2>4. ASSUME WorkerStep \/ MainStep \/ UNCHANGED vars \/ \E t \in Trans : Delete(t)
        PROVE  UNCHANGED <<pc, req>>
    BY <2>4 DEF WorkerStep, Pull, SetCurrent, SetKey, Work, Processed, Result, GiveBack,
                WorkerMoves, MainStep, Start, Lookup, LookupFails, CountFromBackup,
                PushFromBackup, Serve, MainMoves, Delete, handlerVars, vars
  <2>5. ~ (Crash \/ NullJob)
    BY <1>2 DEF Crash, NullJob, ProcessDies
  <2> QED BY <1>2, <2>1, <2>2, <2>3, <2>4, <2>5 DEF Next
<1>3. ASSUME NEW t \in acked' PROVE t \in Known'
  <2>1. t \in acked \/ \E h \in Handlers : Respond(h) /\ t = req[h]
    BY <1>3 DEF Next, HandlerStep, Create, Get, GetFails, Parse, ParseFails, Insert, InsertFails,
                Receive, AddToQueue, Push, Good, Respond, Bad, Return, WorkerStep, Pull,
                SetCurrent, SetKey, Work, Processed, Result, GiveBack, WorkerMoves, MainStep,
                Start, Lookup, LookupFails, CountFromBackup, PushFromBackup, Serve, MainMoves,
                Delete, historyVars, vars, Crash, NullJob, ProcessDies
  <2>2. t \in Known /\ t \in Trans
    BY <2>1 DEF AckInv, Respond, HandlerMoves, IInv, TypeOK, OwnersInv, HandlerInv, Stored
  <2> QED BY <1>1, <2>2
<1> QED BY <1>2, <1>3 DEF AckInv

\* A transaction that was answered with 200 is finished, is in the list, is in
\* the worker's hands, or was there when the process died.
THEOREM AckedNotLostCorrect == Spec => []AckedNotLost
<1>1. Init => AckInv
  BY DEF Init, AckInv
<1>2. AckInv /\ IInv => AckedNotLost
  BY NoTransAssumption DEF AckInv, AckedNotLost, Known, Current, IInv, TypeOK
<1> QED BY <1>1, <1>2, NextAck, OwnersInvariant, FateInvariant, PTL DEF Spec

\* current_trans_in_worker_thread names the transaction in work or one that was
\* interrupted.
THEOREM KeyNamesUnfinishedCorrect == Spec => []KeyNamesUnfinished
<1>1. Init => KeyNamesUnfinished
  BY DEF Init, KeyNamesUnfinished
<1>2. IInv /\ KeyNamesUnfinished /\ [Next]_vars => KeyNamesUnfinished'
  <2> SUFFICES ASSUME IInv, KeyNamesUnfinished, [Next]_vars PROVE KeyNamesUnfinished'
    OBVIOUS
  <2>1. ASSUME UNCHANGED <<cur, interrupted, wpc>>, Current' = Current
        PROVE  KeyNamesUnfinished'
    BY <2>1 DEF KeyNamesUnfinished, Current, Processing
  <2>2. ASSUME NEW h \in Handlers, Create(h) \/ HandlerStep(h) PROVE KeyNamesUnfinished'
    <3>1. UNCHANGED <<cur, interrupted, wpc>>
      BY <2>2 DEF HandlerStep, Create, Get, GetFails, Parse, ParseFails, Insert, InsertFails,
                  Receive, AddToQueue, Push, Good, Respond, Bad, Return, HandlerMoves
    <3> QED BY <2>1, <2>2, <3>1, HandlerKeepsCurrent
  <2>3. CASE MainStep
    <3>1. UNCHANGED <<cur, interrupted, wpc>>
      BY <2>3 DEF MainStep, Start, Lookup, LookupFails, CountFromBackup, PushFromBackup, Serve,
                  MainMoves
    <3> QED BY <2>1, <2>3, <3>1, MainKeepsCurrent
  <2>4. CASE SetKey \/ Work
    BY <2>4 DEF SetKey, Work, WorkerMoves, poolVars, KeyNamesUnfinished
  <2>5. CASE Pull \/ SetCurrent \/ Processed \/ Result \/ GiveBack
    BY <2>5 DEF Pull, SetCurrent, Processed, Result, GiveBack, WorkerMoves, KeyNamesUnfinished
  <2>6. CASE Crash \/ NullJob
    BY <2>6 DEF Crash, NullJob, ProcessDies, KeyNamesUnfinished, Processing
  <2>7. CASE UNCHANGED vars \/ \E t \in Trans : Delete(t)
    BY <2>7 DEF vars, Delete, workerVars, poolVars, historyVars, KeyNamesUnfinished
  <2> QED BY <2>2, <2>3, <2>4, <2>5, <2>6, <2>7 DEF Next, WorkerStep
<1> QED BY <1>1, <1>2, OwnersInvariant, PTL DEF Spec

-----------------------------------------------------------------------------
(***************************************************************************)
(* No listed transaction is left without a job.                            *)
(***************************************************************************)

\* t waits in the LRANGE reply, is about to be queued, is queued, or is pulled.
HasJob(t) ==
  \/ t \in ToSet(reply)
  \/ \E h \in Handlers : pc[h] = "push" /\ mem[slot[h]] = t
  \/ \E s \in Queued : mem[s] = t
  \/ wpc = "set" /\ mem[wslot] = t

\* Unless a job was lost, every job has a transaction, and every listed
\* transaction of a running process has its job.
OrphanInv ==
  ~ lostJob =>
    /\ NoSlot \notin ToSet(queue)
    /\ wpc = "set" => wslot # NoSlot
    /\ main # "down" => \A t \in ToSet(list) : HasJob(t)

\* A step that takes no job away and lists no transaction.
LEMMA JobsKept ==
  ASSUME OrphanInv, UNCHANGED <<lostJob, queue>>,
         ToSet(list') \subseteq ToSet(list), ToSet(reply) \subseteq ToSet(reply'),
         main = "down" => main' = "down",
         wpc' = "set" <=> wpc = "set",
         wpc = "set" => wslot' = wslot /\ mem'[wslot] = mem[wslot],
         \A s \in Queued : mem'[s] = mem[s],
         \A h \in Handlers :
           pc[h] = "push" => pc'[h] = "push" /\ mem'[slot'[h]] = mem[slot[h]]
  PROVE  OrphanInv'
<1>1. \A t : HasJob(t) => HasJob(t)'
  BY DEF HasJob, Queued
<1> QED BY <1>1 DEF OrphanInv

\* Every step of a handler but AddToQueue and Push.
LEMMA QuietHandlerJobs ==
  ASSUME IInv, OrphanInv, NEW h \in Handlers, Create(h) \/ HandlerStep(h),
         ~ AddToQueue(h), ~ Push(h)
  PROVE  OrphanInv'
<1>1. /\ UNCHANGED <<lostJob, queue, list, reply, main, wpc, wslot>>
      /\ pc[h] # "push" /\ pc' = [pc EXCEPT ![h] = pc'[h]]
  BY DEF HandlerStep, Create, Get, GetFails, Parse, ParseFails, Insert, InsertFails, Receive,
         Good, Respond, Bad, Return, HandlerMoves, mainVars, IInv, TypeOK
<1>2. \A k \in Handlers : k # h => slot'[k] = slot[k]
  BY DEF HandlerStep, Create, Get, GetFails, Parse, ParseFails, Insert, InsertFails, Receive,
         Good, Respond, Bad, Return, IInv, TypeOK
<1>3. \A s \in Slots : (pc[h] \in Holding => slot[h] # s) => mem'[s] = mem[s]
  BY DEF HandlerStep, Create, Get, GetFails, Parse, ParseFails, Insert, InsertFails, Receive,
         Good, Respond, Bad, Return, TransReturn, poolVars, HandlerMoves, Holding, IInv, TypeOK
<1>4. \A s \in Queued : mem'[s] = mem[s]
  BY <1>3 DEF IInv, OwnersInv, QueueInv, TypeOK, Taken
<1>5. ASSUME wpc = "set", wslot # NoSlot PROVE mem'[wslot] = mem[wslot]
  BY <1>3, <1>5 DEF IInv, OwnersInv, WorkerInv, TypeOK
<1>6. ASSUME NEW k \in Handlers, pc[k] = "push"
      PROVE  pc'[k] = "push" /\ mem'[slot'[k]] = mem[slot[k]]
  BY <1>1, <1>2, <1>3, <1>6 DEF IInv, OwnersInv, HandlerInv, TypeOK, Holding, Taken
<1>7. CASE wpc = "set" => wslot # NoSlot
  BY <1>1, <1>4, <1>5, <1>6, <1>7, JobsKept
<1>8. CASE lostJob
  BY <1>1, <1>8 DEF OrphanInv
<1> QED BY <1>7, <1>8 DEF OrphanInv

\* The id is listed by the handler that will push it.
LEMMA AddToQueueJobs ==
  ASSUME IInv, OrphanInv, NEW h \in Handlers, AddToQueue(h)
  PROVE  OrphanInv'
<1>1. /\ UNCHANGED <<lostJob, queue, reply, main, wpc, wslot, mem, slot>>
      /\ pc[h] = "add" /\ pc'[h] = "push"
      /\ \A k \in Handlers : k # h => pc'[k] = pc[k]
  BY DEF AddToQueue, HandlerMoves, mainVars, poolVars, IInv, TypeOK
<1>2. /\ mem[slot[h]] = req[h] /\ list \in Seq(Trans) /\ req[h] \in Trans
      /\ list' = Append(list, req[h])
  BY <1>1 DEF AddToQueue, IInv, OwnersInv, HandlerInv, Filled, Stored, TypeOK
<1>3. ToSet(list') = ToSet(list) \cup {req[h]}
  BY <1>2, ToSetAppend
<1>4. \A t : HasJob(t) \/ t = req[h] => HasJob(t)'
  BY <1>1, <1>2 DEF HasJob, Queued
<1> QED BY <1>1, <1>3, <1>4 DEF OrphanInv

\* What the handler was about to push is queued, unless the push fails.
LEMMA PushJobs ==
  ASSUME IInv, OrphanInv, NEW h \in Handlers, Push(h)
  PROVE  OrphanInv'
<1>1. /\ UNCHANGED <<list, reply, main, wpc, wslot, mem, slot>>
      /\ PushJob(slot[h])
      /\ \A k \in Handlers : k # h => pc'[k] = pc[k]
  BY DEF Push, HandlerMoves, mainVars, poolVars, IInv, TypeOK
<1>2. slot[h] \in Slots /\ queue \in Seq(Slots \cup {NoSlot})
  BY NoSlotAssumption
     DEF Push, HandlerMoves, IInv, OwnersInv, HandlerInv, TypeOK, Holding, Taken
<1>3. CASE queue' = Append(queue, slot[h]) /\ UNCHANGED lostJob
  <2>1. ToSet(queue') = ToSet(queue) \cup {slot[h]}
    BY <1>2, <1>3, ToSetAppend
  <2>2. Queued' = Queued \cup {slot[h]}
    BY <1>2, <2>1, NoSlotAssumption DEF Queued
  <2>3. \A t : HasJob(t) => HasJob(t)'
    BY <1>1, <2>2 DEF HasJob
  <2> QED BY <1>1, <1>2, <1>3, <2>1, <2>3, NoSlotAssumption DEF OrphanInv
<1>4. CASE lostJob' = TRUE
  BY <1>4 DEF OrphanInv
<1> QED BY <1>1, <1>3, <1>4 DEF PushJob

\* The worker thread pulls the job before it takes the id from the list.
LEMMA WorkerJobs ==
  ASSUME IInv, OrphanInv, WorkerStep
  PROVE  OrphanInv'
<1>1. UNCHANGED <<lostJob, reply, main, pc, slot>>
  BY DEF WorkerStep, Pull, SetCurrent, SetKey, Work, Processed, Result, GiveBack, WorkerMoves,
         mainVars, handlerVars
<1>2. CASE lostJob
  BY <1>1, <1>2 DEF OrphanInv
<1>3. CASE ~ lostJob /\ Pull
  <2>1. /\ queue \in Seq(Slots \cup {NoSlot}) /\ queue # <<>>
        /\ wslot' = Head(queue) /\ queue' = Tail(queue) /\ wpc' = "set" /\ wpc = "wait"
        /\ UNCHANGED <<mem, list>>
    BY <1>3 DEF Pull, WorkerMoves, poolVars, IInv, TypeOK
  <2>2. ToSet(queue) = ToSet(queue') \cup {wslot'}
    BY <2>1, TailOf
  <2>3. Queued \subseteq Queued' \cup {wslot'}
    BY <2>2 DEF Queued
  <2>4. \A t : HasJob(t) => HasJob(t)'
    BY <1>1, <2>1, <2>3 DEF HasJob
  <2> QED BY <1>1, <1>3, <2>1, <2>2, <2>4 DEF OrphanInv
<1>4. CASE ~ lostJob /\ SetCurrent
  <2>1. /\ wslot # NoSlot /\ wpc = "set" /\ wpc' = "key" /\ UNCHANGED <<mem, wslot, queue>>
        /\ mem[wslot] \in Trans
    BY <1>4 DEF SetCurrent, WorkerMoves, poolVars, IInv, OwnersInv, WorkerInv
  <2>2. ToSet(list') = ToSet(list) \ {mem[wslot]}
    <3>1. /\ list \in Seq(Trans) /\ NoRepeats(list, NoTrans) /\ mem[wslot] # NoTrans
          /\ list' = RemoveFirst(list, mem[wslot])
      BY <1>4, <2>1, NoTransAssumption DEF IInv, TypeOK, OwnersInv, ListInv, SetCurrent
    <3> QED BY <3>1, RemoveFirstUnique
  <2>3. \A t : HasJob(t) /\ t # mem[wslot] => HasJob(t)'
    BY <1>1, <2>1 DEF HasJob, Queued
  <2> QED BY <1>1, <1>4, <2>1, <2>2, <2>3 DEF OrphanInv
<1>5. CASE SetKey \/ Work \/ Processed \/ Result \/ GiveBack
  <2>1. /\ UNCHANGED <<queue, list>> /\ wpc # "set" /\ wpc' # "set"
        /\ \A s \in Slots : s # wslot => mem'[s] = mem[s]
    BY <1>5 DEF SetKey, Work, Processed, Result, GiveBack, WorkerMoves, TransReturn, poolVars,
                IInv, TypeOK
  <2>2. wslot # NoSlot
    BY <1>5 DEF SetKey, Work, Processed, Result, GiveBack, WorkerMoves, IInv, OwnersInv,
                WorkerInv
  <2>3. \A s \in Queued : mem'[s] = mem[s]
    BY <2>1, <2>2 DEF IInv, OwnersInv, QueueInv, WorkerInv, TypeOK, Taken
  <2>4. ASSUME NEW k \in Handlers, pc[k] = "push"
        PROVE  pc'[k] = "push" /\ mem'[slot'[k]] = mem[slot[k]]
    BY <1>1, <2>1, <2>2, <2>4
       DEF IInv, OwnersInv, WorkerInv, HandlerInv, TypeOK, Holding, Taken
  <2> QED BY <1>1, <2>1, <2>3, <2>4, JobsKept
<1> QED BY <1>2, <1>3, <1>4, <1>5 DEF WorkerStep

\* The main thread loads what is listed, one id after the other.
LEMMA MainJobs ==
  ASSUME IInv, FateInv, OrphanInv, MainStep
  PROVE  OrphanInv'
<1>1. UNCHANGED <<list, pc, slot, wpc, wslot>>
  BY DEF MainStep, Start, Lookup, LookupFails, CountFromBackup, PushFromBackup, Serve,
         MainMoves, handlerVars
<1>2. \A s \in Slots : Taken(s) => mem'[s] = mem[s]
  BY DEF MainStep, Start, Lookup, LookupFails, CountFromBackup, PushFromBackup, Serve,
         PoolPop, poolVars, Taken, IInv, TypeOK
<1>3. CASE Start
  <2>1. UNCHANGED <<lostJob, queue>> /\ reply' = list
    BY <1>3 DEF Start
  <2> QED BY <1>1, <2>1 DEF OrphanInv, HasJob
<1>4. CASE PushFromBackup
  <2>1. /\ reply \in Seq(Trans) /\ reply # <<>> /\ reply' = Tail(reply)
        /\ queue \in Seq(Slots \cup {NoSlot}) /\ UNCHANGED mem
        /\ main # "down"
    BY <1>4 DEF PushFromBackup, MainMoves, poolVars, IInv, TypeOK, OwnersInv, MainInv
  <2>2. ToSet(reply) = ToSet(reply') \cup {Head(reply)}
    BY <2>1, TailOf
  <2>3. CASE bslot # NoSlot /\ queue' = Append(queue, bslot) /\ UNCHANGED lostJob
    <3>1. bslot \in Slots \cup {NoSlot} /\ mem[bslot] = Head(reply)
      BY <2>3 DEF IInv, TypeOK, FateInv, ReplyInv
    <3>2. ToSet(queue') = ToSet(queue) \cup {bslot}
      BY <2>1, <2>3, <3>1, ToSetAppend
    <3>3. Queued' = Queued \cup {bslot}
      BY <2>3, <3>2 DEF Queued
    <3>4. \A t : HasJob(t) => HasJob(t)'
      BY <1>1, <2>1, <2>2, <3>1, <3>3 DEF HasJob
    <3> QED BY <1>1, <2>1, <2>3, <3>2, <3>4 DEF OrphanInv
  <2>4. CASE lostJob' = TRUE
    BY <2>4 DEF OrphanInv
  <2> QED BY <1>4, <2>3, <2>4 DEF PushFromBackup, PushJob
<1>5. CASE Lookup \/ LookupFails \/ CountFromBackup \/ Serve
  <2>1. /\ UNCHANGED <<lostJob, queue, reply>> /\ main # "down"
        /\ \A h \in Handlers : pc[h] # "push"
    BY <1>5 DEF Lookup, LookupFails, CountFromBackup, Serve, MainMoves, IInv, OwnersInv,
                HandlerInv
  <2>2. \A s \in Queued : mem'[s] = mem[s]
    BY <1>2 DEF IInv, OwnersInv, QueueInv, TypeOK, Taken
  <2>3. wslot # NoSlot => mem'[wslot] = mem[wslot]
    BY <1>2 DEF IInv, OwnersInv, WorkerInv, TypeOK, Taken
  <2>4. CASE wpc = "set" => wslot # NoSlot
    BY <1>1, <2>1, <2>2, <2>3, <2>4, JobsKept
  <2>5. CASE lostJob
    BY <2>1, <2>5 DEF OrphanInv
  <2> QED BY <2>4, <2>5 DEF OrphanInv
<1> QED BY <1>3, <1>4, <1>5 DEF MainStep

\* A transaction in the Redis list has, or is about to get, its job, unless a
\* push failed or the restored transaction was not found.
THEOREM NoOrphanCorrect == Spec => []NoOrphan
<1>1. Init => OrphanInv
  BY DEF Init, OrphanInv, ToSet
<1>2. IInv /\ FateInv /\ OrphanInv /\ [Next]_vars => OrphanInv'
  <2> SUFFICES ASSUME IInv, FateInv, OrphanInv, [Next]_vars PROVE OrphanInv'
    OBVIOUS
  <2>1. ASSUME NEW h \in Handlers, Create(h) \/ HandlerStep(h) PROVE OrphanInv'
    BY <2>1, QuietHandlerJobs, AddToQueueJobs, PushJobs
  <2>2. CASE Crash \/ NullJob
    <3>1. queue' = <<>> /\ wpc' = "wait" /\ main' = "down"
      BY <2>2 DEF Crash, NullJob, ProcessDies
    <3> QED BY <3>1 DEF OrphanInv, ToSet
  <2>3. CASE UNCHANGED vars \/ \E t \in Trans : Delete(t)
    BY <2>3 DEF vars, Delete, mainVars, handlerVars, workerVars, poolVars, historyVars,
                OrphanInv, HasJob, Queued
  <2> QED BY <2>1, <2>2, <2>3, WorkerJobs, MainJobs DEF Next
<1>3. OrphanInv => NoOrphan
  BY DEF OrphanInv, NoOrphan, HasJob
<1> QED BY <1>1, <1>2, <1>3, OwnersInvariant, FateInvariant, PTL DEF Spec

-----------------------------------------------------------------------------
(***************************************************************************)
(* No transaction is processed that was not received.                      *)
(***************************************************************************)

\* The transactions that were counted as received and not yet as processed:
\* those that are about to be listed, listed, or in the worker's hands.
Pending == ToSet(list) \cup {req[h] : h \in {k \in Handlers : pc[k] = "add"}}
             \cup (IF wpc \in {"key", "work", "processed"} THEN {mem[wslot]} ELSE {})

\* Each of them is one of the difference of the counters; the rest of it are
\* those whose handler or work was interrupted by the end of the process.
PendInv ==
  cached["n_processed_trans"] + Cardinality(Pending) <= cached["n_received_trans"]

\* The values of a function on a finite domain are finitely many.
LEMMA ImageFinite ==
  ASSUME NEW S, IsFiniteSet(S), NEW f
  PROVE  IsFiniteSet({f[x] : x \in S})
<1> DEFINE T == {f[x] : x \in S}
           g == [x \in S |-> f[x]]
<1>1. g \in Surjection(S, T)
  BY DEF Surjection
<1> HIDE DEF g, T
<1>2. IsFiniteSet(T)
  BY <1>1, FS_Surjection
<1> QED BY <1>2 DEF T

\* A sequence has finitely many elements.
LEMMA ToSetFinite ==
  ASSUME NEW S, NEW s \in Seq(S)
  PROVE  IsFiniteSet(ToSet(s))
<1>1. Len(s) \in Nat /\ DOMAIN s = 1 .. Len(s)
  BY LenProperties
<1>2. IsFiniteSet(1 .. Len(s))
  BY <1>1, FS_Interval
<1>3. IsFiniteSet({s[i] : i \in 1 .. Len(s)})
  BY <1>2, ImageFinite
<1> QED BY <1>1, <1>3 DEF ToSet

\* What is pending is finite.
LEMMA PendingFinite ==
  ASSUME IInv
  PROVE  IsFiniteSet(Pending) /\ Cardinality(Pending) \in Nat
<1>1. IsFiniteSet(ToSet(list))
  <2>1. list \in Seq(Trans)
    BY DEF IInv, TypeOK
  <2> QED BY <2>1, ToSetFinite
<1>2. IsFiniteSet({req[h] : h \in {k \in Handlers : pc[k] = "add"}})
  <2>1. IsFiniteSet({k \in Handlers : pc[k] = "add"})
    BY FiniteAssumption, FS_Subset
  <2> QED BY <2>1, ImageFinite
<1>3. IsFiniteSet({mem[wslot]}) /\ IsFiniteSet({})
  BY FS_Singleton, FS_EmptySet
<1>4. IsFiniteSet(IF wpc \in {"key", "work", "processed"} THEN {mem[wslot]} ELSE {})
  BY <1>3
<1>5. IsFiniteSet(ToSet(list) \cup {req[h] : h \in {k \in Handlers : pc[k] = "add"}})
  BY <1>1, <1>2, FS_Union
<1>6. IsFiniteSet(Pending)
  BY <1>4, <1>5, FS_Union DEF Pending
<1> QED BY <1>6, FS_CardinalityType

\* A step that makes nothing pending and counts nothing.
LEMMA PendingKept ==
  ASSUME IInv, PendInv, Pending' \subseteq Pending,
         UNCHANGED <<cached["n_processed_trans"], cached["n_received_trans"]>>
  PROVE  PendInv'
<1>1. Cardinality(Pending') <= Cardinality(Pending) /\ Cardinality(Pending') \in Nat
      /\ Cardinality(Pending) \in Nat
  BY PendingFinite, FS_Subset, FS_CardinalityType
<1>2. cached["n_processed_trans"] \in Nat /\ cached["n_received_trans"] \in Nat
  BY DEF IInv, TypeOK, Counters
<1>3. Cardinality(Pending)' = Cardinality(Pending')
  OBVIOUS
<1> QED BY <1>1, <1>2, <1>3 DEF PendInv

\* The handlers: a transaction becomes pending when it is counted as received.
LEMMA HandlerPending ==
  ASSUME IInv, PendInv, RequestAccounting, NEW h \in Handlers,
         Create(h) \/ HandlerStep(h)
  PROVE  PendInv'
<1>1. UNCHANGED <<wpc, wslot>>
  BY DEF HandlerStep, Create, Get, GetFails, Parse, ParseFails, Insert, InsertFails, Receive,
         AddToQueue, Push, Good, Respond, Bad, Return, HandlerMoves
<1>2. \A s \in Slots : (pc[h] \in Holding => slot[h] # s) => mem'[s] = mem[s]
  BY DEF HandlerStep, Create, Get, GetFails, Parse, ParseFails, Insert, InsertFails, Receive,
         AddToQueue, Push, Good, Respond, Bad, Return, TransReturn, poolVars, HandlerMoves,
         Holding, IInv, TypeOK
<1>3. wpc \in {"key", "work", "processed"} => mem'[wslot'] = mem[wslot]
  BY <1>1, <1>2 DEF IInv, OwnersInv, WorkerInv, TypeOK
<1>4. CASE Receive(h)
  <2>1. /\ UNCHANGED <<list, req>> /\ Count("n_received_trans") /\ main # "down"
        /\ \A k \in Handlers : k # h => pc'[k] = pc[k]
    BY <1>4, BusyIsUp DEF Receive, HandlerMoves, IInv, OwnersInv, TypeOK
  <2>2. Pending' \subseteq Pending \cup {req[h]}
    BY <1>1, <1>3, <2>1 DEF Pending
  <2>3. /\ IsFiniteSet(Pending \cup {req[h]})
        /\ Cardinality(Pending \cup {req[h]}) <= Cardinality(Pending) + 1
        /\ Cardinality(Pending \cup {req[h]}) \in Nat /\ Cardinality(Pending) \in Nat
    BY PendingFinite, FS_AddElement, FS_CardinalityType
  <2>4. Cardinality(Pending') <= Cardinality(Pending) + 1 /\ Cardinality(Pending') \in Nat
    <3>1. Cardinality(Pending') <= Cardinality(Pending \cup {req[h]})
          /\ Cardinality(Pending') \in Nat
      BY <2>2, <2>3, FS_Subset, FS_CardinalityType
    <3> QED BY <2>3, <3>1
  <2>5. /\ cached'["n_received_trans"] = cached["n_received_trans"] + 1
        /\ cached'["n_processed_trans"] = cached["n_processed_trans"]
        /\ cached["n_processed_trans"] \in Nat /\ cached["n_received_trans"] \in Nat
    BY <2>1 DEF Count, IInv, TypeOK, Counters, RequestAccounting
  <2> QED BY <2>1, <2>3, <2>4, <2>5 DEF PendInv
<1>5. CASE AddToQueue(h)
  <2>1. /\ mem[slot[h]] = req[h] /\ list \in Seq(Trans) /\ req[h] \in Trans
        /\ list' = Append(list, req[h]) /\ UNCHANGED <<req, cached>> /\ pc[h] = "add"
        /\ \A k \in Handlers : pc'[k] = "add" => pc[k] = "add"
    BY <1>5 DEF AddToQueue, HandlerMoves, countVars, IInv, OwnersInv, HandlerInv, Filled, Stored,
                TypeOK
  <2>2. ToSet(list') = ToSet(list) \cup {req[h]}
    BY <2>1, ToSetAppend
  <2>3. Pending' \subseteq Pending
    BY <1>1, <1>3, <2>1, <2>2 DEF Pending
  <2> QED BY <2>1, <2>3, PendingKept
<1>6. CASE ~ Receive(h) /\ ~ AddToQueue(h)
  <2>1. /\ UNCHANGED list
        /\ \A k \in Handlers : pc'[k] = "add" => pc[k] = "add" /\ req'[k] = req[k]
    BY <1>6 DEF HandlerStep, Create, Get, GetFails, Parse, ParseFails, Insert, InsertFails, Push,
                Good, Respond, Bad, Return, HandlerMoves, IInv, TypeOK
  <2>2. UNCHANGED <<cached["n_processed_trans"], cached["n_received_trans"]>>
    BY <1>6 DEF HandlerStep, Create, Get, GetFails, Parse, ParseFails, Insert, InsertFails, Push,
                Good, Respond, Bad, Return, Count, countVars, IInv, TypeOK, Counters
  <2>3. Pending' \subseteq Pending
    BY <1>1, <1>3, <2>1 DEF Pending
  <2> QED BY <2>2, <2>3, PendingKept
<1> QED BY <1>4, <1>5, <1>6

\* The worker thread: what is counted as processed is no longer pending.
LEMMA WorkerPending ==
  ASSUME IInv, FateInv, PendInv, RequestAccounting, WorkerStep
  PROVE  PendInv'
<1>1. UNCHANGED <<pc, req>>
  BY DEF WorkerStep, Pull, SetCurrent, SetKey, Work, Processed, Result, GiveBack, WorkerMoves,
         handlerVars
<1>2. CASE SetCurrent
  <2>1. /\ wslot # NoSlot /\ wpc = "set" /\ wpc' = "key" /\ UNCHANGED <<mem, wslot, cached>>
        /\ mem[wslot] \in ToSet(list) /\ mem[wslot] # NoTrans
    BY <1>2, NoTransAssumption
       DEF SetCurrent, WorkerMoves, poolVars, countVars, IInv, OwnersInv, WorkerInv, FateInv,
           JobInv
  <2>2. ToSet(list') = ToSet(list) \ {mem[wslot]}
    <3>1. /\ list \in Seq(Trans) /\ NoRepeats(list, NoTrans)
          /\ list' = RemoveFirst(list, mem[wslot])
      BY <1>2 DEF IInv, TypeOK, OwnersInv, ListInv, SetCurrent
    <3> QED BY <2>1, <3>1, RemoveFirstUnique
  <2>3. Pending' \subseteq Pending
    BY <1>1, <2>1, <2>2 DEF Pending
  <2> QED BY <2>1, <2>3, PendingKept
<1>3. CASE Processed
  <2>1. /\ UNCHANGED <<mem, wslot, list>> /\ wpc = "processed" /\ wpc' = "result"
        /\ wslot # NoSlot /\ Count("n_processed_trans") /\ main # "down"
    BY <1>3 DEF Processed, WorkerMoves, poolVars, IInv, OwnersInv, WorkerInv, MainInv
  <2>2. /\ mem[wslot] \notin ToSet(list) /\ mem[wslot] \in Pending
        /\ \A h \in Handlers : pc[h] = "add" => req[h] # mem[wslot]
    BY <2>1 DEF FateInv, EndInv, JobInv, Processing, Filled, Pending
  <2>3. Pending' \subseteq Pending \ {mem[wslot]}
    BY <1>1, <2>1, <2>2 DEF Pending
  <2>4. /\ IsFiniteSet(Pending \ {mem[wslot]})
        /\ Cardinality(Pending \ {mem[wslot]}) = Cardinality(Pending) - 1
        /\ Cardinality(Pending) \in Nat
    BY <2>2, PendingFinite, FS_RemoveElement
  <2>5. Cardinality(Pending') <= Cardinality(Pending) - 1 /\ Cardinality(Pending') \in Nat
    <3>1. Cardinality(Pending') <= Cardinality(Pending \ {mem[wslot]})
          /\ Cardinality(Pending') \in Nat
      BY <2>3, <2>4, FS_Subset, FS_CardinalityType
    <3> QED BY <2>4, <3>1
  <2>6. /\ cached'["n_processed_trans"] = cached["n_processed_trans"] + 1
        /\ cached'["n_received_trans"] = cached["n_received_trans"]
        /\ cached["n_processed_trans"] \in Nat /\ cached["n_received_trans"] \in Nat
    BY <2>1 DEF Count, IInv, TypeOK, Counters, RequestAccounting
  <2> QED BY <2>4, <2>5, <2>6 DEF PendInv
<1>4. CASE Pull \/ SetKey \/ Work \/ Result \/ GiveBack
  <2>1. UNCHANGED <<list, cached>>
    BY <1>4 DEF Pull, SetKey, Work, Result, GiveBack, countVars
  <2>2. Pending' \subseteq Pending
    BY <1>1, <1>4, <2>1
       DEF Pull, SetKey, Work, Result, GiveBack, WorkerMoves, poolVars, Pending
  <2> QED BY <2>1, <2>2, PendingKept
<1> QED BY <1>2, <1>3, <1>4 DEF WorkerStep

\* n_processed_trans never passes n_received_trans, across restarts too.
THEOREM ProcessedWithinReceivedCorrect == Spec => []ProcessedWithinReceived
<1>1. Init => PendInv
  <2> SUFFICES ASSUME Init PROVE PendInv
    OBVIOUS
  <2>1. Pending = {}
    BY DEF Init, Pending, ToSet
  <2>2. cached["n_processed_trans"] = 0 /\ cached["n_received_trans"] = 0
    BY DEF Init, Counters
  <2> QED BY <2>1, <2>2, FS_EmptySet DEF PendInv
<1>2. IInv /\ FateInv /\ RequestAccounting /\ PendInv /\ [Next]_vars => PendInv'
  <2> SUFFICES ASSUME IInv, FateInv, RequestAccounting, PendInv, [Next]_vars PROVE PendInv'
    OBVIOUS
  <2>1. ASSUME NEW h \in Handlers, Create(h) \/ HandlerStep(h) PROVE PendInv'
    BY <2>1, HandlerPending
  <2>2. CASE MainStep
    <3>1. UNCHANGED <<list, cached, pc, req, wpc, wslot>>
      BY <2>2 DEF MainStep, Start, Lookup, LookupFails, CountFromBackup, PushFromBackup, Serve,
                  MainMoves, handlerVars
    <3>2. \A s \in Slots : Taken(s) => mem'[s] = mem[s]
      BY <2>2 DEF MainStep, Start, Lookup, LookupFails, CountFromBackup, PushFromBackup, Serve,
                  PoolPop, poolVars, Taken, IInv, TypeOK
    <3>3. wpc \in {"key", "work", "processed"} => mem'[wslot] = mem[wslot]
      BY <3>2 DEF IInv, OwnersInv, WorkerInv, TypeOK
    <3>4. Pending' \subseteq Pending
      BY <3>1, <3>3 DEF Pending
    <3> QED BY <3>1, <3>4, PendingKept
  <2>3. CASE Crash \/ NullJob
    <3>1. UNCHANGED <<list, cached>> /\ wpc' = "wait" /\ pc' = [h \in Handlers |-> "idle"]
      BY <2>3 DEF Crash, NullJob, ProcessDies
    <3>2. Pending' \subseteq Pending
      BY <3>1 DEF Pending
    <3> QED BY <3>1, <3>2, PendingKept
  <2>4. CASE UNCHANGED vars \/ \E t \in Trans : Delete(t)
    <3>1. UNCHANGED <<list, cached, pc, req, wpc, wslot, mem>>
      BY <2>4 DEF vars, Delete, handlerVars, workerVars, poolVars, countVars
    <3>2. Pending' \subseteq Pending
      BY <3>1 DEF Pending
    <3> QED BY <3>1, <3>2, PendingKept
  <2> QED BY <2>1, <2>2, <2>3, <2>4, WorkerPending DEF Next
<1>3. IInv /\ PendInv => ProcessedWithinReceived
  <2> SUFFICES ASSUME IInv, PendInv PROVE ProcessedWithinReceived
    OBVIOUS
  <2>1. cached["n_processed_trans"] \in Nat /\ cached["n_received_trans"] \in Nat
    BY DEF IInv, TypeOK, Counters
  <2> QED BY <2>1, PendingFinite DEF PendInv, ProcessedWithinReceived
<1> QED BY <1>1, <1>2, <1>3, OwnersInvariant, FateInvariant, RequestAccountingCorrect, PTL
        DEF Spec

=============================================================================
