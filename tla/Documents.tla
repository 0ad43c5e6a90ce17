------------------------------ MODULE Documents ------------------------------
(***************************************************************************)
(* What is in a transaction's document, and in the objects it passes       *)
(* through.                                                                *)
(*                                                                         *)
(* POST fills a Transaction object from the request and inserts it; PUT    *)
(* reads the document into an object, changes the object and writes three  *)
(* fields back; the worker reads the object that POST filled, or the one   *)
(* that a restart has read from the document, and writes the result;       *)
(* DELETE removes the document.  Objects come from a pool, are zeroed when *)
(* they go back, and are used again for other transactions.                *)
(*                                                                         *)
(* Each step is one operation on Mongo, on the pool or on the queue, with  *)
(* what the thread does to its own object before it.  Counters, failing    *)
(* lookups and the order of the queue are the matter of TransPipeline.     *)
(* Requests that change nothing are left out: a GET, a POST without a      *)
(* title, a PUT or DELETE of a document that is not there.  A write to     *)
(* Mongo may fail; where the code does not look at that, it goes on.       *)
(***************************************************************************)
EXTENDS Naturals, Sequences

CONSTANTS
  Handlers,         \* the threads of cerver's pool
  Trans,            \* the ids that bson_oid_init may produce
  Slots,            \* the memory for Transaction objects
  Texts,            \* the titles and descriptions that clients give
  Amounts,          \* the amounts
  Bodies,           \* the requests' bodies, see Body
  NotGiven, Empty,  \* a key that is not in the body; the empty string
  Missing,          \* there is no document
  Removed, Unspecified,  \* what DocumentStore knows of a transaction
  NoTrans, NoSlot,  \* the id of a zeroed object; the NULL pointer
  Dates,            \* what time(NULL) returns, in seconds
  MaxPuts,          \* bound on the PUT requests
  MaxCrashes        \* bound on the crashes

\* A key that is not in the body, or has a value of the wrong type, leaves the
\* pointer NULL and the amount zero.
Body == [title       : Texts \cup {NotGiven},
         description : Texts \cup {NotGiven}, amount : Amounts]

\* What the worker computes: the hash of the id and the date.
Hash(id, date) == <<id, date>>

Strings  == Texts \cup {Empty}
Times    == {0, 1}
Outcomes == {Empty} \cup {Hash(t, date) : t \in Trans, date \in Dates}

\* struct Transaction.
Object == [id : Trans \cup {NoTrans}, title : Strings, description : Strings,
           amount : Amounts, date : Dates \cup {0}, worker_time : Times,
           result : Outcomes]

\* The document of a transaction, which has a title.  A date of Mongo is in
\* milliseconds.
Document == [title : Texts, description : Strings, amount : Amounts,
             date : {date * 1000 : date \in Dates}, worker_time : Times,
             result : Outcomes]

\* What clients see of it.
Shown == [title : Texts, description : Strings, amount : Amounts,
          date : {date * 1000 : date \in Dates}, result : Outcomes]

ASSUME BodiesAssumption == Bodies \subseteq Body /\ 0 \in Amounts
ASSUME TextsAssumption  == NotGiven \notin Texts /\ Empty \notin Texts
ASSUME NoneAssumption   == NoTrans \notin Trans /\ NoSlot \notin Slots
\* A hash is a string of digits; a mark is neither a document nor a part of one.
ASSUME HashAssumption   == \A t \in Trans, date \in Dates : Hash(t, date) # Empty
ASSUME MarksAssumption  ==
  /\ Missing # Removed /\ Missing # Unspecified /\ Removed # Unspecified
  /\ \A mark \in {Missing, Removed, Unspecified} : mark \notin Document \cup Shown
ASSUME DatesAssumption  == Dates \subseteq Nat \ {0}
ASSUME BoundsAssumption == MaxPuts \in Nat /\ MaxCrashes \in Nat

VARIABLES
  main,    \* where the main thread is in service_init
  toLoad,  \* the elements of the LRANGE reply that are still to be loaded
  pc,      \* pc[h]: what handler h does next
  slot,    \* slot[h]: its object
  wpc,     \* what the worker thread does next
  wslot,   \* its object
  queue,   \* the worker's job queue
  mem,     \* mem[s]: the object at s
  pool,    \* the objects that are free
  list,    \* Redis: current_trans_in_worker_queue
  db       \* Mongo: the collection of the transactions

\* History variables.
VARIABLES
  used,     \* the ids that have been given to transactions
  sent,     \* sent[t]: the bodies that clients have sent for transaction t
  born,     \* born[t]: the date at which transaction t was created
  removed,  \* the transactions that have been removed
  stamped,  \* the transactions whose worker_time was written
  done,     \* the transactions whose result was written
  clashed,  \* the transactions that two PUTs have updated at a time
  puts, crashes

handlerVars == <<pc, slot>>
workerVars  == <<wpc, wslot>>
historyVars == <<used, sent, born, removed, stamped, done, clashed>>

vars == <<main, toLoad, handlerVars, workerVars, queue, mem, pool, list, db,
          historyVars, puts, crashes>>

-----------------------------------------------------------------------------
(***************************************************************************)
(* Objects and documents.                                                  *)
(***************************************************************************)

\* memset (trans, 0, sizeof (Transaction)).
Blank == [id |-> NoTrans, title |-> Empty, description |-> Empty, amount |-> 0,
          date |-> 0, worker_time |-> 0, result |-> Empty]

\* transaction_to_bson.
ToDoc(trans) ==
  [title |-> trans.title, description |-> trans.description,
   amount |-> trans.amount, date |-> trans.date * 1000,
   worker_time |-> trans.worker_time, result |-> trans.result]

\* Mistake: the date is kept in milliseconds.
FromDocMillis(t, trans, doc) ==
  [trans EXCEPT !.id = t, !.title = doc.title, !.description = doc.description,
                !.amount = doc.amount, !.date = doc.date]

\* trans_doc_parse, into the object trans: neither the result nor the times.
FromDoc(t, trans, doc) ==
  [trans EXCEPT !.id = t, !.title = doc.title, !.description = doc.description,
                !.amount = doc.amount, !.date = doc.date \div 1000]

\* strncpy of what a body gives, if it gives something.
Given(value, old) == IF value = NotGiven THEN old ELSE value

Patch(trans, body) ==
  [trans EXCEPT !.title = Given(body.title, @),
                !.description = Given(body.description, @),
                !.amount = body.amount]

\* service_trans_create_actual.
Fill(trans, t, body, date) == [Patch(trans, body) EXCEPT !.id = t, !.date = date]

\* Mistake: every field of the object is written.
UpdateWhole(trans, doc) == ToDoc(trans)

\* transaction_update_bson, the fields that a PUT sets.
UpdateFields(trans, doc) ==
  [doc EXCEPT !.title = trans.title, !.description = trans.description,
              !.amount = trans.amount]

\* Mistake: the update inserts the document when there is none.
UpsertOne(t, doc) ==
  db' = [db EXCEPT ![t] = IF @ = Missing THEN ToDoc(Blank) ELSE doc]

\* mongo_update_one with $set, of the document of t if there is one: doc is what
\* it becomes.
UpdateOne(t, doc) ==
  db' = IF db[t] = Missing THEN db ELSE [db EXCEPT ![t] = doc]

\* Mistake: the object goes back as it is.
TransReturnDirty(s) == pool' = pool \cup {s} /\ UNCHANGED mem

\* service_trans_return.
TransReturn(s) ==
  /\ mem' = [mem EXCEPT ![s] = Blank]
  /\ pool' = pool \cup {s}

-----------------------------------------------------------------------------
(***************************************************************************)
(* Request handlers.                                                       *)
(***************************************************************************)

Moves(h, from, to) ==
  /\ pc[h] = from
  /\ pc' = [pc EXCEPT ![h] = to]
  /\ UNCHANGED <<main, toLoad, workerVars, removed, done, crashes>>

\* POST: service_trans_get, and the object is filled.
Create(h) ==
  /\ main = "up"
  /\ Moves(h, "idle", "insert")
  /\ \E s \in pool, t \in Trans \ used, body \in Bodies, date \in Dates :
       /\ body.title # NotGiven
       /\ pool' = pool \ {s} /\ slot' = [slot EXCEPT ![h] = s]
       /\ mem' = [mem EXCEPT ![s] = Fill(@, t, body, date)]
       /\ used' = used \cup {t} /\ born' = [born EXCEPT ![t] = date]
       /\ sent' = [sent EXCEPT ![t] = {body}]
  /\ UNCHANGED <<queue, list, db, stamped, clashed, puts>>

\* transaction_insert_one.
Insert(h) ==
  /\ Moves(h, "insert", "stamp")
  /\ LET trans == mem[slot[h]] IN db' = [db EXCEPT ![trans.id] = ToDoc(trans)]
  /\ UNCHANGED <<slot, queue, mem, pool, list, used, sent, born, stamped, clashed, puts>>

InsertFails(h) ==
  /\ Moves(h, "insert", "return")
  /\ UNCHANGED <<slot, queue, mem, pool, list, db, used, sent, born, stamped, clashed, puts>>

\* worker_current_push: transaction_update_worker_time, which may fail: nobody looks
\* at what it returns ...
Stamp(h) ==
  /\ Moves(h, "stamp", "push")
  /\ mem' = [mem EXCEPT ![slot[h]].worker_time = 1]
  /\ LET t == mem[slot[h]].id IN
       \/ UpdateOne(t, [db[t] EXCEPT !.worker_time = 1]) /\ stamped' = stamped \cup {t}
       \/ UNCHANGED <<db, stamped>>
  /\ UNCHANGED <<slot, queue, pool, list, used, sent, born, clashed, puts>>

\* ... then the list and the job queue.
Push(h) ==
  /\ Moves(h, "push", "idle")
  /\ list' = list \cup {mem[slot[h]].id}
  /\ queue' = Append(queue, slot[h])
  /\ slot' = [slot EXCEPT ![h] = NoSlot]
  /\ UNCHANGED <<mem, pool, db, used, sent, born, stamped, clashed, puts>>

\* PUT: service_trans_get_by_id reads the document; the body changes the copy.
\* The answer to a body that is not JSON is no different: nothing is written.
Find(h) ==
  /\ main = "up" /\ puts < MaxPuts /\ puts' = puts + 1
  /\ \E s \in pool, t \in used :
       /\ db[t] # Missing
       /\ pool' = pool \ {s} /\ slot' = [slot EXCEPT ![h] = s]
       /\ \/ /\ Moves(h, "idle", "return")
             /\ mem' = [mem EXCEPT ![s] = FromDoc(t, @, db[t])]
             /\ UNCHANGED <<sent, clashed>>
          \/ \E body \in Bodies :
               /\ Moves(h, "idle", "write")
               /\ mem' = [mem EXCEPT ![s] = Patch(FromDoc(t, @, db[t]), body)]
               /\ sent' = [sent EXCEPT ![t] = @ \cup {body}]
               /\ clashed' = IF \E k \in Handlers :
                                  pc[k] = "write" /\ mem[slot[k]].id = t
                               THEN clashed \cup {t} ELSE clashed
  /\ UNCHANGED <<queue, list, db, used, born, stamped>>

\* transaction_update_one, which may fail.
Write(h) ==
  /\ Moves(h, "write", "return")
  /\ \/ LET trans == mem[slot[h]] IN
            UpdateOne(trans.id, UpdateFields(trans, db[trans.id]))
     \/ UNCHANGED db
  /\ UNCHANGED <<slot, queue, mem, pool, list, used, sent, born, stamped, clashed, puts>>

\* Mistake: the handler forgets to give its object back.
ReturnNothing(h) ==
  /\ Moves(h, "return", "idle")
  /\ UNCHANGED <<slot, queue, mem, pool, list, db, used, sent, born, stamped, clashed, puts>>

\* The end of PUT, and of a POST whose insert failed.
Return(h) ==
  /\ Moves(h, "return", "idle")
  /\ TransReturn(slot[h])
  /\ slot' = [slot EXCEPT ![h] = NoSlot]
  /\ UNCHANGED <<queue, list, db, used, sent, born, stamped, clashed, puts>>

\* DELETE: transaction_delete_one_by_oid.
Delete(t) ==
  /\ main = "up" /\ \E h \in Handlers : pc[h] = "idle"
  /\ db[t] # Missing
  /\ db' = [db EXCEPT ![t] = Missing] /\ removed' = removed \cup {t}
  /\ UNCHANGED <<main, toLoad, handlerVars, workerVars, queue, mem, pool, list,
                 used, sent, born, stamped, done, clashed, puts, crashes>>

HandlerStep(h) ==
  \/ Create(h) \/ Insert(h) \/ InsertFails(h) \/ Stamp(h) \/ Push(h)
  \/ Find(h) \/ Write(h) \/ Return(h)

-----------------------------------------------------------------------------
(***************************************************************************)
(* The worker thread.                                                      *)
(***************************************************************************)

WorkerMoves(from, to) ==
  /\ wpc = from
  /\ wpc' = to
  /\ UNCHANGED <<main, toLoad, handlerVars, used, sent, born, removed, stamped,
                 clashed, puts, crashes>>

\* The job leaves the queue and the list; worker_handler_method_actual_work.
Work ==
  /\ WorkerMoves("wait", "result")
  /\ queue # <<>>
  /\ wslot' = Head(queue) /\ queue' = Tail(queue)
  /\ LET trans == mem[Head(queue)] IN
       /\ list' = list \ {trans.id}
       /\ mem' = [mem EXCEPT ![Head(queue)].result = Hash(trans.id, trans.date)]
  /\ UNCHANGED <<pool, db, done>>

\* transaction_update_result, which may fail; the job is over all the same.
StoreResult ==
  /\ WorkerMoves("result", "return")
  /\ LET trans == mem[wslot] IN
       \/ /\ UpdateOne(trans.id, [db[trans.id] EXCEPT !.result = trans.result])
          /\ done' = done \cup {trans.id}
       \/ UNCHANGED <<db, done>>
  /\ UNCHANGED <<wslot, queue, mem, pool, list>>

\* delete_data of cerver's worker: service_trans_return.
GiveBack ==
  /\ WorkerMoves("return", "wait")
  /\ TransReturn(wslot)
  /\ wslot' = NoSlot
  /\ UNCHANGED <<queue, list, db, done>>

WorkerStep == Work \/ StoreResult \/ GiveBack

-----------------------------------------------------------------------------
(***************************************************************************)
(* The end of the process and the next start.                              *)
(***************************************************************************)

Crash ==
  /\ main # "down" /\ crashes < MaxCrashes
  /\ crashes' = crashes + 1
  /\ main' = "down" /\ toLoad' = {}
  /\ pc' = [h \in Handlers |-> "idle"] /\ slot' = [h \in Handlers |-> NoSlot]
  /\ wpc' = "wait" /\ wslot' = NoSlot /\ queue' = <<>>
  /\ mem' = [s \in Slots |-> Blank] /\ pool' = Slots
  /\ UNCHANGED <<list, db, historyVars, puts>>

MainMoves(from, to) ==
  /\ main = from
  /\ main' = to
  /\ UNCHANGED <<handlerVars, workerVars, list, db, historyVars, puts, crashes>>

\* The LRANGE of backup_fetch_current_trans_in_worker_queue.
Start ==
  /\ MainMoves("down", "load")
  /\ toLoad' = list
  /\ UNCHANGED <<queue, mem, pool>>

\* service_trans_get_by_id and worker_push_job for each of them.
Load ==
  /\ MainMoves("load", "load")
  /\ \E t \in toLoad :
       /\ toLoad' = toLoad \ {t}
       /\ \/ /\ db[t] # Missing
             /\ \E s \in pool :
                  /\ mem' = [mem EXCEPT ![s] = FromDoc(t, @, db[t])]
                  /\ pool' = pool \ {s} /\ queue' = Append(queue, s)
          \/ db[t] = Missing /\ UNCHANGED <<queue, mem, pool>>

Serve ==
  /\ MainMoves("load", "up")
  /\ toLoad = {}
  /\ UNCHANGED <<toLoad, queue, mem, pool>>

MainStep == Start \/ Load \/ Serve

-----------------------------------------------------------------------------

Init ==
  /\ main = "up" /\ toLoad = {}
  /\ pc = [h \in Handlers |-> "idle"] /\ slot = [h \in Handlers |-> NoSlot]
  /\ wpc = "wait" /\ wslot = NoSlot /\ queue = <<>>
  /\ mem = [s \in Slots |-> Blank] /\ pool = Slots
  /\ list = {} /\ db = [t \in Trans |-> Missing]
  /\ used = {} /\ sent = [t \in Trans |-> {}] /\ born = [t \in Trans |-> 0]
  /\ removed = {} /\ stamped = {} /\ done = {} /\ clashed = {}
  /\ puts = 0 /\ crashes = 0

Next ==
  \/ \E h \in Handlers : HandlerStep(h)
  \/ \E t \in Trans : Delete(t)
  \/ WorkerStep
  \/ MainStep
  \/ Crash

Spec == Init /\ [][Next]_vars

-----------------------------------------------------------------------------

\* The variables have the types of transaction.h and of transaction_to_bson,
\* and a handler has an object when it has something to do.
TypeOK ==
  /\ main \in {"down", "load", "up"} /\ toLoad \subseteq Trans
  /\ pc \in [Handlers -> {"idle", "insert", "stamp", "push", "write", "return"}]
  /\ slot \in [Handlers -> Slots \cup {NoSlot}]
  /\ \A h \in Handlers : slot[h] = NoSlot <=> pc[h] = "idle"
  /\ wpc \in {"wait", "result", "return"} /\ wslot \in Slots \cup {NoSlot}
  /\ queue \in Seq(Slots) /\ pool \subseteq Slots
  /\ mem \in [Slots -> Object] /\ db \in [Trans -> Document \cup {Missing}]
  /\ list \subseteq Trans /\ used \subseteq Trans
  /\ sent \in [Trans -> SUBSET Bodies] /\ born \in [Trans -> Dates \cup {0}]
  /\ removed \subseteq used /\ stamped \subseteq used /\ done \subseteq used
  /\ clashed \subseteq used

\* What is in a document was sent for that transaction: nothing comes from
\* another transaction that the same object, or the same thread, has handled.
NoForeignData ==
  \A t \in Trans : db[t] # Missing =>
    /\ \E body \in sent[t] : db[t].title = body.title
    /\ db[t].description = Empty \/ \E body \in sent[t] : db[t].description = body.description
    /\ \E body \in sent[t] : db[t].amount = body.amount

\* A removed transaction stays removed: neither a PUT that has read it nor the
\* worker that still has it in its queue brings it back.
RemovedStaysRemoved == \A t \in removed : db[t] = Missing

\* The result in a document is that of its id and of the date at which it was
\* created, also when the object was read from the document after a restart.
ResultOfTransaction ==
  \A t \in Trans : db[t] # Missing /\ db[t].result # Empty =>
    db[t].result = Hash(t, born[t])

\* The result that the worker has written and the worker_time that the handler of
\* POST has written stay, however PUTs overlap with these writes and with each
\* other: they write back a copy that may be older, but neither of the two.
WorkSurvivesUpdates ==
  \A t \in Trans : db[t] # Missing =>
    /\ t \in done    => db[t].result = Hash(t, born[t])
    /\ t \in stamped => db[t].worker_time = 1

\* What the abstract store has of t.
Stored(t) ==
  CASE t \in removed -> Removed
    [] t \notin removed /\ db[t] = Missing -> Missing
    [] t \in clashed \ removed /\ db[t] # Missing -> Unspecified
    [] OTHER ->
         [title  |-> db[t].title,  description |-> db[t].description,
          amount |-> db[t].amount, date        |-> db[t].date,
          result |-> db[t].result]

Store == [t \in Trans |-> Stored(t)]

\* The service implements the abstract store.
Abstract ==
  INSTANCE DocumentStore WITH
    Absent <- Missing,
    Dates  <- {date * 1000 : date \in Dates},
    Result <- LAMBDA t, date : Hash(t, date \div 1000),
    doc    <- Store

ImplementsDocumentStore == Abstract!Spec

=============================================================================
