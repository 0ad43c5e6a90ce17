--------------------------- MODULE DocumentsProofs ---------------------------
(***************************************************************************)
(* Proofs about Documents for every number of handlers, transactions and   *)
(* objects, and for all bodies and dates.                                  *)
(*                                                                         *)
(* What is in a document depends on what is in the objects on their way to *)
(* it.  So the invariant says who has which object (OwnInv), and then, for *)
(* each actor that is about to write, how the object that it has relates   *)
(* to the document: a POST before the insert (PostInv), a PUT between read *)
(* and write (WriteInv), the worker and its queue (JobInv).                *)
(***************************************************************************)
EXTENDS Documents, SeqLemmas, TLAPS

\* An object is in the pool, blank, or one handler, the queue or the worker
\* thread has it.  The main thread loads the list before a handler runs.
OwnInv ==
  /\ \A h \in Handlers : pc[h] # "idle" =>
       slot[h] \in Slots \ pool /\ slot[h] \notin ToSet(queue) /\ slot[h] # wslot
  /\ \A h, k \in Handlers :
       pc[h] # "idle" /\ pc[k] # "idle" /\ slot[h] = slot[k] => h = k
  /\ NoRepeats(queue, NoSlot)
  /\ \A s \in ToSet(queue) : s \in Slots \ pool
  /\ wslot # NoSlot => wslot \notin pool /\ wslot \notin ToSet(queue)
  /\ wslot = NoSlot <=> wpc = "wait"
  /\ \A s \in pool : mem[s] = Blank
  /\ main = "down" => wpc = "wait" /\ queue = <<>>
  /\ main # "up" => \A h \in Handlers : pc[h] = "idle"
  /\ main # "load" => toLoad = {}

Id(s) == mem[s].id

\* When worker.time was written, it is in the document of t, if there is one.
Stamped(t) == t \in stamped /\ db[t] # Missing => db[t].worker_time = 1

\* The transactions that have left the POST that made them.
Reached == list \cup toLoad \cup done

Posting == {"insert", "stamp", "push"}

\* A POST has a transaction of its own, which is not yet in the list, with the
\* date and, until the insert, with the fields of its body.
PostInv ==
  /\ \A h \in Handlers : pc[h] \in Posting =>
       /\ Id(slot[h]) \in used \ Reached
       /\ mem[slot[h]].date = born[Id(slot[h])] /\ mem[slot[h]].date \in Dates
       /\ mem[slot[h]].result = Empty
  /\ \A h, k \in Handlers :
       pc[h] \in Posting /\ pc[k] \in Posting /\ Id(slot[h]) = Id(slot[k]) => h = k
  /\ \A h \in Handlers : pc[h] = "insert" =>
       /\ db[Id(slot[h])] = Missing /\ Id(slot[h]) \notin removed \cup clashed \cup stamped
       /\ \E body \in Bodies \cap sent[Id(slot[h])] :
            /\ body.title # NotGiven /\ mem[slot[h]].title = body.title
            /\ mem[slot[h]].description = Given(body.description, Empty)
            /\ mem[slot[h]].amount = body.amount

\* What d says was sent for t.
Sent(t, d) ==
  /\ \E body \in sent[t] : d.title = body.title
  /\ d.description = Empty \/ \E body \in sent[t] : d.description = body.description
  /\ \E body \in sent[t] : d.amount = body.amount

\* The object d is the document of t, changed by one body.
Copied(t, d) ==
  db[t] # Missing => \E body \in Bodies :
    /\ d.title = Given(body.title, db[t].title)
    /\ d.description = Given(body.description, db[t].description)
    /\ d.amount = body.amount

\* A PUT has a copy of the document, which is that of now but for its own
\* changes, unless another PUT has one too.
WriteInv ==
  \A h \in Handlers : pc[h] = "write" =>
    /\ Id(slot[h]) \in used /\ mem[slot[h]].title \in Texts
    /\ Sent(Id(slot[h]), mem[slot[h]])
    /\ \A k \in Handlers : pc[k] = "insert" => Id(slot[k]) # Id(slot[h])
    /\ Id(slot[h]) \notin clashed =>
         /\ \A k \in Handlers : pc[k] = "write" /\ Id(slot[k]) = Id(slot[h]) => k = h
         /\ Copied(Id(slot[h]), mem[slot[h]])

\* A transaction has one job, until it is done.
JobInv ==
  /\ \A s \in ToSet(queue) :
       /\ Id(s) \in used \ (toLoad \cup done)
       /\ mem[s].date = born[Id(s)] /\ mem[s].date \in Dates
       /\ \A h \in Handlers : pc[h] \in Posting => Id(slot[h]) # Id(s)
       /\ wpc = "result" => Id(s) # Id(wslot)
  /\ \A r, s \in ToSet(queue) : Id(r) = Id(s) => r = s
  /\ wpc = "result" =>
       /\ Id(wslot) \in used \ Reached
       /\ mem[wslot].result = Hash(Id(wslot), born[Id(wslot)])
       /\ born[Id(wslot)] \in Dates
       /\ \A h \in Handlers : pc[h] \in Posting => Id(slot[h]) # Id(wslot)

\* A document is that of a transaction that was not removed, with fields that
\* were sent for it, its date and, when they were written, its result and time.
DocInv ==
  /\ \A t \in Trans : db[t] # Missing =>
       /\ t \in used \ removed /\ Sent(t, db[t])
       /\ born[t] \in Dates /\ db[t].date = born[t] * 1000
       /\ db[t].result = IF t \in done THEN Hash(t, born[t]) ELSE Empty
  /\ Reached \subseteq used
  /\ \A t \in Trans : Stamped(t)
  /\ (list \cup toLoad) \cap done = {}

ContentInv == PostInv /\ WriteInv /\ JobInv /\ DocInv

IInv == TypeOK /\ OwnInv /\ ContentInv

-----------------------------------------------------------------------------
(***************************************************************************)
(* Objects and documents have their types.                                 *)
(***************************************************************************)

\* A document is there.
LEMMA NoMissing == Missing \notin Document
BY MarksAssumption

\* A zeroed object is an object.
LEMMA BlankData == Blank \in Object
BY BodiesAssumption DEF Blank, Object, Strings, Times, Outcomes

\* What a body changes in an object.
LEMMA PatchData ==
  ASSUME NEW o \in Object, NEW body \in Bodies
  PROVE  /\ Patch(o, body) \in Object
         /\ Patch(o, body).title = Given(body.title, o.title)
         /\ Patch(o, body).description = Given(body.description, o.description)
         /\ Patch(o, body).amount = body.amount
         /\ Patch(o, body).id = o.id /\ Patch(o, body).date = o.date
         /\ Patch(o, body).result = o.result
<1>1. body \in Body
  BY BodiesAssumption
<1>2. /\ Given(body.title, o.title) \in Strings
      /\ Given(body.description, o.description) \in Strings /\ body.amount \in Amounts
  BY <1>1 DEF Body, Object, Strings, Given
<1> QED BY <1>2 DEF Patch, Object

\* A new transaction has what the body gives, its id and its date.
LEMMA FillData ==
  ASSUME NEW t \in Trans, NEW body \in Bodies, NEW date \in Dates, body.title # NotGiven
  PROVE  LET new == Fill(Blank, t, body, date)
         IN  /\ new \in Object /\ new.id = t /\ new.date = date /\ new.result = Empty
             /\ new.title = body.title /\ new.description = Given(body.description, Empty)
             /\ new.amount = body.amount
<1>1. \A o \in Object : LET new == [o EXCEPT !.id = t, !.date = date]
        IN  /\ new \in Object /\ new.id = t /\ new.date = date /\ new.result = o.result
            /\ new.title = o.title /\ new.description = o.description /\ new.amount = o.amount
  BY DEF Object
<1>2. /\ Patch(Blank, body) \in Object
      /\ Patch(Blank, body).title = Given(body.title, Blank.title)
      /\ Patch(Blank, body).description = Given(body.description, Blank.description)
      /\ Patch(Blank, body).amount = body.amount
      /\ Patch(Blank, body).result = Blank.result
  BY BlankData, PatchData
<1>3. LET new == Fill(Blank, t, body, date)
      IN  /\ new \in Object /\ new.id = t /\ new.date = date
          /\ new.result = Patch(Blank, body).result
          /\ new.title = Patch(Blank, body).title
          /\ new.description = Patch(Blank, body).description
          /\ new.amount = Patch(Blank, body).amount
  BY <1>1, <1>2, Zenon DEF Fill
<1>4. Blank.title = Empty /\ Blank.description = Empty /\ Blank.result = Empty
  BY DEF Blank
<1> QED BY <1>2, <1>3, <1>4 DEF Given

\* What trans_doc_parse reads; the seconds are the seconds that were written.
LEMMA FromDocData ==
  ASSUME NEW o \in Object, NEW d \in Document, NEW t \in Trans
  PROVE  /\ FromDoc(t, o, d) \in Object
         /\ FromDoc(t, o, d).id = t /\ FromDoc(t, o, d).title = d.title
         /\ FromDoc(t, o, d).description = d.description
         /\ FromDoc(t, o, d).amount = d.amount
         /\ FromDoc(t, o, d).date \in Dates /\ d.date = FromDoc(t, o, d).date * 1000
<1>1. PICK date \in Dates : d.date = date * 1000
  BY DEF Document
<1>2. d.date \div 1000 = date
  BY <1>1, DatesAssumption
<1>3. /\ d.title \in Strings /\ d.description \in Strings /\ d.amount \in Amounts
  BY DEF Document, Strings
<1>4. \A seconds \in Dates :
        LET read == [o EXCEPT !.id = t, !.title = d.title, !.description = d.description,
                              !.amount = d.amount, !.date = seconds]
        IN  /\ read \in Object /\ read.id = t /\ read.title = d.title
            /\ read.description = d.description /\ read.amount = d.amount
            /\ read.date = seconds
  BY <1>3 DEF Object
<1>5. d.date \div 1000 \in Dates /\ d.date = (d.date \div 1000) * 1000
  BY <1>1, <1>2
<1> DEFINE seconds == d.date \div 1000
<1>7. FromDoc(t, o, d) = [o EXCEPT !.id = t, !.title = d.title,
        !.description = d.description, !.amount = d.amount, !.date = seconds]
  BY Zenon DEF FromDoc
<1>8. seconds \in Dates
  BY <1>5
<1> HIDE DEF seconds
<1>6. /\ FromDoc(t, o, d) \in Object
      /\ FromDoc(t, o, d).id = t /\ FromDoc(t, o, d).title = d.title
      /\ FromDoc(t, o, d).description = d.description
      /\ FromDoc(t, o, d).amount = d.amount /\ FromDoc(t, o, d).date = seconds
  BY <1>4, <1>7, <1>8, Zenon
<1> USE DEF seconds
<1> QED BY <1>5, <1>6

\* What an insert writes.
LEMMA ToDocData ==
  ASSUME NEW o \in Object, o.title \in Texts, o.date \in Dates
  PROVE  /\ ToDoc(o) \in Document
         /\ ToDoc(o).title = o.title /\ ToDoc(o).description = o.description
         /\ ToDoc(o).amount = o.amount /\ ToDoc(o).date = o.date * 1000
         /\ ToDoc(o).result = o.result
<1>1. o.date * 1000 \in {date * 1000 : date \in Dates}
  OBVIOUS
<1>2. /\ o.description \in Strings /\ o.amount \in Amounts
      /\ o.worker_time \in Times /\ o.result \in Outcomes
  BY DEF Object
<1> QED BY <1>1, <1>2 DEF Document, ToDoc

\* What a PUT writes.
LEMMA UpdateData ==
  ASSUME NEW o \in Object, NEW d \in Document, o.title \in Texts
  PROVE  /\ UpdateFields(o, d) \in Document
         /\ UpdateFields(o, d).title = o.title
         /\ UpdateFields(o, d).description = o.description
         /\ UpdateFields(o, d).amount = o.amount
         /\ UpdateFields(o, d).date = d.date
         /\ UpdateFields(o, d).worker_time = d.worker_time
         /\ UpdateFields(o, d).result = d.result
BY DEF Object, Document, UpdateFields

\* What worker_current_push and the worker write.
LEMMA StampData ==
  ASSUME NEW d \in Document, NEW o \in Object
  PROVE  LET dated == [d EXCEPT !.worker_time = 1]
             ended == [d EXCEPT !.result = o.result]
         IN  /\ dated \in Document /\ dated.worker_time = 1
             /\ dated.title = d.title /\ dated.description = d.description
             /\ dated.amount = d.amount /\ dated.date = d.date
             /\ dated.result = d.result
             /\ ended \in Document /\ ended.worker_time = d.worker_time
             /\ ended.title = d.title /\ ended.description = d.description
             /\ ended.amount = d.amount /\ ended.date = d.date
             /\ ended.result = o.result
BY DEF Object, Document, Times

-----------------------------------------------------------------------------
(***************************************************************************)
(* The handlers.                                                           *)
(***************************************************************************)

\* A step that changes no document, and no object that somebody will write to a
\* document, preserves what is known of the contents.
LEMMA HandsKept ==
  ASSUME ContentInv, UNCHANGED <<db, list, historyVars>>,
         toLoad' \subseteq toLoad,
         \A h \in Handlers : pc'[h] \in Posting \cup {"write"} =>
           pc'[h] = pc[h] /\ slot'[h] = slot[h] /\ mem'[slot[h]] = mem[slot[h]],
         ToSet(queue') \subseteq ToSet(queue), \A s \in ToSet(queue') : mem'[s] = mem[s],
         wpc' = "result" => wpc = "result" /\ wslot' = wslot /\ mem'[wslot] = mem[wslot]
  PROVE  ContentInv'
<1> USE DEF ContentInv, historyVars, Posting, Id, Stamped, Reached
<1>1. PostInv'
  BY DEF PostInv
<1>2. WriteInv'
  BY DEF WriteInv, Sent, Copied
<1>3. JobInv'
  BY DEF JobInv
<1>4. DocInv'
  BY DEF DocInv, Sent
<1> QED BY <1>1, <1>2, <1>3, <1>4

\* service_trans_create_actual: the object of a POST is filled.
LEMMA CreateStep ==
  ASSUME IInv, NEW h \in Handlers, Create(h)
  PROVE  IInv'
<1> USE DEF IInv
<1>1. PICK s \in pool, t \in Trans \ used, body \in Bodies, date \in Dates :
        /\ body.title # NotGiven
        /\ pool' = pool \ {s} /\ slot' = [slot EXCEPT ![h] = s]
        /\ mem' = [mem EXCEPT ![s] = Fill(mem[s], t, body, date)]
        /\ used' = used \cup {t} /\ born' = [born EXCEPT ![t] = date]
        /\ sent' = [sent EXCEPT ![t] = {body}]
  BY DEF Create
<1>2. /\ main = "up" /\ pc[h] = "idle" /\ pc' = [pc EXCEPT ![h] = "insert"]
      /\ UNCHANGED <<main, toLoad, wpc, wslot, queue, list, db, removed, stamped, done, clashed>>
  BY DEF Create, Moves, workerVars
<1>3. s \in Slots /\ mem[s] = Blank /\ mem[s] \in Object /\ s # NoSlot
  BY <1>1, NoneAssumption DEF TypeOK, OwnInv
<1> DEFINE new == Fill(mem[s], t, body, date)
<1>4. /\ new \in Object /\ new.id = t /\ new.date = date /\ new.result = Empty
      /\ new.title = body.title /\ new.description = Given(body.description, Empty)
      /\ new.amount = body.amount
  BY <1>1, <1>3, FillData
<1>14. mem' = [mem EXCEPT ![s] = new]
  BY <1>1
<1> HIDE DEF new
<1>15. TypeOK'
  BY <1>1, <1>2, <1>3, <1>4, <1>14 DEF TypeOK
<1>5. OwnInv'
  BY <1>1, <1>2, <1>3, <1>14 DEF TypeOK, OwnInv
<1>6. mem'[s] = new
  BY <1>3, <1>14 DEF TypeOK
<1>7. /\ \A r \in Slots : r # s => mem'[r] = mem[r]
      /\ slot'[h] = s /\ pc'[h] = "insert"
      /\ \A k \in Handlers : k # h => pc'[k] = pc[k] /\ slot'[k] = slot[k]
      /\ \A u \in used : born'[u] = born[u] /\ sent'[u] = sent[u]
      /\ born'[t] = date /\ sent'[t] = {body}
  BY <1>1, <1>2, <1>3, <1>14 DEF TypeOK
<1>8. /\ \A k \in Handlers : k # h /\ pc[k] # "idle" => mem'[slot'[k]] = mem[slot[k]]
      /\ \A r \in ToSet(queue) : mem'[r] = mem[r]
      /\ wpc = "result" => mem'[wslot] = mem[wslot]
  BY <1>1, <1>7 DEF TypeOK, OwnInv
<1>9. t \notin used /\ t \notin Reached /\ t \notin removed \cup clashed \cup stamped
      /\ db[t] = Missing
  BY <1>1 DEF TypeOK, ContentInv, DocInv, Reached
<1> USE DEF ContentInv, Posting, Id, Stamped, Reached
<1>10. PostInv'
  <2>1. \A k \in Handlers : pc'[k] \in Posting =>
          \/ k = h
          \/ pc[k] = pc'[k] /\ Id(slot[k])' = Id(slot[k]) /\ mem'[slot'[k]] = mem[slot[k]]
    BY <1>7, <1>8
  <2>2. Id(slot[h])' = t
    BY <1>4, <1>6, <1>7
  <2>3. Reached' = Reached /\ \A k \in Handlers : pc[k] \in Posting => Id(slot[k]) \in used
    BY <1>2 DEF PostInv
  <2> QED BY <1>1, <1>2, <1>4, <1>6, <1>7, <1>9, <2>1, <2>2, <2>3 DEF PostInv
<1>11. WriteInv'
  <2>1. \A k \in Handlers : pc'[k] \in {"insert", "write"} =>
          \/ k = h
          \/ pc[k] = pc'[k] /\ Id(slot[k])' = Id(slot[k]) /\ mem'[slot'[k]] = mem[slot[k]]
    BY <1>7, <1>8
  <2>2. Id(slot[h])' = t
    BY <1>4, <1>6, <1>7
  <2> QED BY <1>1, <1>2, <1>7, <1>9, <2>1, <2>2 DEF WriteInv, Sent, Copied
<1>12. JobInv'
  <2>1. \A k \in Handlers : pc'[k] \in Posting =>
          \/ k = h
          \/ pc[k] = pc'[k] /\ Id(slot[k])' = Id(slot[k])
    BY <1>7, <1>8
  <2>2. Id(slot[h])' = t
    BY <1>4, <1>6, <1>7
  <2> QED BY <1>1, <1>2, <1>7, <1>8, <1>9, <2>1, <2>2 DEF JobInv
<1>13. DocInv'
  BY <1>1, <1>2, <1>7, <1>9 DEF DocInv, Sent
<1> QED BY <1>15, <1>5, <1>10, <1>11, <1>12, <1>13

\* A step of h that changes at most its own object changes nothing of the others.
LEMMA OthersKept ==
  ASSUME TypeOK, OwnInv, NEW h \in Handlers, pc[h] # "idle",
         \A r \in Slots : r # slot[h] => mem'[r] = mem[r],
         \A k \in Handlers : k # h => pc'[k] = pc[k] /\ slot'[k] = slot[k]
  PROVE  /\ \A k \in Handlers : k # h /\ pc[k] # "idle" => mem'[slot'[k]] = mem[slot[k]]
         /\ \A r \in ToSet(queue) : mem'[r] = mem[r]
         /\ wpc # "wait" => mem'[wslot] = mem[wslot]
BY DEF TypeOK, OwnInv

\* transaction_insert_one: a document gets the fields of the POST's object.
LEMMA InsertStep ==
  ASSUME IInv, NEW h \in Handlers, Insert(h)
  PROVE  IInv'
<1> USE DEF IInv
<1> DEFINE o == mem[slot[h]]
           t == Id(slot[h])
<1>1. /\ pc[h] = "insert" /\ pc' = [pc EXCEPT ![h] = "stamp"]
      /\ db' = [db EXCEPT ![t] = ToDoc(o)]
      /\ UNCHANGED <<main, toLoad, slot, wpc, wslot, queue, mem, pool, list, used, sent,
                     born, removed, stamped, done, clashed>>
  BY DEF Insert, Moves, workerVars, Id
<1>2. /\ o \in Object /\ t \in Trans /\ o.date \in Dates /\ o.date = born[t]
      /\ o.result = Empty /\ t \in used \ Reached
      /\ db[t] = Missing /\ t \notin removed \cup clashed \cup stamped
  BY <1>1 DEF TypeOK, OwnInv, ContentInv, PostInv, Posting, Id
<1>3. PICK body \in Bodies \cap sent[t] :
        /\ body.title # NotGiven /\ o.title = body.title
        /\ o.description = Given(body.description, Empty) /\ o.amount = body.amount
  BY <1>1 DEF ContentInv, PostInv
<1>4. o.title \in Texts
  BY <1>3, BodiesAssumption DEF Body
<1> DEFINE d == ToDoc(o)
<1>5. /\ d \in Document /\ d.title = o.title /\ d.description = o.description
      /\ d.amount = o.amount /\ d.date = o.date * 1000 /\ d.result = o.result
  BY <1>2, <1>4, ToDocData
<1>6. db' = [db EXCEPT ![t] = d]
  BY <1>1
<1> HIDE DEF d, o
<1>7. TypeOK'
  BY <1>1, <1>2, <1>5, <1>6 DEF TypeOK
<1>8. OwnInv'
  BY <1>1 DEF TypeOK, OwnInv
<1>9. /\ db'[t] = d /\ \A u \in Trans : u # t => db'[u] = db[u]
      /\ pc'[h] = "stamp" /\ \A k \in Handlers : k # h => pc'[k] = pc[k]
  BY <1>1, <1>2, <1>6 DEF TypeOK
<1>10. Sent(t, d)
  BY <1>3, <1>5 DEF Sent, Given
<1> HIDE DEF t
<1>11. \A k \in Handlers : k # h /\ pc[k] \in Posting => Id(slot[k]) # t /\ Id(slot[k]) \in Trans
  BY <1>1 DEF ContentInv, PostInv, Posting, t, TypeOK
<1>12. \A k \in Handlers : pc[k] = "write" => Id(slot[k]) # t /\ Id(slot[k]) \in Trans
  BY <1>1 DEF ContentInv, WriteInv, t, TypeOK
<1>13. /\ \A r \in ToSet(queue) : Id(r) # t /\ Id(r) \in Trans
       /\ wpc = "result" => Id(wslot) # t /\ Id(wslot) \in Trans
  BY <1>1 DEF ContentInv, JobInv, t, Posting, TypeOK
<1>20. \A s : Id(s)' = Id(s)
  BY <1>1 DEF Id
<1> USE DEF ContentInv, Stamped, Reached
<1>14. PostInv'
  <2>1. \A k \in Handlers : pc'[k] \in Posting => pc[k] \in Posting
    BY <1>1, <1>9 DEF Posting
  <2>2. \A k \in Handlers : pc'[k] \in {"insert", "push"} => k # h /\ pc[k] = pc'[k]
    BY <1>9
  <2> QED BY <1>1, <1>9, <1>11, <1>20, <2>1, <2>2 DEF PostInv, Posting
<1>15. WriteInv'
  <2>1. \A k \in Handlers : pc'[k] \in {"insert", "write"} => k # h /\ pc[k] = pc'[k]
    BY <1>9
  <2> QED BY <1>1, <1>9, <1>12, <1>20, <2>1 DEF WriteInv, Sent, Copied
<1>16. JobInv'
  <2>1. \A k \in Handlers : pc'[k] \in Posting => pc[k] \in Posting
    BY <1>1, <1>9 DEF Posting
  <2> QED BY <1>1, <1>9, <1>13, <1>20, <2>1 DEF JobInv
<1>17. DocInv'
  <2>1. \A u \in Trans : Stamped(u)'
    BY <1>1, <1>2, <1>9 DEF DocInv
  <2> QED BY <1>1, <1>2, <1>5, <1>9, <1>10, <2>1 DEF DocInv, Sent, TypeOK
<1> QED BY <1>7, <1>8, <1>14, <1>15, <1>16, <1>17

\* transaction_update_worker_time.
LEMMA StampStep ==
  ASSUME IInv, NEW h \in Handlers, Stamp(h)
  PROVE  IInv'
<1> USE DEF IInv
<1> DEFINE t == Id(slot[h])
           s == slot[h]
           d == [db[t] EXCEPT !.worker_time = 1]
<1>1. /\ pc[h] = "stamp" /\ pc' = [pc EXCEPT ![h] = "push"]
      /\ mem' = [mem EXCEPT ![s].worker_time = 1]
      /\ \/ /\ db' = IF db[t] = Missing THEN db ELSE [db EXCEPT ![t] = d]
            /\ stamped' = stamped \cup {t}
         \/ UNCHANGED <<db, stamped>>
      /\ UNCHANGED <<main, toLoad, slot, wpc, wslot, queue, pool, list, used, sent,
                     born, removed, done, clashed>>
  BY DEF Stamp, Moves, workerVars, Id, UpdateOne
<1>2. /\ s \in Slots /\ t \in Trans /\ mem[s] \in Object /\ t \in used \ Reached
  BY <1>1, NoneAssumption DEF TypeOK, OwnInv, ContentInv, PostInv, Posting, Id
<1>3. /\ mem'[s] \in Object /\ mem'[s].id = mem[s].id /\ mem'[s].title = mem[s].title
      /\ mem'[s].description = mem[s].description /\ mem'[s].amount = mem[s].amount
      /\ mem'[s].date = mem[s].date /\ mem'[s].result = mem[s].result
      /\ \A r \in Slots : r # s => mem'[r] = mem[r]
  BY <1>1, <1>2 DEF TypeOK, Object, Times
<1>4. db[t] # Missing =>
        /\ d \in Document /\ d.worker_time = 1 /\ d.title = db[t].title
        /\ d.description = db[t].description /\ d.amount = db[t].amount
        /\ d.date = db[t].date /\ d.result = db[t].result
  BY <1>2, <1>3, StampData DEF TypeOK
<1> HIDE DEF d
<1>7. TypeOK'
  <2>1. mem' \in [Slots -> Object]
    BY <1>1, <1>3 DEF TypeOK
  <2>2. db' \in [Trans -> Document \cup {Missing}]
    BY <1>1, <1>4 DEF TypeOK
  <2>3. stamped' \subseteq used
    BY <1>1, <1>2 DEF TypeOK
  <2> QED BY <1>1, <2>1, <2>2, <2>3 DEF TypeOK
<1>8. OwnInv'
  BY <1>1, <1>2, <1>3 DEF TypeOK, OwnInv
<1>5. pc'[h] = "push" /\ \A k \in Handlers : k # h => pc'[k] = pc[k]
  BY <1>1 DEF TypeOK
<1>6. db[t] # Missing => d # Missing
  BY <1>4, NoMissing
<1>9. /\ db[t] = Missing => db'[t] = Missing
      /\ db[t] # Missing => db'[t] # Missing /\ db'[t] \in {d, db[t]}
      /\ \/ stamped' = stamped /\ db' = db
         \/ stamped' = stamped \cup {t} /\ (db[t] # Missing => db'[t] = d)
      /\ \A u \in Trans : u # t => db'[u] = db[u]
      /\ pc'[h] = "push" /\ \A k \in Handlers : k # h => pc'[k] = pc[k]
  <2>1. db[t] = Missing => db' = db
    BY <1>1
  <2>2. /\ db \in [Trans -> Document \cup {Missing}] /\ t \in Trans
        /\ \/ /\ db[t] # Missing /\ db' = [db EXCEPT ![t] = d]
              /\ stamped' = stamped \cup {t}
           \/ db[t] = Missing /\ db' = db /\ stamped' = stamped \cup {t}
           \/ UNCHANGED <<db, stamped>>
    BY <1>1, <1>2 DEF TypeOK
  <2> HIDE DEF t
  <2>3. /\ \A u \in Trans : u # t => db'[u] = db[u]
        /\ db[t] # Missing => db'[t] \in {d, db[t]}
        /\ \/ stamped' = stamped /\ db' = db
           \/ stamped' = stamped \cup {t} /\ (db[t] # Missing => db'[t] = d)
    BY <2>2
  <2> QED BY <1>5, <1>6, <2>1, <2>3
<1>10. /\ \A k \in Handlers : k # h /\ pc[k] # "idle" => mem'[slot'[k]] = mem[slot[k]]
       /\ \A r \in ToSet(queue) : mem'[r] = mem[r]
       /\ wpc # "wait" => mem'[wslot] = mem[wslot]
  BY <1>1, <1>3, <1>9, OthersKept
<1>11. /\ \A k \in Handlers : pc[k] # "idle" => Id(slot[k])' = Id(slot[k])
       /\ \A r \in ToSet(queue) : Id(r)' = Id(r)
       /\ wpc # "wait" => Id(wslot)' = Id(wslot)
  BY <1>1, <1>3, <1>10 DEF Id
<1>12. \A u \in Trans :
        /\ db'[u] = Missing <=> db[u] = Missing
        /\ db[u] # Missing =>
             /\ db'[u].title = db[u].title /\ db'[u].description = db[u].description
             /\ db'[u].amount = db[u].amount /\ db'[u].date = db[u].date
             /\ db'[u].result = db[u].result
             /\ db'[u].worker_time = 1 \/ db'[u].worker_time = db[u].worker_time
  BY <1>4, <1>9
<1> USE DEF ContentInv, Reached
<1>13. \A u \in Trans : Stamped(u) => Stamped(u)'
  BY <1>4, <1>9, <1>12 DEF Stamped
<1> HIDE DEF t, s
<1>14. PostInv'
  <2>1. \A k \in Handlers : pc'[k] \in Posting =>
          /\ pc[k] \in Posting /\ Id(slot[k])' = Id(slot[k])
          /\ mem'[slot'[k]].date = mem[slot[k]].date
          /\ mem'[slot'[k]].result = mem[slot[k]].result
    BY <1>1, <1>3, <1>9, <1>10, <1>11 DEF Posting, s
  <2>2. \A k \in Handlers : pc'[k] = "insert" =>
          k # h /\ pc[k] = "insert" /\ mem'[slot'[k]] = mem[slot[k]]
    BY <1>9, <1>10
  <2>4. \A k \in Handlers : pc[k] \in Posting => Id(slot[k]) \in Trans
    BY DEF PostInv, TypeOK
  <2>5. Id(slot[h])' = t
    BY <1>1, <1>11 DEF t
  <2>6. /\ \A k \in Handlers : pc'[k] \in Posting =>
             /\ Id(slot[k])' \in used' \ Reached'
             /\ mem'[slot'[k]].date = born'[Id(slot[k])'] /\ mem'[slot'[k]].date \in Dates
             /\ mem'[slot'[k]].result = Empty
        /\ \A k, j \in Handlers :
             pc'[k] \in Posting /\ pc'[j] \in Posting /\ Id(slot[k])' = Id(slot[j])' => k = j
    BY <1>1, <2>1 DEF PostInv
  <2>7. \A k \in Handlers : pc'[k] = "insert" =>
          /\ db'[Id(slot[k])'] = Missing /\ Id(slot[k])' \notin removed' \cup clashed' \cup stamped'
          /\ \E body \in Bodies \cap sent'[Id(slot[k])'] :
               /\ body.title # NotGiven /\ mem'[slot'[k]].title = body.title
               /\ mem'[slot'[k]].description = Given(body.description, Empty)
               /\ mem'[slot'[k]].amount = body.amount
    <3>1. \A k \in Handlers : pc'[k] = "insert" => Id(slot[k]) # t
      BY <1>1, <2>2 DEF PostInv, Posting, t
    <3>2. \A k \in Handlers : pc'[k] = "insert" => Id(slot[k])' \notin stamped'
      BY <1>1, <2>1, <2>2, <3>1 DEF PostInv, Posting
    <3>3. removed' = removed /\ clashed' = clashed /\ sent' = sent
      BY <1>1
    <3> QED BY <1>12, <2>1, <2>2, <2>4, <3>2, <3>3 DEF PostInv, Posting
  <2> QED BY <2>6, <2>7 DEF PostInv
<1>15. WriteInv'
  <2>1. \A k \in Handlers : pc'[k] \in {"insert", "write"} =>
          k # h /\ pc[k] = pc'[k] /\ Id(slot[k])' = Id(slot[k]) /\ mem'[slot'[k]] = mem[slot[k]]
    BY <1>9, <1>10, <1>11
  <2>2. \A k \in Handlers : pc[k] = "write" => Id(slot[k]) \in Trans
    BY DEF WriteInv, TypeOK
  <2> QED BY <1>1, <1>12, <2>1, <2>2 DEF WriteInv, Sent, Copied
<1>16. JobInv'
  <2>1. \A k \in Handlers : pc'[k] \in Posting =>
          pc[k] \in Posting /\ Id(slot[k])' = Id(slot[k])
    BY <1>1, <1>9, <1>11 DEF Posting
  <2>2. /\ \A r \in ToSet(queue) : Id(r) \in Trans
        /\ wpc = "result" => Id(wslot) \in Trans
    BY DEF JobInv, TypeOK
  <2> QED BY <1>1, <1>10, <1>11, <1>13, <2>1, <2>2 DEF JobInv, Stamped
<1>17. DocInv'
  BY <1>1, <1>12, <1>13 DEF DocInv, Sent, TypeOK, Stamped
<1> QED BY <1>7, <1>8, <1>14, <1>15, <1>16, <1>17

\* The list and the job queue: a POST's object becomes a job.
LEMMA PushStep ==
  ASSUME IInv, NEW h \in Handlers, Push(h)
  PROVE  IInv'
<1> USE DEF IInv
<1> DEFINE t == Id(slot[h])
           s == slot[h]
<1>1. /\ pc[h] = "push" /\ pc' = [pc EXCEPT ![h] = "idle"]
      /\ list' = list \cup {t} /\ queue' = Append(queue, s)
      /\ slot' = [slot EXCEPT ![h] = NoSlot]
      /\ UNCHANGED <<main, toLoad, wpc, wslot, mem, pool, db, used, sent,
                     born, removed, stamped, done, clashed>>
  BY DEF Push, Moves, workerVars, Id
<1>2. /\ s \in Slots \ pool /\ s \notin ToSet(queue) /\ s # wslot /\ main = "up"
      /\ toLoad = {} /\ s # NoSlot /\ queue \in Seq(Slots)
  BY <1>1, NoneAssumption DEF TypeOK, OwnInv
<1>3. /\ t \in used \ Reached /\ t \in Trans
      /\ mem[s].date = born[t] /\ mem[s].date \in Dates
  BY <1>1 DEF TypeOK, ContentInv, PostInv, Posting
<1>4. /\ queue' \in Seq(Slots) /\ queue' # <<>> /\ ToSet(queue') = ToSet(queue) \cup {s}
      /\ NoRepeats(queue', NoSlot)
  <2>1. NoRepeats(queue, NoSlot)
    BY DEF OwnInv
  <2> HIDE DEF s
  <2> QED BY <1>1, <1>2, <2>1, ToSetAppend, AppendNoRepeats, AppendProperties
<1>5. /\ pc'[h] = "idle" /\ slot'[h] = NoSlot
      /\ \A k \in Handlers : k # h => pc'[k] = pc[k] /\ slot'[k] = slot[k]
  BY <1>1 DEF TypeOK
<1>6. TypeOK'
  BY <1>1, <1>2, <1>3, <1>4 DEF TypeOK
<1>7. OwnInv'
  <2>1. \A k \in Handlers : pc'[k] # "idle" =>
          /\ k # h /\ pc[k] # "idle" /\ slot'[k] = slot[k] /\ slot[k] # s
    BY <1>1, <1>5 DEF OwnInv
  <2>2. wpc # "wait" => wslot \in Slots /\ wslot # s
    BY <1>2 DEF OwnInv, TypeOK
  <2> HIDE DEF s
  <2> QED BY <1>1, <1>2, <1>4, <2>1, <2>2 DEF OwnInv
<1>8. \A k \in Handlers : k # h /\ pc[k] \in Posting => Id(slot[k]) # t
  BY <1>1 DEF ContentInv, PostInv, Posting
<1>9. \A k \in Handlers : pc'[k] \in Posting \cup {"write"} =>
        k # h /\ pc'[k] = pc[k] /\ slot'[k] = slot[k]
  BY <1>5 DEF Posting
<1>10. /\ \A r \in ToSet(queue) : Id(r) # t /\ (wpc = "result" => Id(r) # Id(wslot))
       /\ wpc = "result" => Id(wslot) # t
  BY <1>1 DEF ContentInv, JobInv, Posting
<1>11. \A r : Id(r)' = Id(r) /\ mem'[r] = mem[r]
  BY <1>1 DEF Id
<1>12. \A u : Stamped(u)' = Stamped(u)
  BY <1>1, Zenon DEF Stamped
<1>13. Reached' = Reached \cup {t} /\ Id(s) = t
  BY <1>1 DEF Reached
<1>14. db' = db /\ sent' = sent /\ born' = born
  BY <1>1
<1> HIDE DEF t, s
<1> USE DEF ContentInv
<1>15. PostInv'
  <2>1. \A k \in Handlers : pc'[k] \in Posting =>
          Id(slot[k])' = Id(slot[k]) /\ mem'[slot'[k]] = mem[slot[k]]
    BY <1>9, <1>11 DEF Id
  <2> QED BY <1>1, <1>8, <1>9, <1>12, <1>13, <2>1 DEF PostInv, Posting, Stamped
<1>16. WriteInv'
  <2>1. \A k \in Handlers : pc'[k] \in {"insert", "write"} =>
          Id(slot[k])' = Id(slot[k]) /\ mem'[slot'[k]] = mem[slot[k]]
    BY <1>9, <1>11 DEF Id, Posting
  <2> QED BY <1>1, <1>9, <2>1 DEF WriteInv, Posting, Sent, Copied
<1>17. JobInv'
  <2>1. \A k \in Handlers : pc'[k] \in Posting =>
          /\ k # h /\ pc[k] \in Posting /\ Id(slot[k])' = Id(slot[k])
    BY <1>9, <1>11 DEF Id
  <2>2. \A r \in ToSet(queue') : r \in ToSet(queue) \/ r = s
    BY <1>4
  <2>3. t \notin toLoad \cup done
    BY <1>3 DEF Reached
  <2> QED BY <1>1, <1>2, <1>3, <1>8, <1>10, <1>11, <1>12, <1>13, <1>14, <2>1, <2>2, <2>3
            DEF JobInv, Stamped
<1>18. DocInv'
  <2>1. Reached' \subseteq used
    BY <1>3, <1>13 DEF DocInv
  <2>2. (list' \cup toLoad') \cap done' = {}
    BY <1>1, <1>3 DEF DocInv, Reached
  <2> QED BY <1>1, <1>12, <1>14, <2>1, <2>2 DEF DocInv, Sent, Stamped
<1> QED BY <1>6, <1>7, <1>15, <1>16, <1>17, <1>18

\* A step that keeps what everyone holds and who has which object.
LEMMA QuietStep ==
  ASSUME IInv, TypeOK', OwnInv', UNCHANGED <<db, list, historyVars>>,
         toLoad' \subseteq toLoad, queue' = queue,
         \A h \in Handlers : pc'[h] \in Posting \cup {"write"} =>
           pc'[h] = pc[h] /\ slot'[h] = slot[h] /\ mem'[slot[h]] = mem[slot[h]],
         \A s \in ToSet(queue) : mem'[s] = mem[s],
         wpc' = "result" => wpc = "result" /\ wslot' = wslot /\ mem'[wslot] = mem[wslot]
  PROVE  IInv'
<1>1. ContentInv'
  BY HandsKept DEF IInv
<1> QED BY <1>1 DEF IInv

\* service_trans_create_internal: the insert fails.
LEMMA InsertFailsStep ==
  ASSUME IInv, NEW h \in Handlers, InsertFails(h)
  PROVE  IInv'
<1>1. /\ pc[h] = "insert" /\ pc' = [pc EXCEPT ![h] = "return"]
      /\ UNCHANGED <<main, toLoad, slot, workerVars, queue, mem, pool, list, db, historyVars>>
  BY DEF InsertFails, Moves, workerVars, historyVars
<1>2. TypeOK'
  BY <1>1 DEF IInv, TypeOK, workerVars, historyVars
<1>3. OwnInv'
  BY <1>1 DEF IInv, TypeOK, OwnInv, workerVars
<1>4. \A k \in Handlers : pc'[k] \in Posting \cup {"write"} => pc'[k] = pc[k]
  BY <1>1 DEF IInv, TypeOK, Posting
<1> QED BY <1>1, <1>2, <1>3, <1>4, QuietStep DEF workerVars

\* service_trans_return, by a handler.
LEMMA ReturnStep ==
  ASSUME IInv, NEW h \in Handlers, Return(h)
  PROVE  IInv'
<1> USE DEF IInv
<1>1. /\ pc[h] = "return" /\ pc' = [pc EXCEPT ![h] = "idle"]
      /\ mem' = [mem EXCEPT ![slot[h]] = Blank] /\ pool' = pool \cup {slot[h]}
      /\ slot' = [slot EXCEPT ![h] = NoSlot]
      /\ UNCHANGED <<main, toLoad, wpc, wslot, queue, list, db, used, sent, born, removed,
                     stamped, done, clashed>>
  BY DEF Return, Moves, TransReturn, workerVars
<1>2. /\ slot[h] \in Slots \ pool /\ slot[h] \notin ToSet(queue) /\ slot[h] # wslot
      /\ slot[h] # NoSlot
  BY <1>1, NoneAssumption DEF TypeOK, OwnInv
<1>3. /\ pc'[h] = "idle" /\ slot'[h] = NoSlot /\ mem'[slot[h]] = Blank
      /\ \A k \in Handlers : k # h => pc'[k] = pc[k] /\ slot'[k] = slot[k]
      /\ \A r \in Slots : r # slot[h] => mem'[r] = mem[r]
  BY <1>1, <1>2 DEF TypeOK
<1>4. TypeOK'
  BY <1>1, <1>2, BlankData DEF TypeOK
<1>5. OwnInv'
  <2>1. \A k \in Handlers : pc'[k] # "idle" =>
          /\ k # h /\ pc[k] # "idle" /\ slot'[k] = slot[k] /\ slot[k] # slot[h]
    BY <1>1, <1>3 DEF OwnInv
  <2> QED BY <1>1, <1>2, <1>3, <2>1 DEF OwnInv, TypeOK
<1>6. /\ \A k \in Handlers : k # h /\ pc[k] # "idle" => mem'[slot'[k]] = mem[slot[k]]
      /\ \A r \in ToSet(queue) : mem'[r] = mem[r]
      /\ wpc # "wait" => mem'[wslot] = mem[wslot]
  BY <1>1, <1>3, OthersKept
<1>7. \A k \in Handlers : pc'[k] \in Posting \cup {"write"} =>
        pc'[k] = pc[k] /\ slot'[k] = slot[k] /\ mem'[slot[k]] = mem[slot[k]]
  BY <1>3, <1>6 DEF Posting
<1> QED BY <1>1, <1>4, <1>5, <1>6, <1>7, QuietStep DEF historyVars

\* service_trans_return, by the worker.
LEMMA GiveBackStep ==
  ASSUME IInv, GiveBack
  PROVE  IInv'
<1> USE DEF IInv
<1>1. /\ wpc = "return" /\ wpc' = "wait" /\ wslot' = NoSlot
      /\ mem' = [mem EXCEPT ![wslot] = Blank] /\ pool' = pool \cup {wslot}
      /\ UNCHANGED <<main, toLoad, pc, slot, queue, list, db, used, sent, born, removed,
                     stamped, done, clashed>>
  BY DEF GiveBack, WorkerMoves, TransReturn, handlerVars
<1>2. /\ wslot \in Slots \ pool /\ wslot \notin ToSet(queue)
      /\ \A k \in Handlers : pc[k] # "idle" => slot[k] # wslot
  BY <1>1 DEF TypeOK, OwnInv
<1>3. mem'[wslot] = Blank /\ \A r \in Slots : r # wslot => mem'[r] = mem[r]
  BY <1>1, <1>2 DEF TypeOK
<1>4. TypeOK'
  BY <1>1, <1>2, BlankData DEF TypeOK
<1>5. OwnInv'
  BY <1>1, <1>2, <1>3, NoneAssumption DEF OwnInv, TypeOK
<1>6. /\ \A k \in Handlers : pc[k] # "idle" => mem'[slot[k]] = mem[slot[k]]
      /\ \A r \in ToSet(queue) : mem'[r] = mem[r]
  BY <1>2, <1>3 DEF OwnInv
<1>7. \A k \in Handlers : pc'[k] \in Posting \cup {"write"} =>
        pc'[k] = pc[k] /\ slot'[k] = slot[k] /\ mem'[slot[k]] = mem[slot[k]]
  BY <1>1, <1>6 DEF Posting
<1> QED BY <1>1, <1>4, <1>5, <1>6, <1>7, QuietStep DEF historyVars

\* The process ends: the objects and the queue are gone.
LEMMA CrashStep ==
  ASSUME IInv, Crash
  PROVE  IInv'
<1> USE DEF IInv
<1>1. /\ main' = "down" /\ toLoad' = {}
      /\ pc' = [h \in Handlers |-> "idle"] /\ slot' = [h \in Handlers |-> NoSlot]
      /\ wpc' = "wait" /\ wslot' = NoSlot /\ queue' = <<>>
      /\ mem' = [s \in Slots |-> Blank] /\ pool' = Slots
      /\ UNCHANGED <<list, db, historyVars>>
  BY DEF Crash
<1>2. queue' \in Seq(Slots) /\ ToSet(queue') = {} /\ NoRepeats(queue', NoSlot)
  BY <1>1 DEF ToSet, NoRepeats
<1>3. TypeOK'
  BY <1>1, <1>2, BlankData DEF TypeOK, historyVars
<1>4. OwnInv'
  BY <1>1, <1>2 DEF OwnInv
<1>5. ContentInv'
  BY <1>1, <1>2, HandsKept DEF Posting
<1> QED BY <1>3, <1>4, <1>5

\* service_trans_update: the body changes a copy of the document.
LEMMA FindStep ==
  ASSUME IInv, NEW h \in Handlers, Find(h)
  PROVE  IInv'
<1> USE DEF IInv
<1>1. PICK s \in pool, t \in used :
        /\ db[t] # Missing
        /\ pool' = pool \ {s} /\ slot' = [slot EXCEPT ![h] = s]
        /\ \/ /\ Moves(h, "idle", "return")
              /\ mem' = [mem EXCEPT ![s] = FromDoc(t, mem[s], db[t])]
              /\ UNCHANGED <<sent, clashed>>
           \/ \E body \in Bodies :
                /\ Moves(h, "idle", "write")
                /\ mem' = [mem EXCEPT ![s] = Patch(FromDoc(t, mem[s], db[t]), body)]
                /\ sent' = [sent EXCEPT ![t] = sent[t] \cup {body}]
                /\ clashed' = IF \E k \in Handlers : pc[k] = "write" /\ mem[slot[k]].id = t
                                THEN clashed \cup {t} ELSE clashed
  BY DEF Find
<1>2. /\ main = "up" /\ pc[h] = "idle"
      /\ UNCHANGED <<main, toLoad, wpc, wslot, queue, list, db, used, born, removed, stamped, done>>
  BY DEF Find, Moves, workerVars
<1>3. /\ s \in Slots /\ s # NoSlot /\ mem[s] \in Object /\ t \in Trans /\ db[t] \in Document
      /\ \A k \in Handlers : pc[k] # "idle" => slot[k] # s
      /\ s \notin ToSet(queue) /\ s # wslot
  BY <1>1, NoneAssumption DEF TypeOK, OwnInv
<1> DEFINE old == FromDoc(t, mem[s], db[t])
<1>4. /\ old \in Object /\ old.id = t /\ old.title = db[t].title /\ old.title \in Texts
      /\ old.description = db[t].description /\ old.amount = db[t].amount
  <2>1. db[t].title \in Texts
    BY <1>3 DEF Document
  <2> QED BY <1>3, <2>1, FromDocData
<1> HIDE DEF old
<1>5. ASSUME pc' = [pc EXCEPT ![h] = "return"], mem' = [mem EXCEPT ![s] = old],
             UNCHANGED <<sent, clashed>>
      PROVE  IInv'
  <2>1. TypeOK'
    BY <1>1, <1>2, <1>3, <1>4, <1>5 DEF TypeOK
  <2>2. OwnInv'
    BY <1>1, <1>2, <1>3, <1>5 DEF TypeOK, OwnInv
  <2>3. /\ pc'[h] = "return" /\ \A r \in Slots : r # s => mem'[r] = mem[r]
        /\ \A k \in Handlers : k # h => pc'[k] = pc[k] /\ slot'[k] = slot[k]
    BY <1>1, <1>3, <1>5 DEF TypeOK
  <2>4. /\ \A k \in Handlers : k # h /\ pc[k] # "idle" => mem'[slot[k]] = mem[slot[k]]
        /\ \A r \in ToSet(queue) : mem'[r] = mem[r]
        /\ wpc # "wait" => mem'[wslot] = mem[wslot]
    BY <1>3, <2>3 DEF TypeOK, OwnInv
  <2>5. \A k \in Handlers : pc'[k] \in Posting \cup {"write"} =>
          pc'[k] = pc[k] /\ slot'[k] = slot[k] /\ mem'[slot[k]] = mem[slot[k]]
    BY <2>3, <2>4 DEF Posting
  <2> QED BY <1>2, <1>5, <2>1, <2>2, <2>4, <2>5, QuietStep DEF historyVars
<1>6. ASSUME NEW body \in Bodies, pc' = [pc EXCEPT ![h] = "write"],
             mem' = [mem EXCEPT ![s] = Patch(old, body)],
             sent' = [sent EXCEPT ![t] = sent[t] \cup {body}],
             clashed' = IF \E k \in Handlers : pc[k] = "write" /\ mem[slot[k]].id = t
                          THEN clashed \cup {t} ELSE clashed
      PROVE  IInv'
  <2> DEFINE new == Patch(old, body)
  <2>1. /\ new \in Object /\ new.id = t /\ new.title = Given(body.title, db[t].title)
        /\ new.description = Given(body.description, db[t].description)
        /\ new.amount = body.amount
    BY <1>4, PatchData
  <2>2. new.title \in Texts
    <3>1. body.title \in Texts \cup {NotGiven}
      BY BodiesAssumption DEF Body
    <3> QED BY <1>4, <2>1, <3>1 DEF Given
  <2>3. mem' = [mem EXCEPT ![s] = new]
    BY <1>6
  <2> HIDE DEF new
  <2>4. clashed \subseteq clashed' /\ clashed' \subseteq clashed \cup {t}
    BY <1>6
  <2>5. TypeOK'
    BY <1>1, <1>2, <1>3, <1>6, <2>1, <2>3, <2>4 DEF TypeOK
  <2>6. OwnInv'
    BY <1>1, <1>2, <1>3, <1>6, <2>3 DEF TypeOK, OwnInv
  <2>7. /\ pc'[h] = "write" /\ slot'[h] = s /\ mem'[s] = new
        /\ \A r \in Slots : r # s => mem'[r] = mem[r]
        /\ \A k \in Handlers : k # h => pc'[k] = pc[k] /\ slot'[k] = slot[k]
        /\ sent'[t] = sent[t] \cup {body} /\ \A u \in Trans : u # t => sent'[u] = sent[u]
    BY <1>1, <1>3, <1>6, <2>3 DEF TypeOK
  <2>8. /\ \A k \in Handlers : k # h /\ pc[k] # "idle" => mem'[slot'[k]] = mem[slot[k]]
        /\ \A r \in ToSet(queue) : mem'[r] = mem[r]
        /\ wpc # "wait" => mem'[wslot] = mem[wslot]
    BY <1>3, <2>7 DEF TypeOK, OwnInv
  <2>9. \A k \in Handlers : pc'[k] # "idle" =>
          \/ k = h
          \/ /\ pc'[k] = pc[k] /\ mem'[slot'[k]] = mem[slot[k]]
             /\ Id(slot[k])' = Id(slot[k])
    BY <2>7, <2>8 DEF Id
  <2>10. /\ \A r \in ToSet(queue) : Id(r)' = Id(r)
         /\ wpc = "result" => Id(wslot)' = Id(wslot)
         /\ Id(slot[h])' = t
    BY <1>2, <2>1, <2>7, <2>8 DEF Id
  <2>11. \A u \in Trans : sent[u] \subseteq sent'[u]
    BY <2>7
  <2>12. \A u : Stamped(u)' = Stamped(u)
    BY <1>2, Zenon DEF Stamped
  <2>13. Sent(t, db[t])
    BY <1>1, <1>3 DEF ContentInv, DocInv
  <2>14. Reached' = Reached
    BY <1>2, Zenon DEF Reached
  <2>15. \A u \in Trans : \A d : Sent(u, d) => Sent(u, d)'
    BY <2>11 DEF Sent
  <2> USE DEF ContentInv
  <2>16. PostInv'
    <3>1. \A k \in Handlers : pc'[k] \in Posting =>
            /\ k # h /\ pc'[k] = pc[k] /\ mem'[slot'[k]] = mem[slot[k]]
            /\ Id(slot[k])' = Id(slot[k])
      BY <2>7, <2>9 DEF Posting
    <3>2. \A k \in Handlers : pc[k] = "insert" => Id(slot[k]) # t
      BY <1>1 DEF PostInv
    <3>3. \A k \in Handlers : pc[k] \in Posting => Id(slot[k]) \in Trans
      BY DEF PostInv, TypeOK
    <3>4. /\ \A k \in Handlers : pc'[k] \in Posting =>
               /\ Id(slot[k])' \in used' \ Reached'
               /\ mem'[slot'[k]].date = born'[Id(slot[k])'] /\ mem'[slot'[k]].date \in Dates
               /\ mem'[slot'[k]].result = Empty
          /\ \A k, j \in Handlers :
               pc'[k] \in Posting /\ pc'[j] \in Posting /\ Id(slot[k])' = Id(slot[j])' => k = j
      BY <1>2, <2>14, <3>1 DEF PostInv
    <3>5. \A k \in Handlers : pc'[k] = "insert" =>
            /\ db'[Id(slot[k])'] = Missing /\ Id(slot[k])' \notin removed' \cup clashed' \cup stamped'
            /\ \E b \in Bodies \cap sent'[Id(slot[k])'] :
                 /\ b.title # NotGiven /\ mem'[slot'[k]].title = b.title
                 /\ mem'[slot'[k]].description = Given(b.description, Empty)
                 /\ mem'[slot'[k]].amount = b.amount
      BY <1>2, <2>4, <2>7, <3>1, <3>2, <3>3 DEF PostInv, Posting
    <3> QED BY <3>4, <3>5 DEF PostInv
  <2>17. WriteInv'
    <3>1. Sent(t, mem[s])'
      BY <2>1, <2>7, <2>13 DEF Sent, Given
    <3>2. Copied(t, mem[s])'
      BY <1>2, <2>1, <2>7 DEF Copied
    <3>3. \A k \in Handlers : pc[k] = "insert" => Id(slot[k]) # t
      BY <1>1 DEF PostInv
    <3>4. t \notin clashed' => \A k \in Handlers : pc[k] = "write" => Id(slot[k]) # t
      BY <1>6 DEF Id
    <3>5. \A k \in Handlers : pc[k] = "write" => Id(slot[k]) \in Trans
      BY DEF WriteInv, TypeOK
    <3>6. ASSUME NEW k \in Handlers, pc'[k] = "write", k # h
          PROVE  /\ Id(slot[k])' \in used' /\ mem'[slot'[k]].title \in Texts
                 /\ Sent(Id(slot[k]), mem[slot[k]])'
                 /\ \A j \in Handlers : pc'[j] = "insert" => Id(slot[j])' # Id(slot[k])'
                 /\ Id(slot[k])' \notin clashed' =>
                      /\ \A j \in Handlers : pc'[j] = "write" /\ Id(slot[j])' = Id(slot[k])' => j = k
                      /\ Copied(Id(slot[k]), mem[slot[k]])'
      <4>1. pc[k] = "write" /\ mem'[slot'[k]] = mem[slot[k]] /\ Id(slot[k])' = Id(slot[k])
        BY <2>9, <3>6
      <4>2. /\ Id(slot[k]) \in used /\ Id(slot[k]) \in Trans /\ mem[slot[k]].title \in Texts
            /\ Sent(Id(slot[k]), mem[slot[k]])
            /\ \A j \in Handlers : pc[j] = "insert" => Id(slot[j]) # Id(slot[k])
            /\ Id(slot[k]) \notin clashed =>
                 /\ \A j \in Handlers : pc[j] = "write" /\ Id(slot[j]) = Id(slot[k]) => j = k
                 /\ Copied(Id(slot[k]), mem[slot[k]])
        BY <3>5, <4>1 DEF WriteInv
      <4>3. Sent(Id(slot[k]), mem[slot[k]])'
        BY <2>11, <4>1, <4>2 DEF Sent
      <4>4. \A j \in Handlers : pc'[j] = "insert" => Id(slot[j])' # Id(slot[k])'
        BY <2>7, <2>9, <4>1, <4>2
      <4>5. Id(slot[k])' \notin clashed' =>
              /\ \A j \in Handlers : pc'[j] = "write" /\ Id(slot[j])' = Id(slot[k])' => j = k
              /\ Copied(Id(slot[k]), mem[slot[k]])'
        BY <1>2, <2>4, <2>7, <2>9, <2>10, <3>4, <4>1, <4>2 DEF Copied
      <4> QED BY <1>2, <4>1, <4>2, <4>3, <4>4, <4>5
    <3>7. /\ Id(slot[h])' \in used' /\ mem'[slot'[h]].title \in Texts
          /\ Sent(Id(slot[h]), mem[slot[h]])'
          /\ \A j \in Handlers : pc'[j] = "insert" => Id(slot[j])' # Id(slot[h])'
          /\ Id(slot[h])' \notin clashed' =>
               /\ \A j \in Handlers : pc'[j] = "write" /\ Id(slot[j])' = Id(slot[h])' => j = h
               /\ Copied(Id(slot[h]), mem[slot[h]])'
      <4>1. Sent(Id(slot[h]), mem[slot[h]])'
        BY <2>7, <2>10, <3>1 DEF Sent
      <4>2. Copied(Id(slot[h]), mem[slot[h]])'
        BY <2>7, <2>10, <3>2 DEF Copied
      <4>3. \A j \in Handlers : pc'[j] = "insert" => Id(slot[j])' # Id(slot[h])'
        BY <2>7, <2>9, <2>10, <3>3
      <4>4. Id(slot[h])' \notin clashed' =>
              \A j \in Handlers : pc'[j] = "write" /\ Id(slot[j])' = Id(slot[h])' => j = h
        BY <2>7, <2>9, <2>10, <3>4
      <4> QED BY <1>1, <1>2, <2>2, <2>7, <2>10, <4>1, <4>2, <4>3, <4>4
    <3> QED BY <3>6, <3>7 DEF WriteInv
  <2>18. JobInv'
    <3>1. \A k \in Handlers : pc'[k] \in Posting =>
            /\ k # h /\ pc'[k] = pc[k] /\ Id(slot[k])' = Id(slot[k])
      BY <2>7, <2>9 DEF Posting
    <3> QED BY <1>2, <2>8, <2>10, <2>12, <2>14, <3>1 DEF JobInv, Stamped
  <2>19. DocInv'
    <3>1. \A u \in Trans : db[u] # Missing => Sent(u, db[u])'
      BY <1>2, <2>11 DEF DocInv, Sent
    <3> QED BY <1>2, <2>12, <2>14, <3>1 DEF DocInv, Stamped, Sent
  <2> QED BY <2>5, <2>6, <2>16, <2>17, <2>18, <2>19
<1> QED BY <1>1, <1>5, <1>6 DEF old, Moves

\* transaction_update_one: a PUT writes back what its object has.
LEMMA WriteStep ==
  ASSUME IInv, NEW h \in Handlers, Write(h)
  PROVE  IInv'
<1> USE DEF IInv
<1> DEFINE o == mem[slot[h]]
           t == Id(slot[h])
<1>1. /\ pc[h] = "write" /\ pc' = [pc EXCEPT ![h] = "return"]
      /\ \/ db' = IF db[t] = Missing THEN db ELSE [db EXCEPT ![t] = UpdateFields(o, db[t])]
         \/ db' = db
      /\ UNCHANGED <<main, toLoad, slot, wpc, wslot, queue, mem, pool, list, used, sent,
                     born, removed, stamped, done, clashed>>
  BY DEF Write, Moves, workerVars, Id, UpdateOne
<1>2. /\ o \in Object /\ t \in Trans /\ t \in used /\ o.title \in Texts /\ Sent(t, o)
      /\ db[t] # Missing => db[t] \in Document
      /\ t \notin clashed => \A k \in Handlers : pc[k] = "write" /\ Id(slot[k]) = t => k = h
  BY <1>1 DEF TypeOK, OwnInv, ContentInv, WriteInv, Id
<1> DEFINE d == UpdateFields(o, db[t])
<1>3. db[t] # Missing =>
        /\ d \in Document /\ d.title = o.title /\ d.description = o.description
        /\ d.amount = o.amount /\ d.date = db[t].date /\ d.result = db[t].result
        /\ d.worker_time = db[t].worker_time
  BY <1>2, UpdateData
<1>4. \/ db[t] # Missing /\ db' = [db EXCEPT ![t] = d]
      \/ db' = db
  BY <1>1
<1> HIDE DEF d, o
<1>5. TypeOK'
  BY <1>1, <1>2, <1>3, <1>4 DEF TypeOK
<1>6. OwnInv'
  BY <1>1 DEF TypeOK, OwnInv
<1>7. \A u \in Trans :
        /\ db'[u] = Missing <=> db[u] = Missing
        /\ u # t => db'[u] = db[u]
        /\ db[u] # Missing =>
             /\ db'[u].date = db[u].date /\ db'[u].result = db[u].result
             /\ db'[u].worker_time = db[u].worker_time
  BY <1>2, <1>3, <1>4, NoMissing DEF TypeOK
<1>8. \A k \in Handlers : pc'[k] # "return" => k # h /\ pc'[k] = pc[k]
  BY <1>1 DEF TypeOK
<1>9. /\ \A s : Id(s)' = Id(s) /\ mem'[s] = mem[s]
      /\ \A u \in Trans : Stamped(u)' <=> Stamped(u)
  BY <1>1, <1>7 DEF Id, Stamped
<1>10. Reached' = Reached /\ sent' = sent /\ slot' = slot
  BY <1>1 DEF Reached
<1>11. \A u \in Trans : db[u] # Missing => Sent(u, db[u])'
  <2>1. \A u \in Trans : db[u] # Missing => Sent(u, db[u])
    BY DEF ContentInv, DocInv
  <2>2. db'[t] = db[t] \/ (db[t] # Missing /\ db'[t] = d)
    <3>1. db \in [Trans -> Document \cup {Missing}]
      BY DEF TypeOK
    <3> HIDE DEF t
    <3> QED BY <1>2, <1>4, <3>1
  <2> HIDE DEF t
  <2> QED BY <1>2, <1>3, <1>7, <1>10, <2>1, <2>2 DEF Sent
<1> HIDE DEF t
<1> USE DEF ContentInv
<1>12. PostInv'
  <2>1. \A k \in Handlers : pc'[k] \in Posting => pc'[k] = pc[k]
    BY <1>8 DEF Posting
  <2>2. \A k \in Handlers : pc[k] \in Posting => Id(slot[k]) \in Trans
    BY DEF PostInv, TypeOK
  <2>4. \A k \in Handlers : pc'[k] = "insert" => db'[Id(slot[k])'] = Missing
    BY <1>7, <1>9, <1>10, <2>1, <2>2 DEF PostInv, Posting
  <2> QED BY <1>1, <1>9, <1>10, <2>1, <2>4 DEF PostInv, Posting
<1>13. WriteInv'
  <2>1. \A k \in Handlers : pc'[k] = "write" => k # h /\ pc[k] = "write"
    BY <1>8
  <2>2. \A k \in Handlers : pc'[k] = "insert" => pc[k] = "insert"
    BY <1>8
  <2>3. \A k \in Handlers : pc'[k] = "write" /\ Id(slot[k]) \notin clashed =>
          Copied(Id(slot[k]), mem[slot[k]])'
    <3>1. \A k \in Handlers : pc'[k] = "write" /\ Id(slot[k]) \notin clashed =>
            Id(slot[k]) # t /\ Id(slot[k]) \in Trans
      BY <1>2, <2>1 DEF WriteInv, TypeOK
    <3> QED BY <1>7, <1>9, <1>10, <2>1, <3>1 DEF WriteInv, Copied
  <2> QED BY <1>1, <1>9, <1>10, <2>1, <2>2, <2>3 DEF WriteInv, Sent
<1>14. JobInv'
  <2>1. \A k \in Handlers : pc'[k] \in Posting => pc'[k] = pc[k]
    BY <1>8 DEF Posting
  <2>2. /\ \A r \in ToSet(queue) : Id(r) \in Trans
        /\ wpc = "result" => Id(wslot) \in Trans
    BY DEF JobInv, TypeOK
  <2> QED BY <1>1, <1>7, <1>9, <1>10, <2>1, <2>2 DEF JobInv, Stamped
<1>15. DocInv'
  BY <1>1, <1>7, <1>9, <1>10, <1>11 DEF DocInv, Stamped, TypeOK
<1> QED BY <1>5, <1>6, <1>12, <1>13, <1>14, <1>15

\* transaction_delete_one_by_oid.
LEMMA DeleteStep ==
  ASSUME IInv, NEW t \in Trans, Delete(t)
  PROVE  IInv'
<1> USE DEF IInv
<1>1. /\ db[t] # Missing /\ db' = [db EXCEPT ![t] = Missing] /\ removed' = removed \cup {t}
      /\ UNCHANGED <<main, toLoad, pc, slot, wpc, wslot, queue, mem, pool, list,
                     used, sent, born, stamped, done, clashed>>
  BY DEF Delete, handlerVars, workerVars
<1>2. /\ t \in used /\ db'[t] = Missing
      /\ \A u \in Trans : u # t => db'[u] = db[u]
  BY <1>1 DEF TypeOK, ContentInv, DocInv
<1>3. TypeOK'
  BY <1>1, <1>2 DEF TypeOK
<1>4. OwnInv'
  BY <1>1 DEF TypeOK, OwnInv
<1>5. /\ \A s : Id(s)' = Id(s)
      /\ \A u \in Trans : Stamped(u) => Stamped(u)'
  BY <1>1, <1>2 DEF Id, Stamped
<1>6. Reached' = Reached
  BY <1>1 DEF Reached
<1> USE DEF ContentInv
<1>7. PostInv'
  <2>1. \A k \in Handlers : pc[k] \in Posting => Id(slot[k]) \in Trans
    BY DEF PostInv, TypeOK
  <2>2. \A k \in Handlers : pc[k] = "insert" =>
          db'[Id(slot[k])] = Missing /\ Id(slot[k]) \notin removed' \cup clashed \cup stamped
    BY <1>1, <1>2, <2>1 DEF PostInv, Posting
  <2> QED BY <1>1, <1>5, <1>6, <2>2 DEF PostInv
<1>8. WriteInv'
  BY <1>1, <1>2, <1>5 DEF WriteInv, Sent, Copied, TypeOK
<1>9. JobInv'
  BY <1>1, <1>2, <1>5, <1>6 DEF JobInv, Stamped, TypeOK
<1>10. DocInv'
  BY <1>1, <1>2, <1>5, <1>6 DEF DocInv, Sent, TypeOK
<1> QED BY <1>3, <1>4, <1>7, <1>8, <1>9, <1>10

-----------------------------------------------------------------------------
(***************************************************************************)
(* The worker thread and the start.                                        *)
(***************************************************************************)

\* worker_handler_method: the first job leaves the queue and the list.
LEMMA WorkStep ==
  ASSUME IInv, Work
  PROVE  IInv'
<1> USE DEF IInv
<1> DEFINE s == Head(queue)
           t == Id(s)
<1>1. /\ wpc = "wait" /\ wpc' = "result" /\ queue # <<>>
      /\ wslot' = s /\ queue' = Tail(queue) /\ list' = list \ {t}
      /\ mem' = [mem EXCEPT ![s].result = Hash(t, mem[s].date)]
      /\ UNCHANGED <<main, toLoad, pc, slot, pool, db, used, sent, born, removed,
                     stamped, done, clashed>>
  BY DEF Work, WorkerMoves, handlerVars, Id
<1>2. /\ s \in Slots /\ s \in ToSet(queue) /\ queue' \in Seq(Slots)
      /\ ToSet(queue) = ToSet(queue') \cup {s} /\ NoRepeats(queue', NoSlot)
      /\ s \notin ToSet(queue')
  <2>1. queue \in Seq(Slots) /\ NoRepeats(queue, NoSlot) /\ queue # <<>>
    BY <1>1 DEF TypeOK, OwnInv
  <2>2. \A r \in Slots : r # NoSlot
    BY NoneAssumption
  <2> QED BY <1>1, <2>1, <2>2, TailOf
<1> HIDE DEF s
<1>3. /\ t \in used \ (toLoad \cup done) /\ t \in Trans
      /\ mem[s].date = born[t] /\ mem[s].date \in Dates
      /\ \A h \in Handlers : pc[h] \in Posting => Id(slot[h]) # t
      /\ \A r \in ToSet(queue') : Id(r) # t
  BY <1>2 DEF ContentInv, JobInv, TypeOK
<1>4. /\ mem'[s] \in Object /\ mem'[s].id = t
      /\ mem'[s].result = Hash(t, born[t])
      /\ \A r \in Slots : r # s => mem'[r] = mem[r]
  <2>1. mem[s] \in Object /\ Hash(t, mem[s].date) \in Outcomes
    BY <1>2, <1>3 DEF TypeOK, Outcomes
  <2> QED BY <1>1, <1>2, <1>3, <2>1 DEF TypeOK, Object, Id
<1>5. TypeOK'
  <2>1. mem' \in [Slots -> Object]
    BY <1>1, <1>4 DEF TypeOK
  <2> QED BY <1>1, <1>2, <2>1 DEF TypeOK
<1>6. /\ s \in Slots \ pool /\ s # NoSlot
      /\ \A h \in Handlers : pc[h] # "idle" => slot[h] # s /\ mem'[slot[h]] = mem[slot[h]]
      /\ \A r \in ToSet(queue') : mem'[r] = mem[r]
  BY <1>2, <1>4, NoneAssumption DEF TypeOK, OwnInv
<1>7. OwnInv'
  BY <1>1, <1>2, <1>4, <1>6 DEF OwnInv, TypeOK
<1>8. /\ \A h \in Handlers : pc[h] # "idle" => Id(slot[h])' = Id(slot[h])
      /\ \A r \in ToSet(queue') : Id(r)' = Id(r)
      /\ Id(wslot)' = t
  BY <1>1, <1>4, <1>6 DEF Id
<1>9. Reached' \subseteq Reached /\ t \notin Reached'
  BY <1>1, <1>3 DEF Reached
<1>10. db' = db /\ sent' = sent /\ born' = born /\ pc' = pc /\ slot' = slot
  BY <1>1
<1> HIDE DEF t
<1> USE DEF ContentInv
<1>11. PostInv'
  <2>1. \A k \in Handlers : pc[k] \in Posting =>
          Id(slot[k])' = Id(slot[k]) /\ mem'[slot[k]] = mem[slot[k]]
    BY <1>6, <1>8 DEF Posting
  <2>2. \A k \in Handlers : pc[k] = "insert" =>
          Id(slot[k])' = Id(slot[k]) /\ mem'[slot[k]] = mem[slot[k]]
    BY <2>1 DEF Posting
  <2>3. UNCHANGED <<pc, slot, db, used, sent, born, removed, stamped, clashed>>
    BY <1>1
  <2> QED BY <1>9, <2>1, <2>2, <2>3 DEF PostInv
<1>12. WriteInv'
  <2>1. \A k \in Handlers : pc[k] \in {"insert", "write"} =>
          Id(slot[k])' = Id(slot[k]) /\ mem'[slot[k]] = mem[slot[k]]
    BY <1>6, <1>8
  <2> QED BY <1>1, <2>1 DEF WriteInv, Sent, Copied
<1>13. JobInv'
  <2>1. \A k \in Handlers : pc[k] \in Posting => Id(slot[k])' = Id(slot[k])
    BY <1>8 DEF Posting
  <2>2. /\ mem'[wslot'].result = Hash(t, born[t]) /\ wpc' = "result"
        /\ t \in used \ Reached'
    BY <1>1, <1>3, <1>4, <1>9
  <2> QED BY <1>1, <1>2, <1>3, <1>6, <1>8, <1>10, <2>1, <2>2 DEF JobInv, Stamped
<1>14. DocInv'
  BY <1>1, <1>9 DEF DocInv, Sent, Stamped
<1> QED BY <1>5, <1>7, <1>11, <1>12, <1>13, <1>14

\* transaction_update_result.
LEMMA StoreResultStep ==
  ASSUME IInv, StoreResult, done' # done
  PROVE  IInv'
<1> USE DEF IInv
<1> DEFINE o == mem[wslot]
           t == Id(wslot)
           d == [db[t] EXCEPT !.result = o.result]
<1>1. /\ wpc = "result" /\ wpc' = "return"
      /\ db' = IF db[t] = Missing THEN db ELSE [db EXCEPT ![t] = d]
      /\ done' = done \cup {t}
      /\ UNCHANGED <<main, toLoad, pc, slot, wslot, queue, mem, pool, list, used, sent,
                     born, removed, stamped, clashed>>
  BY DEF StoreResult, WorkerMoves, handlerVars, Id, UpdateOne
<1>2. /\ o \in Object /\ t \in Trans /\ t \in used \ Reached
      /\ o.result = Hash(t, born[t])
      /\ db[t] # Missing => db[t] \in Document
      /\ \A k \in Handlers : pc[k] \in Posting => Id(slot[k]) # t
      /\ \A r \in ToSet(queue) : Id(r) # t
  BY <1>1 DEF TypeOK, OwnInv, ContentInv, JobInv
<1>3. db[t] # Missing =>
        /\ d \in Document /\ d.title = db[t].title /\ d.description = db[t].description
        /\ d.amount = db[t].amount /\ d.date = db[t].date /\ d.result = o.result
        /\ d.worker_time = db[t].worker_time
  BY <1>2, StampData
<1>4. \/ db[t] # Missing /\ db' = [db EXCEPT ![t] = d]
      \/ db[t] = Missing /\ db' = db
  BY <1>1
<1> HIDE DEF d, o
<1>5. TypeOK'
  BY <1>1, <1>2, <1>3, <1>4 DEF TypeOK
<1>6. OwnInv'
  BY <1>1 DEF TypeOK, OwnInv
<1> HIDE DEF t
<1>7. /\ \A u \in Trans :
           /\ db'[u] = Missing <=> db[u] = Missing
           /\ u # t => db'[u] = db[u]
           /\ db[u] # Missing =>
                /\ db'[u].title = db[u].title /\ db'[u].description = db[u].description
                /\ db'[u].amount = db[u].amount /\ db'[u].date = db[u].date
                /\ db'[u].worker_time = db[u].worker_time
      /\ db[t] # Missing => db'[t].result = Hash(t, born[t])
  BY <1>2, <1>3, <1>4, NoMissing DEF TypeOK
<1>8. /\ \A s : Id(s)' = Id(s) /\ mem'[s] = mem[s]
      /\ \A u \in Trans : Stamped(u)' <=> Stamped(u)
  BY <1>1, <1>7 DEF Id, Stamped
<1>9. Reached' = Reached \cup {t} /\ t \notin list \cup toLoad \cup done
  BY <1>1, <1>2 DEF Reached
<1> USE DEF ContentInv
<1>10. PostInv'
  <2>1. \A k \in Handlers : pc[k] \in Posting => Id(slot[k]) \in Trans /\ Id(slot[k]) # t
    BY <1>2 DEF PostInv, TypeOK
  <2>3. \A k \in Handlers : pc[k] = "insert" => db'[Id(slot[k])] = Missing
    BY <1>7, <2>1 DEF PostInv, Posting
  <2> QED BY <1>1, <1>8, <1>9, <2>1, <2>3 DEF PostInv
<1>11. WriteInv'
  BY <1>1, <1>7, <1>8 DEF WriteInv, Sent, Copied, TypeOK
<1>12. JobInv'
  <2>1. \A r \in ToSet(queue) : Id(r) \in Trans
    BY DEF JobInv, TypeOK
  <2> QED BY <1>1, <1>2, <1>7, <1>8, <1>9, <2>1 DEF JobInv, Stamped
<1>13. DocInv'
  <2>1. \A u \in Trans : db'[u] # Missing =>
          /\ u \in used \ removed /\ Sent(u, db[u])' /\ born[u] \in Dates
          /\ db'[u].date = born[u] * 1000
    BY <1>1, <1>7 DEF DocInv, Sent
  <2>2. \A u \in Trans : db'[u] # Missing =>
          db'[u].result = IF u \in done' THEN Hash(u, born[u]) ELSE Empty
    BY <1>1, <1>7 DEF DocInv
  <2>3. Reached' \subseteq used /\ \A u \in Trans : Stamped(u)'
    BY <1>2, <1>8, <1>9 DEF DocInv, TypeOK
  <2>4. (list' \cup toLoad') \cap done' = {}
    BY <1>1, <1>9 DEF DocInv
  <2> QED BY <1>1, <2>1, <2>2, <2>3, <2>4 DEF DocInv
<1> QED BY <1>5, <1>6, <1>10, <1>11, <1>12, <1>13

\* The write fails: nothing but the place of the worker changes.
LEMMA StoreResultFailsStep ==
  ASSUME IInv, StoreResult, done' = done
  PROVE  IInv'
<1> USE DEF IInv
<1>1. /\ wpc = "result" /\ wpc' = "return"
      /\ UNCHANGED <<main, toLoad, pc, slot, wslot, queue, mem, pool, list, used, sent,
                     born, removed, stamped, done, clashed>>
  BY DEF StoreResult, WorkerMoves, handlerVars
<1>2. db' = db
  <2>1. Id(wslot) \notin done
    BY <1>1 DEF ContentInv, JobInv, Reached
  <2> QED BY <2>1 DEF StoreResult, Id
<1>3. TypeOK'
  BY <1>1, <1>2 DEF StoreResult, WorkerMoves, TypeOK
<1>4. OwnInv'
  BY <1>1, <1>2 DEF TypeOK, OwnInv
<1>5. ContentInv'
  BY <1>1, <1>2, HandsKept DEF historyVars
<1> QED BY <1>3, <1>4, <1>5

\* backup_fetch_current_trans_in_worker_queue: the list is read ...
LEMMA StartStep ==
  ASSUME IInv, Start
  PROVE  IInv'
<1> USE DEF IInv
<1>1. /\ main = "down" /\ main' = "load" /\ toLoad' = list
      /\ UNCHANGED <<pc, slot, wpc, wslot, queue, mem, pool, list, db, used, sent, born,
                     removed, stamped, done, clashed>>
  BY DEF Start, MainMoves, handlerVars, workerVars, historyVars
<1>2. TypeOK' /\ OwnInv'
  BY <1>1 DEF TypeOK, OwnInv
<1>3. /\ \A h \in Handlers : pc[h] = "idle"
      /\ wpc = "wait" /\ queue = <<>> /\ toLoad = {}
  BY <1>1 DEF OwnInv
<1>4. ToSet(queue) = {} /\ queue' = queue /\ Reached' = Reached
  BY <1>1, <1>3 DEF ToSet, Reached
<1>5. PostInv' /\ WriteInv' /\ JobInv'
  BY <1>1, <1>3, <1>4 DEF PostInv, WriteInv, JobInv, Posting
<1>6. DocInv'
  BY <1>1, <1>4 DEF ContentInv, DocInv, Stamped, Sent
<1> QED BY <1>2, <1>5, <1>6 DEF ContentInv

\* ... and a job is made of each document that it names.
LEMMA LoadStep ==
  ASSUME IInv, Load
  PROVE  IInv'
<1> USE DEF IInv
<1>1. PICK t \in toLoad :
        /\ toLoad' = toLoad \ {t}
        /\ \/ /\ db[t] # Missing
              /\ \E s \in pool :
                   /\ mem' = [mem EXCEPT ![s] = FromDoc(t, mem[s], db[t])]
                   /\ pool' = pool \ {s} /\ queue' = Append(queue, s)
           \/ db[t] = Missing /\ UNCHANGED <<queue, mem, pool>>
  BY DEF Load
<1>2. /\ main = "load" /\ main' = "load"
      /\ UNCHANGED <<pc, slot, wpc, wslot, list, db, used, sent, born, removed, stamped, done, clashed>>
  BY DEF Load, MainMoves, handlerVars, workerVars, historyVars
<1>3. \A h \in Handlers : pc[h] = "idle"
  BY <1>2 DEF OwnInv
<1>4. ASSUME UNCHANGED <<queue, mem, pool>>
      PROVE  IInv'
  <2>1. TypeOK' /\ OwnInv'
    BY <1>1, <1>2, <1>4 DEF TypeOK, OwnInv
  <2> QED BY <1>1, <1>2, <1>4, <2>1, QuietStep DEF historyVars
<1>5. ASSUME db[t] # Missing, NEW s \in pool,
             mem' = [mem EXCEPT ![s] = FromDoc(t, mem[s], db[t])],
             pool' = pool \ {s}, queue' = Append(queue, s)
      PROVE  IInv'
  <2>1. /\ s \in Slots /\ s # NoSlot /\ mem[s] \in Object /\ s \notin ToSet(queue)
        /\ s # wslot /\ queue \in Seq(Slots) /\ NoRepeats(queue, NoSlot)
    BY NoneAssumption DEF TypeOK, OwnInv
  <2>2. /\ t \in Trans /\ t \in used /\ t \notin done /\ Stamped(t)
        /\ db[t] \in Document /\ born[t] \in Dates /\ db[t].date = born[t] * 1000
    BY <1>5 DEF TypeOK, ContentInv, DocInv, Reached
  <2> DEFINE o == FromDoc(t, mem[s], db[t])
  <2>3. /\ o \in Object /\ o.id = t /\ o.date \in Dates /\ o.date * 1000 = born[t] * 1000
    BY <2>1, <2>2, FromDocData
  <2>4. o.date = born[t]
    <3> HIDE DEF o
    <3>1. \A date \in Dates : date \in Nat
      BY DatesAssumption
    <3>2. o.date \in Nat /\ born[t] \in Nat
      BY <2>2, <2>3, <3>1
    <3> QED BY <2>3, <3>2
  <2>5. mem' = [mem EXCEPT ![s] = o]
    BY <1>5
  <2> HIDE DEF o
  <2>6. /\ queue' \in Seq(Slots) /\ ToSet(queue') = ToSet(queue) \cup {s}
        /\ NoRepeats(queue', NoSlot)
    BY <1>5, <2>1, ToSetAppend, AppendNoRepeats, AppendProperties
  <2>7. TypeOK'
    BY <1>1, <1>2, <1>5, <2>3, <2>5, <2>6 DEF TypeOK
  <2>8. /\ mem'[s] = o /\ \A r \in Slots : r # s => mem'[r] = mem[r]
        /\ \A r \in ToSet(queue) : r \in Slots /\ r # s /\ mem'[r] = mem[r] /\ Id(r)' = Id(r)
        /\ Id(s)' = t
    BY <2>1, <2>3, <2>5 DEF TypeOK, OwnInv, Id
  <2>9. OwnInv'
    BY <1>2, <1>3, <1>5, <2>1, <2>6, <2>8 DEF OwnInv, TypeOK
  <2>10. /\ wpc # "wait" => wslot \in Slots /\ wslot # s /\ mem'[wslot] = mem[wslot]
                            /\ Id(wslot)' = Id(wslot)
    BY <1>2, <2>1, <2>8 DEF OwnInv, TypeOK, Id
  <2>11. Reached' \subseteq Reached /\ t \notin toLoad'
    BY <1>1, <1>2 DEF Reached
  <2>12. \A u : Stamped(u)' = Stamped(u)
    BY <1>2, Zenon DEF Stamped
  <2> USE DEF ContentInv
  <2>13. PostInv' /\ WriteInv'
    BY <1>2, <1>3 DEF PostInv, WriteInv, Posting
  <2>14. JobInv'
    <3>1. /\ \A r \in ToSet(queue) : Id(r) # t
          /\ wpc = "result" => Id(wslot) # t
      BY DEF JobInv, Reached
    <3>2. \A h \in Handlers : pc'[h] \notin Posting
      BY <1>2, <1>3 DEF Posting
    <3> QED BY <1>1, <1>2, <2>2, <2>3, <2>4, <2>6, <2>8, <2>10, <2>11, <2>12, <3>1, <3>2
              DEF JobInv, Stamped
  <2>15. DocInv'
    BY <1>1, <1>2, <2>11, <2>12 DEF DocInv, Sent, Stamped
  <2> QED BY <2>7, <2>9, <2>13, <2>14, <2>15
<1> QED BY <1>1, <1>4, <1>5

\* The cerver starts.
LEMMA ServeStep ==
  ASSUME IInv, Serve
  PROVE  IInv'
<1> USE DEF IInv
<1>1. /\ main = "load" /\ main' = "up" /\ toLoad = {}
      /\ UNCHANGED <<toLoad, pc, slot, wpc, wslot, queue, mem, pool, list, db, historyVars>>
  BY DEF Serve, MainMoves, handlerVars, workerVars
<1>2. TypeOK' /\ OwnInv'
  BY <1>1 DEF TypeOK, OwnInv, historyVars
<1> QED BY <1>1, <1>2, QuietStep

-----------------------------------------------------------------------------
(***************************************************************************)
(* The invariant.                                                          *)
(***************************************************************************)

LEMMA InitInv == Init => IInv
<1> SUFFICES ASSUME Init
             PROVE  IInv
  OBVIOUS
<1>1. queue \in Seq(Slots) /\ ToSet(queue) = {} /\ NoRepeats(queue, NoSlot)
  BY DEF Init, ToSet, NoRepeats
<1>2. TypeOK
  BY <1>1, BlankData DEF Init, TypeOK
<1>3. OwnInv
  BY <1>1 DEF Init, OwnInv
<1>4. ContentInv
  BY <1>1 DEF Init, ContentInv, PostInv, WriteInv, JobInv, DocInv, Posting, Reached, Stamped
<1> QED BY <1>2, <1>3, <1>4 DEF IInv

\* A step that changes nothing.
LEMMA StutterInv ==
  ASSUME IInv, UNCHANGED vars
  PROVE  IInv'
<1> USE DEF IInv
<1>1. UNCHANGED <<main, toLoad, pc, slot, wpc, wslot, queue, mem, pool, list, db, historyVars>>
  BY DEF vars, handlerVars, workerVars
<1>2. TypeOK' /\ OwnInv'
  BY <1>1 DEF TypeOK, OwnInv, historyVars
<1> QED BY <1>1, <1>2, QuietStep

LEMMA NextInv == IInv /\ [Next]_vars => IInv'
<1> SUFFICES ASSUME IInv, [Next]_vars
             PROVE  IInv'
  OBVIOUS
<1>1. ASSUME NEW h \in Handlers, HandlerStep(h)
      PROVE  IInv'
  BY <1>1, CreateStep, InsertStep, InsertFailsStep, StampStep, PushStep, FindStep,
     WriteStep, ReturnStep DEF HandlerStep
<1>2. CASE WorkerStep
  BY <1>2, WorkStep, StoreResultStep, StoreResultFailsStep, GiveBackStep DEF WorkerStep
<1>3. CASE MainStep
  BY <1>3, StartStep, LoadStep, ServeStep DEF MainStep
<1> QED BY <1>1, <1>2, <1>3, DeleteStep, CrashStep, StutterInv DEF Next

\* In every reachable state the invariant holds.
THEOREM ContentInvariant == Spec => []IInv
BY InitInv, NextInv, PTL DEF Spec

\* The variables have the types of transaction.h and of transaction_to_bson.
THEOREM TypeCorrect == Spec => []TypeOK
<1>1. IInv => TypeOK
  BY DEF IInv
<1> QED BY <1>1, ContentInvariant, PTL

\* What is in a document was sent for that transaction: pooled objects carry
\* nothing from one transaction to another.
THEOREM NoForeignDataCorrect == Spec => []NoForeignData
<1>1. IInv => NoForeignData
  BY DEF IInv, ContentInv, DocInv, Sent, NoForeignData
<1> QED BY <1>1, ContentInvariant, PTL

\* Neither a PUT nor the worker brings back a document that a DELETE removed.
THEOREM RemovedStaysRemovedCorrect == Spec => []RemovedStaysRemoved
<1>1. IInv => RemovedStaysRemoved
  BY DEF IInv, TypeOK, ContentInv, DocInv, RemovedStaysRemoved
<1> QED BY <1>1, ContentInvariant, PTL

\* The worker's result is that of the transaction and its date, also after the
\* date has been through Mongo.
THEOREM ResultOfTransactionCorrect == Spec => []ResultOfTransaction
<1>1. IInv => ResultOfTransaction
  BY DEF IInv, ContentInv, DocInv, ResultOfTransaction
<1> QED BY <1>1, ContentInvariant, PTL

\* PUTs do not overwrite the result and the worker time that were written.
THEOREM WorkSurvivesUpdatesCorrect == Spec => []WorkSurvivesUpdates
<1>1. ASSUME IInv
      PROVE  WorkSurvivesUpdates
  <2>1. \A t \in Trans, date \in Dates : Hash(t, date) # Empty
    BY HashAssumption
  <2>2. \A t \in Trans : db[t] # Missing =>
          /\ born[t] \in Dates
          /\ db[t].result = IF t \in done THEN Hash(t, born[t]) ELSE Empty
    BY <1>1 DEF IInv, ContentInv, DocInv
  <2>3. \A t \in Trans : Stamped(t)
    BY <1>1 DEF IInv, ContentInv, DocInv
  <2> QED BY <2>1, <2>2, <2>3 DEF WorkSurvivesUpdates, Stamped
<1> QED BY <1>1, ContentInvariant, PTL

-----------------------------------------------------------------------------
(***************************************************************************)
(* The service implements the abstract store.                              *)
(***************************************************************************)

\* The document is that of DocumentStore, where one is promised.
Record(d) == [title  |-> d.title,  description |-> d.description,
              amount |-> d.amount, date        |-> d.date, result |-> d.result]

LEMMA RecordData ==
  ASSUME NEW d \in Document
  PROVE  /\ Record(d).title = d.title /\ Record(d).description = d.description
         /\ Record(d).amount = d.amount /\ Record(d).date = d.date
         /\ Record(d).result = d.result
         /\ Record(d) \notin {Missing, Removed, Unspecified}
<1>1. Record(d) \in Shown
  BY DEF Record, Document, Shown
<1>2. Missing \notin Shown /\ Removed \notin Shown /\ Unspecified \notin Shown
  BY MarksAssumption
<1> QED BY <1>1, <1>2 DEF Record

\* What the store has of a transaction.
LEMMA StoredData ==
  ASSUME IInv, NEW t \in Trans
  PROVE  /\ db[t] = Missing => Stored(t) = IF t \in removed THEN Removed ELSE Missing
         /\ db[t] # Missing =>
              /\ db[t] \in Document /\ t \notin removed
              /\ t \in clashed => Stored(t) = Unspecified
              /\ t \notin clashed => Stored(t) = Record(db[t])
<1>1. db[t] # Missing => t \notin removed /\ db[t] \in Document
  BY DEF IInv, TypeOK, ContentInv, DocInv
<1> QED BY <1>1 DEF Stored, Record

\* A step that changes neither documents nor marks.
LEMMA StoreKept ==
  ASSUME UNCHANGED <<db, removed, clashed>>
  PROVE  Store' = Store
BY DEF Store, Stored

\* transaction_insert_one creates.
LEMMA InsertCreates ==
  ASSUME IInv, NEW h \in Handlers, Insert(h)
  PROVE  Abstract!Next
<1> USE DEF IInv
<1> DEFINE o == mem[slot[h]]
           t == Id(slot[h])
<1>1. /\ pc[h] = "insert" /\ db' = [db EXCEPT ![t] = ToDoc(o)]
      /\ UNCHANGED <<removed, clashed>>
  BY DEF Insert, Moves, Id
<1>2. /\ o \in Object /\ t \in Trans /\ o.date \in Dates /\ o.result = Empty
      /\ db[t] = Missing /\ t \notin removed \cup clashed
  BY <1>1 DEF TypeOK, OwnInv, ContentInv, PostInv, Posting, Id
<1>3. PICK body \in Bodies :
        /\ body.title # NotGiven /\ o.title = body.title
        /\ o.description = Given(body.description, Empty) /\ o.amount = body.amount
  BY <1>1 DEF ContentInv, PostInv
<1>4. o.title \in Texts
  BY <1>3, BodiesAssumption DEF Body
<1> DEFINE d == ToDoc(o)
<1>5. /\ d \in Document /\ d.title = o.title /\ d.description = o.description
      /\ d.amount = o.amount /\ d.date = o.date * 1000 /\ d.result = o.result
  BY <1>2, <1>4, ToDocData
<1>6. o.date * 1000 \in {date * 1000 : date \in Dates}
  BY <1>2
<1> HIDE DEF d, o, t
<1>7. db'[t] = d /\ \A u \in Trans : u # t => db'[u] = db[u]
  BY <1>1, <1>2 DEF TypeOK, d
<1>8. d # Missing
  BY <1>5, NoMissing
<1>9. \A u \in Trans : u # t => Stored(u)' = Stored(u)
  BY <1>1, <1>7 DEF Stored
<1>10. \A u \in Trans : u = t => Stored(u)' = Record(d)
  BY <1>1, <1>2, <1>7, <1>8 DEF Stored, Record
<1>11. Stored(t) = Missing
  BY <1>2 DEF Stored
<1>12. Record(d) = [title |-> body.title, description |-> Given(body.description, Empty),
                    amount |-> body.amount, date |-> o.date * 1000, result |-> Empty]
  BY <1>2, <1>3, <1>5 DEF Record
<1>13. Store[t] = Missing /\ Store' = [Store EXCEPT ![t] = Record(d)]
  BY <1>2, <1>9, <1>10, <1>11 DEF Store
<1>14. Abstract!Create(t, body, o.date * 1000)
  BY <1>3, <1>12, <1>13 DEF Abstract!Create, Abstract!Given, Given
<1> QED BY <1>2, <1>6, <1>14 DEF Abstract!Next

\* transaction_update_worker_time changes nothing that clients see.
LEMMA StampKeeps ==
  ASSUME IInv, NEW h \in Handlers, Stamp(h)
  PROVE  Store' = Store
<1> DEFINE t == Id(slot[h])
           d == [db[t] EXCEPT !.worker_time = 1]
<1>1. /\ \/ db' = IF db[t] = Missing THEN db ELSE [db EXCEPT ![t] = d]
         \/ db' = db
      /\ UNCHANGED <<removed, clashed>>
  BY DEF Stamp, Moves, Id, UpdateOne
<1>2. db \in [Trans -> Document \cup {Missing}] /\ mem \in [Slots -> Object]
  BY DEF IInv, TypeOK
<1>3. db[t] # Missing /\ t \in Trans =>
        /\ d \in Document /\ d.title = db[t].title /\ d.description = db[t].description
        /\ d.amount = db[t].amount /\ d.date = db[t].date /\ d.result = db[t].result
  <2>1. Blank \in Object
    BY BlankData
  <2> QED BY <1>2, <2>1, StampData
<1> HIDE DEF d, t
<1>4. \A u \in Trans : u # t \/ db[t] = Missing => db'[u] = db[u]
  BY <1>1, <1>2
<1>5. db[t] # Missing /\ t \in Trans => db'[t] \in {d, db[t]} /\ d # Missing
  BY <1>1, <1>2, <1>3, NoMissing
<1>6. ASSUME NEW u \in Trans
      PROVE  Stored(u)' = Stored(u)
  BY <1>1, <1>3, <1>4, <1>5 DEF Stored
<1> QED BY <1>6 DEF Store

\* service_trans_update may find that another PUT is on its way.
LEMMA FindClashes ==
  ASSUME IInv, NEW h \in Handlers, Find(h)
  PROVE  Abstract!Next \/ Store' = Store
<1>1. UNCHANGED <<db, removed>>
  BY DEF Find, Moves
<1>2. PICK t \in used : db[t] # Missing /\ clashed' \in {clashed, clashed \cup {t}}
  BY DEF Find
<1>3. CASE t \in clashed \/ clashed' = clashed
  <2>1. clashed' = clashed
    BY <1>2, <1>3
  <2> QED BY <1>1, <2>1, StoreKept
<1>4. CASE t \notin clashed /\ clashed' = clashed \cup {t}
  <2>1. t \in Trans
    BY <1>2 DEF IInv, TypeOK
  <2>2. Stored(t) = Record(db[t]) /\ t \notin removed /\ db[t] \in Document
    BY <1>2, <1>4, <2>1, StoredData
  <2>3. Stored(t)' = Unspecified
    BY <1>1, <1>2, <1>4, <2>2 DEF Stored
  <2>4. \A u \in Trans : u # t => Stored(u)' = Stored(u)
    BY <1>1, <1>4 DEF Stored
  <2>5. Store[t] = Stored(t) /\ Store' = [Store EXCEPT ![t] = Unspecified]
    BY <2>1, <2>3, <2>4 DEF Store
  <2>6. Abstract!Clash(t)
    BY <2>2, <2>5, RecordData DEF Abstract!Clash, Abstract!Known
  <2> QED BY <2>1, <2>6 DEF Abstract!Next
<1> QED BY <1>2, <1>3, <1>4

\* transaction_update_one updates, as one step although the document was read
\* before.
LEMMA WriteUpdates ==
  ASSUME IInv, NEW h \in Handlers, Write(h)
  PROVE  Abstract!Next \/ Store' = Store
<1> USE DEF IInv
<1> DEFINE o == mem[slot[h]]
           t == Id(slot[h])
           d == UpdateFields(o, db[t])
<1>1. /\ pc[h] = "write"
      /\ \/ db' = IF db[t] = Missing THEN db ELSE [db EXCEPT ![t] = d]
         \/ db' = db
      /\ UNCHANGED <<removed, clashed>>
  BY DEF Write, Moves, Id, UpdateOne
<1>2. /\ o \in Object /\ t \in Trans /\ o.title \in Texts
      /\ t \notin clashed => Copied(t, o)
      /\ db[t] # Missing => db[t] \in Document
  BY <1>1 DEF TypeOK, OwnInv, ContentInv, WriteInv, Id
<1>3. db[t] # Missing =>
        /\ d \in Document /\ d.title = o.title /\ d.description = o.description
        /\ d.amount = o.amount /\ d.date = db[t].date /\ d.result = db[t].result
  BY <1>2, UpdateData
<1>4. db \in [Trans -> Document \cup {Missing}]
  BY DEF TypeOK
<1> HIDE DEF d, o, t
<1>5. CASE db' = db
  BY <1>1, <1>5, StoreKept
<1>6. CASE db[t] # Missing /\ db' = [db EXCEPT ![t] = d]
  <2>1. db'[t] = d /\ d # Missing /\ \A u \in Trans : u # t => db'[u] = db[u]
    BY <1>2, <1>3, <1>4, <1>6, NoMissing
  <2>2. \A u \in Trans : u # t => Stored(u)' = Stored(u)
    BY <1>1, <2>1 DEF Stored
  <2>3. t \notin removed
    BY <1>2, <1>6, StoredData
  <2>4. CASE t \in clashed
    <3>1. \A u \in Trans : u = t => Stored(u)' = Stored(u)
      BY <1>1, <1>6, <2>1, <2>3, <2>4 DEF Stored
    <3> QED BY <2>2, <3>1 DEF Store
  <2>5. CASE t \notin clashed
    <3>1. PICK body \in Bodies :
            /\ o.title = Given(body.title, db[t].title)
            /\ o.description = Given(body.description, db[t].description)
            /\ o.amount = body.amount
      BY <1>2, <1>6, <2>5 DEF Copied
    <3>2. \A u \in Trans : u = t => Stored(u) = Record(db[t]) /\ Stored(u)' = Record(d)
      BY <1>1, <1>6, <2>1, <2>3, <2>5 DEF Stored, Record
    <3>3. Store[t] = Record(db[t]) /\ Store' = [Store EXCEPT ![t] = Record(d)]
      BY <1>2, <2>2, <3>2 DEF Store
    <3>4. Record(d) = [title       |-> Given(body.title, db[t].title),
                       description |-> Given(body.description, db[t].description),
                       amount      |-> body.amount,
                       date        |-> db[t].date, result |-> db[t].result]
      BY <1>3, <1>6, <3>1 DEF Record
    <3>5. Abstract!Known(t)
      BY <1>2, <1>6, <3>3, RecordData DEF Abstract!Known
    <3>6. /\ Store[t].title = db[t].title /\ Store[t].description = db[t].description
          /\ Store[t].date = db[t].date /\ Store[t].result = db[t].result
      BY <3>3 DEF Record
    <3>7. Abstract!Update(t, body)
      BY <3>3, <3>4, <3>5, <3>6 DEF Abstract!Update, Abstract!Given, Given
    <3> QED BY <1>2, <3>7 DEF Abstract!Next
  <2> QED BY <2>4, <2>5
<1> QED BY <1>1, <1>5, <1>6

\* transaction_delete_one_by_oid removes.
LEMMA DeleteRemoves ==
  ASSUME IInv, NEW t \in Trans, Delete(t)
  PROVE  Abstract!Next
<1>1. /\ db[t] # Missing /\ db' = [db EXCEPT ![t] = Missing] /\ removed' = removed \cup {t}
      /\ clashed' = clashed
  BY DEF Delete
<1>2. \A u \in Trans : u # t => Stored(u)' = Stored(u)
  BY <1>1 DEF IInv, TypeOK, Stored
<1>3. Stored(t)' = Removed
  BY <1>1 DEF Stored
<1>4. Store[t] = Stored(t) /\ Store' = [Store EXCEPT ![t] = Removed]
  BY <1>2, <1>3 DEF Store
<1>5. Stored(t) = Unspecified \/ Stored(t) \notin {Missing, Removed, Unspecified}
  BY <1>1, StoredData, RecordData
<1>6. Abstract!Remove(t)
  BY <1>4, <1>5 DEF Abstract!Remove, Abstract!Known
<1> QED BY <1>6 DEF Abstract!Next

\* transaction_update_result completes.
LEMMA StoreResultCompletes ==
  ASSUME IInv, StoreResult
  PROVE  Abstract!Next \/ Store' = Store
<1>0. SUFFICES ASSUME db' # db
               PROVE  Abstract!Next \/ Store' = Store
  BY StoreKept DEF StoreResult, WorkerMoves
<1> USE DEF IInv
<1> DEFINE o == mem[wslot]
           t == Id(wslot)
           d == [db[t] EXCEPT !.result = o.result]
<1>1. /\ wpc = "result"
      /\ db' = IF db[t] = Missing THEN db ELSE [db EXCEPT ![t] = d]
      /\ UNCHANGED <<removed, clashed>>
  BY <1>0 DEF StoreResult, WorkerMoves, Id, UpdateOne
<1>2. /\ o \in Object /\ t \in Trans /\ t \notin done
      /\ o.result = Hash(t, born[t]) /\ born[t] \in Dates
  BY <1>1 DEF TypeOK, OwnInv, ContentInv, JobInv, Reached
<1>3. db[t] # Missing =>
        /\ db[t] \in Document /\ db[t].date = born[t] * 1000 /\ db[t].result = Empty
  BY <1>2 DEF TypeOK, ContentInv, DocInv
<1>4. db[t] # Missing =>
        /\ d \in Document /\ d.title = db[t].title /\ d.description = db[t].description
        /\ d.amount = db[t].amount /\ d.date = db[t].date /\ d.result = o.result
  <2> HIDE DEF o, t
  <2>1. SUFFICES ASSUME db[t] # Missing
                 PROVE  /\ d \in Document /\ d.title = db[t].title
                        /\ d.description = db[t].description /\ d.amount = db[t].amount
                        /\ d.date = db[t].date /\ d.result = o.result
    OBVIOUS
  <2>2. db[t] \in Document
    BY <1>3, <2>1
  <2> QED BY <1>2, <2>2, StampData, Zenon
<1>5. db \in [Trans -> Document \cup {Missing}]
  BY DEF TypeOK
<1> HIDE DEF d, o, t
<1>6. CASE db[t] = Missing
  BY <1>1, <1>6, StoreKept
<1>7. CASE db[t] # Missing
  <2>1. db'[t] = d /\ d # Missing /\ \A u \in Trans : u # t => db'[u] = db[u]
    BY <1>1, <1>2, <1>4, <1>5, <1>7, NoMissing
  <2>2. \A u \in Trans : u # t => Stored(u)' = Stored(u)
    BY <1>1, <2>1 DEF Stored
  <2>3. t \notin removed
    BY <1>2, <1>7, StoredData
  <2>4. CASE t \in clashed
    <3>1. \A u \in Trans : u = t => Stored(u)' = Stored(u)
      BY <1>1, <1>7, <2>1, <2>3, <2>4 DEF Stored
    <3> QED BY <2>2, <3>1 DEF Store
  <2>5. CASE t \notin clashed
    <3>1. \A u \in Trans : u = t => Stored(u) = Record(db[t]) /\ Stored(u)' = Record(d)
      BY <1>1, <1>7, <2>1, <2>3, <2>5 DEF Stored, Record
    <3>2. Store[t] = Record(db[t]) /\ Store' = [Store EXCEPT ![t] = Record(d)]
      BY <1>2, <2>2, <3>1 DEF Store
    <3>3. db[t].date \div 1000 = born[t]
      <4>1. \A date \in Dates : date \in Nat
        BY DatesAssumption
      <4> QED BY <1>2, <1>3, <1>7, <4>1
    <3>4. Record(d) = [Record(db[t]) EXCEPT !.result = Hash(t, born[t])]
      BY <1>2, <1>4, <1>7 DEF Record
    <3>5. Record(db[t]).result = Empty /\ Record(db[t]).date = db[t].date
      BY <1>3, <1>7, RecordData
    <3>6. Abstract!Known(t)
      BY <1>3, <1>7, <3>2, RecordData DEF Abstract!Known
    <3>7. Abstract!Complete(t)
      <4>1. Store[t].result = Empty /\ Store[t].date \div 1000 = born[t]
        BY <3>2, <3>3, <3>5
      <4>2. Store' = [Store EXCEPT ![t].result = Hash(t, born[t])]
        BY <3>2, <3>4
      <4>3. Hash(t, Store[t].date \div 1000) = Hash(t, born[t])
        BY <4>1
      <4>4. Store' = [Store EXCEPT ![t].result = Hash(t, Store[t].date \div 1000)]
        BY <4>2, <4>3
      <4> QED BY <3>6, <4>1, <4>4, Zenon DEF Abstract!Complete
    <3> QED BY <1>2, <3>7 DEF Abstract!Next
  <2> QED BY <2>4, <2>5
<1> QED BY <1>6, <1>7

LEMMA InitImplements == Init => Abstract!Init
BY DEF Init, Abstract!Init, Store, Stored

LEMMA NextImplements == IInv /\ [Next]_vars => [Abstract!Next]_Store
<1> SUFFICES ASSUME IInv, [Next]_vars
             PROVE  Abstract!Next \/ Store' = Store
  OBVIOUS
<1>1. ASSUME NEW h \in Handlers, Create(h) \/ InsertFails(h) \/ Push(h) \/ Return(h)
      PROVE  Store' = Store
  <2>1. UNCHANGED <<db, removed, clashed>>
    BY <1>1 DEF Create, InsertFails, Push, Return, Moves
  <2> QED BY <2>1, StoreKept
<1>2. ASSUME NEW h \in Handlers, HandlerStep(h)
      PROVE  Abstract!Next \/ Store' = Store
  BY <1>1, <1>2, InsertCreates, StampKeeps, FindClashes, WriteUpdates DEF HandlerStep
<1>3. ASSUME Work \/ GiveBack \/ MainStep \/ Crash \/ UNCHANGED vars
      PROVE  Store' = Store
  <2>1. UNCHANGED <<db, removed, clashed>>
    BY <1>3 DEF Work, GiveBack, WorkerMoves, MainStep, Start, Load, Serve, MainMoves, Crash,
                vars, historyVars
  <2> QED BY <2>1, StoreKept
<1>4. CASE WorkerStep
  BY <1>3, <1>4, StoreResultCompletes DEF WorkerStep
<1> QED BY <1>2, <1>3, <1>4, DeleteRemoves DEF Next

\* For clients the documents are those of DocumentStore: a POST, a PUT, a
\* DELETE and the worker's result are one step each, though objects, queue and
\* restarts are in between.
THEOREM Refinement == Spec => ImplementsDocumentStore
BY InitImplements, NextImplements, ContentInvariant, PTL
   DEF Spec, ImplementsDocumentStore, Abstract!Spec

=============================================================================
