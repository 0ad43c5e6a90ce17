---------------------------- MODULE DocumentStore ----------------------------
(***************************************************************************)
(* What the service promises of the transactions it stores: a transaction  *)
(* is created once, updates change what clients may change and nothing     *)
(* else, each as one step, the result of the work is stored once, and a    *)
(* transaction that was removed stays removed.  Of a transaction that is   *)
(* updated by two clients at a time it promises only the last.             *)
(***************************************************************************)
CONSTANTS
  Trans,            \* the ids of transactions
  Bodies,           \* what clients send
  NotGiven, Empty,  \* a field that a client left out; one without a value
  Absent, Removed,  \* there is no transaction yet, or no more
  Unspecified,      \* nothing is promised of what is there
  Dates,            \* when transactions may be created
  Result(_, _)      \* the result that belongs to a transaction and its date

VARIABLE doc        \* doc[t]: what the store has of transaction t

Known(t) == doc[t] \notin {Absent, Removed, Unspecified}

\* The value that a client gave, or the one that was there.
Given(value, old) == IF value = NotGiven THEN old ELSE value

Init == doc = [t \in Trans |-> Absent]

Create(t, body, date) ==
  /\ doc[t] = Absent /\ body.title # NotGiven
  /\ doc' = [doc EXCEPT ![t] = [title       |-> body.title,
                                description |-> Given(body.description, Empty),
                                amount      |-> body.amount,
                                date        |-> date,
                                result      |-> Empty]]

Update(t, body) ==
  /\ Known(t)
  /\ doc' = [doc EXCEPT ![t] = [title       |-> Given(body.title, @.title),
                                description |-> Given(body.description, @.description),
                                amount      |-> body.amount,
                                date        |-> @.date,
                                result      |-> @.result]]

Complete(t) ==
  /\ Known(t) /\ doc[t].result = Empty
  /\ doc' = [doc EXCEPT ![t].result = Result(t, doc[t].date)]

Remove(t) ==
  /\ Known(t) \/ doc[t] = Unspecified
  /\ doc' = [doc EXCEPT ![t] = Removed]

\* Two clients update the transaction at a time.
Clash(t) ==
  /\ Known(t)
  /\ doc' = [doc EXCEPT ![t] = Unspecified]

Next ==
  \E t \in Trans :
    \/ \E body \in Bodies, date \in Dates : Create(t, body, date)
    \/ \E body \in Bodies : Update(t, body)
    \/ Complete(t) \/ Remove(t) \/ Clash(t)

Spec == Init /\ [][Next]_doc

=============================================================================
