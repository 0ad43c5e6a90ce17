------------------------------ MODULE WorkQueue ------------------------------
(***************************************************************************)
(* What the service promises of the transactions it has listed: each is    *)
(* worked on at most once, and one that is taken is either finished or,    *)
(* when the process dies during the work, lost.  It does not promise an    *)
(* order, and it does not promise that a taken transaction survives.       *)
(***************************************************************************)
CONSTANTS Trans, None

VARIABLES
  pending,   \* accepted, nobody works on it
  current,   \* the transaction in work, or None
  finished,  \* the work is done
  lost       \* the work was interrupted and is not taken up again

vars == <<pending, current, finished, lost>>

Init ==
  /\ pending = {}
  /\ current = None
  /\ finished = {}
  /\ lost = {}

\* A new transaction is listed.
Accept(t) ==
  /\ t \notin pending \cup {current} \cup finished \cup lost
  /\ pending' = pending \cup {t}
  /\ UNCHANGED <<current, finished, lost>>

\* Work starts on a listed transaction: it leaves the list.
Take(t) ==
  /\ current = None
  /\ t \in pending
  /\ pending' = pending \ {t}
  /\ current' = t
  /\ UNCHANGED <<finished, lost>>

Finish ==
  /\ current # None
  /\ finished' = finished \cup {current}
  /\ current' = None
  /\ UNCHANGED <<pending, lost>>

\* The process dies during the work.
Lose ==
  /\ current # None
  /\ lost' = lost \cup {current}
  /\ current' = None
  /\ UNCHANGED <<pending, finished>>

Next == (\E t \in Trans : Accept(t) \/ Take(t)) \/ Finish \/ Lose

Spec == Init /\ [][Next]_vars

=============================================================================
