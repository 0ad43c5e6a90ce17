--------------------------- MODULE TimeStatsProofs ---------------------------
(***************************************************************************)
(* Proofs about TimeStats for any handlers, any durations, any precision   *)
(* of the printed numbers and any bounds.                                  *)
(*                                                                         *)
(* A race can make a thread store what is out of date, but each value on   *)
(* the way to a statistic - in memory, in Redis, in the reply of the MGET, *)
(* in the copy of an init, in a register - claims no more than what was    *)
(* measured before it was read, and no more without the duration that the  *)
(* worker thread has still to add (ClaimInv).  Printing is idempotent and  *)
(* monotone, so the extremes lose half a Unit once, the sum at each        *)
(* restart (SurviveInv).                                                   *)
(***************************************************************************)
EXTENDS TimeStats, TLAPS

\* The fields but the last, which is a quotient.
Numbers == {"n", "min", "max", "sum"}

Busy == wpc \in {"load", "store"}

-----------------------------------------------------------------------------

\* Where the threads are and what their variables hold.
TypeInv ==
  /\ main \in {"down", "fetch", "restore", "up"} /\ mfield \in 0 .. 5
  /\ main = "restore" => mfield \in 1 .. 5
  /\ wpc \in {"wait", "load", "store", "mset"} /\ wfield \in 0 .. 5
  /\ Busy => wfield \in 1 .. 5
  /\ wpc = "store" /\ wfield \in 1 .. 4 => reg \in Nat
  /\ v \in Nat /\ now \in Nat /\ restarts \in Nat /\ admin \in Nat
  /\ reply \in Stat /\ st \in Stat /\ cached \in Stat
  /\ \A f \in Numbers : measured[f] \in Nat /\ truth[f] \in Nat
  /\ measured["min"] <= DataMax

QueueTypes ==
  /\ queue \in Seq(Nat) /\ listed \in Nat /\ Len(queue) <= listed
  /\ \A i \in 1 .. Len(queue) : queue[i] <= now
  /\ main = "down" => queue = <<>> /\ wpc = "wait"

FlagTypes == stopped \in BOOLEAN /\ raced \in BOOLEAN

\* What the handlers have read.
SnapTypes ==
  /\ DOMAIN snap = Handlers
  /\ \A h \in Handlers :
       /\ DOMAIN snap[h] \subseteq FieldNames
       /\ \A f \in DOMAIN snap[h] : f \in Numbers => snap[h][f] \in Nat
       /\ "avg" \in DOMAIN snap[h] => snap[h]["avg"] \in Nat \X Nat

\* The duration in work is measured.
WorkInv ==
  wpc # "wait" =>
    /\ v <= measured.sum /\ measured.n > 0
    /\ measured.min <= v /\ v <= measured.max

\* x is a value of field f that claims no more than n, sum, max and min.
Fits(f, x, n, sum, max, min) ==
  /\ f = "n" => x <= n
  /\ f = "sum" => x <= sum
  /\ f = "max" => x <= max + Tolerance /\ Decimal(x) <= Decimal(max)
  /\ f = "min" => x >= min - Tolerance /\ Decimal(x) >= Decimal(min)

\* The durations that were measured, without the one that the worker thread
\* has still to add.
NBound   == IF Busy /\ wfield <= 1 THEN measured.n - 1 ELSE measured.n
SumBound == IF Busy /\ wfield <= 4 THEN measured.sum - v ELSE measured.sum

Claims(f, x, k) ==
  Fits(f, x, NBound, SumBound + Tolerance * k, measured.max, measured.min)

\* Whatever is on the way to a statistic claims no more than was measured; what
\* is in Redis has been printed once more.
ClaimInv ==
  /\ \A f \in Numbers : Claims(f, st[f], restarts) /\ Claims(f, reply[f], restarts)
  /\ \A f \in Numbers : Claims(f, cached[f], restarts + 1)
  /\ \A h \in Handlers : \A f \in DOMAIN snap[h] : Claims(f, snap[h][f], restarts)
  /\ wpc = "store" => Claims(Fields[wfield], reg, restarts)

\* The statistic is whole when the worker waits.
WholeInv ==
  restarts = 0 =>
    /\ main # "restore"
    /\ wpc = "wait" => st.avg = <<st.sum, st.n>> /\ (st.n = 0 => st = Zero)
    /\ Busy /\ wfield > 1 => st.n > 0
    /\ wpc = "mset" => st.n > 0 /\ st.avg = <<st.sum, st.n>>

\* x is field f of the durations r, up to the printing.
Like(f, x, r, k) ==
  /\ f = "n" => x = r.n
  /\ f = "sum" => x <= r.sum + Tolerance * k /\ r.sum <= x + Tolerance * k
  /\ f = "max" => /\ x <= r.max + Tolerance /\ r.max <= x + Tolerance
                  /\ Decimal(x) = Decimal(r.max)
  /\ f = "min" => /\ x <= r.min + Tolerance /\ r.min <= x + Tolerance
                  /\ Decimal(x) = Decimal(r.min)

\* The durations that field i is of: with the one in work when it was stored.
Told(i) == IF wpc = "mset" \/ (Busy /\ i < wfield) THEN Add(truth, v) ELSE truth

\* Nothing meddles with a statistic when no request does and each restart found
\* the worker stopped.
Alone == ~raced /\ admin = 0

SurviveInv ==
  Alone =>
    /\ \A h \in Handlers : DOMAIN snap[h] = {}
    /\ main \in {"fetch", "restore"} => stopped
    /\ main # "up" => wpc = "wait"
    /\ \A f \in Numbers : Like(f, cached[f], truth, restarts + 1)
    /\ cached.avg[2] = cached.n
    /\ main = "up" => /\ \A i \in 1 .. 4 : Like(Fields[i], st[Fields[i]], Told(i), restarts)
                      /\ wpc \in {"wait", "mset"} => st.avg[2] = st.n
    /\ wpc = "store" => reg = st[Fields[wfield]]
    /\ main = "restore" =>
         /\ reply = cached /\ \A i \in 1 .. 5 : i < mfield => st[Fields[i]] = cached[Fields[i]]
         /\ \A f \in Numbers : Like(f, cached[f], truth, restarts)

IInv == /\ TypeInv /\ QueueTypes /\ FlagTypes /\ SnapTypes /\ WorkInv
        /\ ClaimInv /\ WholeInv /\ SurviveInv
-----------------------------------------------------------------------------
(***************************************************************************)
(* printf's %f: the nearest multiple of Unit.                              *)
(***************************************************************************)

LEMMA UnitFacts ==
  /\ Unit \in Nat \ {0} /\ 2 * Unit \in Nat \ {0} /\ DataMax \in Nat
  /\ Tolerance \in Nat /\ Unit <= 2 * Tolerance + 1 /\ 2 * Tolerance <= Unit
BY UnitAssumption DEF Tolerance

\* A product grows with its factor.
LEMMA Grows ==
  ASSUME NEW a \in Nat \ {0}, NEW x \in Int, NEW y \in Int
  PROVE  /\ a * x \in Int
         /\ x <= y => a * x <= a * y
         /\ x < y => a * x + a <= a * y
<1>1. CASE x <= y
  <2>1. PICK z \in Nat : y = x + z
    <3>1. y - x \in Nat /\ y = x + (y - x)
      BY <1>1
    <3> QED BY <3>1
  <2>2. a * y = a * x + a * z /\ a * z \in Nat
    BY <2>1
  <2>3. z > 0 => a * z >= a
    <3>1. ASSUME z > 0
          PROVE  a * z = a * (z - 1) + a /\ a * (z - 1) \in Nat
      BY <2>1, <3>1
    <3> QED BY <3>1
  <2> QED BY <1>1, <2>1, <2>2, <2>3
<1>2. CASE x > y
  BY <1>2
<1> QED BY <1>1, <1>2

LEMMA Division ==
  ASSUME NEW a \in Nat \ {0}, NEW x \in Int
  PROVE  x \div a \in Int /\ x % a \in 0 .. a - 1 /\ x = a * (x \div a) + (x % a)
BY SMT

\* The multiple of Unit that is printed for d is no further than half a Unit.
LEMMA DecimalIs ==
  ASSUME NEW d \in Nat
  PROVE  \E q \in Nat : /\ Decimal(d) = Unit * q
                        /\ 2 * (Unit * q) <= 2 * d + Unit
                        /\ 2 * d + Unit < 2 * (Unit * q) + 2 * Unit
<1> DEFINE a == 2 * Unit
           x == 2 * d + Unit
           q == x \div a
           r == x % a
<1>1. a \in Nat \ {0} /\ x \in Nat
  BY UnitFacts
<1>2. q \in Int /\ r \in 0 .. a - 1 /\ x = a * q + r
  <2> HIDE DEF a, x
  <2> QED BY <1>1, Division
<1>3. Decimal(d) = q * Unit
  BY DEF Decimal
<1> HIDE DEF q, r
<1>4. a * q = 2 * (Unit * q) /\ q * Unit = Unit * q /\ Unit * q \in Int
  BY <1>2, UnitFacts
<1>5. q \in Nat
  <2>1. CASE q < 0
    <3>1. a * q + a <= a * 0
      <4> HIDE DEF a
      <4> QED BY <1>1, <1>2, <2>1, Grows
    <3> QED BY <1>1, <1>2, <3>1
  <2> QED BY <1>2, <2>1
<1> QED BY <1>1, <1>2, <1>3, <1>4, <1>5, UnitFacts

LEMMA DecimalFacts ==
  ASSUME NEW d \in Nat
  PROVE  Decimal(d) \in Nat /\ Decimal(d) <= d + Tolerance /\ d <= Decimal(d) + Tolerance
<1>1. PICK q \in Nat : /\ Decimal(d) = Unit * q
                       /\ 2 * (Unit * q) <= 2 * d + Unit
                       /\ 2 * d + Unit < 2 * (Unit * q) + 2 * Unit
  BY DecimalIs
<1>2. Unit * q \in Nat
  BY UnitFacts
<1> QED BY <1>1, <1>2, UnitFacts

LEMMA DecimalGrows ==
  ASSUME NEW d \in Nat, NEW e \in Nat, d <= e
  PROVE  Decimal(d) <= Decimal(e)
<1>1. PICK q \in Nat : /\ Decimal(d) = Unit * q
                       /\ 2 * (Unit * q) <= 2 * d + Unit
                       /\ 2 * d + Unit < 2 * (Unit * q) + 2 * Unit
  BY DecimalIs
<1>2. PICK p \in Nat : /\ Decimal(e) = Unit * p
                       /\ 2 * (Unit * p) <= 2 * e + Unit
                       /\ 2 * e + Unit < 2 * (Unit * p) + 2 * Unit
  BY DecimalIs
<1>3. CASE p < q
  <2>1. Unit * p + Unit <= Unit * q /\ Unit * p \in Int /\ Unit * q \in Int
    BY <1>3, UnitFacts, Grows
  <2> QED BY <1>1, <1>2, <2>1, UnitFacts
<1>4. CASE q <= p
  BY <1>1, <1>2, <1>4, UnitFacts, Grows
<1> QED BY <1>3, <1>4

\* What has been printed is printed as it is.
LEMMA MultipleFixed ==
  ASSUME NEW k \in Nat
  PROVE  Unit * k \in Nat /\ Decimal(Unit * k) = Unit * k
<1>1. Unit * k \in Nat
  BY UnitFacts
<1>2. PICK q \in Nat : /\ Decimal(Unit * k) = Unit * q
                       /\ 2 * (Unit * q) <= 2 * (Unit * k) + Unit
                       /\ 2 * (Unit * k) + Unit < 2 * (Unit * q) + 2 * Unit
  BY <1>1, DecimalIs
<1>3. Unit * q \in Int
  BY UnitFacts
<1>4. CASE q < k
  <2>1. Unit * q + Unit <= Unit * k
    BY <1>4, UnitFacts, Grows
  <2> QED BY <1>1, <1>2, <1>3, <2>1, UnitFacts
<1>5. CASE k < q
  <2>1. Unit * k + Unit <= Unit * q
    BY <1>5, UnitFacts, Grows
  <2> QED BY <1>1, <1>2, <1>3, <2>1, UnitFacts
<1>6. CASE q = k
  BY <1>1, <1>2, <1>6
<1> QED BY <1>4, <1>5, <1>6

LEMMA DecimalTwice ==
  ASSUME NEW d \in Nat
  PROVE  Decimal(Decimal(d)) = Decimal(d)
<1>1. PICK q \in Nat : Decimal(d) = Unit * q
  BY DecimalIs
<1> QED BY <1>1, MultipleFixed

LEMMA Multiple ==
  ASSUME NEW a \in Nat \ {0}, NEW x \in Nat, x % a = 0
  PROVE  \E k \in Nat : x = a * k
<1> DEFINE k == x \div a
<1>1. k \in Int /\ x = a * k
  BY Division
<1> HIDE DEF k
<1>2. k >= 0
  <2>1. CASE k < 0
    <3>1. a * k + a <= a * 0
      BY <1>1, <2>1, Grows
    <3> QED BY <1>1, <3>1
  <2> QED BY <1>1, <2>1
<1> QED BY <1>1, <1>2

LEMMA DefaultsFixed == Decimal(DataMax) = DataMax /\ Decimal(0) = 0
<1>1. PICK k \in Nat : DataMax = Unit * k
  BY Multiple, UnitAssumption
<1>2. Unit * 0 = 0
  BY UnitFacts
<1> QED BY <1>1, <1>2, MultipleFixed

\* One restart more.
LEMMA OneMore ==
  ASSUME NEW k \in Nat
  PROVE  /\ Tolerance * k \in Nat
         /\ Tolerance * (k + 1) = Tolerance * k + Tolerance
BY UnitFacts

-----------------------------------------------------------------------------
(***************************************************************************)
(* Fields and statistics.                                                  *)
(***************************************************************************)

LEMMA FieldFacts ==
  /\ Len(Fields) = 5 /\ FieldNames = Numbers \cup {"avg"}
  /\ Fields[1] = "n" /\ Fields[2] = "min" /\ Fields[3] = "max" /\ Fields[4] = "sum"
  /\ Fields[5] = "avg"
  /\ \A i \in 1 .. 5 : Fields[i] \in FieldNames /\ (i # 5 => Fields[i] \in Numbers)
  /\ \A i, j \in 1 .. 5 : i # j => Fields[i] # Fields[j]
  /\ \A f \in Numbers : \E i \in 1 .. 4 : Fields[i] = f
<1>1. /\ Len(Fields) = 5 /\ DOMAIN Fields = 1 .. 5
      /\ Fields[1] = "n" /\ Fields[2] = "min" /\ Fields[3] = "max" /\ Fields[4] = "sum"
      /\ Fields[5] = "avg"
  BY DEF Fields
<1>2. \A i \in 1 .. 5 : i = 1 \/ i = 2 \/ i = 3 \/ i = 4 \/ i = 5
  OBVIOUS
<1> HIDE DEF Fields
<1>3. FieldNames = Numbers \cup {"avg"}
  BY <1>1, <1>2 DEF FieldNames, Numbers
<1>4. \A i \in 1 .. 5 : Fields[i] \in FieldNames /\ (i # 5 => Fields[i] \in Numbers)
  BY <1>1, <1>2, <1>3 DEF Numbers
<1>5. \A i, j \in 1 .. 5 : i # j => Fields[i] # Fields[j]
  BY <1>1, <1>2
<1>6. \A f \in Numbers : \E i \in 1 .. 4 : Fields[i] = f
  BY <1>1 DEF Numbers
<1> QED BY <1>1, <1>3, <1>4, <1>5, <1>6

\* The number of a field.
LEMMA FieldIndex ==
  ASSUME NEW i \in 1 .. 5
  PROVE  /\ (Fields[i] = "n" <=> i = 1) /\ (Fields[i] = "min" <=> i = 2)
         /\ (Fields[i] = "max" <=> i = 3) /\ (Fields[i] = "sum" <=> i = 4)
         /\ (Fields[i] = "avg" <=> i = 5)
<1>1. i = 1 \/ i = 2 \/ i = 3 \/ i = 4 \/ i = 5
  OBVIOUS
<1> QED BY <1>1, FieldFacts

LEMMA StatFacts ==
  ASSUME NEW s \in Stat
  PROVE  /\ s["n"] \in Nat /\ s["min"] \in Nat /\ s["max"] \in Nat /\ s["sum"] \in Nat
         /\ s["avg"] \in Nat \X Nat
         /\ \A f \in Numbers : s[f] \in Nat
BY DEF Stat, Numbers

\* Two statistics with the same fields are the same.
LEMMA SameStat ==
  ASSUME NEW s \in Stat, NEW t \in Stat, \A i \in 1 .. 5 : s[Fields[i]] = t[Fields[i]]
  PROVE  s = t
<1>1. s.n = t.n /\ s.min = t.min /\ s.max = t.max /\ s.sum = t.sum /\ s.avg = t.avg
  BY FieldFacts
<1> QED BY <1>1 DEF Stat

LEMMA ZeroStat == Zero \in Stat
BY UnitFacts DEF Zero, Stat

\* What Redis has of a statistic.
LEMMA PrintedFields ==
  ASSUME NEW s, \A f \in Numbers : s[f] \in Nat, s["avg"] \in Nat \X Nat
  PROVE  /\ Printed(s) \in Stat
         /\ Printed(s)["n"] = s["n"] /\ Printed(s)["avg"] = s["avg"]
         /\ \A f \in Numbers \ {"n"} : Printed(s)[f] = Decimal(s[f])
<1>1. /\ s["n"] \in Nat /\ s["min"] \in Nat /\ s["max"] \in Nat /\ s["sum"] \in Nat
  BY DEF Numbers
<1>2. /\ Decimal(s["min"]) \in Nat /\ Decimal(s["max"]) \in Nat /\ Decimal(s["sum"]) \in Nat
  BY <1>1, DecimalFacts
<1> QED BY <1>1, <1>2 DEF Printed, Stat, Numbers

\* What the worker thread makes of a value.
LEMMA UpdatedIs ==
  ASSUME NEW x, NEW f \in FieldNames
  PROVE  /\ f = "n" => Updated(f, x) = x + 1
         /\ f = "min" => Updated(f, x) = Lower(v, x)
         /\ f = "max" => Updated(f, x) = Higher(v, x)
         /\ f = "sum" => Updated(f, x) = x + v
         /\ f = "avg" => Updated(f, x) = <<st.sum, st.n>>
BY DEF Updated

-----------------------------------------------------------------------------
(***************************************************************************)
(* Fits and Like.                                                          *)
(***************************************************************************)

LEMMA FitsWeak ==
  ASSUME NEW f \in Numbers, NEW x \in Nat, NEW n \in Int, NEW p \in Int,
         NEW s \in Int, NEW t \in Int, NEW a \in Nat, NEW b \in Nat,
         NEW c \in Nat, NEW d \in Nat,
         f = "n" => n <= p, f = "sum" => s <= t, a <= b, d <= c, Fits(f, x, n, s, a, c)
  PROVE  Fits(f, x, p, t, b, d)
<1>1. Decimal(a) <= Decimal(b) /\ Decimal(d) <= Decimal(c)
  BY DecimalGrows
<1>2. /\ Decimal(a) \in Nat /\ Decimal(b) \in Nat /\ Decimal(c) \in Nat /\ Decimal(d) \in Nat
      /\ Decimal(x) \in Nat
  BY DecimalFacts
<1> QED BY <1>1, <1>2, UnitFacts DEF Fits

LEMMA FitsPrinted ==
  ASSUME NEW f \in Numbers \ {"n"}, NEW x \in Nat, NEW n \in Int, NEW s \in Int,
         NEW a \in Nat, NEW c \in Nat, Fits(f, x, n, s, a, c)
  PROVE  Fits(f, Decimal(x), n, s + Tolerance, a, c)
<1>1. /\ Decimal(x) \in Nat /\ Decimal(x) <= x + Tolerance
      /\ Decimal(a) \in Nat /\ Decimal(a) <= a + Tolerance
      /\ Decimal(c) \in Nat /\ c <= Decimal(c) + Tolerance
      /\ Decimal(Decimal(x)) = Decimal(x)
  BY DecimalFacts, DecimalTwice
<1> QED BY <1>1, UnitFacts DEF Fits, Numbers

LEMMA FitsAdded ==
  ASSUME NEW f \in Numbers, NEW x \in Nat, NEW n \in Int, NEW s \in Int,
         NEW a \in Nat, NEW c \in Nat, v \in Nat, c <= v, v <= a, Fits(f, x, n, s, a, c)
  PROVE  Updated(f, x) \in Nat /\ Fits(f, Updated(f, x), n + 1, s + v, a, c)
<1>1. /\ Decimal(c) <= Decimal(v) /\ Decimal(v) <= Decimal(a)
  BY DecimalGrows
<1>2. f \in FieldNames
  BY FieldFacts
<1>3. CASE f = "n"
  BY <1>2, <1>3, UpdatedIs DEF Fits
<1>4. CASE f = "sum"
  BY <1>2, <1>4, UpdatedIs DEF Fits
<1>5. CASE f = "min"
  <2>1. Updated(f, x) = v \/ Updated(f, x) = x
    BY <1>2, <1>5, UpdatedIs DEF Lower
  <2> QED BY <1>1, <1>5, <2>1, UnitFacts DEF Fits
<1>6. CASE f = "max"
  <2>1. Updated(f, x) = v \/ Updated(f, x) = x
    BY <1>2, <1>6, UpdatedIs DEF Higher
  <2> QED BY <1>1, <1>6, <2>1, UnitFacts DEF Fits
<1> QED BY <1>3, <1>4, <1>5, <1>6 DEF Numbers

LEMMA FitsZero ==
  ASSUME NEW f \in Numbers, NEW n \in Nat, NEW s \in Nat, NEW a \in Nat, NEW c \in Nat,
         c <= DataMax
  PROVE  Fits(f, Zero[f], n, s, a, c)
<1>1. Decimal(0) <= Decimal(a) /\ Decimal(c) <= Decimal(DataMax)
  BY DecimalGrows, UnitFacts
<1> QED BY <1>1, UnitFacts DEF Fits, Zero, Numbers

LEMMA LikeWeak ==
  ASSUME NEW f \in Numbers, NEW x \in Nat, NEW r, \A g \in Numbers : r[g] \in Nat,
         NEW k \in Nat, Like(f, x, r, k)
  PROVE  Like(f, x, r, k + 1)
<1>1. Tolerance * (k + 1) = Tolerance * k + Tolerance /\ Tolerance * k \in Nat
  BY OneMore
<1>2. r["sum"] \in Nat
  BY DEF Numbers
<1> HIDE DEF Tolerance
<1> QED BY <1>1, <1>2, UnitFacts DEF Like

LEMMA LikePrinted ==
  ASSUME NEW f \in Numbers \ {"n"}, NEW x \in Nat, NEW r, \A g \in Numbers : r[g] \in Nat,
         NEW k \in Nat, Like(f, x, r, k)
  PROVE  Like(f, Decimal(x), r, k + 1)
<1>1. Tolerance * (k + 1) = Tolerance * k + Tolerance /\ Tolerance * k \in Nat
  BY OneMore
<1>2. /\ Decimal(x) \in Nat /\ Decimal(x) <= x + Tolerance /\ x <= Decimal(x) + Tolerance
      /\ Decimal(Decimal(x)) = Decimal(x)
  BY DecimalFacts, DecimalTwice
<1>3. \A d \in Nat : /\ Decimal(d) \in Nat
                     /\ Decimal(d) <= d + Tolerance /\ d <= Decimal(d) + Tolerance
  BY DecimalFacts
<1>4. r["sum"] \in Nat /\ r["max"] \in Nat /\ r["min"] \in Nat
  BY DEF Numbers
<1>5. CASE f = "sum"
  BY <1>1, <1>2, <1>4, <1>5, UnitFacts DEF Like
<1>6. CASE f = "max"
  BY <1>2, <1>3, <1>4, <1>6, UnitFacts DEF Like
<1>7. CASE f = "min"
  BY <1>2, <1>3, <1>4, <1>7, UnitFacts DEF Like
<1> QED BY <1>5, <1>6, <1>7 DEF Numbers

LEMMA LikeAdded ==
  ASSUME NEW f \in Numbers, NEW x \in Nat, NEW r, \A g \in Numbers : r[g] \in Nat,
         NEW k \in Nat, v \in Nat, Like(f, x, r, k)
  PROVE  Like(f, Updated(f, x), Add(r, v), k)
<1>0. /\ r["n"] \in Nat /\ r["sum"] \in Nat /\ r["max"] \in Nat /\ r["min"] \in Nat
      /\ Tolerance * k \in Nat /\ Tolerance \in Nat
  BY OneMore, UnitFacts DEF Numbers
<1>2. f \in FieldNames
  BY FieldFacts
<1>a. /\ Add(r, v).n = r.n + 1 /\ Add(r, v).sum = r.sum + v
      /\ Add(r, v).min = Lower(v, r.min) /\ Add(r, v).max = Higher(v, r.max)
  BY DEF Add
<1>3. CASE f = "n"
  BY <1>0, <1>2, <1>3, <1>a, UpdatedIs DEF Like
<1>4. CASE f = "sum"
  BY <1>0, <1>2, <1>4, <1>a, UpdatedIs DEF Like
<1>5. CASE f = "min"
  <2>1. Updated(f, x) = Lower(v, x)
    BY <1>2, <1>5, UpdatedIs
  <2>2. /\ x <= r["min"] + Tolerance /\ r["min"] <= x + Tolerance
        /\ Decimal(x) = Decimal(r["min"])
    BY <1>5 DEF Like
  <2>3. Decimal(Lower(v, x)) = Decimal(Lower(v, r["min"]))
    <3>1. \A d, e \in Nat : /\ d <= e => Decimal(d) <= Decimal(e)
                            /\ Decimal(d) \in Nat
      BY DecimalGrows, DecimalFacts
    <3>2. CASE v < x /\ v < r["min"]
      BY <3>2 DEF Lower
    <3>3. CASE v < x /\ ~(v < r["min"])
      <4>1. Decimal(r["min"]) <= Decimal(v) /\ Decimal(v) <= Decimal(x)
        BY <1>0, <3>1, <3>3
      <4>2. Decimal(v) = Decimal(r["min"])
        BY <1>0, <2>2, <3>1, <4>1
      <4> QED BY <3>3, <4>2 DEF Lower
    <3>4. CASE ~(v < x) /\ v < r["min"]
      <4>1. Decimal(x) <= Decimal(v) /\ Decimal(v) <= Decimal(r["min"])
        BY <1>0, <3>1, <3>4
      <4>2. Decimal(v) = Decimal(x)
        BY <1>0, <2>2, <3>1, <4>1
      <4> QED BY <3>4, <4>2 DEF Lower
    <3>5. CASE ~(v < x) /\ ~(v < r["min"])
      BY <2>2, <3>5 DEF Lower
    <3> QED BY <3>2, <3>3, <3>4, <3>5
  <2>4. /\ Lower(v, x) <= Lower(v, r["min"]) + Tolerance
        /\ Lower(v, r["min"]) <= Lower(v, x) + Tolerance
    BY <1>0, <2>2 DEF Lower
  <2> QED BY <1>5, <1>a, <2>1, <2>3, <2>4 DEF Like
<1>6. CASE f = "max"
  <2>1. Updated(f, x) = Higher(v, x)
    BY <1>2, <1>6, UpdatedIs
  <2>2. /\ x <= r["max"] + Tolerance /\ r["max"] <= x + Tolerance
        /\ Decimal(x) = Decimal(r["max"])
    BY <1>6 DEF Like
  <2>3. Decimal(Higher(v, x)) = Decimal(Higher(v, r["max"]))
    <3>1. \A d, e \in Nat : /\ d <= e => Decimal(d) <= Decimal(e)
                            /\ Decimal(d) \in Nat
      BY DecimalGrows, DecimalFacts
    <3>2. CASE v > x /\ v > r["max"]
      BY <3>2 DEF Higher
    <3>3. CASE v > x /\ ~(v > r["max"])
      <4>1. Decimal(x) <= Decimal(v) /\ Decimal(v) <= Decimal(r["max"])
        BY <1>0, <3>1, <3>3
      <4>2. Decimal(v) = Decimal(r["max"])
        BY <1>0, <2>2, <3>1, <4>1
      <4> QED BY <3>3, <4>2 DEF Higher
    <3>4. CASE ~(v > x) /\ v > r["max"]
      <4>1. Decimal(r["max"]) <= Decimal(v) /\ Decimal(v) <= Decimal(x)
        BY <1>0, <3>1, <3>4
      <4>2. Decimal(v) = Decimal(x)
        BY <1>0, <2>2, <3>1, <4>1
      <4> QED BY <3>4, <4>2 DEF Higher
    <3>5. CASE ~(v > x) /\ ~(v > r["max"])
      BY <2>2, <3>5 DEF Higher
    <3> QED BY <3>2, <3>3, <3>4, <3>5
  <2>4. /\ Higher(v, x) <= Higher(v, r["max"]) + Tolerance
        /\ Higher(v, r["max"]) <= Higher(v, x) + Tolerance
    BY <1>0, <2>2 DEF Higher
  <2> QED BY <1>6, <1>a, <2>1, <2>3, <2>4 DEF Like
<1> QED BY <1>3, <1>4, <1>5, <1>6 DEF Numbers

-----------------------------------------------------------------------------
(***************************************************************************)
(* What the steps change.                                                  *)
(***************************************************************************)

\* A duration more.
LEMMA AddFacts ==
  ASSUME NEW r, \A f \in Numbers : r[f] \in Nat, NEW d \in Nat
  PROVE  /\ \A f \in Numbers : Add(r, d)[f] \in Nat
         /\ Add(r, d).n = r.n + 1 /\ Add(r, d).sum = r.sum + d
         /\ Add(r, d).min \in Nat /\ Add(r, d).max \in Nat
         /\ Add(r, d).min <= d /\ Add(r, d).min <= r.min
         /\ d <= Add(r, d).max /\ r.max <= Add(r, d).max
<1>1. r["n"] \in Nat /\ r["min"] \in Nat /\ r["max"] \in Nat /\ r["sum"] \in Nat
  BY DEF Numbers
<1>2. /\ Add(r, d)["n"] = r["n"] + 1 /\ Add(r, d)["sum"] = r["sum"] + d
      /\ Add(r, d)["min"] = Lower(d, r["min"]) /\ Add(r, d)["max"] = Higher(d, r["max"])
  BY DEF Add
<1>3. /\ Lower(d, r["min"]) \in Nat /\ Lower(d, r["min"]) <= d
      /\ Lower(d, r["min"]) <= r["min"]
      /\ Higher(d, r["max"]) \in Nat /\ d <= Higher(d, r["max"])
      /\ r["max"] <= Higher(d, r["max"])
  BY <1>1 DEF Lower, Higher
<1> QED BY <1>1, <1>2, <1>3 DEF Numbers

LEMMA MeasureIs ==
  ASSUME TypeInv, QueueTypes, Measure
  PROVE  /\ wpc = "wait" /\ (stopped => main = "up") /\ queue # <<>>
         /\ queue' = Tail(queue) /\ listed' = listed - 1
         /\ UNCHANGED <<mainVars, snap, now, restarts, raced, jobs, admin, crashes, reg, st,
                        cached, truth>>
         /\ \/ wpc' = "wait" /\ UNCHANGED <<wfield, v, measured>>
            \/ \E d \in Nat \ {0} : /\ wpc' = "load" /\ v' = d /\ wfield' = 1
                                    /\ measured' = Add(measured, d)
<1>1. PICK d \in IF Waiting THEN {now - Head(queue)} ELSE Durations :
        \/ d = 0 /\ WorkerMoves("wait", "wait") /\ UNCHANGED <<wfield, v, measured>>
        \/ /\ d > 0 /\ WorkerMoves("wait", "load")
           /\ v' = d /\ wfield' = 1 /\ measured' = Add(measured, d)
  BY DEF Measure
<1>2. queue # <<>>
  BY DEF Measure
<1>3. d \in Nat
  <2>1. CASE Waiting
    <3>1. Len(queue) \in Nat \ {0} /\ Head(queue) = queue[1] /\ queue[1] \in Nat
      BY <1>2 DEF QueueTypes
    <3>2. queue[1] <= now
      BY <3>1 DEF QueueTypes
    <3> QED BY <1>1, <2>1, <3>1, <3>2 DEF TypeInv
  <2>2. CASE ~Waiting
    BY <1>1, <2>2, DurationsAssumption
  <2> QED BY <2>1, <2>2
<1>4. /\ (stopped => main = "up") /\ queue' = Tail(queue) /\ listed' = listed - 1
      /\ UNCHANGED <<reg, st, cached, truth>>
  BY DEF Measure
<1>5. CASE d = 0 /\ WorkerMoves("wait", "wait") /\ UNCHANGED <<wfield, v, measured>>
  BY <1>2, <1>4, <1>5 DEF WorkerMoves
<1>6. CASE /\ d > 0 /\ WorkerMoves("wait", "load")
           /\ v' = d /\ wfield' = 1 /\ measured' = Add(measured, d)
  <2>1. d \in Nat \ {0}
    BY <1>3, <1>6
  <2> QED BY <1>2, <1>4, <1>6, <2>1 DEF WorkerMoves
<1> QED BY <1>1, <1>5, <1>6

LEMMA StoreIs ==
  ASSUME TypeInv, StoreField
  PROVE  /\ wpc = "store" /\ wfield \in 1 .. 5 /\ Busy
         /\ st' = [st EXCEPT ![Fields[wfield]] = Updated(Fields[wfield], reg)]
         /\ UNCHANGED <<mainVars, snap, now, restarts, raced, jobs, admin, crashes, v,
                        queueVars, cached, measured, truth>>
         /\ \/ wfield < 5 /\ wpc' = "load" /\ wfield' = wfield + 1
            \/ wfield = 5 /\ wpc' = "mset" /\ wfield' = 5
         /\ Fields[wfield] \in FieldNames
         /\ Fields[wfield] \in Numbers => reg \in Nat /\ wfield \in 1 .. 4
<1>1. /\ wpc = "store" /\ wfield \in 1 .. 5 /\ Busy
  BY DEF StoreField, TypeInv, Busy
<1>2. Len(Fields) = 5
  BY FieldFacts
<1>3. \/ wfield < 5 /\ WorkerMoves("store", "load") /\ wfield' = wfield + 1
      \/ wfield = 5 /\ WorkerMoves("store", "mset") /\ wfield' = 5
  BY <1>1, <1>2 DEF StoreField
<1>4. UNCHANGED <<mainVars, snap, now, restarts, raced, jobs, admin, crashes>>
  BY <1>3 DEF WorkerMoves
<1>5. \/ wfield < 5 /\ wpc' = "load" /\ wfield' = wfield + 1
      \/ wfield = 5 /\ wpc' = "mset" /\ wfield' = 5
  BY <1>3 DEF WorkerMoves
<1>6. Fields[wfield] \in FieldNames
  BY <1>1, FieldFacts
<1>7. Fields[wfield] \in Numbers => reg \in Nat /\ wfield \in 1 .. 4
  <2>1. wfield = 5 => Fields[wfield] \notin Numbers
    BY FieldFacts DEF Numbers
  <2> QED BY <1>1, <2>1 DEF TypeInv
<1> QED BY <1>1, <1>4, <1>5, <1>6, <1>7 DEF StoreField

LEMMA RestoreIs ==
  ASSUME TypeInv, Restore
  PROVE  /\ main = "restore" /\ mfield \in 1 .. 5
         /\ st' = [st EXCEPT ![Fields[mfield]] = reply[Fields[mfield]]]
         /\ UNCHANGED <<workerVars, listed, cached, snap, now, measured, truth, jobs,
                        admin, crashes, reply, queue, stopped, restarts, raced>>
         /\ \/ mfield < 5 /\ main' = "restore" /\ mfield' = mfield + 1
            \/ mfield = 5 /\ main' = "up" /\ mfield' = 0
         /\ Fields[mfield] \in FieldNames
         /\ Fields[mfield] \in Numbers => mfield \in 1 .. 4
<1>1. main = "restore" /\ mfield \in 1 .. 5
  BY DEF Restore, TypeInv
<1>2. Len(Fields) = 5
  BY FieldFacts
<1>3. \/ mfield < 5 /\ MainMoves("restore", "restore") /\ mfield' = mfield + 1
      \/ mfield = 5 /\ MainMoves("restore", "up") /\ mfield' = 0
  BY <1>1, <1>2 DEF Restore
<1>4. UNCHANGED <<workerVars, listed, cached, snap, now, measured, truth, jobs,
                  admin, crashes>>
  BY <1>3 DEF MainMoves
<1>5. \/ mfield < 5 /\ main' = "restore" /\ mfield' = mfield + 1
      \/ mfield = 5 /\ main' = "up" /\ mfield' = 0
  BY <1>3 DEF MainMoves
<1>6. Fields[mfield] \in FieldNames
  BY <1>1, FieldFacts
<1>7. Fields[mfield] \in Numbers => mfield \in 1 .. 4
  <2>1. mfield = 5 => Fields[mfield] \notin Numbers
    BY FieldFacts DEF Numbers
  <2> QED BY <1>1, <2>1
<1> QED BY <1>1, <1>4, <1>5, <1>6, <1>7 DEF Restore

\* A handler reads one field more, of a request that has just come or not.
LEMMA ReadsIs ==
  ASSUME NEW h \in Handlers, InitReads(h), DOMAIN snap = Handlers
  PROVE  /\ UNCHANGED <<mainVars, workerVars, queueVars, now, measured, truth, restarts,
                        raced, jobs, crashes, st, cached>>
         /\ \/ admin' = admin + 1
            \/ DOMAIN snap[h] # {} /\ admin' = admin
         /\ \A g \in Handlers \ {h} : snap'[g] = snap[g]
         /\ DOMAIN snap' = Handlers
         /\ \E f \in FieldNames :
              /\ DOMAIN snap'[h] = DOMAIN snap[h] \cup {f}
              /\ \A g \in DOMAIN snap'[h] :
                   snap'[h][g] = IF g = f THEN st[f] ELSE snap[h][g]
<1>1. /\ UNCHANGED <<mainVars, workerVars, queueVars, now, measured, truth, restarts,
                     raced, jobs, crashes, st, cached>>
      /\ \/ admin' = admin + 1
         \/ DOMAIN snap[h] # {} /\ admin' = admin
  BY DEF InitReads, Arrives, historyVars
<1>2. PICK f \in FieldNames :
        snap' = [snap EXCEPT ![h] =
                   [g \in DOMAIN snap[h] \cup {f} |-> IF g = f THEN st[f] ELSE snap[h][g]]]
  BY DEF InitReads
<1>3. snap'[h] = [g \in DOMAIN snap[h] \cup {f} |-> IF g = f THEN st[f] ELSE snap[h][g]]
  BY <1>2
<1>4. DOMAIN snap' = Handlers /\ \A g \in Handlers \ {h} : snap'[g] = snap[g]
  BY <1>2
<1>5. /\ DOMAIN snap'[h] = DOMAIN snap[h] \cup {f}
      /\ \A g \in DOMAIN snap'[h] : snap'[h][g] = IF g = f THEN st[f] ELSE snap[h][g]
  BY <1>3
<1> QED BY <1>1, <1>4, <1>5

LEMMA WritesIs ==
  ASSUME NEW h \in Handlers, InitWrites(h), DOMAIN snap = Handlers
  PROVE  /\ DOMAIN snap[h] = FieldNames /\ cached' = Printed(snap[h])
         /\ UNCHANGED <<mainVars, workerVars, queueVars, historyVars, st, now>>
         /\ DOMAIN snap' = Handlers /\ DOMAIN snap'[h] = {}
         /\ \A g \in Handlers \ {h} : snap'[g] = snap[g]
BY DEF InitWrites, Nothing

-----------------------------------------------------------------------------
(***************************************************************************)
(* The types.                                                              *)
(***************************************************************************)

\* The types of what is stored.
LEMMA StoredTypes ==
  ASSUME TypeInv, StoreField
  PROVE  LET f == Fields[wfield] IN
           /\ f \in Numbers => Updated(f, reg) \in Nat
           /\ f = "avg" => Updated(f, reg) \in Nat \X Nat
           /\ st' \in Stat /\ st'[f] = Updated(f, reg)
           /\ \A g \in FieldNames : g # f => st'[g] = st[g]
<1>1. PICK k \in FieldNames : k = Fields[wfield]
  BY StoreIs
<1>2. st' = [st EXCEPT ![k] = Updated(k, reg)] /\ (k \in Numbers => reg \in Nat)
  BY <1>1, StoreIs
<1>3. st \in Stat /\ v \in Nat
  BY DEF TypeInv
<1>4. k \in Numbers => Updated(k, reg) \in Nat
  BY <1>2, <1>3, UpdatedIs DEF Lower, Higher, Numbers
<1>5. k = "avg" => Updated(k, reg) \in Nat \X Nat
  BY <1>3, UpdatedIs, StatFacts
<1>6. /\ st' \in Stat /\ st'[k] = Updated(k, reg)
      /\ \A g \in FieldNames : g # k => st'[g] = st[g]
  <2>1. CASE k = "n"
    BY <1>2, <1>3, <1>4, <1>5, <2>1, FieldFacts DEF Stat, Numbers
  <2>2. CASE k = "min"
    BY <1>2, <1>3, <1>4, <1>5, <2>2, FieldFacts DEF Stat, Numbers
  <2>3. CASE k = "max"
    BY <1>2, <1>3, <1>4, <1>5, <2>3, FieldFacts DEF Stat, Numbers
  <2>4. CASE k = "sum"
    BY <1>2, <1>3, <1>4, <1>5, <2>4, FieldFacts DEF Stat, Numbers
  <2>5. CASE k = "avg"
    BY <1>2, <1>3, <1>4, <1>5, <2>5, FieldFacts DEF Stat, Numbers
  <2> QED BY <2>1, <2>2, <2>3, <2>4, <2>5, FieldFacts DEF Numbers
<1> QED BY <1>1, <1>4, <1>5, <1>6

LEMMA RestoredTypes ==
  ASSUME TypeInv, Restore
  PROVE  LET f == Fields[mfield] IN
           /\ st' \in Stat /\ st'[f] = reply[f]
           /\ \A g \in FieldNames : g # f => st'[g] = st[g]
<1>1. PICK k \in FieldNames : k = Fields[mfield]
  BY RestoreIs
<1>2. st' = [st EXCEPT ![k] = reply[k]]
  BY <1>1, RestoreIs
<1>3. st \in Stat /\ reply \in Stat
  BY DEF TypeInv
<1>4. (k \in Numbers => reply[k] \in Nat) /\ (k = "avg" => reply[k] \in Nat \X Nat)
  BY <1>3, StatFacts
<1>5. /\ st' \in Stat /\ st'[k] = reply[k]
      /\ \A g \in FieldNames : g # k => st'[g] = st[g]
  <2>1. CASE k = "n"
    BY <1>2, <1>3, <1>4, <2>1, FieldFacts DEF Stat, Numbers
  <2>2. CASE k = "min"
    BY <1>2, <1>3, <1>4, <2>2, FieldFacts DEF Stat, Numbers
  <2>3. CASE k = "max"
    BY <1>2, <1>3, <1>4, <2>3, FieldFacts DEF Stat, Numbers
  <2>4. CASE k = "sum"
    BY <1>2, <1>3, <1>4, <2>4, FieldFacts DEF Stat, Numbers
  <2>5. CASE k = "avg"
    BY <1>2, <1>3, <1>4, <2>5, FieldFacts DEF Stat, Numbers
  <2> QED BY <2>1, <2>2, <2>3, <2>4, <2>5, FieldFacts DEF Numbers
<1> QED BY <1>1, <1>5

LEMMA TypeStep ==
  ASSUME TypeInv, QueueTypes, SnapTypes, [Next]_vars
  PROVE  TypeInv'
<1>1. CASE Post
  BY <1>1 DEF Post, TypeInv, mainVars, workerVars, Busy
<1>2. CASE Tick
  BY <1>2 DEF Tick, TypeInv, mainVars, workerVars, queueVars, historyVars, Busy
<1>3. CASE Measure
  <2>1. /\ wpc = "wait"
        /\ UNCHANGED <<mainVars, snap, now, restarts, raced, jobs, admin, crashes, reg, st,
                       cached, truth>>
        /\ \/ wpc' = "wait" /\ UNCHANGED <<wfield, v, measured>>
           \/ \E d \in Nat \ {0} : /\ wpc' = "load" /\ v' = d /\ wfield' = 1
                                   /\ measured' = Add(measured, d)
    BY <1>3, MeasureIs
  <2>2. CASE wpc' = "wait" /\ UNCHANGED <<wfield, v, measured>>
    BY <2>1, <2>2 DEF TypeInv, mainVars, Busy
  <2>3. ASSUME NEW d \in Nat \ {0}, wpc' = "load", v' = d, wfield' = 1,
               measured' = Add(measured, d)
        PROVE  TypeInv'
    <3>1. \A f \in Numbers : measured[f] \in Nat
      BY DEF TypeInv
    <3>2. /\ \A f \in Numbers : measured'[f] \in Nat
          /\ measured'["min"] \in Nat /\ measured'["min"] <= measured["min"]
      BY <2>3, <3>1, AddFacts
    <3>3. measured'["min"] <= DataMax
      BY <3>1, <3>2, UnitFacts DEF TypeInv, Numbers
    <3> QED BY <2>1, <2>3, <3>2, <3>3 DEF TypeInv, mainVars, Busy
  <2> QED BY <2>1, <2>2, <2>3
<1>4. CASE Load
  <2>1. wpc = "load" /\ wpc' = "store" /\ reg' = st[Fields[wfield]] /\ wfield' = wfield
    BY <1>4 DEF Load, WorkerMoves
  <2>2. wfield \in 1 .. 4 => reg' \in Nat
    <3>1. wfield \in 1 .. 4 => Fields[wfield] \in Numbers
      BY FieldFacts
    <3> QED BY <2>1, <3>1, StatFacts DEF TypeInv
  <2> QED BY <1>4, <2>1, <2>2 DEF Load, WorkerMoves, TypeInv, mainVars, queueVars, Busy
<1>5. CASE StoreField
  <2>1. st' \in Stat
    BY <1>5, StoredTypes
  <2>2. /\ UNCHANGED <<mainVars, snap, now, restarts, raced, jobs, admin, crashes, v,
                       queueVars, cached, measured, truth>>
        /\ wfield \in 1 .. 5
        /\ \/ wfield < 5 /\ wpc' = "load" /\ wfield' = wfield + 1
           \/ wfield = 5 /\ wpc' = "mset" /\ wfield' = 5
    BY <1>5, StoreIs
  <2> QED BY <2>1, <2>2 DEF TypeInv, mainVars, Busy
<1>6. CASE MSet
  <2>1. cached' \in Stat
    BY <1>6, PrintedFields, StatFacts DEF MSet, TypeInv
  <2>2. \A f \in Numbers : truth'[f] \in Nat
    BY <1>6, AddFacts DEF MSet, TypeInv
  <2> QED BY <1>6, <2>1, <2>2 DEF MSet, WorkerMoves, TypeInv, mainVars, queueVars, Busy
<1>7. CASE Reset
  BY <1>7, ZeroStat
     DEF Reset, Arrives, TypeInv, mainVars, workerVars, queueVars, Busy
<1>8. ASSUME NEW h \in Handlers, InitReads(h)
      PROVE  TypeInv'
  BY <1>8, ReadsIs DEF SnapTypes, TypeInv, mainVars, workerVars, queueVars, Busy
<1>9. ASSUME NEW h \in Handlers, InitWrites(h)
      PROVE  TypeInv'
  <2>1. /\ DOMAIN snap[h] = FieldNames /\ cached' = Printed(snap[h])
        /\ UNCHANGED <<mainVars, workerVars, queueVars, historyVars, st, now>>
    BY <1>9, WritesIs DEF SnapTypes
  <2>2. (\A f \in Numbers : snap[h][f] \in Nat) /\ snap[h]["avg"] \in Nat \X Nat
    BY <2>1, FieldFacts DEF SnapTypes
  <2>3. cached' \in Stat
    BY <2>1, <2>2, PrintedFields
  <2> QED BY <2>1, <2>3
       DEF TypeInv, mainVars, workerVars, queueVars, historyVars, Busy
<1>10. CASE PushListed
  BY <1>10 DEF PushListed, MainMoves, TypeInv, workerVars, Busy
<1>11. CASE MGet
  BY <1>11 DEF MGet, MainMoves, TypeInv, workerVars, Busy
<1>12. CASE Restore
  <2>1. st' \in Stat
    BY <1>12, RestoredTypes
  <2>2. /\ UNCHANGED <<workerVars, listed, cached, snap, now, measured, truth, jobs,
                       admin, crashes, reply, queue, stopped, restarts, raced>>
        /\ mfield \in 1 .. 5
        /\ \/ mfield < 5 /\ main' = "restore" /\ mfield' = mfield + 1
           \/ mfield = 5 /\ main' = "up" /\ mfield' = 0
    BY <1>12, RestoreIs
  <2> QED BY <2>1, <2>2 DEF TypeInv, workerVars, Busy
<1>13. CASE Crash
  BY <1>13, ZeroStat DEF Crash, TypeInv, Busy
<1>14. CASE UNCHANGED vars
  BY <1>14 DEF vars, TypeInv, mainVars, workerVars, queueVars, historyVars, Busy
<1> QED BY <1>1, <1>2, <1>3, <1>4, <1>5, <1>6, <1>7, <1>8, <1>9, <1>10, <1>11, <1>12,
           <1>13, <1>14 DEF Next, WorkerStep, MainStep

\* The queue of a restart.
LEMMA ZerosFacts ==
  ASSUME NEW n \in Nat
  PROVE  /\ [i \in 1 .. n |-> 0] \in Seq(Nat) /\ Len([i \in 1 .. n |-> 0]) = n
         /\ \A j \in 1 .. n : [i \in 1 .. n |-> 0][j] = 0
<1> DEFINE z == [i \in 1 .. n |-> 0]
<1>1. z \in Seq(Nat) /\ DOMAIN z = 1 .. n
  OBVIOUS
<1>2. Len(z) = n
  BY <1>1
<1> QED BY <1>1, <1>2

LEMMA QueueStep ==
  ASSUME TypeInv, QueueTypes, [Next]_vars
  PROVE  QueueTypes'
<1> USE DEF QueueTypes
<1>1. CASE Post
  <2>1. now \in Nat /\ now' = now /\ main = "up" /\ main' = main
    BY <1>1 DEF Post, TypeInv, mainVars
  <2>2. queue' = Append(queue, now) /\ listed' = listed + 1
    BY <1>1 DEF Post
  <2>3. /\ queue' \in Seq(Nat) /\ Len(queue') = Len(queue) + 1
        /\ \A i \in 1 .. Len(queue) : queue'[i] = queue[i]
        /\ queue'[Len(queue) + 1] = now
    BY <2>1, <2>2
  <2>4. \A i \in 1 .. Len(queue') : queue'[i] <= now
    <3>1. Len(queue) \in Nat
      OBVIOUS
    <3>2. \A i \in 1 .. Len(queue') : i \in 1 .. Len(queue) \/ i = Len(queue) + 1
      BY <2>3, <3>1
    <3> QED BY <2>1, <2>3, <3>2
  <2>5. listed' \in Nat /\ Len(queue') <= listed'
    BY <2>2, <2>3
  <2>6. main' # "down"
    BY <2>1
  <2> HIDE DEF QueueTypes
  <2> QED BY <2>3, <2>4, <2>5, <2>6, <2>1 DEF QueueTypes
<1>2. CASE Tick
  <2>1. \A i \in 1 .. Len(queue) : queue[i] \in Nat
    OBVIOUS
  <2> QED BY <1>2, <2>1 DEF Tick, TypeInv, mainVars, workerVars, queueVars
<1>3. CASE Measure
  <2>1. /\ queue # <<>> /\ queue' = Tail(queue) /\ listed' = listed - 1
        /\ main' = main /\ now' = now
    BY <1>3, MeasureIs DEF mainVars
  <2>2. /\ queue' \in Seq(Nat) /\ Len(queue') = Len(queue) - 1 /\ Len(queue) \in Nat \ {0}
        /\ \A i \in 1 .. Len(queue') : queue'[i] = queue[i + 1]
    BY <2>1
  <2> QED BY <2>1, <2>2 DEF TypeInv
<1>4. CASE Load \/ StoreField \/ MSet
  <2>1. UNCHANGED <<queue, listed, now, main>> /\ wpc # "wait"
    BY <1>4 DEF Load, StoreField, MSet, WorkerMoves, queueVars, mainVars
  <2> QED BY <2>1
<1>5. CASE Reset
  BY <1>5 DEF Reset, Arrives, queueVars, mainVars, workerVars
<1>6. ASSUME NEW h \in Handlers, InitReads(h)
      PROVE  QueueTypes'
  BY <1>6 DEF InitReads, Arrives, mainVars, workerVars, queueVars
<1>7. ASSUME NEW h \in Handlers, InitWrites(h)
      PROVE  QueueTypes'
  BY <1>7 DEF InitWrites, mainVars, workerVars, queueVars
<1>8. CASE PushListed
  <2>1. queue' = [i \in 1 .. listed |-> 0] /\ listed' = listed /\ main' = "fetch" /\ now' = now
    BY <1>8 DEF PushListed, MainMoves
  <2>2. /\ queue' \in Seq(Nat) /\ Len(queue') = listed
        /\ \A i \in 1 .. listed : queue'[i] = 0
    BY <2>1, ZerosFacts
  <2> QED BY <2>1, <2>2 DEF TypeInv
<1>9. CASE MGet
  BY <1>9 DEF MGet, MainMoves, workerVars
<1>10. CASE Restore
  BY <1>10, RestoreIs DEF workerVars
<1>11. CASE Crash
  BY <1>11 DEF Crash
<1>12. CASE UNCHANGED vars
  BY <1>12 DEF vars, mainVars, workerVars, queueVars
<1> QED BY <1>1, <1>2, <1>3, <1>4, <1>5, <1>6, <1>7, <1>8, <1>9, <1>10, <1>11, <1>12
        DEF Next, WorkerStep, MainStep

LEMMA FlagStep ==
  ASSUME FlagTypes, [Next]_vars
  PROVE  FlagTypes'
<1>1. \/ stopped' = stopped /\ raced' = raced
      \/ stopped' \in BOOLEAN /\ raced' = (raced \/ ~stopped')
      \/ stopped' = FALSE /\ raced' = raced
  <2>1. CASE WorkerStep
    <3>1. \A a, b : WorkerMoves(a, b) => stopped' = stopped /\ raced' = raced
      BY ZenonT(30) DEF WorkerMoves, mainVars
    <3> QED BY <2>1, <3>1, ZenonT(30) DEF WorkerStep, Measure, Load, StoreField, MSet
  <2>2. CASE Post \/ Tick
    BY <2>2, ZenonT(30) DEF Post, Tick, mainVars, historyVars
  <2>3. CASE Reset \/ \E h \in Handlers : InitReads(h) \/ InitWrites(h)
    BY <2>3, ZenonT(30) DEF Reset, InitReads, InitWrites, Arrives, mainVars, historyVars
  <2>4. CASE MainStep
    BY <2>4, ZenonT(30) DEF MainStep, PushListed, MGet, Restore
  <2>5. CASE Crash
    BY <2>5, ZenonT(30) DEF Crash
  <2>6. CASE UNCHANGED vars
    BY <2>6, ZenonT(30) DEF vars, mainVars, historyVars
  <2> QED BY <2>1, <2>2, <2>3, <2>4, <2>5, <2>6 DEF Next
<1> QED BY <1>1, ZenonT(30) DEF FlagTypes

LEMMA SnapStep ==
  ASSUME TypeInv, SnapTypes, [Next]_vars
  PROVE  SnapTypes'
<1> USE DEF SnapTypes
<1>1. CASE Post \/ Tick \/ WorkerStep \/ Reset \/ MainStep \/ UNCHANGED vars
  <2>1. snap' = snap
    BY <1>1 DEF Post, Tick, WorkerStep, Measure, Load, StoreField, MSet, WorkerMoves, Reset,
                Arrives, MainStep, PushListed, MGet, Restore, MainMoves, vars
  <2> QED BY <2>1
<1>2. ASSUME NEW h \in Handlers, InitReads(h)
      PROVE  SnapTypes'
  <2>1. /\ DOMAIN snap' = Handlers /\ \A g \in Handlers \ {h} : snap'[g] = snap[g]
    BY <1>2, ReadsIs
  <2>2. PICK f \in FieldNames :
          /\ DOMAIN snap'[h] = DOMAIN snap[h] \cup {f}
          /\ \A g \in DOMAIN snap'[h] : snap'[h][g] = IF g = f THEN st[f] ELSE snap[h][g]
    BY <1>2, ReadsIs
  <2>3. (f \in Numbers => st[f] \in Nat) /\ (f = "avg" => st[f] \in Nat \X Nat)
    BY StatFacts DEF TypeInv
  <2>4. /\ DOMAIN snap'[h] \subseteq FieldNames
        /\ \A g \in DOMAIN snap'[h] : g \in Numbers => snap'[h][g] \in Nat
        /\ "avg" \in DOMAIN snap'[h] => snap'[h]["avg"] \in Nat \X Nat
    BY <2>2, <2>3
  <2> QED BY <2>1, <2>4
<1>3. ASSUME NEW h \in Handlers, InitWrites(h)
      PROVE  SnapTypes'
  BY <1>3, WritesIs
<1>4. CASE Crash
  BY <1>4 DEF Crash, Nothing
<1> QED BY <1>1, <1>2, <1>3, <1>4 DEF Next

LEMMA WorkStep ==
  ASSUME TypeInv, QueueTypes, WorkInv, [Next]_vars
  PROVE  WorkInv'
<1> USE DEF WorkInv
<1>1. CASE Post \/ Tick \/ Load \/ StoreField \/ MSet \/ Reset \/ MainStep \/ Crash
           \/ UNCHANGED vars
  <2>1. wpc' = "wait" \/ ((wpc' = wpc \/ wpc # "wait") /\ v' = v /\ measured' = measured)
    <3>1. CASE Post \/ Tick \/ Reset
      BY <3>1 DEF Post, Tick, Reset, Arrives, workerVars, historyVars
    <3>2. CASE Load \/ StoreField
      BY <3>2 DEF Load, StoreField, WorkerMoves
    <3>3. CASE MSet \/ Crash
      BY <3>3 DEF MSet, WorkerMoves, Crash
    <3>4. CASE MainStep
      BY <3>4 DEF MainStep, PushListed, MGet, Restore, MainMoves, workerVars
    <3>5. CASE UNCHANGED vars
      BY <3>5 DEF vars, workerVars, historyVars
    <3> QED BY <1>1, <3>1, <3>2, <3>3, <3>4, <3>5
  <2> QED BY <2>1
<1>2. ASSUME NEW h \in Handlers, InitReads(h) \/ InitWrites(h)
      PROVE  WorkInv'
  BY <1>2 DEF InitReads, InitWrites, Arrives, workerVars, historyVars
<1>3. CASE Measure
  <2>1. \A f \in Numbers : measured[f] \in Nat
    BY DEF TypeInv
  <2>2. ASSUME NEW d \in Nat \ {0}, v' = d, measured' = Add(measured, d)
        PROVE  WorkInv'
    <3>1. measured["n"] \in Nat /\ measured["sum"] \in Nat
      BY <2>1 DEF Numbers
    <3> QED BY <2>1, <2>2, <3>1, AddFacts
  <2> QED BY <1>3, <2>2, MeasureIs
<1> QED BY <1>1, <1>2, <1>3 DEF Next, WorkerStep

-----------------------------------------------------------------------------
(***************************************************************************)
(* Nothing claims more than was measured.                                  *)
(***************************************************************************)

LEMMA BoundTypes ==
  ASSUME TypeInv, WorkInv
  PROVE  /\ NBound \in Nat /\ SumBound \in Nat
         /\ measured["max"] \in Nat /\ measured["min"] \in Nat
         /\ measured["n"] \in Nat /\ measured["sum"] \in Nat
         /\ measured["min"] <= DataMax
         /\ \A k \in Nat : SumBound + Tolerance * k \in Nat
<1>1. /\ measured["max"] \in Nat /\ measured["min"] \in Nat
      /\ measured["n"] \in Nat /\ measured["sum"] \in Nat
      /\ measured["min"] <= DataMax /\ v \in Nat
  BY DEF TypeInv, Numbers
<1>2. NBound \in Nat
  BY <1>1 DEF NBound, WorkInv, Busy
<1>3. SumBound \in Nat
  BY <1>1 DEF SumBound, WorkInv, Busy
<1>4. \A k \in Nat : Tolerance * k \in Nat
  BY OneMore
<1> QED BY <1>1, <1>2, <1>3, <1>4

LEMMA NextBoundTypes ==
  ASSUME TypeInv', WorkInv'
  PROVE  /\ NBound' \in Nat /\ SumBound' \in Nat
         /\ measured'["max"] \in Nat /\ measured'["min"] \in Nat
         /\ measured'["min"] <= DataMax
         /\ \A k \in Nat : SumBound' + Tolerance * k \in Nat
<1>1. /\ measured'["max"] \in Nat /\ measured'["min"] \in Nat
      /\ measured'["n"] \in Nat /\ measured'["sum"] \in Nat
      /\ measured'["min"] <= DataMax /\ v' \in Nat
  BY DEF TypeInv, Numbers
<1>2. NBound' \in Nat
  BY <1>1 DEF NBound, WorkInv, Busy
<1>3. SumBound' \in Nat
  BY <1>1 DEF SumBound, WorkInv, Busy
<1>4. \A k \in Nat : Tolerance * k \in Nat
  BY OneMore
<1> QED BY <1>1, <1>2, <1>3, <1>4

\* A step that leaves the worker thread alone leaves the bounds.
LEMMA SameBounds ==
  ASSUME UNCHANGED <<wpc, wfield, v, measured>>
  PROVE  NBound' = NBound /\ SumBound' = SumBound
BY DEF NBound, SumBound, Busy

\* The bounds never fall.
LEMMA BoundsGrow ==
  ASSUME TypeInv, QueueTypes, SnapTypes, WorkInv, [Next]_vars
  PROVE  /\ NBound <= NBound' /\ SumBound <= SumBound'
         /\ measured["max"] <= measured'["max"] /\ measured'["min"] <= measured["min"]
<1>0. /\ measured["max"] \in Nat /\ measured["min"] \in Nat
      /\ measured["n"] \in Nat /\ measured["sum"] \in Nat /\ v \in Nat
      /\ NBound \in Nat /\ SumBound \in Nat
  BY BoundTypes DEF TypeInv
<1>1. CASE UNCHANGED <<wpc, wfield, v, measured>>
  BY <1>0, <1>1, SameBounds
<1>2. CASE Measure
  <2>1. wpc = "wait" /\ NBound = measured["n"] /\ SumBound = measured["sum"]
    BY <1>2, MeasureIs DEF NBound, SumBound, Busy
  <2>2. CASE wpc' = "wait" /\ UNCHANGED <<wfield, v, measured>>
    BY <1>1, <2>1, <2>2
  <2>3. ASSUME NEW d \in Nat \ {0}, wpc' = "load", v' = d, wfield' = 1,
               measured' = Add(measured, d)
        PROVE  /\ NBound <= NBound' /\ SumBound <= SumBound'
               /\ measured["max"] <= measured'["max"] /\ measured'["min"] <= measured["min"]
    <3>1. \A f \in Numbers : measured[f] \in Nat
      BY DEF TypeInv
    <3>2. /\ measured'["n"] = measured["n"] + 1 /\ measured'["sum"] = measured["sum"] + d
          /\ measured["max"] <= measured'["max"] /\ measured'["min"] <= measured["min"]
      BY <2>3, <3>1, AddFacts
    <3>3. NBound' = measured'["n"] - 1 /\ SumBound' = measured'["sum"] - d
      BY <2>3 DEF NBound, SumBound, Busy
    <3> QED BY <1>0, <2>1, <3>2, <3>3
  <2> QED BY <1>2, <2>2, <2>3, MeasureIs
<1>3. CASE StoreField
  <2>1. /\ Busy /\ wfield \in 1 .. 5 /\ v' = v /\ measured' = measured
        /\ \/ wfield < 5 /\ wpc' = "load" /\ wfield' = wfield + 1
           \/ wfield = 5 /\ wpc' = "mset" /\ wfield' = 5
    BY <1>3, StoreIs
  <2>2. NBound <= NBound' /\ SumBound <= SumBound'
    BY <1>0, <2>1 DEF NBound, SumBound, Busy
  <2> QED BY <1>0, <2>1, <2>2
<1>4. CASE Load \/ MSet \/ Crash
  <2>1. CASE Load
    <3>1. wpc = "load" /\ wpc' = "store" /\ UNCHANGED <<wfield, v, measured>>
      BY <2>1 DEF Load, WorkerMoves
    <3>2. NBound' = NBound /\ SumBound' = SumBound
      BY <3>1 DEF NBound, SumBound, Busy
    <3> QED BY <1>0, <3>1, <3>2
  <2>2. CASE MSet \/ Crash
    <3>1. wpc' = "wait" /\ measured' = measured
      BY <2>2 DEF MSet, WorkerMoves, Crash
    <3>2. NBound' = measured["n"] /\ SumBound' = measured["sum"]
      BY <3>1 DEF NBound, SumBound, Busy
    <3>3. NBound <= measured["n"] /\ SumBound <= measured["sum"]
      BY <1>0 DEF NBound, SumBound
    <3> QED BY <1>0, <3>1, <3>2, <3>3
  <2> QED BY <1>4, <2>1, <2>2
<1>5. CASE Post \/ Tick \/ Reset \/ MainStep \/ UNCHANGED vars
  <2>1. UNCHANGED <<wpc, wfield, v, measured>>
    BY <1>5 DEF Post, Tick, Reset, Arrives, MainStep, PushListed, MGet, Restore, MainMoves, vars,
                workerVars, historyVars
  <2> QED BY <1>1, <2>1
<1>6. ASSUME NEW h \in Handlers, InitReads(h) \/ InitWrites(h)
      PROVE  UNCHANGED <<wpc, wfield, v, measured>>
  BY <1>6 DEF InitReads, InitWrites, Arrives, workerVars, historyVars
<1> QED BY <1>1, <1>2, <1>3, <1>4, <1>5, <1>6 DEF Next, WorkerStep

\* The claim of a value holds on, and with more restarts.
LEMMA ClaimsOn ==
  ASSUME TypeInv, TypeInv', QueueTypes, SnapTypes, WorkInv, WorkInv', [Next]_vars,
         NEW f \in Numbers, NEW x \in Nat, NEW k \in Nat, NEW m \in {k, k + 1}, Claims(f, x, k)
  PROVE  Fits(f, x, NBound', SumBound' + Tolerance * m, measured'["max"], measured'["min"])
<1>1. /\ NBound <= NBound' /\ SumBound <= SumBound'
      /\ measured["max"] <= measured'["max"] /\ measured'["min"] <= measured["min"]
  BY BoundsGrow
<1>2. /\ NBound \in Nat /\ SumBound \in Nat
      /\ measured["max"] \in Nat /\ measured["min"] \in Nat
  BY BoundTypes
<1>3. /\ NBound' \in Nat /\ SumBound' \in Nat
      /\ measured'["max"] \in Nat /\ measured'["min"] \in Nat
  BY NextBoundTypes
<1>4. /\ Tolerance * k \in Nat /\ Tolerance * m \in Nat /\ Tolerance * k <= Tolerance * m
  BY OneMore, UnitFacts
<1>5. PICK p \in Int, q \in Int : p = SumBound + Tolerance * k /\ q = SumBound' + Tolerance * m
                                /\ p <= q
  <2>1. /\ SumBound + Tolerance * k \in Int /\ SumBound' + Tolerance * m \in Int
        /\ SumBound + Tolerance * k <= SumBound' + Tolerance * m
    BY <1>1, <1>2, <1>3, <1>4
  <2> QED BY <2>1
<1>6. Fits(f, x, NBound, p, measured["max"], measured["min"])
  BY <1>5 DEF Claims
<1>7. NBound \in Int /\ NBound' \in Int
  BY <1>2, <1>3
<1>8. Fits(f, x, NBound', q, measured'["max"], measured'["min"])
  BY <1>1, <1>2, <1>3, <1>5, <1>6, <1>7, FitsWeak
<1> QED BY <1>5, <1>8

\* The average claims nothing.
LEMMA FitsOther ==
  ASSUME NEW f, f \notin Numbers, NEW x, NEW n, NEW s, NEW a, NEW c
  PROVE  Fits(f, x, n, s, a, c)
BY DEF Fits, Numbers

\* What the worker thread stores claims the duration that it adds.
LEMMA ClaimsStored ==
  ASSUME TypeInv, TypeInv', WorkInv, WorkInv', StoreField,
         Fields[wfield] \in Numbers, Claims(Fields[wfield], reg, restarts)
  PROVE  Fits(Fields[wfield], Updated(Fields[wfield], reg),
              NBound', SumBound' + Tolerance * restarts, measured["max"], measured["min"])
<1>1. PICK f \in Numbers : f = Fields[wfield]
  OBVIOUS
<1>2. /\ wpc = "store" /\ wfield \in 1 .. 4 /\ Busy /\ reg \in Nat
      /\ UNCHANGED <<v, measured>> /\ wpc' = "load" /\ wfield' = wfield + 1
  BY StoreIs
<1>3. /\ NBound \in Nat /\ SumBound \in Nat
      /\ measured["max"] \in Nat /\ measured["min"] \in Nat
      /\ measured["n"] \in Nat /\ measured["sum"] \in Nat
  BY BoundTypes
<1>4. NBound' \in Nat /\ SumBound' \in Nat
  BY NextBoundTypes
<1>5. v \in Nat /\ restarts \in Nat /\ measured["min"] <= v /\ v <= measured["max"]
  BY <1>2 DEF TypeInv, WorkInv
<1>6. Tolerance * restarts \in Nat
  BY <1>5, OneMore
<1>7. PICK p \in Int, q \in Int : /\ p = SumBound + Tolerance * restarts
                                /\ q = SumBound' + Tolerance * restarts
  <2>1. SumBound + Tolerance * restarts \in Int /\ SumBound' + Tolerance * restarts \in Int
    BY <1>3, <1>4, <1>6
  <2> QED BY <2>1
<1>8. NBound \in Int /\ NBound' \in Int /\ NBound + 1 \in Int /\ p + v \in Int
  BY <1>3, <1>4, <1>5, <1>7
<1>9. /\ Updated(f, reg) \in Nat
      /\ Fits(f, Updated(f, reg), NBound + 1, p + v, measured["max"], measured["min"])
  <2>1. Fits(f, reg, NBound, p, measured["max"], measured["min"])
    BY <1>1, <1>7 DEF Claims
  <2> QED BY <1>2, <1>3, <1>5, <1>7, <1>8, <2>1, FitsAdded
<1>10. f = "n" => NBound + 1 <= NBound'
  <2>1. f = "n" => wfield = 1
    <3>1. wfield \in 1 .. 5
      BY <1>2
    <3> QED BY <1>1, <3>1, FieldIndex
  <2>2. wfield = 1 => NBound = measured["n"] - 1 /\ NBound' = measured["n"]
    BY <1>2 DEF NBound, Busy
  <2> QED BY <1>3, <2>1, <2>2
<1>11. f = "sum" => p + v <= q
  <2>1. f = "sum" => wfield = 4
    <3>1. wfield \in 1 .. 5
      BY <1>2
    <3> QED BY <1>1, <3>1, FieldIndex
  <2>2. wfield = 4 => SumBound = measured["sum"] - v /\ SumBound' = measured["sum"]
    BY <1>2 DEF SumBound, Busy
  <2>3. ASSUME f = "sum"
        PROVE  SumBound + v = SumBound'
    BY <1>3, <1>5, <2>1, <2>2, <2>3
  <2> QED BY <1>3, <1>4, <1>5, <1>6, <1>7, <2>3
<1>12. Fits(f, Updated(f, reg), NBound', q, measured["max"], measured["min"])
  <2>1. PICK x \in Nat, n \in Int, s \in Int : x = Updated(f, reg) /\ n = NBound + 1 /\ s = p + v
    BY <1>8, <1>9
  <2>2. Fits(f, x, n, s, measured["max"], measured["min"])
    BY <1>9, <2>1
  <2>3. (f = "n" => n <= NBound') /\ (f = "sum" => s <= q)
    BY <1>10, <1>11, <2>1
  <2>4. Fits(f, x, NBound', q, measured["max"], measured["min"])
    <3>1. PICK m \in Int : m = NBound'
      BY <1>8
    <3>2. PICK a \in Nat, c \in Nat : a = measured["max"] /\ c = measured["min"]
      BY <1>3
    <3>3. (f = "n" => n <= m) /\ a <= a /\ c <= c /\ Fits(f, x, n, s, a, c)
      BY <2>2, <2>3, <3>1, <3>2
    <3>4. Fits(f, x, m, q, a, c)
      BY <2>3, <3>3, FitsWeak
    <3> QED BY <3>1, <3>2, <3>4
  <2> QED BY <2>1, <2>4
<1> QED BY <1>1, <1>7, <1>12

\* What is printed of a statistic of which no field claims too much.
LEMMA ClaimsPrinted ==
  ASSUME TypeInv, WorkInv, NEW s, \A f \in Numbers : s[f] \in Nat, s["avg"] \in Nat \X Nat,
         \A f \in Numbers : Claims(f, s[f], restarts)
  PROVE  \A f \in Numbers : Claims(f, Printed(s)[f], restarts + 1)
<1> SUFFICES ASSUME NEW f \in Numbers
             PROVE  Claims(f, Printed(s)[f], restarts + 1)
  OBVIOUS
<1>1. /\ NBound \in Nat /\ SumBound \in Nat /\ SumBound + Tolerance * restarts \in Nat
      /\ measured["max"] \in Nat /\ measured["min"] \in Nat /\ restarts \in Nat
  BY BoundTypes DEF TypeInv
<1>2. Fits(f, s[f], NBound, SumBound + Tolerance * restarts, measured["max"], measured["min"])
  BY DEF Claims
<1>3. SumBound + Tolerance * (restarts + 1) = SumBound + Tolerance * restarts + Tolerance
  BY <1>1, OneMore, UnitFacts
<1>4. CASE f = "n"
  BY <1>2, <1>4, PrintedFields DEF Claims, Fits
<1>5. CASE f # "n"
  <2>1. Printed(s)[f] = Decimal(s[f])
    BY <1>5, PrintedFields
  <2>2. PICK p \in Int : p = SumBound + Tolerance * restarts
    BY <1>1
  <2>3. NBound \in Int /\ s[f] \in Nat /\ f \in Numbers \ {"n"}
    BY <1>1, <1>5
  <2>4. Fits(f, s[f], NBound, p, measured["max"], measured["min"])
    BY <1>2, <2>2
  <2>5. Fits(f, Decimal(s[f]), NBound, p + Tolerance, measured["max"], measured["min"])
    BY <1>1, <2>3, <2>4, FitsPrinted
  <2> QED BY <1>3, <2>1, <2>2, <2>5 DEF Claims
<1> QED BY <1>4, <1>5

\* The default values claim nothing.
LEMMA ClaimsZero ==
  ASSUME TypeInv, WorkInv
  PROVE  \A f \in Numbers : \A k \in Nat : Claims(f, Zero[f], k)
BY BoundTypes, FitsZero DEF Claims

\* Where a step takes the fields in memory from ...
LEMMA StatComesFrom ==
  ASSUME TypeInv, [Next]_vars, NEW f \in Numbers
  PROVE  \/ st'[f] = st[f] \/ st'[f] = Zero[f] \/ st'[f] = reply[f]
         \/ StoreField /\ f = Fields[wfield] /\ st'[f] = Updated(f, reg)
<1>0. f \in FieldNames
  BY FieldFacts
<1>1. CASE Restore
  BY <1>0, <1>1, RestoredTypes
<1>2. CASE StoreField
  BY <1>0, <1>2, StoredTypes
<1>3. CASE Post \/ Tick \/ Measure \/ Load \/ MSet \/ Reset \/ PushListed \/ MGet \/ Crash
           \/ UNCHANGED vars
  <2>1. st' = st \/ st' = Zero
    BY <1>3 DEF Post, Tick, Measure, Load, MSet, Reset, PushListed, MGet, Crash, vars
  <2> QED BY <2>1
<1>4. ASSUME NEW h \in Handlers, InitReads(h) \/ InitWrites(h)
      PROVE  st' = st
  BY <1>4 DEF InitReads, InitWrites
<1> QED BY <1>1, <1>2, <1>3, <1>4 DEF Next, WorkerStep, MainStep

\* ... the reply of the MGET ...
LEMMA ReplyComesFrom ==
  ASSUME TypeInv, [Next]_vars
  PROVE  /\ reply' = reply \/ reply' = Zero \/ (reply' = cached /\ restarts' = restarts + 1)
         /\ restarts' = restarts \/ restarts' = restarts + 1
<1>1. CASE Post \/ Tick \/ Reset \/ UNCHANGED vars
  BY <1>1 DEF Post, Tick, Reset, Arrives, vars, mainVars, historyVars
<1>2. CASE Measure \/ Load \/ StoreField \/ MSet
  <2>1. ASSUME NEW a, NEW b, WorkerMoves(a, b)
        PROVE  reply' = reply /\ restarts' = restarts
    BY <2>1 DEF WorkerMoves, mainVars
  <2>2. CASE Measure
    BY <2>1, <2>2 DEF Measure
  <2>3. CASE Load
    BY <2>1, <2>3 DEF Load
  <2>4. CASE StoreField
    BY <2>1, <2>4 DEF StoreField
  <2>5. CASE MSet
    BY <2>1, <2>5 DEF MSet
  <2> QED BY <1>2, <2>2, <2>3, <2>4, <2>5
<1>3. ASSUME NEW h \in Handlers, InitReads(h) \/ InitWrites(h)
      PROVE  reply' = reply /\ restarts' = restarts
  BY <1>3 DEF InitReads, InitWrites, Arrives, mainVars, historyVars
<1>4. CASE MainStep \/ Crash
  BY <1>4 DEF MainStep, PushListed, MGet, Restore, Crash
<1> QED BY <1>1, <1>2, <1>3, <1>4 DEF Next, WorkerStep

\* ... the statistic in Redis ...
LEMMA CachedComesFrom ==
  ASSUME TypeInv, SnapTypes, [Next]_vars
  PROVE  \/ cached' = cached
         \/ cached' = Printed(st) /\ restarts' = restarts
         \/ \E h \in Handlers : /\ DOMAIN snap[h] = FieldNames
                                /\ cached' = Printed(snap[h]) /\ restarts' = restarts
<1>1. CASE Post \/ Tick \/ Measure \/ Load \/ StoreField \/ Reset \/ MainStep \/ Crash
           \/ UNCHANGED vars
  <2>1. cached' = cached
    BY <1>1 DEF Post, Tick, Measure, Load, StoreField, Reset, MainStep, PushListed, MGet,
                Restore, MainMoves, Crash, vars
  <2> QED BY <2>1
<1>2. CASE MSet
  BY <1>2 DEF MSet, WorkerMoves
<1>3. ASSUME NEW h \in Handlers, InitReads(h)
      PROVE  cached' = cached
  BY <1>3 DEF InitReads
<1>4. ASSUME NEW h \in Handlers, InitWrites(h)
      PROVE  /\ DOMAIN snap[h] = FieldNames
             /\ cached' = Printed(snap[h]) /\ restarts' = restarts
  BY <1>4 DEF InitWrites, historyVars
<1> QED BY <1>1, <1>2, <1>3, <1>4 DEF Next, WorkerStep

\* ... what a handler has read ...
LEMMA SnapComesFrom ==
  ASSUME TypeInv, SnapTypes, [Next]_vars, NEW h \in Handlers, NEW f \in DOMAIN snap'[h]
  PROVE  \/ f \in DOMAIN snap[h] /\ snap'[h][f] = snap[h][f]
         \/ f \in FieldNames /\ snap'[h][f] = st[f]
<1>0. DOMAIN snap = Handlers
  BY DEF SnapTypes
<1>1. CASE Post \/ Tick \/ WorkerStep \/ Reset \/ MainStep \/ UNCHANGED vars
  <2>1. snap' = snap
    BY <1>1 DEF Post, Tick, WorkerStep, Measure, Load, StoreField, MSet, WorkerMoves, Reset,
                Arrives, MainStep, PushListed, MGet, Restore, MainMoves, vars
  <2> QED BY <2>1
<1>2. ASSUME NEW g \in Handlers, InitReads(g)
      PROVE  \/ f \in DOMAIN snap[h] /\ snap'[h][f] = snap[h][f]
             \/ f \in FieldNames /\ snap'[h][f] = st[f]
  <2>1. /\ \A k \in Handlers \ {g} : snap'[k] = snap[k]
        /\ \E e \in FieldNames :
             /\ DOMAIN snap'[g] = DOMAIN snap[g] \cup {e}
             /\ \A k \in DOMAIN snap'[g] : snap'[g][k] = IF k = e THEN st[e] ELSE snap[g][k]
    BY <1>0, <1>2, ReadsIs
  <2>2. CASE h # g
    BY <2>1, <2>2
  <2>3. CASE h = g
    BY <2>1, <2>3
  <2> QED BY <2>2, <2>3
<1>3. ASSUME NEW g \in Handlers, InitWrites(g)
      PROVE  f \in DOMAIN snap[h] /\ snap'[h][f] = snap[h][f]
  <2>1. DOMAIN snap'[g] = {} /\ \A k \in Handlers \ {g} : snap'[k] = snap[k]
    BY <1>0, <1>3, WritesIs
  <2> QED BY <2>1
<1>4. CASE Crash
  <2>1. snap'[h] = Nothing
    BY <1>4 DEF Crash
  <2>2. DOMAIN snap'[h] = {}
    BY <2>1 DEF Nothing
  <2> QED BY <2>2
<1> QED BY <1>1, <1>2, <1>3, <1>4 DEF Next

\* ... and what the worker thread has loaded.
LEMMA RegComesFrom ==
  ASSUME TypeInv, QueueTypes, [Next]_vars, wpc' = "store"
  PROVE  /\ wfield' = wfield
         /\ \/ wpc = "store" /\ reg' = reg
            \/ wpc = "load" /\ reg' = st[Fields[wfield]]
<1>1. CASE Post \/ Tick \/ Reset \/ UNCHANGED vars
  BY <1>1 DEF Post, Tick, Reset, Arrives, vars, workerVars
<1>2. CASE Measure
  BY <1>2, MeasureIs
<1>3. CASE Load
  BY <1>3 DEF Load, WorkerMoves
<1>4. CASE StoreField
  BY <1>4, StoreIs
<1>5. CASE MSet \/ Crash
  BY <1>5 DEF MSet, WorkerMoves, Crash
<1>6. CASE MainStep
  BY <1>6 DEF MainStep, PushListed, MGet, Restore, MainMoves, workerVars
<1>7. ASSUME NEW h \in Handlers, InitReads(h) \/ InitWrites(h)
      PROVE  workerVars' = workerVars
  BY <1>7 DEF InitReads, InitWrites, Arrives
<1> QED BY <1>1, <1>2, <1>3, <1>4, <1>5, <1>6, <1>7 DEF Next, WorkerStep, workerVars

LEMMA ClaimStep ==
  ASSUME TypeInv, TypeInv', QueueTypes, SnapTypes, WorkInv, WorkInv', ClaimInv, [Next]_vars
  PROVE  ClaimInv'
<1>1. /\ restarts \in Nat /\ restarts' \in {restarts, restarts + 1}
      /\ st \in Stat /\ reply \in Stat /\ cached \in Stat
  BY ReplyComesFrom DEF TypeInv
<1>2. /\ \A f \in Numbers : st[f] \in Nat /\ reply[f] \in Nat /\ cached[f] \in Nat
      /\ st["avg"] \in Nat \X Nat
  BY <1>1, StatFacts
<1>3. \A f \in Numbers : Zero[f] \in Nat
  BY ZeroStat, StatFacts
<1>4. ASSUME NEW f \in Numbers, NEW x \in Nat, Claims(f, x, restarts)
      PROVE  Fits(f, x, NBound', SumBound' + Tolerance * restarts', measured'["max"],
                  measured'["min"])
  BY <1>1, <1>4, ClaimsOn
<1>5. ASSUME NEW f \in Numbers
      PROVE  /\ Claims(f, st[f], restarts) /\ Claims(f, reply[f], restarts)
             /\ Claims(f, cached[f], restarts + 1) /\ Claims(f, Zero[f], restarts)
  BY <1>1, ClaimsZero DEF ClaimInv
<1>6. ASSUME NEW f \in Numbers
      PROVE  Claims(f, st[f], restarts)'
  <2>1. CASE st'[f] = st[f] \/ st'[f] = Zero[f] \/ st'[f] = reply[f]
    <3>1. st'[f] \in Nat /\ Claims(f, st'[f], restarts)
      BY <1>2, <1>3, <1>5, <2>1
    <3> QED BY <1>4, <3>1 DEF Claims
  <2>2. CASE StoreField /\ f = Fields[wfield] /\ st'[f] = Updated(f, reg)
    <3>1. wpc = "store" /\ measured' = measured /\ restarts' = restarts
      BY <2>2, StoreIs
    <3>2. Claims(Fields[wfield], reg, restarts)
      BY <3>1 DEF ClaimInv
    <3>3. Fits(f, Updated(f, reg), NBound', SumBound' + Tolerance * restarts,
               measured["max"], measured["min"])
      BY <2>2, <3>2, ClaimsStored
    <3> QED BY <2>2, <3>1, <3>3 DEF Claims
  <2> QED BY <2>1, <2>2, StatComesFrom
<1>7. ASSUME NEW f \in Numbers
      PROVE  Claims(f, reply[f], restarts)'
  <2>1. CASE reply'[f] = reply[f] \/ reply'[f] = Zero[f]
    <3>1. reply'[f] \in Nat /\ Claims(f, reply'[f], restarts)
      BY <1>2, <1>3, <1>5, <2>1
    <3> QED BY <1>4, <3>1 DEF Claims
  <2>2. CASE reply'[f] = cached[f] /\ restarts' = restarts + 1
    <3>1. reply'[f] \in Nat /\ Claims(f, reply'[f], restarts')
      BY <1>2, <1>5, <2>2
    <3>2. restarts' \in Nat
      BY <1>1
    <3> QED BY <3>1, <3>2, ClaimsOn DEF Claims
  <2> QED BY <2>1, <2>2, ReplyComesFrom
<1>8. ASSUME NEW f \in Numbers
      PROVE  Claims(f, cached[f], restarts + 1)'
  <2>1. cached'[f] \in Nat
    BY StatFacts DEF TypeInv
  <2>2. Claims(f, cached'[f], restarts + 1)
    <3>1. CASE cached' = cached
      BY <1>5, <3>1
    <3>2. CASE cached' = Printed(st)
      BY <1>2, <1>5, <3>2, ClaimsPrinted
    <3>3. ASSUME NEW h \in Handlers, DOMAIN snap[h] = FieldNames, cached' = Printed(snap[h])
          PROVE  Claims(f, cached'[f], restarts + 1)
      <4>1. /\ \A g \in Numbers : snap[h][g] \in Nat /\ Claims(g, snap[h][g], restarts)
            /\ snap[h]["avg"] \in Nat \X Nat
        BY <3>3, FieldFacts DEF SnapTypes, ClaimInv
      <4> QED BY <3>3, <4>1, ClaimsPrinted
    <3> QED BY <3>1, <3>2, <3>3, CachedComesFrom
  <2>3. restarts + 1 \in Nat /\ restarts' + 1 \in {restarts + 1, (restarts + 1) + 1}
    <3>1. CASE restarts' = restarts
      BY <1>1, <3>1
    <3>2. CASE restarts' = restarts + 1
      BY <1>1, <3>2
    <3> QED BY <1>1, <3>1, <3>2
  <2>4. Fits(f, cached'[f], NBound', SumBound' + Tolerance * (restarts' + 1), measured'["max"],
             measured'["min"])
    BY <2>1, <2>2, <2>3, ClaimsOn
  <2> QED BY <2>4 DEF Claims
<1>9. ASSUME NEW h \in Handlers, NEW f \in DOMAIN snap'[h]
      PROVE  Claims(f, snap[h][f], restarts)'
  <2>1. CASE f \in Numbers
    <3>1. snap'[h][f] \in Nat /\ Claims(f, snap'[h][f], restarts)
      BY <1>2, <1>5, <2>1, SnapComesFrom DEF SnapTypes, ClaimInv
    <3> QED BY <1>4, <2>1, <3>1 DEF Claims
  <2>2. CASE f \notin Numbers
    BY <2>2, FitsOther DEF Claims
  <2> QED BY <2>1, <2>2
<1>10. ASSUME wpc' = "store"
       PROVE  Claims(Fields[wfield], reg, restarts)'
  <2>1. /\ wfield' = wfield
        /\ \/ wpc = "store" /\ reg' = reg
           \/ wpc = "load" /\ reg' = st[Fields[wfield]]
    BY <1>10, RegComesFrom
  <2>2. wfield \in 1 .. 5
    BY <2>1 DEF TypeInv, Busy
  <2>3. PICK f \in FieldNames : f = Fields[wfield]
    BY <2>2, FieldFacts
  <2>4. CASE f \in Numbers
    <3>1. wfield \in 1 .. 4
      BY <2>2, <2>3, <2>4, FieldIndex DEF Numbers
    <3>2. reg' \in Nat /\ Claims(f, reg', restarts)
      BY <1>2, <1>5, <2>1, <2>3, <2>4, <3>1 DEF TypeInv, ClaimInv
    <3>3. Fits(f, reg', NBound', SumBound' + Tolerance * restarts', measured'["max"],
               measured'["min"])
      BY <1>4, <2>4, <3>2
    <3> QED BY <2>1, <2>3, <3>3 DEF Claims
  <2>5. CASE f \notin Numbers
    <3>1. Fits(f, reg', NBound', SumBound' + Tolerance * restarts', measured'["max"],
               measured'["min"])
      BY <2>5, FitsOther
    <3> QED BY <2>1, <2>3, <3>1 DEF Claims
  <2> QED BY <2>4, <2>5
<1> QED BY <1>6, <1>7, <1>8, <1>9, <1>10 DEF ClaimInv

-----------------------------------------------------------------------------
(***************************************************************************)
(* The statistic is whole when the worker waits.                           *)
(***************************************************************************)

LEMMA WholeStep ==
  ASSUME TypeInv, QueueTypes, SnapTypes, WholeInv, [Next]_vars
  PROVE  WholeInv'
<1> SUFFICES ASSUME restarts' = 0
             PROVE  /\ main' # "restore"
                    /\ wpc' = "wait" => /\ st'.avg = <<st'.sum, st'.n>>
                                        /\ st'.n = 0 => st' = Zero
                    /\ Busy' /\ wfield' > 1 => st'.n > 0
                    /\ wpc' = "mset" => st'.n > 0 /\ st'.avg = <<st'.sum, st'.n>>
  BY DEF WholeInv
<1> DEFINE Whole == /\ main' # "restore"
                    /\ wpc' = "wait" => /\ st'.avg = <<st'.sum, st'.n>>
                                        /\ st'.n = 0 => st' = Zero
                    /\ Busy' /\ wfield' > 1 => st'.n > 0
                    /\ wpc' = "mset" => st'.n > 0 /\ st'.avg = <<st'.sum, st'.n>>
<1>1. restarts = 0 /\ restarts \in Nat
  BY ReplyComesFrom DEF TypeInv
<1>2. /\ main # "restore"
      /\ wpc = "wait" => st.avg = <<st.sum, st.n>> /\ (st.n = 0 => st = Zero)
      /\ Busy /\ wfield > 1 => st.n > 0
      /\ wpc = "mset" => st.n > 0 /\ st.avg = <<st.sum, st.n>>
  BY <1>1 DEF WholeInv
<1>3. CASE UNCHANGED <<wpc, wfield, st>> /\ main' # "restore"
  BY <1>2, <1>3 DEF Busy
<1>4. CASE Post \/ Tick \/ UNCHANGED vars
  <2>1. UNCHANGED <<wpc, wfield, st, main>>
    BY <1>4 DEF Post, Tick, vars, mainVars, workerVars
  <2> QED BY <1>2, <1>3, <2>1
<1>5. CASE Measure
  <2>1. /\ wpc = "wait" /\ st' = st /\ main' = main
        /\ (wpc' = "wait" /\ wfield' = wfield) \/ (wpc' = "load" /\ wfield' = 1)
    BY <1>5, MeasureIs DEF mainVars
  <2> QED BY <1>2, <2>1 DEF Busy
<1>6. CASE Load
  <2>1. wpc = "load" /\ wpc' = "store" /\ st' = st /\ main' = main /\ wfield' = wfield
    BY <1>6 DEF Load, WorkerMoves, mainVars
  <2> QED BY <1>2, <2>1 DEF Busy
<1>7. CASE StoreField
  <2>1. /\ wpc = "store" /\ wfield \in 1 .. 5 /\ Busy /\ main' = main
        /\ Fields[wfield] \in FieldNames
        /\ \/ wfield < 5 /\ wpc' = "load" /\ wfield' = wfield + 1
           \/ wfield = 5 /\ wpc' = "mset" /\ wfield' = 5
    BY <1>7, StoreIs DEF mainVars
  <2>2. /\ st' \in Stat /\ st'[Fields[wfield]] = Updated(Fields[wfield], reg)
        /\ \A g \in FieldNames : g # Fields[wfield] => st'[g] = st[g]
    BY <1>7, StoredTypes
  <2>3. {"n", "sum"} \subseteq FieldNames
    BY FieldFacts DEF Numbers
  <2>4. CASE wfield = 1
    <3>1. st'["n"] = reg + 1 /\ reg \in Nat
      BY <2>1, <2>2, <2>3, <2>4, FieldFacts, UpdatedIs DEF TypeInv
    <3>2. wpc' = "load" /\ main' # "restore"
      BY <1>2, <2>1, <2>4
    <3> QED BY <3>1, <3>2
  <2>5. CASE wfield > 1
    <3>1. "n" # Fields[wfield]
      BY <2>1, <2>5, FieldIndex
    <3>2. st'["n"] = st["n"] /\ st["n"] > 0
      BY <1>2, <2>1, <2>2, <2>3, <2>5, <3>1
    <3>3. wfield = 5 => st'["avg"] = <<st["sum"], st["n"]>> /\ st'["sum"] = st["sum"]
      <4>1. ASSUME wfield = 5
            PROVE  Fields[wfield] = "avg"
        BY <4>1, FieldFacts
      <4> QED BY <2>1, <2>2, <2>3, <4>1, UpdatedIs
    <3>4. main' # "restore" /\ wpc' # "wait" /\ (wpc' = "mset" => wfield = 5)
      BY <1>2, <2>1
    <3> QED BY <3>2, <3>3, <3>4
  <2> QED BY <2>1, <2>4, <2>5
<1>8. CASE MSet
  <2>1. wpc = "mset" /\ wpc' = "wait" /\ st' = st /\ main' = main
    BY <1>8 DEF MSet, WorkerMoves, mainVars
  <2> QED BY <1>2, <2>1 DEF Busy
<1>9. CASE Reset \/ Crash
  <2>1. wpc' = "wait" /\ st' = Zero /\ main' # "restore"
    BY <1>2, <1>9 DEF Reset, Crash, Arrives, mainVars, workerVars
  <2>2. Zero.avg = <<Zero.sum, Zero.n>>
    BY DEF Zero
  <2> QED BY <2>1, <2>2 DEF Busy
<1>10. ASSUME NEW h \in Handlers, InitReads(h) \/ InitWrites(h)
       PROVE  Whole
  <2>1. UNCHANGED <<wpc, wfield, st, main>>
    BY <1>10 DEF InitReads, InitWrites, Arrives, mainVars, workerVars
  <2> QED BY <1>2, <1>3, <2>1
<1>11. CASE MainStep
  <2>1. UNCHANGED <<wpc, wfield, st>> /\ main' # "restore"
    BY <1>1, <1>2, <1>11 DEF MainStep, PushListed, MGet, Restore, MainMoves, workerVars
  <2> QED BY <1>3, <2>1
<1> QED BY <1>4, <1>5, <1>6, <1>7, <1>8, <1>9, <1>10, <1>11 DEF Next, WorkerStep

-----------------------------------------------------------------------------
(***************************************************************************)
(* The statistic survives restarts.                                        *)
(***************************************************************************)

\* When nothing meddles after a step, nothing did before it.
LEMMA AloneBefore ==
  ASSUME TypeInv, SnapTypes, [Next]_vars, Alone'
  PROVE  /\ Alone /\ ~Reset
         /\ PushListed => stopped'
         /\ \A h \in Handlers : DOMAIN snap[h] = {} => ~InitReads(h)
<1>1. ~raced'
  BY DEF Alone
<1>2. ~raced /\ (PushListed => stopped')
  <2>1. raced' = raced \/ PushListed
    <3>1. CASE WorkerStep
      <4>1. \A a, b : WorkerMoves(a, b) => raced' = raced
        BY ZenonT(30) DEF WorkerMoves
      <4> QED BY <3>1, <4>1, ZenonT(30) DEF WorkerStep, Measure, Load, StoreField, MSet
    <3>2. CASE Post \/ Tick \/ Reset \/ \E h \in Handlers : InitReads(h) \/ InitWrites(h)
      BY <3>2, ZenonT(30) DEF Post, Tick, Reset, InitReads, InitWrites, Arrives, historyVars
    <3>3. CASE MainStep
      BY <3>3, ZenonT(30) DEF MainStep, MGet, Restore
    <3>4. CASE Crash \/ UNCHANGED vars
      BY <3>4, ZenonT(30) DEF Crash, vars, historyVars
    <3> QED BY <3>1, <3>2, <3>3, <3>4 DEF Next
  <2>2. PushListed => raced' = (raced \/ ~stopped')
    BY ZenonT(30) DEF PushListed
  <2>3. ASSUME PushListed
        PROVE  ~raced /\ stopped'
    <3>1. raced' = (raced \/ ~stopped')
      BY <2>2, <2>3
    <3>2. ~(raced \/ ~stopped')
      BY <1>1, <3>1, ZenonT(30)
    <3> QED BY <3>2, ZenonT(30)
  <2>4. raced' = raced => ~raced
    BY <1>1, SMT
  <2> QED BY <2>1, <2>3, <2>4, ZenonT(30)
<1>3. admin = 0 /\ ~Reset /\ \A h \in Handlers : DOMAIN snap[h] = {} => ~InitReads(h)
  <2>1. admin' = 0 /\ admin \in Nat
    BY DEF Alone, TypeInv
  <2>2. ASSUME NEW k, Arrives(k)
        PROVE  FALSE
    <3>1. admin' = admin + 1
      BY <2>2 DEF Arrives
    <3> QED BY <2>1, <3>1
  <2>3. ~Reset
    BY <2>2 DEF Reset
  <2>4. \A h \in Handlers : DOMAIN snap[h] = {} => ~InitReads(h)
    BY <2>2 DEF InitReads
  <2>5. admin' = admin
    <3>1. CASE Post \/ Tick \/ WorkerStep \/ MainStep \/ Crash \/ UNCHANGED vars
      BY <3>1 DEF Post, Tick, WorkerStep, Measure, Load, StoreField, MSet, WorkerMoves,
                  MainStep, PushListed, MGet, Restore, MainMoves, Crash, vars, historyVars
    <3>2. ASSUME NEW h \in Handlers, InitReads(h) \/ InitWrites(h)
          PROVE  admin' = admin
      BY <2>2, <3>2 DEF InitReads, InitWrites, historyVars
    <3> QED BY <2>3, <3>1, <3>2 DEF Next
  <2> QED BY <2>1, <2>3, <2>4, <2>5
<1> QED BY <1>2, <1>3 DEF Alone

\* What the worker thread has stored tells the durations with the one in work.
LEMMA LikeStored ==
  ASSUME TypeInv, StoreField, NEW i \in 1 .. 4,
         reg = st[Fields[wfield]],
         \A j \in 1 .. 4 : Like(Fields[j], st[Fields[j]], Told(j), restarts)
  PROVE  Like(Fields[i], st'[Fields[i]], Told(i)', restarts)
<1>1. /\ wpc = "store" /\ wfield \in 1 .. 5 /\ Busy
      /\ UNCHANGED <<v, truth>>
      /\ \/ wfield < 5 /\ wpc' = "load" /\ wfield' = wfield + 1
         \/ wfield = 5 /\ wpc' = "mset" /\ wfield' = 5
  BY StoreIs
<1>2. /\ st'[Fields[wfield]] = Updated(Fields[wfield], reg)
      /\ \A g \in FieldNames : g # Fields[wfield] => st'[g] = st[g]
  BY StoredTypes
<1>3. /\ i < wfield => Told(i) = Add(truth, v)
      /\ ~(i < wfield) => Told(i) = truth
  BY <1>1 DEF Told, Busy
<1>4. /\ i <= wfield => Told(i)' = Add(truth, v)
      /\ ~(i <= wfield) => Told(i)' = truth
  BY <1>1 DEF Told, Busy
<1>5. Like(Fields[i], st[Fields[i]], Told(i), restarts)
  OBVIOUS
<1>6. CASE i # wfield
  <2>1. st'[Fields[i]] = st[Fields[i]]
    BY <1>1, <1>2, <1>6, FieldFacts
  <2>2. Told(i)' = Told(i)
    BY <1>1, <1>3, <1>4, <1>6
  <2> QED BY <1>5, <2>1, <2>2
<1>7. CASE i = wfield
  <2>1. PICK f \in Numbers : f = Fields[i]
    BY FieldFacts
  <2>2. reg \in Nat /\ v \in Nat /\ restarts \in Nat /\ \A g \in Numbers : truth[g] \in Nat
    BY <1>1, <1>7 DEF TypeInv
  <2>3. Like(f, reg, truth, restarts)
    BY <1>3, <1>5, <1>7, <2>1
  <2>4. Like(f, Updated(f, reg), Add(truth, v), restarts)
    BY <2>2, <2>3, LikeAdded
  <2>5. Told(i)' = Add(truth, v)
    BY <1>1, <1>4, <1>7
  <2> QED BY <1>2, <1>7, <2>1, <2>4, <2>5
<1> QED BY <1>6, <1>7

LEMMA SurviveStep ==
  ASSUME TypeInv, TypeInv', QueueTypes, SnapTypes, SnapTypes', SurviveInv, [Next]_vars
  PROVE  SurviveInv'
<1> DEFINE Survives ==
    /\ \A h \in Handlers : DOMAIN snap'[h] = {}
    /\ main' \in {"fetch", "restore"} => stopped'
    /\ main' # "up" => wpc' = "wait"
    /\ \A f \in Numbers : Like(f, cached'[f], truth', restarts' + 1)
    /\ cached'.avg[2] = cached'.n
    /\ main' = "up" =>
         /\ \A i \in 1 .. 4 : Like(Fields[i], st'[Fields[i]], Told(i)', restarts')
         /\ wpc' \in {"wait", "mset"} => st'.avg[2] = st'.n
    /\ wpc' = "store" => reg' = st'[Fields[wfield']]
    /\ main' = "restore" =>
         /\ reply' = cached' /\ \A i \in 1 .. 5 : i < mfield' => st'[Fields[i]] = cached'[Fields[i]]
         /\ \A f \in Numbers : Like(f, cached'[f], truth', restarts')
<1> SUFFICES ASSUME Alone'
             PROVE  Survives
  BY DEF SurviveInv
<1>1. /\ Alone /\ ~Reset
      /\ PushListed => stopped'
      /\ \A h \in Handlers : DOMAIN snap[h] = {} => ~InitReads(h)
  BY AloneBefore
<1>2. /\ \A h \in Handlers : DOMAIN snap[h] = {}
      /\ main \in {"fetch", "restore"} => stopped
      /\ main # "up" => wpc = "wait"
      /\ \A f \in Numbers : Like(f, cached[f], truth, restarts + 1)
      /\ cached.avg[2] = cached.n
      /\ main = "up" => /\ \A i \in 1 .. 4 : Like(Fields[i], st[Fields[i]], Told(i), restarts)
                        /\ wpc \in {"wait", "mset"} => st.avg[2] = st.n
      /\ wpc = "store" => reg = st[Fields[wfield]]
      /\ main = "restore" =>
           /\ reply = cached /\ \A i \in 1 .. 5 : i < mfield => st[Fields[i]] = cached[Fields[i]]
           /\ \A f \in Numbers : Like(f, cached[f], truth, restarts)
  BY <1>1 DEF SurviveInv
<1>3. /\ restarts \in Nat /\ v \in Nat /\ \A f \in Numbers : truth[f] \in Nat
      /\ st \in Stat /\ cached \in Stat /\ reply \in Stat
  BY DEF TypeInv
<1>4. /\ DOMAIN snap = Handlers
      /\ \A h \in Handlers : ~InitReads(h) /\ ~InitWrites(h)
  <2>1. FieldNames # {}
    BY FieldFacts
  <2> QED BY <1>1, <1>2, <2>1 DEF SnapTypes, InitWrites
<1>5. CASE Post \/ Tick \/ UNCHANGED vars
  <2>1. UNCHANGED <<main, mfield, reply, stopped, wpc, wfield, reg, v, st, cached, snap, truth,
                    restarts>>
    BY <1>5 DEF Post, Tick, vars, mainVars, workerVars, historyVars
  <2>2. \A i \in 1 .. 4 : Told(i)' = Told(i)
    BY <2>1 DEF Told, Busy
  <2> QED BY <1>2, <2>1, <2>2
<1>6. CASE Measure
  <2>1. /\ wpc = "wait" /\ (stopped => main = "up") /\ queue # <<>>
        /\ UNCHANGED <<main, mfield, reply, stopped, reg, st, cached, snap, truth, restarts>>
        /\ wpc' = "wait" \/ (wpc' = "load" /\ wfield' = 1)
    BY <1>6, MeasureIs DEF mainVars
  <2>2. main = "up"
    BY <1>2, <2>1 DEF QueueTypes, TypeInv
  <2>3. \A i \in 1 .. 4 : Told(i)' = truth /\ Told(i) = truth
    BY <2>1 DEF Told, Busy
  <2> QED BY <1>2, <2>1, <2>2, <2>3
<1>7. CASE Load
  <2>1. /\ wpc = "load" /\ wpc' = "store" /\ reg' = st[Fields[wfield]]
        /\ UNCHANGED <<main, mfield, reply, stopped, wfield, v, st, cached, snap, truth, restarts>>
    BY <1>7 DEF Load, WorkerMoves, mainVars
  <2>2. \A i \in 1 .. 4 : Told(i)' = Told(i)
    BY <2>1 DEF Told, Busy
  <2> QED BY <1>2, <2>1, <2>2
<1>8. CASE StoreField
  <2>1. /\ wpc = "store" /\ wfield \in 1 .. 5
        /\ UNCHANGED <<main, mfield, reply, stopped, v, cached, snap, truth, restarts>>
        /\ \/ wfield < 5 /\ wpc' = "load" /\ wfield' = wfield + 1
           \/ wfield = 5 /\ wpc' = "mset" /\ wfield' = 5
    BY <1>8, StoreIs DEF mainVars
  <2>2. main = "up"
    BY <1>2, <2>1
  <2>3. \A i \in 1 .. 4 : Like(Fields[i], st'[Fields[i]], Told(i)', restarts')
    BY <1>2, <1>8, <2>1, <2>2, LikeStored
  <2>4. wpc' = "mset" => st'["avg"][2] = st'["n"]
    <3>1. ASSUME wpc' = "mset"
          PROVE  Fields[wfield] = "avg" /\ "n" \in FieldNames
      BY <2>1, <3>1, FieldFacts DEF Numbers
    <3>2. wpc' = "mset" => st'["avg"] = <<st["sum"], st["n"]>> /\ st'["n"] = st["n"]
      BY <1>8, <3>1, StoredTypes, UpdatedIs, FieldFacts
    <3> QED BY <3>2
  <2> QED BY <1>2, <2>1, <2>2, <2>3, <2>4
<1>9. CASE MSet
  <2>1. /\ wpc = "mset" /\ wpc' = "wait" /\ cached' = Printed(st) /\ truth' = Add(truth, v)
        /\ UNCHANGED <<main, mfield, reply, stopped, st, snap, restarts>>
    BY <1>9 DEF MSet, WorkerMoves, mainVars
  <2>2. main = "up"
    BY <1>2, <2>1
  <2>3. \A i \in 1 .. 4 : Told(i) = Add(truth, v) /\ Told(i)' = Add(truth, v)
    BY <2>1 DEF Told, Busy
  <2>4. \A f \in Numbers : truth'[f] \in Nat
    BY DEF TypeInv
  <2>5. \A f \in Numbers : Like(f, st[f], truth', restarts) /\ st[f] \in Nat
    BY <1>2, <1>3, <2>1, <2>2, <2>3, FieldFacts, StatFacts
  <2>6. ASSUME NEW f \in Numbers
        PROVE  Like(f, cached'[f], truth', restarts' + 1)
    <3>1. CASE f = "n"
      <4>1. cached'[f] = st[f]
        BY <1>3, <2>1, <3>1, PrintedFields, StatFacts
      <4> QED BY <2>5, <3>1, <4>1 DEF Like
    <3>2. CASE f # "n"
      <4>1. cached'[f] = Decimal(st[f])
        BY <1>3, <2>1, <3>2, PrintedFields, StatFacts
      <4>2. Like(f, Decimal(st[f]), truth', restarts + 1)
        BY <1>3, <2>4, <2>5, <3>2, LikePrinted
      <4> QED BY <2>1, <4>1, <4>2
    <3> QED BY <3>1, <3>2
  <2>7. cached'["avg"][2] = cached'["n"] /\ st'["avg"][2] = st'["n"]
    <3>1. cached'["avg"] = st["avg"] /\ cached'["n"] = st["n"]
      BY <1>3, <2>1, PrintedFields, StatFacts
    <3> QED BY <1>2, <2>1, <2>2, <3>1
  <2> QED BY <1>2, <2>1, <2>2, <2>3, <2>6, <2>7
<1>10. CASE PushListed
  <2>1. /\ main' = "fetch" /\ stopped' /\ main = "down"
        /\ UNCHANGED <<wpc, wfield, reg, st, cached, snap, truth, restarts>>
    BY <1>1, <1>10 DEF PushListed, MainMoves, workerVars
  <2> QED BY <1>2, <2>1
<1>11. CASE MGet
  <2>1. /\ main' = "restore" /\ main = "fetch" /\ reply' = cached /\ mfield' = 1
        /\ restarts' = restarts + 1
        /\ UNCHANGED <<wpc, wfield, reg, st, cached, snap, truth, stopped>>
    BY <1>11 DEF MGet, MainMoves, workerVars
  <2>2. \A f \in Numbers : Like(f, cached[f], truth, (restarts + 1) + 1)
    <3>1. restarts + 1 \in Nat /\ \A f \in Numbers : cached[f] \in Nat
      BY <1>3, StatFacts
    <3> QED BY <1>2, <1>3, <3>1, LikeWeak
  <2> QED BY <1>2, <2>1, <2>2
<1>12. CASE Restore
  <2>1. /\ main = "restore" /\ mfield \in 1 .. 5
        /\ UNCHANGED <<wpc, wfield, reg, v, cached, snap, truth, reply, stopped, restarts>>
        /\ \/ mfield < 5 /\ main' = "restore" /\ mfield' = mfield + 1
           \/ mfield = 5 /\ main' = "up" /\ mfield' = 0
    BY <1>12, RestoreIs DEF workerVars
  <2>2. /\ st'[Fields[mfield]] = reply[Fields[mfield]]
        /\ \A g \in FieldNames : g # Fields[mfield] => st'[g] = st[g]
    BY <1>12, RestoredTypes
  <2>3. wpc = "wait" /\ reply = cached
    BY <1>2, <2>1
  <2>4. \A i \in 1 .. 5 : i <= mfield => st'[Fields[i]] = cached[Fields[i]]
    <3>1. ASSUME NEW i \in 1 .. 5, i < mfield
          PROVE  st'[Fields[i]] = cached[Fields[i]]
      BY <1>2, <2>1, <2>2, <3>1, FieldFacts
    <3>2. st'[Fields[mfield]] = cached[Fields[mfield]]
      BY <2>2, <2>3
    <3> QED BY <2>1, <3>1, <3>2
  <2>5. CASE mfield < 5
    BY <1>2, <2>1, <2>3, <2>4, <2>5
  <2>6. CASE mfield = 5
    <3>1. st'["n"] = cached["n"] /\ st'["avg"] = cached["avg"]
      BY <2>4, <2>6, FieldFacts
    <3>2. \A i \in 1 .. 4 : Told(i)' = truth
      BY <2>1, <2>3 DEF Told, Busy
    <3>3. \A i \in 1 .. 4 : /\ st'[Fields[i]] = cached[Fields[i]]
                            /\ Like(Fields[i], cached[Fields[i]], truth, restarts)
      BY <1>2, <2>1, <2>4, <2>6, FieldFacts
    <3> QED BY <1>2, <2>1, <2>3, <2>6, <3>1, <3>2, <3>3
  <2> QED BY <2>1, <2>5, <2>6
<1>13. CASE Crash
  <2>1. /\ main' = "down" /\ wpc' = "wait" /\ UNCHANGED <<cached, truth, restarts>>
        /\ snap' = [h \in Handlers |-> Nothing]
    BY <1>13 DEF Crash
  <2>2. \A h \in Handlers : DOMAIN snap'[h] = {}
    BY <2>1 DEF Nothing
  <2> QED BY <1>2, <2>1, <2>2
<1> QED BY <1>1, <1>4, <1>5, <1>6, <1>7, <1>8, <1>9, <1>10, <1>11, <1>12, <1>13
        DEF Next, WorkerStep, MainStep

-----------------------------------------------------------------------------
(***************************************************************************)
(* The invariant and the theorems.                                         *)
(***************************************************************************)

LEMMA InitInv == Init => IInv
<1> SUFFICES ASSUME Init
             PROVE  IInv
  OBVIOUS
<1>1. /\ main = "up" /\ mfield = 0 /\ reply = Zero /\ wpc = "wait" /\ wfield = 0 /\ v = 0
      /\ st = Zero /\ cached = Zero /\ queue = <<>> /\ listed = 0 /\ restarts = 0 /\ admin = 0
      /\ snap = [h \in Handlers |-> Nothing] /\ now = StartTime
      /\ measured = [n |-> 0, min |-> DataMax, max |-> 0, sum |-> 0] /\ truth = measured
  BY DEF Init
<1>2. /\ measured["n"] = 0 /\ measured["min"] = DataMax /\ measured["max"] = 0
      /\ measured["sum"] = 0 /\ measured.n = 0 /\ measured.min = DataMax /\ measured.max = 0
      /\ measured.sum = 0
  BY <1>1
<1>3. /\ Zero["n"] = 0 /\ Zero["min"] = DataMax /\ Zero["max"] = 0
      /\ Zero["sum"] = 0 /\ Zero["avg"] = <<0, 0>>
  BY DEF Zero
<1>4. StartTime \in Nat
  BY BoundsAssumption
<1>5. TypeInv
  BY <1>1, <1>2, <1>4, ZeroStat, UnitFacts DEF TypeInv, Numbers, Busy
<1>6. QueueTypes
  BY <1>1 DEF QueueTypes
<1>7. FlagTypes
  <2>1. stopped = FALSE /\ raced = FALSE
    BY DEF Init
  <2> QED BY <2>1 DEF FlagTypes
<1>8. SnapTypes
  BY <1>1 DEF SnapTypes, Nothing
<1>9. WorkInv
  BY <1>1 DEF WorkInv
<1>10. ClaimInv
  <2>1. \A h \in Handlers : DOMAIN snap[h] = {}
    BY <1>1 DEF Nothing
  <2>2. \A f \in Numbers : \A k \in Nat : Claims(f, Zero[f], k)
    BY <1>5, <1>9, ClaimsZero
  <2> QED BY <1>1, <2>1, <2>2 DEF ClaimInv
<1>11. WholeInv
  BY <1>1, <1>3 DEF WholeInv, Busy
<1>12. SurviveInv
  <2>1. \A h \in Handlers : DOMAIN snap[h] = {}
    BY <1>1 DEF Nothing
  <2>2. Tolerance * 0 = 0 /\ Tolerance * 1 = Tolerance /\ Tolerance \in Nat
    BY UnitFacts
  <2>3. \A f \in Numbers : Like(f, Zero[f], truth, 0) /\ Like(f, Zero[f], truth, 1)
    BY <1>1, <1>2, <1>3, <2>2, UnitFacts DEF Like
  <2>4. \A i \in 1 .. 4 : Told(i) = truth
    BY <1>1 DEF Told, Busy
  <2> QED BY <1>1, <1>3, <2>1, <2>3, <2>4, FieldFacts DEF SurviveInv
<1> QED BY <1>5, <1>6, <1>7, <1>8, <1>9, <1>10, <1>11, <1>12 DEF IInv

LEMMA NextInv == IInv /\ [Next]_vars => IInv'
<1> SUFFICES ASSUME IInv, [Next]_vars
             PROVE  IInv'
  OBVIOUS
<1>1. /\ TypeInv /\ QueueTypes /\ FlagTypes /\ SnapTypes /\ WorkInv
      /\ ClaimInv /\ WholeInv /\ SurviveInv
  BY DEF IInv
<1>2. TypeInv' /\ QueueTypes' /\ FlagTypes' /\ SnapTypes' /\ WorkInv'
  BY <1>1, TypeStep, QueueStep, FlagStep, SnapStep, WorkStep
<1>3. ClaimInv'
  BY <1>1, <1>2, ClaimStep
<1>4. WholeInv'
  BY <1>1, WholeStep
<1>5. SurviveInv'
  BY <1>1, <1>2, SurviveStep
<1> QED BY <1>2, <1>3, <1>4, <1>5 DEF IInv

\* Whatever the threads do and wherever the process ends, no value on the way to
\* the statistic claims more than was measured, and nothing that was measured is
\* lost while no request meddles and the worker waits for the restart.
THEOREM TimeStatsInvariant == Spec => []IInv
BY InitInv, NextInv, PTL DEF Spec

\* The variables have their types: the worker never takes a transaction of a
\* later time than now, and the list never falls short of the queue.
THEOREM TypeCorrect == Spec => []TypeOK
<1>1. IInv => TypeOK
  <2> SUFFICES ASSUME IInv
               PROVE  TypeOK
    OBVIOUS
  <2>1. TypeInv /\ QueueTypes /\ FlagTypes
    BY DEF IInv
  <2>2. stopped \in BOOLEAN /\ raced \in BOOLEAN
    BY <2>1 DEF FlagTypes
  <2>3. queue \in Seq(0 .. now) /\ listed \in Nat /\ Len(queue) <= listed
    <3>1. queue \in Seq(Nat) /\ now \in Nat /\ \A i \in 1 .. Len(queue) : queue[i] <= now
      BY <2>1 DEF QueueTypes, TypeInv
    <3>2. \A i \in 1 .. Len(queue) : queue[i] \in 0 .. now
      BY <3>1
    <3>3. queue \in Seq(0 .. now)
      BY <3>1, <3>2
    <3> QED BY <2>1, <3>3 DEF QueueTypes
  <2>4. Len(Fields) = 5
    BY FieldFacts
  <2> QED BY <2>1, <2>2, <2>3, <2>4 DEF TypeInv, TypeOK
<1> QED BY <1>1, TimeStatsInvariant, PTL

\* The race of the worker thread with the restore of service_init and with
\* data/init can lose a duration but never invents one: neither memory nor
\* Redis claims more durations, a larger sum, a larger maximum or a smaller
\* minimum than was measured.
THEOREM WithinMeasuredCorrect == Spec => []WithinMeasured
<1>1. IInv => WithinMeasured
  <2> SUFFICES ASSUME IInv, NEW s \in {st, cached}
               PROVE  /\ s.n <= measured.n
                      /\ s.sum <= measured.sum + Tolerance * (restarts + 1)
                      /\ s.max <= measured.max + Tolerance
                      /\ s.min >= measured.min - Tolerance
    BY DEF WithinMeasured
  <2>1. TypeInv /\ WorkInv /\ ClaimInv
    BY DEF IInv
  <2>2. s \in Stat /\ restarts \in Nat /\ v \in Nat
    BY <2>1 DEF TypeInv
  <2>3. /\ NBound \in Nat /\ SumBound \in Nat /\ measured["n"] \in Nat /\ measured["sum"] \in Nat
        /\ measured["max"] \in Nat /\ measured["min"] \in Nat
        /\ NBound <= measured["n"] /\ SumBound <= measured["sum"]
    BY <2>1, <2>2, BoundTypes DEF NBound, SumBound
  <2>4. PICK t \in Nat, u \in Nat : /\ t = Tolerance * restarts /\ u = Tolerance * (restarts + 1)
                                    /\ t <= u
    BY <2>2, OneMore, UnitFacts
  <2>5. PICK w \in {t, u} :
          \A f \in Numbers : Fits(f, s[f], NBound, SumBound + w, measured["max"], measured["min"])
    <3>1. CASE s = st
      BY <2>1, <2>4, <3>1 DEF ClaimInv, Claims
    <3>2. CASE s = cached
      BY <2>1, <2>4, <3>2 DEF ClaimInv, Claims
    <3> QED BY <3>1, <3>2
  <2>6. /\ s["n"] <= NBound /\ s["sum"] <= SumBound + w
        /\ s["max"] <= measured["max"] + Tolerance /\ s["min"] >= measured["min"] - Tolerance
    BY <2>5 DEF Fits, Numbers
  <2>7. s["n"] \in Nat /\ s["sum"] \in Nat
    BY <2>2, StatFacts
  <2>8. s["sum"] <= measured["sum"] + u
    BY <2>3, <2>4, <2>6, <2>7
  <2> QED BY <2>3, <2>4, <2>6, <2>7, <2>8
<1> QED BY <1>1, TimeStatsInvariant, PTL

\* Until the first restart the mutex keeps the fields together: the average is
\* that of the sum and the number beside it, and a statistic of nothing has the
\* default values.
THEOREM CoherentCorrect == Spec => []Coherent
<1>1. IInv => Coherent
  BY DEF IInv, WholeInv, Coherent
<1> QED BY <1>1, TimeStatsInvariant, PTL

\* What was measured survives crashes and restarts, up to what printing loses,
\* when the worker was stopped before each restart and no request meddled.
THEOREM SurvivesRestartCorrect == Spec => []SurvivesRestart
<1>1. IInv => SurvivesRestart
  <2> SUFFICES ASSUME IInv, ~raced, admin = 0
               PROVE  /\ Tells(cached, truth)
                      /\ main = "up" /\ wpc = "wait" => Tells(st, truth)
    BY DEF SurvivesRestart
  <2>1. TypeInv /\ SurviveInv /\ Alone
    BY DEF IInv, Alone
  <2>2. /\ \A f \in Numbers : Like(f, cached[f], truth, restarts + 1)
        /\ cached.avg[2] = cached.n
        /\ main = "up" => /\ \A i \in 1 .. 4 : Like(Fields[i], st[Fields[i]], Told(i), restarts)
                          /\ wpc \in {"wait", "mset"} => st.avg[2] = st.n
    BY <2>1 DEF SurviveInv
  <2>3. /\ restarts \in Nat /\ st \in Stat /\ cached \in Stat
        /\ \A f \in Numbers : truth[f] \in Nat
    BY <2>1 DEF TypeInv
  <2>4. ASSUME NEW s \in Stat, s.avg[2] = s.n,
               \A f \in Numbers : Like(f, s[f], truth, restarts + 1)
        PROVE  Tells(s, truth)
    <3>1. PICK u \in Nat : u = Tolerance * (restarts + 1)
      BY <2>3, OneMore
    <3>2. /\ s["n"] = truth["n"]
          /\ s["sum"] <= truth["sum"] + u /\ truth["sum"] <= s["sum"] + u
          /\ s["max"] <= truth["max"] + Tolerance /\ truth["max"] <= s["max"] + Tolerance
          /\ s["min"] <= truth["min"] + Tolerance /\ truth["min"] <= s["min"] + Tolerance
      BY <2>4, <3>1 DEF Like, Numbers
    <3>3. /\ s["sum"] \in Nat /\ s["max"] \in Nat /\ s["min"] \in Nat
          /\ truth["sum"] \in Nat /\ truth["max"] \in Nat /\ truth["min"] \in Nat
          /\ Tolerance \in Nat
      BY <2>3, StatFacts, UnitFacts DEF Numbers
    <3>4. /\ s["sum"] - truth["sum"] \in -u .. u
          /\ s["max"] - truth["max"] \in -Tolerance .. Tolerance
          /\ s["min"] - truth["min"] \in -Tolerance .. Tolerance
      BY <3>1, <3>2, <3>3
    <3>5. -Tolerance * (restarts + 1) = -u
      BY <2>3, <3>1, <3>3
    <3> QED BY <2>4, <3>1, <3>2, <3>4, <3>5 DEF Tells
  <2>5. Tells(cached, truth)
    BY <2>2, <2>3, <2>4
  <2>6. ASSUME main = "up", wpc = "wait"
        PROVE  Tells(st, truth)
    <3>1. \A i \in 1 .. 4 : Told(i) = truth
      BY <2>6 DEF Told, Busy
    <3>2. \A f \in Numbers : Like(f, st[f], truth, restarts) /\ st[f] \in Nat
      BY <2>2, <2>3, <2>6, <3>1, FieldFacts, StatFacts
    <3>3. \A f \in Numbers : Like(f, st[f], truth, restarts + 1)
      BY <2>3, <3>2, LikeWeak
    <3> QED BY <2>2, <2>3, <2>4, <2>6, <3>3
  <2> QED BY <2>5, <2>6
<1> QED BY <1>1, TimeStatsInvariant, PTL

=============================================================================
