----------------------------- MODULE SeqLemmas -----------------------------
(***************************************************************************)
(* What Append, Tail and the removal of a value do to the elements of a    *)
(* sequence.  The job queue and the list in Redis are such sequences.      *)
(***************************************************************************)
EXTENDS Naturals, Sequences, FiniteSets, SequencesExt, FiniteSetsExt, SequenceTheorems,
        FiniteSetTheorems, TLAPS

\* No value but n is in the sequence twice.
NoRepeats(s, n) == \A i, j \in DOMAIN s : s[i] = s[j] /\ s[i] # n => i = j

\* Appending e adds e to the elements (RPUSH, worker_push_job).
LEMMA ToSetAppend ==
  ASSUME NEW S, NEW s \in Seq(S), NEW e \in S
  PROVE  ToSet(Append(s, e)) = ToSet(s) \cup {e}
<1>1. /\ Append(s, e) \in Seq(S) /\ Len(Append(s, e)) = Len(s) + 1
      /\ \A i \in 1 .. Len(s) : Append(s, e)[i] = s[i]
      /\ Append(s, e)[Len(s) + 1] = e
  BY AppendProperties
<1>2. DOMAIN Append(s, e) = 1 .. Len(s) + 1 /\ DOMAIN s = 1 .. Len(s) /\ Len(s) \in Nat
  BY <1>1, LenProperties
<1> QED BY <1>1, <1>2 DEF ToSet

\* When e is at position k only, RemoveFirst cuts the sequence there.
LEMMA SelectUnique ==
  ASSUME NEW S, NEW s \in Seq(S), NEW n, NEW e, e # n, NoRepeats(s, n),
         NEW k \in 1 .. Len(s), s[k] = e
  PROVE  RemoveFirst(s, e) = SubSeq(s, 1, k - 1) \o SubSeq(s, k + 1, Len(s))
<1>1. DOMAIN s = 1 .. Len(s) /\ Len(s) \in Nat
  BY LenProperties
<1>2. {i \in 1 .. Len(s) : s[i] = e} = {k}
  BY <1>1 DEF NoRepeats
<1>3. SelectInSeq(s, LAMBDA v : v = e) = k
  BY <1>2 DEF SelectInSeq, Min
<1> QED BY <1>3 DEF RemoveFirst, RemoveAt

\* Removing the first e from a sequence without repetitions removes all there is
\* of e, and nothing else (LREM with the count 1).
LEMMA RemoveFirstUnique ==
  ASSUME NEW S, NEW s \in Seq(S), NEW n, NEW e, e # n, NoRepeats(s, n)
  PROVE  /\ RemoveFirst(s, e) \in Seq(S)
         /\ NoRepeats(RemoveFirst(s, e), n)
         /\ ToSet(RemoveFirst(s, e)) = ToSet(s) \ {e}
<1>1. DOMAIN s = 1 .. Len(s) /\ Len(s) \in Nat /\ \A i \in 1 .. Len(s) : s[i] \in S
  BY LenProperties
<1>2. CASE \E k \in 1 .. Len(s) : s[k] = e
  <2> PICK k \in 1 .. Len(s) : s[k] = e
    BY <1>2
  <2> DEFINE a == SubSeq(s, 1, k - 1)
             b == SubSeq(s, k + 1, Len(s))
             r == RemoveFirst(s, e)
  <2>1. r = a \o b
    BY SelectUnique
  <2>2. a \in Seq(S) /\ Len(a) = k - 1 /\ \A i \in 1 .. k - 1 : a[i] = s[i]
    BY <1>1, SubSeqProperties
  <2>3. /\ b \in Seq(S) /\ Len(b) = Len(s) - k
        /\ \A i \in 1 .. Len(s) - k : b[i] = s[k + i]
    <3>1. \A i \in k + 1 .. Len(s) : s[i] \in S
      BY <1>1
    <3>2. /\ b \in Seq(S)
          /\ Len(b) = IF k + 1 <= Len(s) THEN Len(s) - (k + 1) + 1 ELSE 0
          /\ \A i \in 1 .. Len(s) - (k + 1) + 1 : b[i] = s[k + 1 + i - 1]
      BY <1>1, <3>1, SubSeqProperties
    <3> HIDE DEF b
    <3>3. ASSUME NEW i \in 1 .. Len(s) - k PROVE b[i] = s[k + i]
      <4>1. i \in 1 .. Len(s) - (k + 1) + 1 /\ k + 1 + i - 1 = k + i
        BY <1>1
      <4> QED BY <3>2, <4>1
    <3>4. Len(b) = Len(s) - k
      <4>1. CASE k + 1 <= Len(s)
        BY <1>1, <3>2, <4>1
      <4>2. CASE k = Len(s)
        BY <1>1, <3>2, <4>2
      <4>3. ASSUME NEW u \in Nat, NEW m \in 1 .. u PROVE m + 1 <= u \/ m = u
        OBVIOUS
      <4>4. k + 1 <= Len(s) \/ k = Len(s)
        BY <1>1, <4>3
      <4> QED BY <4>1, <4>2, <4>4
    <3> QED BY <3>2, <3>3, <3>4
  <2> HIDE DEF a, b
  <2>4. /\ r \in Seq(S) /\ Len(r) = Len(s) - 1
        /\ \A i \in 1 .. k - 1 : r[i] = s[i]
        /\ \A i \in k .. Len(s) - 1 : r[i] = s[i + 1]
    <3>1. /\ a \o b \in Seq(S) /\ Len(a \o b) = Len(a) + Len(b)
          /\ \A i \in 1 .. Len(a) + Len(b) : (a \o b)[i] =
                IF i <= Len(a) THEN a[i] ELSE b[i - Len(a)]
      BY <2>2, <2>3, ConcatProperties
    <3> HIDE DEF r
    <3>2. Len(a) + Len(b) = Len(s) - 1
      BY <1>1, <2>2, <2>3
    <3>3. ASSUME NEW i \in 1 .. k - 1 PROVE r[i] = s[i]
      BY <1>1, <2>1, <2>2, <3>1, <3>2
    <3>4. ASSUME NEW i \in k .. Len(s) - 1 PROVE r[i] = s[i + 1]
      <4>1. i - (k - 1) \in 1 .. Len(s) - k /\ k + (i - (k - 1)) = i + 1
        BY <1>1
      <4>2. r[i] = b[i - (k - 1)]
        BY <1>1, <2>1, <2>2, <3>1, <3>2
      <4> QED BY <2>3, <4>1, <4>2
    <3> QED BY <2>1, <3>1, <3>2, <3>3, <3>4
  <2> HIDE DEF r
  <2>5. DOMAIN r = 1 .. Len(s) - 1
    BY <2>4, LenProperties
  <2>6. NoRepeats(r, n)
    <3> DEFINE at(i) == IF i < k THEN i ELSE i + 1
    <3>1. \A i \in DOMAIN r : at(i) \in DOMAIN s /\ r[i] = s[at(i)]
      BY <1>1, <2>4, <2>5
    <3>2. \A i, j \in DOMAIN r : at(i) = at(j) => i = j
      BY <1>1, <2>5
    <3> HIDE DEF at
    <3> QED BY <3>1, <3>2 DEF NoRepeats
  <2>7. ToSet(r) \subseteq ToSet(s) \ {e}
    BY <1>1, <2>4, <2>5 DEF ToSet, NoRepeats
  <2>8. ASSUME NEW x \in ToSet(s), x # e
        PROVE  x \in ToSet(r)
    <3>1. PICK j \in 1 .. Len(s) : s[j] = x
      BY <1>1, <2>8 DEF ToSet
    <3>2. j # k
      BY <2>8, <3>1
    <3>3. CASE j < k
      BY <1>1, <2>4, <2>5, <3>1, <3>3 DEF ToSet
    <3>4. CASE j > k
      <4>1. j - 1 \in 1 .. Len(s) - 1 /\ r[j - 1] = s[j]
        BY <1>1, <2>4, <3>4
      <4> QED BY <2>5, <3>1, <4>1 DEF ToSet
    <3> QED BY <1>1, <3>2, <3>3, <3>4
  <2> QED BY <2>4, <2>6, <2>7, <2>8 DEF r
<1>3. CASE ~ \E k \in 1 .. Len(s) : s[k] = e
  <2>1. RemoveFirst(s, e) = s
    BY <1>3 DEF RemoveFirst
  <2> QED BY <1>1, <1>3, <2>1 DEF ToSet
<1> QED BY <1>2, <1>3

\* Appending a value that is not there makes no repetition.
LEMMA AppendNoRepeats ==
  ASSUME NEW S, NEW s \in Seq(S), NEW n, NEW e \in S, NoRepeats(s, n),
         e = n \/ e \notin ToSet(s)
  PROVE  NoRepeats(Append(s, e), n)
<1>1. /\ Append(s, e) \in Seq(S) /\ Len(Append(s, e)) = Len(s) + 1
      /\ \A i \in 1 .. Len(s) : Append(s, e)[i] = s[i]
      /\ Append(s, e)[Len(s) + 1] = e
  BY AppendProperties
<1>2. DOMAIN Append(s, e) = 1 .. Len(s) + 1 /\ DOMAIN s = 1 .. Len(s) /\ Len(s) \in Nat
  BY <1>1, LenProperties
<1> QED BY <1>1, <1>2 DEF ToSet, NoRepeats

\* The head is an element, the tail has the others, and without repetitions the
\* head is not in the tail (the pull of the worker thread).
LEMMA TailOf ==
  ASSUME NEW S, NEW s \in Seq(S), NEW n, s # <<>>
  PROVE  /\ Head(s) \in S /\ Head(s) \in ToSet(s) /\ Tail(s) \in Seq(S)
         /\ ToSet(Tail(s)) \subseteq ToSet(s)
         /\ ToSet(s) = ToSet(Tail(s)) \cup {Head(s)}
         /\ NoRepeats(s, n) => /\ NoRepeats(Tail(s), n)
                             /\ (Head(s) # n => Head(s) \notin ToSet(Tail(s)))
<1>1. /\ Head(s) \in S /\ Tail(s) \in Seq(S) /\ Len(Tail(s)) = Len(s) - 1
      /\ \A i \in 1 .. Len(Tail(s)) : Tail(s)[i] = s[i + 1]
  BY HeadTailProperties
<1>2. Head(s) = s[1] /\ Len(s) \in Nat /\ Len(s) > 0 /\ DOMAIN s = 1 .. Len(s)
      /\ DOMAIN Tail(s) = 1 .. Len(s) - 1
  BY <1>1, LenProperties, EmptySeq
<1>3. \A i \in 1 .. Len(s) : i = 1 \/ i - 1 \in 1 .. Len(s) - 1
  BY <1>2
<1>4. ToSet(Tail(s)) \subseteq ToSet(s) /\ Head(s) \in ToSet(s)
  BY <1>1, <1>2 DEF ToSet
<1>5. ASSUME NEW x \in ToSet(s) PROVE x \in ToSet(Tail(s)) \cup {Head(s)}
  <2>1. PICK i \in 1 .. Len(s) : s[i] = x
    BY <1>2 DEF ToSet
  <2>2. CASE i = 1
    BY <1>2, <2>1, <2>2
  <2>3. CASE i # 1
    <3>1. i - 1 \in 1 .. Len(s) - 1 /\ Tail(s)[i - 1] = s[i]
      BY <1>1, <1>2, <1>3, <2>3
    <3> QED BY <1>2, <2>1, <3>1 DEF ToSet
  <2> QED BY <2>2, <2>3
<1>6. NoRepeats(s, n) => /\ NoRepeats(Tail(s), n)
                             /\ (Head(s) # n => Head(s) \notin ToSet(Tail(s)))
  BY <1>1, <1>2 DEF NoRepeats, ToSet
<1> QED BY <1>1, <1>4, <1>5, <1>6
=============================================================================
