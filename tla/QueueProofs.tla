---------------------------- MODULE QueueProofs -----------------------------
(***************************************************************************)
(* What the operations on the process queues do to the members of a list,  *)
(* for lists of any length: the lemmas the proofs about the kernel rest    *)
(* on.  Nothing is assumed about keys: where insert and insertd put a node *)
(* does not matter here, only that it is a place in the list.  Then what   *)
(* wait, signal and the other calls do to one semaphore with its queue,    *)
(* and how a sum over a finite set changes with one of its terms.          *)
(***************************************************************************)
EXTENDS Queues, TLAPS, SequenceTheorems, NaturalsInduction,
        WellFoundedInduction, FiniteSetTheorems

Has(s, p) == \E i \in 1..Len(s) : s[i] = p
Distinct(s) == \A i, j \in 1..Len(s) : s[i] = s[j] => i = j

\* A non-empty set of natural numbers has a least element, and Min is it.
LEMMA LeastNat ==
  ASSUME NEW T, T \subseteq Nat, T # {}
  PROVE  Min(T) \in T /\ \A y \in T : Min(T) <= y
<1> DEFINE R == OpToRel(<, Nat)
<1>1. IsWellFoundedOn(R, Nat)
  BY NatLessThanWellFounded
<1> HIDE DEF R
<1>2. \E x \in T : \A y \in T : ~(<<y, x>> \in R)
  BY <1>1, WFMin
<1>3. PICK x \in T : \A y \in T : ~(<<y, x>> \in R)
  BY <1>2
<1>4. ASSUME NEW y \in T PROVE x <= y
  <2>1. x \in Nat /\ y \in Nat
    OBVIOUS
  <2>2. <<y, x>> \in R <=> y < x
    BY <2>1 DEF R, OpToRel
  <2> QED
    BY <2>1, <2>2, <1>3
<1>5. \E z \in T : \A y \in T : z <= y
  BY <1>4
<1> QED
  BY <1>5 DEF Min

\* Max of a set of natural numbers with a bound is its greatest element.
LEMMA GreatestIndex ==
  ASSUME NEW T, T # {}, NEW N \in Nat, T \subseteq 1..N
  PROVE  Max(T) \in T /\ \A y \in T : Max(T) >= y
<1> DEFINE U == {N - x : x \in T}
<1>1. U \subseteq Nat /\ U # {}
  <2>1. \A x \in T : x \in 1..N /\ N - x \in Nat
    OBVIOUS
  <2>2. PICK x \in T : TRUE
    OBVIOUS
  <2>3. N - x \in U
    OBVIOUS
  <2> QED
    BY <2>1, <2>3
<1>2. Min(U) \in U /\ \A y \in U : Min(U) <= y
  BY <1>1, LeastNat
<1>3. PICK x \in T : Min(U) = N - x
  BY <1>2
<1>4. \A y \in T : x >= y
  <2> SUFFICES ASSUME NEW y \in T PROVE x >= y
    OBVIOUS
  <2>1. N - x <= N - y
    BY <1>2, <1>3
  <2> QED
    BY <2>1
<1>5. \E z \in T : \A y \in T : z >= y
  BY <1>4
<1> QED
  BY <1>5 DEF Max

----------------------------------------------------------------------------
\* InsertAt shifts the elements from position i on by one.
LEMMA InsertAtElements ==
  ASSUME NEW S, NEW s \in Seq(S), NEW e \in S, NEW i \in 1..(Len(s) + 1)
  PROVE  /\ InsertAt(s, i, e) \in Seq(S)
         /\ Len(InsertAt(s, i, e)) = Len(s) + 1
         /\ \A j \in 1..(Len(s) + 1) :
              InsertAt(s, i, e)[j] = IF j < i THEN s[j]
                                     ELSE IF j = i THEN e ELSE s[j - 1]
<1> DEFINE a == SubSeq(s, 1, i - 1)
           b == SubSeq(s, i, Len(s))
           ae == a \o <<e>>
<1>0. Len(s) \in Nat /\ i \in Int
  BY LenProperties
<1>1. a \in Seq(S) /\ Len(a) = i - 1 /\ \A j \in 1..(i - 1) : a[j] = s[j]
  <2>1. /\ a \in Seq(S)
        /\ Len(a) = IF 1 <= i - 1 THEN i - 1 - 1 + 1 ELSE 0
        /\ \A j \in 1..(i - 1 - 1 + 1) : a[j] = s[1 + j - 1]
    <3>1. 1 \in 1..(Len(s) + 1) /\ i - 1 \in 0..Len(s)
      BY <1>0
    <3> QED
      BY <3>1, SubSeqProperties
  <2> QED
    BY <2>1, <1>0
<1>2. /\ b \in Seq(S) /\ Len(b) = Len(s) - i + 1
      /\ \A j \in 1..(Len(s) - i + 1) : b[j] = s[i + j - 1]
  <2>1. i \in 1..(Len(s) + 1) /\ Len(s) \in (i - 1)..Len(s)
    BY <1>0
  <2> QED
    BY <2>1, <1>0, SubSeqProperties
<1>3. /\ ae \in Seq(S) /\ Len(ae) = i
      /\ \A j \in 1..(i - 1) : ae[j] = s[j]
      /\ ae[i] = e
  <2>1. <<e>> \in Seq(S) /\ Len(<<e>>) = 1 /\ <<e>>[1] = e
    OBVIOUS
  <2> HIDE DEF a
  <2>2. /\ ae \in Seq(S) /\ Len(ae) = Len(a) + 1
        /\ \A j \in 1..(Len(a) + 1) :
              ae[j] = IF j <= Len(a) THEN a[j] ELSE <<e>>[j - Len(a)]
    BY <1>1, <2>1, ConcatProperties
  <2> HIDE DEF ae
  <2> QED
    BY <1>0, <1>1, <2>1, <2>2
<1> HIDE DEF a, b, ae
<1>4. /\ ae \o b \in Seq(S) /\ Len(ae \o b) = Len(ae) + Len(b)
      /\ \A j \in 1..(Len(ae) + Len(b)) :
            (ae \o b)[j] = IF j <= Len(ae) THEN ae[j] ELSE b[j - Len(ae)]
  BY <1>2, <1>3, ConcatProperties
<1>5. InsertAt(s, i, e) = ae \o b
  BY DEF InsertAt, a, b, ae
<1>6. Len(ae) + Len(b) = Len(s) + 1
  BY <1>0, <1>2, <1>3
<1>7. ASSUME NEW j \in 1..(Len(s) + 1)
      PROVE  (ae \o b)[j] = IF j < i THEN s[j] ELSE IF j = i THEN e ELSE s[j - 1]
  <2>0. (ae \o b)[j] = IF j <= i THEN ae[j] ELSE b[j - i]
    BY <1>3, <1>4, <1>6
  <2>1. CASE j < i
    <3>1. j <= i /\ j \in 1..(i - 1)
      BY <2>1, <1>0
    <3>2. ae[j] = s[j]
      BY <3>1, <1>3
    <3> QED
      BY <2>0, <2>1, <3>1, <3>2
  <2>2. CASE j = i
    BY <2>0, <2>2, <1>0, <1>3
  <2>3. CASE j > i
    <3>1. (ae \o b)[j] = b[j - i]
      BY <2>0, <2>3, <1>0
    <3>2. j - i \in 1..(Len(s) - i + 1) /\ i + (j - i) - 1 = j - 1
      BY <2>3, <1>0
    <3> QED
      BY <2>3, <3>1, <3>2, <1>2, <1>0
  <2>4. j < i \/ j = i \/ j > i
    BY <1>0
  <2> QED
    BY <2>1, <2>2, <2>3, <2>4
<1> QED
  BY <1>4, <1>5, <1>6, <1>7

\* RemoveAt shifts the elements after position i back by one.
LEMMA RemoveAtElements ==
  ASSUME NEW S, NEW s \in Seq(S), NEW i \in 1..Len(s)
  PROVE  /\ RemoveAt(s, i) \in Seq(S)
         /\ Len(RemoveAt(s, i)) = Len(s) - 1
         /\ \A j \in 1..(Len(s) - 1) :
              RemoveAt(s, i)[j] = IF j < i THEN s[j] ELSE s[j + 1]
<1> DEFINE a == SubSeq(s, 1, i - 1)
           b == SubSeq(s, i + 1, Len(s))
<1>0. Len(s) \in Nat /\ i \in Int
  BY LenProperties
<1>1. a \in Seq(S) /\ Len(a) = i - 1 /\ \A j \in 1..(i - 1) : a[j] = s[j]
  <2>1. 1 \in 1..(Len(s) + 1) /\ i - 1 \in 0..Len(s)
    BY <1>0
  <2>2. /\ a \in Seq(S)
        /\ Len(a) = IF 1 <= i - 1 THEN i - 1 - 1 + 1 ELSE 0
        /\ \A j \in 1..(i - 1 - 1 + 1) : a[j] = s[1 + j - 1]
    BY <2>1, SubSeqProperties
  <2> QED
    BY <2>2, <1>0
<1>2. /\ b \in Seq(S) /\ Len(b) = Len(s) - i
      /\ \A j \in 1..(Len(s) - i) : b[j] = s[i + j]
  <2>1. i + 1 \in 1..(Len(s) + 1) /\ Len(s) \in (i + 1 - 1)..Len(s)
    BY <1>0
  <2>2. /\ b \in Seq(S)
        /\ Len(b) = IF i + 1 <= Len(s) THEN Len(s) - (i + 1) + 1 ELSE 0
        /\ \A j \in 1..(Len(s) - (i + 1) + 1) : b[j] = s[i + 1 + j - 1]
    BY <2>1, SubSeqProperties
  <2> QED
    BY <2>2, <1>0
<1> HIDE DEF a, b
<1>3. /\ a \o b \in Seq(S) /\ Len(a \o b) = Len(a) + Len(b)
      /\ \A j \in 1..(Len(a) + Len(b)) :
            (a \o b)[j] = IF j <= Len(a) THEN a[j] ELSE b[j - Len(a)]
  BY <1>1, <1>2, ConcatProperties
<1>4. RemoveAt(s, i) = a \o b
  BY DEF RemoveAt, a, b
<1>5. Len(a) + Len(b) = Len(s) - 1
  BY <1>0, <1>1, <1>2
<1>6. ASSUME NEW j \in 1..(Len(s) - 1)
      PROVE  (a \o b)[j] = IF j < i THEN s[j] ELSE s[j + 1]
  <2>1. CASE j < i
    BY <2>1, <1>0, <1>1, <1>3, <1>5
  <2>2. CASE j >= i
    <3>1. (a \o b)[j] = b[j - (i - 1)]
      BY <2>2, <1>0, <1>1, <1>3, <1>5
    <3>2. j - (i - 1) \in 1..(Len(s) - i) /\ i + (j - (i - 1)) = j + 1
      BY <2>2, <1>0
    <3> QED
      BY <2>2, <3>1, <3>2, <1>2, <1>0
  <2>3. j < i \/ j >= i
    BY <1>0
  <2> QED
    BY <2>1, <2>2, <2>3
<1> QED
  BY <1>3, <1>4, <1>5, <1>6

----------------------------------------------------------------------------
\* The members of a list after each of the operations on sequences.
LEMMA InsertMembers ==
  ASSUME NEW S, NEW s \in Seq(S), NEW e \in S, NEW i \in 1..(Len(s) + 1)
  PROVE  LET t == InsertAt(s, i, e) IN
         /\ t \in Seq(S)
         /\ t # << >>
         /\ \A p : Has(t, p) <=> Has(s, p) \/ p = e
         /\ Distinct(s) /\ ~Has(s, e) => Distinct(t)
<1> DEFINE t == InsertAt(s, i, e)
<1>0. Len(s) \in Nat /\ i \in Int
  BY LenProperties
<1>1. /\ t \in Seq(S) /\ Len(t) = Len(s) + 1
      /\ \A j \in 1..(Len(s) + 1) :
            t[j] = IF j < i THEN s[j] ELSE IF j = i THEN e ELSE s[j - 1]
  BY InsertAtElements
<1> HIDE DEF t
<1>2. ASSUME NEW p, Has(t, p) PROVE Has(s, p) \/ p = e
  <2>1. PICK j \in 1..(Len(s) + 1) : t[j] = p
    BY <1>1, <1>2 DEF Has
  <2>2. CASE j < i
    BY <2>1, <2>2, <1>0, <1>1 DEF Has
  <2>3. CASE j = i
    BY <2>1, <2>3, <1>0, <1>1
  <2>4. CASE j > i
    <3>1. j - 1 \in 1..Len(s) /\ t[j] = s[j - 1]
      BY <2>4, <1>0, <1>1
    <3> QED
      BY <2>1, <3>1 DEF Has
  <2>5. j < i \/ j = i \/ j > i
    BY <1>0
  <2> QED
    BY <2>2, <2>3, <2>4, <2>5
<1>3. ASSUME NEW p, Has(s, p) PROVE Has(t, p)
  <2>1. PICK j \in 1..Len(s) : s[j] = p
    BY <1>3 DEF Has
  <2>2. CASE j < i
    BY <2>1, <2>2, <1>0, <1>1 DEF Has
  <2>3. CASE j >= i
    <3>1. j + 1 \in 1..Len(t) /\ ~(j + 1 < i) /\ j + 1 # i /\ (j + 1) - 1 = j
      BY <2>3, <1>0, <1>1
    <3>2. t[j + 1] = p
      BY <2>1, <3>1, <1>0, <1>1
    <3> QED
      BY <3>1, <3>2 DEF Has
  <2>4. j < i \/ j >= i
    BY <1>0
  <2> QED
    BY <2>2, <2>3, <2>4
<1>4. Has(t, e)
  BY <1>0, <1>1 DEF Has
<1>5. ASSUME Distinct(s), ~Has(s, e) PROVE Distinct(t)
  <2> SUFFICES ASSUME NEW j \in 1..(Len(s) + 1), NEW k \in 1..(Len(s) + 1),
                      t[j] = t[k], j < k
               PROVE  FALSE
    BY <1>0, <1>1 DEF Distinct
  <2>1. CASE k < i
    <3>1. /\ j \in 1..Len(s) /\ t[j] = s[j]
          /\ k \in 1..Len(s) /\ t[k] = s[k] /\ j # k
      BY <2>1, <1>0, <1>1
    <3> QED
      BY <3>1, <1>5 DEF Distinct
  <2>2. CASE k = i
    BY <2>2, <1>0, <1>1, <1>5 DEF Has
  <2>3. CASE j = i
    <3>1. k - 1 \in 1..Len(s) /\ t[k] = s[k - 1] /\ t[j] = e
      BY <2>3, <1>0, <1>1
    <3> QED
      BY <3>1, <1>5 DEF Has
  <2>4. CASE j > i
    <3>1. /\ k - 1 \in 1..Len(s) /\ t[k] = s[k - 1]
          /\ j - 1 \in 1..Len(s) /\ t[j] = s[j - 1] /\ j - 1 # k - 1
      BY <2>4, <1>0, <1>1
    <3> QED
      BY <3>1, <1>5 DEF Distinct
  <2>5. CASE j < i /\ k > i
    <3>1. /\ k - 1 \in 1..Len(s) /\ t[k] = s[k - 1]
          /\ j \in 1..Len(s) /\ t[j] = s[j] /\ j # k - 1
      BY <2>5, <1>0, <1>1
    <3> QED
      BY <3>1, <1>5 DEF Distinct
  <2>6. k < i \/ k = i \/ j = i \/ j > i \/ (j < i /\ k > i)
    BY <1>0
  <2> QED
    BY <2>1, <2>2, <2>3, <2>4, <2>5, <2>6
<1>6. t # << >>
  BY <1>0, <1>1
<1> QED
  BY <1>1, <1>2, <1>3, <1>4, <1>5, <1>6 DEF t

\* Removing the element at place i takes that element, and only it, off a list.
LEMMA RemoveMembers ==
  ASSUME NEW S, NEW s \in Seq(S), Distinct(s), NEW i \in 1..Len(s)
  PROVE  LET t == RemoveAt(s, i) IN
         /\ t \in Seq(S)
         /\ Len(t) = Len(s) - 1
         /\ \A p : Has(t, p) <=> Has(s, p) /\ p # s[i]
         /\ Distinct(t)
<1> DEFINE t == RemoveAt(s, i)
<1>0. Len(s) \in Nat /\ i \in Int
  BY LenProperties
<1>1. /\ t \in Seq(S) /\ Len(t) = Len(s) - 1
      /\ \A j \in 1..(Len(s) - 1) : t[j] = IF j < i THEN s[j] ELSE s[j + 1]
  BY RemoveAtElements
<1> HIDE DEF t
<1>2. \A j \in 1..(Len(s) - 1) :
        \E k \in 1..Len(s) : k # i /\ t[j] = s[k] /\ k = IF j < i THEN j ELSE j + 1
  BY <1>0, <1>1
<1>3. ASSUME NEW p, Has(t, p) PROVE Has(s, p) /\ p # s[i]
  BY <1>2, <1>3, <1>1 DEF Has, Distinct
<1>4. ASSUME NEW p, Has(s, p), p # s[i] PROVE Has(t, p)
  <2>1. PICK j \in 1..Len(s) : s[j] = p
    BY <1>4 DEF Has
  <2>2. CASE j < i
    BY <2>1, <2>2, <1>0, <1>1 DEF Has
  <2>3. CASE j > i
    <3>1. j - 1 \in 1..Len(t) /\ ~(j - 1 < i) /\ (j - 1) + 1 = j
      BY <2>3, <1>0, <1>1
    <3>2. t[j - 1] = p
      BY <2>1, <3>1, <1>0, <1>1
    <3> QED
      BY <3>1, <3>2 DEF Has
  <2>4. j < i \/ j > i
    BY <1>0, <1>4, <2>1
  <2> QED
    BY <2>2, <2>3, <2>4
<1>5. Distinct(t)
  <2> SUFFICES ASSUME NEW j \in 1..(Len(s) - 1), NEW k \in 1..(Len(s) - 1),
                      t[j] = t[k], j < k
               PROVE  FALSE
    BY <1>0, <1>1 DEF Distinct
  <2>1. PICK m \in 1..Len(s) : t[j] = s[m] /\ m = IF j < i THEN j ELSE j + 1
    BY <1>2
  <2>2. PICK n \in 1..Len(s) : t[k] = s[n] /\ n = IF k < i THEN k ELSE k + 1
    BY <1>2
  <2>3. m # n
    BY <2>1, <2>2, <1>0
  <2>4. s[m] = s[n]
    BY <2>1, <2>2
  <2> QED
    BY <2>3, <2>4 DEF Distinct
<1> QED
  BY <1>1, <1>3, <1>4, <1>5 DEF t

\* Appending an element to a list adds it and keeps the elements distinct.
LEMMA AppendMembers ==
  ASSUME NEW S, NEW s \in Seq(S), NEW e \in S
  PROVE  /\ Append(s, e) \in Seq(S)
         /\ Len(Append(s, e)) = Len(s) + 1
         /\ \A p : Has(Append(s, e), p) <=> Has(s, p) \/ p = e
         /\ Distinct(s) /\ ~Has(s, e) => Distinct(Append(s, e))
<1> DEFINE t == Append(s, e)
<1>0. Len(s) \in Nat
  BY LenProperties
<1>1. /\ t \in Seq(S) /\ Len(t) = Len(s) + 1
      /\ \A j \in 1..Len(s) : t[j] = s[j]
      /\ t[Len(s) + 1] = e
  BY AppendProperties
<1> HIDE DEF t
<1>2. \A j \in 1..Len(t) : j \in 1..Len(s) \/ j = Len(s) + 1
  BY <1>0, <1>1
<1>3. Len(s) + 1 \in 1..Len(t) /\ \A j \in 1..Len(s) : j \in 1..Len(t)
  BY <1>0, <1>1
<1>4. \A p : Has(t, p) <=> Has(s, p) \/ p = e
  BY <1>1, <1>2, <1>3 DEF Has
<1>5. Distinct(s) /\ ~Has(s, e) => Distinct(t)
  BY <1>1, <1>2 DEF Has, Distinct
<1> QED
  BY <1>1, <1>4, <1>5 DEF t

\* The tail of a list has all its elements but the first.
LEMMA TailMembers ==
  ASSUME NEW S, NEW s \in Seq(S), Distinct(s), s # << >>
  PROVE  /\ Head(s) \in S /\ Has(s, Head(s))
         /\ Tail(s) \in Seq(S)
         /\ Len(Tail(s)) = Len(s) - 1
         /\ \A p : Has(Tail(s), p) <=> Has(s, p) /\ p # Head(s)
         /\ Distinct(Tail(s))
<1> DEFINE t == Tail(s)
<1>0. Len(s) \in Nat /\ Len(s) > 0 /\ Head(s) = s[1]
  BY LenProperties, EmptySeq
<1>1. /\ Head(s) \in S /\ t \in Seq(S) /\ Len(t) = Len(s) - 1
      /\ \A j \in 1..Len(t) : t[j] = s[j + 1]
  BY HeadTailProperties
<1> HIDE DEF t
<1>2. \A j \in 1..Len(t) : j + 1 \in 1..Len(s) /\ j + 1 # 1
  BY <1>0, <1>1
<1>3. \A j \in 1..Len(s) : j = 1 \/ (j - 1 \in 1..Len(t) /\ (j - 1) + 1 = j)
  BY <1>0, <1>1
<1>4. 1 \in 1..Len(s)
  BY <1>0
<1>5. Has(s, Head(s))
  BY <1>0, <1>4 DEF Has
<1>6. ASSUME NEW p, Has(t, p) PROVE Has(s, p) /\ p # Head(s)
  BY <1>6, <1>0, <1>1, <1>2, <1>4 DEF Has, Distinct
<1>7. ASSUME NEW p, Has(s, p), p # Head(s) PROVE Has(t, p)
  <2>1. PICK j \in 1..Len(s) : s[j] = p
    BY <1>7 DEF Has
  <2>2. j - 1 \in 1..Len(t) /\ (j - 1) + 1 = j
    BY <2>1, <1>0, <1>3, <1>7
  <2> QED
    BY <2>1, <2>2, <1>1 DEF Has
<1>8. Distinct(t)
  BY <1>0, <1>1, <1>2 DEF Distinct
<1> QED
  BY <1>1, <1>5, <1>6, <1>7, <1>8 DEF t

----------------------------------------------------------------------------
\* The lists of a queue table: sequences over P without duplicates.
Lists(qs, Q, P) ==
    /\ qs \in [Q -> Seq(P)]
    /\ \A q \in Q : Distinct(qs[q])

\* The scans of insert and insertd stop at a place of the list.
LEMMA PositionInList ==
  ASSUME NEW S, NEW s \in Seq(S), NEW ks, NEW key
  PROVE  /\ InsertPos(s, ks, key) \in 1..(Len(s) + 1)
         /\ InsertdPos(s, ks, key) \in 1..(Len(s) + 1)
<1> DEFINE T == {i \in 1..(Len(s) + 1) : i <= Len(s) => ks[s[i]] < key}
           U == {i \in 1..(Len(s) + 1) :
                    i <= Len(s) => ks[s[i]] > key - Elapsed(s, ks, i - 1)}
<1>1. Len(s) \in Nat
  BY LenProperties
<1>2. T \subseteq Nat /\ T # {}
  <2>1. Len(s) + 1 \in T
    BY <1>1
  <2> QED
    BY <1>1, <2>1
<1>3. U \subseteq Nat /\ U # {}
  <2>1. Len(s) + 1 \in U
    BY <1>1
  <2> QED
    BY <1>1, <2>1
<1>4. Min(T) \in T
  <2> HIDE DEF T
  <2> QED
    BY <1>2, LeastNat
<1>5. Min(U) \in U
  <2> HIDE DEF U
  <2> QED
    BY <1>3, LeastNat
<1> QED
  BY <1>4, <1>5 DEF InsertPos, InsertdPos

\* The lists r are the lists qs with pid linked into list q besides.
Linked(r, qs, Q, P, q, pid) ==
    /\ Lists(r, Q, P)
    /\ r[q] # << >>
    /\ \A c \in Q : \A p : Has(r[c], p) <=> Has(qs[c], p) \/ (c = q /\ p = pid)
    /\ \A c \in Q \ {q} : r[c] = qs[c]

\* Inserting pid at any place of list q links it there and nowhere else.
LEMMA InsertLists ==
  ASSUME NEW Q, NEW P, NEW qs, Lists(qs, Q, P),
         NEW q \in Q, NEW pid \in P, ~Has(qs[q], pid),
         NEW i \in 1..(Len(qs[q]) + 1)
  PROVE  Linked([qs EXCEPT ![q] = InsertAt(qs[q], i, pid)], qs, Q, P, q, pid)
<1> DEFINE t == InsertAt(qs[q], i, pid)
           r == [qs EXCEPT ![q] = t]
<1>1. qs[q] \in Seq(P) /\ Distinct(qs[q])
  BY DEF Lists
<1>2. /\ t \in Seq(P) /\ t # << >> /\ Distinct(t)
      /\ \A p : Has(t, p) <=> Has(qs[q], p) \/ p = pid
  BY <1>1, InsertMembers
<1> HIDE DEF t
<1>3. r \in [Q -> Seq(P)] /\ r[q] = t /\ \A c \in Q \ {q} : r[c] = qs[c]
  BY <1>2 DEF Lists
<1> HIDE DEF r
<1>4. Lists(r, Q, P)
  BY <1>2, <1>3 DEF Lists
<1>5. \A c \in Q : \A p : Has(r[c], p) <=> Has(qs[c], p) \/ (c = q /\ p = pid)
  BY <1>2, <1>3
<1>6. Linked(r, qs, Q, P, q, pid)
  BY <1>2, <1>3, <1>4, <1>5 DEF Linked
<1> QED
  BY <1>6 DEF r, t

\* insert and insertd link pid into the list, wherever the keys put it.
LEMMA insertLists ==
  ASSUME NEW Q, NEW P, NEW qs, Lists(qs, Q, P), NEW ks, NEW key,
         NEW q \in Q, NEW pid \in P, ~Has(qs[q], pid)
  PROVE  /\ Linked(insert(qs, ks, pid, q, key), qs, Q, P, q, pid)
         /\ Linked(insertd(qs, ks, pid, q, key), qs, Q, P, q, pid)
<1>1. qs[q] \in Seq(P)
  BY DEF Lists
<1>2. ASSUME NEW i \in 1..(Len(qs[q]) + 1)
      PROVE  Linked([qs EXCEPT ![q] = InsertAt(qs[q], i, pid)], qs, Q, P, q, pid)
  BY InsertLists, Zenon
<1>3. /\ InsertPos(qs[q], ks, key) \in 1..(Len(qs[q]) + 1)
      /\ InsertdPos(qs[q], ks, key) \in 1..(Len(qs[q]) + 1)
  BY <1>1, PositionInList
<1> QED
  BY <1>2, <1>3, Zenon DEF insert, insertd

\* enqueue links pid into list q, which grows by one.
LEMMA enqueueLists ==
  ASSUME NEW Q, NEW P, NEW qs, Lists(qs, Q, P),
         NEW q \in Q, NEW pid \in P, ~Has(qs[q], pid)
  PROVE  /\ Linked(enqueue(qs, pid, q), qs, Q, P, q, pid)
         /\ Len(enqueue(qs, pid, q)[q]) = Len(qs[q]) + 1
<1> DEFINE t == Append(qs[q], pid)
           r == [qs EXCEPT ![q] = t]
<1>1. qs[q] \in Seq(P) /\ Distinct(qs[q])
  BY DEF Lists
<1>2. /\ t \in Seq(P) /\ Len(t) = Len(qs[q]) + 1 /\ Distinct(t)
      /\ \A p : Has(t, p) <=> Has(qs[q], p) \/ p = pid
  BY <1>1, AppendMembers
<1> HIDE DEF t
<1>3. r \in [Q -> Seq(P)] /\ r[q] = t /\ \A c \in Q \ {q} : r[c] = qs[c]
  BY <1>2 DEF Lists
<1>4. enqueue(qs, pid, q) = r
  BY DEF enqueue, t
<1> HIDE DEF r
<1>5. Lists(r, Q, P)
  BY <1>2, <1>3 DEF Lists
<1>6. \A c \in Q : \A p : Has(r[c], p) <=> Has(qs[c], p) \/ (c = q /\ p = pid)
  BY <1>2, <1>3
<1>7. Len(qs[q]) \in Nat /\ t # << >>
  BY <1>1, <1>2, LenProperties
<1> QED
  BY <1>2, <1>3, <1>4, <1>5, <1>6, <1>7 DEF Linked

\* The lists r are the lists qs without pid, which was on list q.
Unlinked(r, qs, Q, P, q, pid) ==
    /\ Lists(r, Q, P)
    /\ Len(r[q]) = Len(qs[q]) - 1
    /\ \A c \in Q : \A p :
          Has(r[c], p) <=> Has(qs[c], p) /\ ~(c = q /\ p = pid)
    /\ \A c \in Q \ {q} : r[c] = qs[c]

\* dequeue takes the first process off list q and leaves the other lists alone.
LEMMA dequeueLists ==
  ASSUME NEW Q, NEW P, NEW qs, Lists(qs, Q, P), NEW q \in Q, qs[q] # << >>
  PROVE  /\ Head(qs[q]) \in P /\ Has(qs[q], Head(qs[q]))
         /\ Unlinked(dequeue(qs, q), qs, Q, P, q, Head(qs[q]))
<1> DEFINE t == Tail(qs[q])
           r == [qs EXCEPT ![q] = t]
<1>1. qs[q] \in Seq(P) /\ Distinct(qs[q])
  BY DEF Lists
<1>2. /\ Head(qs[q]) \in P /\ Has(qs[q], Head(qs[q]))
      /\ t \in Seq(P) /\ Len(t) = Len(qs[q]) - 1 /\ Distinct(t)
      /\ \A p : Has(t, p) <=> Has(qs[q], p) /\ p # Head(qs[q])
  BY <1>1, TailMembers
<1> HIDE DEF t
<1>3. r \in [Q -> Seq(P)] /\ r[q] = t /\ \A c \in Q \ {q} : r[c] = qs[c]
  BY <1>2 DEF Lists
<1>4. dequeue(qs, q) = r
  BY DEF dequeue, t
<1> HIDE DEF r
<1>5. Lists(r, Q, P)
  BY <1>2, <1>3 DEF Lists
<1>6. \A c \in Q : \A p : Has(r[c], p) <=>
        Has(qs[c], p) /\ ~(c = q /\ p = Head(qs[q]))
  BY <1>2, <1>3
<1> QED
  BY <1>2, <1>3, <1>4, <1>5, <1>6 DEF Unlinked

\* getitem unlinks pid from the one list it is on.
LEMMA getitemLists ==
  ASSUME NEW Q, NEW P, NEW qs, Lists(qs, Q, P), NEW q \in Q, NEW pid,
         \A c \in Q : Has(qs[c], pid) <=> c = q
  PROVE  Unlinked(getitem(qs, pid), qs, Q, P, q, pid)
<1> DEFINE i == CHOOSE i \in 1..Len(qs[q]) : qs[q][i] = pid
           t == RemoveAt(qs[q], i)
           r == getitem(qs, pid)
<1>1. qs \in [Q -> Seq(P)] /\ qs[q] \in Seq(P) /\ Distinct(qs[q])
  BY DEF Lists
<1>2. i \in 1..Len(qs[q]) /\ qs[q][i] = pid
  BY DEF Has
<1>3. r = [c \in Q |-> IF c = q THEN t ELSE qs[c]]
  <2>1. DOMAIN qs = Q
    BY <1>1
  <2>2. \A c \in Q : (\E k \in 1..Len(qs[c]) : qs[c][k] = pid) <=> c = q
    BY DEF Has
  <2> QED
    BY <2>1, <2>2 DEF getitem
<1>4. /\ t \in Seq(P) /\ Len(t) = Len(qs[q]) - 1 /\ Distinct(t)
      /\ \A p : Has(t, p) <=> Has(qs[q], p) /\ p # pid
  <2> HIDE DEF i
  <2> QED
    BY <1>1, <1>2, RemoveMembers
<1> HIDE DEF t, r
<1>5. r \in [Q -> Seq(P)] /\ r[q] = t /\ \A c \in Q \ {q} : r[c] = qs[c]
  BY <1>1, <1>3, <1>4
<1>6. Lists(r, Q, P)
  BY <1>4, <1>5 DEF Lists
<1>7. \A c \in Q : \A p : Has(r[c], p) <=> Has(qs[c], p) /\ ~(c = q /\ p = pid)
  BY <1>4, <1>5
<1> QED
  BY <1>4, <1>5, <1>6, <1>7 DEF Unlinked, r
----------------------------------------------------------------------------
\* Order: of keys in the ready list, and of arrival in the queue of a semaphore.

Ordered(s, ks) == \A i, j \in 1..Len(s) : i < j => ks[s[i]] >= ks[s[j]]
Ahead(s, p, q) == \E i, j \in 1..Len(s) : i < j /\ s[i] = p /\ s[j] = q

\* Keys of processes that are not on a list may change.
LEMMA OrderedKeys ==
  ASSUME NEW s, NEW ks, NEW kt, Ordered(s, ks), \A p : Has(s, p) => kt[p] = ks[p]
  PROVE  Ordered(s, kt)
  BY DEF Ordered, Has

\* insert keeps a list in descending order of keys.
LEMMA InsertOrdered ==
  ASSUME NEW S, NEW s \in Seq(S), NEW e \in S, ~Has(s, e), NEW ks \in [S -> Int],
         NEW key \in Int, Ordered(s, ks)
  PROVE  Ordered(InsertAt(s, InsertPos(s, ks, key), e), [ks EXCEPT ![e] = key])
<1> DEFINE i == InsertPos(s, ks, key)
           t == InsertAt(s, i, e)
           kt == [ks EXCEPT ![e] = key]
           T == {k \in 1..(Len(s) + 1) : k <= Len(s) => ks[s[k]] < key}
<1>0. Len(s) \in Nat
  BY LenProperties
<1>1. i \in T /\ \A y \in T : i <= y
  <2>1. T \subseteq Nat /\ T # {} /\ i = Min(T)
    <3>1. Len(s) + 1 \in T
      BY <1>0
    <3> QED
      BY <3>1 DEF InsertPos
  <2> HIDE DEF T, i
  <2> QED
    BY <2>1, LeastNat
<1>2. i \in 1..(Len(s) + 1) /\ (i <= Len(s) => ks[s[i]] < key)
  BY <1>1
<1>3. \A k \in 1..Len(s) : ks[s[k]] \in Int /\ s[k] \in S /\ s[k] # e /\ kt[s[k]] = ks[s[k]]
  BY ElementOfSeq DEF Has
<1>4. \A k \in 1..Len(s) : k < i => ks[s[k]] >= key
  <2> TAKE k \in 1..Len(s)
  <2> HAVE k < i
  <2>1. k \notin T
    BY <1>0, <1>1
  <2> QED
    BY <1>0, <1>3, <2>1
<1>5. \A k \in 1..Len(s) : i <= k => key >= ks[s[k]]
  <2> TAKE k \in 1..Len(s)
  <2> HAVE i <= k
  <2>1. i \in 1..Len(s) /\ ks[s[i]] < key
    BY <1>0, <1>2
  <2>2. ks[s[i]] >= ks[s[k]]
    BY <2>1, <1>3, <1>0 DEF Ordered
  <2> QED
    BY <2>1, <2>2, <1>3
<1> HIDE DEF i, T
<1>6. /\ Len(t) = Len(s) + 1
      /\ \A j \in 1..(Len(s) + 1) :
            t[j] = IF j < i THEN s[j] ELSE IF j = i THEN e ELSE s[j - 1]
  BY <1>2, InsertAtElements
<1>7. kt[e] = key
  OBVIOUS
<1> HIDE DEF t, kt
<1>8. ASSUME NEW a \in 1..Len(t), NEW b \in 1..Len(t), a < b
      PROVE  kt[t[a]] >= kt[t[b]]
  <2>0. /\ a \in 1..(Len(s) + 1) /\ b \in 1..(Len(s) + 1)
        /\ a \in Int /\ b \in Int /\ i \in Int
    BY <1>0, <1>2, <1>6
  <2>1. CASE b < i
    <3>1. a \in 1..Len(s) /\ b \in 1..Len(s) /\ t[a] = s[a] /\ t[b] = s[b]
      BY <1>0, <1>2, <1>6, <1>8, <2>0, <2>1
    <3> QED
      BY <3>1, <1>3, <1>8 DEF Ordered
  <2>2. CASE b = i
    <3>1. a \in 1..Len(s) /\ a < i /\ t[a] = s[a] /\ t[b] = e
      BY <1>0, <1>2, <1>6, <1>8, <2>0, <2>2
    <3> QED
      BY <3>1, <1>3, <1>4, <1>7
  <2>3. CASE b > i /\ a = i
    <3>1. b - 1 \in 1..Len(s) /\ i <= b - 1 /\ t[b] = s[b - 1] /\ t[a] = e
      BY <1>0, <1>2, <1>6, <1>8, <2>0, <2>3
    <3> QED
      BY <3>1, <1>3, <1>5, <1>7
  <2>4. CASE b > i /\ a # i
    <3> DEFINE c == IF a < i THEN a ELSE a - 1
    <3>1. c \in 1..Len(s) /\ b - 1 \in 1..Len(s) /\ c < b - 1
      BY <1>0, <1>2, <1>6, <1>8, <2>0, <2>4
    <3>2. t[a] = s[c] /\ t[b] = s[b - 1]
      BY <1>0, <1>2, <1>6, <1>8, <2>0, <2>4, SMTT(60)
    <3> QED
      BY <3>1, <3>2, <1>3 DEF Ordered
  <2> QED
    BY <2>1, <2>2, <2>3, <2>4, <2>0
<1> QED
  BY <1>8 DEF Ordered, t, kt, i

\* Taking an element out changes nobody's place among the others.
LEMMA RemoveOrdered ==
  ASSUME NEW S, NEW s \in Seq(S), NEW i \in 1..Len(s)
  PROVE  /\ \A ks : Ordered(s, ks) => Ordered(RemoveAt(s, i), ks)
         /\ \A p, q : Ahead(s, p, q) /\ p # s[i] /\ q # s[i]
                         => Ahead(RemoveAt(s, i), p, q)
<1> DEFINE t == RemoveAt(s, i)
<1>0. Len(s) \in Nat
  BY LenProperties
<1>1. /\ Len(t) = Len(s) - 1
      /\ \A j \in 1..(Len(s) - 1) : t[j] = IF j < i THEN s[j] ELSE s[j + 1]
  BY RemoveAtElements
<1> HIDE DEF t
<1>2. ASSUME NEW ks, Ordered(s, ks) PROVE Ordered(t, ks)
  <2> DEFINE c(k) == IF k < i THEN k ELSE k + 1
  <2>1. \A k \in 1..Len(t) : c(k) \in 1..Len(s) /\ t[k] = s[c(k)]
    BY <1>0, <1>1
  <2>2. \A a, b \in 1..Len(t) : a < b => c(a) < c(b)
    BY <1>0, <1>1
  <2> HIDE DEF c
  <2> QED
    BY <2>1, <2>2, <1>2 DEF Ordered
<1>3. ASSUME NEW p, NEW q, Ahead(s, p, q), p # s[i], q # s[i]
      PROVE  Ahead(t, p, q)
  <2>1. PICK a, b \in 1..Len(s) : a < b /\ s[a] = p /\ s[b] = q
    BY <1>3 DEF Ahead
  <2>2. a # i /\ b # i
    BY <2>1, <1>3
  <2> DEFINE c(k) == IF k < i THEN k ELSE k - 1
  <2>3. c(a) \in 1..Len(t) /\ c(b) \in 1..Len(t) /\ c(a) < c(b)
    BY <1>0, <1>1, <2>1, <2>2
  <2>4. t[c(a)] = s[a] /\ t[c(b)] = s[b]
    BY <1>0, <1>1, <2>1, <2>2
  <2> HIDE DEF c
  <2> QED
    BY <2>1, <2>3, <2>4 DEF Ahead
<1> QED
  BY <1>2, <1>3 DEF t

\* The same for the first element ...
LEMMA TailOrdered ==
  ASSUME NEW S, NEW s \in Seq(S), s # << >>
  PROVE  /\ \A ks : Ordered(s, ks) => Ordered(Tail(s), ks)
         /\ \A ks : Ordered(s, ks) => \A p : Has(Tail(s), p) => ks[Head(s)] >= ks[p]
         /\ \A p, q : Ahead(s, p, q) /\ p # Head(s) => Ahead(Tail(s), p, q)
<1> DEFINE t == Tail(s)
<1>0. Len(s) \in Nat /\ Len(s) > 0 /\ Head(s) = s[1]
  BY EmptySeq, HeadTailProperties
<1>1. Len(t) = Len(s) - 1 /\ \A k \in 1..(Len(s) - 1) : t[k] = s[k + 1]
  BY HeadTailProperties
<1> HIDE DEF t
<1>2. ASSUME NEW ks, Ordered(s, ks)
      PROVE  Ordered(t, ks) /\ \A p : Has(t, p) => ks[s[1]] >= ks[p]
  <2>1. \A k \in 1..Len(t) : k + 1 \in 1..Len(s) /\ t[k] = s[k + 1] /\ 1 < k + 1
    BY <1>0, <1>1
  <2>2. \A a, b \in 1..Len(t) : a < b => a + 1 < b + 1
    BY <1>0, <1>1
  <2>3. 1 \in 1..Len(s)
    BY <1>0
  <2> QED
    BY <2>1, <2>2, <2>3, <1>2, ZenonT(60) DEF Ordered, Has
<1>3. ASSUME NEW p, NEW q, Ahead(s, p, q), p # s[1]
      PROVE  Ahead(t, p, q)
  <2>1. PICK a, b \in 1..Len(s) : a < b /\ s[a] = p /\ s[b] = q
    BY <1>3 DEF Ahead
  <2>2. a - 1 \in 1..Len(t) /\ b - 1 \in 1..Len(t) /\ a - 1 < b - 1
    BY <1>0, <1>1, <1>3, <2>1
  <2>3. t[a - 1] = s[a] /\ t[b - 1] = s[b]
    BY <1>0, <1>1, <2>1, <2>2
  <2> QED
    BY <2>1, <2>2, <2>3 DEF Ahead
<1> QED
  BY <1>0, <1>2, <1>3 DEF t

\* ... and a new last element comes after all others.
LEMMA AppendAhead ==
  ASSUME NEW S, NEW s \in Seq(S), NEW e \in S
  PROVE  /\ \A p, q : Ahead(s, p, q) => Ahead(Append(s, e), p, q)
         /\ \A p : Has(s, p) => Ahead(Append(s, e), p, e)
<1> DEFINE t == Append(s, e)
<1>0. Len(s) \in Nat
  BY LenProperties
<1>1. /\ Len(t) = Len(s) + 1 /\ t[Len(s) + 1] = e
      /\ \A k \in 1..Len(s) : t[k] = s[k]
  BY AppendProperties
<1> HIDE DEF t
<1>2. \A k \in 1..Len(s) : k \in 1..Len(t) /\ k < Len(s) + 1
  BY <1>0, <1>1
<1>3. Len(s) + 1 \in 1..Len(t)
  BY <1>0, <1>1
<1> QED
  BY <1>1, <1>2, <1>3 DEF Ahead, Has, t
----------------------------------------------------------------------------
\* The partial sums of the keys of a delta list.

IsSum(f, s, ks, n) == f = [i \in 0..n |-> IF i = 0 THEN 0 ELSE f[i - 1] + ks[s[i]]]

\* There is a function with these sums.  What would be an induction on n is a
\* step from the least number without one.
LEMMA SumExists ==
  ASSUME NEW s, NEW ks, NEW n \in Nat, \A i \in 1..n : ks[s[i]] \in Int
  PROVE  \E f \in [0..n -> Int] : IsSum(f, s, ks, n)
<1> DEFINE T == {m \in 0..n : ~\E f \in [0..m -> Int] : IsSum(f, s, ks, m)}
<1>1. CASE T = {}
  BY <1>1
<1>2. CASE T # {}
  <2> DEFINE m == Min(T)
  <2>1. m \in T /\ \A y \in T : m <= y
    <3>1. T \subseteq Nat
      OBVIOUS
    <3> HIDE DEF T
    <3> QED
      BY <1>2, <3>1, LeastNat
  <2> HIDE DEF m
  <2>2. m # 0
    <3>1. IsSum([i \in 0..0 |-> 0], s, ks, 0)
      BY DEF IsSum
    <3>2. [i \in 0..0 |-> 0] \in [0..0 -> Int]
      OBVIOUS
    <3> QED
      BY <2>1, <3>1, <3>2
  <2>3. m - 1 \in 0..n /\ m - 1 \notin T /\ m \in 1..n
    BY <2>1, <2>2
  <2>4. PICK f \in [0..(m - 1) -> Int] : IsSum(f, s, ks, m - 1)
    BY <2>3
  <2> DEFINE g == [i \in 0..m |-> IF i = m THEN f[m - 1] + ks[s[m]] ELSE f[i]]
  <2>5. g \in [0..m -> Int]
    BY <2>3, <2>4
  <2>6. ASSUME NEW i \in 0..m
        PROVE  g[i] = IF i = 0 THEN 0 ELSE g[i - 1] + ks[s[i]]
    <3>1. CASE i = m
      <4>1. g[i] = f[m - 1] + ks[s[m]] /\ g[m - 1] = f[m - 1]
        BY <2>3, <3>1
      <4> QED
        BY <2>2, <3>1, <4>1
    <3>2. CASE i # m
      <4>1. i \in 0..(m - 1) /\ g[i] = f[i]
        BY <2>3, <3>2
      <4>2. f[i] = IF i = 0 THEN 0 ELSE f[i - 1] + ks[s[i]]
        BY <2>4, <4>1 DEF IsSum
      <4>3. i # 0 => g[i - 1] = f[i - 1]
        BY <2>3, <3>2
      <4> QED
        BY <4>1, <4>2, <4>3
    <3> QED
      BY <3>1, <3>2
  <2>7. IsSum(g, s, ks, m)
    <3>1. g = [i \in 0..m |-> g[i]]
      OBVIOUS
    <3> HIDE DEF g
    <3> QED
      BY <2>6, <3>1 DEF IsSum
  <2> HIDE DEF g
  <2> QED
    BY <2>1, <2>5, <2>7
<1> QED
  BY <1>1, <1>2

\* Two functions with these sums agree as far as both go.
LEMMA SumUnique ==
  ASSUME NEW s, NEW ks, NEW m \in Nat, NEW n \in Nat, m <= n,
         NEW f, IsSum(f, s, ks, m), NEW g, IsSum(g, s, ks, n)
  PROVE  \A i \in 0..m : f[i] = g[i]
<1> DEFINE T == {i \in 0..m : f[i] # g[i]}
<1>1. CASE T = {}
  BY <1>1
<1>2. CASE T # {}
  <2> DEFINE k == Min(T)
  <2>1. k \in T /\ \A y \in T : k <= y
    <3>1. T \subseteq Nat
      OBVIOUS
    <3> HIDE DEF T
    <3> QED
      BY <1>2, <3>1, LeastNat
  <2> HIDE DEF k
  <2>2. k \in 0..m /\ k \in 0..n /\ f[k] # g[k]
    BY <2>1
  <2>3. /\ f[k] = IF k = 0 THEN 0 ELSE f[k - 1] + ks[s[k]]
        /\ g[k] = IF k = 0 THEN 0 ELSE g[k - 1] + ks[s[k]]
    BY <2>2 DEF IsSum
  <2>4. k # 0
    BY <2>2, <2>3
  <2>5. k - 1 \notin T /\ k - 1 \in 0..m
    BY <2>1, <2>2, <2>4
  <2>6. f[k - 1] = g[k - 1]
    BY <2>5
  <2> QED
    BY <2>2, <2>3, <2>4, <2>6
<1> QED
  BY <1>1, <1>2

\* The delay up to a node is the delay up to the one before and the node's key.
LEMMA ElapsedSteps ==
  ASSUME NEW s, NEW ks, NEW n \in Nat, \A i \in 1..n : ks[s[i]] \in Int
  PROVE  /\ Elapsed(s, ks, n) \in Int
         /\ n = 0 => Elapsed(s, ks, n) = 0
         /\ n > 0 => Elapsed(s, ks, n) = Elapsed(s, ks, n - 1) + ks[s[n]]
<1> DEFINE sum(k) == CHOOSE f : IsSum(f, s, ks, k)
<1>1. ASSUME NEW k \in Nat, k <= n
      PROVE  /\ Elapsed(s, ks, k) = sum(k)[k]
             /\ IsSum(sum(k), s, ks, k)
             /\ Elapsed(s, ks, k) \in Int
  <2>1. PICK f \in [0..k -> Int] : IsSum(f, s, ks, k)
    <3>1. \A i \in 1..k : ks[s[i]] \in Int
      BY <1>1
    <3> QED
      BY <3>1, SumExists
  <2>2. IsSum(sum(k), s, ks, k)
    BY <2>1
  <2>3. Elapsed(s, ks, k) = sum(k)[k]
    BY DEF Elapsed, IsSum
  <2> HIDE DEF sum
  <2>4. sum(k)[k] = f[k]
    BY <2>1, <2>2, SumUnique
  <2> QED
    BY <2>1, <2>2, <2>3, <2>4
<1> HIDE DEF sum
<1>2. Elapsed(s, ks, n) \in Int
  BY <1>1
<1>3. n = 0 => Elapsed(s, ks, n) = 0
  <2>1. 0 \in 0..0
    OBVIOUS
  <2> QED
    BY <1>1, <2>1 DEF IsSum
<1>4. ASSUME n > 0
      PROVE  Elapsed(s, ks, n) = Elapsed(s, ks, n - 1) + ks[s[n]]
  <2>1. n - 1 \in Nat /\ n - 1 <= n /\ n \in 0..n /\ n - 1 \in 0..(n - 1)
    BY <1>4
  <2>2. sum(n)[n] = sum(n)[n - 1] + ks[s[n]]
    <3>1. IsSum(sum(n), s, ks, n)
      BY <1>1
    <3> QED
      BY <3>1, <2>1, <1>4 DEF IsSum
  <2>3. sum(n - 1)[n - 1] = sum(n)[n - 1]
    BY <1>1, <2>1, SumUnique
  <2> QED
    BY <1>1, <2>1, <2>2, <2>3
<1> QED
  BY <1>2, <1>3, <1>4
\* insertd changes the keys of processes on the delta list only, and of the one
\* it links.
LEMMA insertdKeys ==
  ASSUME NEW Q, NEW P, NEW qs, Lists(qs, Q, P), NEW q \in Q, NEW ks \in [P -> Int],
         NEW pid \in P, NEW key \in Int
  PROVE  LET kt == insertdKey(qs, ks, pid, q, key) IN
         /\ kt \in [P -> Int]
         /\ \A p \in P : p # pid /\ ~Has(qs[q], p) => kt[p] = ks[p]
<1> DEFINE s == qs[q]
           i == InsertdPos(s, ks, key)
           left == key - Elapsed(s, ks, i - 1)
           kt == insertdKey(qs, ks, pid, q, key)
<1>1. s \in Seq(P) /\ Len(s) \in Nat
  BY LenProperties DEF Lists
<1>2. i \in 1..(Len(s) + 1)
  <2> HIDE DEF s
  <2> QED
    BY <1>1, PositionInList
<1>3. kt = [p \in P |-> IF p = pid THEN left
                        ELSE IF i <= Len(s) /\ p = s[i] THEN ks[p] - left ELSE ks[p]]
  BY DEF insertdKey
<1> HIDE DEF s, i, kt
<1>4. left \in Int
  <2>1. \A k \in 1..Len(s) : ks[s[k]] \in Int
    BY <1>1, ElementOfSeq
  <2>2. i - 1 \in Nat /\ \A k \in 1..(i - 1) : ks[s[k]] \in Int
    BY <1>1, <1>2, <2>1
  <2>3. Elapsed(s, ks, i - 1) \in Int
    BY <2>2, ElapsedSteps
  <2> QED
    BY <2>3
<1> HIDE DEF left
<1>5. i <= Len(s) => Has(s, s[i])
  BY <1>1, <1>2 DEF Has
<1>6. kt \in [P -> Int]
  BY <1>3, <1>4
<1>7. \A p \in P : p # pid /\ ~Has(s, p) => kt[p] = ks[p]
  BY <1>3, <1>5
<1> QED
  BY <1>6, <1>7 DEF s, kt

\* unsleep changes the keys of processes on the delta list only.
LEMMA unsleepKeys ==
  ASSUME NEW Q, NEW P, NEW qs, Lists(qs, Q, P), NEW q \in Q, NEW ks \in [P -> Int],
         NEW pid \in P
  PROVE  LET kt == unsleepKey(qs, ks, pid, q) IN
         /\ kt \in [P -> Int]
         /\ \A p \in P : ~Has(qs[q], p) => kt[p] = ks[p]
<1> DEFINE s == qs[q]
           kt == unsleepKey(qs, ks, pid, q)
<1>1. s \in Seq(P) /\ Len(s) \in Nat
  BY LenProperties DEF Lists
<1>2. kt = [p \in P |-> IF \E i \in 1..(Len(s) - 1) : s[i] = pid /\ s[i + 1] = p
                        THEN ks[p] + ks[pid] ELSE ks[p]]
  BY DEF unsleepKey
<1> HIDE DEF s, kt
<1>3. \A i \in 1..(Len(s) - 1) : i + 1 \in 1..Len(s)
  BY <1>1
<1>4. kt \in [P -> Int]
  BY <1>2
<1>5. \A p \in P : ~Has(s, p) => kt[p] = ks[p]
  BY <1>2, <1>3 DEF Has
<1> QED
  BY <1>4, <1>5 DEF s, kt

----------------------------------------------------------------------------
\* The delays in a delta list.

\* What holds of the first number of an interval, and of each next one, holds of
\* all of them.
LEMMA StepsReach ==
  ASSUME NEW a \in Nat, NEW b \in Nat, NEW A, a \in A,
         \A n \in a..(b - 1) : n \in A => n + 1 \in A
  PROVE  \A n \in a..b : n \in A
<1> DEFINE T == {n \in a..b : n \notin A}
<1>1. CASE T = {}
  BY <1>1
<1>2. CASE T # {}
  <2> DEFINE m == Min(T)
  <2>1. m \in T /\ \A y \in T : m <= y
    <3>1. T \subseteq Nat
      OBVIOUS
    <3> HIDE DEF T
    <3> QED
      BY <1>2, <3>1, LeastNat
  <2> HIDE DEF m
  <2>2. m \in a..b /\ m # a
    BY <2>1
  <2>3. m - 1 \in a..(b - 1) /\ m - 1 \notin T /\ m - 1 + 1 = m
    BY <2>1, <2>2
  <2>4. m - 1 \in A
    BY <2>3
  <2> QED
    BY <2>1, <2>3, <2>4
<1> QED
  BY <1>1, <1>2

\* The first n nodes of a list have integer keys.
IntKeys(s, ks, n) == n \in Nat /\ \A i \in 1..n : ks[s[i]] \in Int

\* The keys of a list of processes are integers.
LEMMA KeysAreInt ==
  ASSUME NEW P, NEW s \in Seq(P), NEW ks \in [P -> Int]
  PROVE  IntKeys(s, ks, Len(s))
<1>1. \A i \in 1..Len(s) : ks[s[i]] \in Int
  BY ElementOfSeq
<1>2. Len(s) \in Nat
  BY LenProperties
<1> QED
  BY <1>1, <1>2 DEF IntKeys

\* The delay up to a node is an integer, and grows by the next node's key.
LEMMA ElapsedOf ==
  ASSUME NEW s, NEW ks, NEW b, IntKeys(s, ks, b)
  PROVE  /\ \A n \in 0..b : Elapsed(s, ks, n) \in Int
         /\ Elapsed(s, ks, 0) = 0
         /\ \A n \in 1..b : /\ ks[s[n]] \in Int
                            /\ Elapsed(s, ks, n) = Elapsed(s, ks, n - 1) + ks[s[n]]
<1>1. b \in Nat /\ \A i \in 1..b : ks[s[i]] \in Int
  BY DEF IntKeys
<1>3. ASSUME NEW n \in 0..b
      PROVE  /\ Elapsed(s, ks, n) \in Int
             /\ n = 0 => Elapsed(s, ks, n) = 0
             /\ n > 0 => Elapsed(s, ks, n) = Elapsed(s, ks, n - 1) + ks[s[n]]
  <2>1. n \in Nat /\ \A i \in 1..n : ks[s[i]] \in Int
    BY <1>1
  <2> QED
    BY <2>1, ElapsedSteps
<1>4. 0 \in 0..b /\ \A n \in 1..b : n \in 0..b /\ n > 0
  BY <1>1
<1> QED
  BY <1>1, <1>3, <1>4

\* The keys of t are those of s, from place a to place b.
Alike(s, ks, t, kt, a, b) ==
    /\ IntKeys(s, ks, b) /\ IntKeys(t, kt, b) /\ a \in Nat /\ a <= b
    /\ \A j \in (a + 1)..b : kt[t[j]] = ks[s[j]]

\* Two lists whose keys agree from place a on have delays that differ by what they
\* differ by at that place.
LEMMA ElapsedAlike ==
  ASSUME NEW s, NEW ks, NEW t, NEW kt, NEW a, NEW b, Alike(s, ks, t, kt, a, b),
         NEW c \in Int, Elapsed(t, kt, a) = Elapsed(s, ks, a) + c
  PROVE  \A n \in a..b : Elapsed(t, kt, n) = Elapsed(s, ks, n) + c
<1>1. /\ IntKeys(s, ks, b) /\ IntKeys(t, kt, b) /\ a \in Nat /\ b \in Nat /\ a <= b
      /\ \A j \in (a + 1)..b : kt[t[j]] = ks[s[j]]
  BY DEF Alike, IntKeys
<1> DEFINE A == {n \in a..b : Elapsed(t, kt, n) = Elapsed(s, ks, n) + c}
<1>2. \A m \in 1..b : /\ Elapsed(s, ks, m) = Elapsed(s, ks, m - 1) + ks[s[m]]
                      /\ ks[s[m]] \in Int
  BY <1>1, ElapsedOf
<1>3. \A m \in 1..(b) : Elapsed(t, kt, m) = Elapsed(t, kt, m - 1) + kt[t[m]]
  BY <1>1, ElapsedOf
<1>4. \A m \in 0..b : Elapsed(s, ks, m) \in Int
  BY <1>1, ElapsedOf
<1>5. a \in A
  BY <1>1
<1>6. ASSUME NEW n \in a..(b - 1), n \in A
      PROVE  n + 1 \in A
  <2> DEFINE m == n + 1
  <2>1. /\ m \in 1..b /\ m \in (a + 1)..b /\ m \in a..b
        /\ m - 1 = n /\ n \in 0..b
    BY <1>1
  <2> HIDE DEF m
  <2>2. Elapsed(s, ks, m) = Elapsed(s, ks, n) + ks[s[m]] /\ ks[s[m]] \in Int
    BY <1>2, <2>1
  <2>3. Elapsed(t, kt, m) = Elapsed(t, kt, n) + kt[t[m]] /\ kt[t[m]] = ks[s[m]]
    BY <1>1, <1>3, <2>1
  <2>4. Elapsed(t, kt, n) = Elapsed(s, ks, n) + c /\ Elapsed(s, ks, n) \in Int
    BY <1>4, <1>6, <2>1
  <2>5. Elapsed(t, kt, m) = Elapsed(s, ks, m) + c
    BY <2>2, <2>3, <2>4
  <2>6. m \in A
    BY <2>1, <2>5
  <2> QED
    BY <2>6 DEF m
<1> HIDE DEF A
<1>7. \A n \in a..b : n \in A
  BY <1>1, <1>5, <1>6, StepsReach
<1> QED
  BY <1>7 DEF A

\* The keys of t are those of s, one place ahead, from place a to place b of s.
Shifted(s, ks, t, kt, a, b) ==
    /\ IntKeys(s, ks, b) /\ IntKeys(t, kt, b + 1) /\ a \in Nat /\ a <= b
    /\ \A j \in (a + 1)..b : kt[t[j + 1]] = ks[s[j]]

\* The same where t is one place ahead of s.
LEMMA ElapsedAhead ==
  ASSUME NEW s, NEW ks, NEW t, NEW kt, NEW a, NEW b, Shifted(s, ks, t, kt, a, b),
         NEW c \in Int, Elapsed(t, kt, a + 1) = Elapsed(s, ks, a) + c
  PROVE  \A n \in a..b : Elapsed(t, kt, n + 1) = Elapsed(s, ks, n) + c
<1>1. /\ IntKeys(s, ks, b) /\ IntKeys(t, kt, b + 1)
      /\ a \in Nat /\ b \in Nat /\ a <= b
      /\ \A j \in (a + 1)..b : kt[t[j + 1]] = ks[s[j]]
  BY DEF Shifted, IntKeys
<1> DEFINE A == {n \in a..b : Elapsed(t, kt, n + 1) = Elapsed(s, ks, n) + c}
<1>2. \A m \in 1..b : /\ Elapsed(s, ks, m) = Elapsed(s, ks, m - 1) + ks[s[m]]
                      /\ ks[s[m]] \in Int
  BY <1>1, ElapsedOf
<1>3. \A m \in 1..(b + 1) : Elapsed(t, kt, m) = Elapsed(t, kt, m - 1) + kt[t[m]]
  BY <1>1, ElapsedOf
<1>4. \A m \in 0..b : Elapsed(s, ks, m) \in Int
  BY <1>1, ElapsedOf
<1>5. a \in A
  BY <1>1
<1>6. ASSUME NEW n \in a..(b - 1), n \in A
      PROVE  n + 1 \in A
  <2> DEFINE m == n + 1
  <2> DEFINE r == m + 1
  <2>1. /\ m \in 1..b /\ m \in (a + 1)..b /\ m \in a..b
        /\ m - 1 = n /\ n \in 0..b /\ m \in Int
    BY <1>1
  <2> n + 1 = m
    OBVIOUS
  <2> HIDE DEF m
  <2>2. r \in 1..(b + 1) /\ r - 1 = m
    BY <1>1, <2>1
  <2>3. kt[t[r]] = ks[s[m]]
    BY <1>1, <2>1
  <2> HIDE DEF r
  <2>4. Elapsed(s, ks, m) = Elapsed(s, ks, n) + ks[s[m]] /\ ks[s[m]] \in Int
    BY <1>2, <2>1
  <2>5. Elapsed(t, kt, r) = Elapsed(t, kt, m) + kt[t[r]]
    BY <1>3, <2>2
  <2>6. Elapsed(t, kt, m) = Elapsed(s, ks, n) + c /\ Elapsed(s, ks, n) \in Int
    BY <1>4, <1>6, <2>1
  <2>7. Elapsed(t, kt, r) = Elapsed(s, ks, m) + c
    <3> DEFINE x == Elapsed(s, ks, n)
    <3> DEFINE y == ks[s[m]]
    <3>1. /\ x \in Int /\ y \in Int /\ Elapsed(s, ks, m) = x + y
          /\ Elapsed(t, kt, r) = (x + c) + y
      BY <2>3, <2>4, <2>5, <2>6
    <3> HIDE DEF x, y
    <3> QED
      BY <3>1
  <2>8. m \in A
    BY <2>1, <2>7 DEF r
  <2> QED
    BY <2>8 DEF m
<1> HIDE DEF A
<1>7. \A n \in a..b : n \in A
  BY <1>1, <1>5, <1>6, StepsReach
<1> QED
  BY <1>7 DEF A

\* The ticks until the process at a place of the list is due: the keys up to it,
\* without what the first one is overdue.
Left(s, ks, p) ==
    LET i == CHOOSE j \in 1..Len(s) : s[j] = p
    IN  Elapsed(s, ks, i) - Min({ks[Head(s)], 0})

\* What the process at place j has left, without the CHOOSE.
LEMMA LeftAt ==
  ASSUME NEW s, NEW ks, Distinct(s), IntKeys(s, ks, Len(s)), NEW j \in 1..Len(s)
  PROVE  /\ Left(s, ks, s[j]) =
               Elapsed(s, ks, j) - IF ks[s[1]] <= 0 THEN ks[s[1]] ELSE 0
         /\ ks[s[1]] \in Int /\ Elapsed(s, ks, j) \in Int /\ 1 \in 1..Len(s)
<1> DEFINE i == CHOOSE k \in 1..Len(s) : s[k] = s[j]
<1>1. i = j
  BY DEF Distinct
<1>2. 1 \in 1..Len(s) /\ j \in 0..Len(s)
  BY DEF IntKeys
<1>3. Head(s) = s[1]
  BY DEF Head
<1>4. \A k \in Int : Min({k, 0}) = IF k <= 0 THEN k ELSE 0
  BY DEF Min
<1>5. ks[s[1]] \in Int
  BY <1>2 DEF IntKeys
<1>6. Left(s, ks, s[j]) = Elapsed(s, ks, i) - Min({ks[Head(s)], 0})
  BY DEF Left
<1>7. Elapsed(s, ks, j) \in Int
  BY <1>2, ElapsedOf
<1> HIDE DEF i
<1> QED
  BY <1>1, <1>2, <1>3, <1>4, <1>5, <1>6, <1>7

\* The delay up to the first node.
LEMMA ElapsedFirst ==
  ASSUME NEW s, NEW ks, NEW b, IntKeys(s, ks, b), 1 <= b
  PROVE  /\ Elapsed(s, ks, 1) = ks[s[1]] /\ ks[s[1]] \in Int
         /\ Elapsed(s, ks, 0) = 0
<1>1. 1 \in 1..b
  BY DEF IntKeys
<1>2. /\ Elapsed(s, ks, 1) = Elapsed(s, ks, 1 - 1) + ks[s[1]] /\ ks[s[1]] \in Int
      /\ Elapsed(s, ks, 0) = 0
  BY <1>1, ElapsedOf
<1> QED
  BY <1>2

\* A tick brings every sleeper one tick nearer, or none when the first one was
\* due already.
LEMMA TickDelays ==
  ASSUME NEW s, NEW ks, NEW kt, Distinct(s), 1 <= Len(s),
         IntKeys(s, ks, Len(s)), IntKeys(s, kt, Len(s)),
         kt[s[1]] = ks[s[1]] - 1, \A j \in 2..Len(s) : kt[s[j]] = ks[s[j]]
  PROVE  \A p : Has(s, p) => Left(s, kt, p) \in {Left(s, ks, p), Left(s, ks, p) - 1}
<1> DEFINE c == -1
<1> DEFINE b == Len(s)
<1> DEFINE a == 1
<1>1. /\ Elapsed(s, ks, 1) = ks[s[1]] /\ Elapsed(s, kt, 1) = kt[s[1]]
      /\ ks[s[1]] \in Int /\ kt[s[1]] \in Int
  BY ElapsedFirst
<1>2. /\ Alike(s, ks, s, kt, a, b) /\ c \in Int
      /\ Elapsed(s, kt, a) = Elapsed(s, ks, a) + c
  BY <1>1 DEF Alike, IntKeys
<1>3. \A n \in a..b : Elapsed(s, kt, n) = Elapsed(s, ks, n) + c
  <2> HIDE DEF a, b, c
  <2> QED
    BY ONLY <1>2, ElapsedAlike
<1>4. ASSUME NEW j \in 1..Len(s)
      PROVE  Left(s, kt, s[j]) \in {Left(s, ks, s[j]), Left(s, ks, s[j]) - 1}
  <2>1. /\ Left(s, ks, s[j]) = Elapsed(s, ks, j) - IF ks[s[1]] <= 0 THEN ks[s[1]] ELSE 0
        /\ Elapsed(s, ks, j) \in Int
    BY LeftAt
  <2>2. Left(s, kt, s[j]) = Elapsed(s, kt, j) - IF kt[s[1]] <= 0 THEN kt[s[1]] ELSE 0
    BY LeftAt
  <2>3. Elapsed(s, kt, j) = Elapsed(s, ks, j) - 1
    BY <1>3, <2>1 DEF b, c
  <2> DEFINE k == ks[s[1]]
  <2> DEFINE l == kt[s[1]]
  <2> DEFINE x == Elapsed(s, ks, j)
  <2>4. /\ k \in Int /\ l = k - 1 /\ x \in Int
        /\ Left(s, ks, s[j]) = x - IF k <= 0 THEN k ELSE 0
        /\ Left(s, kt, s[j]) = (x - 1) - IF l <= 0 THEN l ELSE 0
    BY <1>1, <2>1, <2>2, <2>3
  <2> HIDE DEF k, l, x
  <2>5. Left(s, kt, s[j]) = Left(s, ks, s[j]) \/ Left(s, kt, s[j]) = Left(s, ks, s[j]) - 1
    BY <2>4
  <2> QED
    BY <2>5
<1> QED
  BY <1>4 DEF Has

\* Taking the first sleeper off, when it is due, leaves the others their time.
LEMMA TailDelays ==
  ASSUME NEW P, NEW s \in Seq(P), Distinct(s), s # << >>,
         NEW ks \in [P -> Int], NEW kt \in [P -> Int],
         ks[s[1]] <= 0, \A j \in 2..Len(s) : ks[s[j]] >= 0 /\ kt[s[j]] = ks[s[j]]
  PROVE  /\ \A p : Has(Tail(s), p) => Left(Tail(s), kt, p) = Left(s, ks, p)
         /\ \A j \in 1..Len(Tail(s)) : kt[Tail(s)[j]] >= 0
<1> DEFINE t == Tail(s)
<1> DEFINE c == ks[s[1]]
<1> DEFINE b == Len(s) - 1
<1> DEFINE a == 0
<1>1. /\ t \in Seq(P) /\ Len(t) = Len(s) - 1 /\ Distinct(t)
      /\ \A j \in 1..(Len(s) - 1) : t[j] = s[j + 1]
  BY HeadTailProperties, TailMembers
<1>2. /\ Len(s) \in Nat /\ 1 <= Len(s) /\ Len(t) \in Nat
  BY <1>1, LenProperties, EmptySeq
<1> HIDE DEF t
<1>3. IntKeys(s, ks, Len(s)) /\ IntKeys(t, kt, Len(t))
  BY <1>1, KeysAreInt
<1>4. /\ c \in Int /\ Elapsed(s, ks, 1) = c /\ Elapsed(t, kt, 0) = 0
  BY <1>2, <1>3, ElapsedFirst, ElapsedOf
<1>5. \A j \in 1..Len(t) : /\ j + 1 \in 2..Len(s) /\ t[j] = s[j + 1]
                           /\ ks[s[j + 1]] = kt[t[j]] /\ kt[t[j]] >= 0
  <2>1. \A j \in 1..Len(t) : j + 1 \in 2..Len(s) /\ t[j] = s[j + 1]
    BY <1>1, <1>2
  <2> QED
    BY <2>1, SMTT(60)
<1>6. Shifted(t, kt, s, ks, a, b) /\ c \in Int /\ Elapsed(s, ks, a + 1) = Elapsed(t, kt, a) + c
  <2>1. b = Len(t) /\ b + 1 = Len(s)
    BY <1>1, <1>2
  <2>2. \A j \in (a + 1)..b : ks[s[j + 1]] = kt[t[j]]
    BY <1>5, <2>1, SMTT(60)
  <2> QED
    BY <1>2, <1>3, <1>4, <2>1, <2>2 DEF Shifted
<1>7. \A n \in a..b : Elapsed(s, ks, n + 1) = Elapsed(t, kt, n) + c
  <2> HIDE DEF a, b, c
  <2> QED
    BY ONLY <1>6, ElapsedAhead
<1>8. ASSUME NEW j \in 1..Len(t)
      PROVE  Left(t, kt, t[j]) = Left(s, ks, t[j]) /\ kt[t[j]] >= 0
  <2> DEFINE m == j + 1
  <2>1. m \in 1..Len(s) /\ t[j] = s[m] /\ 1 \in 1..Len(t) /\ j \in a..b
    BY <1>1, <1>2, <1>5, SMTT(60)
  <2>2. Elapsed(s, ks, m) = Elapsed(t, kt, j) + c
    BY <1>7, <2>1
  <2> HIDE DEF m
  <2>3. kt[t[j]] >= 0 /\ kt[t[1]] >= 0
    BY <1>5, <2>1
  <2>4. /\ Left(s, ks, s[m]) = Elapsed(s, ks, m) - IF ks[s[1]] <= 0 THEN ks[s[1]] ELSE 0
        /\ Elapsed(s, ks, m) \in Int
    BY <1>3, <2>1, LeftAt
  <2>5. /\ Left(t, kt, t[j]) = Elapsed(t, kt, j) - IF kt[t[1]] <= 0 THEN kt[t[1]] ELSE 0
        /\ kt[t[1]] \in Int /\ Elapsed(t, kt, j) \in Int
    BY <1>1, <1>3, LeftAt, ZenonT(60)
  <2>6. Left(t, kt, t[j]) = Elapsed(t, kt, j)
    BY <2>3, <2>5
  <2>7. Left(s, ks, s[m]) = Elapsed(t, kt, j)
    BY <1>4, <2>2, <2>4, <2>5
  <2> QED
    BY <2>1, <2>3, <2>6, <2>7
<1> QED
  BY <1>8 DEF Has, t

\* In a list without overdue keys, what a process has left is the delay up to it.
LEMMA LeftOnTime ==
  ASSUME NEW s, NEW ks, Distinct(s), IntKeys(s, ks, Len(s)),
         \A j \in 1..Len(s) : ks[s[j]] >= 0
  PROVE  \A j \in 1..Len(s) : Left(s, ks, s[j]) = Elapsed(s, ks, j)
<1>1. ASSUME NEW j \in 1..Len(s)
      PROVE  Left(s, ks, s[j]) = Elapsed(s, ks, j)
  <2> DEFINE k == ks[s[1]]
             x == Elapsed(s, ks, j)
  <2>1. /\ Left(s, ks, s[j]) = x - IF k <= 0 THEN k ELSE 0
        /\ k \in Int /\ x \in Int /\ 1 \in 1..Len(s)
    BY LeftAt
  <2>2. k >= 0
    BY <2>1
  <2> HIDE DEF k, x
  <2>3. Left(s, ks, s[j]) = x
    BY <2>1, <2>2
  <2> QED
    BY <2>3 DEF x
<1> QED
  BY <1>1

\* The place insertd finds: the delay up to the node before it is not above the
\* new one, and what is left of that is below the key of the node after it.
LEMMA InsertdFits ==
  ASSUME NEW s, NEW ks, IntKeys(s, ks, Len(s)), NEW key \in Nat
  PROVE  LET i == InsertdPos(s, ks, key)
             left == key - Elapsed(s, ks, i - 1)
         IN  /\ i \in 1..(Len(s) + 1) /\ left \in Nat /\ Elapsed(s, ks, i - 1) \in Int
             /\ i <= Len(s) => ks[s[i]] > left
<1> DEFINE T == {i \in 1..(Len(s) + 1) :
                   i <= Len(s) => ks[s[i]] > key - Elapsed(s, ks, i - 1)}
           i == InsertdPos(s, ks, key)
           x == Elapsed(s, ks, i - 1)
<1>1. Len(s) \in Nat
  BY DEF IntKeys
<1>2. T \subseteq Nat /\ T # {}
  <2>1. Len(s) + 1 \in T
    BY <1>1
  <2> QED
    BY <1>1, <2>1
<1>3. i = Min(T)
  BY DEF InsertdPos
<1> HIDE DEF T
<1>4. i \in T /\ \A y \in T : i <= y
  BY <1>2, <1>3, LeastNat
<1> HIDE DEF i
<1>5. i \in 1..(Len(s) + 1) /\ (i <= Len(s) => ks[s[i]] > key - Elapsed(s, ks, i - 1))
  BY <1>4 DEF T
<1>6. i - 1 \in 0..Len(s) /\ x \in Int
  <2>1. i - 1 \in 0..Len(s)
    BY <1>1, <1>5
  <2> QED
    BY <2>1, ElapsedOf
<1>7. key - x >= 0
  <2>1. CASE i = 1
    <3>1. x = 0
      BY <2>1, ElapsedOf
    <3> QED
      BY <3>1
  <2>2. CASE i # 1
    <3> DEFINE h == i - 1
    <3>1. h \in 1..Len(s) /\ h \in 1..(Len(s) + 1) /\ ~(i <= h) /\ h - 1 \in 0..Len(s)
      BY <1>1, <1>5, <2>2
    <3> HIDE DEF h
    <3>2. h \notin T
      BY <1>4, <3>1
    <3>3. ~(ks[s[h]] > key - Elapsed(s, ks, h - 1))
      BY <3>1, <3>2 DEF T
    <3>4. /\ Elapsed(s, ks, h) = Elapsed(s, ks, h - 1) + ks[s[h]] /\ ks[s[h]] \in Int
          /\ Elapsed(s, ks, h - 1) \in Int
      BY <3>1, ElapsedOf
    <3> DEFINE u == Elapsed(s, ks, h - 1)
               v == ks[s[h]]
    <3>5. u \in Int /\ v \in Int /\ ~(v > key - u) /\ Elapsed(s, ks, h) = u + v
      BY <3>3, <3>4
    <3> HIDE DEF u, v
    <3>6. key - Elapsed(s, ks, h) >= 0
      BY <3>5
    <3> QED
      BY <3>6 DEF h
  <2> QED
    BY <2>1, <2>2
<1>8. key - x \in Nat
  <2> HIDE DEF x
  <2> QED
    BY <1>6, <1>7
<1> QED
  BY <1>5, <1>6, <1>8 DEF i

\* A new sleeper does not change when the others are due.
LEMMA InsertDelays ==
  ASSUME NEW P, NEW s \in Seq(P), Distinct(s), NEW e \in P, ~Has(s, e),
         NEW ks \in [P -> Int], NEW kt \in [P -> Int],
         NEW i \in 1..(Len(s) + 1), NEW left \in Nat, i <= Len(s) => ks[s[i]] > left,
         kt[e] = left, \A j \in 1..Len(s) : ks[s[j]] >= 0,
         \A j \in 1..Len(s) : kt[s[j]] = IF j = i THEN ks[s[j]] - left ELSE ks[s[j]]
  PROVE  /\ \A p : Has(s, p) => Left(InsertAt(s, i, e), kt, p) = Left(s, ks, p)
         /\ \A j \in 1..Len(InsertAt(s, i, e)) : kt[InsertAt(s, i, e)[j]] >= 0
<1> DEFINE t == InsertAt(s, i, e)
           n == Len(s)
<1>1. n \in Nat /\ IntKeys(s, ks, n)
  BY LenProperties, KeysAreInt
<1>2. /\ i \in 1..(n + 1) /\ left \in Nat
      /\ i <= n => ks[s[i]] > left
  OBVIOUS
<1>3. /\ t \in Seq(P) /\ Len(t) = n + 1 /\ Distinct(t)
      /\ \A j \in 1..(n + 1) : t[j] = IF j < i THEN s[j]
                                      ELSE IF j = i THEN e ELSE s[j - 1]
  BY <1>2, InsertAtElements, InsertMembers
<1> HIDE DEF t
<1>4. IntKeys(t, kt, n + 1)
  <2>1. IntKeys(t, kt, Len(t))
    BY <1>3, KeysAreInt
  <2> QED
    BY <1>3, <2>1
<1>5. \A j \in 1..n : j < i => t[j] = s[j] /\ kt[t[j]] = ks[s[j]]
  <2>1. ASSUME NEW j \in 1..n, j < i PROVE t[j] = s[j] /\ j # i
    <3>1. j \in 1..(n + 1) /\ j # i
      BY <1>1, <1>2, <2>1
    <3> QED
      BY <1>3, <2>1, <3>1
  <2> QED
    BY <2>1
<1>6. t[i] = e /\ kt[t[i]] = left
  BY <1>1, <1>2, <1>3
<1>7. \A j \in 1..n : j >= i => t[j + 1] = s[j]
  <2>1. ASSUME NEW j \in 1..n, j >= i PROVE t[j + 1] = s[j]
    <3> DEFINE g == j + 1
    <3>1. g \in 1..(n + 1) /\ ~(g < i) /\ g # i /\ g - 1 = j
      BY <1>1, <1>2, <2>1
    <3> HIDE DEF g
    <3>2. t[g] = s[j]
      BY <1>3, <3>1
    <3> QED
      BY <3>2 DEF g
  <2> QED
    BY <2>1
<1>8. \A j \in 1..n : j > i => kt[t[j + 1]] = ks[s[j]]
  <2>1. ASSUME NEW j \in 1..n, j > i PROVE kt[t[j + 1]] = ks[s[j]]
    <3>1. j >= i /\ j # i
      BY <1>1, <1>2, <2>1
    <3> QED
      BY <1>7, <3>1
  <2> QED
    BY <2>1
<1>9. \A j \in 0..n : j < i => Elapsed(t, kt, j) = Elapsed(s, ks, j)
  <2> DEFINE a == 0
             b == i - 1
             c == 0
  <2>1. IntKeys(s, ks, b) /\ IntKeys(t, kt, b) /\ b \in Nat
    BY <1>1, <1>2, <1>4 DEF IntKeys
  <2>2. Elapsed(t, kt, 0) = 0 /\ Elapsed(s, ks, 0) = 0
    BY <2>1, ElapsedOf
  <2>3. \A j \in (a + 1)..b : kt[t[j]] = ks[s[j]]
    BY <1>1, <1>2, <1>5, SMTT(60)
  <2>4. Alike(s, ks, t, kt, a, b) /\ Elapsed(t, kt, a) = Elapsed(s, ks, a) + c /\ c \in Int
    BY <2>1, <2>2, <2>3 DEF Alike
  <2>5. \A j \in a..b : Elapsed(t, kt, j) = Elapsed(s, ks, j) + c
    <3> HIDE DEF a, b, c
    <3> QED
      BY ONLY <2>4, ElapsedAlike
  <2>6. \A j \in a..b : Elapsed(s, ks, j) \in Int
    BY <2>1, ElapsedOf
  <2>7. \A j \in a..b : Elapsed(t, kt, j) = Elapsed(s, ks, j)
    BY <2>5, <2>6
  <2>8. \A j \in 0..n : j < i => j \in a..b
    BY <1>1, <1>2
  <2> QED
    BY <2>7, <2>8
<1>10. \A j \in 0..n : j >= i => Elapsed(t, kt, j + 1) = Elapsed(s, ks, j)
  <2>1. SUFFICES ASSUME i <= n
                 PROVE  \A j \in i..n : Elapsed(t, kt, j + 1) = Elapsed(s, ks, j)
    BY <1>1, <1>2, SMTT(60)
  <2> DEFINE x == Elapsed(s, ks, i - 1)
             k == ks[s[i]]
             g == i + 1
             c == 0
  <2>2. i \in 1..n /\ i \in 1..(n + 1) /\ g \in 1..(n + 1) /\ g - 1 = i /\ i - 1 \in 0..n
        /\ i - 1 < i
    BY <1>1, <1>2, <2>1
  <2>3. Elapsed(s, ks, i) = x + k /\ k \in Int /\ x \in Int
    BY <1>1, <2>2, ElapsedOf, SMTT(60)
  <2>4. Elapsed(t, kt, i) = x + left
    <3>1. Elapsed(t, kt, i) = Elapsed(t, kt, i - 1) + kt[t[i]]
      BY <1>4, <2>2, ElapsedOf, ZenonT(60)
    <3>2. Elapsed(t, kt, i - 1) = x
      BY <1>9, <2>2
    <3> QED
      BY <1>6, <3>1, <3>2
  <2>5. Elapsed(t, kt, g) = Elapsed(t, kt, i) + kt[t[g]] /\ kt[t[g]] = k - left
    <3>1. Elapsed(t, kt, g) = Elapsed(t, kt, g - 1) + kt[t[g]]
      <4> DEFINE b == n + 1
      <4>1. \A h \in 1..b : Elapsed(t, kt, h) = Elapsed(t, kt, h - 1) + kt[t[h]]
        <5>1. IntKeys(t, kt, b)
          BY <1>4
        <5> HIDE DEF b
        <5> QED
          BY ONLY <5>1, ElapsedOf
      <4> HIDE DEF g
      <4> QED
        BY <2>2, <4>1
    <3>2. t[g] = s[i] /\ kt[s[i]] = k - left
      <4>1. i >= i
        BY <2>2
      <4>2. t[i + 1] = s[i]
        BY <1>7, <2>2, <4>1
      <4> QED
        BY <2>2, <4>2
    <3> QED
      BY <2>2, <3>1, <3>2
  <2>6. Elapsed(t, kt, g) = Elapsed(s, ks, i) + c
    <3> HIDE DEF x, k, g
    <3> QED
      BY <1>2, <2>3, <2>4, <2>5
  <2>7. Shifted(s, ks, t, kt, i, n)
    BY <1>1, <1>2, <1>4, <1>8, <2>1 DEF Shifted
  <2>8. \A j \in i..n : Elapsed(t, kt, j + 1) = Elapsed(s, ks, j) + c
    <3> DEFINE a == i
    <3>1. /\ Shifted(s, ks, t, kt, a, n) /\ c \in Int
          /\ Elapsed(t, kt, a + 1) = Elapsed(s, ks, a) + c
      BY <2>6, <2>7
    <3> HIDE DEF a, c, n
    <3>2. \A j \in a..n : Elapsed(t, kt, j + 1) = Elapsed(s, ks, j) + c
      BY ONLY <3>1, ElapsedAhead
    <3> QED
      BY <3>2 DEF a
  <2>9. \A j \in i..n : Elapsed(s, ks, j) \in Int
    <3>1. \A j \in i..n : j \in 0..n
      BY <2>2
    <3> QED
      BY <1>1, <3>1, ElapsedOf
  <2> QED
    BY <2>8, <2>9
<1>11. \A j \in 1..Len(t) : kt[t[j]] >= 0
  <2>1. ASSUME NEW j \in 1..(n + 1) PROVE kt[t[j]] >= 0
    <3>1. CASE j < i
      <4>1. j \in 1..n
        BY <1>1, <1>2, <3>1
      <4> QED
        BY <1>5, <3>1, <4>1
    <3>2. CASE j = i
      BY <1>2, <1>6, <3>2
    <3>3. CASE j > i
      <4> DEFINE h == j - 1
      <4>1. h \in 1..n /\ h >= i /\ h + 1 = j
        BY <1>1, <1>2, <3>3
      <4> HIDE DEF h
      <4>2. t[j] = s[h]
        BY <1>7, <4>1
      <4>3. kt[s[h]] = IF h = i THEN ks[s[h]] - left ELSE ks[s[h]]
        BY <4>1
      <4>4. ks[s[h]] \in Int /\ ks[s[h]] >= 0
        BY <1>1, <4>1 DEF IntKeys
      <4>5. h = i => ks[s[h]] > left
        BY <1>2, <4>1
      <4> DEFINE k == ks[s[h]]
      <4> HIDE DEF k
      <4>6. /\ k \in Int /\ k >= 0 /\ (h = i => k > left)
            /\ kt[s[h]] = IF h = i THEN k - left ELSE k
        BY <4>3, <4>4, <4>5 DEF k
      <4>7. kt[s[h]] >= 0
        BY <1>2, <4>6
      <4> QED
        BY <4>2, <4>7
    <3> QED
      BY <1>1, <1>2, <3>1, <3>2, <3>3
  <2> QED
    BY <1>3, <2>1
<1>12. ASSUME NEW j \in 1..n
       PROVE  Left(t, kt, s[j]) = Left(s, ks, s[j])
  <2>1. Left(s, ks, s[j]) = Elapsed(s, ks, j)
    BY <1>1, LeftOnTime
  <2>2. IntKeys(t, kt, Len(t)) /\ \A h \in 1..Len(t) : Left(t, kt, t[h]) = Elapsed(t, kt, h)
    BY <1>3, <1>4, <1>11, LeftOnTime
  <2>3. CASE j < i
    <3>1. j \in 1..Len(t) /\ t[j] = s[j] /\ j \in 0..n
      BY <1>1, <1>3, <1>5, <2>3
    <3> QED
      BY <1>9, <2>1, <2>2, <2>3, <3>1
  <2>4. CASE j >= i
    <3> DEFINE g == j + 1
    <3>1. g \in 1..Len(t) /\ t[g] = s[j] /\ j \in 0..n
      BY <1>1, <1>3, <1>7, <2>4
    <3>2. Elapsed(t, kt, g) = Elapsed(s, ks, j)
      BY <1>10, <2>4, <3>1
    <3> HIDE DEF g
    <3> QED
      BY <2>1, <2>2, <3>1, <3>2
  <2> QED
    BY <1>1, <1>2, <2>3, <2>4
<1> QED
  BY <1>11, <1>12 DEF Has, t

\* A sleeper that leaves before it is due does not change when the others are.
LEMMA RemoveDelays ==
  ASSUME NEW P, NEW s \in Seq(P), Distinct(s),
         NEW ks \in [P -> Int], NEW kt \in [P -> Int], NEW i \in 1..Len(s),
         \A j \in 1..Len(s) : ks[s[j]] >= 0,
         \A j \in 1..Len(s) : j # i =>
            kt[s[j]] = IF j = i + 1 THEN ks[s[j]] + ks[s[i]] ELSE ks[s[j]]
  PROVE  /\ \A p : Has(RemoveAt(s, i), p) => Left(RemoveAt(s, i), kt, p) = Left(s, ks, p)
         /\ \A j \in 1..Len(RemoveAt(s, i)) : kt[RemoveAt(s, i)[j]] >= 0
<1> DEFINE t == RemoveAt(s, i)
           n == Len(s)
           m == n - 1
<1>1. n \in Nat /\ IntKeys(s, ks, n) /\ m \in Nat /\ m + 1 = n
  BY LenProperties, KeysAreInt
<1>2. /\ t \in Seq(P) /\ Len(t) = m /\ Distinct(t)
      /\ \A j \in 1..m : t[j] = IF j < i THEN s[j] ELSE s[j + 1]
  BY RemoveAtElements, RemoveMembers
<1> HIDE DEF t
<1>3. IntKeys(t, kt, m)
  <2>1. IntKeys(t, kt, Len(t))
    BY <1>2, KeysAreInt
  <2> QED
    BY <1>2, <2>1
<1>4. \A j \in 1..m : j < i => j \in 1..n /\ t[j] = s[j] /\ kt[t[j]] = ks[s[j]]
  <2>1. ASSUME NEW j \in 1..m, j < i
        PROVE  j \in 1..n /\ t[j] = s[j] /\ kt[t[j]] = ks[s[j]]
    <3>1. j \in 1..n /\ j # i /\ j # i + 1
      BY <1>1, <2>1
    <3> QED
      BY <1>2, <2>1, <3>1
  <2> QED
    BY <2>1
<1>5. \A j \in 1..m : j >= i => /\ j + 1 \in 1..n /\ t[j] = s[j + 1]
                                /\ j > i => kt[t[j]] = ks[s[j + 1]]
                                /\ j = i => kt[t[j]] = ks[s[j + 1]] + ks[s[i]]
  <2>1. ASSUME NEW j \in 1..m, j >= i
        PROVE  /\ j + 1 \in 1..n /\ t[j] = s[j + 1]
               /\ j > i => kt[t[j]] = ks[s[j + 1]]
               /\ j = i => kt[t[j]] = ks[s[j + 1]] + ks[s[i]]
    <3> DEFINE g == j + 1
    <3>1. /\ ~(j < i) /\ g \in 1..n /\ g # i /\ (j > i => g # i + 1)
          /\ (j = i => g = i + 1)
      BY <1>1, <2>1
    <3>2. t[j] = s[g]
      BY <1>2, <3>1
    <3> HIDE DEF g
    <3>3. /\ j > i => kt[s[g]] = ks[s[g]]
          /\ j = i => kt[s[g]] = ks[s[g]] + ks[s[i]]
      BY <3>1
    <3> QED
      BY <3>1, <3>2, <3>3 DEF g
  <2> QED
    BY <2>1
<1>6. \A j \in 0..m : j < i => Elapsed(t, kt, j) = Elapsed(s, ks, j)
  <2> DEFINE a == 0
             b == i - 1
             c == 0
  <2>1. IntKeys(s, ks, b) /\ IntKeys(t, kt, b) /\ b \in Nat
    BY <1>1, <1>3, SMTT(60) DEF IntKeys
  <2>2. Elapsed(t, kt, 0) = 0 /\ Elapsed(s, ks, 0) = 0
    BY <2>1, ElapsedOf
  <2>3. \A j \in (a + 1)..b : kt[t[j]] = ks[s[j]]
    <3>1. \A j \in (a + 1)..b : j \in 1..m /\ j < i
      BY <1>1
    <3> QED
      BY <1>4, <3>1
  <2>4. Alike(s, ks, t, kt, a, b) /\ Elapsed(t, kt, a) = Elapsed(s, ks, a) + c /\ c \in Int
    BY <2>1, <2>2, <2>3 DEF Alike
  <2>5. \A j \in a..b : Elapsed(t, kt, j) = Elapsed(s, ks, j) + c
    <3> HIDE DEF a, b, c
    <3> QED
      BY ONLY <2>4, ElapsedAlike
  <2>6. \A j \in a..b : Elapsed(s, ks, j) \in Int
    BY <2>1, ElapsedOf
  <2>7. \A j \in a..b : Elapsed(t, kt, j) = Elapsed(s, ks, j)
    BY <2>5, <2>6
  <2> QED
    BY <1>1, <2>7
<1>7. \A j \in 0..m : j >= i => Elapsed(s, ks, j + 1) = Elapsed(t, kt, j)
  <2>1. SUFFICES ASSUME i <= m
                 PROVE  \A j \in i..m : Elapsed(s, ks, j + 1) = Elapsed(t, kt, j)
    BY <1>1
  <2> DEFINE x == Elapsed(s, ks, i - 1)
             k == ks[s[i]]
             g == i + 1
             l == ks[s[g]]
             c == 0
  <2>2. i \in 1..n /\ i \in 1..m /\ g \in 1..n /\ g - 1 = i /\ i - 1 \in 0..n
        /\ i - 1 \in 0..m /\ i - 1 < i /\ i >= i
    BY <1>1, <2>1
  <2>3. Elapsed(s, ks, i) = x + k /\ k \in Int /\ x \in Int
    <3>1. /\ \A h \in 0..n : Elapsed(s, ks, h) \in Int
          /\ \A h \in 1..n : /\ Elapsed(s, ks, h) = Elapsed(s, ks, h - 1) + ks[s[h]]
                              /\ ks[s[h]] \in Int
      <4>1. IntKeys(s, ks, n)
        BY <1>1
      <4> HIDE DEF n
      <4> QED
        BY ONLY <4>1, ElapsedOf
    <3> QED
      BY <2>2, <3>1
  <2>4. Elapsed(t, kt, i) = x + (l + k)
    <3>1. Elapsed(t, kt, i) = Elapsed(t, kt, i - 1) + kt[t[i]]
      BY <1>3, <2>2, ElapsedOf, ZenonT(60)
    <3>2. Elapsed(t, kt, i - 1) = x
      BY <1>6, <2>2
    <3>3. kt[t[i]] = l + k
      BY <1>5, <2>2
    <3> QED
      BY <3>1, <3>2, <3>3
  <2>5. Elapsed(s, ks, g) = Elapsed(s, ks, i) + l /\ l \in Int
    <3>1. Elapsed(s, ks, g) = Elapsed(s, ks, g - 1) + ks[s[g]] /\ ks[s[g]] \in Int
      <4>1. \A h \in 1..n : /\ Elapsed(s, ks, h) = Elapsed(s, ks, h - 1) + ks[s[h]]
                            /\ ks[s[h]] \in Int
        <5>1. IntKeys(s, ks, n)
          BY <1>1
        <5> HIDE DEF n
        <5> QED
          BY ONLY <5>1, ElapsedOf
      <4> HIDE DEF g
      <4> QED
        BY <2>2, <4>1
    <3> QED
      BY <2>2, <3>1
  <2>6. Elapsed(s, ks, g) = Elapsed(t, kt, i) + c
    <3> HIDE DEF x, k, g, l
    <3> QED
      BY <2>3, <2>4, <2>5
  <2>7. Shifted(t, kt, s, ks, i, m)
    BY <1>1, <1>3, <1>5, <2>1 DEF Shifted
  <2>8. \A j \in i..m : Elapsed(s, ks, j + 1) = Elapsed(t, kt, j) + c
    <3> DEFINE a == i
    <3>1. /\ Shifted(t, kt, s, ks, a, m) /\ c \in Int
          /\ Elapsed(s, ks, a + 1) = Elapsed(t, kt, a) + c
      BY <2>6, <2>7
    <3> HIDE DEF a, c, m
    <3>2. \A j \in a..m : Elapsed(s, ks, j + 1) = Elapsed(t, kt, j) + c
      BY ONLY <3>1, ElapsedAhead
    <3> QED
      BY <3>2 DEF a
  <2>9. \A j \in i..m : Elapsed(t, kt, j) \in Int
    <3>1. \A j \in i..m : j \in 0..m
      BY <2>2
    <3> QED
      BY <1>3, <3>1, ElapsedOf
  <2> QED
    BY <2>8, <2>9
<1>8. \A j \in 1..n : ks[s[j]] \in Int /\ ks[s[j]] >= 0
  BY <1>1 DEF IntKeys
<1>9. \A j \in 1..Len(t) : kt[t[j]] >= 0
  <2>1. ASSUME NEW j \in 1..m PROVE kt[t[j]] >= 0
    <3>1. CASE j < i
      BY <1>4, <1>8, <3>1
    <3>2. CASE j >= i
      <4> DEFINE g == j + 1
                 x == ks[s[g]]
                 y == ks[s[i]]
      <4>1. g \in 1..n /\ (j > i => kt[t[j]] = x) /\ (j = i => kt[t[j]] = x + y)
        BY <1>5, <3>2
      <4>2. x \in Int /\ x >= 0 /\ y \in Int /\ y >= 0
        <5> HIDE DEF g
        <5> QED
          BY <1>8, <4>1
      <4> HIDE DEF g, x, y
      <4>3. j > i \/ j = i
        BY <3>2
      <4> QED
        BY <4>1, <4>2, <4>3, SMTT(60)
    <3> QED
      BY <3>1, <3>2
  <2> QED
    BY <1>2, <2>1
<1>10. ASSUME NEW j \in 1..m
       PROVE  Left(t, kt, t[j]) = Left(s, ks, t[j])
  <2>1. \A h \in 1..n : Left(s, ks, s[h]) = Elapsed(s, ks, h)
    BY <1>1, LeftOnTime
  <2>2. Left(t, kt, t[j]) = Elapsed(t, kt, j)
    <3>1. IntKeys(t, kt, Len(t)) /\ j \in 1..Len(t)
      BY <1>2, <1>3
    <3> QED
      BY <1>2, <1>9, <3>1, LeftOnTime
  <2>3. CASE j < i
    <3>1. j \in 0..m
      OBVIOUS
    <3> QED
      BY <1>4, <1>6, <2>1, <2>2, <2>3, <3>1
  <2>4. CASE j >= i
    <3> DEFINE g == j + 1
    <3>1. g \in 1..n /\ t[j] = s[g] /\ j \in 0..m
      BY <1>5, <2>4
    <3>2. Elapsed(s, ks, g) = Elapsed(t, kt, j)
      BY <1>7, <2>4, <3>1
    <3> HIDE DEF g
    <3> QED
      BY <2>1, <2>2, <3>1, <3>2
  <2> QED
    BY <2>3, <2>4
<1> QED
  BY <1>2, <1>9, <1>10 DEF Has, t

----------------------------------------------------------------------------
\* Semaphores: one entry of semtab with its queue, as SemOps has it.
Sem == INSTANCE SemOps

SemType(P) == [used : BOOLEAN, count : Int, queue : Seq(P)]

\* A semaphore's count tells the length of its queue.
SemSound(x) ==
    /\ Distinct(x.queue)
    /\ Len(x.queue) = IF x.used /\ x.count < 0 THEN -x.count ELSE 0


\* A process is queued on a semaphore when it is in its list.
LEMMA QueuedHas ==
  ASSUME NEW P, NEW x \in SemType(P), NEW p
  PROVE  Sem!Queued(x, p) <=> Has(x.queue, p)
<1>1. DOMAIN x.queue = 1..Len(x.queue)
  BY DEF SemType
<1> QED
  BY <1>1 DEF Sem!Queued, Sem!Range, Has

\* wait takes one from the count, and queues the caller when there is none.
LEMMA WaitSem ==
  ASSUME NEW P, NEW x \in SemType(P), SemSound(x), x.used, NEW p \in P, ~Has(x.queue, p)
  PROVE  LET y == Sem!wait(x, p) IN
         /\ y \in SemType(P) /\ SemSound(y) /\ y.used = x.used
         /\ y.count = x.count - 1
         /\ \A q : Has(y.queue, q) <=> Has(x.queue, q) \/ (q = p /\ x.count <= 0)
<1> DEFINE y == Sem!wait(x, p)
<1>1. /\ x.count \in Int /\ x.queue \in Seq(P)
      /\ Len(x.queue) \in Nat
  BY DEF SemType
<1>3. /\ Append(x.queue, p) \in Seq(P)
      /\ Len(Append(x.queue, p)) = Len(x.queue) + 1
      /\ \A q : Has(Append(x.queue, p), q) <=> Has(x.queue, q) \/ q = p
      /\ Distinct(Append(x.queue, p))
  BY <1>1, AppendMembers DEF SemSound
<1> DEFINE c == IF x.count - 1 < 0 THEN Append(x.queue, p) ELSE x.queue
           n == x.count - 1
<1>c. n \in Int /\ c \in Seq(P)
  BY <1>1, <1>3
<1>y. y = [x EXCEPT !.count = n, !.queue = c]
  BY DEF Sem!wait
<1> HIDE DEF y, c, n
<1>2. y \in SemType(P) /\ y.used = x.used /\ y.count = n /\ y.queue = c
  BY <1>c, <1>y DEF SemType
<1> USE DEF c, n
<1>4. CASE x.count <= 0
  <2>1. y.queue = Append(x.queue, p)
    BY <1>1, <1>2, <1>4
  <2>2. Len(x.queue) = -x.count
    BY <1>1, <1>4 DEF SemSound
  <2>3. Len(y.queue) = -y.count
    BY <1>1, <1>2, <1>3, <2>1, <2>2
  <2> QED
    BY <1>1, <1>2, <1>3, <1>4, <2>1, <2>3 DEF SemType, SemSound, y
<1>5. CASE x.count > 0
  <2>1. y.queue = x.queue
    BY <1>1, <1>2, <1>5
  <2> QED
    BY <1>1, <1>2, <1>5, <2>1 DEF SemType, SemSound, y
<1>6. x.count <= 0 \/ x.count > 0
  BY <1>1
<1> QED
  BY <1>4, <1>5, <1>6, Zenon

\* signal adds one to the count and releases the first in the queue.
LEMMA SignalSem ==
  ASSUME NEW P, NEW x \in SemType(P), SemSound(x), x.used
  PROVE  LET y == Sem!signal(x) IN
         /\ y \in SemType(P) /\ SemSound(y) /\ y.used = x.used
         /\ y.count = x.count + 1
         /\ \A q : Has(y.queue, q) => Has(x.queue, q)
         /\ \A q : Has(x.queue, q) /\ ~Has(y.queue, q) => x.count < 0 /\ q = Head(x.queue)
<1> DEFINE y == Sem!signal(x)
           c == x.queue
           T == {1, Len(c)}
           d == SubSeq(c, Min(T) + 1, Len(c))
           n == x.count + 1
<1>1. /\ x.count \in Int /\ c \in Seq(P) /\ Distinct(c)
      /\ Len(c) \in Nat
      /\ Len(c) = IF x.count < 0 THEN -x.count ELSE 0
  BY DEF SemType, SemSound
<1>2. Min(T) \in T /\ \A z \in T : Min(T) <= z
  <2>1. T \subseteq Nat /\ T # {}
    BY <1>1
  <2> QED
    BY <2>1, LeastNat
<1>y. y = [x EXCEPT !.count = n, !.queue = d]
  BY DEF Sem!signal, Sem!signaln, Sem!Min, Min
<1> HIDE DEF y
<1>3. CASE c = << >>
  <2>1. Min(T) = 0 /\ Len(c) = 0
    BY <1>1, <1>2, <1>3
  <2>2. d = << >>
    BY <2>1, SubSeqEmpty
  <2>3. d = c /\ n >= 0 /\ n \in Int
    BY <1>1, <1>3, <2>1, <2>2
  <2> HIDE DEF d, n
  <2>4. y \in SemType(P) /\ y.used = x.used /\ y.count = n /\ y.queue = c
    BY <1>1, <1>y, <2>3 DEF SemType
  <2>5. SemSound(y)
    BY <1>1, <2>1, <2>3, <2>4 DEF SemSound
  <2> QED
    BY <2>4, <2>5 DEF n, y
<1>4. CASE c # << >>
  <2>1. Min(T) = 1 /\ Len(c) > 0
    BY <1>1, <1>2, <1>4
  <2>2. d = Tail(c)
    <3>1. Tail(c) = SubSeq(c, 2, Len(c))
      BY <1>1, <1>4, TailIsSubSeq
    <3>2. Min(T) + 1 = 2
      BY <2>1
    <3> QED
      BY <3>1, <3>2
  <2>3. /\ d \in Seq(P)
        /\ Len(d) = Len(c) - 1
        /\ \A q : Has(d, q) <=> Has(c, q) /\ q # Head(c)
        /\ Distinct(d)
    <3>1. /\ Tail(c) \in Seq(P) /\ Len(Tail(c)) = Len(c) - 1
          /\ \A q : Has(Tail(c), q) <=> Has(c, q) /\ q # Head(c)
          /\ Distinct(Tail(c))
      BY <1>1, <1>4, TailMembers
    <3> QED
      BY <2>2, <3>1, Zenon
  <2>4. n \in Int /\ Len(d) = IF n < 0 THEN -n ELSE 0
    BY <1>1, <2>1, <2>3
  <2> HIDE DEF d, n
  <2>5. y \in SemType(P) /\ y.used = x.used /\ y.count = n /\ y.queue = d
    BY <1>1, <1>y, <2>3, <2>4 DEF SemType
  <2>6. SemSound(y)
    BY <2>3, <2>4, <2>5 DEF SemSound
  <2>7. x.count < 0
    BY <1>1, <2>1
  <2> QED
    BY <2>3, <2>5, <2>6, <2>7 DEF n, y
<1> QED
  BY <1>3, <1>4

\* A process that is killed while it waits leaves the queue and gives back
\* what it took from the count.
LEMMA UnwaitSem ==
  ASSUME NEW P, NEW x \in SemType(P), SemSound(x), NEW p, Has(x.queue, p)
  PROVE  LET y == Sem!Unwait(x, p) IN
         /\ y \in SemType(P) /\ SemSound(y) /\ x.used /\ y.used = x.used
         /\ y.count = x.count + 1
         /\ \A q : Has(y.queue, q) <=> Has(x.queue, q) /\ q # p
<1> DEFINE y == Sem!Unwait(x, p)
           c == x.queue
           i == CHOOSE j \in 1..Len(c) : c[j] = p
<1>1. /\ x.count \in Int /\ c \in Seq(P)
      /\ Len(c) \in Nat
  BY DEF SemType
<1>2. i \in 1..Len(c) /\ c[i] = p
  BY DEF Has
<1>y. y = [x EXCEPT !.count = x.count + 1, !.queue = RemoveAt(c, i)]
  BY DEF Sem!Unwait, Sem!RemoveAt, RemoveAt
<1> HIDE DEF y, i
<1>4. /\ RemoveAt(c, i) \in Seq(P)
      /\ Len(RemoveAt(c, i)) = Len(c) - 1
      /\ \A q : Has(RemoveAt(c, i), q) <=> Has(c, q) /\ q # c[i]
      /\ Distinct(RemoveAt(c, i))
  BY <1>1, <1>2, RemoveMembers DEF SemSound
<1> DEFINE d == RemoveAt(c, i)
           n == x.count + 1
<1>d. n \in Int /\ d \in Seq(P)
  BY <1>1, <1>4
<1> HIDE DEF d, n
<1>3. y \in SemType(P) /\ y.used = x.used /\ y.count = n /\ y.queue = d
  BY <1>d, <1>y DEF SemType, d, n
<1> USE DEF d, n
<1>5. x.used /\ x.count < 0 /\ Len(c) = -x.count
  BY <1>1, <1>2 DEF SemSound
<1>6. Len(y.queue) = IF y.count < 0 THEN -y.count ELSE 0
  BY <1>1, <1>3, <1>4, <1>5
<1> QED
  BY <1>1, <1>2, <1>3, <1>4, <1>5, <1>6 DEF SemType, SemSound, y

\* A semaphore that is made, reset or deleted has nobody waiting.
LEMMA NewSem ==
  ASSUME NEW P
  PROVE
  /\ \A n \in Nat : /\ Sem!semcreate(n) \in SemType(P) /\ SemSound(Sem!semcreate(n))
                    /\ Sem!semcreate(n).used /\ Sem!semcreate(n).count = n
                    /\ \A q : ~Has(Sem!semcreate(n).queue, q)
  /\ \A x \in SemType(P) : \A n \in Nat :
        /\ Sem!semreset(x, n) \in SemType(P) /\ SemSound(Sem!semreset(x, n))
        /\ Sem!semreset(x, n).used = x.used /\ Sem!semreset(x, n).count = n
        /\ \A q : ~Has(Sem!semreset(x, n).queue, q)
  /\ Sem!NoSem \in SemType(P) /\ SemSound(Sem!NoSem) /\ ~Sem!NoSem.used
  /\ \A q : ~Has(Sem!NoSem.queue, q)
<1>1. << >> \in Seq(P) /\ Len(<< >>) = 0 /\ Distinct(<< >>) /\ \A q : ~Has(<< >>, q)
  BY DEF Distinct, Has
<1>2. \A n \in Nat : ~(n < 0)
  OBVIOUS
<1>3. \A n \in Nat : /\ Sem!semcreate(n) \in SemType(P) /\ SemSound(Sem!semcreate(n))
                     /\ Sem!semcreate(n).used /\ Sem!semcreate(n).count = n
                     /\ Sem!semcreate(n).queue = << >>
  BY <1>1, <1>2 DEF Sem!semcreate, SemType, SemSound
<1>4. ASSUME NEW x \in SemType(P), NEW n \in Nat
      PROVE  /\ Sem!semreset(x, n) \in SemType(P) /\ SemSound(Sem!semreset(x, n))
             /\ Sem!semreset(x, n).used = x.used /\ Sem!semreset(x, n).count = n
             /\ Sem!semreset(x, n).queue = << >>
  <2> DEFINE y == Sem!semreset(x, n)
             e == << >>
  <2>1. y = [x EXCEPT !.count = n, !.queue = e]
    BY DEF Sem!semreset
  <2>2. e \in Seq(P) /\ n \in Int /\ ~(n < 0) /\ Len(e) = 0 /\ Distinct(e)
    BY <1>1, <1>2
  <2> HIDE DEF y, e
  <2>3. y \in SemType(P) /\ y.used = x.used /\ y.count = n /\ y.queue = e
    BY <2>1, <2>2 DEF SemType
  <2> QED
    BY <2>2, <2>3 DEF SemSound, y, e
<1>5. Sem!NoSem \in SemType(P) /\ SemSound(Sem!NoSem) /\ ~Sem!NoSem.used /\ Sem!NoSem.queue = << >>
  BY <1>1 DEF Sem!NoSem, SemType, SemSound
<1> QED
  BY <1>1, <1>3, <1>4, <1>5

\* signaln adds n to the count and releases the first n in the queue.
LEMMA SignalnSem ==
  ASSUME NEW P, NEW x \in SemType(P), SemSound(x), x.used, NEW m \in Nat
  PROVE  LET y == Sem!signaln(x, m) IN
         /\ y \in SemType(P) /\ SemSound(y) /\ y.used = x.used
         /\ y.count = x.count + m
         /\ \A q : Has(y.queue, q) => Has(x.queue, q)
<1> DEFINE y == Sem!signaln(x, m)
           c == x.queue
           T == {m, Len(c)}
           k == Min(T)
           d == SubSeq(c, k + 1, Len(c))
           n == x.count + m
<1>1. /\ x.count \in Int /\ c \in Seq(P) /\ Distinct(c)
      /\ Len(c) \in Nat
      /\ Len(c) = IF x.count < 0 THEN -x.count ELSE 0
  BY DEF SemType, SemSound
<1>2. k \in T /\ k <= m /\ k <= Len(c)
  <2>1. T \subseteq Nat /\ T # {}
    BY <1>1
  <2>2. Min(T) \in T /\ \A z \in T : Min(T) <= z
    BY <2>1, LeastNat
  <2> QED
    BY <2>2
<1>y. y = [x EXCEPT !.count = n, !.queue = d]
  BY DEF Sem!signaln, Sem!Min, Min
<1> HIDE DEF y, k
<1>3. k \in Nat /\ (k = m \/ k = Len(c))
  BY <1>1, <1>2
<1>4. k + 1 \in 1..(Len(c) + 1) /\ Len(c) \in 0..Len(c) /\ k + 1 \in Int
  BY <1>1, <1>2, <1>3
<1>5. /\ d \in Seq(P) /\ Len(d) = Len(c) - k
      /\ \A j \in 1..(Len(c) - k) : d[j] = c[k + j]
  <2>1. /\ d \in Seq(P)
        /\ Len(d) = IF k + 1 <= Len(c) THEN Len(c) - (k + 1) + 1 ELSE 0
        /\ \A j \in 1..(Len(c) - (k + 1) + 1) : d[j] = c[k + 1 + j - 1]
    BY <1>1, <1>4, SubSeqProperties, SMTT(90)
  <2>2. Len(c) - (k + 1) + 1 = Len(c) - k
    BY <1>1, <1>3
  <2>3. Len(d) = Len(c) - k
    BY <1>1, <1>2, <1>3, <2>1
  <2>4. \A j \in 1..(Len(c) - k) : d[j] = c[k + j]
    <3>1. \A j \in 1..(Len(c) - k) : k + 1 + j - 1 = k + j
      BY <1>1, <1>3
    <3> QED
      BY <2>1, <2>2, <3>1
  <2> QED
    BY <2>1, <2>3, <2>4
<1> HIDE DEF d
<1>6. \A q : Has(d, q) => Has(c, q)
  <2>1. \A j \in 1..(Len(c) - k) : k + j \in 1..Len(c)
    BY <1>1, <1>3
  <2> QED
    BY <1>5, <2>1 DEF Has
<1>7. Distinct(d)
  <2>1. ASSUME NEW i \in 1..Len(d), NEW j \in 1..Len(d), d[i] = d[j] PROVE i = j
    <3>0. i \in 1..(Len(c) - k) /\ j \in 1..(Len(c) - k)
      BY <1>5
    <3>1. d[i] = c[k + i] /\ d[j] = c[k + j]
      BY <1>5, <3>0
    <3>3. k + i \in 1..Len(c) /\ k + j \in 1..Len(c)
      BY <1>1, <1>3, <3>0
    <3>2. k + i = k + j
      BY <1>1, <2>1, <3>1, <3>3 DEF Distinct
    <3> QED
      BY <1>3, <3>2
  <2> QED
    BY <2>1 DEF Distinct
<1>8. n \in Int /\ Len(d) = IF n < 0 THEN -n ELSE 0
  BY <1>1, <1>2, <1>3, <1>5
<1> HIDE DEF n
<1>9. y \in SemType(P) /\ y.used = x.used /\ y.count = n /\ y.queue = d
  BY <1>1, <1>y, <1>5, <1>8 DEF SemType
<1>10. SemSound(y)
  BY <1>7, <1>8, <1>9 DEF SemSound
<1> QED
  BY <1>6, <1>9, <1>10 DEF n, y

\* A list without repetition is no longer than the set its elements are from.
LEMMA ListInSet ==
  ASSUME NEW S, IsFiniteSet(S), NEW P, NEW c \in Seq(P), Distinct(c),
         \A p \in P : Has(c, p) => p \in S
  PROVE  Len(c) <= Cardinality(S)
<1> DEFINE n == Len(c)
<1>1. n \in Nat /\ c \in [1..n -> P]
  OBVIOUS
<1>2. \A i \in 1..n : c[i] \in S
  BY <1>1 DEF Has
<1>3. c \in Injection(1..n, S)
  BY <1>1, <1>2 DEF Injection, IsInjective, Distinct
<1>4. Cardinality(1..n) <= Cardinality(S)
  BY <1>3, FS_Injection
<1>5. Cardinality(1..n) = n
  BY <1>1, FS_Interval
<1> QED
  BY <1>4, <1>5

----------------------------------------------------------------------------
\* Sums over finite sets.

\* The element with which SumFunction begins.
Pick(s) == CHOOSE x \in s : TRUE

\* What the sum of f over s is, if g is the sum over smaller sets.
SumStep(f, g, s) == IF s = {} THEN 0 ELSE f[Pick(s)] + g[s \ {Pick(s)}]

PartialSums(f, S) == CHOOSE g : g = [s \in SUBSET S |-> SumStep(f, g, s)]

\* The partial sums over a finite set are well defined.
LEMMA SumsExist ==
  ASSUME NEW f, NEW S, IsFiniteSet(S)
  PROVE  \A s \in SUBSET S : PartialSums(f, S)[s] = SumStep(f, PartialSums(f, S), s)
<1> DEFINE Up(n) == {s \in SUBSET S : Cardinality(s) <= n}
           Good(n) == \E g : g = [s \in Up(n) |-> SumStep(f, g, s)]
           T == {n \in Nat : ~Good(n)}
<1>0. \A s \in SUBSET S : IsFiniteSet(s) /\ Cardinality(s) \in Nat
                          /\ Cardinality(s) <= Cardinality(S)
  BY FS_Subset, FS_CardinalityType
<1>1. Good(0)
  <2> DEFINE g == [s \in Up(0) |-> 0]
  <2>1. \A s \in Up(0) : s = {}
    BY <1>0, FS_EmptySet
  <2>2. \A s \in Up(0) : SumStep(f, g, s) = 0
    BY <2>1 DEF SumStep
  <2>3. g = [s \in Up(0) |-> SumStep(f, g, s)]
    BY <2>2
  <2> QED
    BY <2>3
<1>2. ASSUME NEW m \in Nat, m > 0, Good(m - 1) PROVE Good(m)
  <2>1. PICK g : g = [s \in Up(m - 1) |-> SumStep(f, g, s)]
    BY <1>2
  <2> DEFINE h == [s \in Up(m) |-> SumStep(f, g, s)]
  <2>2. ASSUME NEW s \in Up(m) PROVE SumStep(f, g, s) = SumStep(f, h, s)
    <3>1. CASE s = {}
      BY <3>1 DEF SumStep
    <3>2. CASE s # {}
      <4> DEFINE r == s \ {Pick(s)}
      <4>1. Pick(s) \in s
        BY <3>2 DEF Pick
      <4>2. Cardinality(r) = Cardinality(s) - 1
        BY <1>0, <4>1, FS_RemoveElement
      <4>3. r \in SUBSET S /\ Cardinality(r) \in Nat /\ Cardinality(s) \in Nat
        BY <1>0
      <4>4. r \in Up(m - 1) /\ r \in Up(m)
        BY <4>2, <4>3
      <4> HIDE DEF r
      <4>5. g[r] = SumStep(f, g, r)
        BY <2>1, <4>4
      <4>6. h[r] = SumStep(f, g, r)
        BY <4>4
      <4> QED
        BY <4>5, <4>6 DEF SumStep, r
    <3> QED
      BY <3>1, <3>2
  <2>3. h = [s \in Up(m) |-> SumStep(f, h, s)]
    BY <2>2
  <2> QED
    BY <2>3
<1> HIDE DEF Good
<1>3. T = {}
  <2>1. SUFFICES ASSUME T # {} PROVE FALSE
    OBVIOUS
  <2>2. Min(T) \in T /\ \A y \in T : Min(T) <= y
    BY <2>1, LeastNat
  <2>3. PICK m \in T : \A y \in T : m <= y
    BY <2>2
  <2>4. m > 0
    BY <1>1
  <2>5. m - 1 \in Nat /\ m - 1 \notin T
    BY <2>3, <2>4
  <2> QED
    BY <1>2, <2>3, <2>4, <2>5
<1>4. Good(Cardinality(S))
  BY <1>0, <1>3
<1>5. Up(Cardinality(S)) = SUBSET S
  BY <1>0
<1>6. \E g : g = [s \in SUBSET S |-> SumStep(f, g, s)]
  BY <1>4, <1>5 DEF Good
<1> DEFINE p == PartialSums(f, S)
<1>7. p = [s \in SUBSET S |-> SumStep(f, p, s)]
  BY <1>6 DEF PartialSums
<1> HIDE DEF p
<1>8. \A s \in SUBSET S : p[s] = SumStep(f, p, s)
  BY <1>7
<1> QED
  BY <1>8 DEF p

\* SumFunction is the partial sum over the whole domain.
LEMMA SumIsPartial ==
  ASSUME NEW f, NEW S, DOMAIN f = S
  PROVE  SumFunction(f) = PartialSums(f, S)[S]
BY DEF SumFunction, SumFunctionOnSet, FoldFunctionOnSet, MapThenFoldSet, PartialSums, SumStep, Pick

\* A property of subsets of a finite set holds of all of them if it holds of a set
\* whenever it holds of the sets with one element less.
LEMMA SubsetInduction ==
  ASSUME NEW S, IsFiniteSet(S), NEW Q, Q \subseteq SUBSET S,
         \A s \in SUBSET S : (s # {} => s \ {Pick(s)} \in Q) => s \in Q
  PROVE  Q = SUBSET S
<1> DEFINE T == {Cardinality(s) : s \in (SUBSET S) \ Q}
<1>0. \A s \in SUBSET S : IsFiniteSet(s) /\ Cardinality(s) \in Nat
  BY FS_Subset, FS_CardinalityType
<1>1. SUFFICES ASSUME T # {} PROVE FALSE
  OBVIOUS
<1>2. T \subseteq Nat
  BY <1>0
<1>3. PICK n \in T : \A y \in T : n <= y
  BY <1>1, <1>2, LeastNat
<1>4. PICK s \in (SUBSET S) \ Q : Cardinality(s) = n
  BY <1>3
<1>5. s # {} /\ s \ {Pick(s)} \notin Q
  BY <1>4
<1>6. Pick(s) \in s
  BY <1>5 DEF Pick
<1>7. Cardinality(s \ {Pick(s)}) = n - 1
  BY <1>0, <1>4, <1>6, FS_RemoveElement
<1>8. n - 1 \in T
  BY <1>4, <1>5, <1>7
<1> QED
  BY <1>2, <1>3, <1>8

\* The sum over a finite set is an integer; if the terms are natural numbers so is the
\* sum, and none of them exceeds it.
LEMMA SumType ==
  ASSUME NEW S, IsFiniteSet(S), NEW f \in [S -> Int]
  PROVE  /\ SumFunction(f) \in Int
         /\ (\A x \in S : f[x] = 0) => SumFunction(f) = 0
         /\ (\A x \in S : f[x] >= 0) => SumFunction(f) >= 0 /\ \A x \in S : f[x] <= SumFunction(f)
<1> DEFINE g == PartialSums(f, S)
           Q == {s \in SUBSET S :
                   /\ g[s] \in Int
                   /\ (\A x \in S : f[x] = 0) => g[s] = 0
                   /\ (\A x \in S : f[x] >= 0) => g[s] >= 0 /\ \A x \in s : f[x] <= g[s]}
<1>0. \A s \in SUBSET S : g[s] = SumStep(f, g, s)
  BY SumsExist
<1> HIDE DEF g
<1>1. ASSUME NEW s \in SUBSET S, s # {} => s \ {Pick(s)} \in Q PROVE s \in Q
  <2>1. CASE s = {}
    <3>1. g[s] = 0
      BY <1>0, <2>1 DEF SumStep
    <3> QED
      BY <2>1, <3>1
  <2>2. CASE s # {}
    <3> DEFINE x == Pick(s)
               r == s \ {x}
    <3>1. x \in s /\ r \in Q
      BY <1>1, <2>2 DEF Pick
    <3>2. g[s] = f[x] + g[r]
      BY <1>0, <2>2 DEF SumStep
    <3>3. f[x] \in Int /\ g[r] \in Int
      BY <3>1
    <3> HIDE DEF x
    <3>4. (\A y \in S : f[y] = 0) => g[s] = 0
      <4>1. (\A y \in S : f[y] = 0) => g[r] = 0
        BY <3>1
      <4> QED
        BY <3>1, <3>2, <4>1
    <3>5. ASSUME \A y \in S : f[y] >= 0 PROVE g[s] >= 0 /\ \A y \in s : f[y] <= g[s]
      <4>1. g[r] >= 0 /\ \A y \in r : f[y] <= g[r]
        BY <3>1, <3>5
      <4>2. f[x] >= 0
        BY <3>1, <3>5
      <4>3. ASSUME NEW y \in s PROVE f[y] <= g[s]
        <5>1. CASE y = x
          BY <3>2, <3>3, <4>1, <5>1
        <5>2. CASE y # x
          <6>1. f[y] <= g[r] /\ f[y] \in Int
            BY <4>1, <5>2
          <6> QED
            BY <3>2, <3>3, <4>2, <6>1
        <5> QED
          BY <5>1, <5>2
      <4>4. g[s] >= 0
        BY <3>2, <3>3, <4>1, <4>2
      <4> QED
        BY <4>3, <4>4
    <3> QED
      BY <3>2, <3>3, <3>4, <3>5
  <2> QED
    BY <2>1, <2>2
<1>2. Q = SUBSET S
  <2> HIDE DEF Q
  <2>1. Q \subseteq SUBSET S
    BY DEF Q
  <2> QED
    BY <1>1, <2>1, SubsetInduction
<1>3. S \in Q
  BY <1>2
<1>4. SumFunction(f) = g[S]
  BY SumIsPartial DEF g
<1> QED
  BY <1>3, <1>4

\* A change of one term changes the sum by as much.
LEMMA SumChange ==
  ASSUME NEW S, IsFiniteSet(S), NEW f \in [S -> Int], NEW e \in [S -> Int],
         NEW a \in S, \A x \in S \ {a} : e[x] = f[x]
  PROVE  SumFunction(e) = SumFunction(f) - f[a] + e[a]
<1> DEFINE g == PartialSums(f, S)
           h == PartialSums(e, S)
           Q == {s \in SUBSET S : /\ g[s] \in Int
                                  /\ h[s] = g[s] + IF a \in s THEN e[a] - f[a] ELSE 0}
<1>s. \A s \in SUBSET S : g[s] = SumStep(f, g, s)
  BY SumsExist
<1>t. \A s \in SUBSET S : h[s] = SumStep(e, h, s)
  BY SumsExist
<1> HIDE DEF g, h
<1>0. \A s \in SUBSET S : g[s] = SumStep(f, g, s) /\ h[s] = SumStep(e, h, s)
  BY <1>s, <1>t
<1>1. ASSUME NEW s \in SUBSET S, s # {} => s \ {Pick(s)} \in Q PROVE s \in Q
  <2>1. CASE s = {}
    <3>1. g[s] = 0 /\ h[s] = 0
      BY <1>0, <2>1 DEF SumStep
    <3> QED
      BY <2>1, <3>1
  <2>2. CASE s # {}
    <3> DEFINE x == Pick(s)
               r == s \ {x}
    <3>1. x \in s /\ r \in Q
      BY <1>1, <2>2 DEF Pick
    <3>2. g[s] = f[x] + g[r] /\ h[s] = e[x] + h[r]
      BY <1>0, <2>2 DEF SumStep
    <3>3. f[x] \in Int /\ g[r] \in Int /\ e[x] \in Int /\ e[a] \in Int /\ f[a] \in Int
      BY <3>1
    <3> HIDE DEF x
    <3>4. h[r] = g[r] + IF a \in r THEN e[a] - f[a] ELSE 0
      BY <3>1
    <3>5. CASE x = a
      <4>1. h[r] = g[r]
        BY <3>3, <3>4, <3>5
      <4>2. h[s] = g[s] + (e[a] - f[a])
        BY <3>2, <3>3, <3>5, <4>1
      <4> QED
        BY <3>1, <3>2, <3>3, <3>5, <4>2
    <3>6. CASE x # a
      <4>1. e[x] = f[x]
        BY <3>1, <3>6
      <4>2. a \in r <=> a \in s
        BY <3>6
      <4>3. h[s] = g[s] + IF a \in s THEN e[a] - f[a] ELSE 0
        BY <3>2, <3>3, <3>4, <4>1, <4>2
      <4> QED
        BY <3>2, <3>3, <4>3
    <3> QED
      BY <3>5, <3>6
  <2> QED
    BY <2>1, <2>2
<1>2. Q = SUBSET S
  <2> HIDE DEF Q
  <2>1. Q \subseteq SUBSET S
    BY DEF Q
  <2> QED
    BY <1>1, <2>1, SubsetInduction
<1>3. S \in Q
  BY <1>2
<1>4. SumFunction(f) = g[S] /\ SumFunction(e) = h[S]
  BY SumIsPartial DEF g, h
<1>5. f[a] \in Int /\ e[a] \in Int
  OBVIOUS
<1> QED
  BY <1>3, <1>4, <1>5
=============================================================================
