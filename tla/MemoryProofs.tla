---------------------------- MODULE MemoryProofs ----------------------------
(***************************************************************************)
(* Theorems about the heap and what lives on it, for heaps of any size and *)
(* any requests.                                                           *)
(***************************************************************************)
EXTENDS Memory, QueueProofs, FiniteSetTheorems

----------------------------------------------------------------------------
\* Sizes and units.

\* n bytes from a on are whole units between lo and hi.
Placed(a, n, lo, hi) ==
    /\ a \in Int /\ n \in Int
    /\ lo <= a /\ a + n <= hi /\ n > 0
    /\ a % 8 = 0 /\ n % 8 = 0

\* A request is rounded up to whole units.
LEMMA Rounding ==
  ASSUME NEW n \in Nat, n + 7 < 2^Width
  PROVE  /\ roundmb(n) \in Nat /\ roundmb(n) % 8 = 0
         /\ n <= roundmb(n) /\ roundmb(n) <= n + 7
         /\ n > 0 => roundmb(n) > 0
<1>1. roundmb(n) = ((n + 7) \div 8) * 8
  BY HeapAssumption DEF roundmb
<1> QED
  BY <1>1

\* What is rounded already stays as it is.
LEMMA RoundAgain ==
  ASSUME NEW n \in Nat, n % 8 = 0, n + 7 < 2^Width
  PROVE  roundmb(n) = n
<1>1. roundmb(n) = ((n + 7) \div 8) * 8
  BY HeapAssumption DEF roundmb
<1> QED
  BY <1>1

\* The units of a block whose ends are aligned.
LEMMA UnitsIn ==
  ASSUME NEW a \in Int, NEW n \in Int, a % 8 = 0, n % 8 = 0, NEW u
  PROVE  u \in UnitsOf(a, n) <=> u \in Int /\ a <= 8 * u /\ 8 * u < a + n
<1>1. (a + n) % 8 = 0
  OBVIOUS
<1>2. a = 8 * (a \div 8) /\ a + n = 8 * ((a + n) \div 8)
  BY <1>1
<1>3. a \div 8 \in Int /\ (a + n) \div 8 \in Int
  OBVIOUS
<1> DEFINE x == a \div 8
           y == (a + n) \div 8
<1> HIDE DEF x, y
<1>4. x \in Int /\ y \in Int /\ a = 8 * x /\ a + n = 8 * y
  BY <1>2, <1>3 DEF x, y
<1>5. UnitsOf(a, n) = x..(y - 1)
  BY DEF UnitsOf, x, y
<1>6. u \in UnitsOf(a, n) <=> u \in Int /\ x <= u /\ u <= y - 1
  BY <1>4, <1>5
<1> QED
  BY <1>4, <1>6

----------------------------------------------------------------------------
\* Free lists.  S is the set of the nodes of a list, of the kernel or virtual.
KNodes == [addr : Int, len : Int]
VNodes == [addr : Int, len : Int, node : Int]

\* A list of blocks between lo and hi, in order, of which no two touch.
Sound(S, list, lo, hi) ==
    /\ list \in Seq(S)
    /\ \A i \in 1..Len(list) : Placed(list[i].addr, list[i].len, lo, hi)
    /\ \A i, j \in 1..Len(list) : i < j => Top(list[i]) < list[j].addr

\* A unit is free when it lies in a block of the list.
LEMMA FreeIn ==
  ASSUME NEW S, NEW list, NEW lo, NEW hi, Sound(S, list, lo, hi), NEW u
  PROVE  u \in FreeUnits(list) <=>
           /\ u \in Int
           /\ \E i \in 1..Len(list) : list[i].addr <= 8 * u /\ 8 * u < Top(list[i])
<1>1. DOMAIN list = 1..Len(list)
  BY DEF Sound
<1>2. \A i \in 1..Len(list) :
         u \in UnitsOf(list[i].addr, list[i].len) <=>
            u \in Int /\ list[i].addr <= 8 * u /\ 8 * u < Top(list[i])
  BY UnitsIn DEF Sound, Placed, Top
<1>3. u \in FreeUnits(list) <=>
        \E i \in 1..Len(list) : u \in UnitsOf(list[i].addr, list[i].len)
  BY <1>1 DEF FreeUnits
<1> QED
  BY <1>2, <1>3

\* A unit lies in one block at most.
LEMMA OneBlock ==
  ASSUME NEW S, NEW list, NEW lo, NEW hi, Sound(S, list, lo, hi),
         NEW i \in 1..Len(list), NEW j \in 1..Len(list), NEW u \in Int,
         list[i].addr <= 8 * u, 8 * u < Top(list[i]),
         list[j].addr <= 8 * u, 8 * u < Top(list[j])
  PROVE  i = j
<1> DEFINE ai == list[i].addr
           ti == Top(list[i])
           aj == list[j].addr
           tj == Top(list[j])
<1>1. ai \in Int /\ ti \in Int /\ aj \in Int /\ tj \in Int
  BY SMTT(60) DEF Sound, Placed, Top
<1>2. (i < j => ti < aj) /\ (j < i => tj < ai)
  BY DEF Sound
<1> HIDE DEF ai, ti, aj, tj
<1>3. ai <= 8 * u /\ 8 * u < ti /\ aj <= 8 * u /\ 8 * u < tj
  BY DEF ai, ti, aj, tj
<1>4. i \in Int /\ j \in Int
  BY DEF Sound
<1> QED
  BY <1>1, <1>2, <1>3, <1>4

\* The list t is sound, and has what list has but the n bytes from a on, which
\* are free in list.
Given(S, list, t, lo, hi, a, n) ==
    /\ Sound(S, t, lo, hi)
    /\ Placed(a, n, lo, hi)
    /\ UnitsOf(a, n) \subseteq FreeUnits(list)
    /\ FreeUnits(t) = FreeUnits(list) \ UnitsOf(a, n)

\* A block is taken as a whole.
LEMMA RemoveGives ==
  ASSUME NEW S, NEW list, NEW lo \in Int, NEW hi \in Int, Sound(S, list, lo, hi),
         NEW i \in 1..Len(list)
  PROVE  Given(S, list, RemoveAt(list, i), lo, hi, list[i].addr, list[i].len)
<1> DEFINE t == RemoveAt(list, i)
           b == list[i]
<1>1. list \in Seq(S) /\ Len(list) \in Nat /\ i \in Int
  BY DEF Sound
<1>2. /\ t \in Seq(S) /\ Len(t) = Len(list) - 1
      /\ \A j \in 1..(Len(list) - 1) : t[j] = IF j < i THEN list[j] ELSE list[j + 1]
  BY <1>1, RemoveAtElements
<1>3. /\ \A j \in 1..Len(list) : Placed(list[j].addr, list[j].len, lo, hi)
      /\ \A j, k \in 1..Len(list) : j < k => Top(list[j]) < list[k].addr
  BY DEF Sound
<1> HIDE DEF t
<1> DEFINE was(j) == IF j < i THEN j ELSE j + 1
<1>4. /\ Len(t) \in Nat
      /\ \A j \in 1..Len(t) : was(j) \in 1..Len(list) /\ was(j) # i /\ t[j] = list[was(j)]
  BY <1>1, <1>2
<1>5. \A j, k \in 1..Len(t) : j < k => was(j) < was(k)
  BY <1>1, <1>4
<1>6. \A j \in 1..Len(list) : j # i => \E k \in 1..Len(t) : was(k) = j
  <2> SUFFICES ASSUME NEW j \in 1..Len(list), j # i
               PROVE  \E k \in 1..Len(t) : was(k) = j
    OBVIOUS
  <2>1. CASE j < i
    BY <2>1, <1>1, <1>2
  <2>2. CASE j > i
    <3>1. j - 1 \in 1..Len(t) /\ was(j - 1) = j
      BY <2>2, <1>1, <1>2
    <3> QED
      BY <3>1
  <2> QED
    BY <2>1, <2>2, <1>1
<1> HIDE DEF was
<1>7. Sound(S, t, lo, hi)
  <2>1. \A j \in 1..Len(t) : Placed(t[j].addr, t[j].len, lo, hi)
    BY <1>3, <1>4
  <2>2. \A j, k \in 1..Len(t) : j < k => Top(t[j]) < t[k].addr
    BY <1>3, <1>4, <1>5
  <2> QED
    BY <1>2, <2>1, <2>2 DEF Sound
<1>8. Placed(b.addr, b.len, lo, hi)
  BY <1>3
<1>9. \A u : u \in UnitsOf(b.addr, b.len) <=>
               u \in Int /\ b.addr <= 8 * u /\ 8 * u < Top(b)
  BY <1>8, UnitsIn DEF Placed, Top
<1>10. UnitsOf(b.addr, b.len) \subseteq FreeUnits(list)
  <2> SUFFICES ASSUME NEW u \in UnitsOf(b.addr, b.len) PROVE u \in FreeUnits(list)
    OBVIOUS
  <2> QED
    BY <1>9, FreeIn
<1>11. \A j \in 1..Len(list) : \A u \in Int :
          /\ list[j].addr <= 8 * u /\ 8 * u < Top(list[j])
          /\ b.addr <= 8 * u /\ 8 * u < Top(b)
          => j = i
  BY OneBlock
<1>12. FreeUnits(t) = FreeUnits(list) \ UnitsOf(b.addr, b.len)
  <2> SUFFICES ASSUME NEW u
               PROVE  u \in FreeUnits(t) <=>
                        u \in FreeUnits(list) /\ u \notin UnitsOf(b.addr, b.len)
    OBVIOUS
  <2>1. u \in FreeUnits(t) <=>
           /\ u \in Int
           /\ \E j \in 1..Len(t) : t[j].addr <= 8 * u /\ 8 * u < Top(t[j])
    BY <1>7, FreeIn
  <2>2. u \in FreeUnits(list) <=>
           /\ u \in Int
           /\ \E j \in 1..Len(list) : list[j].addr <= 8 * u /\ 8 * u < Top(list[j])
    BY FreeIn
  <2>3. ASSUME u \in FreeUnits(t) PROVE u \in FreeUnits(list) /\ u \notin UnitsOf(b.addr, b.len)
    BY <2>1, <2>2, <2>3, <1>4, <1>9, <1>11
  <2>4. ASSUME u \in FreeUnits(list), u \notin UnitsOf(b.addr, b.len) PROVE u \in FreeUnits(t)
    BY <2>1, <2>2, <2>4, <1>4, <1>6, <1>9
  <2> QED
    BY <2>3, <2>4
<1> QED
  BY <1>7, <1>8, <1>10, <1>12 DEF Given, t

\* A block is cut to c, at its low or at its high end.
Cut(b, c, a, n) ==
    /\ Placed(c.addr, c.len, b.addr, Top(b))
    /\ n > 0
    /\ \/ a = b.addr /\ a + n = c.addr /\ Top(c) = Top(b)
       \/ c.addr = b.addr /\ a = Top(c) /\ a + n = Top(b)

\* The units from a to b are those from bb to bt that are not from cb to ct.
CutUnits(bb, bt, cb, ct, a, b) ==
    \A u \in Int :
       a <= 8 * u /\ 8 * u < b <=>
         (bb <= 8 * u /\ 8 * u < bt) /\ ~(cb <= 8 * u /\ 8 * u < ct)

\* What is left of a block and what is cut off lie in it, and share nothing.
LEMMA CutParts ==
  ASSUME NEW ba \in Int, NEW bn \in Int, NEW ca \in Int, NEW cn \in Int,
         NEW a \in Int, NEW n \in Int, NEW lo \in Int, NEW hi \in Int,
         Placed(ba, bn, lo, hi), Placed(ca, cn, ba, ba + bn), n > 0,
         \/ a = ba /\ a + n = ca /\ ca + cn = ba + bn
         \/ ca = ba /\ a = ca + cn /\ a + n = ba + bn
  PROVE  /\ Placed(ca, cn, lo, hi) /\ Placed(a, n, lo, hi)
         /\ CutUnits(ba, ba + bn, ca, ca + cn, a, a + n)
  BY DEF Placed, CutUnits

LEMMA CutGives ==
  ASSUME NEW S, NEW list, NEW lo \in Int, NEW hi \in Int, Sound(S, list, lo, hi),
         NEW i \in 1..Len(list), NEW c \in S, NEW a \in Int, NEW n \in Int,
         Cut(list[i], c, a, n)
  PROVE  Given(S, list, ReplaceAt(list, i, c), lo, hi, a, n)
<1> DEFINE t == ReplaceAt(list, i, c)
           b == list[i]
<1>1. list \in Seq(S) /\ Len(list) \in Nat /\ i \in Int
  BY DEF Sound
<1>2. /\ t \in Seq(S) /\ Len(t) = Len(list)
      /\ t[i] = c
      /\ \A j \in 1..Len(list) : j # i => t[j] = list[j]
  BY <1>1 DEF ReplaceAt
<1>3. /\ \A j \in 1..Len(list) : Placed(list[j].addr, list[j].len, lo, hi)
      /\ \A j, k \in 1..Len(list) : j < k => Top(list[j]) < list[k].addr
  BY DEF Sound
<1> HIDE DEF t
<1>4. Placed(b.addr, b.len, lo, hi) /\ Placed(c.addr, c.len, b.addr, b.addr + b.len)
  BY <1>3 DEF Top, Cut
<1>5. /\ Placed(c.addr, c.len, lo, hi) /\ Placed(a, n, lo, hi)
      /\ \A u \in Int :
           a <= 8 * u /\ 8 * u < a + n <=>
             /\ b.addr <= 8 * u /\ 8 * u < Top(b)
             /\ ~(c.addr <= 8 * u /\ 8 * u < Top(c))
  <2>1. /\ b.addr \in Int /\ b.len \in Int /\ c.addr \in Int /\ c.len \in Int
        /\ n > 0
        /\ \/ a = b.addr /\ a + n = c.addr /\ c.addr + c.len = b.addr + b.len
           \/ c.addr = b.addr /\ a = c.addr + c.len /\ a + n = b.addr + b.len
    BY <1>4 DEF Placed, Cut, Top
  <2> DEFINE ba == b.addr
             bn == b.len
             ca == c.addr
             cn == c.len
  <2>2. /\ ba \in Int /\ bn \in Int /\ ca \in Int /\ cn \in Int
        /\ \/ a = ba /\ a + n = ca /\ ca + cn = ba + bn
           \/ ca = ba /\ a = ca + cn /\ a + n = ba + bn
        /\ Placed(ba, bn, lo, hi) /\ Placed(ca, cn, ba, ba + bn)
    BY <1>4, <2>1
  <2> HIDE DEF ba, bn, ca, cn
  <2>3. /\ Placed(ca, cn, lo, hi) /\ Placed(a, n, lo, hi)
        /\ CutUnits(ba, ba + bn, ca, ca + cn, a, a + n)
    BY <2>1, <2>2, CutParts
  <2> QED
    BY <2>3 DEF ba, bn, ca, cn, Top, CutUnits
<1>6. Sound(S, t, lo, hi)
  <2>1. \A j \in 1..Len(t) : Placed(t[j].addr, t[j].len, lo, hi)
    BY <1>2, <1>3, <1>5
  <2>2. ASSUME NEW j \in 1..Len(t), NEW k \in 1..Len(t), j < k
        PROVE  Top(t[j]) < t[k].addr
    <3>1. Top(list[j]) < list[k].addr
      BY <2>2, <1>2, <1>3
    <3>2. \A x \in 1..Len(list) : /\ Top(list[x]) \in Int /\ list[x].addr \in Int
                                  /\ Top(t[x]) <= Top(list[x])
                                  /\ list[x].addr <= t[x].addr
                                  /\ Top(t[x]) \in Int /\ t[x].addr \in Int
      <4> SUFFICES ASSUME NEW x \in 1..Len(list)
                   PROVE  /\ Top(list[x]) \in Int /\ list[x].addr \in Int
                          /\ Top(t[x]) <= Top(list[x])
                          /\ list[x].addr <= t[x].addr
                          /\ Top(t[x]) \in Int /\ t[x].addr \in Int
        OBVIOUS
      <4>1. list[x].addr \in Int /\ Top(list[x]) \in Int
        BY <1>3, SMTT(60) DEF Placed, Top
      <4>2. CASE x = i
        BY <4>1, <4>2, <1>2, <1>4, SMTT(60) DEF Placed, Top
      <4>3. CASE x # i
        BY <4>1, <4>3, <1>2
      <4> QED
        BY <4>2, <4>3
    <3>3. /\ Top(t[j]) <= Top(list[j]) /\ list[k].addr <= t[k].addr
          /\ Top(list[j]) \in Int /\ list[k].addr \in Int
          /\ Top(t[j]) \in Int /\ t[k].addr \in Int
      BY <3>2, <1>2
    <3> DEFINE w == Top(list[j])
               x == list[k].addr
               y == Top(t[j])
               z == t[k].addr
    <3>4. w \in Int /\ x \in Int /\ y \in Int /\ z \in Int /\ y <= w /\ w < x /\ x <= z
      BY <3>1, <3>3
    <3> HIDE DEF w, x, y, z
    <3>5. y < z
      BY <3>4
    <3> QED
      BY <3>5 DEF y, z
  <2> QED
    BY <1>2, <2>1, <2>2 DEF Sound
<1>7. \A u : u \in UnitsOf(a, n) <=> u \in Int /\ a <= 8 * u /\ 8 * u < a + n
  BY <1>5, UnitsIn DEF Placed
<1>8. UnitsOf(a, n) \subseteq FreeUnits(list)
  <2> SUFFICES ASSUME NEW u \in UnitsOf(a, n) PROVE u \in FreeUnits(list)
    OBVIOUS
  <2> QED
    BY <1>5, <1>7, FreeIn
<1>9. \A j \in 1..Len(list) : \A u \in Int :
          /\ list[j].addr <= 8 * u /\ 8 * u < Top(list[j])
          /\ b.addr <= 8 * u /\ 8 * u < Top(b)
          => j = i
  BY OneBlock
<1>10. FreeUnits(t) = FreeUnits(list) \ UnitsOf(a, n)
  <2> SUFFICES ASSUME NEW u
               PROVE  u \in FreeUnits(t) <=>
                        u \in FreeUnits(list) /\ u \notin UnitsOf(a, n)
    OBVIOUS
  <2>1. u \in FreeUnits(t) <=>
           /\ u \in Int
           /\ \E j \in 1..Len(list) : t[j].addr <= 8 * u /\ 8 * u < Top(t[j])
    BY <1>2, <1>6, FreeIn
  <2>2. u \in FreeUnits(list) <=>
           /\ u \in Int
           /\ \E j \in 1..Len(list) : list[j].addr <= 8 * u /\ 8 * u < Top(list[j])
    BY FreeIn
  <2>3. ASSUME u \in Int, NEW j \in 1..Len(list), t[j].addr <= 8 * u, 8 * u < Top(t[j])
        PROVE  u \in FreeUnits(list) /\ u \notin UnitsOf(a, n)
    <3>1. CASE j = i
      <4>1. c.addr <= 8 * u /\ 8 * u < Top(c)
        BY <2>3, <3>1, <1>2
      <4>2. b.addr <= 8 * u /\ 8 * u < Top(b)
        <5> DEFINE ba == b.addr
                   bt == Top(b)
                   ca == c.addr
                   ct == Top(c)
        <5>1. ba \in Int /\ bt \in Int /\ ca \in Int /\ ct \in Int /\ ba <= ca /\ ct <= bt
          <6> DEFINE x == b.addr
                     y == b.len
                     v == c.addr
                     w == c.len
          <6>1. Placed(x, y, lo, hi) /\ Placed(v, w, x, Top(b)) /\ Top(b) = x + y
            BY <1>4 DEF Cut, Top
          <6>2. ba = x /\ bt = x + y /\ ca = v /\ ct = v + w
            BY DEF Top
          <6> HIDE DEF ba, bt, ca, ct, x, y, v, w
          <6>3. /\ x \in Int /\ y \in Int /\ v \in Int /\ w \in Int
                /\ x <= v /\ v + w <= x + y
            BY <6>1 DEF Placed
          <6> QED
            BY <6>2, <6>3
        <5> HIDE DEF ba, bt, ca, ct
        <5>2. ca <= 8 * u /\ 8 * u < ct
          BY <4>1 DEF ca, ct
        <5>3. ba <= 8 * u /\ 8 * u < bt
          BY <5>1, <5>2, <2>3
        <5> QED
          BY <5>3 DEF ba, bt
      <4> QED
        BY <4>1, <4>2, <2>2, <2>3, <1>5, <1>7
    <3>2. CASE j # i
      <4>1. list[j].addr <= 8 * u /\ 8 * u < Top(list[j])
        BY <2>3, <3>2, <1>2
      <4>2. ~(b.addr <= 8 * u /\ 8 * u < Top(b))
        BY <4>1, <3>2, <2>3, <1>9
      <4> QED
        BY <4>1, <4>2, <2>2, <2>3, <1>5, <1>7
    <3> QED
      BY <3>1, <3>2
  <2>4. ASSUME u \in Int, NEW j \in 1..Len(list),
               list[j].addr <= 8 * u, 8 * u < Top(list[j]), u \notin UnitsOf(a, n)
        PROVE  u \in FreeUnits(t)
    <3>1. CASE j = i
      BY <2>1, <2>4, <3>1, <1>2, <1>5, <1>7
    <3>2. CASE j # i
      BY <2>1, <2>4, <3>2, <1>2
    <3> QED
      BY <3>1, <3>2
  <2> QED
    BY <2>1, <2>2, <2>3, <2>4
<1> QED
  BY <1>5, <1>6, <1>8, <1>10 DEF Given, t

\* When no block is long enough, no run of free units is.
LEMMA NoneFits ==
  ASSUME NEW S, NEW list, NEW lo \in Int, NEW hi \in Int, Sound(S, list, lo, hi),
         NEW n \in Int, n > 0, n % 8 = 0, LongEnough(list, n) = {},
         NEW a \in FreeUnits(list)
  PROVE  ~(a..(a + n \div 8 - 1) \subseteq FreeUnits(list))
<1>1. PICK i \in 1..Len(list) : a \in Int /\ list[i].addr <= 8 * a /\ 8 * a < Top(list[i])
  BY FreeIn
<1>2. /\ \A j \in 1..Len(list) : Placed(list[j].addr, list[j].len, lo, hi)
      /\ \A j, k \in 1..Len(list) : j < k => Top(list[j]) < list[k].addr
      /\ DOMAIN list = 1..Len(list) /\ Len(list) \in Nat
  BY DEF Sound
<1>3. list[i].len < n
  <2>1. ~(list[i].len >= n)
    BY <1>2 DEF LongEnough
  <2> QED
    BY <2>1, <1>2 DEF Placed
<1> DEFINE top == Top(list[i])
           end == top \div 8
<1>4. /\ top \in Int /\ end \in Int /\ 8 * end = top
      /\ top = list[i].addr + list[i].len /\ list[i].addr \in Int /\ list[i].len \in Int
  <2> DEFINE x == list[i].addr
             y == list[i].len
  <2>1. x \in Int /\ y \in Int /\ x % 8 = 0 /\ y % 8 = 0
    BY <1>2 DEF Placed
  <2>2. top = x + y
    BY DEF Top
  <2> HIDE DEF x, y, top
  <2>3. top \in Int /\ end \in Int /\ 8 * end = top
    BY <2>1, <2>2
  <2> QED
    BY <2>1, <2>2, <2>3 DEF x, y
<1> HIDE DEF end, top
<1>5. 8 * (n \div 8) = n /\ n \div 8 \in Int
  OBVIOUS
<1>6. end \in a..(a + n \div 8 - 1)
  <2>1. a <= end
    BY <1>1, <1>4 DEF top
  <2>2. 8 * end < 8 * a + n
    BY <1>1, <1>3, <1>4, SMTT(60)
  <2> DEFINE m == n \div 8
  <2>3. m \in Int /\ 8 * m = n
    BY <1>5
  <2> HIDE DEF m
  <2>4. end <= a + m - 1
    BY <2>2, <2>3, <1>1, <1>4
  <2> QED
    BY <2>1, <2>3, <2>4, <1>1, <1>4 DEF m
<1>7. end \notin FreeUnits(list)
  <2> SUFFICES ASSUME NEW j \in 1..Len(list),
                      list[j].addr <= top, top < Top(list[j])
               PROVE  FALSE
    BY <1>4, FreeIn
  <2>1. list[j].addr \in Int /\ Top(list[j]) \in Int /\ i \in Int /\ j \in Int
    BY <1>2 DEF Placed, Top
  <2>2. CASE i < j
    BY <2>1, <2>2, <1>2, <1>4 DEF top
  <2>3. CASE j < i
    <3>1. Top(list[j]) < list[i].addr
      BY <2>3, <1>2
    <3> QED
      BY <3>1, <2>1, <1>1, <1>4 DEF top
  <2>4. CASE j = i
    BY <2>1, <2>4, <1>4 DEF top
  <2> QED
    BY <2>1, <2>2, <2>3, <2>4
<1> QED
  BY <1>6, <1>7

----------------------------------------------------------------------------
\* Allocation.

\* A request for n bytes at list is refused because nothing is long enough, or
\* else served at a, which leaves the list t.
Served(S, list, t, lo, hi, a, n) ==
    /\ n > 0
    /\ Given(S, list, t, lo, hi, a, roundmb(n))

Unserved(list, t, n) ==
    /\ t = list
    /\ n = 0 \/ LongEnough(list, roundmb(n)) = {}

\* A block that is long enough is used up or cut.
LEMMA BlockServes ==
  ASSUME NEW S, NEW list, NEW lo \in Int, NEW hi \in Int, Sound(S, list, lo, hi),
         NEW n \in Nat, n + 7 < 2^Width, n > 0,
         NEW i \in LongEnough(list, roundmb(n)), NEW c, NEW a \in Int, NEW t,
         list[i].len = roundmb(n) => a = list[i].addr /\ t = RemoveAt(list, i),
         list[i].len # roundmb(n) =>
            /\ c \in S /\ t = ReplaceAt(list, i, c)
            /\ c.len = list[i].len - roundmb(n)
            /\ \/ c.addr = list[i].addr + roundmb(n) /\ a = list[i].addr
               \/ c.addr = list[i].addr /\ a = Top(list[i]) - roundmb(n)
  PROVE  Served(S, list, t, lo, hi, a, n)
<1> DEFINE m == roundmb(n)
           ba == list[i].addr
           bn == list[i].len
           ca == c.addr
           cn == c.len
<1>1. m \in Nat /\ m % 8 = 0 /\ m > 0
  BY Rounding
<1>2. i \in 1..Len(list) /\ bn >= m
  BY DEF LongEnough, Sound
<1>3. Placed(ba, bn, lo, hi)
  BY <1>2 DEF Sound
<1>4. CASE bn = m
  BY <1>2, <1>4, RemoveGives DEF Served
<1>5. CASE bn # m
  <2>1. /\ c \in S /\ t = ReplaceAt(list, i, c)
        /\ cn = bn - m
        /\ \/ ca = ba + m /\ a = ba
           \/ ca = ba /\ a = (ba + bn) - m
    <3>1. Top(list[i]) = ba + bn
      BY DEF Top
    <3>2. /\ c \in S /\ t = ReplaceAt(list, i, c)
          /\ cn = bn - m
          /\ \/ ca = ba + m /\ a = ba
             \/ ca = ba /\ a = Top(list[i]) - m
      BY <1>5
    <3> QED
      BY <3>1, <3>2
  <2> HIDE DEF m, ba, bn, ca, cn
  <2>2. /\ Placed(ca, cn, ba, ba + bn)
        /\ \/ a = ba /\ a + m = ca /\ ca + cn = ba + bn
           \/ ca = ba /\ a = ca + cn /\ a + m = ba + bn
    <3>1. ba \in Int /\ bn \in Int /\ bn > m /\ ba % 8 = 0 /\ bn % 8 = 0
      BY <1>1, <1>2, <1>3, <1>5 DEF Placed
    <3>2. cn \in Int /\ cn > 0 /\ cn % 8 = 0
      BY <1>1, <2>1, <3>1
    <3>3. CASE ca = ba + m /\ a = ba
      BY <1>1, <2>1, <3>1, <3>2, <3>3 DEF Placed
    <3>4. CASE ca = ba /\ a = (ba + bn) - m
      BY <1>1, <2>1, <3>1, <3>2, <3>4 DEF Placed
    <3> QED
      BY <2>1, <3>3, <3>4
  <2>3. Cut(list[i], c, a, m)
    BY <1>1, <2>2 DEF Cut, Top, ba, bn, ca, cn
  <2>4. Given(S, list, t, lo, hi, a, m)
    BY <1>1, <1>2, <2>1, <2>3, CutGives
  <2> QED
    BY <2>4 DEF Served, m
<1> QED
  BY <1>4, <1>5

\* getmem gives the low end of a block, or refuses.
LEMMA getmemServes ==
  ASSUME NEW m0, NEW lo \in Nat, NEW hi \in Int, Sound(KNodes, m0.list, lo, hi),
         NEW n \in Nat, n + 7 < 2^Width
  PROVE  LET got == getmem(m0, n) IN
         IF got.addr = SYSERR THEN got.mem = m0 /\ Unserved(m0.list, got.mem.list, n)
         ELSE /\ Served(KNodes, m0.list, got.mem.list, lo, hi, got.addr, n)
              /\ got.mem.mlength = m0.mlength - roundmb(n)
<1> DEFINE got == getmem(m0, n)
           list == m0.list
           m == roundmb(n)
           i == Min(LongEnough(list, m))
           b == list[i]
           t == IF b.len = m THEN RemoveAt(list, i)
                ELSE ReplaceAt(list, i, Node(b.addr + m, b.len - m))
<1>1. CASE n = 0 \/ LongEnough(list, m) = {}
  <2>1. got = Refused(m0)
    BY <1>1 DEF getmem
  <2> QED
    BY <1>1, <2>1 DEF Refused, Result, Unserved
<1>2. CASE ~(n = 0 \/ LongEnough(list, m) = {})
  <2>1. got.addr = b.addr /\ got.mem.list = t /\ got.mem.mlength = m0.mlength - m
    <3>1. got = Result(b.addr, [list |-> t, mlength |-> m0.mlength - m])
      BY <1>2 DEF getmem
    <3> HIDE DEF t, b
    <3> QED
      BY <3>1 DEF Result
  <2>2. LongEnough(list, m) \subseteq 1..Len(list)
    BY DEF LongEnough, Sound
  <2>3. i \in LongEnough(list, m)
    BY <1>2, <2>2, LeastNat
  <2> HIDE DEF i
  <2>4. b.addr \in Int /\ b.len \in Int /\ lo <= b.addr
    BY <2>2, <2>3 DEF Sound, Placed
  <2>5. m \in Nat
    BY Rounding
  <2> DEFINE c == Node(b.addr + m, b.len - m)
  <2>6. c \in KNodes /\ c.addr = b.addr + m /\ c.len = b.len - m
    BY <2>4, <2>5 DEF Node, KNodes
  <2>7. t = IF b.len = m THEN RemoveAt(list, i) ELSE ReplaceAt(list, i, c)
    OBVIOUS
  <2> HIDE DEF c, t
  <2>8. Served(KNodes, list, t, lo, hi, b.addr, n)
    <3>1. n > 0
      BY <1>2
    <3> QED
      BY <2>3, <2>4, <2>6, <2>7, <3>1, BlockServes
  <2>9. b.addr # SYSERR
    BY <2>4 DEF SYSERR
  <2> QED
    BY <2>1, <2>8, <2>9
<1> QED
  BY <1>1, <1>2

\* getstk gives the high end of a block, by its last word, or refuses.
LEMMA getstkServes ==
  ASSUME NEW m0, NEW lo \in Nat, NEW hi \in Int, Sound(KNodes, m0.list, lo, hi),
         NEW n \in Nat, n + 7 < 2^Width
  PROVE  LET got == getstk(m0, n) IN
         IF got.addr = SYSERR THEN got.mem = m0 /\ Unserved(m0.list, got.mem.list, n)
         ELSE /\ got.addr \in Int
              /\ got.mem.mlength = m0.mlength - roundmb(n)
              /\ Served(KNodes, m0.list, got.mem.list, lo, hi,
                        got.addr + 4 - roundmb(n), n)
<1> DEFINE got == getstk(m0, n)
           list == m0.list
           m == roundmb(n)
           i == Max(LongEnough(list, m))
           b == list[i]
           t == IF b.len = m THEN RemoveAt(list, i)
                ELSE ReplaceAt(list, i, Node(b.addr, b.len - m))
<1>1. CASE n = 0 \/ LongEnough(list, m) = {}
  <2>1. got = Refused(m0)
    BY <1>1 DEF getstk
  <2> QED
    BY <1>1, <2>1 DEF Refused, Result, Unserved
<1>2. CASE ~(n = 0 \/ LongEnough(list, m) = {})
  <2>1. got.addr = Top(b) - 4 /\ got.mem.list = t /\ got.mem.mlength = m0.mlength - m
    <3>1. got = Result(Top(b) - 4, [list |-> t, mlength |-> m0.mlength - m])
      BY <1>2 DEF getstk
    <3> HIDE DEF t, b
    <3> QED
      BY <3>1 DEF Result
  <2>2. LongEnough(list, m) \subseteq 1..Len(list) /\ Len(list) \in Nat
    BY DEF LongEnough, Sound
  <2>3. i \in LongEnough(list, m)
    BY <1>2, <2>2, GreatestIndex
  <2> HIDE DEF i
  <2>4. b.addr \in Int /\ b.len \in Int /\ lo <= b.addr /\ b.len > 0 /\ b.len % 8 = 0
    BY <2>2, <2>3 DEF Sound, Placed
  <2>5. m \in Nat
    BY Rounding
  <2> DEFINE c == Node(b.addr, b.len - m)
             a == b.addr + b.len - m
  <2>6. c \in KNodes /\ c.addr = b.addr /\ c.len = b.len - m /\ a \in Int
    BY <2>4, <2>5 DEF Node, KNodes
  <2>7. t = IF b.len = m THEN RemoveAt(list, i) ELSE ReplaceAt(list, i, c)
    OBVIOUS
  <2>10. (b.len = m => a = b.addr) /\ a = Top(b) - m /\ Top(b) - 4 + 4 - m = a
         /\ Top(b) - 4 \in Int /\ Top(b) - 4 # SYSERR
    BY <2>4, <2>5 DEF Top, SYSERR
  <2> HIDE DEF c, t, a
  <2>8. Served(KNodes, list, t, lo, hi, a, n)
    <3>1. n > 0
      BY <1>2
    <3> QED
      BY <2>3, <2>4, <2>6, <2>7, <2>10, <3>1, BlockServes
  <2> QED
    BY <2>1, <2>8, <2>10
<1> QED
  BY <1>1, <1>2

\* vgetmem does as getmem does.
LEMMA vgetmemServes ==
  ASSUME NEW vm, NEW lo \in Nat, NEW hi \in Int, Sound(VNodes, vm.list, lo, hi),
         NEW n \in Nat, n + 7 < 2^Width
  PROVE  LET got == vgetmem(vm, n) IN
         IF got.addr = SYSERR THEN got.vm = vm /\ Unserved(vm.list, got.vm.list, n)
         ELSE /\ Served(VNodes, vm.list, got.vm.list, lo, hi, got.addr, n)
              /\ got.vm.mlength = vm.mlength - roundmb(n)
<1> DEFINE got == vgetmem(vm, n)
           list == vm.list
           m == roundmb(n)
           i == Min(LongEnough(list, m))
           b == list[i]
           c == [b EXCEPT !.addr = b.addr + m, !.len = b.len - m]
           t == IF b.len = m THEN RemoveAt(list, i) ELSE ReplaceAt(list, i, c)
           x == IF b.len = m THEN b.node ELSE INTAB
<1>1. CASE n = 0 \/ LongEnough(list, m) = {}
  <2>1. got = [addr |-> SYSERR, vm |-> vm, unlinked |-> INTAB]
    BY <1>1 DEF vgetmem
  <2> QED
    BY <1>1, <2>1 DEF Unserved
<1>2. CASE ~(n = 0 \/ LongEnough(list, m) = {})
  <2>1. got.addr = b.addr /\ got.vm.list = t /\ got.vm.mlength = vm.mlength - m
    <3>1. got = [addr |-> b.addr, vm |-> [list |-> t, mlength |-> vm.mlength - m],
                 unlinked |-> x]
      BY <1>2 DEF vgetmem
    <3> HIDE DEF t, b, x
    <3> QED
      BY <3>1
  <2>2. LongEnough(list, m) \subseteq 1..Len(list)
    BY DEF LongEnough, Sound
  <2>3. i \in LongEnough(list, m)
    BY <1>2, <2>2, LeastNat
  <2> HIDE DEF i
  <2>4. b.addr \in Int /\ b.len \in Int /\ lo <= b.addr /\ b \in VNodes
    BY <2>2, <2>3 DEF Sound, Placed
  <2>5. m \in Nat
    BY Rounding
  <2>6. c \in VNodes /\ c.addr = b.addr + m /\ c.len = b.len - m
    <3> DEFINE z == b.addr + m
               y == b.len - m
    <3>1. z \in Int /\ y \in Int
      BY <2>4, <2>5
    <3> HIDE DEF b, z, y
    <3>2. c = [b EXCEPT !.addr = z, !.len = y]
      BY DEF z, y
    <3>3. c \in VNodes /\ c.addr = z /\ c.len = y
      BY <2>4, <3>1, <3>2 DEF VNodes
    <3> QED
      BY <3>3 DEF z, y
  <2>7. t = IF b.len = m THEN RemoveAt(list, i) ELSE ReplaceAt(list, i, c)
    OBVIOUS
  <2> HIDE DEF c, t
  <2>8. Served(VNodes, list, t, lo, hi, b.addr, n)
    <3>1. n > 0
      BY <1>2
    <3> QED
      BY <2>3, <2>4, <2>6, <2>7, <3>1, BlockServes
  <2>9. b.addr # SYSERR
    BY <2>4 DEF SYSERR
  <2> QED
    BY <2>1, <2>8, <2>9
<1> QED
  BY <1>1, <1>2

----------------------------------------------------------------------------
\* Blocks that come back.

\* The nodes below address a are the first ones of the list.
LEMMA BeforePlace ==
  ASSUME NEW S, NEW list, NEW lo \in Int, NEW hi \in Int, Sound(S, list, lo, hi),
         NEW a \in Int
  PROVE  /\ Before(list, a) \in 0..Len(list)
         /\ \A i \in 1..Len(list) : i <= Before(list, a) <=> list[i].addr < a
<1> DEFINE L == Len(list)
           U == {i \in 1..(L + 1) : i <= L => ~(list[i].addr < a)}
           m == Min(U)
           P == {i \in DOMAIN list : list[i].addr < a}
<1>1. L \in Nat /\ DOMAIN list = 1..L
  BY DEF Sound
<1>2. \A i \in 1..L : list[i].addr \in Int /\ Top(list[i]) \in Int
                      /\ list[i].addr < Top(list[i])
  BY DEF Sound, Placed, Top
<1>3. \A i, j \in 1..L : i < j => Top(list[i]) < list[j].addr
  BY DEF Sound
<1>4. m \in U /\ \A y \in U : m <= y
  <2>1. L + 1 \in U /\ U \subseteq Nat
    BY <1>1
  <2> QED
    BY <2>1, LeastNat
<1> HIDE DEF m
<1>5. \A i \in 1..L : i < m <=> list[i].addr < a
  <2> SUFFICES ASSUME NEW i \in 1..L PROVE i < m <=> list[i].addr < a
    OBVIOUS
  <2>1. CASE i < m
    BY <2>1, <1>1, <1>4
  <2>2. CASE i = m
    BY <2>2, <1>1, <1>4
  <2>3. CASE m < i
    <3>1. m \in 1..L /\ ~(list[m].addr < a)
      BY <2>3, <1>1, <1>4
    <3>2. Top(list[m]) < list[i].addr
      BY <2>3, <3>1, <1>3
    <3>3. list[m].addr \in Int /\ Top(list[m]) \in Int /\ list[i].addr \in Int
          /\ list[m].addr < Top(list[m])
      BY <3>1, <1>2
    <3> QED
      BY <2>3, <3>1, <3>2, <3>3, <1>4
  <2> QED
    BY <2>1, <2>2, <2>3, <1>1, <1>4
<1>6. P = 1..(m - 1)
  BY <1>1, <1>4, <1>5
<1>7. Cardinality(P) = m - 1
  <2>1. m \in Int /\ m >= 1
    BY <1>1, <1>4
  <2>2. Cardinality(1..(m - 1)) = IF 1 > m - 1 THEN 0 ELSE m - 1 - 1 + 1
    BY <2>1, FS_Interval
  <2>3. (IF 1 > m - 1 THEN 0 ELSE m - 1 - 1 + 1) = m - 1
    BY <2>1
  <2> QED
    BY <2>2, <2>3, <1>6, Zenon
<1>8. Before(list, a) = m - 1
  BY <1>7 DEF Before
<1> QED
  BY <1>1, <1>4, <1>5, <1>8

\* A block that does not overlap lies between those before and after its place.
LEMMA OverlapsNone ==
  ASSUME NEW S, NEW list, NEW lo \in Int, NEW hi \in Int, Sound(S, list, lo, hi),
         NEW a \in Int, NEW n \in Int, ~Overlaps(list, a, n), NEW i \in 1..Len(list)
  PROVE  /\ i <= Before(list, a) => Top(list[i]) <= a
         /\ i > Before(list, a) => a + n <= list[i].addr
<1> DEFINE k == Before(list, a)
<1>0. Len(list) \in Nat
  BY DEF Sound
<1>1. k \in 0..Len(list) /\ Len(list) \in Nat
  BY <1>0, BeforePlace
<1>2. \A j \in 1..Len(list) : list[j].addr \in Int /\ Top(list[j]) \in Int
                              /\ list[j].addr < Top(list[j])
  BY DEF Sound, Placed, Top
<1>3. \A j, l \in 1..Len(list) : j < l => Top(list[j]) < list[l].addr
  BY DEF Sound
<1>4. (k > 0 => ~(a < Top(list[k]))) /\ (k < Len(list) => ~(a + n > list[k + 1].addr))
  BY DEF Overlaps
<1> HIDE DEF k
<1>5. CASE i <= k
  <2>1. k \in 1..Len(list) /\ Top(list[k]) <= a
    BY <1>1, <1>2, <1>4, <1>5
  <2>2. CASE i = k
    BY <2>1, <2>2, <1>1, <1>5 DEF k
  <2>3. CASE i # k
    <3>1. Top(list[i]) < list[k].addr
      BY <2>1, <2>3, <1>1, <1>3, <1>5
    <3> DEFINE x == Top(list[i])
               y == list[k].addr
               z == Top(list[k])
    <3>2. x \in Int /\ y \in Int /\ z \in Int /\ x < y /\ y < z /\ z <= a
      BY <2>1, <3>1, <1>2
    <3> HIDE DEF x, y, z
    <3>3. x <= a
      BY <3>2
    <3> QED
      BY <3>3, <1>1, <1>5 DEF x, k
  <2> QED
    BY <2>2, <2>3
<1>6. CASE i > k
  <2>1. k + 1 \in 1..Len(list) /\ a + n <= list[k + 1].addr
    <3>1. k < Len(list) /\ k + 1 \in 1..Len(list)
      BY <1>1, <1>6
    <3> QED
      BY <3>1, <1>2, <1>4
  <2>2. CASE i = k + 1
    BY <2>1, <2>2, <1>1, <1>6 DEF k
  <2>3. CASE i # k + 1
    <3>1. Top(list[k + 1]) < list[i].addr
      BY <2>1, <2>3, <1>1, <1>3, <1>6
    <3> DEFINE x == list[i].addr
               y == list[k + 1].addr
               z == Top(list[k + 1])
    <3>2. x \in Int /\ y \in Int /\ z \in Int /\ y < z /\ z < x /\ a + n <= y
      BY <2>1, <3>1, <1>2
    <3> HIDE DEF x, y, z
    <3>3. a + n <= x
      BY <3>2
    <3> QED
      BY <3>3, <1>1, <1>6 DEF x, k
  <2> QED
    BY <2>2, <2>3
<1> QED
  BY <1>1, <1>5, <1>6 DEF k

\* The test for overlap finds a unit that is free already, whenever there is one.
LEMMA OverlapsShares ==
  ASSUME NEW S, NEW list, NEW lo \in Int, NEW hi \in Int, Sound(S, list, lo, hi),
         NEW a \in Int, NEW n \in Int, a % 8 = 0, n % 8 = 0, n > 0
  PROVE  Overlaps(list, a, n) <=> UnitsOf(a, n) \cap FreeUnits(list) # {}
<1> DEFINE k == Before(list, a)
<1>0. Len(list) \in Nat
  BY DEF Sound
<1>1. k \in 0..Len(list) /\ Len(list) \in Nat
      /\ \A i \in 1..Len(list) : i <= k <=> list[i].addr < a
  BY <1>0, BeforePlace
<1>2. \A i \in 1..Len(list) : /\ list[i].addr \in Int /\ Top(list[i]) \in Int
                              /\ list[i].addr < Top(list[i]) /\ list[i].addr % 8 = 0
  BY DEF Sound, Placed, Top
<1>3. \A u : u \in UnitsOf(a, n) <=> u \in Int /\ a <= 8 * u /\ 8 * u < a + n
  BY UnitsIn
<1>4. ASSUME NEW i \in 1..Len(list), NEW u \in Int,
             list[i].addr <= 8 * u, 8 * u < Top(list[i]), a <= 8 * u, 8 * u < a + n
      PROVE  UnitsOf(a, n) \cap FreeUnits(list) # {}
  <2>1. u \in UnitsOf(a, n) /\ u \in FreeUnits(list)
    BY <1>3, <1>4, FreeIn
  <2> QED
    BY <2>1
<1>5. CASE Overlaps(list, a, n)
  <2>1. \/ k > 0 /\ a < Top(list[k])
        \/ k < Len(list) /\ a + n > list[k + 1].addr
    BY <1>5 DEF Overlaps
  <2> HIDE DEF k
  <2>2. CASE k > 0 /\ a < Top(list[k])
    <3>1. k \in 1..Len(list) /\ list[k].addr < a
      BY <2>2, <1>1
    <3>2. 8 * (a \div 8) = a /\ a \div 8 \in Int
      OBVIOUS
    <3> DEFINE x == list[k].addr
               u == a \div 8
    <3>3. x \in Int /\ x < a
      BY <3>1, <1>2
    <3> HIDE DEF x
    <3>4. x <= 8 * u /\ 8 * u < Top(list[k]) /\ a <= 8 * u /\ 8 * u < a + n
      BY <2>2, <3>2, <3>3
    <3> HIDE DEF u
    <3> QED
      BY <3>1, <3>2, <3>4, <1>4, <1>5 DEF x, u
  <2>3. CASE k < Len(list) /\ a + n > list[k + 1].addr
    <3>1. k + 1 \in 1..Len(list) /\ ~(list[k + 1].addr < a)
      BY <2>3, <1>1
    <3> DEFINE x == list[k + 1].addr
               y == Top(list[k + 1])
               u == x \div 8
    <3>2. x \in Int /\ x % 8 = 0 /\ x >= a /\ x < y /\ y \in Int /\ x < a + n
      BY <2>3, <3>1, <1>2
    <3> HIDE DEF x, y
    <3>3. u \in Int /\ x <= 8 * u /\ 8 * u < y /\ a <= 8 * u /\ 8 * u < a + n
      BY <3>2
    <3> HIDE DEF u
    <3> QED
      BY <3>1, <3>3, <1>4, <1>5 DEF x, y
  <2> QED
    BY <2>1, <2>2, <2>3
<1>6. CASE ~Overlaps(list, a, n)
  <2> SUFFICES ASSUME NEW u \in UnitsOf(a, n), u \in FreeUnits(list) PROVE FALSE
    BY <1>6
  <2>1. PICK i \in 1..Len(list) : list[i].addr <= 8 * u /\ 8 * u < Top(list[i])
    BY FreeIn
  <2> DEFINE x == list[i].addr
             y == Top(list[i])
  <2>2. /\ u \in Int /\ a <= 8 * u /\ 8 * u < a + n
        /\ x \in Int /\ y \in Int /\ x <= 8 * u /\ 8 * u < y
    BY <2>1, <1>2, <1>3
  <2>3. (i <= k => y <= a) /\ (i > k => a + n <= x)
    BY <1>6, OverlapsNone
  <2>4. i \in Int /\ k \in Int
    BY <1>1
  <2> HIDE DEF x, y, k
  <2> QED
    BY <2>2, <2>3, <2>4
<1> QED
  BY <1>5, <1>6

\* The first p blocks, g, and the blocks from the q-th on, as a list.
Splice(list, p, g, q) == SubSeq(list, 1, p) \o <<g>> \o SubSeq(list, q, Len(list))

LEMMA SpliceElements ==
  ASSUME NEW S, NEW list \in Seq(S), NEW g \in S,
         NEW p \in 0..Len(list), NEW q \in (p + 1)..(Len(list) + 1)
  PROVE  LET t == Splice(list, p, g, q) IN
         /\ t \in Seq(S)
         /\ Len(t) = (p + 1) + (Len(list) - q + 1)
         /\ \A j \in 1..Len(t) :
              t[j] = IF j <= p THEN list[j]
                     ELSE IF j = p + 1 THEN g ELSE list[q + (j - (p + 2))]
<1> DEFINE L == Len(list)
           b == SubSeq(list, 1, p)
           c == SubSeq(list, q, L)
           bg == b \o <<g>>
           t == Splice(list, p, g, q)
<1>0. L \in Nat /\ p \in Int /\ q \in Int
  OBVIOUS
<1>1. b \in Seq(S) /\ Len(b) = p /\ \A j \in 1..p : b[j] = list[j]
  <2>1. 1 \in 1..(L + 1) /\ p \in (1 - 1)..L
    BY <1>0
  <2>2. /\ b \in Seq(S)
        /\ Len(b) = IF 1 <= p THEN p - 1 + 1 ELSE 0
        /\ \A j \in 1..(p - 1 + 1) : b[j] = list[1 + j - 1]
    BY <2>1, SubSeqProperties
  <2> QED
    BY <2>2, <1>0
<1>2. c \in Seq(S) /\ Len(c) = L - q + 1 /\ \A j \in 1..(L - q + 1) : c[j] = list[q + (j - 1)]
  <2>1. q \in 1..(L + 1) /\ L \in (q - 1)..L
    BY <1>0
  <2>2. /\ c \in Seq(S)
        /\ Len(c) = IF q <= L THEN L - q + 1 ELSE 0
        /\ \A j \in 1..(L - q + 1) : c[j] = list[q + j - 1]
    BY <2>1, SubSeqProperties
  <2>3. \A j \in 1..(L - q + 1) : q + j - 1 = q + (j - 1)
    BY <1>0
  <2> QED
    BY <2>1, <2>2, <2>3, <1>0
<1> HIDE DEF b, c
<1>3. <<g>> \in Seq(S) /\ Len(<<g>>) = 1 /\ <<g>>[1] = g
  OBVIOUS
<1>4. /\ bg \in Seq(S) /\ Len(bg) = p + 1
      /\ \A j \in 1..(p + 1) : bg[j] = IF j <= p THEN b[j] ELSE g
  <2>1. /\ bg \in Seq(S) /\ Len(bg) = Len(b) + 1
        /\ \A j \in 1..(Len(b) + 1) : bg[j] = IF j <= Len(b) THEN b[j] ELSE <<g>>[j - Len(b)]
    BY <1>1, <1>3, ConcatProperties
  <2>2. \A j \in 1..(p + 1) : ~(j <= p) => j - p = 1
    BY <1>0
  <2> QED
    BY <2>1, <2>2, <1>1, <1>3
<1>5. t = bg \o c
  BY DEF Splice, b, c
<1> HIDE DEF bg, t
<1>6. /\ t \in Seq(S) /\ Len(t) = (p + 1) + (L - q + 1)
      /\ \A j \in 1..Len(t) : t[j] = IF j <= p + 1 THEN bg[j] ELSE c[j - (p + 1)]
  <2>1. /\ bg \o c \in Seq(S) /\ Len(bg \o c) = Len(bg) + Len(c)
        /\ \A j \in 1..(Len(bg) + Len(c)) :
             (bg \o c)[j] = IF j <= Len(bg) THEN bg[j] ELSE c[j - Len(bg)]
    BY <1>2, <1>4, ConcatProperties
  <2> QED
    BY <2>1, <1>2, <1>4, <1>5
<1>7. ASSUME NEW j \in 1..Len(t)
      PROVE  t[j] = IF j <= p THEN list[j]
                    ELSE IF j = p + 1 THEN g ELSE list[q + (j - (p + 2))]
  <2>0. j \in Int /\ 1 <= j /\ j <= (p + 1) + (L - q + 1)
    BY <1>0, <1>6
  <2>1. CASE j <= p
    <3>1. j \in 1..p /\ j \in 1..(p + 1) /\ j <= p + 1
      BY <2>0, <2>1, <1>0
    <3>2. t[j] = bg[j] /\ bg[j] = b[j] /\ b[j] = list[j]
      BY <2>1, <3>1, <1>1, <1>4, <1>6
    <3> QED
      BY <2>1, <3>2
  <2>2. CASE j = p + 1
    BY <2>0, <2>2, <1>0, <1>4, <1>6
  <2>3. CASE j > p + 1
    <3>1. t[j] = c[j - (p + 1)]
      BY <2>0, <2>3, <1>0, <1>6
    <3>2. j - (p + 1) \in 1..(L - q + 1) /\ q + ((j - (p + 1)) - 1) = q + (j - (p + 2))
      BY <2>0, <2>3, <1>0
    <3>3. c[j - (p + 1)] = list[q + (j - (p + 2))]
      BY <3>2, <1>2
    <3> QED
      BY <2>0, <2>3, <3>1, <3>3, <1>0, SMTT(60)
  <2> QED
    BY <2>0, <2>1, <2>2, <2>3, <1>0
<1> QED
  BY <1>6, <1>7 DEF t

\* A block g put for those between the p-th and the q-th.
LEMMA SpliceSound ==
  ASSUME NEW S, NEW list, NEW lo \in Int, NEW hi \in Int, Sound(S, list, lo, hi),
         NEW g \in S, NEW p \in 0..Len(list), NEW q \in (p + 1)..(Len(list) + 1),
         Placed(g.addr, g.len, lo, hi),
         \A i \in 1..Len(list) : i <= p => Top(list[i]) < g.addr,
         \A i \in 1..Len(list) : i >= q => Top(g) < list[i].addr
  PROVE  LET t == Splice(list, p, g, q) IN
         /\ Sound(S, t, lo, hi)
         /\ \A u : u \in FreeUnits(t) <=>
              /\ u \in Int
              /\ \/ g.addr <= 8 * u /\ 8 * u < Top(g)
                 \/ \E i \in 1..Len(list) : /\ i <= p \/ i >= q
                                            /\ list[i].addr <= 8 * u /\ 8 * u < Top(list[i])
<1> DEFINE L == Len(list)
           t == Splice(list, p, g, q)
           at(j) == IF j <= p THEN j ELSE q + (j - (p + 2))
<1>1. L \in Nat /\ list \in Seq(S) /\ p \in Int /\ q \in Int /\ p < q /\ q <= L + 1 /\ p >= 0
  BY DEF Sound
<1>2. /\ t \in Seq(S) /\ Len(t) = (p + 1) + (L - q + 1)
      /\ \A j \in 1..Len(t) :
            t[j] = IF j <= p THEN list[j]
                   ELSE IF j = p + 1 THEN g ELSE list[q + (j - (p + 2))]
  BY <1>1, SpliceElements
<1> HIDE DEF t
<1>3. p + 1 \in 1..Len(t) /\ t[p + 1] = g
  <2>1. p + 1 \in 1..((p + 1) + (L - q + 1)) /\ ~(p + 1 <= p)
    BY <1>1, SMTT(60)
  <2>2. p + 1 \in 1..Len(t)
    BY <1>2, <2>1
  <2> QED
    BY <1>2, <2>1, <2>2
<1>4. \A j \in 1..Len(t) : j # p + 1 =>
         /\ at(j) \in 1..L /\ t[j] = list[at(j)]
         /\ (j <= p /\ at(j) <= p) \/ (j > p + 1 /\ at(j) >= q)
  <2> SUFFICES ASSUME NEW j \in 1..Len(t), j # p + 1
               PROVE  /\ at(j) \in 1..L /\ t[j] = list[at(j)]
                      /\ (j <= p /\ at(j) <= p) \/ (j > p + 1 /\ at(j) >= q)
    OBVIOUS
  <2>1. j \in Int /\ 1 <= j /\ j <= (p + 1) + (L - q + 1)
    BY <1>1, <1>2
  <2>2. CASE j <= p
    BY <2>1, <2>2, <1>1, <1>2
  <2>3. CASE j > p + 1
    <3>1. at(j) \in 1..L /\ at(j) >= q /\ ~(j <= p)
      BY <2>1, <2>3, <1>1, SMTT(60)
    <3> QED
      BY <2>3, <3>1, <1>2
  <2> QED
    BY <2>1, <2>2, <2>3, <1>1
<1>5. \A j, k \in 1..Len(t) : j < k /\ j # p + 1 /\ k # p + 1 => at(j) < at(k)
  <2> SUFFICES ASSUME NEW j \in 1..Len(t), NEW k \in 1..Len(t), j < k, j # p + 1, k # p + 1
               PROVE  at(j) < at(k)
    OBVIOUS
  <2>1. j \in Int /\ k \in Int
    BY <1>1, <1>2
  <2> QED
    BY <2>1, <1>1
<1>6. \A i \in 1..L : i <= p \/ i >= q =>
         \E j \in 1..Len(t) : j # p + 1 /\ at(j) = i
  <2> SUFFICES ASSUME NEW i \in 1..L, i <= p \/ i >= q
               PROVE  \E j \in 1..Len(t) : j # p + 1 /\ at(j) = i
    OBVIOUS
  <2>1. CASE i <= p
    <3>1. i \in 1..Len(t) /\ i # p + 1 /\ at(i) = i
      BY <2>1, <1>1, <1>2
    <3> QED
      BY <3>1
  <2>2. CASE i >= q
    <3> DEFINE j == (i - q) + (p + 2)
    <3>1. j \in 1..Len(t) /\ j # p + 1 /\ ~(j <= p) /\ q + (j - (p + 2)) = i
      BY <2>2, <1>1, <1>2
    <3> QED
      BY <3>1
  <2> QED
    BY <2>1, <2>2
<1> HIDE DEF at
<1>7. Sound(S, t, lo, hi)
  <2>1. \A j \in 1..Len(t) : Placed(t[j].addr, t[j].len, lo, hi)
    <3> SUFFICES ASSUME NEW j \in 1..Len(t) PROVE Placed(t[j].addr, t[j].len, lo, hi)
      OBVIOUS
    <3>1. CASE j = p + 1
      BY <3>1, <1>3
    <3>2. CASE j # p + 1
      BY <3>2, <1>4 DEF Sound
    <3> QED
      BY <3>1, <3>2
  <2>2. ASSUME NEW j \in 1..Len(t), NEW k \in 1..Len(t), j < k
        PROVE  Top(t[j]) < t[k].addr
    <3>0. j \in Int /\ k \in Int
      BY <1>1, <1>2
    <3>1. CASE j = p + 1
      <4>1. k # p + 1 /\ ~(k <= p)
        BY <3>0, <3>1, <2>2, <1>1
      <4>2. t[k] = list[at(k)] /\ at(k) \in 1..L /\ at(k) >= q
        BY <4>1, <1>4
      <4> QED
        BY <3>1, <4>2, <1>3
    <3>2. CASE k = p + 1
      <4>1. j # p + 1 /\ ~(j > p + 1)
        BY <3>0, <3>2, <2>2, <1>1
      <4>2. t[j] = list[at(j)] /\ at(j) \in 1..L /\ at(j) <= p
        BY <4>1, <1>4
      <4> QED
        BY <3>2, <4>2, <1>3
    <3>3. CASE j # p + 1 /\ k # p + 1
      <4>1. at(j) < at(k)
        BY <3>3, <2>2, <1>5
      <4>2. at(j) \in 1..L /\ at(k) \in 1..L /\ t[j] = list[at(j)] /\ t[k] = list[at(k)]
        BY <3>3, <1>4
      <4> QED
        BY <4>1, <4>2 DEF Sound
    <3> QED
      BY <3>1, <3>2, <3>3
  <2> QED
    BY <1>2, <2>1, <2>2 DEF Sound
<1>8. ASSUME NEW u
      PROVE  u \in FreeUnits(t) <=>
              /\ u \in Int
              /\ \/ g.addr <= 8 * u /\ 8 * u < Top(g)
                 \/ \E i \in 1..L : /\ i <= p \/ i >= q
                                    /\ list[i].addr <= 8 * u /\ 8 * u < Top(list[i])
  <2>1. u \in FreeUnits(t) <=>
           /\ u \in Int
           /\ \E j \in 1..Len(t) : t[j].addr <= 8 * u /\ 8 * u < Top(t[j])
    BY <1>7, FreeIn
  <2>2. ASSUME NEW j \in 1..Len(t), t[j].addr <= 8 * u, 8 * u < Top(t[j])
        PROVE  \/ g.addr <= 8 * u /\ 8 * u < Top(g)
               \/ \E i \in 1..L : /\ i <= p \/ i >= q
                                  /\ list[i].addr <= 8 * u /\ 8 * u < Top(list[i])
    <3>1. CASE j = p + 1
      BY <2>2, <3>1, <1>3
    <3>2. CASE j # p + 1
      <4>1. at(j) \in 1..L /\ t[j] = list[at(j)] /\ (at(j) <= p \/ at(j) >= q)
        BY <3>2, <1>4
      <4> QED
        BY <2>2, <4>1
    <3> QED
      BY <3>1, <3>2
  <2>3. ASSUME g.addr <= 8 * u /\ 8 * u < Top(g)
        PROVE  \E j \in 1..Len(t) : t[j].addr <= 8 * u /\ 8 * u < Top(t[j])
    BY <2>3, <1>3
  <2>4. ASSUME NEW i \in 1..L, i <= p \/ i >= q,
               list[i].addr <= 8 * u /\ 8 * u < Top(list[i])
        PROVE  \E j \in 1..Len(t) : t[j].addr <= 8 * u /\ 8 * u < Top(t[j])
    <3>1. PICK j \in 1..Len(t) : j # p + 1 /\ at(j) = i
      BY <2>4, <1>6
    <3> QED
      BY <2>4, <3>1, <1>4
  <2> QED
    BY <2>1, <2>2, <2>3, <2>4
<1> QED
  BY <1>7, <1>8 DEF t

\* The list t is sound, and has the n bytes from a on besides what list has.
Returned(S, list, t, lo, hi, a, n) ==
    /\ Sound(S, t, lo, hi)
    /\ UnitsOf(a, n) \cap FreeUnits(list) = {}
    /\ FreeUnits(t) = FreeUnits(list) \cup UnitsOf(a, n)

\* A node whose length is changed is a node.
LEMMA LenChanged ==
  ASSUME NEW S, S = KNodes \/ S = VNodes, NEW b \in S, NEW n \in Int
  PROVE  LET c == [b EXCEPT !.len = n] IN c \in S /\ c.addr = b.addr /\ c.len = n
<1>1. CASE S = KNodes
  BY <1>1 DEF KNodes
<1>2. CASE S = VNodes
  BY <1>2 DEF VNodes
<1> QED
  BY <1>1, <1>2

\* A block put in its place is joined with its neighbours: the list stays sound
\* and no two of its blocks touch.
LEMMA InsertedReturns ==
  ASSUME NEW S, S = KNodes \/ S = VNodes,
         NEW list, NEW lo \in Int, NEW hi \in Int, Sound(S, list, lo, hi),
         NEW new \in S, Placed(new.addr, new.len, lo, hi),
         ~Overlaps(list, new.addr, new.len)
  PROVE  Returned(S, list, Inserted(list, new), lo, hi, new.addr, new.len)
<1> DEFINE L == Len(list)
           a == new.addr
           n == new.len
           k == Before(list, a)
           left == k > 0 /\ Top(list[k]) = a
           right == k < L /\ Top(new) = list[k + 1].addr
           p == IF left THEN k - 1 ELSE k
           q == IF right THEN k + 2 ELSE k + 1
           base == IF left THEN list[k] ELSE new
           len == (IF left THEN list[k].len ELSE 0) + n
                  + (IF right THEN list[k + 1].len ELSE 0)
           g == [base EXCEPT !.len = len]
           ga == IF left THEN list[k].addr ELSE a
           gt == IF right THEN Top(list[k + 1]) ELSE a + n
<1>1. L \in Nat /\ list \in Seq(S)
  BY DEF Sound
<1>2. \A i \in 1..L : /\ list[i].addr \in Int /\ list[i].len \in Int
                      /\ list[i].addr % 8 = 0 /\ list[i].len % 8 = 0
                      /\ lo <= list[i].addr /\ list[i].len > 0
                      /\ Top(list[i]) = list[i].addr + list[i].len
                      /\ Top(list[i]) <= hi
                      /\ list[i] \in S
  BY <1>1 DEF Sound, Placed, Top
<1>t. \A i \in 1..L : list[i].addr \in Int /\ Top(list[i]) \in Int
  BY <1>2
<1>3. /\ a \in Int /\ n \in Int /\ a % 8 = 0 /\ n % 8 = 0 /\ n > 0
      /\ lo <= a /\ a + n <= hi /\ Top(new) = a + n
  BY DEF Placed, Top
<1> HIDE DEF a, n
<1>4. k \in 0..L /\ \A i \in 1..L : i <= k <=> list[i].addr < a
  BY <1>3, BeforePlace
<1>5. \A i \in 1..L : (i <= k => Top(list[i]) <= a) /\ (i > k => a + n <= list[i].addr)
  BY <1>3, OverlapsNone DEF a, n
<1>6. \A i, j \in 1..L : i < j => Top(list[i]) < list[j].addr
  BY DEF Sound
<1>7. Inserted(list, new) = Splice(list, p, g, q)
  BY DEF Inserted, Splice, a, n
<1> HIDE DEF k
<1>8. /\ left => k \in 1..L
      /\ right => k + 1 \in 1..L
      /\ p \in 0..L /\ q \in (p + 1)..(L + 1)
  BY <1>1, <1>4
<1> DEFINE xa == list[k].addr
           xl == list[k].len
           ya == list[k + 1].addr
           yl == list[k + 1].len
<1>9. /\ left => /\ xa \in Int /\ xl \in Int /\ xa % 8 = 0 /\ xl % 8 = 0
                 /\ lo <= xa /\ xl > 0 /\ xa + xl = a
      /\ right => /\ ya \in Int /\ yl \in Int /\ ya % 8 = 0 /\ yl % 8 = 0
                  /\ ya + yl <= hi /\ yl > 0 /\ a + n = ya
  <2>1. ASSUME left
        PROVE  /\ xa \in Int /\ xl \in Int /\ xa % 8 = 0 /\ xl % 8 = 0
               /\ lo <= xa /\ xl > 0 /\ xa + xl = a
    <3>1. k \in 1..L /\ Top(list[k]) = a
      BY <2>1, <1>8
    <3> QED
      BY <3>1, <1>2
  <2>2. ASSUME right
        PROVE  /\ ya \in Int /\ yl \in Int /\ ya % 8 = 0 /\ yl % 8 = 0
               /\ ya + yl <= hi /\ yl > 0 /\ a + n = ya
    <3>1. k + 1 \in 1..L /\ Top(new) = ya
      BY <2>2, <1>8
    <3>2. /\ ya \in Int /\ yl \in Int /\ ya % 8 = 0 /\ yl % 8 = 0
          /\ Top(list[k + 1]) = ya + yl /\ Top(list[k + 1]) <= hi /\ yl > 0
      BY <3>1, <1>2
    <3> QED
      BY <3>1, <3>2, <1>3
  <2> QED
    BY <2>1, <2>2
<1>10. /\ ga = IF left THEN xa ELSE a
       /\ gt = IF right THEN ya + yl ELSE a + n
       /\ len = (IF left THEN xl ELSE 0) + n + (IF right THEN yl ELSE 0)
  <2>1. right => Top(list[k + 1]) = ya + yl
    BY <1>2, <1>8
  <2> QED
    BY <2>1
<1>11. /\ ga \in Int /\ gt \in Int /\ len = gt - ga /\ len \in Int /\ Placed(ga, len, lo, hi)
       /\ ga <= a /\ a + n <= gt
       /\ \A u \in Int : ga <= 8 * u /\ 8 * u < gt <=>
             \/ a <= 8 * u /\ 8 * u < a + n
             \/ left /\ xa <= 8 * u /\ 8 * u < xa + xl
             \/ right /\ ya <= 8 * u /\ 8 * u < ya + yl
  <2> HIDE DEF left, right, xa, xl, ya, yl, ga, gt, len
  <2>1. CASE left /\ right
    BY <2>1, <1>3, <1>9, <1>10 DEF Placed
  <2>2. CASE left /\ ~right
    <3>1. /\ xa \in Int /\ xl \in Int /\ xa % 8 = 0 /\ xl % 8 = 0
          /\ lo <= xa /\ xl > 0 /\ xa + xl = a
          /\ ga = xa /\ gt = a + n /\ len = xl + n
      BY <2>2, <1>3, <1>9, <1>10
    <3>2. len % 8 = 0
      BY <3>1, <1>3
    <3>3. /\ ga \in Int /\ gt \in Int /\ len = gt - ga /\ len \in Int
          /\ Placed(ga, len, lo, hi) /\ ga <= a /\ a + n <= gt
      BY <3>1, <3>2, <1>3 DEF Placed
    <3>4. \A u \in Int : ga <= 8 * u /\ 8 * u < gt <=>
             \/ a <= 8 * u /\ 8 * u < a + n
             \/ xa <= 8 * u /\ 8 * u < xa + xl
      BY <3>1, <1>3
    <3> QED
      BY <2>2, <3>3, <3>4
  <2>3. CASE ~left /\ right
    BY <2>3, <1>3, <1>9, <1>10 DEF Placed
  <2>4. CASE ~left /\ ~right
    BY <2>4, <1>3, <1>9, <1>10 DEF Placed
  <2> QED
    BY <2>1, <2>2, <2>3, <2>4
<1>12. base \in S /\ base.addr = ga
  BY <1>2, <1>8 DEF a
<1> HIDE DEF len
<1>13. g \in S /\ g.addr = ga /\ g.len = len
  <2> HIDE DEF base, ga
  <2> QED
    BY <1>11, <1>12, LenChanged
<1> HIDE DEF g
<1>14. Top(g) = gt /\ Placed(g.addr, g.len, lo, hi)
  <2> HIDE DEF ga, gt
  <2> QED
    BY <1>11, <1>13 DEF Top
<1>15. \A i \in 1..L : i <= p => Top(list[i]) < ga
  <2> SUFFICES ASSUME NEW i \in 1..L, i <= p PROVE Top(list[i]) < ga
    OBVIOUS
  <2>1. CASE left
    <3>1. i < k /\ k \in 1..L /\ ga = list[k].addr
      BY <2>1, <1>1, <1>4, <1>8
    <3> QED
      BY <3>1, <1>6
  <2>2. CASE ~left
    <3>1. i <= k /\ ga = a /\ Top(list[i]) <= a
      BY <2>2, <1>5
    <3>2. CASE i = k
      <4>1. Top(list[i]) # a
        BY <2>2, <3>2, <1>4
      <4> DEFINE x == Top(list[i])
      <4>2. x \in Int /\ x # a /\ x <= a
        BY <3>1, <4>1, <1>t
      <4> HIDE DEF x
      <4>3. x < a
        BY <4>2, <1>3
      <4> QED
        BY <4>3, <3>1 DEF x
    <3>3. CASE i < k
      <4>1. k \in 1..L
        BY <3>3, <1>1, <1>4
      <4>2. Top(list[i]) < list[k].addr /\ list[k].addr < a
        BY <3>3, <4>1, <1>4, <1>6
      <4>3. Top(list[i]) \in Int /\ list[k].addr \in Int
        BY <4>1, <1>t
      <4> DEFINE x == Top(list[i])
                 y == list[k].addr
      <4>4. x \in Int /\ y \in Int /\ x < y /\ y < a
        BY <4>2, <4>3
      <4> HIDE DEF x, y
      <4>5. x < a
        BY <4>4, <1>3
      <4> QED
        BY <4>5, <3>1 DEF x
    <3> QED
      BY <3>1, <3>2, <3>3, <1>4
  <2> QED
    BY <2>1, <2>2
<1>16. \A i \in 1..L : i >= q => gt < list[i].addr
  <2> SUFFICES ASSUME NEW i \in 1..L, i >= q PROVE gt < list[i].addr
    OBVIOUS
  <2>1. CASE right
    <3>1. k + 1 < i /\ k + 1 \in 1..L /\ gt = Top(list[k + 1])
      BY <2>1, <1>1, <1>4, <1>8
    <3> QED
      BY <3>1, <1>6
  <2>2. CASE ~right
    <3>1. i >= k + 1 /\ gt = a + n /\ a + n <= list[i].addr
      BY <2>2, <1>4, <1>5
    <3>2. CASE i = k + 1
      <4>1. list[i].addr # a + n
        BY <2>2, <3>2, <1>3, <1>4
      <4> QED
        BY <3>1, <4>1, <1>2, <1>3
    <3>3. CASE i > k + 1
      <4>1. k + 1 \in 1..L
        BY <3>3, <1>1, <1>4
      <4>2. Top(list[k + 1]) < list[i].addr /\ a + n <= list[k + 1].addr
        BY <3>3, <4>1, <1>4, <1>5, <1>6
      <4> DEFINE x == list[i].addr
                 y == list[k + 1].addr
                 z == list[k + 1].len
                 w == Top(list[k + 1])
      <4>3. x \in Int /\ y \in Int /\ z \in Int /\ w = y + z /\ z > 0 /\ w < x /\ a + n <= y
        BY <4>1, <4>2, <1>2
      <4> HIDE DEF x, y, z, w
      <4>4. a + n < x
        BY <4>3, <1>3
      <4> QED
        BY <4>4, <3>1 DEF x
    <3> QED
      BY <3>1, <3>2, <3>3, <1>4
  <2> QED
    BY <2>1, <2>2
<1> DEFINE t == Splice(list, p, g, q)
<1>17. /\ Sound(S, t, lo, hi)
       /\ \A u : u \in FreeUnits(t) <=>
              /\ u \in Int
              /\ \/ g.addr <= 8 * u /\ 8 * u < Top(g)
                 \/ \E i \in 1..L : /\ i <= p \/ i >= q
                                    /\ list[i].addr <= 8 * u /\ 8 * u < Top(list[i])
  <2> HIDE DEF p, q, ga, gt
  <2>1. /\ \A i \in 1..L : i <= p => Top(list[i]) < g.addr
        /\ \A i \in 1..L : i >= q => Top(g) < list[i].addr
    BY <1>13, <1>14, <1>15, <1>16
  <2> QED
    BY <1>8, <1>13, <1>14, <2>1, SpliceSound, SMTT(60)
<1> HIDE DEF t
<1>18. \A u : u \in UnitsOf(a, n) <=> u \in Int /\ a <= 8 * u /\ 8 * u < a + n
  BY <1>3, UnitsIn
<1>19. ASSUME NEW u
       PROVE  u \in FreeUnits(t) <=> u \in FreeUnits(list) \/ u \in UnitsOf(a, n)
  <2>1. u \in FreeUnits(list) <=>
           /\ u \in Int
           /\ \E i \in 1..L : list[i].addr <= 8 * u /\ 8 * u < Top(list[i])
    BY FreeIn
  <2>2. u \in FreeUnits(t) <=>
              /\ u \in Int
              /\ \/ a <= 8 * u /\ 8 * u < a + n
                 \/ left /\ xa <= 8 * u /\ 8 * u < xa + xl
                 \/ right /\ ya <= 8 * u /\ 8 * u < ya + yl
                 \/ \E i \in 1..L : /\ i <= p \/ i >= q
                                    /\ list[i].addr <= 8 * u /\ 8 * u < Top(list[i])
    <3> HIDE DEF left, right, xa, xl, ya, yl, ga, gt, p, q
    <3> QED
      BY <1>11, <1>13, <1>14, <1>17
  <2>3. ASSUME NEW i \in 1..L
        PROVE  i <= p \/ i >= q \/ (left /\ i = k) \/ (right /\ i = k + 1)
    BY <1>1, <1>4
  <2>4. /\ left => k \in 1..L /\ Top(list[k]) = xa + xl
        /\ right => k + 1 \in 1..L /\ Top(list[k + 1]) = ya + yl
    BY <1>2, <1>8
  <2>5. ASSUME u \in Int, NEW i \in 1..L, list[i].addr <= 8 * u, 8 * u < Top(list[i])
        PROVE  u \in FreeUnits(t)
    <3>1. CASE i <= p \/ i >= q
      BY <2>2, <2>5, <3>1
    <3>2. CASE left /\ i = k
      BY <2>2, <2>4, <2>5, <3>2
    <3>3. CASE right /\ i = k + 1
      BY <2>2, <2>4, <2>5, <3>3
    <3> QED
      BY <2>3, <3>1, <3>2, <3>3
  <2>6. ASSUME u \in FreeUnits(t) PROVE u \in FreeUnits(list) \/ u \in UnitsOf(a, n)
    <3>1. CASE a <= 8 * u /\ 8 * u < a + n
      BY <2>2, <2>6, <3>1, <1>18
    <3>2. CASE left /\ xa <= 8 * u /\ 8 * u < xa + xl
      BY <2>1, <2>2, <2>4, <2>6, <3>2
    <3>3. CASE right /\ ya <= 8 * u /\ 8 * u < ya + yl
      BY <2>1, <2>2, <2>4, <2>6, <3>3
    <3>4. CASE \E i \in 1..L : list[i].addr <= 8 * u /\ 8 * u < Top(list[i])
      BY <2>1, <2>2, <2>6, <3>4
    <3> QED
      BY <2>2, <2>6, <3>1, <3>2, <3>3, <3>4
  <2> HIDE DEF p, q, left, right
  <2>7. ASSUME u \in UnitsOf(a, n) PROVE u \in FreeUnits(t)
    BY <2>2, <2>7, <1>18
  <2> QED
    BY <2>1, <2>5, <2>6, <2>7
<1>20. UnitsOf(a, n) \cap FreeUnits(list) = {}
  BY <1>3, OverlapsShares DEF a, n
<1> QED
  BY <1>7, <1>17, <1>19, <1>20 DEF Returned, a, n, t

\* freemem puts the block in its place, unless it is outside the heap or shares a
\* unit with a free block.
LEMMA freememReturns ==
  ASSUME NEW m0, Sound(KNodes, m0.list, minheap, maxheap),
         NEW a \in Int, a % 8 = 0, NEW n \in Nat, n + 7 < 2^Width
  PROVE  LET m == roundmb(n)
             new == freemem(m0, a, n).mem
             out == n = 0 \/ a < minheap \/ a > maxheap
                    \/ UnitsOf(a, m) \cap FreeUnits(m0.list) # {}
         IN  /\ out => new = m0
             /\ ~out /\ a + m <= maxheap =>
                  /\ Placed(a, m, minheap, maxheap)
                  /\ Returned(KNodes, m0.list, new.list, minheap, maxheap, a, m)
                  /\ new.mlength = m0.mlength + m
<1> DEFINE m == roundmb(n)
           new == freemem(m0, a, n).mem
           shares == UnitsOf(a, m) \cap FreeUnits(m0.list) # {}
           out == n = 0 \/ a < minheap \/ a > maxheap \/ shares
           in == ~(n = 0 \/ a < minheap \/ a > maxheap \/ Overlaps(m0.list, a, m))
<1>1. minheap \in Int /\ maxheap \in Int
  BY HeapAssumption
<1>2. m \in Nat /\ m % 8 = 0 /\ (n > 0 => m > 0)
  BY Rounding
<1>3. n > 0 => (Overlaps(m0.list, a, m) <=> shares)
  <2> HIDE DEF m
  <2>1. m > 0 => (Overlaps(m0.list, a, m) <=> UnitsOf(a, m) \cap FreeUnits(m0.list) # {})
    BY <1>1, <1>2, OverlapsShares
  <2> QED
    BY <1>2, <2>1
<1>4. new = IF in THEN [list |-> Inserted(m0.list, Node(a, m)), mlength |-> m0.mlength + m]
            ELSE m0
  BY DEF freemem, Refused, Result
<1> HIDE DEF new, m, shares
<1>5. in <=> ~out
  BY <1>3
<1>6. ASSUME ~out, a + m <= maxheap
      PROVE  /\ Placed(a, m, minheap, maxheap)
             /\ Returned(KNodes, m0.list, new.list, minheap, maxheap, a, m)
             /\ new.mlength = m0.mlength + m
  <2>1. Placed(a, m, minheap, maxheap)
    BY <1>1, <1>2, <1>6 DEF Placed
  <2> DEFINE x == Node(a, m)
  <2>2. x \in KNodes /\ x.addr = a /\ x.len = m
    BY <1>2 DEF Node, KNodes
  <2> HIDE DEF x
  <2>3. ~Overlaps(m0.list, x.addr, x.len)
    BY <1>5, <1>6, <2>2
  <2>4. Returned(KNodes, m0.list, Inserted(m0.list, x), minheap, maxheap, x.addr, x.len)
    BY <1>1, <2>1, <2>2, <2>3, InsertedReturns
  <2>5. new.list = Inserted(m0.list, x) /\ new.mlength = m0.mlength + m
    BY <1>4, <1>5, <1>6 DEF x
  <2> QED
    BY <2>1, <2>2, <2>4, <2>5
<1> QED
  BY <1>4, <1>5, <1>6 DEF new, m, shares

----------------------------------------------------------------------------
\* What these steps are to an allocator.

\* Ends of aligned blocks, in units.
LEMMA Ends ==
  ASSUME NEW a \in Int, NEW n \in Int, a % 8 = 0, n % 8 = 0, n > 0
  PROVE  /\ a \div 8 \in Int /\ (a + n) \div 8 - 1 \in Int
         /\ a \div 8 <= (a + n) \div 8 - 1
         /\ a \div 8 \in UnitsOf(a, n) /\ (a + n) \div 8 - 1 \in UnitsOf(a, n)
<1>1. a \div 8 \in Int /\ (a + n) \div 8 \in Int /\ a \div 8 <= (a + n) \div 8 - 1
  OBVIOUS
<1> DEFINE x == a \div 8
           y == (a + n) \div 8
<1> HIDE DEF x, y
<1>2. x \in Int /\ y \in Int /\ x <= y - 1
  BY <1>1 DEF x, y
<1>3. x \in x..(y - 1) /\ y - 1 \in x..(y - 1)
  BY <1>2
<1> QED
  BY <1>1, <1>3 DEF UnitsOf, x, y

LEMMA GivenIsRun ==
  ASSUME NEW S, NEW list, NEW t, NEW lo, NEW hi, NEW a, NEW n,
         Given(S, list, t, lo, hi, a, n)
  PROVE  \E x \in FreeUnits(list), y \in FreeUnits(list) :
            x..y \subseteq FreeUnits(list) /\ FreeUnits(t) = FreeUnits(list) \ x..y
<1> DEFINE x == a \div 8
           y == (a + n) \div 8 - 1
<1>1. Placed(a, n, lo, hi) /\ UnitsOf(a, n) \subseteq FreeUnits(list)
      /\ FreeUnits(t) = FreeUnits(list) \ UnitsOf(a, n)
  BY DEF Given
<1>2. x \in UnitsOf(a, n) /\ y \in UnitsOf(a, n)
  BY <1>1, Ends DEF Placed
<1>3. UnitsOf(a, n) = x..y
  BY DEF UnitsOf
<1> HIDE DEF x, y
<1> QED
  BY <1>1, <1>2, <1>3

LEMMA ReturnedIsRun ==
  ASSUME NEW S, NEW list, NEW t, NEW lo \in Int, NEW hi \in Int, NEW a, NEW n,
         lo % 8 = 0, hi % 8 = 0,
         Placed(a, n, lo, hi), Returned(S, list, t, lo, hi, a, n)
  PROVE  LET units == (lo \div 8)..(hi \div 8 - 1) IN
         \E x \in units \ FreeUnits(list), y \in units \ FreeUnits(list) :
            /\ x <= y /\ x..y \cap FreeUnits(list) = {}
            /\ FreeUnits(t) = FreeUnits(list) \cup x..y
<1> DEFINE x == a \div 8
           y == (a + n) \div 8 - 1
           units == (lo \div 8)..(hi \div 8 - 1)
<1>1. UnitsOf(a, n) \cap FreeUnits(list) = {}
      /\ FreeUnits(t) = FreeUnits(list) \cup UnitsOf(a, n)
  BY DEF Returned
<1>2. x \in UnitsOf(a, n) /\ y \in UnitsOf(a, n) /\ x <= y
  BY Ends DEF Placed
<1>3. UnitsOf(a, n) = x..y
  BY DEF UnitsOf
<1>4. x \in units /\ y \in units
  <2>1. a \in Int /\ n \in Int /\ lo <= a /\ a + n <= hi /\ n > 0 /\ a % 8 = 0 /\ n % 8 = 0
    BY DEF Placed
  <2>2. lo \div 8 \in Int /\ hi \div 8 \in Int /\ x \in Int /\ y \in Int
    BY <2>1
  <2>3. lo \div 8 <= x /\ y <= hi \div 8 - 1 /\ x <= y
    BY <2>1
  <2> HIDE DEF x, y
  <2>4. x <= hi \div 8 - 1 /\ lo \div 8 <= y
    BY <2>2, <2>3
  <2> QED
    BY <2>2, <2>3, <2>4
<1> HIDE DEF x, y, units
<1>5. x \notin FreeUnits(list) /\ y \notin FreeUnits(list)
  BY <1>1, <1>2
<1>6. /\ x \in units \ FreeUnits(list) /\ y \in units \ FreeUnits(list) /\ x <= y
      /\ x..y \cap FreeUnits(list) = {} /\ FreeUnits(t) = FreeUnits(list) \cup x..y
  BY <1>1, <1>2, <1>3, <1>4, <1>5
<1>7. \E v \in units \ FreeUnits(list), w \in units \ FreeUnits(list) :
            /\ v <= w /\ v..w \cap FreeUnits(list) = {}
            /\ FreeUnits(t) = FreeUnits(list) \cup v..w
  BY <1>6
<1> QED
  BY <1>7 DEF units

LEMMA UnservedFitsNot ==
  ASSUME NEW S, NEW list, NEW t, NEW lo \in Int, NEW hi \in Int, Sound(S, list, lo, hi),
         NEW n \in Nat, n + 7 < 2^Width, Unserved(list, t, n), Room(n) # 0
  PROVE  \A a \in FreeUnits(list) : ~(a..(a + Room(n) - 1) \subseteq FreeUnits(list))
<1> DEFINE m == roundmb(n)
<1>1. m \in Nat /\ m % 8 = 0
  BY Rounding
<1>2. m > 0 /\ Room(n) = m \div 8
  <2>1. Room(n) = m \div 8
    BY DEF Room
  <2> HIDE DEF m
  <2> QED
    BY <1>1, <2>1
<1>3. n # 0
  <2>1. n = 0 => m = 0
    BY Rounding
  <2> QED
    BY <1>2, <2>1
<1>4. LongEnough(list, m) = {}
  BY <1>3 DEF Unserved
<1> HIDE DEF m
<1> QED
  BY <1>1, <1>2, <1>4, NoneFits

\* The heap hands out what was free.
LEMMA KernelGives ==
  ASSUME NEW a, NEW n, Served(KNodes, mem.list, mem'.list, minheap, maxheap, a, n),
         refused' = 0
  PROVE  Kernel!Next
<1>1. Kernel!Give
  BY GivenIsRun DEF Served, Kernel!Give
<1> QED
  BY <1>1 DEF Kernel!Next

LEMMA KernelRefuses ==
  ASSUME NEW n \in Nat, n + 7 < 2^Width, Sound(KNodes, mem.list, minheap, maxheap),
         Unserved(mem.list, mem'.list, n), refused' = Room(n)
  PROVE  Kernel!Next
<1>1. minheap \in Int /\ maxheap \in Int
  BY HeapAssumption
<1>2. FreeUnits(mem'.list) = FreeUnits(mem.list)
  BY DEF Unserved
<1>3. CASE Room(n) = 0
  BY <1>2, <1>3 DEF Kernel!Next, Kernel!Settle
<1>4. CASE Room(n) # 0
  <2>1. \A a \in FreeUnits(mem.list) : ~(a..(a + Room(n) - 1) \subseteq FreeUnits(mem.list))
    BY <1>1, <1>4, UnservedFitsNot
  <2>2. Kernel!Refuse
    BY <1>2, <1>4, <2>1 DEF Kernel!Refuse, Kernel!Fits, Kernel!Run
  <2> QED
    BY <2>2 DEF Kernel!Next
<1> QED
  BY <1>3, <1>4

LEMMA KernelTakesBack ==
  ASSUME NEW a, NEW n, Placed(a, n, minheap, maxheap),
         Returned(KNodes, mem.list, mem'.list, minheap, maxheap, a, n), refused' = 0
  PROVE  Kernel!Next
<1>1. minheap \in Int /\ maxheap \in Int /\ minheap % 8 = 0 /\ maxheap % 8 = 0
  BY HeapAssumption
<1>2. Kernel!TakeBack
  BY <1>1, ReturnedIsRun DEF Kernel!TakeBack, Kernel!Units
<1> QED
  BY <1>2 DEF Kernel!Next

LEMMA KernelSettles ==
  ASSUME FreeUnits(mem'.list) = FreeUnits(mem.list), refused' = 0
  PROVE  Kernel!Next
  BY DEF Kernel!Next, Kernel!Settle

\* The same of the virtual heap.
LEMMA VirtualGives ==
  ASSUME NEW a, NEW n, Served(VNodes, vheap.list, vheap'.list, vmin, vmax, a, n),
         vrefused' = 0
  PROVE  Virtual!Next
<1>1. Virtual!Give
  BY GivenIsRun DEF Served, Virtual!Give
<1> QED
  BY <1>1 DEF Virtual!Next

LEMMA VirtualRefuses ==
  ASSUME NEW n \in Nat, n + 7 < 2^Width, Sound(VNodes, vheap.list, vmin, vmax),
         Unserved(vheap.list, vheap'.list, n), vrefused' = Room(n)
  PROVE  Virtual!Next
<1>1. vmin \in Int /\ vmax \in Int
  BY HeapAssumption
<1>2. FreeUnits(vheap'.list) = FreeUnits(vheap.list)
  BY DEF Unserved
<1>3. CASE Room(n) = 0
  BY <1>2, <1>3 DEF Virtual!Next, Virtual!Settle
<1>4. CASE Room(n) # 0
  <2>1. \A a \in FreeUnits(vheap.list) : ~(a..(a + Room(n) - 1) \subseteq FreeUnits(vheap.list))
    BY <1>1, <1>4, UnservedFitsNot
  <2>2. Virtual!Refuse
    BY <1>2, <1>4, <2>1 DEF Virtual!Refuse, Virtual!Fits, Virtual!Run
  <2> QED
    BY <2>2 DEF Virtual!Next
<1> QED
  BY <1>3, <1>4

LEMMA VirtualTakesBack ==
  ASSUME NEW a, NEW n, Placed(a, n, vmin, vmax),
         Returned(VNodes, vheap.list, vheap'.list, vmin, vmax, a, n), vrefused' = 0
  PROVE  Virtual!Next
<1>1. vmin \in Int /\ vmax \in Int /\ vmin % 8 = 0 /\ vmax % 8 = 0
  BY HeapAssumption
<1>2. Virtual!TakeBack
  BY <1>1, ReturnedIsRun DEF Virtual!TakeBack, Virtual!Units
<1> QED
  BY <1>2 DEF Virtual!Next

LEMMA VirtualSettles ==
  ASSUME FreeUnits(vheap'.list) = FreeUnits(vheap.list), vrefused' = 0
  PROVE  Virtual!Next
  BY DEF Virtual!Next, Virtual!Settle

----------------------------------------------------------------------------
\* The heap as a whole.

\* The lists are sound, and what has been handed out lies in its heap.
AllocInv ==
    /\ Sound(KNodes, mem.list, minheap, maxheap)
    /\ Sound(VNodes, vheap.list, vmin, vmax)
    /\ \A b \in held : Placed(b.addr, roundmb(b.nbytes), minheap, maxheap)
    /\ \A b \in stacks : /\ b.addr \in Int /\ b.nbytes \in Requests
                         /\ Placed(b.addr + 4 - roundmb(b.nbytes), roundmb(b.nbytes),
                                   minheap, maxheap)
    /\ \A b \in vheld : Placed(b.addr, roundmb(b.nbytes), vmin, vmax)

\* What a step does to both heaps.
Allocating == /\ AllocInv' /\ Kernel!Next /\ Virtual!Next

\* A fresh list is one block.
LEMMA FreshList ==
  ASSUME NEW S, NEW x \in S, NEW lo \in Nat, NEW hi \in Nat, lo < hi, lo % 8 = 0, hi % 8 = 0,
         x.addr = lo, x.len = hi - lo
  PROVE  Sound(S, <<x>>, lo, hi) /\ FreeUnits(<<x>>) = (lo \div 8)..(hi \div 8 - 1)
<1> DEFINE s == <<x>>
<1>1. s \in Seq(S) /\ Len(s) = 1 /\ s[1] = x /\ DOMAIN s = {1}
  OBVIOUS
<1> HIDE DEF s
<1>2. Placed(x.addr, x.len, lo, hi) /\ lo + (hi - lo) = hi
  BY DEF Placed
<1>3. Sound(S, s, lo, hi)
  BY <1>1, <1>2 DEF Sound
<1>4. FreeUnits(s) = UnitsOf(x.addr, x.len)
  BY <1>1 DEF FreeUnits
<1>5. UnitsOf(x.addr, x.len) = (lo \div 8)..(hi \div 8 - 1)
  BY <1>2 DEF UnitsOf
<1> QED
  BY <1>3, <1>4, <1>5 DEF s

LEMMA FreshHeaps ==
  /\ Sound(KNodes, meminit.list, minheap, maxheap)
  /\ Sound(VNodes, NewVHeap.list, vmin, vmax)
  /\ FreeUnits(meminit.list) = (minheap \div 8)..(maxheap \div 8 - 1)
  /\ FreeUnits(NewVHeap.list) = (vmin \div 8)..(vmax \div 8 - 1)
<1>1. /\ minheap \in Nat /\ maxheap \in Nat /\ vmin \in Nat /\ vmax \in Nat
      /\ minheap < maxheap /\ vmin < vmax
      /\ minheap % 8 = 0 /\ maxheap % 8 = 0 /\ vmin % 8 = 0 /\ vmax % 8 = 0
  BY HeapAssumption
<1> DEFINE x == Node(minheap, maxheap - minheap)
           y == VNode(vmin, vmax - vmin, INTAB)
<1>2. x \in KNodes /\ x.addr = minheap /\ x.len = maxheap - minheap
  BY <1>1 DEF Node, KNodes
<1>3. y \in VNodes /\ y.addr = vmin /\ y.len = vmax - vmin
  BY <1>1 DEF VNode, VNodes, INTAB
<1>4. meminit.list = <<x>> /\ NewVHeap.list = <<y>>
  BY DEF meminit, NewVHeap
<1> HIDE DEF x, y
<1>5. /\ Sound(KNodes, <<x>>, minheap, maxheap)
      /\ FreeUnits(<<x>>) = (minheap \div 8)..(maxheap \div 8 - 1)
  BY <1>1, <1>2, FreshList
<1>6. /\ Sound(VNodes, <<y>>, vmin, vmax)
      /\ FreeUnits(<<y>>) = (vmin \div 8)..(vmax \div 8 - 1)
  BY <1>1, <1>3, FreshList
<1> QED
  BY <1>4, <1>5, <1>6

LEMMA AllocInit ==
  ASSUME Init
  PROVE  AllocInv /\ Kernel!Init /\ Virtual!Init
<1>1. /\ mem = meminit /\ vheap = NewVHeap /\ held = {} /\ stacks = {} /\ vheld = {}
      /\ refused = 0 /\ vrefused = 0
  BY DEF Init
<1> QED
  BY <1>1, FreshHeaps
  DEF AllocInv, Kernel!Init, Virtual!Init, Kernel!Units, Virtual!Units

----------------------------------------------------------------------------
\* One lemma for each operation.

\* The requests are numbers whose rounding does not overflow.
LEMMA RequestsFit ==
  /\ \A n \in Requests \cup VRequests : n \in Nat /\ n + 7 < 2^Width
  /\ VMEMBLK \in Nat /\ VMEMBLK + 7 < 2^Width
  /\ minheap \in Nat /\ maxheap \in Nat /\ vmin \in Nat /\ vmax \in Nat
  BY MemoryAssumption, HeapAssumption DEF VMEMBLK

\* The steps that leave a heap and its holders alone.
LEMMA KernelAlone ==
  ASSUME AllocInv, mem' = mem, held' = held, stacks' = stacks, refused' = 0
  PROVE  /\ Kernel!Next
         /\ Sound(KNodes, mem'.list, minheap, maxheap)
         /\ \A b \in held' : Placed(b.addr, roundmb(b.nbytes), minheap, maxheap)
         /\ \A b \in stacks' : /\ b.addr \in Int /\ b.nbytes \in Requests
                               /\ Placed(b.addr + 4 - roundmb(b.nbytes), roundmb(b.nbytes),
                                         minheap, maxheap)
  BY KernelSettles DEF AllocInv

LEMMA VirtualAlone ==
  ASSUME AllocInv, vheap' = vheap, vheld' = vheld, vrefused' = 0
  PROVE  /\ Virtual!Next
         /\ Sound(VNodes, vheap'.list, vmin, vmax)
         /\ \A b \in vheld' : Placed(b.addr, roundmb(b.nbytes), vmin, vmax)
  BY VirtualSettles DEF AllocInv

LEMMA GetMemAllocates ==
  ASSUME AllocInv, NEW n \in Requests, GetMem(n)
  PROVE  Allocating
<1> DEFINE got == getmem(mem, n)
<1>1. /\ mem' = got.mem
      /\ held' = IF got.addr = SYSERR THEN held ELSE held \cup {Block(got.addr, n)}
      /\ refused' = IF got.addr = SYSERR THEN Room(n) ELSE 0
      /\ vrefused' = 0 /\ stacks' = stacks /\ vheap' = vheap /\ vheld' = vheld
  BY DEF GetMem
<1>2. n \in Nat /\ n + 7 < 2^Width /\ minheap \in Nat /\ maxheap \in Int
  BY RequestsFit
<1>3. Sound(KNodes, mem.list, minheap, maxheap)
  BY DEF AllocInv
<1>4. IF got.addr = SYSERR THEN Unserved(mem.list, got.mem.list, n)
      ELSE Served(KNodes, mem.list, got.mem.list, minheap, maxheap, got.addr, n)
  BY <1>2, <1>3, getmemServes
<1> HIDE DEF got
<1>5. CASE got.addr = SYSERR
  <2>1. Unserved(mem.list, mem'.list, n) /\ refused' = Room(n) /\ held' = held
    BY <1>1, <1>4, <1>5
  <2>2. Kernel!Next
    BY <1>2, <1>3, <2>1, KernelRefuses
  <2>3. Sound(KNodes, mem'.list, minheap, maxheap)
    BY <1>3, <2>1 DEF Unserved
  <2> QED
    BY <1>1, <2>1, <2>2, <2>3, VirtualAlone DEF Allocating, AllocInv
<1>6. CASE got.addr # SYSERR
  <2>1. Served(KNodes, mem.list, mem'.list, minheap, maxheap, got.addr, n) /\ refused' = 0
    BY <1>1, <1>4, <1>6
  <2>2. Kernel!Next
    BY <2>1, KernelGives
  <2>3. Sound(KNodes, mem'.list, minheap, maxheap)
        /\ Placed(got.addr, roundmb(n), minheap, maxheap)
    BY <2>1 DEF Served, Given
  <2>4. \A b \in held' : Placed(b.addr, roundmb(b.nbytes), minheap, maxheap)
    BY <1>1, <1>6, <2>3 DEF AllocInv, Block
  <2> QED
    BY <1>1, <2>2, <2>3, <2>4, VirtualAlone DEF Allocating, AllocInv
<1> QED
  BY <1>5, <1>6

LEMMA GetStkAllocates ==
  ASSUME AllocInv, NEW n \in Requests, GetStk(n)
  PROVE  Allocating
<1> DEFINE got == getstk(mem, n)
<1>1. /\ mem' = got.mem
      /\ stacks' = IF got.addr = SYSERR THEN stacks ELSE stacks \cup {Block(got.addr, n)}
      /\ refused' = IF got.addr = SYSERR THEN Room(n) ELSE 0
      /\ vrefused' = 0 /\ held' = held /\ vheap' = vheap /\ vheld' = vheld
  BY DEF GetStk
<1>2. n \in Nat /\ n + 7 < 2^Width /\ minheap \in Nat /\ maxheap \in Int
  BY RequestsFit
<1>3. Sound(KNodes, mem.list, minheap, maxheap)
  BY DEF AllocInv
<1>4. IF got.addr = SYSERR THEN Unserved(mem.list, got.mem.list, n)
      ELSE /\ got.addr \in Int
           /\ Served(KNodes, mem.list, got.mem.list, minheap, maxheap,
                     got.addr + 4 - roundmb(n), n)
  BY <1>2, <1>3, getstkServes
<1> HIDE DEF got
<1>5. CASE got.addr = SYSERR
  <2>1. Unserved(mem.list, mem'.list, n) /\ refused' = Room(n) /\ stacks' = stacks
    BY <1>1, <1>4, <1>5
  <2>2. Kernel!Next
    BY <1>2, <1>3, <2>1, KernelRefuses
  <2>3. Sound(KNodes, mem'.list, minheap, maxheap)
    BY <1>3, <2>1 DEF Unserved
  <2> QED
    BY <1>1, <2>1, <2>2, <2>3, VirtualAlone DEF Allocating, AllocInv
<1>6. CASE got.addr # SYSERR
  <2> DEFINE a == got.addr + 4 - roundmb(n)
  <2>1. Served(KNodes, mem.list, mem'.list, minheap, maxheap, a, n) /\ refused' = 0
        /\ got.addr \in Int
    BY <1>1, <1>4, <1>6
  <2>2. Kernel!Next
    BY <2>1, KernelGives
  <2>3. Sound(KNodes, mem'.list, minheap, maxheap)
        /\ Placed(a, roundmb(n), minheap, maxheap)
    BY <2>1 DEF Served, Given
  <2>4. \A b \in stacks' : /\ b.addr \in Int /\ b.nbytes \in Requests
                           /\ Placed(b.addr + 4 - roundmb(b.nbytes), roundmb(b.nbytes),
                                     minheap, maxheap)
    <3> SUFFICES ASSUME NEW b \in stacks'
                 PROVE  /\ b.addr \in Int /\ b.nbytes \in Requests
                        /\ Placed(b.addr + 4 - roundmb(b.nbytes), roundmb(b.nbytes),
                                  minheap, maxheap)
      OBVIOUS
    <3>1. CASE b \in stacks
      BY <3>1 DEF AllocInv
    <3>2. CASE b = Block(got.addr, n)
      <4>1. b.addr = got.addr /\ b.nbytes = n
        BY <3>2 DEF Block
      <4> QED
        BY <4>1, <2>1, <2>3
    <3> QED
      BY <3>1, <3>2, <1>1, <1>6
  <2> QED
    BY <1>1, <2>2, <2>3, <2>4, VirtualAlone DEF Allocating, AllocInv
<1> QED
  BY <1>5, <1>6

\* A block that may be freed and is not free lies in the heap.
LEMMA FreedInside ==
  ASSUME NEW S, NEW list, NEW lo \in Nat, NEW hi \in Nat, lo % 8 = 0,
         NEW a \in Int, a % 8 = 0, NEW m \in Nat, m % 8 = 0, m > 0,
         UnitsOf(a, m) \subseteq FreeUnits(list) \cup UnitsOf(0, lo),
         UnitsOf(a, m) \cap FreeUnits(list) = {}
  PROVE  a < lo
<1>1. a \div 8 \in UnitsOf(a, m)
  BY Ends
<1>2. a \div 8 \in UnitsOf(0, lo)
  BY <1>1
<1>3. 8 * (a \div 8) < 0 + lo /\ 8 * (a \div 8) = a
  <2> DEFINE u == a \div 8
  <2>2. 8 * u = a
    OBVIOUS
  <2> HIDE DEF u
  <2>3. u \in UnitsOf(0, lo)
    BY <1>2 DEF u
  <2>4. 8 * u < 0 + lo
    BY <2>3 DEF UnitsOf
  <2> QED
    BY <2>2, <2>4 DEF u
<1> QED
  BY <1>3

LEMMA FreeMemAllocates ==
  ASSUME AllocInv, NEW a \in Addrs(minheap, maxheap), NEW n \in Requests,
         FreeMem(Block(a, n))
  PROVE  Allocating
<1> DEFINE b == Block(a, n)
           m == roundmb(n)
           new == freemem(mem, a, n).mem
           out == n = 0 \/ a < minheap \/ a > maxheap
                    \/ UnitsOf(a, m) \cap FreeUnits(mem.list) # {}
<1>1. /\ mem' = new /\ held' = held \ {b} /\ refused' = 0
      /\ vrefused' = 0 /\ stacks' = stacks /\ vheap' = vheap /\ vheld' = vheld
      /\ Freeable(b)
  BY DEF FreeMem, Quiet, Block
<1>2. n \in Nat /\ n + 7 < 2^Width /\ minheap \in Nat /\ maxheap \in Nat
  BY RequestsFit
<1>3. a \in Int /\ a % 8 = 0
  <2>1. PICK u \in UnitsOf(minheap - 8, maxheap - minheap + 8) : a = 8 * u
    BY DEF Addrs
  <2>2. u \in Int
    BY <1>2, <2>1 DEF UnitsOf
  <2> QED
    BY <2>1, <2>2
<1>4. Sound(KNodes, mem.list, minheap, maxheap)
  BY DEF AllocInv
<1>5. /\ out => new = mem
      /\ ~out /\ a + m <= maxheap =>
           /\ Placed(a, m, minheap, maxheap)
           /\ Returned(KNodes, mem.list, new.list, minheap, maxheap, a, m)
  BY <1>2, <1>3, <1>4, freememReturns
<1>6. \A c \in held' : Placed(c.addr, roundmb(c.nbytes), minheap, maxheap)
  BY <1>1 DEF AllocInv
<1>7. CASE out
  <2>1. Kernel!Next
    BY <1>1, <1>5, <1>7, KernelSettles
  <2>2. mem' = mem
    BY <1>1, <1>5, <1>7
  <2> HIDE DEF new, out
  <2> QED
    BY <1>1, <1>4, <1>6, <2>1, <2>2, VirtualAlone DEF Allocating, AllocInv
<1>8. CASE ~out
  <2>1. m \in Nat /\ m % 8 = 0 /\ m > 0
    BY <1>2, <1>8, Rounding
  <2>2. a + m <= maxheap
    <3>1. CASE b \in held
      <4>1. Placed(b.addr, roundmb(b.nbytes), minheap, maxheap)
        BY <3>1 DEF AllocInv
      <4>2. Placed(a, m, minheap, maxheap)
        BY <4>1 DEF Block
      <4> HIDE DEF m
      <4> QED
        BY <4>2 DEF Placed
    <3>2. CASE UnitsOf(b.addr, roundmb(b.nbytes)) \subseteq
                 FreeUnits(mem.list) \cup UnitsOf(0, minheap)
      <4>1. UnitsOf(a, m) \subseteq FreeUnits(mem.list) \cup UnitsOf(0, minheap)
        BY <3>2 DEF Block
      <4>2. minheap % 8 = 0
        BY HeapAssumption
      <4>3. UnitsOf(a, m) \cap FreeUnits(mem.list) = {} /\ ~(a < minheap)
        BY <1>8
      <4> HIDE DEF m
      <4>4. a < minheap
        BY <1>2, <1>3, <2>1, <4>1, <4>2, <4>3, FreedInside
      <4> QED
        BY <4>3, <4>4
    <3> QED
      BY <1>1, <3>1, <3>2 DEF Freeable
  <2>3. Placed(a, m, minheap, maxheap)
        /\ Returned(KNodes, mem.list, mem'.list, minheap, maxheap, a, m)
    BY <1>1, <1>5, <1>8, <2>2
  <2>4. Kernel!Next
    BY <1>1, <2>3, KernelTakesBack
  <2>5. Sound(KNodes, mem'.list, minheap, maxheap)
    BY <2>3 DEF Returned
  <2> HIDE DEF new, out
  <2> QED
    BY <1>1, <1>6, <2>4, <2>5, VirtualAlone DEF Allocating, AllocInv
<1> QED
  BY <1>7, <1>8

LEMMA FreeStkAllocates ==
  ASSUME AllocInv, NEW b \in stacks, FreeStk(b)
  PROVE  Allocating
<1> DEFINE r == roundmb(b.nbytes)
           a == b.addr - r + 4
           m == roundmb(r)
           new == freemem(mem, a, r).mem
           out == r = 0 \/ a < minheap \/ a > maxheap
                    \/ UnitsOf(a, m) \cap FreeUnits(mem.list) # {}
<1>1. /\ mem' = new /\ stacks' = stacks \ {b} /\ refused' = 0
      /\ vrefused' = 0 /\ held' = held /\ vheap' = vheap /\ vheld' = vheld
  BY DEF FreeStk, Quiet, freestk
<1>2. /\ minheap \in Nat /\ maxheap \in Nat /\ minheap > 0 /\ minheap % 8 = 0
      /\ maxheap \in Int /\ maxheap < 2^Width /\ 2^Width \in Int
  BY HeapAssumption
<1>3. /\ b.addr \in Int /\ b.nbytes \in Requests
      /\ Placed(b.addr + 4 - r, r, minheap, maxheap)
  BY DEF AllocInv
<1>4. b.nbytes \in Nat /\ b.nbytes + 7 < 2^Width
  BY <1>3, RequestsFit
<1>5. r \in Nat /\ r % 8 = 0
  BY <1>4, Rounding
<1> DEFINE x == b.addr
<1>6. /\ Placed(a, r, minheap, maxheap) /\ r > 0 /\ r + 7 < 2^Width
      /\ a \in Int /\ a % 8 = 0
  <2>1. x \in Int /\ Placed(x + 4 - r, r, minheap, maxheap) /\ a = x - r + 4
    BY <1>3
  <2> HIDE DEF x, r, a
  <2>2. a = x + 4 - r
    BY <2>1, <1>5
  <2>3. Placed(a, r, minheap, maxheap)
    BY <2>1, <2>2
  <2>4. a \in Int /\ r > 0 /\ a + r <= maxheap /\ minheap <= a /\ a % 8 = 0
    BY <2>3 DEF Placed
  <2>5. r + 7 < 2^Width
    <3> DEFINE w == 2^Width
    <3>1. w \in Int /\ maxheap < w
      BY <1>2
    <3> HIDE DEF w
    <3>2. r + 8 <= maxheap
      BY <2>4, <1>2, <1>5
    <3>3. r + 7 < w
      BY <3>1, <3>2, <1>2, <1>5
    <3> QED
      BY <3>3 DEF w
  <2> QED
    BY <2>3, <2>4, <2>5
<1>7. m = r
  <2> HIDE DEF r
  <2> QED
    BY <1>5, <1>6, RoundAgain
<1>8. Sound(KNodes, mem.list, minheap, maxheap)
  BY DEF AllocInv
<1>9. /\ out => new = mem
      /\ ~out /\ a + m <= maxheap =>
           /\ Placed(a, m, minheap, maxheap)
           /\ Returned(KNodes, mem.list, new.list, minheap, maxheap, a, m)
  <2> HIDE DEF r, a
  <2> QED
    BY <1>5, <1>6, <1>8, freememReturns
<1>10. \A c \in stacks' : /\ c.addr \in Int /\ c.nbytes \in Requests
                         /\ Placed(c.addr + 4 - roundmb(c.nbytes), roundmb(c.nbytes),
                                   minheap, maxheap)
  BY <1>1 DEF AllocInv
<1>11. CASE out
  <2>1. Kernel!Next
    BY <1>1, <1>9, <1>11, KernelSettles
  <2>2. mem' = mem
    BY <1>1, <1>9, <1>11
  <2> HIDE DEF new, out
  <2> QED
    BY <1>1, <1>8, <1>10, <2>1, <2>2, VirtualAlone DEF Allocating, AllocInv
<1>12. CASE ~out
  <2>1. a + m <= maxheap
    <3> HIDE DEF a, m, r
    <3> QED
      BY <1>6, <1>7 DEF Placed
  <2>2. Placed(a, m, minheap, maxheap)
        /\ Returned(KNodes, mem.list, mem'.list, minheap, maxheap, a, m)
    BY <1>1, <1>9, <1>12, <2>1
  <2>3. Kernel!Next
    BY <1>1, <2>2, KernelTakesBack
  <2>4. Sound(KNodes, mem'.list, minheap, maxheap)
    BY <2>2 DEF Returned
  <2> HIDE DEF new, out
  <2> QED
    BY <1>1, <1>10, <2>3, <2>4, VirtualAlone DEF Allocating, AllocInv
<1> QED
  BY <1>11, <1>12

LEMMA VGetMemAllocates ==
  ASSUME AllocInv, NEW n \in VRequests, VGetMem(n)
  PROVE  Allocating
<1> DEFINE got == vgetmem(vheap, n)
<1>1. /\ vheap' = got.vm
      /\ vheld' = IF got.addr = SYSERR THEN vheld ELSE vheld \cup {Block(got.addr, n)}
      /\ vrefused' = IF got.addr = SYSERR THEN Room(n) ELSE 0
      /\ refused' = 0 /\ stacks' = stacks /\ mem' = mem /\ held' = held
  BY DEF VGetMem
<1>2. n \in Nat /\ n + 7 < 2^Width /\ vmin \in Nat /\ vmax \in Int
  BY RequestsFit
<1>3. Sound(VNodes, vheap.list, vmin, vmax)
  BY DEF AllocInv
<1>4. IF got.addr = SYSERR THEN Unserved(vheap.list, got.vm.list, n)
      ELSE Served(VNodes, vheap.list, got.vm.list, vmin, vmax, got.addr, n)
  BY <1>2, <1>3, vgetmemServes
<1> HIDE DEF got
<1>5. CASE got.addr = SYSERR
  <2>1. Unserved(vheap.list, vheap'.list, n) /\ vrefused' = Room(n) /\ vheld' = vheld
    BY <1>1, <1>4, <1>5
  <2>2. Virtual!Next
    BY <1>2, <1>3, <2>1, VirtualRefuses
  <2>3. Sound(VNodes, vheap'.list, vmin, vmax)
    BY <1>3, <2>1 DEF Unserved
  <2> QED
    BY <1>1, <2>1, <2>2, <2>3, KernelAlone DEF Allocating, AllocInv
<1>6. CASE got.addr # SYSERR
  <2>1. Served(VNodes, vheap.list, vheap'.list, vmin, vmax, got.addr, n) /\ vrefused' = 0
    BY <1>1, <1>4, <1>6
  <2>2. Virtual!Next
    BY <2>1, VirtualGives
  <2>3. Sound(VNodes, vheap'.list, vmin, vmax)
        /\ Placed(got.addr, roundmb(n), vmin, vmax)
    BY <2>1 DEF Served, Given
  <2>4. \A b \in vheld' : Placed(b.addr, roundmb(b.nbytes), vmin, vmax)
    BY <1>1, <1>6, <2>3 DEF AllocInv, Block
  <2> QED
    BY <1>1, <2>2, <2>3, <2>4, KernelAlone DEF Allocating, AllocInv
<1> QED
  BY <1>5, <1>6

LEMMA vcreateAllocates ==
  ASSUME AllocInv, vcreate
  PROVE  Allocating
<1>1. /\ vheap' = NewVHeap /\ vheld' = {} /\ refused' = 0 /\ vrefused' = 0
      /\ stacks' = stacks /\ mem' = mem /\ held' = held
  BY DEF vcreate, Quiet
<1>2. Virtual!Renew
  BY <1>1, FreshHeaps DEF Virtual!Renew, Virtual!Units
<1>3. Virtual!Next
  BY <1>2 DEF Virtual!Next
<1>4. Sound(VNodes, vheap'.list, vmin, vmax)
  BY <1>1, FreshHeaps
<1> QED
  BY <1>1, <1>3, <1>4, KernelAlone DEF Allocating, AllocInv

\* A pool's memory is a request like any other.
LEMMA PoolFits ==
  ASSUME NEW r \in PoolRequests, ~BadPool(r[1], r[2])
  PROVE  LET n == r[2] * BufSize(r[1]) IN n \in Nat /\ n > 0 /\ n + 7 < 2^Width
<1> DEFINE x == r[1]
           y == r[2]
           z == BufSize(x)
<1>1. x \in Int /\ y \in Int
  BY MemoryAssumption
<1>2. ~(x < BP_MINB \/ x > BP_MAXB \/ y < 1 \/ y > BP_MAXN)
  BY DEF BadPool
<1> HIDE DEF x, y
<1>3. x >= 8 /\ y >= 1 /\ x <= BP_MAXB /\ y <= BP_MAXN
  BY <1>1, <1>2 DEF BP_MINB, BP_MAXB, BP_MAXN
<1>4. z \in Int /\ z >= 12
  BY <1>1, <1>3 DEF BufSize, Rounded4
<1>5. y * z + 7 < 2^Width
  BY <1>3, MemoryAssumption DEF x, y
<1> HIDE DEF z
<1>6. y * z \in Int /\ y * z > 0
  BY <1>1, <1>3, <1>4
<1> QED
  BY <1>5, <1>6 DEF x, y, z

LEMMA mkbufpoolAllocates ==
  ASSUME AllocInv, NEW r \in PoolRequests, mkbufpool(r[1], r[2])
  PROVE  Allocating
<1> DEFINE n == r[2] * BufSize(r[1])
           got == getmem(mem, n)
<1>1. /\ vrefused' = 0 /\ held' = held /\ stacks' = stacks /\ vheap' = vheap /\ vheld' = vheld
      /\ IF BadPool(r[1], r[2]) THEN refused' = 0 /\ mem' = mem
         ELSE IF got.addr = SYSERR THEN refused' = Room(n) /\ mem' = mem
         ELSE refused' = 0 /\ mem' = got.mem
  BY DEF mkbufpool
<1>2. CASE BadPool(r[1], r[2])
  BY <1>1, <1>2, KernelAlone, VirtualAlone DEF Allocating, AllocInv
<1>3. CASE ~BadPool(r[1], r[2])
  <2>1. n \in Nat /\ n + 7 < 2^Width
    BY <1>3, PoolFits
  <2>2. Sound(KNodes, mem.list, minheap, maxheap) /\ minheap \in Nat /\ maxheap \in Int
    BY RequestsFit DEF AllocInv
  <2> HIDE DEF n
  <2>3. IF got.addr = SYSERR THEN Unserved(mem.list, got.mem.list, n)
        ELSE Served(KNodes, mem.list, got.mem.list, minheap, maxheap, got.addr, n)
    BY <2>1, <2>2, getmemServes
  <2> HIDE DEF got
  <2>4. CASE got.addr = SYSERR
    <3>1. Unserved(mem.list, mem'.list, n) /\ refused' = Room(n) /\ mem' = mem
      BY <1>1, <1>3, <2>3, <2>4 DEF Unserved
    <3>2. Kernel!Next
      BY <2>1, <2>2, <3>1, KernelRefuses
    <3> QED
      BY <1>1, <3>1, <3>2, VirtualAlone DEF Allocating, AllocInv
  <2>5. CASE got.addr # SYSERR
    <3>1. Served(KNodes, mem.list, mem'.list, minheap, maxheap, got.addr, n) /\ refused' = 0
      BY <1>1, <1>3, <2>3, <2>5
    <3>2. Kernel!Next
      BY <3>1, KernelGives
    <3>3. Sound(KNodes, mem'.list, minheap, maxheap)
      BY <3>1 DEF Served, Given
    <3> QED
      BY <1>1, <3>2, <3>3, VirtualAlone DEF Allocating, AllocInv
  <2> QED
    BY <2>4, <2>5
<1> QED
  BY <1>2, <1>3

\* A node that is taken and freed again leaves the heap with the same free units.
LEMMA NodeGivenBack ==
  ASSUME Sound(KNodes, mem.list, minheap, maxheap),
         Served(KNodes, mem.list, getmem(mem, VMEMBLK).mem.list, minheap, maxheap,
                getmem(mem, VMEMBLK).addr, VMEMBLK)
  PROVE  LET got == getmem(mem, VMEMBLK)
             new == freemem(got.mem, got.addr, VMEMBLK).mem
         IN  /\ Sound(KNodes, new.list, minheap, maxheap)
             /\ FreeUnits(new.list) = FreeUnits(mem.list)
             /\ new.mlength = got.mem.mlength + roundmb(VMEMBLK)
<1> DEFINE got == getmem(mem, VMEMBLK)
           taken == got.mem
           a == got.addr
           n == VMEMBLK
           m == roundmb(n)
           new == freemem(taken, a, n).mem
<1>1. n \in Nat /\ n + 7 < 2^Width /\ n > 0 /\ minheap \in Nat /\ maxheap \in Nat
  BY RequestsFit DEF VMEMBLK
<1> HIDE DEF n, taken, a
<1>2. /\ Sound(KNodes, taken.list, minheap, maxheap)
      /\ Placed(a, m, minheap, maxheap)
      /\ UnitsOf(a, m) \subseteq FreeUnits(mem.list)
      /\ FreeUnits(taken.list) = FreeUnits(mem.list) \ UnitsOf(a, m)
  BY DEF Served, Given, n, taken, a
<1> HIDE DEF m
<1>3. /\ a \in Int /\ a % 8 = 0 /\ minheap <= a /\ a + m <= maxheap /\ m > 0 /\ m \in Int
  BY <1>2 DEF Placed
<1>4. ~(a < minheap) /\ ~(a > maxheap) /\ n # 0
  BY <1>1, <1>3
<1>5. UnitsOf(a, m) \cap FreeUnits(taken.list) = {}
  BY <1>2
<1>6. /\ Returned(KNodes, taken.list, new.list, minheap, maxheap, a, m)
      /\ new.mlength = taken.mlength + m
  BY <1>1, <1>2, <1>3, <1>4, <1>5, freememReturns DEF m
<1> HIDE DEF new
<1>7. Sound(KNodes, new.list, minheap, maxheap) /\ FreeUnits(new.list) = FreeUnits(mem.list)
  BY <1>2, <1>6 DEF Returned
<1> QED
  BY <1>6, <1>7 DEF new, taken, a, n, m

LEMMA VFreeMemAllocates ==
  ASSUME AllocInv, NEW a \in Addrs(vmin, vmax), NEW n \in VRequests,
         VFreeMem(Block(a, n))
  PROVE  Allocating
<1> DEFINE b == Block(a, n)
           m == roundmb(n)
           got == getmem(mem, VMEMBLK)
           res == vfreemem(mem, vheap, a, n)
           x == VNode(a, m, got.addr)
           k == Before(vheap.list, a)
           left == k > 0 /\ Top(vheap.list[k]) = a
           right == k < Len(vheap.list) /\ a + m = vheap.list[k + 1].addr
           next == vheap.list[k + 1].node
<1>1. /\ vheld' = vheld \ {b} /\ vrefused' = 0 /\ held' = held /\ stacks' = stacks
      /\ VFreeable(b)
      /\ IF VOutside(a, n) THEN refused' = 0 /\ mem' = mem /\ vheap' = vheap
         ELSE IF got.addr = SYSERR
         THEN refused' = Room(VMEMBLK) /\ mem' = mem /\ vheap' = vheap
         ELSE refused' = 0 /\ mem' = res.mem /\ vheap' = res.vm
  <2> HIDE DEF res
  <2>1. /\ vheld' = vheld \ {b} /\ vrefused' = 0 /\ held' = held /\ stacks' = stacks
        /\ VFreeable(b)
    BY DEF VFreeMem
  <2>2. b.addr = a /\ b.nbytes = n
    BY DEF Block
  <2>3. /\ up' = (VOutside(a, n) \/ got.addr # SYSERR)
        /\ IF VOutside(a, n) \/ ~up'
           THEN /\ refused' = (IF up' THEN 0 ELSE Room(VMEMBLK))
                /\ mem' = mem /\ vheap' = vheap
           ELSE mem' = res.mem /\ vheap' = res.vm /\ refused' = 0
    BY <2>2 DEF VFreeMem, res
  <2> QED
    BY <2>1, <2>3
<1>2. /\ n \in Nat /\ n + 7 < 2^Width /\ vmin \in Nat /\ vmax \in Nat /\ vmin % 8 = 0
      /\ minheap \in Nat /\ maxheap \in Nat
      /\ VMEMBLK \in Nat /\ VMEMBLK + 7 < 2^Width
  BY RequestsFit, HeapAssumption
<1>3. a \in Int /\ a % 8 = 0
  <2>1. PICK u \in UnitsOf(vmin - 8, vmax - vmin + 8) : a = 8 * u
    BY DEF Addrs
  <2>2. u \in Int
    BY <1>2, <2>1 DEF UnitsOf
  <2> QED
    BY <2>1, <2>2
<1>4. /\ Sound(KNodes, mem.list, minheap, maxheap)
      /\ Sound(VNodes, vheap.list, vmin, vmax)
  BY DEF AllocInv
<1>5. IF got.addr = SYSERR THEN Unserved(mem.list, got.mem.list, VMEMBLK)
      ELSE Served(KNodes, mem.list, got.mem.list, minheap, maxheap, got.addr, VMEMBLK)
  BY <1>2, <1>4, getmemServes
<1>6. \A c \in vheld' : Placed(c.addr, roundmb(c.nbytes), vmin, vmax)
  BY <1>1 DEF AllocInv
<1> HIDE DEF b, got, res
<1>7. CASE VOutside(a, n)
  <2>1. Virtual!Next
    BY <1>1, <1>7, VirtualSettles
  <2>2. refused' = 0 /\ mem' = mem /\ vheap' = vheap
    BY <1>1, <1>7
  <2> QED
    BY <1>1, <1>4, <1>6, <2>1, <2>2, KernelAlone DEF Allocating, AllocInv
<1>8. CASE ~VOutside(a, n) /\ got.addr = SYSERR
  <2>1. refused' = Room(VMEMBLK) /\ mem' = mem /\ vheap' = vheap
    BY <1>1, <1>8
  <2>2. Virtual!Next
    BY <1>1, <2>1, VirtualSettles
  <2>3. Unserved(mem.list, mem'.list, VMEMBLK)
    BY <1>5, <1>8, <2>1 DEF Unserved
  <2>4. Kernel!Next
    BY <1>2, <1>4, <2>1, <2>3, KernelRefuses
  <2> QED
    BY <1>1, <1>6, <2>1, <2>2, <2>4 DEF Allocating, AllocInv
<1>9. CASE ~VOutside(a, n) /\ got.addr # SYSERR
  <2>1. refused' = 0 /\ mem' = res.mem /\ vheap' = res.vm
    BY <1>1, <1>9
  <2>2. Served(KNodes, mem.list, got.mem.list, minheap, maxheap, got.addr, VMEMBLK)
    BY <1>5, <1>9
  <2>3. /\ Sound(KNodes, got.mem.list, minheap, maxheap)
        /\ Placed(got.addr, roundmb(VMEMBLK), minheap, maxheap)
    BY <2>2 DEF Served, Given
  <2>4. n # 0 /\ a >= vmin /\ a < vmax
    BY <1>2, <1>3, <1>9 DEF VOutside
  <2>5. m \in Nat /\ m % 8 = 0 /\ m > 0
    BY <1>2, <2>4, Rounding
  <2>6. CASE Overlaps(vheap.list, a, m)
    <3>1. res.mem = got.mem /\ res.vm = vheap
      BY <2>6 DEF res, vfreemem, got
    <3>2. Served(KNodes, mem.list, mem'.list, minheap, maxheap, got.addr, VMEMBLK)
      BY <2>1, <2>2, <3>1
    <3>3. Kernel!Next
      BY <2>1, <3>2, KernelGives
    <3>4. Virtual!Next
      BY <1>1, <2>1, <3>1, VirtualSettles
    <3>5. Sound(KNodes, mem'.list, minheap, maxheap) /\ vheap' = vheap
      BY <2>1, <2>3, <3>1
    <3> QED
      BY <1>1, <1>6, <3>3, <3>4, <3>5 DEF Allocating, AllocInv
  <2>7. CASE ~Overlaps(vheap.list, a, m)
    <3>1. /\ res.mem = IF left THEN freemem(got.mem, got.addr, VMEMBLK).mem ELSE got.mem
          /\ res.vm.list = Inserted(vheap.list, x)
      <4>1. res = [mem |-> IF left THEN freemem(got.mem, got.addr, VMEMBLK).mem ELSE got.mem,
                   vm |-> [list |-> Inserted(vheap.list, x), mlength |-> vheap.mlength + m],
                   unlinked |-> IF right THEN next ELSE INTAB]
        BY <2>7 DEF res, vfreemem, got
      <4> HIDE DEF left, x, right, next, m
      <4> QED
        BY <4>1
    <3> HIDE DEF left
    <3>2. /\ Kernel!Next
          /\ Sound(KNodes, mem'.list, minheap, maxheap)
      <4>1. CASE left
        <5>1. /\ Sound(KNodes, mem'.list, minheap, maxheap)
              /\ FreeUnits(mem'.list) = FreeUnits(mem.list)
          BY <1>4, <2>1, <2>2, <3>1, <4>1, NodeGivenBack DEF got
        <5> QED
          BY <2>1, <5>1, KernelSettles
      <4>2. CASE ~left
        <5>1. mem'.list = got.mem.list
          BY <2>1, <3>1, <4>2
        <5>2. Served(KNodes, mem.list, mem'.list, minheap, maxheap, got.addr, VMEMBLK)
          BY <2>2, <5>1
        <5> QED
          BY <2>1, <2>3, <5>1, <5>2, KernelGives
      <4> QED
        BY <4>1, <4>2
    <3>3. UnitsOf(a, m) \cap FreeUnits(vheap.list) = {}
      <4> HIDE DEF m
      <4> QED
        BY <1>2, <1>3, <1>4, <2>5, <2>7, OverlapsShares
    <3>4. Placed(a, m, vmin, vmax)
      <4>1. CASE b \in vheld
        BY <4>1 DEF AllocInv, b, Block
      <4>2. CASE UnitsOf(b.addr, roundmb(b.nbytes)) \subseteq
                   FreeUnits(vheap.list) \cup UnitsOf(0, vmin)
        <5>1. UnitsOf(a, m) \subseteq FreeUnits(vheap.list) \cup UnitsOf(0, vmin)
          BY <4>2 DEF b, Block
        <5> HIDE DEF m
        <5>2. a < vmin
          BY <1>2, <1>3, <2>5, <3>3, <5>1, FreedInside
        <5> QED
          BY <1>2, <1>3, <2>4, <5>2
      <4> QED
        BY <1>1, <4>1, <4>2 DEF VFreeable
    <3>5. x \in VNodes /\ x.addr = a /\ x.len = m
      <4>1. got.addr \in Int
        BY <2>3 DEF Placed
      <4> HIDE DEF m
      <4> QED
        BY <1>3, <2>5, <4>1 DEF VNode, VNodes
    <3> HIDE DEF x, m
    <3>6. Returned(VNodes, vheap.list, Inserted(vheap.list, x), vmin, vmax, x.addr, x.len)
      <4>1. ~Overlaps(vheap.list, x.addr, x.len) /\ Placed(x.addr, x.len, vmin, vmax)
        BY <2>7, <3>4, <3>5
      <4> QED
        BY <1>2, <1>4, <3>5, <4>1, InsertedReturns
    <3>7. Returned(VNodes, vheap.list, vheap'.list, vmin, vmax, a, m)
      BY <2>1, <3>1, <3>5, <3>6
    <3>8. Virtual!Next
      BY <1>1, <3>4, <3>7, VirtualTakesBack
    <3>9. Sound(VNodes, vheap'.list, vmin, vmax)
      BY <3>7 DEF Returned
    <3> QED
      BY <1>1, <1>6, <3>2, <3>8, <3>9 DEF Allocating, AllocInv
  <2> QED
    BY <2>6, <2>7
<1> QED
  BY <1>7, <1>8, <1>9

\* Buffers are handed out and taken back without the heap.
LEMMA BuffersAllocate ==
  ASSUME AllocInv, NEW p \in Procs,
         \/ \E i \in DOMAIN buftab : getbuf(p, i)
         \/ GotBuf(p)
         \/ \E b \in proc[p].bufs : freebuf(p, b)
         \/ Kill(p)
  PROVE  Allocating
<1>1. /\ refused' = 0 /\ vrefused' = 0
      /\ mem' = mem /\ held' = held /\ stacks' = stacks /\ vheap' = vheap /\ vheld' = vheld
  BY DEF getbuf, GotBuf, freebuf, Kill, Quiet
<1> QED
  BY <1>1, KernelAlone, VirtualAlone DEF Allocating, AllocInv

\* Every step is one of both allocators, and keeps the lists sound.
LEMMA NextAllocates ==
  ASSUME AllocInv, Next
  PROVE  Allocating
<1>1. CASE Blocks
  BY <1>1, GetMemAllocates, FreeMemAllocates DEF Blocks
<1>2. CASE Stacks
  BY <1>2, GetStkAllocates, FreeStkAllocates DEF Stacks
<1>3. CASE VirtualHeap
  BY <1>3, VGetMemAllocates, VFreeMemAllocates, vcreateAllocates DEF VirtualHeap
<1>4. CASE BufferPools
  BY <1>4, mkbufpoolAllocates, BuffersAllocate DEF BufferPools
<1> QED
  BY <1>1, <1>2, <1>3, <1>4 DEF Next

\* Whatever is asked for and freed, in whatever order, and whoever is killed,
\* the lists of getmem, getstk, freemem, vgetmem and vfreemem are in order, no two
\* of their blocks touch, and the blocks and stacks the callers have lie in the
\* heap they came from.
THEOREM ListsStaySound == Spec => []AllocInv
<1>1. Init => AllocInv
  BY AllocInit
<1>2. AllocInv /\ [Next]_vars => AllocInv'
  <2> SUFFICES ASSUME AllocInv, [Next]_vars PROVE AllocInv'
    OBVIOUS
  <2>1. CASE Next
    BY <2>1, NextAllocates DEF Allocating
  <2>2. CASE UNCHANGED vars
    BY <2>2 DEF vars, AllocInv
  <2> QED
    BY <2>1, <2>2
<1> QED
  BY <1>1, <1>2, PTL DEF Spec

\* The free lists of the heap and of a virtual heap implement an allocator: what
\* they give was free, what they take back was not, and they refuse only what no
\* run of free units would hold.
THEOREM HeapsAllocate == Spec => IsAllocator
<1>1. Init => Kernel!Init /\ Virtual!Init
  BY AllocInit
<1>2. AllocInv /\ [Next]_vars =>
        /\ [Kernel!Next]_<<FreeUnits(mem.list), refused>>
        /\ [Virtual!Next]_<<FreeUnits(vheap.list), vrefused>>
  <2> SUFFICES ASSUME AllocInv, [Next]_vars
               PROVE  /\ [Kernel!Next]_<<FreeUnits(mem.list), refused>>
                      /\ [Virtual!Next]_<<FreeUnits(vheap.list), vrefused>>
    OBVIOUS
  <2>1. CASE Next
    BY <2>1, NextAllocates DEF Allocating
  <2>2. CASE UNCHANGED vars
    BY <2>2 DEF vars
  <2> QED
    BY <2>1, <2>2
<1> QED
  BY <1>1, <1>2, ListsStaySound, PTL DEF Spec, IsAllocator, Kernel!Spec, Virtual!Spec

----------------------------------------------------------------------------
\* How much is free.

\* A block has an eighth of its bytes in units.
LEMMA UnitCount ==
  ASSUME NEW a \in Int, NEW n \in Int, a % 8 = 0, n % 8 = 0, n > 0
  PROVE  IsFiniteSet(UnitsOf(a, n)) /\ 8 * Cardinality(UnitsOf(a, n)) = n
<1> DEFINE x == a \div 8
           y == (a + n) \div 8 - 1
           z == n \div 8
<1>1. x \in Int /\ y \in Int /\ z \in Int /\ x <= y /\ y - x + 1 = z /\ 8 * z = n
  <2>1. a = 8 * x /\ n = 8 * z /\ x \in Int /\ z \in Int
    OBVIOUS
  <2> HIDE DEF x, z
  <2>2. y = x + z - 1 /\ z > 0
    BY <2>1
  <2> QED
    BY <2>1, <2>2
<1>2. UnitsOf(a, n) = x..y
  BY DEF UnitsOf
<1> HIDE DEF x, y, z
<1>3. IsFiniteSet(x..y) /\ Cardinality(x..y) = IF x > y THEN 0 ELSE y - x + 1
  BY <1>1, FS_Interval
<1>4. Cardinality(x..y) = z
  BY <1>1, <1>3
<1> QED
  BY <1>1, <1>2, <1>3, <1>4

\* The units of a heap, and the free ones among them.
LEMMA FreeInHeap ==
  ASSUME NEW S, NEW list, NEW lo \in Int, NEW hi \in Int, Sound(S, list, lo, hi),
         lo % 8 = 0, hi % 8 = 0
  PROVE  FreeUnits(list) \subseteq UnitsOf(lo, hi - lo) /\ IsFiniteSet(FreeUnits(list))
<1>1. (hi - lo) % 8 = 0 /\ hi - lo \in Int /\ lo + (hi - lo) = hi
  OBVIOUS
<1>2. \A u : u \in UnitsOf(lo, hi - lo) <=> u \in Int /\ lo <= 8 * u /\ 8 * u < lo + (hi - lo)
  BY <1>1, UnitsIn
<1>3. FreeUnits(list) \subseteq UnitsOf(lo, hi - lo)
  <2> SUFFICES ASSUME NEW u \in FreeUnits(list) PROVE u \in UnitsOf(lo, hi - lo)
    OBVIOUS
  <2>1. u \in Int /\ \E i \in 1..Len(list) : list[i].addr <= 8 * u /\ 8 * u < Top(list[i])
    BY FreeIn
  <2>2. PICK i \in 1..Len(list) : list[i].addr <= 8 * u /\ 8 * u < Top(list[i])
    BY <2>1
  <2> DEFINE x == list[i].addr
             y == list[i].len
  <2>3. x \in Int /\ y \in Int /\ lo <= x /\ x + y <= hi
    BY DEF Sound, Placed
  <2>4. x <= 8 * u /\ 8 * u < x + y
    BY <2>2 DEF Top
  <2> HIDE DEF x, y
  <2>5. lo <= 8 * u /\ 8 * u < hi
    BY <2>1, <2>3, <2>4
  <2> QED
    BY <1>1, <1>2, <2>1, <2>5
<1>4. IsFiniteSet(UnitsOf(lo, hi - lo))
  <2> DEFINE x == lo \div 8
             y == (lo + (hi - lo)) \div 8 - 1
  <2>1. x \in Int /\ y \in Int
    OBVIOUS
  <2>2. UnitsOf(lo, hi - lo) = x..y
    BY DEF UnitsOf
  <2> HIDE DEF x, y
  <2> QED
    BY <2>1, <2>2, FS_Interval
<1>5. IsFiniteSet(FreeUnits(list))
  BY <1>3, <1>4, FS_Subset
<1> QED
  BY <1>3, <1>5

\* A total that counts the free bytes goes on counting them.
LEMMA GivenCount ==
  ASSUME NEW S, NEW list, NEW t, NEW lo \in Int, NEW hi \in Int, NEW a, NEW n, NEW total,
         lo % 8 = 0, hi % 8 = 0, Sound(S, list, lo, hi), Given(S, list, t, lo, hi, a, n),
         total = 8 * Cardinality(FreeUnits(list))
  PROVE  total - n = 8 * Cardinality(FreeUnits(t))
<1> DEFINE F == FreeUnits(list)
           U == UnitsOf(a, n)
           G == FreeUnits(t)
<1>1. IsFiniteSet(F)
  BY FreeInHeap
<1>2. U \subseteq F /\ G = F \ U
  BY DEF Given
<1>3. n \in Int /\ 8 * Cardinality(U) = n /\ IsFiniteSet(U)
  BY UnitCount DEF Given, Placed
<1> HIDE DEF F, U, G
<1>4. Cardinality(F \ U) = Cardinality(F) - Cardinality(F \cap U)
  BY <1>1, FS_Difference
<1>5. F \cap U = U
  BY <1>2
<1>6. Cardinality(F) \in Nat /\ Cardinality(U) \in Nat
  BY <1>1, <1>3, FS_CardinalityType
<1>7. Cardinality(G) = Cardinality(F) - Cardinality(U)
  BY <1>2, <1>4, <1>5
<1>8. total = 8 * Cardinality(F)
  BY DEF F
<1>9. total - n = 8 * Cardinality(G)
  BY <1>3, <1>6, <1>7, <1>8
<1> QED
  BY <1>9 DEF G

LEMMA ReturnedCount ==
  ASSUME NEW S, NEW list, NEW t, NEW lo \in Int, NEW hi \in Int, NEW a, NEW n, NEW total,
         lo % 8 = 0, hi % 8 = 0, Sound(S, list, lo, hi), Placed(a, n, lo, hi),
         Returned(S, list, t, lo, hi, a, n), total = 8 * Cardinality(FreeUnits(list))
  PROVE  total + n = 8 * Cardinality(FreeUnits(t))
<1> DEFINE F == FreeUnits(list)
           U == UnitsOf(a, n)
           G == FreeUnits(t)
<1>1. IsFiniteSet(F)
  BY FreeInHeap
<1>2. U \cap F = {} /\ G = F \cup U
  BY DEF Returned
<1>3. n \in Int /\ 8 * Cardinality(U) = n /\ IsFiniteSet(U)
  BY UnitCount DEF Placed
<1> HIDE DEF F, U, G
<1>4. Cardinality(F \cup U) = Cardinality(F) + Cardinality(U) - Cardinality(F \cap U)
  BY <1>1, <1>3, FS_Union
<1>5. F \cap U = {} /\ Cardinality({}) = 0
  BY <1>2, FS_EmptySet
<1>6. Cardinality(F) \in Nat /\ Cardinality(U) \in Nat
  BY <1>1, <1>3, FS_CardinalityType
<1>7. Cardinality(F \cap U) = 0
  BY <1>5
<1>8. Cardinality(G) = Cardinality(F) + Cardinality(U)
  BY <1>2, <1>4, <1>6, <1>7
<1>9. total = 8 * Cardinality(F)
  BY DEF F
<1>10. total + n = 8 * Cardinality(G)
  BY <1>3, <1>6, <1>8, <1>9
<1> QED
  BY <1>10 DEF G

----------------------------------------------------------------------------
\* Who has a unit.

HeldUnits(b) == UnitsOf(b.addr, roundmb(b.nbytes))
StackUnits(b) == UnitsOf(b.addr + 4 - roundmb(b.nbytes), roundmb(b.nbytes))
NodeUnits(x) == UnitsOf(x, roundmb(VMEMBLK))
PoolUnits(i) == UnitsOf(buftab[i].addr, roundmb(buftab[i].num * buftab[i].size))

\* The nodes of a virtual list that lie in the heap.
Nodes(list) == {list[i].node : i \in 1..Len(list)} \ {INTAB}
NodesApart(list) ==
    \A i, j \in 1..Len(list) : list[i].node = list[j].node => i = j \/ list[i].node = INTAB

ByCallers(u) == {<<"held", b>> : b \in {c \in held : u \in HeldUnits(c)}}
ByStacks(u) == {<<"stack", b>> : b \in {c \in stacks : u \in StackUnits(c)}}
ByNodes(u) == {<<"node", x>> : x \in {y \in Nodes(vheap.list) : u \in NodeUnits(y)}}
ByPools(u) == {<<"pool", i>> : i \in {j \in DOMAIN buftab : u \in PoolUnits(j)}}
Nowhere(u) == {<<"lost", x>> : x \in lost \cap {u}}
Holders(u) == ByCallers(u) \cup ByStacks(u) \cup ByNodes(u) \cup ByPools(u) \cup Nowhere(u)

\* Unit u of units is free and has no holder, or is not and has one.
Good(u, units, free, hs) ==
    /\ hs # {} => u \in units
    /\ u \in units => IF u \in free THEN hs = {} ELSE \E o \in hs : hs = {o}

\* The units of a free run get a holder ...
LEMMA GoodGiven ==
  ASSUME NEW u, NEW units, NEW free, NEW hs, NEW free2, NEW hs2, NEW U, NEW o,
         Good(u, units, free, hs), U \subseteq free, free2 = free \ U, free \subseteq units,
         u \in U => hs2 = hs \cup {o}, u \notin U => hs2 = hs
  PROVE  Good(u, units, free2, hs2)
<1>1. CASE u \in U
  <2>1. u \in units /\ u \in free /\ u \notin free2 /\ hs = {} /\ hs2 = {o}
    BY <1>1 DEF Good
  <2> QED
    BY <2>1 DEF Good
<1>2. CASE u \notin U
  BY <1>2 DEF Good
<1> QED
  BY <1>1, <1>2

\* ... their one holder gives them back ...
LEMMA GoodReturned ==
  ASSUME NEW u, NEW units, NEW free, NEW hs, NEW free2, NEW hs2, NEW U, NEW o,
         Good(u, units, free, hs), U \cap free = {}, free2 = free \cup U,
         u \in U => o \in hs /\ hs2 = hs \ {o}, u \notin U => hs2 = hs
  PROVE  Good(u, units, free2, hs2)
<1>1. CASE u \in U
  <2>1. u \in units /\ u \notin free /\ u \in free2
    BY <1>1 DEF Good
  <2>2. hs2 = {}
    BY <1>1, <2>1 DEF Good
  <2> QED
    BY <2>1, <2>2 DEF Good
<1>2. CASE u \notin U
  BY <1>2 DEF Good
<1> QED
  BY <1>1, <1>2

\* ... or leaves them to another.
LEMMA GoodMoved ==
  ASSUME NEW u, NEW units, NEW free, NEW hs, NEW hs2, NEW U, NEW o, NEW o2,
         Good(u, units, free, hs),
         u \in U => o \in hs /\ hs2 = (hs \ {o}) \cup {o2}, u \notin U => hs2 = hs
  PROVE  Good(u, units, free, hs2)
<1>1. CASE u \in U
  <2>1. u \in units /\ u \notin free /\ hs = {o}
    BY <1>1 DEF Good
  <2>2. hs2 = {o2}
    BY <1>1, <2>1
  <2> QED
    BY <2>1, <2>2 DEF Good
<1>2. CASE u \notin U
  BY <1>2 DEF Good
<1> QED
  BY <1>1, <1>2

\* What is held is not free, and has no other holder.
LEMMA HeldNotFree ==
  ASSUME NEW u, NEW units, NEW free, NEW hs, Good(u, units, free, hs), NEW o \in hs
  PROVE  u \in units /\ u \notin free /\ hs = {o}
  BY DEF Good

----------------------------------------------------------------------------
\* The nodes of a virtual list.

\* By f, the list t has the nodes of list but those numbered by X.
Picks(list, t, X, f) ==
    /\ X \subseteq 1..Len(list)
    /\ f \in [1..Len(t) -> (1..Len(list)) \ X]
    /\ \A j, k \in 1..Len(t) : f[j] = f[k] => j = k
    /\ \A i \in (1..Len(list)) \ X : \E j \in 1..Len(t) : f[j] = i
    /\ \A j \in 1..Len(t) : t[j].node = list[f[j]].node

LEMMA Picked ==
  ASSUME NEW list, NEW t, NEW X, NEW f, Picks(list, t, X, f), NodesApart(list)
  PROVE  /\ NodesApart(t)
         /\ \A x : x \in Nodes(t) <=> x \in Nodes(list) /\ ~\E i \in X : x = list[i].node
<1>0. /\ X \subseteq 1..Len(list)
      /\ f \in [1..Len(t) -> (1..Len(list)) \ X]
      /\ \A j, k \in 1..Len(t) : f[j] = f[k] => j = k
      /\ \A i \in (1..Len(list)) \ X : \E j \in 1..Len(t) : f[j] = i
      /\ \A j \in 1..Len(t) : t[j].node = list[f[j]].node
  BY DEF Picks
<1>1. NodesApart(t)
  <2> SUFFICES ASSUME NEW j \in 1..Len(t), NEW k \in 1..Len(t), t[j].node = t[k].node
               PROVE  j = k \/ t[j].node = INTAB
    BY DEF NodesApart
  <2>1. f[j] \in 1..Len(list) /\ f[k] \in 1..Len(list)
    BY <1>0
  <2>2. f[j] = f[k] \/ list[f[j]].node = INTAB
    BY <1>0, <2>1 DEF NodesApart
  <2> QED
    BY <1>0, <2>2
<1>2. ASSUME NEW x \in Nodes(t)
      PROVE  x \in Nodes(list) /\ ~\E i \in X : x = list[i].node
  <2>1. PICK j \in 1..Len(t) : x = t[j].node /\ x # INTAB
    BY DEF Nodes
  <2>2. f[j] \in 1..Len(list) /\ f[j] \notin X /\ x = list[f[j]].node
    BY <1>0, <2>1
  <2>3. ASSUME NEW i \in X, x = list[i].node PROVE FALSE
    BY <1>0, <2>1, <2>2, <2>3 DEF NodesApart
  <2> QED
    BY <2>1, <2>2, <2>3 DEF Nodes
<1>3. ASSUME NEW x \in Nodes(list), ~\E i \in X : x = list[i].node
      PROVE  x \in Nodes(t)
  <2>1. PICK i \in 1..Len(list) : x = list[i].node /\ x # INTAB
    BY DEF Nodes
  <2>2. i \notin X
    BY <1>3, <2>1
  <2>3. PICK j \in 1..Len(t) : f[j] = i
    BY <1>0, <2>2
  <2> QED
    BY <1>0, <2>1, <2>3 DEF Nodes
<1> QED
  BY <1>1, <1>2, <1>3

\* A block that is taken as a whole leaves its node ...
LEMMA RemoveNodes ==
  ASSUME NEW S, NEW list \in Seq(S), NodesApart(list), NEW i \in 1..Len(list)
  PROVE  LET t == RemoveAt(list, i) IN
         NodesApart(t) /\ Nodes(t) = Nodes(list) \ {list[i].node}
<1> DEFINE t == RemoveAt(list, i)
           f == [j \in 1..Len(t) |-> IF j < i THEN j ELSE j + 1]
           L == Len(list)
           X == {i}
<1>1. L \in Nat /\ i \in Int /\ 1 <= i /\ i <= L
  OBVIOUS
<1>2. /\ Len(t) = L - 1
      /\ \A j \in 1..(L - 1) : t[j] = IF j < i THEN list[j] ELSE list[j + 1]
  BY RemoveAtElements
<1> HIDE DEF t
<1>3. f \in [1..Len(t) -> (1..Len(list)) \ X]
  <2> SUFFICES ASSUME NEW j \in 1..Len(t)
               PROVE  (IF j < i THEN j ELSE j + 1) \in (1..L) \ {i}
    OBVIOUS
  <2>1. j \in Int /\ 1 <= j /\ j <= L - 1
    BY <1>1, <1>2
  <2> HIDE DEF L
  <2> QED
    BY <1>1, <2>1
<1>4. \A j, k \in 1..Len(t) : f[j] = f[k] => j = k
  <2> SUFFICES ASSUME NEW j \in 1..Len(t), NEW k \in 1..Len(t), f[j] = f[k] PROVE j = k
    OBVIOUS
  <2>1. j \in Int /\ k \in Int
    BY <1>1, <1>2
  <2>2. (IF j < i THEN j ELSE j + 1) = (IF k < i THEN k ELSE k + 1)
    OBVIOUS
  <2> QED
    BY <1>1, <2>1, <2>2
<1>5. \A k \in (1..Len(list)) \ X : \E j \in 1..Len(t) : f[j] = k
  <2> SUFFICES ASSUME NEW k \in (1..L) \ {i} PROVE \E j \in 1..Len(t) : f[j] = k
    OBVIOUS
  <2> DEFINE j == IF k < i THEN k ELSE k - 1
  <2>1. j \in 1..(L - 1) /\ (IF j < i THEN j ELSE j + 1) = k
    BY <1>1
  <2> HIDE DEF j
  <2> QED
    BY <1>2, <2>1
<1>6. \A j \in 1..Len(t) : t[j].node = list[f[j]].node
  BY <1>2
<1> HIDE DEF f, L
<1>7. X \subseteq 1..Len(list) /\ \A k : k \in X <=> k = i
  OBVIOUS
<1> HIDE DEF X
<1>8. Picks(list, t, X, f)
  BY <1>3, <1>4, <1>5, <1>6, <1>7 DEF Picks
<1>9. NodesApart(t) /\ \A x : x \in Nodes(t) <=> x \in Nodes(list) /\ ~\E k \in X : x = list[k].node
  BY <1>8, Picked
<1>10. Nodes(t) = Nodes(list) \ {list[i].node}
  BY <1>7, <1>9
<1> QED
  BY <1>7, <1>9, <1>10 DEF t

\* ... one that is put in its place brings its own, which goes again when the
\* block is joined with the one before, as does the node of the block after it.
LEMMA InsertedNodes ==
  ASSUME NEW lo \in Int, NEW hi \in Int, NEW list, Sound(VNodes, list, lo, hi),
         NodesApart(list), NEW new \in VNodes, new.node \notin Nodes(list), new.node # INTAB
  PROVE  LET k == Before(list, new.addr)
             left == k > 0 /\ Top(list[k]) = new.addr
             right == k < Len(list) /\ Top(new) = list[k + 1].addr
             t == Inserted(list, new)
         IN  /\ NodesApart(t)
             /\ \A x : x \in Nodes(t) <=> /\ x \in Nodes(list) \/ x = new.node
                                          /\ ~(left /\ x = new.node)
                                          /\ ~(right /\ x = list[k + 1].node)
<1> DEFINE L == Len(list)
           k == Before(list, new.addr)
           left == k > 0 /\ Top(list[k]) = new.addr
           right == k < L /\ Top(new) = list[k + 1].addr
           p == IF left THEN k - 1 ELSE k
           q == IF right THEN k + 2 ELSE k + 1
           base == IF left THEN list[k] ELSE new
           len == (IF left THEN list[k].len ELSE 0) + new.len
                  + (IF right THEN list[k + 1].len ELSE 0)
           g == [base EXCEPT !.len = len]
           t == Inserted(list, new)
           u == Append(list, new)
           X == {i \in 1..(L + 1) : (left /\ i = L + 1) \/ (right /\ i = k + 1)}
           at(j) == IF j <= p THEN j
                    ELSE IF j = p + 1 THEN (IF left THEN k ELSE L + 1)
                    ELSE q + (j - (p + 2))
           f == [j \in 1..Len(t) |-> at(j)]
<1>1. L \in Nat /\ list \in Seq(VNodes)
  BY DEF Sound
<1>2. k \in 0..L
  <2>1. new.addr \in Int
    BY DEF VNodes
  <2> QED
    BY <1>1, <2>1, BeforePlace
<1>3. t = Splice(list, p, g, q)
  BY DEF Inserted, Splice
<1>4. /\ u \in Seq(VNodes) /\ Len(u) = L + 1 /\ u[L + 1] = new
      /\ \A i \in 1..L : u[i] = list[i]
  BY <1>1
<1>5. NodesApart(u)
  <2> SUFFICES ASSUME NEW i \in 1..(L + 1), NEW j \in 1..(L + 1), u[i].node = u[j].node
               PROVE  i = j \/ u[i].node = INTAB
    BY <1>4 DEF NodesApart
  <2>1. ASSUME NEW m \in 1..L PROVE list[m].node # new.node
    BY DEF Nodes
  <2>2. \A m \in 1..(L + 1) : m \in 1..L \/ m = L + 1
    BY <1>1
  <2> HIDE DEF L, u
  <2>3. CASE i \in 1..L /\ j \in 1..L
    BY <2>3, <1>4 DEF NodesApart, L
  <2>4. CASE i = L + 1 /\ j = L + 1
    BY <2>4
  <2>5. CASE i = L + 1 /\ j \in 1..L
    BY <2>1, <2>5, <1>4
  <2>6. CASE i \in 1..L /\ j = L + 1
    BY <2>1, <2>6, <1>4
  <2> QED
    BY <2>2, <2>3, <2>4, <2>5, <2>6
<1>6. g \in VNodes /\ g.node = base.node
  <2>1. left => list[k] \in VNodes
    BY <1>1, <1>2
  <2>2. right => list[k + 1] \in VNodes
    BY <1>1, <1>2
  <2>3. base \in VNodes
    BY <2>1
  <2>4. len \in Int
    <3>1. new.len \in Int /\ (left => list[k].len \in Int) /\ (right => list[k + 1].len \in Int)
      BY <2>1, <2>2 DEF VNodes
    <3> HIDE DEF left, right
    <3> QED
      BY <3>1
  <2> HIDE DEF base, len
  <2> QED
    BY <2>3, <2>4 DEF VNodes
<1>7. left => k \in 1..L
  BY <1>1, <1>2
<1>8. right => k + 1 \in 1..L
  BY <1>1, <1>2
<1> HIDE DEF L, k, left, right, t, u, g
<1>9. p \in 0..L /\ q \in (p + 1)..(L + 1) /\ p \in Int /\ q \in Int
  BY <1>1, <1>2, <1>7, <1>8
<1>10. /\ Len(t) = (p + 1) + (L - q + 1)
       /\ \A j \in 1..Len(t) :
            t[j] = IF j <= p THEN list[j] ELSE IF j = p + 1 THEN g ELSE list[q + (j - (p + 2))]
  <2> HIDE DEF p, q
  <2>1. p \in 0..Len(list) /\ q \in (p + 1)..(Len(list) + 1)
    BY <1>9 DEF L
  <2> DEFINE r == Splice(list, p, g, q)
  <2>2. /\ Len(r) = (p + 1) + (Len(list) - q + 1)
        /\ \A j \in 1..Len(r) :
             r[j] = IF j <= p THEN list[j]
                    ELSE IF j = p + 1 THEN g ELSE list[q + (j - (p + 2))]
    <3>1. g \in VNodes
      BY <1>6
    <3> QED
      BY <1>1, <2>1, <3>1, SpliceElements
  <2>3. t = r
    BY <1>3
  <2> HIDE DEF r
  <2> QED
    BY <2>2, <2>3 DEF L
<1>11. ASSUME NEW j \in 1..Len(t)
       PROVE  at(j) \in (1..(L + 1)) \ X /\ t[j].node = u[at(j)].node
  <2>1. j \in Int /\ 1 <= j /\ j <= (p + 1) + (L - q + 1)
    BY <1>1, <1>9, <1>10
  <2>2. CASE j <= p
    <3>1. j \in 1..L /\ j # k + 1 /\ j # L + 1 /\ at(j) = j
      BY <2>1, <2>2, <1>1, <1>2, <1>7, <1>9
    <3>2. j \in (1..(L + 1)) \ X
      BY <3>1, <1>1
    <3>3. t[j] = list[j] /\ u[j] = list[j]
      BY <2>2, <3>1, <1>4, <1>10
    <3> QED
      BY <3>1, <3>2, <3>3
  <2>3. CASE j = p + 1
    <3>1. t[j] = g /\ at(j) = IF left THEN k ELSE L + 1
      BY <2>1, <2>3, <1>9, <1>10
    <3>2. CASE left
      <4>1. at(j) = k /\ k \in 1..L /\ k # L + 1 /\ k # k + 1 /\ k \in 1..(L + 1)
        BY <3>1, <3>2, <1>1, <1>7, SMTT(60)
      <4>2. t[j].node = list[k].node
        BY <3>1, <3>2, <1>6
      <4> QED
        BY <4>1, <4>2, <1>4
    <3>3. CASE ~left
      <4>1. at(j) = L + 1 /\ L + 1 \in 1..(L + 1)
        BY <3>1, <3>3, <1>1
      <4>2. L + 1 \notin X
        BY <3>3, <1>1, <1>2, <1>8
      <4>3. t[j].node = new.node
        BY <3>1, <3>3, <1>6
      <4> HIDE DEF at, X
      <4> QED
        BY <4>1, <4>2, <4>3, <1>4
    <3> QED
      BY <3>2, <3>3
  <2>4. CASE j > p + 1
    <3>1. at(j) = q + (j - (p + 2)) /\ t[j] = list[q + (j - (p + 2))]
      BY <2>1, <2>4, <1>9, <1>10
    <3>2. q + (j - (p + 2)) \in 1..L /\ q + (j - (p + 2)) >= q
      <4> HIDE DEF p, q
      <4> QED
        BY <2>1, <2>4, <1>1, <1>9
    <3> DEFINE y == q + (j - (p + 2))
    <3>3. y \in 1..L /\ y >= q /\ at(j) = y /\ t[j] = list[y]
      BY <3>1, <3>2
    <3> HIDE DEF y, at
    <3>4. y \in (1..(L + 1)) \ X
      BY <3>3, <1>1, <1>2
    <3> QED
      BY <3>3, <3>4, <1>4
  <2> QED
    BY <2>1, <2>2, <2>3, <2>4, <1>9
<1>12. ASSUME NEW i \in 1..Len(t), NEW j \in 1..Len(t), at(i) = at(j)
       PROVE  i = j
  <2>1. /\ i \in Int /\ 1 <= i /\ i <= (p + 1) + (L - q + 1)
        /\ j \in Int /\ 1 <= j /\ j <= (p + 1) + (L - q + 1)
    BY <1>1, <1>9, <1>10
  <2>2. p \in Int /\ q \in Int /\ p < q /\ q <= L + 1 /\ k \in Int /\ k <= L
        /\ (left => p < k /\ k < q) /\ p <= L
    BY <1>1, <1>2, <1>7, <1>9
  <2> HIDE DEF p, q
  <2>3. /\ at(i) = IF i <= p THEN i
                   ELSE IF i = p + 1 THEN (IF left THEN k ELSE L + 1) ELSE q + (i - (p + 2))
        /\ at(j) = IF j <= p THEN j
                   ELSE IF j = p + 1 THEN (IF left THEN k ELSE L + 1) ELSE q + (j - (p + 2))
    OBVIOUS
  <2> HIDE DEF at
  <2>4. CASE i <= p
    BY <2>1, <2>2, <2>3, <2>4, <1>12, <1>1
  <2>5. CASE i = p + 1
    BY <2>1, <2>2, <2>3, <2>5, <1>12, <1>1
  <2>6. CASE i > p + 1
    BY <2>1, <2>2, <2>3, <2>6, <1>12, <1>1
  <2> QED
    BY <2>1, <2>2, <2>4, <2>5, <2>6
<1>13. ASSUME NEW i \in (1..(L + 1)) \ X
       PROVE  \E j \in 1..Len(t) : at(j) = i
  <2>0. i \in Int /\ 1 <= i /\ i <= L + 1 /\ ~(left /\ i = L + 1) /\ ~(right /\ i = k + 1)
    BY <1>1
  <2>1. CASE i <= p
    <3>1. i \in 1..Len(t)
      <4> HIDE DEF p, q
      <4> QED
        BY <2>0, <2>1, <1>1, <1>9, <1>10, SMTT(60)
    <3>2. at(i) = i
      BY <2>1
    <3> QED
      BY <3>1, <3>2
  <2>2. CASE (left /\ i = k) \/ (~left /\ i = L + 1)
    <3> DEFINE y == p + 1
    <3>1. y \in 1..Len(t) /\ ~(y <= p) /\ y = p + 1
      <4> HIDE DEF p, q
      <4> QED
        BY <1>1, <1>9, <1>10, SMTT(60)
    <3> HIDE DEF y
    <3>2. at(y) = IF left THEN k ELSE L + 1
      <4> HIDE DEF p, q
      <4> QED
        BY <3>1
    <3> QED
      BY <2>2, <3>1, <3>2
  <2>3. CASE ~(i <= p) /\ ~((left /\ i = k) \/ (~left /\ i = L + 1))
    <3> DEFINE j == (i - q) + (p + 2)
    <3>1. i >= q /\ i <= L
      BY <2>0, <2>3, <1>1, <1>2, <1>7
    <3>2. j \in 1..Len(t) /\ ~(j <= p) /\ j # p + 1 /\ q + (j - (p + 2)) = i
      <4> HIDE DEF p, q
      <4> QED
        BY <2>0, <3>1, <1>1, <1>9, <1>10
    <3>3. at(j) = i
      BY <3>2
    <3> QED
      BY <3>2, <3>3
  <2> QED
    BY <2>1, <2>2, <2>3
<1>14. X \subseteq 1..Len(u)
  BY <1>4
<1>15. \A i : i \in X <=> (left /\ i = L + 1) \/ (right /\ i = k + 1)
  BY <1>1, <1>8
<1> HIDE DEF X, at
<1>16. Picks(u, t, X, f)
  <2>1. \A j \in 1..Len(t) : f[j] = at(j)
    OBVIOUS
  <2>2. f \in [1..Len(t) -> (1..Len(u)) \ X]
    BY <1>4, <1>11
  <2> HIDE DEF f
  <2> QED
    BY <2>1, <2>2, <1>4, <1>11, <1>12, <1>13, <1>14 DEF Picks
<1> HIDE DEF f
<1>17. /\ NodesApart(t)
       /\ \A x : x \in Nodes(t) <=> x \in Nodes(u) /\ ~\E i \in X : x = u[i].node
  BY <1>5, <1>16, Picked
<1>18. \A x : x \in Nodes(u) <=> x \in Nodes(list) \/ x = new.node
  <2>1. \A m : m \in 1..(L + 1) <=> m \in 1..L \/ m = L + 1
    BY <1>1
  <2>2. \A x : x \in Nodes(u) <=> x # INTAB /\ \E m \in 1..(L + 1) : x = u[m].node
    BY <1>4 DEF Nodes
  <2>3. \A x : x \in Nodes(list) <=> x # INTAB /\ \E m \in 1..L : x = list[m].node
    BY DEF Nodes, L
  <2> QED
    BY <2>1, <2>2, <2>3, <1>4
<1>19. \A x : (\E i \in X : x = u[i].node) <=>
                 (left /\ x = new.node) \/ (right /\ x = list[k + 1].node)
  BY <1>4, <1>8, <1>15
<1>20. \A x : x \in Nodes(t) <=> /\ x \in Nodes(list) \/ x = new.node
                                 /\ ~(left /\ x = new.node)
                                 /\ ~(right /\ x = list[k + 1].node)
  BY <1>17, <1>18, <1>19
<1> QED
  BY <1>17, <1>20 DEF t, left, right, k, L

\* vgetmem tells the node it unlinks.
LEMMA vgetmemNodes ==
  ASSUME NEW vm, NEW lo \in Int, NEW hi \in Int, Sound(VNodes, vm.list, lo, hi),
         NodesApart(vm.list), NEW n
  PROVE  LET got == vgetmem(vm, n) IN
         /\ got.unlinked = INTAB \/ got.unlinked \in Nodes(vm.list)
         /\ NodesApart(got.vm.list)
         /\ Nodes(got.vm.list) = Nodes(vm.list) \ {got.unlinked}
<1> DEFINE got == vgetmem(vm, n)
           list == vm.list
           m == roundmb(n)
           i == Min(LongEnough(list, m))
           b == list[i]
           c == [b EXCEPT !.addr = b.addr + m, !.len = b.len - m]
           t == IF b.len = m THEN RemoveAt(list, i) ELSE ReplaceAt(list, i, c)
           x == IF b.len = m THEN b.node ELSE INTAB
<1>0. INTAB \notin Nodes(list)
  BY DEF Nodes
<1>1. CASE n = 0 \/ LongEnough(list, m) = {}
  <2>1. got = [addr |-> SYSERR, vm |-> vm, unlinked |-> INTAB]
    BY <1>1 DEF vgetmem
  <2>2. got.unlinked = INTAB /\ got.vm = vm
    BY <2>1
  <2> HIDE DEF got
  <2> QED
    BY <1>0, <2>2 DEF got
<1>2. CASE ~(n = 0 \/ LongEnough(list, m) = {})
  <2>1. got.unlinked = x /\ got.vm.list = t
    <3>1. got = [addr |-> b.addr, vm |-> [list |-> t, mlength |-> vm.mlength - m],
                 unlinked |-> x]
      BY <1>2 DEF vgetmem
    <3> HIDE DEF t, b, x
    <3> QED
      BY <3>1
  <2>2. LongEnough(list, m) \subseteq 1..Len(list) /\ list \in Seq(VNodes)
    BY DEF LongEnough, Sound
  <2>3. i \in LongEnough(list, m)
    BY <1>2, <2>2, LeastNat
  <2> HIDE DEF i
  <2>4. i \in 1..Len(list) /\ b \in VNodes
    BY <2>2, <2>3
  <2>5. CASE b.len = m
    <3>1. t = RemoveAt(list, i) /\ x = b.node
      BY <2>5
    <3> HIDE DEF t, x
    <3>2. NodesApart(t) /\ Nodes(t) = Nodes(list) \ {x}
      BY <2>2, <2>4, <3>1, RemoveNodes
    <3>3. x = INTAB \/ x \in Nodes(list)
      BY <2>4, <3>1 DEF Nodes
    <3> HIDE DEF got
    <3> QED
      BY <2>1, <3>2, <3>3 DEF got
  <2>6. CASE b.len # m
    <3>1. t = ReplaceAt(list, i, c) /\ x = INTAB
      BY <2>6
    <3>2. c.node = b.node
      BY <2>4 DEF VNodes
    <3> HIDE DEF t, x, c
    <3>3. /\ Len(t) = Len(list)
          /\ \A j \in 1..Len(list) : t[j].node = list[j].node
      BY <2>2, <2>4, <3>1, <3>2 DEF ReplaceAt
    <3>4. NodesApart(t) /\ Nodes(t) = Nodes(list)
      BY <3>3 DEF NodesApart, Nodes
    <3> HIDE DEF got
    <3> QED
      BY <1>0, <2>1, <3>1, <3>4 DEF got
  <2> QED
    BY <2>5, <2>6
<1> QED
  BY <1>1, <1>2

----------------------------------------------------------------------------
\* How the holders of a unit change.

\* Nobody's part of the heap changes ...
LEMMA HoldersKept ==
  ASSUME held' = held, stacks' = stacks, Nodes(vheap'.list) = Nodes(vheap.list), lost' = lost,
         NEW u, ByPools(u)' = ByPools(u)
  PROVE  Holders(u)' = Holders(u)
<1>1. ByCallers(u)' = ByCallers(u)
  BY DEF ByCallers
<1>2. ByStacks(u)' = ByStacks(u)
  BY DEF ByStacks
<1>3. ByNodes(u)' = ByNodes(u)
  BY DEF ByNodes
<1>4. Nowhere(u)' = Nowhere(u)
  BY DEF Nowhere
<1> QED
  BY <1>1, <1>2, <1>3, <1>4 DEF Holders

\* ... a caller gets block b, or gives it up ...
LEMMA CallerComes ==
  ASSUME stacks' = stacks, vheap' = vheap, lost' = lost, buftab' = buftab, NEW u,
         NEW b, held' = held \cup {b}
  PROVE  Holders(u)' = IF u \in HeldUnits(b) THEN Holders(u) \cup {<<"held", b>>}
                       ELSE Holders(u)
<1>1. ByCallers(u)' = IF u \in HeldUnits(b) THEN ByCallers(u) \cup {<<"held", b>>}
                      ELSE ByCallers(u)
  BY DEF ByCallers
<1>2. /\ ByStacks(u)' = ByStacks(u) /\ ByNodes(u)' = ByNodes(u)
      /\ ByPools(u)' = ByPools(u) /\ Nowhere(u)' = Nowhere(u)
  BY DEF ByStacks, ByNodes, ByPools, PoolUnits, Nowhere
<1> QED
  BY <1>1, <1>2 DEF Holders

LEMMA CallerGoes ==
  ASSUME stacks' = stacks, vheap' = vheap, lost' = lost, buftab' = buftab, NEW u,
         NEW b \in held, held' = held \ {b}
  PROVE  IF u \in HeldUnits(b)
         THEN <<"held", b>> \in Holders(u) /\ Holders(u)' = Holders(u) \ {<<"held", b>>}
         ELSE Holders(u)' = Holders(u)
<1> DEFINE o == <<"held", b>>
<1>1. u \in HeldUnits(b) => o \in ByCallers(u)
  BY DEF ByCallers
<1>2. ByCallers(u)' = IF u \in HeldUnits(b) THEN ByCallers(u) \ {o} ELSE ByCallers(u)
  BY DEF ByCallers
<1>3. o \notin ByStacks(u) /\ o \notin ByNodes(u) /\ o \notin ByPools(u) /\ o \notin Nowhere(u)
  BY DEF ByStacks, ByNodes, ByPools, Nowhere
<1>4. /\ ByStacks(u)' = ByStacks(u) /\ ByNodes(u)' = ByNodes(u)
      /\ ByPools(u)' = ByPools(u) /\ Nowhere(u)' = Nowhere(u)
  BY DEF ByStacks, ByNodes, ByPools, PoolUnits, Nowhere
<1> HIDE DEF o
<1>5. IF u \in HeldUnits(b) THEN o \in Holders(u) /\ Holders(u)' = Holders(u) \ {o}
      ELSE Holders(u)' = Holders(u)
  BY <1>1, <1>2, <1>3, <1>4 DEF Holders
<1> QED
  BY <1>5 DEF o

\* ... a caller gets stack b, or gives it up ...
LEMMA StackComes ==
  ASSUME held' = held, vheap' = vheap, lost' = lost, buftab' = buftab, NEW u,
         NEW b, stacks' = stacks \cup {b}
  PROVE  Holders(u)' = IF u \in StackUnits(b) THEN Holders(u) \cup {<<"stack", b>>}
                       ELSE Holders(u)
<1>1. ByStacks(u)' = IF u \in StackUnits(b) THEN ByStacks(u) \cup {<<"stack", b>>}
                     ELSE ByStacks(u)
  BY DEF ByStacks
<1>2. /\ ByCallers(u)' = ByCallers(u) /\ ByNodes(u)' = ByNodes(u)
      /\ ByPools(u)' = ByPools(u) /\ Nowhere(u)' = Nowhere(u)
  BY DEF ByCallers, ByNodes, ByPools, PoolUnits, Nowhere
<1> QED
  BY <1>1, <1>2 DEF Holders

LEMMA StackGoes ==
  ASSUME held' = held, vheap' = vheap, lost' = lost, buftab' = buftab, NEW u,
         NEW b \in stacks, stacks' = stacks \ {b}
  PROVE  IF u \in StackUnits(b)
         THEN <<"stack", b>> \in Holders(u) /\ Holders(u)' = Holders(u) \ {<<"stack", b>>}
         ELSE Holders(u)' = Holders(u)
<1> DEFINE o == <<"stack", b>>
<1>1. u \in StackUnits(b) => o \in ByStacks(u)
  BY DEF ByStacks
<1>2. ByStacks(u)' = IF u \in StackUnits(b) THEN ByStacks(u) \ {o} ELSE ByStacks(u)
  BY DEF ByStacks
<1>3. o \notin ByCallers(u) /\ o \notin ByNodes(u) /\ o \notin ByPools(u) /\ o \notin Nowhere(u)
  BY DEF ByCallers, ByNodes, ByPools, Nowhere
<1>4. /\ ByCallers(u)' = ByCallers(u) /\ ByNodes(u)' = ByNodes(u)
      /\ ByPools(u)' = ByPools(u) /\ Nowhere(u)' = Nowhere(u)
  BY DEF ByCallers, ByNodes, ByPools, PoolUnits, Nowhere
<1> HIDE DEF o
<1>5. IF u \in StackUnits(b) THEN o \in Holders(u) /\ Holders(u)' = Holders(u) \ {o}
      ELSE Holders(u)' = Holders(u)
  BY <1>1, <1>2, <1>3, <1>4 DEF Holders
<1> QED
  BY <1>5 DEF o

\* ... the virtual list gets node x, if comes, and node y is forgotten, if there is one ...
LEMMA NodesMove ==
  ASSUME held' = held, stacks' = stacks, buftab' = buftab, NEW u,
         NEW x, NEW y, NEW comes \in BOOLEAN, y = INTAB \/ y \in Nodes(vheap.list), x # y,
         lost' = lost \cup LostNode(y),
         \A z : z \in Nodes(vheap'.list) <=>
                   (z \in Nodes(vheap.list) \/ (comes /\ z = x)) /\ z # y
  PROVE  LET hs == IF comes /\ u \in NodeUnits(x) THEN Holders(u) \cup {<<"node", x>>}
                   ELSE Holders(u)
         IN  IF u \in LostNode(y)
             THEN <<"node", y>> \in hs /\ Holders(u)' = (hs \ {<<"node", y>>}) \cup {<<"lost", u>>}
             ELSE Holders(u)' = hs
<1> DEFINE o == <<"node", y>>
           l == <<"lost", u>>
           ns == IF comes /\ u \in NodeUnits(x) THEN ByNodes(u) \cup {<<"node", x>>}
                 ELSE ByNodes(u)
           hs == IF comes /\ u \in NodeUnits(x) THEN Holders(u) \cup {<<"node", x>>}
                 ELSE Holders(u)
           rest == ByCallers(u) \cup ByStacks(u) \cup ByPools(u) \cup Nowhere(u)
<1>1. u \in LostNode(y) => y # INTAB /\ y \in Nodes(vheap.list) /\ u \in NodeUnits(y)
  BY DEF LostNode, NodeUnits
<1>2. u \in LostNode(y) => o \in ns
  BY <1>1 DEF ByNodes
<1>3. ASSUME u \notin LostNode(y), NEW z, z \in Nodes(vheap.list) \/ (comes /\ z = x),
             u \in NodeUnits(z)
      PROVE  z # y
  <2>1. CASE y = INTAB
    <3>1. INTAB \notin Nodes(vheap.list)
      BY DEF Nodes
    <3> QED
      BY <1>3, <2>1, <3>1
  <2>2. CASE y # INTAB
    BY <1>3, <2>2 DEF LostNode, NodeUnits
  <2> QED
    BY <2>1, <2>2
<1>4. \A z : <<"node", z>> = o <=> z = y
  OBVIOUS
<1>5. ByNodes(u)' = IF u \in LostNode(y) THEN ns \ {o} ELSE ns
  <2>1. ASSUME NEW t PROVE t \in ByNodes(u)' <=>
            \E z : t = <<"node", z>> /\ z \in Nodes(vheap'.list) /\ u \in NodeUnits(z)
    BY DEF ByNodes
  <2>2. ASSUME NEW t PROVE t \in ns <=>
            \E z : /\ t = <<"node", z>> /\ u \in NodeUnits(z)
                   /\ z \in Nodes(vheap.list) \/ (comes /\ z = x)
    BY DEF ByNodes
  <2> HIDE DEF ns, o
  <2>3. ASSUME NEW t PROVE t \in ByNodes(u)' <=> t \in (IF u \in LostNode(y) THEN ns \ {o} ELSE ns)
    BY <1>3, <1>4, <2>1, <2>2
  <2> QED
    BY <2>3
<1>6. Nowhere(u)' = IF u \in LostNode(y) THEN Nowhere(u) \cup {l} ELSE Nowhere(u)
  BY DEF Nowhere
<1>7. /\ ByCallers(u)' = ByCallers(u) /\ ByStacks(u)' = ByStacks(u) /\ ByPools(u)' = ByPools(u)
  BY DEF ByCallers, ByStacks, ByPools, PoolUnits
<1>8. o \notin rest
  BY DEF ByCallers, ByStacks, ByPools, Nowhere
<1>9. hs = ns \cup rest
  BY DEF Holders
<1>10. Holders(u)' = ByNodes(u)' \cup (IF u \in LostNode(y) THEN rest \cup {l} ELSE rest)
  BY <1>6, <1>7 DEF Holders
<1> HIDE DEF hs, ns, rest, o, l
<1>11. IF u \in LostNode(y) THEN o \in hs /\ Holders(u)' = (hs \ {o}) \cup {l}
       ELSE Holders(u)' = hs
  BY <1>2, <1>5, <1>8, <1>9, <1>10
<1> QED
  BY <1>11 DEF hs, o, l

\* ... a pool is made ...
LEMMA PoolComes ==
  ASSUME held' = held, stacks' = stacks, vheap' = vheap, lost' = lost, NEW u,
         NEW S, buftab \in Seq(S), NEW pool, buftab' = Append(buftab, pool)
  PROVE  Holders(u)' = IF u \in UnitsOf(pool.addr, roundmb(pool.num * pool.size))
                       THEN Holders(u) \cup {<<"pool", Len(buftab) + 1>>} ELSE Holders(u)
<1> DEFINE U == UnitsOf(pool.addr, roundmb(pool.num * pool.size))
<1>0. PICK n : n = Len(buftab) + 1
  OBVIOUS
<1>1. /\ DOMAIN buftab' = 1..n /\ DOMAIN buftab = 1..Len(buftab) /\ n \in Int /\ n >= 1
      /\ \A i \in 1..Len(buftab) : buftab'[i] = buftab[i]
      /\ buftab'[n] = pool
  BY <1>0, LenProperties, AppendProperties
<1>2. \A i \in 1..n : u \in PoolUnits(i)' <=>
                         \/ i \in 1..Len(buftab) /\ u \in PoolUnits(i)
                         \/ i = n /\ u \in U
  <2>1. ASSUME NEW i \in 1..Len(buftab) PROVE PoolUnits(i)' = PoolUnits(i)
    BY <1>1, <2>1 DEF PoolUnits
  <2>2. PoolUnits(n)' = U
    BY <1>1 DEF PoolUnits
  <2>3. \A i \in 1..n : i \in 1..Len(buftab) \/ i = n
    BY <1>0, LenProperties
  <2>4. n \notin 1..Len(buftab)
    BY <1>0, LenProperties
  <2> HIDE DEF U
  <2> SUFFICES ASSUME NEW i \in 1..n
               PROVE  u \in PoolUnits(i)' <=> \/ (i \in 1..Len(buftab) /\ u \in PoolUnits(i))
                                              \/ (i = n /\ u \in U)
    OBVIOUS
  <2>5. CASE i = n
    BY <2>2, <2>4, <2>5
  <2>6. CASE i # n
    BY <2>1, <2>3, <2>6
  <2> QED
    BY <2>5, <2>6
<1>3. n \in 1..n /\ \A i \in 1..Len(buftab) : i \in 1..n
  BY <1>0, <1>1
<1> HIDE DEF U
<1>4. ByPools(u)' = IF u \in U THEN ByPools(u) \cup {<<"pool", n>>} ELSE ByPools(u)
  <2>1. ASSUME NEW t PROVE t \in ByPools(u)' <=>
            \E i \in 1..n : t = <<"pool", i>> /\ u \in PoolUnits(i)'
    BY <1>1 DEF ByPools
  <2>2. ASSUME NEW t PROVE t \in ByPools(u) <=>
            \E i \in 1..Len(buftab) : t = <<"pool", i>> /\ u \in PoolUnits(i)
    BY <1>1 DEF ByPools
  <2>3. ASSUME NEW t
        PROVE  t \in ByPools(u)' <=> t \in ByPools(u) \/ (u \in U /\ t = <<"pool", n>>)
    BY <1>2, <1>3, <2>1, <2>2
  <2> QED
    BY <2>3
<1>5. /\ ByCallers(u)' = ByCallers(u) /\ ByStacks(u)' = ByStacks(u)
      /\ ByNodes(u)' = ByNodes(u) /\ Nowhere(u)' = Nowhere(u)
  BY DEF ByCallers, ByStacks, ByNodes, Nowhere
<1>6. Holders(u)' = IF u \in U THEN Holders(u) \cup {<<"pool", n>>} ELSE Holders(u)
  BY <1>4, <1>5 DEF Holders
<1> QED
  BY <1>0, <1>6 DEF U

\* ... a block is lost ...
LEMMA LostComes ==
  ASSUME held' = held, stacks' = stacks, vheap' = vheap, buftab' = buftab, NEW u,
         NEW U, lost' = lost \cup U
  PROVE  Holders(u)' = IF u \in U THEN Holders(u) \cup {<<"lost", u>>} ELSE Holders(u)
<1>1. Nowhere(u)' = IF u \in U THEN Nowhere(u) \cup {<<"lost", u>>} ELSE Nowhere(u)
  BY DEF Nowhere
<1>2. /\ ByCallers(u)' = ByCallers(u) /\ ByStacks(u)' = ByStacks(u)
      /\ ByNodes(u)' = ByNodes(u) /\ ByPools(u)' = ByPools(u)
  BY DEF ByCallers, ByStacks, ByNodes, ByPools, PoolUnits
<1> QED
  BY <1>1, <1>2 DEF Holders

\* ... or a whole virtual list is.
LEMMA NodesGo ==
  ASSUME held' = held, stacks' = stacks, buftab' = buftab, NEW u,
         Nodes(vheap'.list) = {}, NEW units, NEW free,
         lost' = lost \cup UNION {NodeUnits(x) : x \in Nodes(vheap.list)},
         Good(u, units, free, Holders(u))
  PROVE  Good(u, units, free, Holders(u)')
<1>1. ByNodes(u)' = {}
  BY DEF ByNodes
<1>2. /\ ByCallers(u)' = ByCallers(u) /\ ByStacks(u)' = ByStacks(u) /\ ByPools(u)' = ByPools(u)
  BY DEF ByCallers, ByStacks, ByPools, PoolUnits
<1>3. CASE \E x \in Nodes(vheap.list) : u \in NodeUnits(x)
  <2>1. PICK x \in Nodes(vheap.list) : u \in NodeUnits(x)
    BY <1>3
  <2> DEFINE o == <<"node", x>>
  <2>2. o \in ByNodes(u)
    BY <2>1 DEF ByNodes
  <2>3. o \notin ByCallers(u) /\ o \notin ByStacks(u) /\ o \notin ByPools(u) /\ o \notin Nowhere(u)
    BY DEF ByCallers, ByStacks, ByPools, Nowhere
  <2>4. Nowhere(u)' = Nowhere(u) \cup {<<"lost", u>>}
    BY <2>1 DEF Nowhere
  <2> HIDE DEF o
  <2>5. u \in units /\ u \notin free /\ Holders(u) = {o}
    BY <2>2 DEF Good, Holders
  <2>6. ByCallers(u) = {} /\ ByStacks(u) = {} /\ ByPools(u) = {} /\ Nowhere(u) = {}
    BY <2>3, <2>5 DEF Holders
  <2>7. Holders(u)' = {<<"lost", u>>}
    BY <1>1, <1>2, <2>4, <2>6 DEF Holders
  <2> QED
    BY <2>5, <2>7 DEF Good
<1>4. CASE ~\E x \in Nodes(vheap.list) : u \in NodeUnits(x)
  <2>1. ByNodes(u) = {}
    BY <1>4 DEF ByNodes
  <2>2. Nowhere(u)' = Nowhere(u)
    BY <1>4 DEF Nowhere
  <2>3. Holders(u)' = Holders(u)
    BY <1>1, <1>2, <2>1, <2>2 DEF Holders
  <2> QED
    BY <2>3
<1> QED
  BY <1>3, <1>4

----------------------------------------------------------------------------
\* The accounts of both heaps.

KUnits == UnitsOf(minheap, maxheap - minheap)
VUnits == UnitsOf(vmin, vmax - vmin)
VHolders(u) == {b \in vheld : u \in HeldUnits(b)}

Counted(m) == m.mlength = 8 * Cardinality(FreeUnits(m.list))

\* The totals are right, each unit of the heap is free or has one holder, the nodes
\* of the virtual list are different ones, and each unit of the virtual heap is free
\* or belongs to one block.
KernelShared ==
    /\ Counted(mem)
    /\ \A u : Good(u, KUnits, FreeUnits(mem.list), Holders(u))
VirtualShared ==
    /\ Counted(vheap)
    /\ NodesApart(vheap.list)
    /\ up => \A u : Good(u, VUnits, FreeUnits(vheap.list), VHolders(u))

\* The four ways in which the kernel's heap changes.
LEMMA KernelGiven ==
  ASSUME AllocInv, KernelShared, NEW a, NEW n,
         Given(KNodes, mem.list, mem'.list, minheap, maxheap, a, n),
         mem'.mlength = mem.mlength - n,
         \A u : \E o : Holders(u)' = IF u \in UnitsOf(a, n) THEN Holders(u) \cup {o}
                                     ELSE Holders(u)
  PROVE  KernelShared'
<1>1. /\ minheap \in Int /\ maxheap \in Int /\ minheap % 8 = 0 /\ maxheap % 8 = 0
      /\ Sound(KNodes, mem.list, minheap, maxheap)
  BY HeapAssumption DEF AllocInv
<1>2. Counted(mem)'
  BY <1>1, GivenCount DEF KernelShared, Counted
<1>3. FreeUnits(mem.list) \subseteq KUnits
  BY <1>1, FreeInHeap DEF KUnits
<1>4. ASSUME NEW u PROVE Good(u, KUnits, FreeUnits(mem'.list), Holders(u)')
  <2>1. Good(u, KUnits, FreeUnits(mem.list), Holders(u))
    BY DEF KernelShared
  <2>2. /\ UnitsOf(a, n) \subseteq FreeUnits(mem.list)
        /\ FreeUnits(mem'.list) = FreeUnits(mem.list) \ UnitsOf(a, n)
    BY DEF Given
  <2>3. PICK o : Holders(u)' = IF u \in UnitsOf(a, n) THEN Holders(u) \cup {o} ELSE Holders(u)
    OBVIOUS
  <2> QED
    BY <1>3, <2>1, <2>2, <2>3, GoodGiven
<1>5. KUnits' = KUnits
  BY DEF KUnits
<1> QED
  BY <1>2, <1>4, <1>5 DEF KernelShared

LEMMA KernelReturned ==
  ASSUME AllocInv, KernelShared, NEW a, NEW n, Placed(a, n, minheap, maxheap),
         Returned(KNodes, mem.list, mem'.list, minheap, maxheap, a, n),
         mem'.mlength = mem.mlength + n,
         \A u : \E o : IF u \in UnitsOf(a, n)
                       THEN o \in Holders(u) /\ Holders(u)' = Holders(u) \ {o}
                       ELSE Holders(u)' = Holders(u)
  PROVE  KernelShared'
<1>1. /\ minheap \in Int /\ maxheap \in Int /\ minheap % 8 = 0 /\ maxheap % 8 = 0
      /\ Sound(KNodes, mem.list, minheap, maxheap)
  BY HeapAssumption DEF AllocInv
<1>2. Counted(mem)'
  BY <1>1, ReturnedCount DEF KernelShared, Counted
<1>4. ASSUME NEW u PROVE Good(u, KUnits, FreeUnits(mem'.list), Holders(u)')
  <2>1. Good(u, KUnits, FreeUnits(mem.list), Holders(u))
    BY DEF KernelShared
  <2>2. /\ UnitsOf(a, n) \cap FreeUnits(mem.list) = {}
        /\ FreeUnits(mem'.list) = FreeUnits(mem.list) \cup UnitsOf(a, n)
    BY DEF Returned
  <2>3. PICK o : IF u \in UnitsOf(a, n)
                 THEN o \in Holders(u) /\ Holders(u)' = Holders(u) \ {o}
                 ELSE Holders(u)' = Holders(u)
    OBVIOUS
  <2> QED
    BY <2>1, <2>2, <2>3, GoodReturned
<1>5. KUnits' = KUnits
  BY DEF KUnits
<1> QED
  BY <1>2, <1>4, <1>5 DEF KernelShared

LEMMA KernelKept ==
  ASSUME KernelShared, FreeUnits(mem'.list) = FreeUnits(mem.list), mem'.mlength = mem.mlength,
         \A u : Good(u, KUnits, FreeUnits(mem.list), Holders(u)')
  PROVE  KernelShared'
<1>1. KUnits' = KUnits
  BY DEF KUnits
<1>2. Counted(mem)'
  BY DEF KernelShared, Counted
<1> QED
  BY <1>1, <1>2 DEF KernelShared

LEMMA KernelStays ==
  ASSUME KernelShared, mem' = mem, \A u : Holders(u)' = Holders(u)
  PROVE  KernelShared'
<1>1. \A u : Good(u, KUnits, FreeUnits(mem.list), Holders(u)')
  BY DEF KernelShared
<1> QED
  BY <1>1, KernelKept

\* The ways in which the virtual heap changes.
LEMMA VirtualGiven ==
  ASSUME AllocInv, VirtualShared, NEW a, NEW n, up' = up, NodesApart(vheap'.list),
         Given(VNodes, vheap.list, vheap'.list, vmin, vmax, a, roundmb(n)),
         vheap'.mlength = vheap.mlength - roundmb(n),
         vheld' = vheld \cup {Block(a, n)}
  PROVE  VirtualShared'
<1>1. /\ vmin \in Int /\ vmax \in Int /\ vmin % 8 = 0 /\ vmax % 8 = 0
      /\ Sound(VNodes, vheap.list, vmin, vmax)
  BY HeapAssumption DEF AllocInv
<1>2. Counted(vheap)'
  BY <1>1, GivenCount DEF VirtualShared, Counted
<1>3. FreeUnits(vheap.list) \subseteq VUnits
  BY <1>1, FreeInHeap DEF VUnits
<1> DEFINE b == Block(a, n)
<1>4. HeldUnits(b) = UnitsOf(a, roundmb(n))
  BY DEF HeldUnits, Block
<1> HIDE DEF b
<1>5. ASSUME up, NEW u PROVE Good(u, VUnits, FreeUnits(vheap'.list), VHolders(u)')
  <2>1. Good(u, VUnits, FreeUnits(vheap.list), VHolders(u))
    BY <1>5 DEF VirtualShared
  <2>2. /\ HeldUnits(b) \subseteq FreeUnits(vheap.list)
        /\ FreeUnits(vheap'.list) = FreeUnits(vheap.list) \ HeldUnits(b)
    BY <1>4 DEF Given
  <2>3. vheld' = vheld \cup {b}
    BY DEF b
  <2>4. VHolders(u)' = IF u \in HeldUnits(b) THEN VHolders(u) \cup {b} ELSE VHolders(u)
    BY <2>3 DEF VHolders
  <2> QED
    BY <1>3, <2>1, <2>2, <2>4, GoodGiven
<1>6. VUnits' = VUnits
  BY DEF VUnits
<1> QED
  BY <1>2, <1>5, <1>6 DEF VirtualShared

\* A block that is taken back is not free: it was somebody's, or there is no such block.
LEMMA VirtualReturned ==
  ASSUME AllocInv, VirtualShared, NEW a, NEW n, up, NodesApart(vheap'.list),
         Placed(a, roundmb(n), vmin, vmax), Block(a, n) \in vheld,
         Returned(VNodes, vheap.list, vheap'.list, vmin, vmax, a, roundmb(n)),
         vheap'.mlength = vheap.mlength + roundmb(n),
         vheld' = vheld \ {Block(a, n)}
  PROVE  VirtualShared'
<1>1. /\ vmin \in Int /\ vmax \in Int /\ vmin % 8 = 0 /\ vmax % 8 = 0
      /\ Sound(VNodes, vheap.list, vmin, vmax)
  BY HeapAssumption DEF AllocInv
<1>2. Counted(vheap)'
  BY <1>1, ReturnedCount DEF VirtualShared, Counted
<1> DEFINE b == Block(a, n)
<1>4. HeldUnits(b) = UnitsOf(a, roundmb(n))
  BY DEF HeldUnits, Block
<1> HIDE DEF b
<1>5. ASSUME NEW u PROVE Good(u, VUnits, FreeUnits(vheap'.list), VHolders(u)')
  <2>1. Good(u, VUnits, FreeUnits(vheap.list), VHolders(u))
    BY DEF VirtualShared
  <2>2. /\ HeldUnits(b) \cap FreeUnits(vheap.list) = {}
        /\ FreeUnits(vheap'.list) = FreeUnits(vheap.list) \cup HeldUnits(b)
    BY <1>4 DEF Returned
  <2>3. b \in vheld /\ vheld' = vheld \ {b}
    BY DEF b
  <2>4. IF u \in HeldUnits(b) THEN b \in VHolders(u) /\ VHolders(u)' = VHolders(u) \ {b}
        ELSE VHolders(u)' = VHolders(u)
    BY <2>3 DEF VHolders
  <2> QED
    BY <2>1, <2>2, <2>4, GoodReturned
<1>6. VUnits' = VUnits
  BY DEF VUnits
<1> QED
  BY <1>2, <1>5, <1>6 DEF VirtualShared

LEMMA VirtualStays ==
  ASSUME VirtualShared, vheap' = vheap, vheld' = vheld \/ ~up', up' => up
  PROVE  VirtualShared'
<1>1. VUnits' = VUnits
  BY DEF VUnits
<1>2. vheld' = vheld => \A u : VHolders(u)' = VHolders(u)
  BY DEF VHolders
<1> QED
  BY <1>1, <1>2 DEF VirtualShared, Counted

\* Nothing changes hands.
LEMMA HoldersStay ==
  ASSUME held' = held, stacks' = stacks, vheap' = vheap, lost' = lost, buftab' = buftab
  PROVE  \A u : Holders(u)' = Holders(u)
<1> SUFFICES ASSUME NEW u PROVE Holders(u)' = Holders(u)
  OBVIOUS
<1>1. ByPools(u)' = ByPools(u)
  BY DEF ByPools, PoolUnits
<1> QED
  BY <1>1, HoldersKept

Shared == KernelShared /\ VirtualShared

LEMMA GetMemShares ==
  ASSUME AllocInv, Shared, NEW n \in Requests, GetMem(n)
  PROVE  Shared'
<1> DEFINE got == getmem(mem, n)
           b == Block(got.addr, n)
<1>1. /\ mem' = got.mem
      /\ held' = IF got.addr = SYSERR THEN held ELSE held \cup {b}
      /\ stacks' = stacks /\ vheap' = vheap /\ vheld' = vheld
      /\ lost' = lost /\ buftab' = buftab /\ up' = up
  BY DEF GetMem
<1>2. VirtualShared'
  BY <1>1, VirtualStays DEF Shared
<1>3. n \in Nat /\ n + 7 < 2^Width /\ minheap \in Nat /\ maxheap \in Int
  BY RequestsFit
<1>4. Sound(KNodes, mem.list, minheap, maxheap)
  BY DEF AllocInv
<1>5. IF got.addr = SYSERR THEN got.mem = mem
      ELSE /\ Served(KNodes, mem.list, got.mem.list, minheap, maxheap, got.addr, n)
           /\ got.mem.mlength = mem.mlength - roundmb(n)
  BY <1>3, <1>4, getmemServes
<1>6. HeldUnits(b) = UnitsOf(got.addr, roundmb(n))
  BY DEF HeldUnits, Block
<1> HIDE DEF got, b
<1>7. CASE got.addr = SYSERR
  <2>1. \A u : Holders(u)' = Holders(u)
    BY <1>1, <1>7, HoldersStay
  <2>2. mem' = mem
    BY <1>1, <1>5, <1>7
  <2> QED
    BY <1>2, <2>1, <2>2, KernelStays DEF Shared
<1>8. CASE got.addr # SYSERR
  <2>1. Given(KNodes, mem.list, mem'.list, minheap, maxheap, got.addr, roundmb(n))
        /\ mem'.mlength = mem.mlength - roundmb(n)
    BY <1>1, <1>5, <1>8 DEF Served
  <2>2. held' = held \cup {b}
    BY <1>1, <1>8
  <2>3. ASSUME NEW u
        PROVE  \E o : Holders(u)' = IF u \in UnitsOf(got.addr, roundmb(n))
                                    THEN Holders(u) \cup {o} ELSE Holders(u)
    BY <1>1, <1>6, <2>2, CallerComes
  <2>4. KernelShared'
    BY <2>1, <2>3, KernelGiven DEF Shared
  <2> QED
    BY <1>2, <2>4 DEF Shared
<1> QED
  BY <1>7, <1>8

LEMMA GetStkShares ==
  ASSUME AllocInv, Shared, NEW n \in Requests, GetStk(n)
  PROVE  Shared'
<1> DEFINE got == getstk(mem, n)
           b == Block(got.addr, n)
           a == got.addr + 4 - roundmb(n)
<1>1. /\ mem' = got.mem
      /\ stacks' = IF got.addr = SYSERR THEN stacks ELSE stacks \cup {b}
      /\ held' = held /\ vheap' = vheap /\ vheld' = vheld
      /\ lost' = lost /\ buftab' = buftab /\ up' = up
  BY DEF GetStk
<1>2. VirtualShared'
  BY <1>1, VirtualStays DEF Shared
<1>3. n \in Nat /\ n + 7 < 2^Width /\ minheap \in Nat /\ maxheap \in Int
  BY RequestsFit
<1>4. Sound(KNodes, mem.list, minheap, maxheap)
  BY DEF AllocInv
<1>5. IF got.addr = SYSERR THEN got.mem = mem
      ELSE /\ Served(KNodes, mem.list, got.mem.list, minheap, maxheap, a, n)
           /\ got.mem.mlength = mem.mlength - roundmb(n)
  BY <1>3, <1>4, getstkServes
<1>6. StackUnits(b) = UnitsOf(a, roundmb(n))
  BY DEF StackUnits, Block
<1> HIDE DEF got, b, a
<1>7. CASE got.addr = SYSERR
  <2>1. \A u : Holders(u)' = Holders(u)
    BY <1>1, <1>7, HoldersStay
  <2>2. mem' = mem
    BY <1>1, <1>5, <1>7
  <2> QED
    BY <1>2, <2>1, <2>2, KernelStays DEF Shared
<1>8. CASE got.addr # SYSERR
  <2>1. Given(KNodes, mem.list, mem'.list, minheap, maxheap, a, roundmb(n))
        /\ mem'.mlength = mem.mlength - roundmb(n)
    BY <1>1, <1>5, <1>8 DEF Served
  <2>2. stacks' = stacks \cup {b}
    BY <1>1, <1>8
  <2>3. ASSUME NEW u
        PROVE  \E o : Holders(u)' = IF u \in UnitsOf(a, roundmb(n))
                                    THEN Holders(u) \cup {o} ELSE Holders(u)
    BY <1>1, <1>6, <2>2, StackComes
  <2>4. KernelShared'
    BY <2>1, <2>3, KernelGiven DEF Shared
  <2> QED
    BY <1>2, <2>4 DEF Shared
<1> QED
  BY <1>7, <1>8

\* A block whose rounded size is not zero is not empty.
LEMMA NotEmpty ==
  ASSUME NEW n \in Nat, n + 7 < 2^Width, roundmb(n) > 0
  PROVE  n # 0
<1>1. roundmb(n) \in Nat /\ roundmb(n) % 8 = 0 /\ roundmb(n) <= n + 7
  BY Rounding
<1> DEFINE m == roundmb(n)
<1> HIDE DEF m
<1>2. m \in Nat /\ m % 8 = 0 /\ m <= n + 7 /\ m > 0
  BY <1>1 DEF m
<1> QED
  BY <1>2

LEMMA FreeMemShares ==
  ASSUME AllocInv, Shared, NEW a \in Addrs(minheap, maxheap), NEW n \in Requests,
         FreeMem(Block(a, n))
  PROVE  Shared'
<1> DEFINE b == Block(a, n)
           m == roundmb(n)
           new == freemem(mem, a, n).mem
           out == n = 0 \/ a < minheap \/ a > maxheap
                    \/ UnitsOf(a, m) \cap FreeUnits(mem.list) # {}
<1>1. /\ mem' = new /\ held' = held \ {b}
      /\ stacks' = stacks /\ vheap' = vheap /\ vheld' = vheld
      /\ lost' = lost /\ buftab' = buftab /\ up' = up
      /\ Freeable(b)
  BY DEF FreeMem, Block
<1>2. n \in Nat /\ n + 7 < 2^Width /\ minheap \in Nat /\ maxheap \in Nat /\ minheap % 8 = 0
  BY RequestsFit, HeapAssumption
<1>3. a \in Int /\ a % 8 = 0
  <2>1. PICK u \in UnitsOf(minheap - 8, maxheap - minheap + 8) : a = 8 * u
    BY DEF Addrs
  <2>2. u \in Int
    BY <1>2, <2>1 DEF UnitsOf
  <2> QED
    BY <2>1, <2>2
<1>4. Sound(KNodes, mem.list, minheap, maxheap)
  BY DEF AllocInv
<1>5. /\ out => new = mem
      /\ ~out /\ a + m <= maxheap =>
           /\ Placed(a, m, minheap, maxheap)
           /\ Returned(KNodes, mem.list, new.list, minheap, maxheap, a, m)
           /\ new.mlength = mem.mlength + m
  BY <1>2, <1>3, <1>4, freememReturns
<1>6. VirtualShared'
  BY <1>1, VirtualStays DEF Shared
<1>7. HeldUnits(b) = UnitsOf(a, m)
  BY DEF HeldUnits, Block
<1>8. CASE b \in held
  <2>1. Placed(a, m, minheap, maxheap)
    <3>1. Placed(b.addr, roundmb(b.nbytes), minheap, maxheap)
      BY <1>8 DEF AllocInv
    <3> QED
      BY <3>1 DEF Block
  <2> HIDE DEF b, m
  <2>2. m > 0 /\ minheap <= a /\ a + m <= maxheap /\ m \in Int
    BY <2>1 DEF Placed
  <2>3. n # 0
    BY <1>2, <2>2, NotEmpty DEF m
  <2>4. ASSUME NEW u \in UnitsOf(a, m) PROVE u \notin FreeUnits(mem.list)
    <3>1. <<"held", b>> \in Holders(u)
      BY <1>1, <1>7, <1>8, CallerGoes
    <3>2. Good(u, KUnits, FreeUnits(mem.list), Holders(u))
      BY DEF Shared, KernelShared
    <3> QED
      BY <3>1, <3>2, HeldNotFree
  <2>5. UnitsOf(a, m) \cap FreeUnits(mem.list) = {}
    BY <2>4
  <2>6. ~(a < minheap) /\ ~(a > maxheap)
    BY <1>2, <1>3, <2>2
  <2>7. ~out
    BY <2>3, <2>5, <2>6
  <2>8. /\ Returned(KNodes, mem.list, mem'.list, minheap, maxheap, a, m)
        /\ mem'.mlength = mem.mlength + m
    BY <1>1, <1>5, <2>2, <2>7
  <2> HIDE DEF new, out
  <2>9. ASSUME NEW u
        PROVE  \E o : IF u \in UnitsOf(a, m)
                      THEN o \in Holders(u) /\ Holders(u)' = Holders(u) \ {o}
                      ELSE Holders(u)' = Holders(u)
    BY <1>1, <1>7, <1>8, CallerGoes
  <2>10. KernelShared'
    BY <2>1, <2>8, <2>9, KernelReturned DEF Shared
  <2> QED
    BY <1>6, <2>10 DEF Shared
<1>9. CASE b \notin held
  <2>1. UnitsOf(a, m) \subseteq FreeUnits(mem.list) \cup UnitsOf(0, minheap)
    BY <1>1, <1>9 DEF Freeable, Block
  <2>2. out
    <3> SUFFICES ASSUME ~out PROVE FALSE
      OBVIOUS
    <3>1. /\ n # 0 /\ ~(a < minheap) /\ UnitsOf(a, m) \cap FreeUnits(mem.list) = {}
      OBVIOUS
    <3>2. m \in Nat /\ m % 8 = 0 /\ m > 0
      BY <1>2, <3>1, Rounding
    <3> HIDE DEF m
    <3>3. a < minheap
      BY <1>2, <1>3, <2>1, <3>1, <3>2, FreedInside
    <3> QED
      BY <3>1, <3>3
  <2>3. mem' = mem
    BY <1>1, <1>5, <2>2
  <2>4. held' = held
    BY <1>1, <1>9
  <2> HIDE DEF b, m, new, out
  <2>5. \A u : Holders(u)' = Holders(u)
    BY <1>1, <2>4, HoldersStay
  <2> QED
    BY <1>6, <2>3, <2>5, KernelStays DEF Shared
<1> QED
  BY <1>8, <1>9

LEMMA FreeStkShares ==
  ASSUME AllocInv, Shared, NEW b \in stacks, FreeStk(b)
  PROVE  Shared'
<1> DEFINE r == roundmb(b.nbytes)
           a == b.addr - r + 4
           m == roundmb(r)
           new == freemem(mem, a, r).mem
           out == r = 0 \/ a < minheap \/ a > maxheap
                    \/ UnitsOf(a, m) \cap FreeUnits(mem.list) # {}
<1>1. /\ mem' = new /\ stacks' = stacks \ {b}
      /\ held' = held /\ vheap' = vheap /\ vheld' = vheld
      /\ lost' = lost /\ buftab' = buftab /\ up' = up
  BY DEF FreeStk, freestk
<1>2. /\ minheap \in Nat /\ maxheap \in Nat /\ minheap > 0 /\ minheap % 8 = 0
      /\ maxheap \in Int /\ maxheap < 2^Width /\ 2^Width \in Int
  BY HeapAssumption
<1>3. /\ b.addr \in Int /\ b.nbytes \in Requests
      /\ Placed(b.addr + 4 - r, r, minheap, maxheap)
  BY DEF AllocInv
<1>4. b.nbytes \in Nat /\ b.nbytes + 7 < 2^Width
  BY <1>3, RequestsFit
<1>5. r \in Nat /\ r % 8 = 0
  BY <1>4, Rounding
<1> DEFINE x == b.addr
<1>6. /\ Placed(a, r, minheap, maxheap) /\ r > 0 /\ r + 7 < 2^Width
      /\ a \in Int /\ a % 8 = 0 /\ a = b.addr + 4 - r
      /\ minheap <= a /\ a + r <= maxheap
  <2>1. x \in Int /\ Placed(x + 4 - r, r, minheap, maxheap) /\ a = x - r + 4
    BY <1>3
  <2> HIDE DEF x, r, a
  <2>2. a = x + 4 - r
    BY <2>1, <1>5
  <2>3. Placed(a, r, minheap, maxheap)
    BY <2>1, <2>2
  <2>4. a \in Int /\ r > 0 /\ a + r <= maxheap /\ minheap <= a /\ a % 8 = 0
    BY <2>3 DEF Placed
  <2>5. r + 7 < 2^Width
    <3> DEFINE w == 2^Width
    <3>1. w \in Int /\ maxheap < w
      BY <1>2
    <3> HIDE DEF w
    <3>2. r + 8 <= maxheap
      BY <2>4, <1>2, <1>5
    <3>3. r + 7 < w
      BY <3>1, <3>2, <1>2, <1>5
    <3> QED
      BY <3>3 DEF w
  <2> QED
    BY <2>2, <2>3, <2>4, <2>5 DEF x
<1>7. m = r
  <2> HIDE DEF r
  <2> QED
    BY <1>5, <1>6, RoundAgain
<1>8. Sound(KNodes, mem.list, minheap, maxheap)
  BY DEF AllocInv
<1>9. ~out /\ a + m <= maxheap =>
           /\ Placed(a, m, minheap, maxheap)
           /\ Returned(KNodes, mem.list, new.list, minheap, maxheap, a, m)
           /\ new.mlength = mem.mlength + m
  <2> HIDE DEF r, a
  <2> QED
    BY <1>5, <1>6, <1>8, freememReturns
<1>10. StackUnits(b) = UnitsOf(a, m)
  <2>1. StackUnits(b) = UnitsOf(b.addr + 4 - r, r)
    BY DEF StackUnits
  <2> HIDE DEF r, a, m
  <2> QED
    BY <1>6, <1>7, <2>1
<1>11. VirtualShared'
  BY <1>1, VirtualStays DEF Shared
<1>12. ASSUME NEW u \in UnitsOf(a, m) PROVE u \notin FreeUnits(mem.list)
  <2> HIDE DEF r, a, m
  <2>1. <<"stack", b>> \in Holders(u)
    BY <1>1, <1>10, StackGoes
  <2>2. Good(u, KUnits, FreeUnits(mem.list), Holders(u))
    BY DEF Shared, KernelShared
  <2> QED
    BY <2>1, <2>2, HeldNotFree
<1>13. ~out
  <2>1. UnitsOf(a, m) \cap FreeUnits(mem.list) = {}
    BY <1>12
  <2> HIDE DEF r, a, m
  <2>2. ~(r = 0) /\ ~(a < minheap) /\ ~(a > maxheap)
    BY <1>2, <1>5, <1>6
  <2> QED
    BY <2>1, <2>2
<1>14. a + m <= maxheap
  <2> HIDE DEF r, a, m
  <2> QED
    BY <1>6, <1>7
<1>15. /\ Placed(a, m, minheap, maxheap)
       /\ Returned(KNodes, mem.list, mem'.list, minheap, maxheap, a, m)
       /\ mem'.mlength = mem.mlength + m
  BY <1>1, <1>9, <1>13, <1>14
<1> HIDE DEF r, a, m, new, out
<1>16. ASSUME NEW u
       PROVE  \E o : IF u \in UnitsOf(a, m)
                     THEN o \in Holders(u) /\ Holders(u)' = Holders(u) \ {o}
                     ELSE Holders(u)' = Holders(u)
  BY <1>1, <1>10, StackGoes
<1>17. KernelShared'
  BY <1>15, <1>16, KernelReturned DEF Shared
<1> QED
  BY <1>11, <1>17 DEF Shared

\* The nodes are addresses.
LEMMA NodesAreInts ==
  ASSUME AllocInv, NEW x \in Nodes(vheap.list)
  PROVE  x \in Int
<1>1. PICK i \in 1..Len(vheap.list) : x = vheap.list[i].node
  BY DEF Nodes
<1>2. vheap.list[i] \in VNodes
  BY DEF AllocInv, Sound
<1> QED
  BY <1>1, <1>2 DEF VNodes

\* When a node of the virtual list is forgotten, its memory is lost.
LEMMA NodeLost ==
  ASSUME AllocInv, KernelShared, held' = held, stacks' = stacks, buftab' = buftab,
         FreeUnits(mem'.list) = FreeUnits(mem.list), mem'.mlength = mem.mlength,
         NEW y, y = INTAB \/ y \in Nodes(vheap.list),
         lost' = lost \cup LostNode(y), Nodes(vheap'.list) = Nodes(vheap.list) \ {y}
  PROVE  KernelShared'
<1>1. y \in Int
  BY NodesAreInts DEF INTAB
<1>2. y + 1 # y
  BY <1>1
<1>3. ASSUME NEW u PROVE Good(u, KUnits, FreeUnits(mem.list), Holders(u)')
  <2>1. Good(u, KUnits, FreeUnits(mem.list), Holders(u))
    BY DEF KernelShared
  <2>2. \A z : z \in Nodes(vheap'.list) <=>
                  (z \in Nodes(vheap.list) \/ (FALSE /\ z = y + 1)) /\ z # y
    OBVIOUS
  <2>3. IF u \in LostNode(y)
        THEN <<"node", y>> \in Holders(u)
             /\ Holders(u)' = (Holders(u) \ {<<"node", y>>}) \cup {<<"lost", u>>}
        ELSE Holders(u)' = Holders(u)
    BY <1>2, <2>2, NodesMove
  <2> QED
    BY <2>1, <2>3, GoodMoved
<1> QED
  BY <1>3, KernelKept

LEMMA VGetMemShares ==
  ASSUME AllocInv, Shared, NEW n \in VRequests, VGetMem(n)
  PROVE  Shared'
<1> DEFINE got == vgetmem(vheap, n)
<1>1. /\ vheap' = got.vm
      /\ vheld' = IF got.addr = SYSERR THEN vheld ELSE vheld \cup {Block(got.addr, n)}
      /\ lost' = lost \cup LostNode(got.unlinked)
      /\ stacks' = stacks /\ mem' = mem /\ held' = held /\ buftab' = buftab /\ up' = up
  BY DEF VGetMem
<1>2. n \in Nat /\ n + 7 < 2^Width /\ vmin \in Nat /\ vmax \in Int
  BY RequestsFit
<1>3. Sound(VNodes, vheap.list, vmin, vmax) /\ NodesApart(vheap.list)
  BY DEF AllocInv, Shared, VirtualShared
<1>4. IF got.addr = SYSERR THEN got.vm = vheap
      ELSE /\ Served(VNodes, vheap.list, got.vm.list, vmin, vmax, got.addr, n)
           /\ got.vm.mlength = vheap.mlength - roundmb(n)
  BY <1>2, <1>3, vgetmemServes
<1>5. /\ got.unlinked = INTAB \/ got.unlinked \in Nodes(vheap.list)
      /\ NodesApart(got.vm.list)
      /\ Nodes(got.vm.list) = Nodes(vheap.list) \ {got.unlinked}
  <2>1. vmin \in Int
    BY <1>2
  <2> QED
    BY <1>2, <1>3, <2>1, vgetmemNodes
<1> HIDE DEF got
<1>6. KernelShared'
  BY <1>1, <1>5, NodeLost DEF Shared
<1>7. CASE got.addr = SYSERR
  <2>1. vheap' = vheap /\ vheld' = vheld
    BY <1>1, <1>4, <1>7
  <2>2. VirtualShared'
    BY <1>1, <2>1, VirtualStays DEF Shared
  <2> QED
    BY <1>6, <2>2 DEF Shared
<1>8. CASE got.addr # SYSERR
  <2>1. /\ Given(VNodes, vheap.list, vheap'.list, vmin, vmax, got.addr, roundmb(n))
        /\ vheap'.mlength = vheap.mlength - roundmb(n)
    BY <1>1, <1>4, <1>8 DEF Served
  <2>2. vheld' = vheld \cup {Block(got.addr, n)}
    BY <1>1, <1>8
  <2>3. NodesApart(vheap'.list)
    BY <1>1, <1>5
  <2>4. VirtualShared'
    BY <1>1, <2>1, <2>2, <2>3, VirtualGiven DEF Shared
  <2> QED
    BY <1>6, <2>4 DEF Shared
<1> QED
  BY <1>7, <1>8

LEMMA vcreateShares ==
  ASSUME AllocInv, Shared, vcreate
  PROVE  Shared'
<1>1. /\ vheap' = NewVHeap /\ vheld' = {} /\ up' = up
      /\ lost' = lost \cup UNION {LostNode(vheap.list[i].node) : i \in DOMAIN vheap.list}
      /\ stacks' = stacks /\ mem' = mem /\ held' = held /\ buftab' = buftab
  BY DEF vcreate
<1>2. DOMAIN vheap.list = 1..Len(vheap.list)
  BY DEF AllocInv, Sound
<1>3. lost' = lost \cup UNION {NodeUnits(x) : x \in Nodes(vheap.list)}
  <2>1. ASSUME NEW u
        PROVE  u \in UNION {LostNode(vheap.list[i].node) : i \in DOMAIN vheap.list}
                 <=> u \in UNION {NodeUnits(x) : x \in Nodes(vheap.list)}
    BY <1>2 DEF LostNode, NodeUnits, Nodes
  <2> QED
    BY <1>1, <2>1
<1> DEFINE y == VNode(vmin, vmax - vmin, INTAB)
<1>4. NewVHeap.list = <<y>> /\ NewVHeap.mlength = vmax - vmin /\ y.node = INTAB
  BY DEF NewVHeap, VNode
<1> HIDE DEF y
<1>5. Nodes(vheap'.list) = {} /\ NodesApart(vheap'.list)
  BY <1>1, <1>4 DEF Nodes, NodesApart
<1>6. ASSUME NEW u PROVE Good(u, KUnits, FreeUnits(mem.list), Holders(u)')
  <2>1. Good(u, KUnits, FreeUnits(mem.list), Holders(u))
    BY DEF Shared, KernelShared
  <2> QED
    BY <1>1, <1>3, <1>5, <2>1, NodesGo
<1>7. KernelShared'
  BY <1>1, <1>6, KernelKept DEF Shared
<1>8. /\ vmin \in Int /\ vmax \in Int /\ vmin < vmax /\ vmin % 8 = 0 /\ vmax % 8 = 0
      /\ vmax - vmin \in Int /\ vmax - vmin > 0 /\ (vmax - vmin) % 8 = 0
      /\ vmin + (vmax - vmin) = vmax
  BY HeapAssumption
<1>9. FreeUnits(vheap'.list) = VUnits
  BY <1>1, <1>8, FreshHeaps DEF VUnits, UnitsOf
<1>10. Counted(vheap)'
  BY <1>1, <1>4, <1>8, <1>9, UnitCount DEF Counted, VUnits
<1>11. ASSUME NEW u PROVE Good(u, VUnits, FreeUnits(vheap'.list), VHolders(u)')
  <2>1. VHolders(u)' = {}
    BY <1>1 DEF VHolders
  <2> QED
    BY <1>9, <2>1 DEF Good
<1>12. VUnits' = VUnits
  BY DEF VUnits
<1> QED
  BY <1>5, <1>7, <1>10, <1>11, <1>12 DEF Shared, VirtualShared

Entries == [addr : Int, size : Int, num : Nat, bpnext : Seq(Int), count : Int, queue : Seq(Procs)]

LEMMA mkbufpoolShares ==
  ASSUME AllocInv, Shared, buftab \in Seq(Entries), nsem \in Nat, NEW r \in PoolRequests,
         mkbufpool(r[1], r[2])
  PROVE  Shared'
<1> DEFINE size == BufSize(r[1])
           n == r[2] * size
           got == getmem(mem, n)
           pool == [addr |-> got.addr, size |-> size, num |-> r[2],
                    bpnext |-> BuffersFrom(got.addr, size, r[2]),
                    count |-> r[2], queue |-> << >>]
<1>1. /\ held' = held /\ stacks' = stacks /\ vheap' = vheap /\ vheld' = vheld /\ up' = up
      /\ IF BadPool(r[1], r[2]) \/ got.addr = SYSERR
         THEN mem' = mem /\ buftab' = buftab /\ lost' = lost
         ELSE /\ mem' = got.mem
              /\ lost' = IF nsem > 0 THEN lost ELSE lost \cup UnitsOf(got.addr, roundmb(n))
              /\ buftab' = IF nsem = 0 THEN buftab ELSE Append(buftab, pool)
  BY DEF mkbufpool
<1>2. VirtualShared'
  BY <1>1, VirtualStays DEF Shared
<1>3. pool.addr = got.addr /\ pool.num * pool.size = n
  OBVIOUS
<1>4. CASE BadPool(r[1], r[2]) \/ got.addr = SYSERR
  <2> HIDE DEF n, got, pool, size
  <2>1. \A u : Holders(u)' = Holders(u)
    BY <1>1, <1>4, HoldersStay
  <2> QED
    BY <1>1, <1>2, <1>4, <2>1, KernelStays DEF Shared
<1>5. CASE ~(BadPool(r[1], r[2]) \/ got.addr = SYSERR)
  <2>1. n \in Nat /\ n + 7 < 2^Width
    BY <1>5, PoolFits
  <2>2. Sound(KNodes, mem.list, minheap, maxheap) /\ minheap \in Nat /\ maxheap \in Int
    BY RequestsFit DEF AllocInv
  <2> HIDE DEF n, pool
  <2>3. /\ Served(KNodes, mem.list, got.mem.list, minheap, maxheap, got.addr, n)
        /\ got.mem.mlength = mem.mlength - roundmb(n)
    BY <1>5, <2>1, <2>2, getmemServes
  <2> HIDE DEF got
  <2>4. /\ Given(KNodes, mem.list, mem'.list, minheap, maxheap, got.addr, roundmb(n))
        /\ mem'.mlength = mem.mlength - roundmb(n)
    BY <1>1, <1>5, <2>3 DEF Served
  <2> DEFINE U == UnitsOf(got.addr, roundmb(n))
  <2>5. U = UnitsOf(pool.addr, roundmb(pool.num * pool.size))
    BY <1>3
  <2> HIDE DEF U
  <2>6. ASSUME NEW u
        PROVE  \E o : Holders(u)' = IF u \in U THEN Holders(u) \cup {o} ELSE Holders(u)
    <3>1. CASE nsem = 0
      <4>1. buftab' = buftab /\ lost' = lost \cup U
        BY <1>1, <1>5, <3>1 DEF U
      <4> QED
        BY <1>1, <4>1, LostComes
    <3>2. CASE nsem # 0
      <4>1. buftab' = Append(buftab, pool) /\ lost' = lost
        BY <1>1, <1>5, <3>2
      <4> QED
        BY <1>1, <2>5, <4>1, PoolComes
    <3> QED
      BY <3>1, <3>2
  <2>7. KernelShared'
    BY <2>4, <2>6, KernelGiven DEF Shared, U
  <2> QED
    BY <1>2, <2>7 DEF Shared
<1> QED
  BY <1>4, <1>5

\* A pool's memory does not move.
LEMMA BuffersShare ==
  ASSUME Shared, DOMAIN buftab' = DOMAIN buftab,
         \A i \in DOMAIN buftab : PoolUnits(i)' = PoolUnits(i),
         held' = held, stacks' = stacks, vheap' = vheap, vheld' = vheld, mem' = mem,
         lost' = lost, up' = up
  PROVE  Shared'
<1>1. ASSUME NEW u PROVE Holders(u)' = Holders(u)
  <2>1. ByPools(u)' = ByPools(u)
    BY DEF ByPools
  <2> QED
    BY <2>1, HoldersKept
<1>2. KernelShared'
  BY <1>1, KernelStays DEF Shared
<1>3. VirtualShared'
  BY VirtualStays DEF Shared
<1> QED
  BY <1>2, <1>3 DEF Shared

\* What the program has of its virtual heap is not free.
LEMMA HeldIsNotFree ==
  ASSUME VirtualShared, up, NEW b \in vheld
  PROVE  HeldUnits(b) \cap FreeUnits(vheap.list) = {}
<1> SUFFICES ASSUME NEW u \in HeldUnits(b) PROVE u \notin FreeUnits(vheap.list)
  OBVIOUS
<1>1. Good(u, VUnits, FreeUnits(vheap.list), VHolders(u))
  BY DEF VirtualShared
<1>2. b \in VHolders(u)
  BY DEF VHolders
<1> QED
  BY <1>1, <1>2, HeldNotFree

\* Memory that is free is not that of a node.
LEMMA FreeIsNoNode ==
  ASSUME KernelShared, NEW x, Placed(x, roundmb(VMEMBLK), minheap, maxheap),
         NodeUnits(x) \subseteq FreeUnits(mem.list)
  PROVE  x \notin Nodes(vheap.list) /\ x # INTAB /\ x \in Int
<1> DEFINE m == roundmb(VMEMBLK)
<1>1. x \in Int /\ m \in Int /\ x % 8 = 0 /\ m % 8 = 0 /\ m > 0 /\ minheap <= x
  BY DEF Placed
<1>2. x \div 8 \in NodeUnits(x)
  <2> HIDE DEF m
  <2>1. x \div 8 \in UnitsOf(x, m)
    BY <1>1, Ends
  <2> QED
    BY <2>1 DEF NodeUnits, m
<1>3. x # INTAB
  BY <1>1, HeapAssumption DEF INTAB
<1>4. ASSUME x \in Nodes(vheap.list) PROVE FALSE
  <2> DEFINE u == x \div 8
  <2> HIDE DEF u
  <2>1. u \in NodeUnits(x) /\ u \in FreeUnits(mem.list)
    BY <1>2 DEF u
  <2>2. <<"node", x>> \in Holders(u)
    BY <1>4, <2>1 DEF Holders, ByNodes
  <2>3. Good(u, KUnits, FreeUnits(mem.list), Holders(u))
    BY DEF KernelShared
  <2> QED
    BY <2>1, <2>2, <2>3, HeldNotFree
<1> QED
  BY <1>1, <1>3, <1>4

\* Memory is taken for a node x, and node y is forgotten, if there is one.
LEMMA NodeTaken ==
  ASSUME AllocInv, KernelShared, held' = held, stacks' = stacks, buftab' = buftab,
         NEW x, Given(KNodes, mem.list, mem'.list, minheap, maxheap, x, roundmb(VMEMBLK)),
         mem'.mlength = mem.mlength - roundmb(VMEMBLK),
         NEW y, y = INTAB \/ y \in Nodes(vheap.list), x # y,
         lost' = lost \cup LostNode(y),
         \A z : z \in Nodes(vheap'.list) <=> (z \in Nodes(vheap.list) \/ z = x) /\ z # y
  PROVE  KernelShared'
<1>1. /\ minheap \in Int /\ maxheap \in Int /\ minheap % 8 = 0 /\ maxheap % 8 = 0
      /\ Sound(KNodes, mem.list, minheap, maxheap)
  BY HeapAssumption DEF AllocInv
<1>2. Counted(mem)'
  BY <1>1, GivenCount DEF KernelShared, Counted
<1>3. FreeUnits(mem.list) \subseteq KUnits
  BY <1>1, FreeInHeap DEF KUnits
<1>4. /\ NodeUnits(x) \subseteq FreeUnits(mem.list)
      /\ FreeUnits(mem'.list) = FreeUnits(mem.list) \ NodeUnits(x)
  BY DEF Given, NodeUnits
<1>5. ASSUME NEW u PROVE Good(u, KUnits, FreeUnits(mem'.list), Holders(u)')
  <2> DEFINE hs == IF u \in NodeUnits(x) THEN Holders(u) \cup {<<"node", x>>} ELSE Holders(u)
  <2>1. Good(u, KUnits, FreeUnits(mem.list), Holders(u))
    BY DEF KernelShared
  <2>2. Good(u, KUnits, FreeUnits(mem'.list), hs)
    <3>1. /\ u \in NodeUnits(x) => hs = Holders(u) \cup {<<"node", x>>}
          /\ u \notin NodeUnits(x) => hs = Holders(u)
      OBVIOUS
    <3> HIDE DEF hs
    <3> QED
      BY <1>3, <1>4, <2>1, <3>1, GoodGiven
  <2>3. \A z : z \in Nodes(vheap'.list) <=>
                  (z \in Nodes(vheap.list) \/ (TRUE /\ z = x)) /\ z # y
    OBVIOUS
  <2>4. IF u \in LostNode(y)
        THEN <<"node", y>> \in hs
             /\ Holders(u)' = (hs \ {<<"node", y>>}) \cup {<<"lost", u>>}
        ELSE Holders(u)' = hs
    BY <2>3, NodesMove
  <2> HIDE DEF hs
  <2> QED
    BY <2>2, <2>4, GoodMoved
<1>6. KUnits' = KUnits
  BY DEF KUnits
<1> QED
  BY <1>2, <1>5, <1>6 DEF KernelShared

\* vfreemem, when there is memory for a node.
LEMMA NodeShares ==
  ASSUME AllocInv, Shared, NEW a \in Int, a % 8 = 0, NEW n \in Nat, n + 7 < 2^Width,
         up, up' = up, ~VOutside(a, n), VFreeable(Block(a, n)),
         getmem(mem, VMEMBLK).addr # SYSERR,
         held' = held, stacks' = stacks, buftab' = buftab, vheld' = vheld \ {Block(a, n)},
         mem' = vfreemem(mem, vheap, a, n).mem, vheap' = vfreemem(mem, vheap, a, n).vm,
         lost' = lost \cup LostNode(vfreemem(mem, vheap, a, n).unlinked)
  PROVE  Shared'
<1> DEFINE b == Block(a, n)
           m == roundmb(n)
           list == vheap.list
           got == getmem(mem, VMEMBLK)
           y == got.addr
           res == vfreemem(mem, vheap, a, n)
           x == VNode(a, m, y)
           k == Before(list, a)
           left == k > 0 /\ Top(list[k]) = a
           right == k < Len(list) /\ a + m = list[k + 1].addr
           next == list[k + 1].node
<1>1. b.addr = a /\ b.nbytes = n /\ HeldUnits(b) = UnitsOf(a, m) /\ b = Block(a, n)
  BY DEF Block, HeldUnits
<1>2. /\ vmin \in Nat /\ vmax \in Nat /\ vmin % 8 = 0
      /\ minheap \in Nat /\ maxheap \in Nat
      /\ VMEMBLK \in Nat /\ VMEMBLK + 7 < 2^Width
  BY RequestsFit, HeapAssumption
<1>3. /\ Sound(KNodes, mem.list, minheap, maxheap)
      /\ Sound(VNodes, list, vmin, vmax)
  BY DEF AllocInv
<1> HIDE DEF b, got, res
<1>4. /\ Served(KNodes, mem.list, got.mem.list, minheap, maxheap, y, VMEMBLK)
      /\ got.mem.mlength = mem.mlength - roundmb(VMEMBLK)
  BY <1>2, <1>3, getmemServes DEF got
<1>5. n # 0 /\ a >= vmin /\ a < vmax
  BY <1>2 DEF VOutside
<1>6. m \in Nat /\ m % 8 = 0 /\ m > 0
  BY <1>5, Rounding
<1>7. y \notin Nodes(list) /\ y # INTAB /\ y \in Int
  <2>1. Placed(y, roundmb(VMEMBLK), minheap, maxheap) /\ NodeUnits(y) \subseteq FreeUnits(mem.list)
    BY <1>4 DEF Served, Given, NodeUnits
  <2> HIDE DEF y
  <2> QED
    BY <2>1, FreeIsNoNode DEF Shared
<1>8. Overlaps(list, a, m) <=> UnitsOf(a, m) \cap FreeUnits(list) # {}
  <2> HIDE DEF m
  <2> QED
    BY <1>2, <1>3, <1>6, OverlapsShares
<1> HIDE DEF y
<1>9. CASE Overlaps(list, a, m)
  <2>1. res = [mem |-> got.mem, vm |-> vheap, unlinked |-> y]
    BY <1>9 DEF res, vfreemem, got, y
  <2>2. res.mem = got.mem /\ res.vm = vheap /\ res.unlinked = y
    BY <2>1
  <2>3. mem' = got.mem /\ vheap' = vheap /\ lost' = lost \cup LostNode(y)
    BY <2>2 DEF res
  <2>4. vheld' = vheld
    <3>1. b \notin vheld
      BY <1>1, <1>8, <1>9, HeldIsNotFree DEF Shared
    <3> QED
      BY <3>1 DEF b
  <2>5. VirtualShared'
    BY <2>3, <2>4, VirtualStays DEF Shared
  <2>6. LostNode(y) = UnitsOf(y, roundmb(VMEMBLK))
    BY <1>7 DEF LostNode
  <2>7. ASSUME NEW u
        PROVE  \E o : Holders(u)' = IF u \in UnitsOf(y, roundmb(VMEMBLK))
                                    THEN Holders(u) \cup {o} ELSE Holders(u)
    BY <2>3, <2>6, LostComes
  <2>8. /\ Given(KNodes, mem.list, mem'.list, minheap, maxheap, y, roundmb(VMEMBLK))
        /\ mem'.mlength = mem.mlength - roundmb(VMEMBLK)
    BY <1>4, <2>3 DEF Served
  <2>9. KernelShared'
    BY <2>7, <2>8, KernelGiven DEF Shared
  <2> QED
    BY <2>5, <2>9 DEF Shared
<1>10. CASE ~Overlaps(list, a, m)
  <2> DEFINE z == IF right THEN next ELSE INTAB
             t == Inserted(list, x)
  <2>1. /\ mem' = IF left THEN freemem(got.mem, y, VMEMBLK).mem ELSE got.mem
        /\ vheap'.list = t
        /\ vheap'.mlength = vheap.mlength + m
        /\ lost' = lost \cup LostNode(z)
    <3>1. res = [mem |-> IF left THEN freemem(got.mem, y, VMEMBLK).mem ELSE got.mem,
                 vm |-> [list |-> t, mlength |-> vheap.mlength + m],
                 unlinked |-> z]
      BY <1>10 DEF res, vfreemem, got, y
    <3> HIDE DEF left, z, t, m
    <3> QED
      BY <3>1 DEF res
  <2>2. x \in VNodes /\ x.addr = a /\ x.len = m /\ x.node = y
    <3> HIDE DEF m
    <3> QED
      BY <1>6, <1>7 DEF VNode, VNodes
  <2>3. UnitsOf(a, m) \cap FreeUnits(list) = {}
    BY <1>8, <1>10
  <2>4. b \in vheld
    <3> SUFFICES ASSUME b \notin vheld PROVE FALSE
      OBVIOUS
    <3>1. UnitsOf(a, m) \subseteq FreeUnits(list) \cup UnitsOf(0, vmin)
      BY <1>1 DEF VFreeable
    <3> HIDE DEF m
    <3>2. a < vmin
      BY <1>2, <1>6, <2>3, <3>1, FreedInside
    <3> QED
      BY <1>2, <1>5, <3>2
  <2>5. Placed(a, m, vmin, vmax)
    BY <1>1, <2>4 DEF AllocInv
  <2>6. /\ NodesApart(t)
        /\ \A w : w \in Nodes(t) <=> /\ w \in Nodes(list) \/ w = y
                                     /\ ~(left /\ w = y)
                                     /\ ~(right /\ w = next)
    <3>1. NodesApart(list) /\ vmin \in Int /\ vmax \in Int
      BY <1>2 DEF Shared, VirtualShared
    <3>2. Top(x) = a + m
      BY <2>2 DEF Top
    <3> HIDE DEF x
    <3>3. x \in VNodes /\ x.node \notin Nodes(list) /\ x.node # INTAB
      BY <1>7, <2>2
    <3>4. LET kk == Before(list, x.addr)
              ll == kk > 0 /\ Top(list[kk]) = x.addr
              rr == kk < Len(list) /\ Top(x) = list[kk + 1].addr
          IN  /\ NodesApart(t)
              /\ \A w : w \in Nodes(t) <=> /\ w \in Nodes(list) \/ w = x.node
                                           /\ ~(ll /\ w = x.node)
                                           /\ ~(rr /\ w = list[kk + 1].node)
      BY <1>3, <3>1, <3>3, InsertedNodes
    <3> QED
      BY <2>2, <3>2, <3>4
  <2>7. Returned(VNodes, list, t, vmin, vmax, a, m)
    <3> HIDE DEF x, m
    <3>1. ~Overlaps(list, x.addr, x.len) /\ Placed(x.addr, x.len, vmin, vmax)
      BY <1>10, <2>2, <2>5
    <3>2. vmin \in Int /\ vmax \in Int
      BY <1>2
    <3>3. Returned(VNodes, list, Inserted(list, x), vmin, vmax, x.addr, x.len)
      BY <1>3, <2>2, <3>1, <3>2, InsertedReturns
    <3> QED
      BY <2>2, <3>3
  <2> HIDE DEF t
  <2>8. VirtualShared'
    <3>1. /\ NodesApart(vheap'.list)
          /\ Returned(VNodes, vheap.list, vheap'.list, vmin, vmax, a, roundmb(n))
          /\ vheap'.mlength = vheap.mlength + roundmb(n)
          /\ Placed(a, roundmb(n), vmin, vmax) /\ Block(a, n) \in vheld
      BY <2>1, <2>4, <2>5, <2>6, <2>7 DEF b
    <3> HIDE DEF m
    <3> QED
      BY <3>1, VirtualReturned DEF Shared
  <2>9. z = INTAB \/ z \in Nodes(list)
    <3>1. CASE right /\ next # INTAB
      <4>1. k \in 0..Len(list) /\ Len(list) \in Nat
        <5>1. list \in Seq(VNodes)
          BY <1>3 DEF Sound
        <5>2. Len(list) \in Nat
          BY <5>1
        <5>3. vmin \in Int /\ vmax \in Int
          BY <1>2
        <5> QED
          BY <1>3, <5>2, <5>3, BeforePlace
      <4> HIDE DEF k
      <4>2. k + 1 \in 1..Len(list)
        BY <3>1, <4>1
      <4> QED
        BY <3>1, <4>2 DEF Nodes
    <3>2. CASE ~(right /\ next # INTAB)
      BY <3>2
    <3> QED
      BY <3>1, <3>2
  <2>10. z # y
    BY <1>7, <2>9
  <2>11. \A w : w \in Nodes(vheap'.list) <=>
                   (w \in Nodes(list) \/ (~left /\ w = y)) /\ w # z
    <3>1. INTAB \notin Nodes(list)
      BY DEF Nodes
    <3>2. CASE right
      <4>1. z = next
        BY <3>2
      <4> HIDE DEF z, left, right, next
      <4> QED
        BY <1>7, <2>1, <2>6, <3>2, <4>1
    <3>3. CASE ~right
      <4>1. z = INTAB
        BY <3>3
      <4> HIDE DEF z, left, right, next
      <4> QED
        BY <1>7, <2>1, <2>6, <3>1, <3>3, <4>1
    <3> QED
      BY <3>2, <3>3
  <2> HIDE DEF left, z
  <2>12. CASE left
    <3>1. /\ FreeUnits(mem'.list) = FreeUnits(mem.list)
          /\ mem'.mlength = got.mem.mlength + roundmb(VMEMBLK)
      BY <1>3, <1>4, <2>1, <2>12, NodeGivenBack DEF got, y
    <3>2. mem'.mlength = mem.mlength
      <4> DEFINE c == mem.mlength
                 d == roundmb(VMEMBLK)
      <4>1. c \in Int
        <5>1. minheap \in Int /\ maxheap \in Int /\ minheap % 8 = 0 /\ maxheap % 8 = 0
          BY HeapAssumption
        <5>2. IsFiniteSet(FreeUnits(mem.list))
          BY <1>3, <5>1, FreeInHeap
        <5>3. Cardinality(FreeUnits(mem.list)) \in Nat
          BY <5>2, FS_CardinalityType
        <5> QED
          BY <5>3 DEF Shared, KernelShared, Counted
      <4>2. d \in Int
        BY <1>2, Rounding
      <4>3. mem'.mlength = (c - d) + d
        BY <1>4, <3>1
      <4> HIDE DEF c, d
      <4>4. mem'.mlength = c
        BY <4>1, <4>2, <4>3
      <4> QED
        BY <4>4 DEF c
    <3>3. Nodes(vheap'.list) = Nodes(vheap.list) \ {z}
      BY <2>11, <2>12
    <3>4. KernelShared'
      BY <2>1, <2>9, <3>1, <3>2, <3>3, NodeLost DEF Shared
    <3> QED
      BY <2>8, <3>4 DEF Shared
  <2>13. CASE ~left
    <3>1. /\ Given(KNodes, mem.list, mem'.list, minheap, maxheap, y, roundmb(VMEMBLK))
          /\ mem'.mlength = mem.mlength - roundmb(VMEMBLK)
      BY <1>4, <2>1, <2>13 DEF Served
    <3>2. \A w : w \in Nodes(vheap'.list) <=> (w \in Nodes(vheap.list) \/ w = y) /\ w # z
      BY <2>11, <2>13
    <3>3. KernelShared'
      BY <2>1, <2>9, <2>10, <3>1, <3>2, NodeTaken DEF Shared
    <3> QED
      BY <2>8, <3>3 DEF Shared
  <2> QED
    BY <2>12, <2>13
<1> QED
  BY <1>9, <1>10

LEMMA VFreeMemShares ==
  ASSUME AllocInv, Shared, NEW a \in Addrs(vmin, vmax), NEW n \in VRequests,
         VFreeMem(Block(a, n))
  PROVE  Shared'
<1> DEFINE b == Block(a, n)
           got == getmem(mem, VMEMBLK)
           res == vfreemem(mem, vheap, a, n)
<1>1. /\ vheld' = vheld \ {b} /\ held' = held /\ stacks' = stacks /\ buftab' = buftab
      /\ up /\ up' = (VOutside(a, n) \/ got.addr # SYSERR)
      /\ VFreeable(b)
      /\ IF VOutside(a, n) \/ ~up' THEN mem' = mem /\ vheap' = vheap /\ lost' = lost
         ELSE /\ mem' = res.mem /\ vheap' = res.vm
              /\ lost' = lost \cup LostNode(res.unlinked)
  <2> HIDE DEF res
  <2>1. b.addr = a /\ b.nbytes = n
    BY DEF Block
  <2> QED
    BY <2>1 DEF VFreeMem, res
<1>2. n \in Nat /\ n + 7 < 2^Width /\ vmin \in Nat /\ vmax \in Nat
  BY RequestsFit
<1>3. a \in Int /\ a % 8 = 0
  <2>1. PICK u \in UnitsOf(vmin - 8, vmax - vmin + 8) : a = 8 * u
    BY DEF Addrs
  <2>2. u \in Int
    BY <1>2, <2>1 DEF UnitsOf
  <2> QED
    BY <2>1, <2>2
<1>4. CASE VOutside(a, n) \/ ~up'
  <2> HIDE DEF res, got
  <2>1. mem' = mem /\ vheap' = vheap /\ lost' = lost
    BY <1>1, <1>4
  <2>2. KernelShared'
    BY <1>1, <2>1, HoldersStay, KernelStays DEF Shared
  <2>3. vheld' = vheld \/ ~up'
    <3>1. CASE VOutside(a, n)
      <4>1. b \notin vheld
        <5> SUFFICES ASSUME b \in vheld PROVE FALSE
          OBVIOUS
        <5> DEFINE m == roundmb(n)
        <5>1. Placed(a, m, vmin, vmax)
          BY DEF AllocInv, Block
        <5>2. m > 0 => n # 0
          BY <1>2, NotEmpty
        <5> HIDE DEF m
        <5> QED
          BY <1>2, <1>3, <3>1, <5>1, <5>2 DEF Placed, VOutside
      <4> QED
        BY <1>1, <4>1
    <3> QED
      BY <1>4, <3>1
  <2>4. VirtualShared'
    BY <1>1, <2>1, <2>3, VirtualStays DEF Shared
  <2> QED
    BY <2>2, <2>4 DEF Shared
<1>5. CASE ~(VOutside(a, n) \/ ~up')
  <2>1. ~VOutside(a, n) /\ up' /\ got.addr # SYSERR
    BY <1>1, <1>5
  <2>2. up' = up
    BY <1>1, <2>1
  <2> QED
    BY <1>1, <1>2, <1>3, <1>5, <2>1, <2>2, NodeShares
<1> QED
  BY <1>4, <1>5

----------------------------------------------------------------------------
\* One buffer pool.

Positive(x) == IF x > 0 THEN x ELSE 0

LEMMA MaxWithZero ==
  ASSUME NEW x \in Int
  PROVE  Max({x, 0}) = Positive(x)
<1>1. \A z \in {x, 0} : (\A y \in {x, 0} : z >= y) <=> z = Positive(x)
  BY DEF Positive
<1>2. Positive(x) \in {x, 0}
  BY DEF Positive
<1>3. Max({x, 0}) = CHOOSE z \in {x, 0} : \A y \in {x, 0} : z >= y
  BY DEF Max
<1> QED
  BY <1>1, <1>2, <1>3

\* The addresses of an entry's buffers.
Places(e) == Range(BuffersFrom(e.addr, e.size, e.num))

\* The list of entry e has each of its buffers that nobody has, `out' are the others;
\* the processes of `waiting' are in its queue; the count is right, with `released'
\* processes that have not taken their buffer and n units that are gone.
PoolGood(e, waiting, released, out, n) ==
    /\ Distinct(e.queue)
    /\ \A p : Has(e.queue, p) <=> p \in waiting
    /\ Distinct(e.bpnext)
    /\ \A a : a \in Places(e) <=> Has(e.bpnext, a) \/ a \in out
    /\ \A a \in out : ~Has(e.bpnext, a)
    /\ Len(e.queue) = Positive(-e.count)
    /\ Len(e.bpnext) = Positive(e.count) + Cardinality(released) + n

SameBuffers(e, f) == f.addr = e.addr /\ f.size = e.size /\ f.num = e.num

LEMMA SameRoom ==
  ASSUME NEW e, NEW f, SameBuffers(e, f)
  PROVE  Places(f) = Places(e)
  BY DEF SameBuffers, Places

\* The first buffer is taken with a unit of the semaphore ...
LEMMA GoodTaken ==
  ASSUME NEW e \in Entries, NEW f, SameBuffers(e, f), f.bpnext = Tail(e.bpnext),
         f.count = e.count - 1, f.queue = e.queue, e.count > 0,
         NEW w, NEW r, IsFiniteSet(r), NEW out, NEW n \in Nat, PoolGood(e, w, r, out, n)
  PROVE  /\ PoolGood(f, w, r, out \cup {Head(e.bpnext)}, n)
         /\ Head(e.bpnext) \notin out /\ Head(e.bpnext) \in Int
         /\ Tail(e.bpnext) \in Seq(Int)
<1> DEFINE s == e.bpnext
           t == Tail(s)
           a == Head(s)
           c == e.count
           rel == Cardinality(r)
<1>1. s \in Seq(Int) /\ c \in Int /\ c > 0 /\ e.queue \in Seq(Procs)
  BY DEF Entries
<1>2. rel \in Nat
  BY FS_CardinalityType
<1>3. Len(s) = Positive(c) + rel + n /\ Len(e.queue) = Positive(-c) /\ Distinct(s)
  BY DEF PoolGood
<1> HIDE DEF s, rel, c
<1>4. Len(s) > 0 /\ Positive(c) = c /\ Positive(c - 1) = c - 1
      /\ Positive(-(c - 1)) = Positive(-c) /\ c > 0
  <2>1. /\ Positive(c) = c /\ Positive(c - 1) = c - 1
        /\ Positive(-(c - 1)) = Positive(-c)
    BY <1>1 DEF Positive
  <2>2. Len(s) = c + rel + n
    BY <1>3, <2>1
  <2>3. Len(s) > 0
    BY <1>1, <1>2, <2>2
  <2> QED
    BY <1>1, <2>1, <2>3
<1>5. s # << >>
  BY <1>4
<1>6. /\ a \in Int /\ Has(s, a) /\ t \in Seq(Int) /\ Len(t) = Len(s) - 1
      /\ \A p : Has(t, p) <=> Has(s, p) /\ p # a
      /\ Distinct(t)
  BY <1>1, <1>3, <1>5, TailMembers
<1>7. f.bpnext = t /\ f.count = c - 1
  BY DEF s, c
<1> HIDE DEF t, a
<1>8. Len(f.bpnext) = Positive(f.count) + rel + n /\ Len(f.queue) = Positive(-f.count)
  <2>1. Len(t) = Positive(c - 1) + rel + n
    BY <1>1, <1>2, <1>3, <1>4, <1>6
  <2>2. Len(f.queue) = Positive(-(c - 1))
    BY <1>3, <1>4
  <2> QED
    BY <1>7, <2>1, <2>2
<1>9. Places(f) = Places(e)
  BY SameRoom
<1>10. /\ \A b : b \in Places(e) <=> Has(s, b) \/ b \in out
       /\ \A b \in out : ~Has(s, b)
       /\ Distinct(e.queue) /\ \A p : Has(e.queue, p) <=> p \in w
  BY DEF PoolGood, s
<1>11. a \notin out
  BY <1>6, <1>10
<1>12. PoolGood(f, w, r, out \cup {a}, n)
  BY <1>6, <1>7, <1>8, <1>9, <1>10, <1>11 DEF PoolGood, rel
<1> QED
  BY <1>6, <1>11, <1>12 DEF a, t, s

\* ... or by a process that was released.
LEMMA GoodGot ==
  ASSUME NEW e \in Entries, NEW f, SameBuffers(e, f), f.bpnext = Tail(e.bpnext),
         f.count = e.count, f.queue = e.queue,
         NEW w, NEW r, IsFiniteSet(r), NEW p \in r, NEW out, NEW n \in Nat,
         PoolGood(e, w, r, out, n)
  PROVE  /\ PoolGood(f, w, r \ {p}, out \cup {Head(e.bpnext)}, n)
         /\ Head(e.bpnext) \notin out /\ Head(e.bpnext) \in Int
         /\ Tail(e.bpnext) \in Seq(Int)
<1> DEFINE s == e.bpnext
           t == Tail(s)
           a == Head(s)
           c == e.count
           rel == Cardinality(r)
           rest == Cardinality(r \ {p})
<1>1. s \in Seq(Int) /\ c \in Int /\ e.queue \in Seq(Procs)
  BY DEF Entries
<1>2. rel \in Nat /\ rest \in Nat /\ rest = rel - 1
  BY FS_CardinalityType, FS_RemoveElement
<1>3. Len(s) = Positive(c) + rel + n /\ Len(e.queue) = Positive(-c) /\ Distinct(s)
  BY DEF PoolGood
<1> HIDE DEF s, rel, rest, c
<1>4. Len(s) > 0 /\ Positive(c) \in Nat
  BY <1>1, <1>2, <1>3 DEF Positive
<1>5. s # << >>
  BY <1>4
<1>6. /\ a \in Int /\ Has(s, a) /\ t \in Seq(Int) /\ Len(t) = Len(s) - 1
      /\ \A q : Has(t, q) <=> Has(s, q) /\ q # a
      /\ Distinct(t)
  BY <1>1, <1>3, <1>5, TailMembers
<1>7. f.bpnext = t /\ f.count = c
  BY DEF s, c
<1> HIDE DEF t, a
<1>8. Len(f.bpnext) = Positive(f.count) + rest + n /\ Len(f.queue) = Positive(-f.count)
  <2>1. Len(t) = Positive(c) + rest + n
    BY <1>1, <1>2, <1>3, <1>4, <1>6
  <2>2. Len(f.queue) = Positive(-c)
    BY <1>3
  <2> QED
    BY <1>7, <2>1, <2>2
<1>9. Places(f) = Places(e)
  BY SameRoom
<1>10. /\ \A b : b \in Places(e) <=> Has(s, b) \/ b \in out
       /\ \A b \in out : ~Has(s, b)
       /\ Distinct(e.queue) /\ \A q : Has(e.queue, q) <=> q \in w
  BY DEF PoolGood, s
<1>11. a \notin out
  BY <1>6, <1>10
<1>12. PoolGood(f, w, r \ {p}, out \cup {a}, n)
  BY <1>6, <1>7, <1>8, <1>9, <1>10, <1>11 DEF PoolGood, rest
<1> QED
  BY <1>6, <1>11, <1>12 DEF a, t, s

\* A process waits.
LEMMA GoodWaits ==
  ASSUME NEW e \in Entries, NEW f, SameBuffers(e, f), f.bpnext = e.bpnext,
         NEW p \in Procs, f.count = e.count - 1, f.queue = Append(e.queue, p), ~(e.count > 0),
         NEW w, p \notin w, NEW r, IsFiniteSet(r), NEW out, NEW n \in Nat,
         PoolGood(e, w, r, out, n)
  PROVE  PoolGood(f, w \cup {p}, r, out, n) /\ Append(e.queue, p) \in Seq(Procs)
<1> DEFINE s == e.queue
           t == Append(s, p)
           c == e.count
           rel == Cardinality(r)
<1>1. s \in Seq(Procs) /\ c \in Int /\ ~(c > 0)
  BY DEF Entries
<1>2. rel \in Nat
  BY FS_CardinalityType
<1>3. /\ Len(e.bpnext) = Positive(c) + rel + n /\ Len(s) = Positive(-c) /\ Distinct(s)
      /\ \A q : Has(s, q) <=> q \in w
  BY DEF PoolGood
<1> HIDE DEF s, rel, c
<1>4. /\ t \in Seq(Procs) /\ Len(t) = Len(s) + 1
      /\ \A q : Has(t, q) <=> Has(s, q) \/ q = p
      /\ Distinct(t)
  BY <1>1, <1>3, AppendMembers
<1>5. f.queue = t /\ f.count = c - 1
  BY DEF s, c
<1> HIDE DEF t
<1>6. Positive(c - 1) = Positive(c) /\ Positive(-(c - 1)) = Positive(-c) + 1
  BY <1>1 DEF Positive
<1>7. Len(f.bpnext) = Positive(f.count) + rel + n /\ Len(f.queue) = Positive(-f.count)
  BY <1>3, <1>4, <1>5, <1>6
<1>8. Places(f) = Places(e)
  BY SameRoom
<1>9. PoolGood(f, w \cup {p}, r, out, n)
  BY <1>3, <1>4, <1>5, <1>7, <1>8 DEF PoolGood, rel
<1> QED
  BY <1>4, <1>9 DEF t, s

\* A buffer is put in front of a list that does not have it.
LEMMA PrependMembers ==
  ASSUME NEW S, NEW s \in Seq(S), NEW a \in S, Distinct(s), ~Has(s, a)
  PROVE  LET t == <<a>> \o s IN
         /\ t \in Seq(S) /\ Len(t) = Len(s) + 1
         /\ \A x : Has(t, x) <=> Has(s, x) \/ x = a
         /\ Distinct(t)
<1> DEFINE t == <<a>> \o s
<1>0. Len(s) \in Nat
  BY LenProperties
<1>1. /\ t \in Seq(S) /\ Len(t) = Len(s) + 1 /\ t[1] = a
      /\ \A i \in 1..Len(s) : t[i + 1] = s[i]
  <2>1. <<a>> \in Seq(S) /\ Len(<<a>>) = 1 /\ <<a>>[1] = a
    OBVIOUS
  <2>2. /\ t \in Seq(S) /\ Len(t) = 1 + Len(s)
        /\ \A i \in 1..(1 + Len(s)) : t[i] = IF i <= 1 THEN <<a>>[i] ELSE s[i - 1]
    BY <2>1, ConcatProperties
  <2> HIDE DEF t
  <2>3. t[1] = a
    BY <1>0, <2>1, <2>2
  <2>4. ASSUME NEW i \in 1..Len(s) PROVE t[i + 1] = s[i]
    <3>1. i + 1 \in 1..(1 + Len(s)) /\ ~(i + 1 <= 1) /\ (i + 1) - 1 = i
      BY <1>0
    <3> QED
      BY <2>2, <3>1
  <2> QED
    BY <1>0, <2>2, <2>3, <2>4
<1> HIDE DEF t
<1>2. \A i \in 1..Len(t) : i = 1 \/ (i - 1 \in 1..Len(s) /\ t[i] = s[i - 1])
  <2> SUFFICES ASSUME NEW i \in 1..Len(t), i # 1 PROVE i - 1 \in 1..Len(s) /\ t[i] = s[i - 1]
    OBVIOUS
  <2>1. i - 1 \in 1..Len(s) /\ (i - 1) + 1 = i
    BY <1>0, <1>1
  <2> QED
    BY <1>1, <2>1
<1>3. ASSUME NEW x PROVE Has(t, x) <=> Has(s, x) \/ x = a
  <2>1. ASSUME Has(t, x) PROVE Has(s, x) \/ x = a
    BY <1>1, <1>2, <2>1 DEF Has
  <2>2. ASSUME Has(s, x) PROVE Has(t, x)
    <3>1. PICK i \in 1..Len(s) : s[i] = x
      BY <2>2 DEF Has
    <3>2. i + 1 \in 1..Len(t) /\ t[i + 1] = x
      BY <1>0, <1>1, <3>1
    <3> QED
      BY <3>2 DEF Has
  <2>3. Has(t, a)
    <3>1. 1 \in 1..Len(t)
      BY <1>0, <1>1
    <3> QED
      BY <1>1, <3>1 DEF Has
  <2> QED
    BY <2>1, <2>2, <2>3
<1>4. ASSUME NEW i \in 1..Len(t), NEW j \in 1..Len(t), t[i] = t[j] PROVE i = j
  <2>1. CASE i = 1 /\ j = 1
    BY <2>1
  <2>2. CASE i = 1 /\ j # 1
    BY <1>1, <1>2, <1>4, <2>2 DEF Has
  <2>3. CASE i # 1 /\ j = 1
    BY <1>1, <1>2, <1>4, <2>3 DEF Has
  <2>4. CASE i # 1 /\ j # 1
    <3>1. /\ i - 1 \in 1..Len(s) /\ t[i] = s[i - 1]
          /\ j - 1 \in 1..Len(s) /\ t[j] = s[j - 1]
      BY <1>2, <2>4
    <3>2. i - 1 = j - 1
      BY <1>4, <3>1 DEF Distinct
    <3>3. i \in Int /\ j \in Int
      BY <1>0, <1>1
    <3> QED
      BY <3>2, <3>3
  <2> QED
    BY <2>1, <2>2, <2>3, <2>4
<1>5. Distinct(t)
  BY <1>4 DEF Distinct
<1> QED
  BY <1>1, <1>3, <1>5 DEF t

\* A buffer comes back: nobody waits for it, ...
LEMMA GoodFreed ==
  ASSUME NEW e \in Entries, NEW f, SameBuffers(e, f), NEW w, NEW r, IsFiniteSet(r),
         NEW out, NEW a \in out, a \in Int, f.bpnext = <<a>> \o e.bpnext,
         f.count = e.count + 1, f.queue = e.queue, ~(e.count < 0),
         NEW n \in Nat, PoolGood(e, w, r, out, n)
  PROVE  PoolGood(f, w, r, out \ {a}, n) /\ <<a>> \o e.bpnext \in Seq(Int)
<1> DEFINE s == e.bpnext
           t == <<a>> \o s
           c == e.count
           rel == Cardinality(r)
<1>1. s \in Seq(Int) /\ c \in Int /\ ~(c < 0)
  BY DEF Entries
<1>2. rel \in Nat
  BY FS_CardinalityType
<1>3. /\ Len(s) = Positive(c) + rel + n /\ Len(e.queue) = Positive(-c) /\ Distinct(s)
      /\ ~Has(s, a)
      /\ \A b : b \in Places(e) <=> Has(s, b) \/ b \in out
      /\ \A b \in out : ~Has(s, b)
      /\ Distinct(e.queue) /\ \A p : Has(e.queue, p) <=> p \in w
  BY DEF PoolGood
<1>4. f.bpnext = t /\ f.count = c + 1
  OBVIOUS
<1> HIDE DEF s, rel, c
<1>5. /\ t \in Seq(Int) /\ Len(t) = Len(s) + 1
      /\ \A b : Has(t, b) <=> Has(s, b) \/ b = a
      /\ Distinct(t)
  BY <1>1, <1>3, PrependMembers
<1>6. t = <<a>> \o e.bpnext
  BY DEF s
<1> HIDE DEF t
<1>7. Positive(c + 1) = Positive(c) + 1 /\ Positive(-(c + 1)) = Positive(-c) /\ Positive(c) \in Nat
  BY <1>1 DEF Positive
<1>8. Len(t) = Positive(c + 1) + rel + n
  BY <1>2, <1>3, <1>5, <1>7
<1>9. Places(f) = Places(e)
  BY SameRoom
<1>10. PoolGood(f, w, r, out \ {a}, n)
  BY <1>3, <1>4, <1>5, <1>7, <1>8, <1>9 DEF PoolGood, rel
<1> QED
  BY <1>5, <1>6, <1>10

\* ... or the first process that waits is released.
LEMMA GoodReleased ==
  ASSUME NEW e \in Entries, NEW f, SameBuffers(e, f), NEW w, NEW r, IsFiniteSet(r),
         w \cap r = {},
         NEW out, NEW a \in out, a \in Int, f.bpnext = <<a>> \o e.bpnext,
         f.count = e.count + 1, f.queue = Tail(e.queue), e.count < 0,
         NEW n \in Nat, PoolGood(e, w, r, out, n)
  PROVE  /\ PoolGood(f, w \ {Head(e.queue)}, r \cup {Head(e.queue)}, out \ {a}, n)
         /\ <<a>> \o e.bpnext \in Seq(Int) /\ Tail(e.queue) \in Seq(Procs)
         /\ Head(e.queue) \in w
<1> DEFINE s == e.bpnext
           t == <<a>> \o s
           q == e.queue
           h == Head(q)
           c == e.count
           rel == Cardinality(r)
           more == Cardinality(r \cup {h})
<1>1. s \in Seq(Int) /\ c \in Int /\ c < 0 /\ q \in Seq(Procs)
  BY DEF Entries
<1>3. /\ Len(s) = Positive(c) + rel + n /\ Len(q) = Positive(-c) /\ Distinct(s)
      /\ ~Has(s, a)
      /\ \A b : b \in Places(e) <=> Has(s, b) \/ b \in out
      /\ \A b \in out : ~Has(s, b)
      /\ Distinct(q) /\ \A p : Has(q, p) <=> p \in w
  BY DEF PoolGood
<1>4. f.bpnext = t /\ f.count = c + 1 /\ f.queue = Tail(q)
  OBVIOUS
<1> HIDE DEF s, q, c
<1>5. /\ t \in Seq(Int) /\ Len(t) = Len(s) + 1
      /\ \A b : Has(t, b) <=> Has(s, b) \/ b = a
      /\ Distinct(t)
  BY <1>1, <1>3, PrependMembers
<1>6. t = <<a>> \o e.bpnext
  BY DEF s
<1> HIDE DEF t
<1>7. /\ Positive(c + 1) = Positive(c) /\ Positive(-(c + 1)) + 1 = Positive(-c)
      /\ Positive(c) \in Nat /\ Positive(-c) > 0 /\ Positive(-(c + 1)) \in Nat
  BY <1>1 DEF Positive
<1>8. q # << >>
  <2>1. Len(q) > 0
    BY <1>3, <1>7
  <2> QED
    BY <2>1
<1>9. /\ Has(q, h) /\ Tail(q) \in Seq(Procs) /\ Len(Tail(q)) = Len(q) - 1
      /\ \A p : Has(Tail(q), p) <=> Has(q, p) /\ p # h
      /\ Distinct(Tail(q))
  BY <1>1, <1>3, <1>8, TailMembers
<1> HIDE DEF h
<1>10. h \in w /\ h \notin r
  BY <1>3, <1>9
<1>11. rel \in Nat /\ more = rel + 1
  BY <1>10, FS_CardinalityType, FS_AddElement
<1> HIDE DEF rel, more
<1>12. Len(t) = Positive(c + 1) + more + n
  BY <1>3, <1>5, <1>7, <1>11
<1>13. Len(Tail(q)) = Positive(-(c + 1))
  BY <1>3, <1>7, <1>9
<1>14. Places(f) = Places(e)
  BY SameRoom
<1>15. PoolGood(f, w \ {h}, r \cup {h}, out \ {a}, n)
  BY <1>3, <1>4, <1>5, <1>9, <1>12, <1>13, <1>14 DEF PoolGood, more
<1> QED
  BY <1>5, <1>6, <1>9, <1>10, <1>15 DEF h, q

\* A process is killed that waits ...
LEMMA GoodLeft ==
  ASSUME NEW e \in Entries, NEW f, SameBuffers(e, f), f.bpnext = e.bpnext,
         NEW w, NEW p \in w, f.count = e.count + 1, f.queue = Without(e.queue, p),
         NEW r, IsFiniteSet(r), NEW out, NEW n \in Nat, PoolGood(e, w, r, out, n)
  PROVE  PoolGood(f, w \ {p}, r, out, n) /\ Without(e.queue, p) \in Seq(Procs)
<1> DEFINE q == e.queue
           c == e.count
           k == CHOOSE k \in DOMAIN q : q[k] = p
           t == RemoveAt(q, k)
           rel == Cardinality(r)
<1>1. q \in Seq(Procs) /\ c \in Int
  BY DEF Entries
<1>2. rel \in Nat
  BY FS_CardinalityType
<1>3. /\ Len(e.bpnext) = Positive(c) + rel + n /\ Len(q) = Positive(-c)
      /\ Distinct(q) /\ \A x : Has(q, x) <=> x \in w
      /\ Distinct(e.bpnext)
      /\ \A b : b \in Places(e) <=> Has(e.bpnext, b) \/ b \in out
      /\ \A b \in out : ~Has(e.bpnext, b)
  BY DEF PoolGood
<1>4. t = Without(e.queue, p) /\ f.count = c + 1
  BY DEF Without
<1> HIDE DEF q, c, rel
<1>5. DOMAIN q = 1..Len(q)
  BY <1>1
<1>6. k \in 1..Len(q) /\ q[k] = p
  <2>1. \E j \in DOMAIN q : q[j] = p
    BY <1>3, <1>5 DEF Has
  <2> QED
    BY <1>5, <2>1
<1> HIDE DEF k
<1>7. /\ t \in Seq(Procs) /\ Len(t) = Len(q) - 1
      /\ \A x : Has(t, x) <=> Has(q, x) /\ x # p
      /\ Distinct(t)
  BY <1>1, <1>3, <1>6, RemoveMembers
<1> HIDE DEF t
<1>8. Len(q) > 0 /\ Len(q) \in Int
  BY <1>1, <1>6
<1>9. c < 0
  BY <1>1, <1>3, <1>8 DEF Positive
<1>10. /\ Positive(c + 1) = Positive(c) /\ Positive(-(c + 1)) + 1 = Positive(-c)
       /\ Positive(-(c + 1)) \in Nat
  BY <1>1, <1>9 DEF Positive
<1>11. Len(t) = Positive(-(c + 1))
  BY <1>3, <1>7, <1>10
<1>12. Places(f) = Places(e)
  BY SameRoom
<1>13. PoolGood(f, w \ {p}, r, out, n)
  BY <1>3, <1>4, <1>7, <1>10, <1>11, <1>12 DEF PoolGood, rel
<1> QED
  BY <1>4, <1>7, <1>13

\* ... or one that was released.
LEMMA GoodGone ==
  ASSUME NEW e \in Entries, NEW w, NEW r, IsFiniteSet(r), NEW p \in r, NEW out, NEW n \in Nat,
         PoolGood(e, w, r, out, n)
  PROVE  PoolGood(e, w, r \ {p}, out, n + 1)
<1> DEFINE rel == Cardinality(r)
           rest == Cardinality(r \ {p})
           c == Positive(e.count)
<1>1. rel \in Nat /\ rest \in Nat /\ rest = rel - 1
  BY FS_CardinalityType, FS_RemoveElement
<1>2. Len(e.bpnext) = c + rel + n /\ c \in Int
  BY DEF PoolGood, Positive, Entries
<1> HIDE DEF rel, rest, c
<1>3. c + rel + n = c + rest + (n + 1)
  BY <1>1, <1>2
<1>4. Len(e.bpnext) = c + rest + (n + 1)
  BY <1>2, <1>3
<1> QED
  BY <1>4 DEF PoolGood, rest, c

\* A pool is made.
LEMMA GoodNew ==
  ASSUME NEW f, NEW addr \in Int, NEW size \in Int, size > 0, NEW num \in Int, num > 0,
         f.addr = addr, f.size = size, f.num = num, f.bpnext = BuffersFrom(addr, size, num),
         f.count = num, f.queue = << >>
  PROVE  PoolGood(f, {}, {}, {}, 0) /\ f.bpnext \in Seq(Int)
<1> DEFINE s == BuffersFrom(addr, size, num)
<1>1. s = [k \in 1..num |-> addr + (k - 1) * size]
  BY DEF BuffersFrom
<1>2. s \in Seq(Int) /\ Len(s) = num /\ DOMAIN s = 1..num
  BY <1>1
<1>3. ASSUME NEW j \in 1..num, NEW k \in 1..num, s[j] = s[k] PROVE j = k
  <2> DEFINE x == (j - 1) * size
             y == (k - 1) * size
  <2>1. x \in Int /\ y \in Int /\ addr + x = addr + y
    BY <1>1, <1>3
  <2> HIDE DEF x, y
  <2>2. x = y
    BY <2>1
  <2>3. (j - 1) * size = (k - 1) * size
    BY <2>2 DEF x, y
  <2> QED
    BY <2>3
<1> HIDE DEF s
<1>4. Distinct(s)
  BY <1>2, <1>3 DEF Distinct
<1>5. Places(f) = Range(s)
  BY DEF Places, s
<1>6. \A a : a \in Range(s) <=> Has(s, a)
  BY <1>2 DEF Range, Has
<1>7. f.bpnext = s
  BY DEF s
<1>8. Distinct(f.queue) /\ Len(f.queue) = 0 /\ \A p : ~Has(f.queue, p)
  BY DEF Distinct, Has
<1>9. Cardinality({}) = 0
  BY FS_EmptySet
<1>10. Positive(num) = num /\ Positive(-num) = 0 /\ num + 0 + 0 = num
  BY DEF Positive
<1>11. PoolGood(f, {}, {}, {}, 0)
  BY <1>2, <1>4, <1>5, <1>6, <1>7, <1>8, <1>9, <1>10 DEF PoolGood
<1> QED
  BY <1>2, <1>7, <1>11

----------------------------------------------------------------------------
\* All the pools.

Bufs == [addr : Int, pool : Int]
Doing == [at : {"run", "wait", "ready"}, pool : Int, bufs : SUBSET Bufs]

\* The processes that wait for a buffer of pool i, and its buffers with users.
Waiting(i) == {p \in Procs : proc[p].at = "wait" /\ proc[p].pool = i}
OutOf(i) == {b.addr : b \in {c \in WithUsers : c.pool = i}}

PoolTypes ==
    /\ buftab \in Seq(Entries) /\ Len(buftab) <= NBPOOLS /\ nsem \in Nat
    /\ proc \in [Procs -> Doing]
    /\ orphans \in [bufs : SUBSET Bufs, units : [1..NBPOOLS -> Nat]]

\* A process waits for a buffer of a pool there is.
PlacesOK == \A p \in Procs : proc[p].at = "run" \/ proc[p].pool \in 1..Len(buftab)

\* No buffer has two users.
UsersOK ==
    /\ \A b \in WithUsers : b.pool \in 1..Len(buftab)
    /\ \A p \in Procs : proc[p].bufs \cap orphans.bufs = {}
    /\ \A p, q \in Procs : p # q => proc[p].bufs \cap proc[q].bufs = {}

PoolStays(i) == PoolGood(buftab[i], Waiting(i), Released(i), OutOf(i), orphans.units[i])

\* ... and every pool is right; there is nothing of a pool that is not made yet.
PoolsInv ==
    /\ PoolTypes /\ PlacesOK /\ UsersOK
    /\ \A i \in 1..Len(buftab) : PoolStays(i)
    /\ \A i \in 1..NBPOOLS : i > Len(buftab) => orphans.units[i] = 0

\* A member of WithUsers is a process's or lost.
LEMMA UsersAre ==
  ASSUME NEW b
  PROVE  b \in WithUsers <=> b \in orphans.bufs \/ \E p \in Procs : b \in proc[p].bufs
  BY DEF WithUsers

LEMMA UsersTyped ==
  ASSUME PoolTypes
  PROVE  WithUsers \subseteq Bufs
<1>1. orphans.bufs \subseteq Bufs /\ \A p \in Procs : proc[p].bufs \subseteq Bufs
  BY DEF PoolTypes, Doing
<1> QED
  BY <1>1 DEF WithUsers

LEMMA ReleasedFinite ==
  ASSUME NEW i
  PROVE  IsFiniteSet(Released(i))
<1>1. Released(i) \subseteq Procs
  BY DEF Released
<1> QED
  BY <1>1, MemoryAssumption, FS_Subset

\* One process, h, goes elsewhere.
LEMMA OneMoves ==
  ASSUME NEW h \in Procs,
         \A q \in Procs : q # h => proc'[q].at = proc[q].at /\ proc'[q].pool = proc[q].pool,
         NEW j
  PROVE  /\ Waiting(j)' = IF proc'[h].at = "wait" /\ proc'[h].pool = j
                          THEN Waiting(j) \cup {h} ELSE Waiting(j) \ {h}
         /\ Released(j)' = IF proc'[h].at = "ready" /\ proc'[h].pool = j
                           THEN Released(j) \cup {h} ELSE Released(j) \ {h}
  BY DEF Waiting, Released

\* A process p gets a buffer b that nobody has, or gives it back, or leaves what it has.
LEMMA UserComes ==
  ASSUME PoolTypes, UsersOK, NEW p \in Procs, NEW b \in Bufs, Len(buftab') = Len(buftab),
         \A q \in Procs : proc'[q].bufs = IF q = p THEN proc[p].bufs \cup {b} ELSE proc[q].bufs,
         orphans'.bufs = orphans.bufs, b.addr \notin OutOf(b.pool), b.pool \in 1..Len(buftab)
  PROVE  /\ UsersOK'
         /\ \A j : OutOf(j)' = IF j = b.pool THEN OutOf(j) \cup {b.addr} ELSE OutOf(j)
<1>1. WithUsers' = WithUsers \cup {b}
  BY DEF WithUsers
<1>2. b \notin WithUsers
  BY DEF OutOf
<1>3. b \notin orphans.bufs /\ \A q \in Procs : b \notin proc[q].bufs
  BY <1>2, UsersAre
<1>4. UsersOK'
  BY <1>1, <1>3 DEF UsersOK
<1>5. \A j : OutOf(j)' = IF j = b.pool THEN OutOf(j) \cup {b.addr} ELSE OutOf(j)
  BY <1>1 DEF OutOf
<1> QED
  BY <1>4, <1>5

LEMMA UserGoes ==
  ASSUME PoolTypes, UsersOK, NEW p \in Procs, NEW b \in proc[p].bufs,
         Len(buftab') = Len(buftab),
         \A q \in Procs : proc'[q].bufs = IF q = p THEN proc[p].bufs \ {b} ELSE proc[q].bufs,
         orphans'.bufs = orphans.bufs
  PROVE  /\ UsersOK'
         /\ b \in Bufs /\ b.pool \in 1..Len(buftab) /\ b.addr \in OutOf(b.pool)
         /\ \A j : OutOf(j)' = IF j = b.pool THEN OutOf(j) \ {b.addr} ELSE OutOf(j)
<1>1. b \notin orphans.bufs /\ \A q \in Procs : q # p => b \notin proc[q].bufs
  BY DEF UsersOK
<1>2. WithUsers' = WithUsers \ {b}
  BY <1>1 DEF WithUsers
<1>3. b \in WithUsers /\ WithUsers \subseteq Bufs
  BY UsersAre, UsersTyped
<1>4. UsersOK'
  BY <1>2 DEF UsersOK
<1>5. b.addr \in OutOf(b.pool) /\ b.pool \in 1..Len(buftab)
  BY <1>3 DEF OutOf, UsersOK
<1>6. ASSUME NEW c \in WithUsers, c.addr = b.addr, c.pool = b.pool PROVE c = b
  BY <1>3, <1>6 DEF Bufs
<1>7. \A j : OutOf(j)' = IF j = b.pool THEN OutOf(j) \ {b.addr} ELSE OutOf(j)
  <2> SUFFICES ASSUME NEW j
               PROVE  OutOf(j)' = IF j = b.pool THEN OutOf(j) \ {b.addr} ELSE OutOf(j)
    OBVIOUS
  <2>1. \A x : x \in OutOf(j)' <=> \E c \in WithUsers : c # b /\ c.pool = j /\ c.addr = x
    BY <1>2 DEF OutOf
  <2>2. \A x : x \in OutOf(j) <=> \E c \in WithUsers : c.pool = j /\ c.addr = x
    BY DEF OutOf
  <2>3. CASE j = b.pool
    <3>1. \A x : x \in OutOf(j)' <=> x \in OutOf(j) /\ x # b.addr
      BY <1>6, <2>1, <2>2, <2>3
    <3> QED
      BY <2>3, <3>1
  <2>4. CASE j # b.pool
    <3>1. \A x : x \in OutOf(j)' <=> x \in OutOf(j)
      BY <2>1, <2>2, <2>4
    <3> QED
      BY <2>4, <3>1
  <2> QED
    BY <2>3, <2>4
<1> QED
  BY <1>3, <1>4, <1>5, <1>7

LEMMA UserLeaves ==
  ASSUME UsersOK, NEW p \in Procs, Len(buftab') = Len(buftab),
         \A q \in Procs : proc'[q].bufs = IF q = p THEN {} ELSE proc[q].bufs,
         orphans'.bufs = orphans.bufs \cup proc[p].bufs
  PROVE  UsersOK' /\ \A j : OutOf(j)' = OutOf(j)
<1>1. WithUsers' = WithUsers
  BY DEF WithUsers
<1>2. UsersOK'
  BY <1>1 DEF UsersOK
<1> QED
  BY <1>1, <1>2 DEF OutOf

LEMMA UsersStay ==
  ASSUME UsersOK, Len(buftab') = Len(buftab),
         \A q \in Procs : proc'[q].bufs = proc[q].bufs, orphans'.bufs = orphans.bufs
  PROVE  UsersOK' /\ \A j : OutOf(j)' = OutOf(j)
<1>1. WithUsers' = WithUsers
  BY DEF WithUsers
<1>2. UsersOK'
  BY <1>1 DEF UsersOK
<1> QED
  BY <1>1, <1>2 DEF OutOf

\* A change to the entry of one pool.
LEMMA OneEntry ==
  ASSUME PoolTypes, NEW i \in 1..Len(buftab), NEW f \in Entries,
         buftab' = [buftab EXCEPT ![i] = f], SameBuffers(buftab[i], f)
  PROVE  /\ buftab' \in Seq(Entries) /\ Len(buftab') = Len(buftab) /\ buftab'[i] = f
         /\ \A j \in 1..Len(buftab) : j # i => buftab'[j] = buftab[j]
         /\ DOMAIN buftab' = DOMAIN buftab
         /\ \A j \in DOMAIN buftab : PoolUnits(j)' = PoolUnits(j)
<1>1. buftab \in Seq(Entries) /\ DOMAIN buftab = 1..Len(buftab)
  BY DEF PoolTypes
<1>2. /\ buftab' \in Seq(Entries) /\ Len(buftab') = Len(buftab) /\ buftab'[i] = f
      /\ \A j \in 1..Len(buftab) : j # i => buftab'[j] = buftab[j]
      /\ DOMAIN buftab' = DOMAIN buftab
  BY <1>1
<1>3. ASSUME NEW j \in DOMAIN buftab PROVE PoolUnits(j)' = PoolUnits(j)
  BY <1>1, <1>2 DEF PoolUnits, SameBuffers
<1> QED
  BY <1>2, <1>3

\* Only pool i changes.
LEMMA OnePool ==
  ASSUME PoolsInv, PoolTypes', PlacesOK', UsersOK', NEW i \in 1..Len(buftab),
         Len(buftab') = Len(buftab),
         \A j \in 1..Len(buftab) : j # i =>
            /\ buftab'[j] = buftab[j] /\ Waiting(j)' = Waiting(j) /\ Released(j)' = Released(j)
            /\ OutOf(j)' = OutOf(j) /\ orphans'.units[j] = orphans.units[j],
         PoolGood(buftab'[i], Waiting(i)', Released(i)', OutOf(i)', orphans'.units[i]),
         \A j \in 1..NBPOOLS : j > Len(buftab) => orphans'.units[j] = orphans.units[j]
  PROVE  PoolsInv'
<1>1. ASSUME NEW j \in 1..Len(buftab) PROVE PoolStays(j)'
  BY DEF PoolsInv, PoolStays
<1>2. \A j \in 1..NBPOOLS : j > Len(buftab') => orphans'.units[j] = 0
  BY DEF PoolsInv
<1> QED
  BY <1>1, <1>2 DEF PoolsInv

LEMMA EntryChanged ==
  ASSUME NEW e \in Entries
  PROVE  /\ \A t \in Seq(Int) : [e EXCEPT !.bpnext = t] \in Entries
         /\ \A c \in Int : [e EXCEPT !.count = c] \in Entries
         /\ \A q \in Seq(Procs) : [e EXCEPT !.queue = q] \in Entries
  BY DEF Entries

\* What a step on the buffers does.
PoolsStep ==
    /\ PoolsInv'
    /\ DOMAIN buftab' = DOMAIN buftab
    /\ \A i \in DOMAIN buftab : PoolUnits(i)' = PoolUnits(i)

\* What there is to know of one pool.
LEMMA PoolKnown ==
  ASSUME PoolsInv, NEW i \in 1..Len(buftab)
  PROVE  /\ buftab[i] \in Entries /\ orphans.units[i] \in Nat /\ i \in 1..NBPOOLS
         /\ PoolGood(buftab[i], Waiting(i), Released(i), OutOf(i), orphans.units[i])
         /\ IsFiniteSet(Released(i)) /\ Waiting(i) \cap Released(i) = {}
<1>1. NBPOOLS \in Nat /\ Len(buftab) \in Nat /\ i \in Nat /\ Len(buftab) <= NBPOOLS
  BY MemoryAssumption DEF PoolsInv, PoolTypes
<1>2. i \in 1..NBPOOLS
  BY <1>1
<1>3. buftab[i] \in Entries /\ orphans.units[i] \in Nat
  <2>1. buftab \in Seq(Entries) /\ orphans \in [bufs : SUBSET Bufs, units : [1..NBPOOLS -> Nat]]
    BY DEF PoolsInv, PoolTypes
  <2>2. buftab[i] \in Entries
    BY <2>1
  <2>3. orphans.units \in [1..NBPOOLS -> Nat]
    BY <2>1
  <2> QED
    BY <1>2, <2>2, <2>3
<1>4. Waiting(i) \cap Released(i) = {}
  BY DEF Waiting, Released
<1> QED
  BY <1>2, <1>3, <1>4, ReleasedFinite DEF PoolsInv, PoolStays

LEMMA getbufTakes ==
  ASSUME PoolsInv, NEW p \in Procs, NEW i \in DOMAIN buftab, getbuf(p, i), buftab[i].count > 0
  PROVE  PoolsStep
<1> DEFINE e == buftab[i]
           f == [FirstTaken(e) EXCEPT !.count = e.count - 1]
           b == Buffer(e, i)
<1>0. i \in 1..Len(buftab) /\ PoolTypes /\ PlacesOK /\ UsersOK /\ proc[p] \in Doing
  BY DEF PoolsInv, PoolTypes
<1>1. /\ buftab' = [buftab EXCEPT ![i] = f]
      /\ proc' = [proc EXCEPT ![p].bufs = proc[p].bufs \cup {b}]
      /\ orphans' = orphans /\ nsem' = nsem
  <2>1. FirstTaken(e).count = e.count
    BY <1>0, PoolKnown DEF FirstTaken, Entries
  <2> QED
    BY <2>1 DEF getbuf
<1>2. /\ e \in Entries /\ orphans.units[i] \in Nat /\ i \in 1..NBPOOLS
      /\ PoolGood(e, Waiting(i), Released(i), OutOf(i), orphans.units[i])
      /\ IsFiniteSet(Released(i))
  BY <1>0, PoolKnown
<1>3. /\ SameBuffers(e, f) /\ f.bpnext = Tail(e.bpnext)
      /\ f.count = e.count - 1 /\ f.queue = e.queue
  <2> HIDE DEF e
  <2> QED
    BY <1>2 DEF FirstTaken, Entries, SameBuffers
<1>4. b.addr = Head(e.bpnext) /\ b.pool = i /\ b = [addr |-> Head(e.bpnext), pool |-> i]
  BY DEF Buffer
<1> HIDE DEF b, f
<1>5. /\ PoolGood(f, Waiting(i), Released(i), OutOf(i) \cup {b.addr}, orphans.units[i])
      /\ b.addr \notin OutOf(i) /\ b.addr \in Int /\ Tail(e.bpnext) \in Seq(Int)
  <2> HIDE DEF e
  <2>1. e.count > 0
    BY DEF e
  <2> QED
    BY <1>2, <1>3, <1>4, <2>1, GoodTaken
<1>6. f \in Entries /\ b \in Bufs
  <2> HIDE DEF e
  <2>1. FirstTaken(e) \in Entries
    BY <1>2, <1>5, EntryChanged DEF FirstTaken
  <2>2. e.count - 1 \in Int
    BY <1>2 DEF Entries
  <2>3. f \in Entries
    BY <2>1, <2>2, EntryChanged DEF f
  <2>4. b \in Bufs
    BY <1>2, <1>4, <1>5 DEF Bufs
  <2> QED
    BY <2>3, <2>4
<1>7. /\ buftab' \in Seq(Entries) /\ Len(buftab') = Len(buftab) /\ buftab'[i] = f
      /\ \A j \in 1..Len(buftab) : j # i => buftab'[j] = buftab[j]
      /\ DOMAIN buftab' = DOMAIN buftab
      /\ \A j \in DOMAIN buftab : PoolUnits(j)' = PoolUnits(j)
  BY <1>0, <1>1, <1>3, <1>6, OneEntry
<1>8. /\ proc' \in [Procs -> Doing]
      /\ \A q \in Procs : proc'[q].at = proc[q].at /\ proc'[q].pool = proc[q].pool
      /\ \A q \in Procs : proc'[q].bufs = IF q = p THEN proc[p].bufs \cup {b}
                                           ELSE proc[q].bufs
  BY <1>0, <1>1, <1>6 DEF PoolTypes, Doing
<1>9. PoolTypes' /\ PlacesOK'
  BY <1>0, <1>1, <1>7, <1>8 DEF PoolTypes, PlacesOK
<1>10. /\ UsersOK'
       /\ \A j : OutOf(j)' = IF j = i THEN OutOf(j) \cup {b.addr} ELSE OutOf(j)
  <2>1. b.addr \notin OutOf(b.pool) /\ b.pool \in 1..Len(buftab) /\ orphans'.bufs = orphans.bufs
    BY <1>0, <1>1, <1>4, <1>5
  <2>2. /\ UsersOK'
        /\ \A j : OutOf(j)' = IF j = b.pool THEN OutOf(j) \cup {b.addr} ELSE OutOf(j)
    BY <1>0, <1>6, <1>7, <1>8, <2>1, UserComes
  <2> QED
    BY <1>4, <2>2
<1>11. \A j : Waiting(j)' = Waiting(j) /\ Released(j)' = Released(j)
  BY <1>8 DEF Waiting, Released
<1>12. PoolGood(buftab'[i], Waiting(i)', Released(i)', OutOf(i)', orphans'.units[i])
  BY <1>1, <1>5, <1>7, <1>10, <1>11
<1>13. PoolsInv'
  BY <1>0, <1>1, <1>7, <1>9, <1>10, <1>11, <1>12, OnePool
<1> QED
  BY <1>7, <1>13 DEF PoolsStep

LEMMA getbufWaits ==
  ASSUME PoolsInv, NEW p \in Procs, NEW i \in DOMAIN buftab, getbuf(p, i), ~(buftab[i].count > 0)
  PROVE  PoolsStep
<1> DEFINE e == buftab[i]
           f == [e EXCEPT !.count = e.count - 1, !.queue = Append(e.queue, p)]
<1>0. /\ i \in 1..Len(buftab) /\ PoolTypes /\ PlacesOK /\ UsersOK
      /\ proc[p] \in Doing /\ proc[p].at = "run"
  BY DEF PoolsInv, PoolTypes, getbuf
<1>1. /\ buftab' = [buftab EXCEPT ![i].count = e.count - 1, ![i].queue = Append(e.queue, p)]
      /\ proc' = [proc EXCEPT ![p].at = "wait", ![p].pool = i]
      /\ orphans' = orphans /\ nsem' = nsem
  BY <1>0 DEF getbuf
<1>2. /\ e \in Entries /\ orphans.units[i] \in Nat
      /\ PoolGood(e, Waiting(i), Released(i), OutOf(i), orphans.units[i])
      /\ IsFiniteSet(Released(i))
  BY <1>0, PoolKnown
<1>3. buftab' = [buftab EXCEPT ![i] = f]
  BY <1>0, <1>1, <1>2 DEF PoolTypes, Entries
<1>4. /\ SameBuffers(e, f) /\ f.bpnext = e.bpnext
      /\ f.count = e.count - 1 /\ f.queue = Append(e.queue, p)
  <2> HIDE DEF e
  <2> QED
    BY <1>2 DEF Entries, SameBuffers
<1>5. p \notin Waiting(i) /\ p \notin Released(i)
  BY <1>0 DEF Waiting, Released
<1> HIDE DEF f
<1>6. /\ PoolGood(f, Waiting(i) \cup {p}, Released(i), OutOf(i), orphans.units[i])
      /\ Append(e.queue, p) \in Seq(Procs)
  <2> HIDE DEF e
  <2>1. ~(e.count > 0)
    BY DEF e
  <2> QED
    BY <1>2, <1>4, <1>5, <2>1, GoodWaits
<1>7. f \in Entries
  <2> HIDE DEF e
  <2>1. e.count - 1 \in Int
    BY <1>2 DEF Entries
  <2> DEFINE g == [e EXCEPT !.count = e.count - 1]
  <2>2. g \in Entries
    BY <1>2, <2>1, EntryChanged
  <2>3. f = [g EXCEPT !.queue = Append(e.queue, p)]
    BY <1>2 DEF Entries, f
  <2> HIDE DEF g
  <2> QED
    BY <1>6, <2>2, <2>3, EntryChanged
<1>8. /\ buftab' \in Seq(Entries) /\ Len(buftab') = Len(buftab) /\ buftab'[i] = f
      /\ \A j \in 1..Len(buftab) : j # i => buftab'[j] = buftab[j]
      /\ DOMAIN buftab' = DOMAIN buftab
      /\ \A j \in DOMAIN buftab : PoolUnits(j)' = PoolUnits(j)
  BY <1>0, <1>3, <1>4, <1>7, OneEntry
<1>9. /\ proc' \in [Procs -> Doing]
      /\ \A q \in Procs : q # p => proc'[q].at = proc[q].at /\ proc'[q].pool = proc[q].pool
      /\ proc'[p].at = "wait" /\ proc'[p].pool = i
      /\ \A q \in Procs : proc'[q].bufs = proc[q].bufs
  <2>1. i \in Int
    BY <1>0 DEF PoolTypes
  <2> QED
    BY <1>0, <1>1, <2>1 DEF PoolTypes, Doing
<1>10. PoolTypes' /\ PlacesOK'
  BY <1>0, <1>1, <1>8, <1>9 DEF PoolTypes, PlacesOK
<1>11. UsersOK' /\ \A j : OutOf(j)' = OutOf(j)
  BY <1>0, <1>1, <1>8, <1>9, UsersStay
<1>12. \A j : /\ Waiting(j)' = IF j = i THEN Waiting(j) \cup {p} ELSE Waiting(j)
              /\ Released(j)' = Released(j)
  <2> SUFFICES ASSUME NEW j
               PROVE  /\ Waiting(j)' = IF j = i THEN Waiting(j) \cup {p} ELSE Waiting(j)
                      /\ Released(j)' = Released(j)
    OBVIOUS
  <2>1. /\ Waiting(j)' = IF proc'[p].at = "wait" /\ proc'[p].pool = j
                         THEN Waiting(j) \cup {p} ELSE Waiting(j) \ {p}
        /\ Released(j)' = IF proc'[p].at = "ready" /\ proc'[p].pool = j
                          THEN Released(j) \cup {p} ELSE Released(j) \ {p}
    BY <1>9, OneMoves
  <2>2. p \notin Waiting(j) /\ p \notin Released(j)
    BY <1>0 DEF Waiting, Released
  <2> QED
    BY <1>9, <2>1, <2>2
<1>13. PoolGood(buftab'[i], Waiting(i)', Released(i)', OutOf(i)', orphans'.units[i])
  BY <1>1, <1>6, <1>8, <1>11, <1>12
<1>14. PoolsInv'
  BY <1>0, <1>1, <1>8, <1>10, <1>11, <1>12, <1>13, OnePool
<1> QED
  BY <1>8, <1>14 DEF PoolsStep

LEMMA GotBufTakes ==
  ASSUME PoolsInv, NEW p \in Procs, GotBuf(p)
  PROVE  PoolsStep
<1>a. /\ PoolTypes /\ PlacesOK /\ UsersOK /\ proc[p] \in Doing /\ proc[p].at = "ready"
      /\ proc[p].pool \in 1..Len(buftab)
  BY DEF PoolsInv, PoolTypes, PlacesOK, GotBuf
<1>b. PICK i \in 1..Len(buftab) : i = proc[p].pool
  BY <1>a
<1> DEFINE e == buftab[i]
           f == FirstTaken(e)
           b == Buffer(e, i)
<1>0. /\ PoolTypes /\ PlacesOK /\ UsersOK /\ proc[p] \in Doing /\ proc[p].at = "ready"
      /\ i \in 1..Len(buftab) /\ i = proc[p].pool
  BY <1>a, <1>b
<1>1. /\ buftab' = [buftab EXCEPT ![i] = f]
      /\ proc' = [proc EXCEPT ![p] = [Running EXCEPT !.bufs = proc[p].bufs \cup {b}]]
      /\ orphans' = orphans /\ nsem' = nsem
  BY <1>b DEF GotBuf
<1>2. /\ e \in Entries /\ orphans.units[i] \in Nat /\ i \in 1..NBPOOLS
      /\ PoolGood(e, Waiting(i), Released(i), OutOf(i), orphans.units[i])
      /\ IsFiniteSet(Released(i))
  BY <1>0, PoolKnown
<1>3. /\ SameBuffers(e, f) /\ f.bpnext = Tail(e.bpnext)
      /\ f.count = e.count /\ f.queue = e.queue
  <2> HIDE DEF e
  <2> QED
    BY <1>2 DEF FirstTaken, Entries, SameBuffers
<1>4. b.addr = Head(e.bpnext) /\ b.pool = i /\ b = [addr |-> Head(e.bpnext), pool |-> i]
  BY DEF Buffer
<1> HIDE DEF b, f
<1>5. p \in Released(i)
  BY <1>0 DEF Released
<1>6. /\ PoolGood(f, Waiting(i), Released(i) \ {p}, OutOf(i) \cup {b.addr}, orphans.units[i])
      /\ b.addr \notin OutOf(i) /\ b.addr \in Int /\ Tail(e.bpnext) \in Seq(Int)
  <2> DEFINE n == orphans.units[i]
             w == Waiting(i)
             r == Released(i)
             out == OutOf(i)
  <2> HIDE DEF e, n, w, r, out
  <2>1. n \in Nat /\ PoolGood(e, w, r, out, n) /\ IsFiniteSet(r) /\ p \in r /\ e \in Entries
    BY <1>2, <1>5 DEF n, w, r, out
  <2>2. /\ PoolGood(f, w, r \ {p}, out \cup {Head(e.bpnext)}, n)
        /\ Head(e.bpnext) \notin out /\ Head(e.bpnext) \in Int
        /\ Tail(e.bpnext) \in Seq(Int)
    BY <1>3, <2>1, GoodGot
  <2> QED
    BY <1>4, <2>2 DEF n, w, r, out
<1>7. f \in Entries /\ b \in Bufs
  <2> HIDE DEF e
  <2>1. f \in Entries
    BY <1>2, <1>6, EntryChanged DEF f, FirstTaken
  <2>2. b \in Bufs
    BY <1>2, <1>4, <1>6 DEF Bufs
  <2> QED
    BY <2>1, <2>2
<1>8. /\ buftab' \in Seq(Entries) /\ Len(buftab') = Len(buftab) /\ buftab'[i] = f
      /\ \A j \in 1..Len(buftab) : j # i => buftab'[j] = buftab[j]
      /\ DOMAIN buftab' = DOMAIN buftab
      /\ \A j \in DOMAIN buftab : PoolUnits(j)' = PoolUnits(j)
  BY <1>0, <1>1, <1>3, <1>7, OneEntry
<1>9. /\ proc' \in [Procs -> Doing]
      /\ \A q \in Procs : q # p => proc'[q].at = proc[q].at /\ proc'[q].pool = proc[q].pool
      /\ proc'[p].at = "run"
      /\ \A q \in Procs : proc'[q].bufs = IF q = p THEN proc[p].bufs \cup {b} ELSE proc[q].bufs
  <2>1. [Running EXCEPT !.bufs = proc[p].bufs \cup {b}] \in Doing
    BY <1>0, <1>7 DEF Running, Doing
  <2>2. [Running EXCEPT !.bufs = proc[p].bufs \cup {b}].at = "run"
        /\ [Running EXCEPT !.bufs = proc[p].bufs \cup {b}].bufs = proc[p].bufs \cup {b}
    BY DEF Running
  <2> QED
    BY <1>0, <1>1, <2>1, <2>2 DEF PoolTypes
<1>10. PoolTypes' /\ PlacesOK'
  BY <1>0, <1>1, <1>8, <1>9 DEF PoolTypes, PlacesOK
<1>11. /\ UsersOK'
       /\ \A j : OutOf(j)' = IF j = i THEN OutOf(j) \cup {b.addr} ELSE OutOf(j)
  <2>1. b.addr \notin OutOf(b.pool) /\ b.pool \in 1..Len(buftab) /\ orphans'.bufs = orphans.bufs
    BY <1>0, <1>1, <1>4, <1>6
  <2>2. /\ UsersOK'
        /\ \A j : OutOf(j)' = IF j = b.pool THEN OutOf(j) \cup {b.addr} ELSE OutOf(j)
    BY <1>0, <1>7, <1>8, <1>9, <2>1, UserComes
  <2> QED
    BY <1>4, <2>2
<1>12. \A j : /\ Waiting(j)' = Waiting(j)
              /\ Released(j)' = IF j = i THEN Released(j) \ {p} ELSE Released(j)
  <2> SUFFICES ASSUME NEW j
               PROVE  /\ Waiting(j)' = Waiting(j)
                      /\ Released(j)' = IF j = i THEN Released(j) \ {p} ELSE Released(j)
    OBVIOUS
  <2>1. /\ Waiting(j)' = IF proc'[p].at = "wait" /\ proc'[p].pool = j
                         THEN Waiting(j) \cup {p} ELSE Waiting(j) \ {p}
        /\ Released(j)' = IF proc'[p].at = "ready" /\ proc'[p].pool = j
                          THEN Released(j) \cup {p} ELSE Released(j) \ {p}
    BY <1>9, OneMoves
  <2>2. p \notin Waiting(j) /\ (j # i => p \notin Released(j))
    BY <1>0 DEF Waiting, Released
  <2> QED
    BY <1>9, <2>1, <2>2
<1>13. PoolGood(buftab'[i], Waiting(i)', Released(i)', OutOf(i)', orphans'.units[i])
  BY <1>1, <1>6, <1>8, <1>11, <1>12
<1>14. PoolsInv'
  BY <1>0, <1>1, <1>8, <1>10, <1>11, <1>12, <1>13, OnePool
<1> QED
  BY <1>8, <1>14 DEF PoolsStep

LEMMA freebufGives ==
  ASSUME PoolsInv, NEW p \in Procs, NEW b \in proc[p].bufs, freebuf(p, b)
  PROVE  PoolsStep
<1>a. /\ PoolTypes /\ PlacesOK /\ UsersOK /\ proc[p] \in Doing /\ proc[p].at = "run"
      /\ b \in Bufs /\ b.pool \in 1..Len(buftab) /\ b.addr \in OutOf(b.pool)
  <2>1. PoolTypes /\ PlacesOK /\ UsersOK /\ proc[p] \in Doing /\ proc[p].at = "run"
    BY DEF PoolsInv, PoolTypes, freebuf
  <2>2. b \in WithUsers
    BY UsersAre
  <2>3. b \in Bufs /\ b.pool \in 1..Len(buftab)
    BY <2>1, <2>2, UsersTyped DEF UsersOK
  <2> QED
    BY <2>1, <2>2, <2>3 DEF OutOf
<1>b. PICK i \in 1..Len(buftab) : i = b.pool
  BY <1>a
<1> DEFINE e == buftab[i]
           a == b.addr
           h == Head(e.queue)
           q2 == IF e.count < 0 THEN Tail(e.queue) ELSE e.queue
           f == [e EXCEPT !.bpnext = <<a>> \o e.bpnext, !.count = e.count + 1, !.queue = q2]
           n == orphans.units[i]
           w == Waiting(i)
           r == Released(i)
           out == OutOf(i)
<1>0. i = b.pool /\ i \in 1..Len(buftab) /\ a \in Int /\ a \in out
  BY <1>a, <1>b DEF Bufs
<1>1. /\ buftab' = [buftab EXCEPT ![i].bpnext = <<a>> \o e.bpnext,
                                  ![i].count = e.count + 1, ![i].queue = q2]
      /\ proc' = [q \in Procs |->
                    IF q = p THEN [proc[p] EXCEPT !.bufs = proc[p].bufs \ {b}]
                    ELSE IF e.count < 0 /\ q = h THEN [proc[q] EXCEPT !.at = "ready"]
                    ELSE proc[q]]
      /\ orphans' = orphans /\ nsem' = nsem
  BY <1>a, <1>0 DEF freebuf, PoolTypes
<1>2. e \in Entries /\ n \in Nat /\ PoolGood(e, w, r, out, n) /\ IsFiniteSet(r) /\ w \cap r = {}
  BY <1>0, PoolKnown
<1>3. buftab' = [buftab EXCEPT ![i] = f]
  <2> HIDE DEF q2, a
  <2> QED
    BY <1>a, <1>0, <1>1, <1>2 DEF PoolTypes, Entries
<1>4. /\ SameBuffers(e, f) /\ f.bpnext = <<a>> \o e.bpnext
      /\ f.count = e.count + 1 /\ f.queue = q2
  <2> HIDE DEF e, q2, a
  <2> QED
    BY <1>2 DEF Entries, SameBuffers
<1> HIDE DEF f
<1>5. /\ e.count < 0 => /\ PoolGood(f, w \ {h}, r \cup {h}, out \ {a}, n)
                        /\ <<a>> \o e.bpnext \in Seq(Int) /\ q2 \in Seq(Procs) /\ h \in w
      /\ ~(e.count < 0) => /\ PoolGood(f, w, r, out \ {a}, n)
                           /\ <<a>> \o e.bpnext \in Seq(Int) /\ q2 \in Seq(Procs)
  <2>1. CASE e.count < 0
    <3>1. q2 = Tail(e.queue)
      BY <2>1
    <3>2. f.queue = Tail(e.queue)
      BY <1>4, <3>1
    <3> HIDE DEF e, n, w, r, out, a, q2
    <3>3. /\ PoolGood(f, w \ {Head(e.queue)}, r \cup {Head(e.queue)}, out \ {a}, n)
          /\ <<a>> \o e.bpnext \in Seq(Int) /\ Tail(e.queue) \in Seq(Procs)
          /\ Head(e.queue) \in w
      BY <1>0, <1>2, <1>4, <2>1, <3>2, GoodReleased
    <3> QED
      BY <2>1, <3>1, <3>3
  <2>2. CASE ~(e.count < 0)
    <3>1. q2 = e.queue
      BY <2>2
    <3>2. f.queue = e.queue /\ e.queue \in Seq(Procs)
      BY <1>2, <1>4, <3>1 DEF Entries
    <3> HIDE DEF e, n, w, r, out, a, q2
    <3>3. PoolGood(f, w, r, out \ {a}, n) /\ <<a>> \o e.bpnext \in Seq(Int)
      BY <1>0, <1>2, <1>4, <2>2, <3>2, GoodFreed
    <3> QED
      BY <2>2, <3>1, <3>2, <3>3
  <2> QED
    BY <2>1, <2>2
<1>6. f \in Entries
  <2> DEFINE t == <<a>> \o e.bpnext
             f1 == [e EXCEPT !.bpnext = t]
             f2 == [f1 EXCEPT !.count = e.count + 1]
  <2>1. t \in Seq(Int) /\ q2 \in Seq(Procs)
    BY <1>5
  <2> HIDE DEF t, q2
  <2>2. e.count + 1 \in Int
    BY <1>2 DEF Entries
  <2> HIDE DEF e
  <2>3. f1 \in Entries
    BY <1>2, <2>1, EntryChanged
  <2>4. f = [f2 EXCEPT !.queue = q2]
    BY <1>2 DEF Entries, f, t
  <2> HIDE DEF f1
  <2>5. f2 \in Entries
    BY <2>2, <2>3, EntryChanged
  <2> HIDE DEF f2
  <2> QED
    BY <2>1, <2>4, <2>5, EntryChanged
<1>7. /\ buftab' \in Seq(Entries) /\ Len(buftab') = Len(buftab) /\ buftab'[i] = f
      /\ \A j \in 1..Len(buftab) : j # i => buftab'[j] = buftab[j]
      /\ DOMAIN buftab' = DOMAIN buftab
      /\ \A j \in DOMAIN buftab : PoolUnits(j)' = PoolUnits(j)
  BY <1>a, <1>3, <1>4, <1>6, OneEntry
<1>8. e.count < 0 => h \in Procs /\ h # p /\ proc[h].at = "wait" /\ proc[h].pool = i
  BY <1>a, <1>5 DEF Waiting
<1> HIDE DEF h, q2
<1>9. /\ proc' \in [Procs -> Doing]
      /\ \A q \in Procs : proc'[q].pool = proc[q].pool
      /\ \A q \in Procs : ~(e.count < 0 /\ q = h) => proc'[q].at = proc[q].at
      /\ e.count < 0 => proc'[h].at = "ready"
      /\ \A q \in Procs : proc'[q].bufs = IF q = p THEN proc[p].bufs \ {b} ELSE proc[q].bufs
  <2>1. proc \in [Procs -> Doing]
    BY <1>a DEF PoolTypes
  <2> HIDE DEF e
  <2>2. ASSUME NEW q \in Procs
        PROVE  /\ proc'[q] \in Doing /\ proc'[q].pool = proc[q].pool
               /\ ~(e.count < 0 /\ q = h) => proc'[q].at = proc[q].at
               /\ e.count < 0 /\ q = h => proc'[q].at = "ready"
               /\ proc'[q].bufs = IF q = p THEN proc[p].bufs \ {b} ELSE proc[q].bufs
    <3>1. proc[q] \in Doing /\ proc[p] \in Doing
      BY <2>1
    <3>2. CASE q = p
      <4>1. proc'[q] = [proc[p] EXCEPT !.bufs = proc[p].bufs \ {b}] /\ ~(e.count < 0 /\ q = h)
        BY <1>1, <1>8, <3>2
      <4> QED
        BY <3>1, <3>2, <4>1 DEF Doing
    <3>3. CASE q # p /\ e.count < 0 /\ q = h
      <4>1. proc'[q] = [proc[q] EXCEPT !.at = "ready"]
        BY <1>1, <3>3
      <4> QED
        BY <3>1, <3>3, <4>1 DEF Doing
    <3>4. CASE q # p /\ ~(e.count < 0 /\ q = h)
      <4>1. proc'[q] = proc[q]
        BY <1>1, <3>4
      <4> QED
        BY <3>1, <3>4, <4>1
    <3> QED
      BY <3>2, <3>3, <3>4
  <2>3. proc' \in [Procs -> Doing]
    BY <1>1, <2>2
  <2> QED
    BY <1>8, <2>2, <2>3
<1>10. PoolTypes' /\ PlacesOK'
  BY <1>a, <1>1, <1>7, <1>8, <1>9 DEF PoolTypes, PlacesOK
<1>11. /\ UsersOK'
       /\ \A j : OutOf(j)' = IF j = i THEN OutOf(j) \ {a} ELSE OutOf(j)
  <2>1. orphans'.bufs = orphans.bufs
    BY <1>1
  <2>2. /\ UsersOK'
        /\ \A j : OutOf(j)' = IF j = b.pool THEN OutOf(j) \ {b.addr} ELSE OutOf(j)
    BY <1>a, <1>7, <1>9, <2>1, UserGoes
  <2> QED
    BY <1>0, <2>2
<1>12. CASE ~(e.count < 0)
  <2>1. \A j : Waiting(j)' = Waiting(j) /\ Released(j)' = Released(j)
    BY <1>9, <1>12 DEF Waiting, Released
  <2>2. PoolGood(f, Waiting(i), Released(i), OutOf(i) \ {a}, orphans.units[i])
    BY <1>5, <1>12
  <2> HIDE DEF e
  <2>3. PoolGood(buftab'[i], Waiting(i)', Released(i)', OutOf(i)', orphans'.units[i])
    BY <1>1, <1>7, <1>11, <2>1, <2>2
  <2>4. PoolsInv'
    BY <1>0, <1>1, <1>7, <1>10, <1>11, <2>1, <2>3, OnePool
  <2> QED
    BY <1>7, <2>4 DEF PoolsStep
<1>13. CASE e.count < 0
  <2>0. PICK k \in Procs : k = h
    BY <1>8, <1>13
  <2>1. ASSUME NEW j
        PROVE  /\ Waiting(j)' = IF j = i THEN Waiting(j) \ {k} ELSE Waiting(j)
               /\ Released(j)' = IF j = i THEN Released(j) \cup {k} ELSE Released(j)
    <3>1. /\ Waiting(j)' = IF proc'[k].at = "wait" /\ proc'[k].pool = j
                           THEN Waiting(j) \cup {k} ELSE Waiting(j) \ {k}
          /\ Released(j)' = IF proc'[k].at = "ready" /\ proc'[k].pool = j
                            THEN Released(j) \cup {k} ELSE Released(j) \ {k}
      BY <1>9, <2>0, OneMoves
    <3>2. proc'[k].at = "ready" /\ proc'[k].pool = i /\ proc[k].at = "wait" /\ proc[k].pool = i
      BY <1>8, <1>9, <1>13, <2>0
    <3>3. k \notin Released(j) /\ (j # i => k \notin Waiting(j))
      BY <3>2 DEF Waiting, Released
    <3> QED
      BY <3>1, <3>2, <3>3
  <2>2. PoolGood(f, Waiting(i) \ {k}, Released(i) \cup {k}, OutOf(i) \ {a}, orphans.units[i])
    BY <1>5, <1>13, <2>0
  <2> HIDE DEF e
  <2>3. PoolGood(buftab'[i], Waiting(i)', Released(i)', OutOf(i)', orphans'.units[i])
    BY <1>1, <1>7, <1>11, <2>1, <2>2
  <2>4. PoolsInv'
    BY <1>0, <1>1, <1>7, <1>10, <1>11, <2>1, <2>3, OnePool
  <2> QED
    BY <1>7, <2>4 DEF PoolsStep
<1> QED
  BY <1>12, <1>13

\* What a kill does to the buffers a process has.
LEMMA KillLeaves ==
  ASSUME PoolsInv, NEW p \in Procs, Kill(p), PoolTypes => Len(buftab') = Len(buftab)
  PROVE  /\ proc' \in [Procs -> Doing]
         /\ \A q \in Procs : q # p => proc'[q].at = proc[q].at /\ proc'[q].pool = proc[q].pool
         /\ proc'[p].at = "run"
         /\ orphans' \in [bufs : SUBSET Bufs, units : [1..NBPOOLS -> Nat]]
         /\ UsersOK' /\ \A j : OutOf(j)' = OutOf(j)
         /\ \A j : /\ Waiting(j)' = Waiting(j) \ {p}
                   /\ Released(j)' = Released(j) \ {p}
         /\ \A j \in 1..NBPOOLS :
               orphans'.units[j] = IF proc[p].at = "ready" /\ j = proc[p].pool
                                   THEN orphans.units[j] + 1 ELSE orphans.units[j]
<1>0. PoolTypes /\ UsersOK /\ proc[p] \in Doing
  BY DEF PoolsInv, PoolTypes
<1> DEFINE lostUnits == [j \in DOMAIN orphans.units |-> orphans.units[j] +
                           IF proc[p].at = "ready" /\ j = proc[p].pool THEN 1 ELSE 0]
<1>1. /\ orphans' = [bufs |-> orphans.bufs \cup proc[p].bufs, units |-> lostUnits]
      /\ proc' = [proc EXCEPT ![p] = Running]
  BY DEF Kill
<1>2. /\ orphans.units \in [1..NBPOOLS -> Nat] /\ orphans.bufs \subseteq Bufs
      /\ proc[p].bufs \subseteq Bufs /\ proc \in [Procs -> Doing]
  BY <1>0 DEF PoolTypes, Doing
<1>3. /\ proc' \in [Procs -> Doing]
      /\ \A q \in Procs : q # p => proc'[q].at = proc[q].at /\ proc'[q].pool = proc[q].pool
      /\ proc'[p].at = "run"
      /\ \A q \in Procs : proc'[q].bufs = IF q = p THEN {} ELSE proc[q].bufs
  BY <1>1, <1>2 DEF Running, Doing
<1>4. DOMAIN lostUnits = 1..NBPOOLS /\ lostUnits = [j \in 1..NBPOOLS |-> lostUnits[j]]
  BY <1>2
<1>5. ASSUME NEW j \in 1..NBPOOLS
      PROVE  /\ lostUnits[j] = IF proc[p].at = "ready" /\ j = proc[p].pool
                               THEN orphans.units[j] + 1 ELSE orphans.units[j]
             /\ lostUnits[j] \in Nat
  <2> DEFINE x == orphans.units[j]
  <2>1. x \in Nat
    BY <1>2
  <2>2. lostUnits[j] = x + IF proc[p].at = "ready" /\ j = proc[p].pool THEN 1 ELSE 0
    BY <1>2
  <2> HIDE DEF x, lostUnits
  <2>3. /\ lostUnits[j] = IF proc[p].at = "ready" /\ j = proc[p].pool THEN x + 1 ELSE x
        /\ lostUnits[j] \in Nat
    BY <2>1, <2>2
  <2> QED
    BY <2>3 DEF x
<1> HIDE DEF lostUnits
<1>6. /\ orphans' \in [bufs : SUBSET Bufs, units : [1..NBPOOLS -> Nat]]
      /\ orphans'.units = lostUnits /\ orphans'.bufs = orphans.bufs \cup proc[p].bufs
  <2>1. lostUnits \in [1..NBPOOLS -> Nat]
    BY <1>4, <1>5
  <2> QED
    BY <1>1, <1>2, <2>1
<1>7. UsersOK' /\ \A j : OutOf(j)' = OutOf(j)
  BY <1>0, <1>3, <1>6, UserLeaves
<1>8. ASSUME NEW j PROVE Waiting(j)' = Waiting(j) \ {p} /\ Released(j)' = Released(j) \ {p}
  BY <1>3, OneMoves
<1> QED
  BY <1>3, <1>5, <1>6, <1>7, <1>8

LEMMA KillWaits ==
  ASSUME PoolsInv, NEW p \in Procs, Kill(p), proc[p].at = "wait"
  PROVE  PoolsStep
<1>a. /\ PoolTypes /\ PlacesOK /\ UsersOK /\ proc[p] \in Doing
      /\ proc[p].pool \in 1..Len(buftab)
  BY DEF PoolsInv, PoolTypes, PlacesOK
<1>b. PICK i \in 1..Len(buftab) : i = proc[p].pool
  BY <1>a
<1> DEFINE e == buftab[i]
           q2 == Without(e.queue, p)
           f == [e EXCEPT !.count = e.count + 1, !.queue = q2]
           n == orphans.units[i]
           w == Waiting(i)
           r == Released(i)
           out == OutOf(i)
<1>1. buftab' = [buftab EXCEPT ![i].count = e.count + 1, ![i].queue = q2] /\ nsem' = nsem
  BY <1>a, <1>b DEF Kill, PoolTypes
<1>2. e \in Entries /\ n \in Nat /\ PoolGood(e, w, r, out, n) /\ IsFiniteSet(r)
  BY PoolKnown
<1>3. buftab' = [buftab EXCEPT ![i] = f]
  <2> HIDE DEF q2
  <2> QED
    BY <1>a, <1>1, <1>2 DEF PoolTypes, Entries
<1>4. SameBuffers(e, f) /\ f.bpnext = e.bpnext /\ f.count = e.count + 1 /\ f.queue = q2
  <2> HIDE DEF e, q2
  <2> QED
    BY <1>2 DEF Entries, SameBuffers
<1> HIDE DEF f
<1>5. PoolGood(f, w \ {p}, r, out, n) /\ q2 \in Seq(Procs)
  <2>1. p \in w
    BY <1>b DEF Waiting
  <2> HIDE DEF e, n, w, r, out
  <2> QED
    BY <1>2, <1>4, <2>1, GoodLeft
<1> HIDE DEF q2
<1>6. f \in Entries
  <2> DEFINE g == [e EXCEPT !.count = e.count + 1]
  <2>1. e.count + 1 \in Int
    BY <1>2 DEF Entries
  <2> HIDE DEF e
  <2>2. g \in Entries
    BY <1>2, <2>1, EntryChanged
  <2>3. f = [g EXCEPT !.queue = q2]
    BY <1>2 DEF Entries, f
  <2> HIDE DEF g
  <2> QED
    BY <1>5, <2>2, <2>3, EntryChanged
<1>7. /\ buftab' \in Seq(Entries) /\ Len(buftab') = Len(buftab) /\ buftab'[i] = f
      /\ \A j \in 1..Len(buftab) : j # i => buftab'[j] = buftab[j]
      /\ DOMAIN buftab' = DOMAIN buftab
      /\ \A j \in DOMAIN buftab : PoolUnits(j)' = PoolUnits(j)
  BY <1>a, <1>3, <1>4, <1>6, OneEntry
<1>8. /\ proc' \in [Procs -> Doing]
      /\ \A q \in Procs : q # p => proc'[q].at = proc[q].at /\ proc'[q].pool = proc[q].pool
      /\ proc'[p].at = "run"
      /\ orphans' \in [bufs : SUBSET Bufs, units : [1..NBPOOLS -> Nat]]
      /\ UsersOK' /\ \A j : OutOf(j)' = OutOf(j)
      /\ \A j : /\ Waiting(j)' = Waiting(j) \ {p}
                /\ Released(j)' = Released(j) \ {p}
      /\ \A j \in 1..NBPOOLS :
            orphans'.units[j] = IF proc[p].at = "ready" /\ j = proc[p].pool
                                THEN orphans.units[j] + 1 ELSE orphans.units[j]
  BY <1>7, KillLeaves
<1>9. PoolTypes' /\ PlacesOK'
  BY <1>a, <1>1, <1>7, <1>8 DEF PoolTypes, PlacesOK
<1>10. \A j \in 1..NBPOOLS : orphans'.units[j] = orphans.units[j]
  BY <1>8
<1>11. \A j \in 1..Len(buftab) : j \in 1..NBPOOLS
  BY PoolKnown
<1>12. \A j : /\ Released(j)' = Released(j)
              /\ Waiting(j)' = IF j = i THEN Waiting(j) \ {p} ELSE Waiting(j)
  <2>1. \A j : p \notin Released(j) /\ (j # i => p \notin Waiting(j))
    BY <1>b DEF Waiting, Released
  <2> QED
    BY <1>8, <2>1
<1>13. PoolGood(buftab'[i], Waiting(i)', Released(i)', OutOf(i)', orphans'.units[i])
  <2> HIDE DEF e
  <2> QED
    BY <1>5, <1>7, <1>8, <1>10, <1>11, <1>12
<1>14. PoolsInv'
  BY <1>7, <1>8, <1>9, <1>10, <1>11, <1>12, <1>13, OnePool
<1> QED
  BY <1>7, <1>14 DEF PoolsStep

LEMMA KillReleased ==
  ASSUME PoolsInv, NEW p \in Procs, Kill(p), proc[p].at # "wait"
  PROVE  PoolsStep
<1>a. PoolTypes /\ PlacesOK /\ UsersOK /\ proc[p] \in Doing
  BY DEF PoolsInv, PoolTypes
<1>1. buftab' = buftab /\ nsem' = nsem
  BY DEF Kill
<1>2. /\ proc' \in [Procs -> Doing]
      /\ \A q \in Procs : q # p => proc'[q].at = proc[q].at /\ proc'[q].pool = proc[q].pool
      /\ proc'[p].at = "run"
      /\ orphans' \in [bufs : SUBSET Bufs, units : [1..NBPOOLS -> Nat]]
      /\ UsersOK' /\ \A j : OutOf(j)' = OutOf(j)
      /\ \A j : /\ Waiting(j)' = Waiting(j) \ {p}
                /\ Released(j)' = Released(j) \ {p}
      /\ \A j \in 1..NBPOOLS :
            orphans'.units[j] = IF proc[p].at = "ready" /\ j = proc[p].pool
                                THEN orphans.units[j] + 1 ELSE orphans.units[j]
  BY <1>1, KillLeaves
<1>3. PoolTypes' /\ PlacesOK'
  BY <1>a, <1>1, <1>2 DEF PoolTypes, PlacesOK
<1>4. \A j : p \notin Waiting(j)
  BY DEF Waiting
<1>5. orphans.units \in [1..NBPOOLS -> Nat]
  BY <1>a DEF PoolTypes
<1>6. PoolsInv'
  <2>1. CASE proc[p].at = "ready"
    <3>1. PICK i \in 1..Len(buftab) : i = proc[p].pool
      BY <1>a, <2>1 DEF PlacesOK
    <3>2. \A j : j # i => p \notin Released(j)
      BY <3>1 DEF Released
    <3>3. p \in Released(i)
      BY <2>1, <3>1 DEF Released
    <3>4. /\ buftab[i] \in Entries /\ orphans.units[i] \in Nat /\ i \in 1..NBPOOLS
          /\ PoolGood(buftab[i], Waiting(i), Released(i), OutOf(i), orphans.units[i])
          /\ IsFiniteSet(Released(i))
      BY PoolKnown
    <3>5. PoolGood(buftab[i], Waiting(i), Released(i) \ {p}, OutOf(i), orphans.units[i] + 1)
      <4> DEFINE e == buftab[i]
                 w == Waiting(i)
                 r == Released(i)
                 out == OutOf(i)
                 n == orphans.units[i]
      <4> HIDE DEF e, w, r, out, n
      <4>1. e \in Entries /\ n \in Nat /\ PoolGood(e, w, r, out, n) /\ IsFiniteSet(r) /\ p \in r
        BY <3>3, <3>4 DEF e, w, r, out, n
      <4>2. PoolGood(e, w, r \ {p}, out, n + 1)
        BY <4>1, GoodGone
      <4> QED
        BY <4>2 DEF e, w, r, out, n
    <3>6. orphans'.units[i] = orphans.units[i] + 1
      BY <1>2, <2>1, <3>1, <3>4
    <3>7. \A j \in 1..NBPOOLS : j # i => orphans'.units[j] = orphans.units[j]
      BY <1>2, <3>1
    <3>8. \A j \in 1..Len(buftab) : j \in 1..NBPOOLS
      BY PoolKnown
    <3>9. \A j \in 1..NBPOOLS : j > Len(buftab) => j # i
      <4>1. Len(buftab) \in Nat
        BY <1>a DEF PoolTypes
      <4> QED
        BY <4>1
    <3>10. PoolGood(buftab'[i], Waiting(i)', Released(i)', OutOf(i)', orphans'.units[i])
      BY <1>1, <1>2, <1>4, <3>5, <3>6
    <3>11. Len(buftab') = Len(buftab) /\ PoolTypes' /\ PlacesOK' /\ UsersOK'
      BY <1>1, <1>2, <1>3
    <3>12. \A j \in 1..Len(buftab) : j # i =>
             /\ buftab'[j] = buftab[j] /\ Waiting(j)' = Waiting(j)
             /\ Released(j)' = Released(j) /\ OutOf(j)' = OutOf(j)
             /\ orphans'.units[j] = orphans.units[j]
      BY <1>1, <1>2, <1>4, <3>2, <3>7, <3>8
    <3>13. \A j \in 1..NBPOOLS : j > Len(buftab) => orphans'.units[j] = orphans.units[j]
      BY <3>7, <3>9
    <3> QED
      BY <3>10, <3>11, <3>12, <3>13, OnePool
  <2>2. CASE proc[p].at # "ready"
    <3>1. \A j : p \notin Released(j)
      BY <2>2 DEF Released
    <3>2. \A j \in 1..NBPOOLS : orphans'.units[j] = orphans.units[j]
      BY <1>2, <2>2
    <3>3. \A j \in 1..Len(buftab) : j \in 1..NBPOOLS
      BY PoolKnown
    <3>4. ASSUME NEW j \in 1..Len(buftab) PROVE PoolStays(j)'
      <4>1. /\ buftab'[j] = buftab[j] /\ Waiting(j)' = Waiting(j)
            /\ Released(j)' = Released(j) /\ OutOf(j)' = OutOf(j)
            /\ orphans'.units[j] = orphans.units[j]
        BY <1>1, <1>2, <1>4, <3>1, <3>2, <3>3
      <4>2. PoolStays(j)
        BY DEF PoolsInv
      <4> QED
        BY <4>1, <4>2 DEF PoolStays
    <3>5. \A j \in 1..NBPOOLS : j > Len(buftab') => orphans'.units[j] = 0
      BY <1>1, <3>2 DEF PoolsInv
    <3> QED
      BY <1>1, <1>2, <1>3, <3>4, <3>5 DEF PoolsInv
  <2> QED
    BY <2>1, <2>2
<1>7. \A j \in DOMAIN buftab : PoolUnits(j)' = PoolUnits(j)
  BY <1>1 DEF PoolUnits
<1> QED
  BY <1>1, <1>6, <1>7 DEF PoolsStep

\* A kill takes the process from where it waits, or its unit with it.
LEMMA KillPools ==
  ASSUME PoolsInv, NEW p \in Procs, Kill(p)
  PROVE  PoolsStep
  BY KillWaits, KillReleased

\* The other calls leave the pools as they are.
LEMMA PoolsKept ==
  ASSUME PoolsInv, UNCHANGED <<buftab, proc, orphans, nsem>>
  PROVE  PoolsInv'
<1>1. UsersOK' /\ \A j : OutOf(j)' = OutOf(j)
  BY UsersStay DEF PoolsInv
<1>2. \A j : Waiting(j)' = Waiting(j) /\ Released(j)' = Released(j)
  BY DEF Waiting, Released
<1>3. PoolTypes' /\ PlacesOK'
  BY DEF PoolsInv, PoolTypes, PlacesOK
<1>4. ASSUME NEW j \in 1..Len(buftab) PROVE PoolStays(j)'
  <2>1. PoolStays(j)
    BY DEF PoolsInv
  <2> QED
    BY <1>1, <1>2, <2>1 DEF PoolStays
<1>5. \A j \in 1..NBPOOLS : j > Len(buftab) => orphans.units[j] = 0
  BY DEF PoolsInv
<1> QED
  BY <1>1, <1>3, <1>4, <1>5 DEF PoolsInv

\* A pool that is made has all its buffers, and nobody knows it yet.
LEMMA mkbufpoolPools ==
  ASSUME AllocInv, PoolsInv, NEW r \in PoolRequests, mkbufpool(r[1], r[2])
  PROVE  PoolsInv'
<1> DEFINE size == BufSize(r[1])
           num == r[2]
           got == getmem(mem, num * size)
           f == [addr |-> got.addr, size |-> size, num |-> num,
                 bpnext |-> BuffersFrom(got.addr, size, num),
                 count |-> num, queue |-> << >>]
<1>0. /\ proc' = proc /\ orphans' = orphans
      /\ IF BadPool(r[1], num) \/ got.addr = SYSERR
         THEN buftab' = buftab /\ nsem' = nsem
         ELSE /\ nsem' = IF nsem = 0 THEN 0 ELSE nsem - 1
              /\ buftab' = IF nsem = 0 THEN buftab ELSE Append(buftab, f)
  BY DEF mkbufpool
<1>1. /\ proc' = proc /\ orphans' = orphans
      /\ IF BadPool(r[1], num) \/ got.addr = SYSERR \/ nsem = 0
         THEN buftab' = buftab /\ nsem' = nsem
         ELSE buftab' = Append(buftab, f) /\ nsem' = nsem - 1
  <2> HIDE DEF f, got, num
  <2> QED
    BY <1>0
<1>2. CASE BadPool(r[1], num) \/ got.addr = SYSERR \/ nsem = 0
  <2>1. buftab' = buftab /\ nsem' = nsem
    BY <1>1, <1>2
  <2> QED
    BY <1>1, <2>1, PoolsKept
<1>3. CASE ~(BadPool(r[1], num) \/ got.addr = SYSERR \/ nsem = 0)
  <2> DEFINE L == Len(buftab)
             k == L + 1
  <2>0. /\ PoolTypes /\ PlacesOK /\ UsersOK /\ L \in Nat /\ NBPOOLS \in Nat
        /\ buftab \in Seq(Entries) /\ nsem \in Nat /\ proc \in [Procs -> Doing]
    BY MemoryAssumption DEF PoolsInv, PoolTypes
  <2>1. num \in Int /\ num > 0 /\ size \in Int /\ size > 0 /\ L < NBPOOLS
    <3>1. r[1] \in Int /\ r[2] \in Int
      BY MemoryAssumption
    <3>2. r[1] >= 8 /\ r[2] >= 1 /\ L < NBPOOLS
      <4> DEFINE x == r[1]
                 y == r[2]
      <4>1. ~(x < BP_MINB \/ x > BP_MAXB \/ y < 1 \/ y > BP_MAXN \/ L >= NBPOOLS)
        BY <1>3 DEF BadPool
      <4>2. x \in Int /\ y \in Int
        BY <3>1
      <4> HIDE DEF x, y, L
      <4>3. x >= 8 /\ y >= 1 /\ L < NBPOOLS
        BY <2>0, <4>1, <4>2 DEF BP_MINB
      <4> QED
        BY <4>3 DEF x, y
    <3>3. size \in Int /\ size > 0
      BY <3>1, <3>2 DEF BufSize, Rounded4
    <3> QED
      BY <3>1, <3>2, <3>3
  <2>2. got.addr \in Int
    <3> DEFINE n == num * size
    <3>1. n \in Nat /\ n + 7 < 2^Width
      BY <1>3, PoolFits
    <3>2. Sound(KNodes, mem.list, minheap, maxheap) /\ minheap \in Nat /\ maxheap \in Int
      BY RequestsFit DEF AllocInv
    <3> HIDE DEF n
    <3>3. Served(KNodes, mem.list, got.mem.list, minheap, maxheap, got.addr, n)
      BY <1>3, <3>1, <3>2, getmemServes DEF n
    <3> QED
      BY <3>3 DEF Served, Given, Placed
  <2>3. buftab' = Append(buftab, f) /\ nsem' = nsem - 1
    BY <1>1, <1>3
  <2> HIDE DEF size, num, got
  <2>4. PoolGood(f, {}, {}, {}, 0) /\ f.bpnext \in Seq(Int)
    <3> DEFINE g == f
    <3>1. /\ g.addr = got.addr /\ g.size = size /\ g.num = num
          /\ g.bpnext = BuffersFrom(got.addr, size, num) /\ g.count = num /\ g.queue = << >>
      OBVIOUS
    <3> HIDE DEF g
    <3>2. PoolGood(g, {}, {}, {}, 0) /\ g.bpnext \in Seq(Int)
      <4> DEFINE a == got.addr
      <4>1. /\ g.addr = a /\ g.size = size /\ g.num = num
            /\ g.bpnext = BuffersFrom(a, size, num) /\ g.count = num /\ g.queue = << >>
            /\ a \in Int
        BY <2>2, <3>1
      <4> HIDE DEF a
      <4> QED
        BY <2>1, <4>1, GoodNew
    <3> QED
      BY <3>2 DEF g
  <2>5. f \in Entries
    BY <2>1, <2>2, <2>4 DEF Entries
  <2> HIDE DEF f
  <2>6. /\ buftab' \in Seq(Entries) /\ Len(buftab') = k /\ buftab'[k] = f
        /\ \A j \in 1..L : buftab'[j] = buftab[j]
    BY <2>0, <2>3, <2>5
  <2>7. /\ k \in Nat /\ k <= NBPOOLS /\ k \in 1..NBPOOLS /\ k > L
        /\ \A j \in 1..L : j \in 1..k
        /\ \A j \in 1..k : j \in 1..L \/ j = k
        /\ k \notin 1..L
        /\ \A j \in 1..NBPOOLS : j > k => j > L
    BY <2>0, <2>1
  <2> HIDE DEF L, k
  <2>8. /\ \A j : Waiting(j)' = Waiting(j) /\ Released(j)' = Released(j)
        /\ \A j : OutOf(j)' = OutOf(j)
    BY <1>1 DEF Waiting, Released, OutOf, WithUsers
  <2>9. PoolTypes'
    <3>1. nsem - 1 \in Nat
      BY <1>3, <2>0
    <3> QED
      BY <1>1, <2>0, <2>3, <2>6, <2>7, <3>1 DEF PoolTypes
  <2>10. PlacesOK' /\ UsersOK'
    <3>1. WithUsers' = WithUsers
      BY <1>1 DEF WithUsers
    <3> QED
      BY <1>1, <2>0, <2>6, <2>7, <3>1 DEF PlacesOK, UsersOK, L
  <2>11. Waiting(k) = {} /\ Released(k) = {} /\ OutOf(k) = {} /\ orphans.units[k] = 0
    <3>1. Waiting(k) = {} /\ Released(k) = {}
      <4>1. ASSUME NEW p \in Procs, proc[p].at # "run" PROVE proc[p].pool # k
        BY <2>0, <2>7, <4>1 DEF PlacesOK, L
      <4> QED
        BY <4>1 DEF Waiting, Released
    <3>2. OutOf(k) = {}
      <4>1. \A b \in WithUsers : b.pool # k
        BY <2>0, <2>7 DEF UsersOK, L
      <4> QED
        BY <4>1 DEF OutOf
    <3>3. orphans.units[k] = 0
      BY <2>7 DEF PoolsInv, L
    <3> QED
      BY <3>1, <3>2, <3>3
  <2>12. PICK i : i = k
    OBVIOUS
  <2>13. ASSUME NEW j \in 1..Len(buftab') PROVE PoolStays(j)'
    <3>1. CASE j \in 1..L
      <4>1. buftab'[j] = buftab[j] /\ PoolStays(j)
        BY <2>6, <3>1 DEF PoolsInv, L
      <4> QED
        BY <1>1, <2>8, <4>1 DEF PoolStays
    <3>2. CASE j = i
      <4>1. /\ buftab'[i] = f /\ Waiting(i)' = {} /\ Released(i)' = {} /\ OutOf(i)' = {}
            /\ orphans'.units[i] = 0
        <5>1. Waiting(i) = {} /\ Released(i) = {} /\ OutOf(i) = {} /\ orphans.units[i] = 0
          BY <2>11, <2>12
        <5> QED
          BY <1>1, <2>6, <2>8, <2>12, <5>1
      <4>2. PoolStays(i)'
        BY <2>4, <4>1 DEF PoolStays
      <4> QED
        BY <3>2, <4>2
    <3> QED
      BY <2>6, <2>7, <2>12, <3>1, <3>2
  <2>14. \A j \in 1..NBPOOLS : j > Len(buftab') => orphans'.units[j] = 0
    <3>1. \A j \in 1..NBPOOLS : j > L => orphans.units[j] = 0
      BY DEF PoolsInv, L
    <3> QED
      BY <1>1, <2>6, <2>7, <3>1
  <2> QED
    BY <2>9, <2>10, <2>13, <2>14 DEF PoolsInv
<1> QED
  BY <1>2, <1>3

----------------------------------------------------------------------------
\* All of the heap.

MemoryInv == AllocInv /\ Shared /\ PoolsInv

LEMMA MemoryInit ==
  ASSUME Init
  PROVE  MemoryInv
<1>1. AllocInv
  BY AllocInit
<1>2. /\ mem = meminit /\ held = {} /\ stacks = {} /\ vheap = NewVHeap /\ vheld = {}
      /\ buftab = << >> /\ lost = {} /\ nsem = NSEM
      /\ proc = [p \in Procs |-> Running]
      /\ orphans = [bufs |-> {}, units |-> [i \in 1..NBPOOLS |-> 0]]
  BY DEF Init
<1>3. /\ minheap \in Int /\ maxheap \in Int /\ vmin \in Int /\ vmax \in Int
      /\ minheap < maxheap /\ vmin < vmax
      /\ minheap % 8 = 0 /\ maxheap % 8 = 0 /\ vmin % 8 = 0 /\ vmax % 8 = 0
  BY HeapAssumption
<1>4. /\ KUnits = FreeUnits(meminit.list) /\ VUnits = FreeUnits(NewVHeap.list)
      /\ meminit.mlength = 8 * Cardinality(KUnits)
      /\ NewVHeap.mlength = 8 * Cardinality(VUnits)
  <2>1. /\ (maxheap - minheap) \in Int /\ (maxheap - minheap) % 8 = 0 /\ maxheap - minheap > 0
        /\ (vmax - vmin) \in Int /\ (vmax - vmin) % 8 = 0 /\ vmax - vmin > 0
        /\ minheap + (maxheap - minheap) = maxheap /\ vmin + (vmax - vmin) = vmax
    BY <1>3
  <2>2. /\ 8 * Cardinality(KUnits) = maxheap - minheap
        /\ 8 * Cardinality(VUnits) = vmax - vmin
    BY <1>3, <2>1, UnitCount DEF KUnits, VUnits
  <2>3. /\ KUnits = (minheap \div 8)..(maxheap \div 8 - 1)
        /\ VUnits = (vmin \div 8)..(vmax \div 8 - 1)
    BY <2>1 DEF KUnits, VUnits, UnitsOf
  <2>4. meminit.mlength = maxheap - minheap /\ NewVHeap.mlength = vmax - vmin
    BY DEF meminit, NewVHeap
  <2> QED
    BY <2>2, <2>3, <2>4, FreshHeaps
<1>5. Nodes(NewVHeap.list) = {} /\ NodesApart(NewVHeap.list)
  BY DEF Nodes, NodesApart, NewVHeap, VNode
<1>6. \A u : Holders(u) = {} /\ VHolders(u) = {}
  BY <1>2, <1>5 DEF Holders, ByCallers, ByStacks, ByNodes, ByPools, Nowhere, VHolders
<1>7. Shared
  BY <1>2, <1>4, <1>5, <1>6 DEF Shared, KernelShared, VirtualShared, Counted, Good
<1>8. PoolsInv
  <2>1. buftab \in Seq(Entries) /\ Len(buftab) = 0 /\ NBPOOLS \in Nat /\ NSEM \in Nat
    BY <1>2, MemoryAssumption
  <2>2. Running \in Doing /\ Running.at = "run" /\ Running.bufs = {}
    BY DEF Running, Doing
  <2>3. /\ proc \in [Procs -> Doing] /\ \A p \in Procs : proc[p].at = "run" /\ proc[p].bufs = {}
    BY <1>2, <2>2
  <2>4. WithUsers = {} /\ orphans.bufs = {}
    BY <1>2, <2>3 DEF WithUsers
  <2>5. /\ orphans \in [bufs : SUBSET Bufs, units : [1..NBPOOLS -> Nat]]
        /\ \A i \in 1..NBPOOLS : orphans.units[i] = 0
    BY <1>2
  <2>6. PoolTypes /\ PlacesOK /\ UsersOK
    BY <1>2, <2>1, <2>3, <2>4, <2>5 DEF PoolTypes, PlacesOK, UsersOK
  <2>7. 1..Len(buftab) = {}
    BY <2>1
  <2> QED
    BY <2>5, <2>6, <2>7 DEF PoolsInv
<1> QED
  BY <1>1, <1>7, <1>8 DEF MemoryInv

LEMMA BuffersKeepAll ==
  ASSUME MemoryInv, PoolsStep,
         mem' = mem, held' = held, stacks' = stacks, vheap' = vheap, vheld' = vheld,
         lost' = lost, up' = up
  PROVE  Shared' /\ PoolsInv'
  BY BuffersShare DEF MemoryInv, PoolsStep

LEMMA MemoryStep ==
  ASSUME MemoryInv, Next
  PROVE  MemoryInv'
<1>1. AllocInv'
  BY NextAllocates DEF MemoryInv, Allocating
<1>2. AllocInv /\ Shared /\ PoolsInv
  BY DEF MemoryInv
<1>3. CASE Blocks
  <2>1. CASE \E n \in Requests : GetMem(n)
    <3>1. PICK n \in Requests : GetMem(n)
      BY <2>1
    <3>2. PoolsInv'
      BY <1>2, <3>1, PoolsKept DEF GetMem
    <3> QED
      BY <1>1, <1>2, <3>1, <3>2, GetMemShares DEF MemoryInv
  <2>2. CASE \E a \in Addrs(minheap, maxheap), n \in Requests : FreeMem(Block(a, n))
    <3>1. PICK a \in Addrs(minheap, maxheap), n \in Requests : FreeMem(Block(a, n))
      BY <2>2
    <3>2. PoolsInv'
      BY <1>2, <3>1, PoolsKept DEF FreeMem
    <3>3. Shared'
      BY <1>2, <3>1, FreeMemShares
    <3> QED
      BY <1>1, <3>2, <3>3 DEF MemoryInv
  <2> QED
    BY <1>3, <2>1, <2>2 DEF Blocks
<1>4. CASE Stacks
  <2>1. CASE \E n \in Requests : GetStk(n)
    <3>1. PICK n \in Requests : GetStk(n)
      BY <2>1
    <3>2. PoolsInv'
      BY <1>2, <3>1, PoolsKept DEF GetStk
    <3> QED
      BY <1>1, <1>2, <3>1, <3>2, GetStkShares DEF MemoryInv
  <2>2. CASE \E b \in stacks : FreeStk(b)
    <3>1. PICK b \in stacks : FreeStk(b)
      BY <2>2
    <3>2. PoolsInv'
      BY <1>2, <3>1, PoolsKept DEF FreeStk
    <3>3. Shared'
      BY <1>2, <3>1, FreeStkShares
    <3> QED
      BY <1>1, <3>2, <3>3 DEF MemoryInv
  <2> QED
    BY <1>4, <2>1, <2>2 DEF Stacks
<1>5. CASE VirtualHeap
  <2>1. CASE \E n \in VRequests : VGetMem(n)
    <3>1. PICK n \in VRequests : VGetMem(n)
      BY <2>1
    <3>2. PoolsInv'
      BY <1>2, <3>1, PoolsKept DEF VGetMem
    <3> QED
      BY <1>1, <1>2, <3>1, <3>2, VGetMemShares DEF MemoryInv
  <2>2. CASE \E a \in Addrs(vmin, vmax), n \in VRequests : VFreeMem(Block(a, n))
    <3>1. PICK a \in Addrs(vmin, vmax), n \in VRequests : VFreeMem(Block(a, n))
      BY <2>2
    <3>2. PoolsInv'
      BY <1>2, <3>1, PoolsKept DEF VFreeMem
    <3>3. Shared'
      BY <1>2, <3>1, VFreeMemShares
    <3> QED
      BY <1>1, <3>2, <3>3 DEF MemoryInv
  <2>3. CASE vcreate
    <3>1. PoolsInv'
      BY <1>2, <2>3, PoolsKept DEF vcreate
    <3>2. Shared'
      BY <1>2, <2>3, vcreateShares
    <3> QED
      BY <1>1, <3>1, <3>2 DEF MemoryInv
  <2> QED
    BY <1>5, <2>1, <2>2, <2>3 DEF VirtualHeap
<1>6. CASE BufferPools
  <2>1. CASE \E r \in PoolRequests : mkbufpool(r[1], r[2])
    <3>1. PICK r \in PoolRequests : mkbufpool(r[1], r[2])
      BY <2>1
    <3>2. buftab \in Seq(Entries) /\ nsem \in Nat
      BY <1>2 DEF PoolsInv, PoolTypes
    <3>3. Shared'
      BY <1>2, <3>1, <3>2, mkbufpoolShares
    <3>4. PoolsInv'
      BY <1>2, <3>1, mkbufpoolPools
    <3> QED
      BY <1>1, <3>3, <3>4 DEF MemoryInv
  <2>2. ASSUME NEW p \in Procs, NEW i \in DOMAIN buftab, getbuf(p, i)
        PROVE  Shared' /\ PoolsInv'
    <3>1. PoolsStep
      BY <1>2, <2>2, getbufTakes, getbufWaits
    <3>2. /\ mem' = mem /\ held' = held /\ stacks' = stacks /\ vheap' = vheap /\ vheld' = vheld
          /\ lost' = lost /\ up' = up
      BY <2>2 DEF getbuf
    <3> QED
      BY <3>1, <3>2, BuffersKeepAll
  <2>3. ASSUME NEW p \in Procs, GotBuf(p)
        PROVE  Shared' /\ PoolsInv'
    <3>1. PoolsStep
      BY <1>2, <2>3, GotBufTakes
    <3>2. /\ mem' = mem /\ held' = held /\ stacks' = stacks /\ vheap' = vheap /\ vheld' = vheld
          /\ lost' = lost /\ up' = up
      BY <2>3 DEF GotBuf
    <3> QED
      BY <3>1, <3>2, BuffersKeepAll
  <2>4. ASSUME NEW p \in Procs, NEW b \in proc[p].bufs, freebuf(p, b)
        PROVE  Shared' /\ PoolsInv'
    <3>1. PoolsStep
      BY <1>2, <2>4, freebufGives
    <3>2. /\ mem' = mem /\ held' = held /\ stacks' = stacks /\ vheap' = vheap /\ vheld' = vheld
          /\ lost' = lost /\ up' = up
      BY <2>4 DEF freebuf
    <3> QED
      BY <3>1, <3>2, BuffersKeepAll
  <2>5. ASSUME NEW p \in Procs, Kill(p)
        PROVE  Shared' /\ PoolsInv'
    <3>1. PoolsStep
      BY <1>2, <2>5, KillPools
    <3>2. /\ mem' = mem /\ held' = held /\ stacks' = stacks /\ vheap' = vheap /\ vheld' = vheld
          /\ lost' = lost /\ up' = up
      BY <2>5 DEF Kill
    <3> QED
      BY <3>1, <3>2, BuffersKeepAll
  <2> QED
    BY <1>1, <1>6, <2>1, <2>2, <2>3, <2>4, <2>5 DEF BufferPools, MemoryInv
<1> QED
  BY <1>3, <1>4, <1>5, <1>6 DEF Next

LEMMA MemoryStill ==
  ASSUME MemoryInv, UNCHANGED vars
  PROVE  MemoryInv'
<1>1. /\ mem' = mem /\ held' = held /\ stacks' = stacks /\ vheap' = vheap /\ vheld' = vheld
      /\ lost' = lost /\ up' = up /\ buftab' = buftab /\ proc' = proc /\ orphans' = orphans
      /\ nsem' = nsem
  BY DEF vars
<1>2. AllocInv'
  BY <1>1 DEF MemoryInv, AllocInv
<1>3. PoolsInv' /\ \A i \in DOMAIN buftab : PoolUnits(i)' = PoolUnits(i)
  BY <1>1, PoolsKept DEF MemoryInv, PoolUnits
<1>4. Shared'
  BY <1>1, <1>3, BuffersShare DEF MemoryInv
<1> QED
  BY <1>2, <1>3, <1>4 DEF MemoryInv

----------------------------------------------------------------------------
\* What this says of the heap, its owners and the pools.

LEMMA SoundInOrder ==
  ASSUME NEW S, NEW m, NEW lo, NEW hi, Sound(S, m.list, lo, hi), Counted(m)
  PROVE  ListOK(m)
<1> DEFINE list == m.list
<1>1. list \in Seq(S)
  BY DEF Sound
<1>2. Len(list) \in Nat /\ DOMAIN list = 1..Len(list)
  BY <1>1
<1>3. \A i \in 1..(Len(list) - 1) : Top(list[i]) < list[i + 1].addr
  <2> SUFFICES ASSUME NEW i \in 1..(Len(list) - 1) PROVE Top(list[i]) < list[i + 1].addr
    OBVIOUS
  <2>1. i \in 1..Len(list) /\ i + 1 \in 1..Len(list) /\ i < i + 1
    BY <1>2
  <2> QED
    BY <2>1 DEF Sound
<1>4. \A i \in DOMAIN list : list[i].len > 0
  BY <1>2 DEF Sound, Placed
<1> QED
  BY <1>3, <1>4 DEF ListOK, Counted

\* The units of a holder.
UnitsBy(o) ==
    IF o[1] = "held" THEN HeldUnits(o[2])
    ELSE IF o[1] = "stack" THEN StackUnits(o[2])
    ELSE IF o[1] = "node" THEN NodeUnits(o[2])
    ELSE IF o[1] = "pool" THEN PoolUnits(o[2])
    ELSE lost

LEMMA HolderOwns ==
  ASSUME Sound(VNodes, vheap.list, vmin, vmax), NEW u, NEW o \in Holders(u)
  PROVE  UnitsBy(o) \in Owned /\ u \in UnitsBy(o)
<1>1. CASE o \in ByCallers(u)
  <2>1. PICK b \in held : o = <<"held", b>> /\ u \in HeldUnits(b)
    BY <1>1 DEF ByCallers
  <2>2. UnitsBy(o) = HeldUnits(b)
    BY <2>1 DEF UnitsBy
  <2>3. HeldUnits(b) \in Owned
    BY <2>1 DEF Owned, HeldUnits
  <2> QED
    BY <2>1, <2>2, <2>3
<1>2. CASE o \in ByStacks(u)
  <2>1. PICK b \in stacks : o = <<"stack", b>> /\ u \in StackUnits(b)
    BY <1>2 DEF ByStacks
  <2>2. UnitsBy(o) = StackUnits(b)
    BY <2>1 DEF UnitsBy
  <2>3. StackUnits(b) \in Owned
    BY <2>1 DEF Owned, StackUnits
  <2> QED
    BY <2>1, <2>2, <2>3
<1>3. CASE o \in ByNodes(u)
  <2>1. PICK x \in Nodes(vheap.list) : o = <<"node", x>> /\ u \in NodeUnits(x)
    BY <1>3 DEF ByNodes
  <2>2. UnitsBy(o) = NodeUnits(x)
    BY <2>1 DEF UnitsBy
  <2>3. PICK i \in 1..Len(vheap.list) : x = vheap.list[i].node /\ x # INTAB
    BY DEF Nodes
  <2>4. i \in DOMAIN vheap.list
    BY DEF Sound
  <2>5. LostNode(vheap.list[i].node) = NodeUnits(x)
    BY <2>3 DEF LostNode, NodeUnits
  <2>6. LostNode(vheap.list[i].node) \in Owned
    BY <2>4 DEF Owned
  <2> QED
    BY <2>1, <2>2, <2>5, <2>6
<1>4. CASE o \in ByPools(u)
  <2>1. PICK i \in DOMAIN buftab : o = <<"pool", i>> /\ u \in PoolUnits(i)
    BY <1>4 DEF ByPools
  <2>2. UnitsBy(o) = PoolUnits(i)
    BY <2>1 DEF UnitsBy
  <2>3. PoolUnits(i) \in Owned
    BY <2>1 DEF Owned, PoolUnits
  <2> QED
    BY <2>1, <2>2, <2>3
<1>5. CASE o \in Nowhere(u)
  <2>1. o = <<"lost", u>> /\ u \in lost
    BY <1>5 DEF Nowhere
  <2>2. UnitsBy(o) = lost
    BY <2>1 DEF UnitsBy
  <2>3. lost \in Owned
    BY DEF Owned
  <2> QED
    BY <2>1, <2>2, <2>3
<1> QED
  BY <1>1, <1>2, <1>3, <1>4, <1>5 DEF Holders

LEMMA OwnerHolds ==
  ASSUME Sound(VNodes, vheap.list, vmin, vmax), NEW X \in Owned, NEW u \in X
  PROVE  \E o \in Holders(u) : X = UnitsBy(o)
<1>1. CASE \E b \in held : X = HeldUnits(b)
  <2>1. PICK b \in held : X = HeldUnits(b)
    BY <1>1
  <2>2. <<"held", b>> \in ByCallers(u)
    BY <2>1 DEF ByCallers
  <2>3. UnitsBy(<<"held", b>>) = X
    BY <2>1 DEF UnitsBy
  <2> QED
    BY <2>2, <2>3 DEF Holders
<1>2. CASE \E b \in stacks : X = StackUnits(b)
  <2>1. PICK b \in stacks : X = StackUnits(b)
    BY <1>2
  <2>2. <<"stack", b>> \in ByStacks(u)
    BY <2>1 DEF ByStacks
  <2>3. UnitsBy(<<"stack", b>>) = X
    BY <2>1 DEF UnitsBy
  <2> QED
    BY <2>2, <2>3 DEF Holders
<1>3. CASE \E i \in DOMAIN vheap.list : X = LostNode(vheap.list[i].node)
  <2>1. PICK i \in DOMAIN vheap.list : X = LostNode(vheap.list[i].node)
    BY <1>3
  <2> DEFINE x == vheap.list[i].node
  <2>2. x # INTAB /\ X = NodeUnits(x)
    BY <2>1 DEF LostNode, NodeUnits
  <2>3. i \in 1..Len(vheap.list)
    BY DEF Sound
  <2>4. x \in Nodes(vheap.list)
    BY <2>2, <2>3 DEF Nodes
  <2> HIDE DEF x
  <2>5. <<"node", x>> \in ByNodes(u)
    BY <2>2, <2>4 DEF ByNodes
  <2>6. UnitsBy(<<"node", x>>) = X
    BY <2>2 DEF UnitsBy
  <2> QED
    BY <2>5, <2>6 DEF Holders
<1>4. CASE \E i \in DOMAIN buftab : X = PoolUnits(i)
  <2>1. PICK i \in DOMAIN buftab : X = PoolUnits(i)
    BY <1>4
  <2>2. <<"pool", i>> \in ByPools(u)
    BY <2>1 DEF ByPools
  <2>3. UnitsBy(<<"pool", i>>) = X
    BY <2>1 DEF UnitsBy
  <2> QED
    BY <2>2, <2>3 DEF Holders
<1>5. CASE X = lost
  <2>1. <<"lost", u>> \in Nowhere(u)
    BY <1>5 DEF Nowhere
  <2>2. UnitsBy(<<"lost", u>>) = X
    BY <1>5 DEF UnitsBy
  <2> QED
    BY <2>1, <2>2 DEF Holders
<1> QED
  BY <1>1, <1>2, <1>3, <1>4, <1>5 DEF Owned, HeldUnits, StackUnits, PoolUnits

\* Each unit of the heap is free or has one owner.
LEMMA KernelParts ==
  ASSUME AllocInv, KernelShared
  PROVE  Partition(UnitsOf(minheap, maxheap - minheap), FreeUnits(mem.list), Owned)
<1>1. /\ minheap \in Int /\ maxheap \in Int /\ minheap % 8 = 0 /\ maxheap % 8 = 0
      /\ Sound(KNodes, mem.list, minheap, maxheap) /\ Sound(VNodes, vheap.list, vmin, vmax)
  BY HeapAssumption DEF AllocInv
<1> DEFINE free == FreeUnits(mem.list)
<1>2. free \subseteq KUnits
  BY <1>1, FreeInHeap DEF KUnits
<1>3. ASSUME NEW u PROVE Good(u, KUnits, free, Holders(u))
  BY DEF KernelShared
<1> HIDE DEF free
<1>4. ASSUME NEW u PROVE u \in UNION Owned <=> Holders(u) # {}
  <2>1. ASSUME NEW X \in Owned, u \in X PROVE Holders(u) # {}
    BY <1>1, <2>1, OwnerHolds
  <2>2. ASSUME NEW o \in Holders(u) PROVE u \in UNION Owned
    BY <1>1, HolderOwns
  <2> QED
    BY <2>1, <2>2
<1>5. KUnits = free \cup UNION Owned
  BY <1>2, <1>3, <1>4 DEF Good
<1>6. free \cap UNION Owned = {}
  BY <1>2, <1>3, <1>4 DEF Good
<1>7. ASSUME NEW X \in Owned, NEW Y \in Owned, NEW u, u \in X, u \in Y
      PROVE  X = Y
  <2>1. PICK o \in Holders(u) : X = UnitsBy(o)
    BY <1>1, <1>7, OwnerHolds
  <2>2. PICK o2 \in Holders(u) : Y = UnitsBy(o2)
    BY <1>1, <1>7, OwnerHolds
  <2>3. o = o2
    BY <1>3, HeldNotFree
  <2> QED
    BY <2>1, <2>2, <2>3
<1> QED
  BY <1>5, <1>6, <1>7 DEF Partition, KUnits, free

\* ... and each unit of a virtual heap.
LEMMA VirtualParts ==
  ASSUME AllocInv, VirtualShared, up
  PROVE  Partition(UnitsOf(vmin, vmax - vmin), FreeUnits(vheap.list), VOwned)
<1>1. /\ vmin \in Int /\ vmax \in Int /\ vmin % 8 = 0 /\ vmax % 8 = 0
      /\ Sound(VNodes, vheap.list, vmin, vmax)
  BY HeapAssumption DEF AllocInv
<1> DEFINE free == FreeUnits(vheap.list)
<1>2. free \subseteq VUnits
  BY <1>1, FreeInHeap DEF VUnits
<1>3. ASSUME NEW u PROVE Good(u, VUnits, free, VHolders(u))
  BY DEF VirtualShared
<1> HIDE DEF free
<1>4. ASSUME NEW X \in VOwned, NEW u \in X PROVE \E b \in VHolders(u) : X = HeldUnits(b)
  BY DEF VOwned, VHolders, HeldUnits
<1>5. ASSUME NEW u, NEW b \in VHolders(u) PROVE u \in UNION VOwned
  BY DEF VOwned, VHolders, HeldUnits
<1>6. VUnits = free \cup UNION VOwned
  BY <1>2, <1>3, <1>4, <1>5 DEF Good
<1>7. free \cap UNION VOwned = {}
  BY <1>2, <1>3, <1>4, <1>5 DEF Good
<1>8. ASSUME NEW X \in VOwned, NEW Y \in VOwned, NEW u, u \in X, u \in Y
      PROVE  X = Y
  <2>1. PICK o \in VHolders(u) : X = HeldUnits(o)
    BY <1>4, <1>8
  <2>2. PICK o2 \in VHolders(u) : Y = HeldUnits(o2)
    BY <1>4, <1>8
  <2>3. o = o2
    BY <1>3, HeldNotFree
  <2> QED
    BY <2>1, <2>2, <2>3
<1> QED
  BY <1>6, <1>7, <1>8 DEF Partition, VUnits, free

\* A sequence with nothing twice is as long as it has members.
LEMMA DistinctLength ==
  ASSUME NEW S, NEW s \in Seq(S), Distinct(s)
  PROVE  Len(s) = Cardinality(Range(s))
<1>1. Len(s) \in Nat /\ DOMAIN s = 1..Len(s)
  OBVIOUS
<1>2. s \in [1..Len(s) -> Range(s)]
  BY <1>1 DEF Range
<1>3. \A i, j \in 1..Len(s) : s[i] = s[j] => i = j
  BY DEF Distinct
<1>4. \A x \in Range(s) : \E i \in 1..Len(s) : s[i] = x
  BY <1>1 DEF Range
<1>5. s \in Bijection(1..Len(s), Range(s))
  BY <1>2, <1>3, <1>4 DEF Bijection, Injection, Surjection, IsInjective
<1>6. ExistsBijection(1..Len(s), Range(s))
  BY <1>5 DEF ExistsBijection
<1> QED
  BY <1>1, <1>6, FS_CountingElements

\* Each buffer of a pool is in its list or with one user, and they are as many as the
\* count says.
LEMMA PoolParts ==
  ASSUME PoolsInv, NEW i \in DOMAIN buftab
  PROVE  PoolOK(i)
<1>0. buftab \in Seq(Entries)
  BY DEF PoolsInv, PoolTypes
<1>1. i \in 1..Len(buftab)
  BY <1>0
<1> DEFINE e == buftab[i]
           out == OutOf(i)
           w == Waiting(i)
           r == Released(i)
           n == orphans.units[i]
<1>2. e \in Entries /\ PoolGood(e, w, r, out, n)
  BY <1>1, PoolKnown
<1> HIDE DEF e, out, w, r, n
<1>3. e.bpnext \in Seq(Int) /\ e.count \in Int
  BY <1>2 DEF Entries
<1>4. \A a : a \in Range(e.bpnext) <=> Has(e.bpnext, a)
  <2>1. DOMAIN e.bpnext = 1..Len(e.bpnext)
    BY <1>3
  <2> QED
    BY <2>1 DEF Range, Has
<1>5. Partition(Places(e), Range(e.bpnext), {out})
  <2>1. UNION {out} = out
    OBVIOUS
  <2>2. Places(e) = Range(e.bpnext) \cup out /\ Range(e.bpnext) \cap out = {}
    BY <1>2, <1>4 DEF PoolGood
  <2> QED
    BY <2>1, <2>2 DEF Partition
<1>6. Len(e.bpnext) = Cardinality(Range(e.bpnext))
  BY <1>2, <1>3, DistinctLength DEF PoolGood
<1>7. -e.count \in Int
  BY <1>3
<1>8. Max({e.count, 0}) = Positive(e.count) /\ Max({-e.count, 0}) = Positive(-e.count)
  BY <1>3, <1>7, MaxWithZero
<1>9. /\ Len(e.bpnext) = Max({e.count, 0}) + Cardinality(r) + n
      /\ Len(e.queue) = Max({-e.count, 0})
  BY <1>2, <1>8 DEF PoolGood
<1>10. /\ Partition(Range(BuffersFrom(e.addr, e.size, e.num)), Range(e.bpnext), {out})
       /\ out = {b.addr : b \in {c \in WithUsers : c.pool = i}}
       /\ r = Released(i) /\ n = orphans.units[i] /\ e = buftab[i]
  BY <1>5 DEF Places, out, OutOf, r, n, e
<1> QED
  BY <1>6, <1>9, <1>10 DEF PoolOK

LEMMA MemoryParts ==
  ASSUME MemoryInv
  PROVE  HeapInv
<1>1. /\ AllocInv /\ KernelShared /\ VirtualShared /\ PoolsInv
      /\ Sound(KNodes, mem.list, minheap, maxheap) /\ Sound(VNodes, vheap.list, vmin, vmax)
  BY DEF MemoryInv, Shared, AllocInv
<1>2. ListOK(mem) /\ ListOK(vheap)
  BY <1>1, SoundInOrder DEF KernelShared, VirtualShared
<1>3. \A p, q \in Procs : p # q => proc[p].bufs \cap proc[q].bufs = {}
  BY <1>1 DEF PoolsInv, UsersOK
<1>4. \A i \in DOMAIN buftab : PoolOK(i)
  BY <1>1, PoolParts
<1>5. up => Partition(UnitsOf(vmin, vmax - vmin), FreeUnits(vheap.list), VOwned)
  BY <1>1, VirtualParts
<1>6. Partition(UnitsOf(minheap, maxheap - minheap), FreeUnits(mem.list), Owned)
  BY <1>1, KernelParts
<1> QED
  BY <1>2, <1>3, <1>4, <1>5, <1>6 DEF HeapInv

\* After any getmem, getstk, freemem, freestk, vgetmem, vfreemem and vcreate, and any
\* mkbufpool, getbuf, freebuf and kill, the free lists are in order and their totals
\* right, each unit of the heap and of a virtual heap is free or has one owner, and each
\* buffer of a pool is in its list or with one user, as the pool's semaphore counts.
THEOREM HeapIsShared == Spec => []HeapInv
<1>1. Init => MemoryInv
  BY MemoryInit
<1>2. MemoryInv /\ [Next]_vars => MemoryInv'
  BY MemoryStep, MemoryStill
<1>3. MemoryInv => HeapInv
  BY MemoryParts
<1> QED
  BY <1>1, <1>2, <1>3, PTL DEF Spec
=============================================================================
