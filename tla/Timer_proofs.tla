---------------------------- MODULE Timer_proofs ----------------------------
(***************************************************************************)
(* Theorems about the software timers, for every width of the tick counter *)
(* and every set of timers: the pointers always form two lists, expiry is  *)
(* computed right although the counter wraps around, so that timer.c       *)
(* implements Countdown, and a periodic task is never woken early.         *)
(***************************************************************************)
EXTENDS Timer, Lists_proofs

-----------------------------------------------------------------------------
(* Arithmetic of the tick counter                                          *)

(* x and y are the same number for a counter of Range32 values.            *)
Congruent(x, y) == \E k \in Int : x = y + k * Range32

Range31 == (-HalfRange) .. HalfRange - 1

LEMMA RangeFacts == HalfRange \in Nat /\ HalfRange >= 2 /\ Range32 \in Nat /\ Range32 = 2 * HalfRange
BY TimerAssumption DEF Range32

LEMMA CongruentRefl == ASSUME NEW x \in Int PROVE Congruent(x, x)
<1>1. x = x + 0 * Range32
  BY RangeFacts
<1> QED
  BY <1>1 DEF Congruent

LEMMA CongruentSym ==
  ASSUME NEW x \in Int, NEW y \in Int, Congruent(x, y)
  PROVE  Congruent(y, x)
<1>1. PICK k \in Int : x = y + k * Range32
  BY DEF Congruent
<1>2. y = x + (-k) * Range32
  BY <1>1, RangeFacts
<1> QED
  BY <1>2 DEF Congruent

LEMMA CongruentTrans ==
  ASSUME NEW x \in Int, NEW y \in Int, NEW z \in Int, Congruent(x, y), Congruent(y, z)
  PROVE  Congruent(x, z)
<1>1. PICK k \in Int : x = y + k * Range32
  BY DEF Congruent
<1>2. PICK l \in Int : y = z + l * Range32
  BY DEF Congruent
<1>3. x = z + (k + l) * Range32
  BY <1>1, <1>2, RangeFacts
<1> QED
  BY <1>3 DEF Congruent

(* Differences of congruent numbers are congruent, and so are sums.        *)
LEMMA CongruentDiff ==
  ASSUME NEW x \in Int, NEW y \in Int, NEW a \in Int, NEW b \in Int,
         Congruent(x, y), Congruent(a, b)
  PROVE  Congruent(x - a, y - b) /\ Congruent(x + a, y + b)
<1>1. PICK k \in Int : x = y + k * Range32
  BY DEF Congruent
<1>2. PICK l \in Int : a = b + l * Range32
  BY DEF Congruent
<1>3. x - a = (y - b) + (k - l) * Range32 /\ x + a = (y + b) + (k + l) * Range32
  BY <1>1, <1>2, RangeFacts
<1> QED
  BY <1>3 DEF Congruent

(* Reduction to a word and the cast to a signed number change nothing but  *)
(* the range, and in its range there is only one such number.              *)
LEMMA WordOf ==
  ASSUME NEW x \in Int
  PROVE  x % Range32 \in Word /\ Congruent(x % Range32, x)
<1>1. x % Range32 \in Word
  BY RangeFacts DEF Word
<1>2. x = (x % Range32) + (x \div Range32) * Range32
  BY RangeFacts
<1>3. x \div Range32 \in Int /\ x % Range32 \in Int
  BY RangeFacts
<1>4. Congruent(x, x % Range32)
  BY <1>2, <1>3 DEF Congruent
<1> QED
  BY <1>1, <1>3, <1>4, CongruentSym

LEMMA SignedOf ==
  ASSUME NEW x \in Int
  PROVE  Signed(x) \in Range31 /\ Congruent(Signed(x), x)
<1> DEFINE u == x % Range32
<1>1. u \in 0 .. Range32 - 1 /\ Congruent(u, x)
  BY WordOf DEF Word
<1>2. Signed(x) = IF u < HalfRange THEN u ELSE u - Range32
  BY DEF Signed
<1>a. u \in Int
  BY <1>1, RangeFacts
<1> HIDE DEF u
<1>3. Signed(x) \in Range31
  BY <1>1, <1>2, RangeFacts DEF Range31
<1>4. CASE u < HalfRange
  <2>1. Signed(x) = u
    BY <1>2, <1>4
  <2> QED
    BY <1>1, <1>3, <2>1
<1>5. CASE ~ (u < HalfRange)
  <2>1. u - Range32 = u + (-1) * Range32 /\ u \in Int /\ u - Range32 \in Int
    BY <1>1, RangeFacts
  <2>2. Congruent(u - Range32, u)
    BY <2>1 DEF Congruent
  <2>3. Signed(x) = u - Range32
    BY <1>2, <1>5
  <2>4. Congruent(u - Range32, x)
    BY <1>1, <2>1, <2>2, CongruentTrans
  <2> QED
    BY <1>3, <2>3, <2>4
<1> QED
  BY <1>3, <1>4, <1>5

LEMMA CongruentUnique ==
  ASSUME NEW x \in Range31, NEW y \in Range31, Congruent(x, y)
  PROVE  x = y
<1>1. PICK k \in Int : x = y + k * Range32
  BY DEF Congruent
<1>2. x \in Int /\ y \in Int /\ x - y < Range32 /\ y - x < Range32
  BY RangeFacts DEF Range31
<1>3. k * Range32 < Range32 /\ (-k) * Range32 < Range32
  BY <1>1, <1>2, RangeFacts
<1>4. k < 1 /\ -k < 1
  BY <1>3, RangeFacts
<1>5. k = 0
  BY <1>4
<1> QED
  BY <1>1, <1>2, <1>5, RangeFacts

(* How all signed differences are computed below.                          *)
LEMMA SignedIs ==
  ASSUME NEW x \in Int, NEW y \in Range31, Congruent(x, y)
  PROVE  Signed(x) = y
<1>1. Signed(x) \in Range31 /\ Congruent(Signed(x), x)
  BY SignedOf
<1>2. Signed(x) \in Int /\ y \in Int
  BY <1>1, RangeFacts DEF Range31
<1>3. Congruent(Signed(x), y)
  BY <1>1, <1>2, CongruentTrans
<1> QED
  BY <1>1, <1>3, CongruentUnique

(* The differences that timer.c and yr_task_sleep_until compute.           *)
LEMMA SignedWord ==
  ASSUME NEW x \in Int, NEW y \in Int
  PROVE  /\ Signed((x % Range32) - y) = Signed(x - y)
         /\ Signed(x - (y % Range32)) = Signed(x - y)
         /\ (x - y) % Range32 \in Word
<1>0. Range31 \subseteq Int /\ Word \subseteq Int
  BY RangeFacts DEF Range31, Word
<1>1. /\ x % Range32 \in Int /\ Congruent(x % Range32, x)
      /\ y % Range32 \in Int /\ Congruent(y % Range32, y)
      /\ (x - y) % Range32 \in Word
  <2>1. x % Range32 \in Word /\ Congruent(x % Range32, x)
    BY WordOf
  <2>2. y % Range32 \in Word /\ Congruent(y % Range32, y)
    BY WordOf
  <2>3. x - y \in Int
    OBVIOUS
  <2>4. (x - y) % Range32 \in Word
    BY ONLY <2>3, WordOf
  <2> QED
    BY <1>0, <2>1, <2>2, <2>4
<1>2. Congruent(x, x) /\ Congruent(y, y)
  BY CongruentRefl
<1>3. PICK s \in Range31 : s = Signed(x - y) /\ Congruent(s, x - y)
  BY SignedOf
<1>4. Congruent(x - y, s)
  BY <1>0, <1>3, CongruentSym
<1>5. /\ Congruent((x % Range32) - y, x - y)
      /\ Congruent(x - (y % Range32), x - y)
  BY <1>1, <1>2, CongruentDiff
<1>6. /\ Congruent((x % Range32) - y, s)
      /\ Congruent(x - (y % Range32), s)
  <2>1. (x % Range32) - y \in Int /\ x - (y % Range32) \in Int /\ x - y \in Int /\ s \in Int
    BY <1>0, <1>1, <1>3
  <2> QED
    BY <1>4, <1>5, <2>1, CongruentTrans
<1> QED
  BY <1>1, <1>3, <1>6, SignedIs

LEMMA SignedSum ==
  ASSUME NEW x \in Int, NEW n \in Int, Signed(x) + n \in Range31
  PROVE  Signed(x + n) = Signed(x) + n
<1>0. Range31 \subseteq Int
  BY RangeFacts DEF Range31
<1>1. PICK s \in Range31 : s = Signed(x) /\ Congruent(s, x)
  BY SignedOf
<1>2. Congruent(x, s) /\ Congruent(n, n)
  BY <1>0, <1>1, CongruentSym, CongruentRefl
<1>3. Congruent(x + n, s + n)
  BY <1>0, <1>2, CongruentDiff
<1>4. x + n \in Int /\ s + n \in Range31
  BY <1>1
<1>5. Signed(x + n) = s + n
  BY <1>3, <1>4, SignedIs
<1> QED
  BY <1>1, <1>5

LEMMA SignedNegative ==
  ASSUME NEW x \in Int, -Signed(x) \in Range31
  PROVE  Signed(-x) = -Signed(x)
<1>0. Range31 \subseteq Int
  BY RangeFacts DEF Range31
<1>1. PICK s \in Range31 : s = Signed(x) /\ Congruent(s, x)
  BY SignedOf
<1>2. Congruent(x, s) /\ Congruent(0, 0)
  BY <1>0, <1>1, CongruentSym, CongruentRefl
<1>3. Congruent(0 - x, 0 - s)
  BY <1>0, <1>2, CongruentDiff
<1>4. 0 - x = -x /\ 0 - s = -s
  BY <1>0
<1> QED
  BY <1>1, <1>3, <1>4, SignedIs

(* A word less than half of its range is its own signed value.             *)
LEMMA SignedSmall ==
  ASSUME NEW x \in Range31
  PROVE  Signed(x) = x /\ (x >= 0 => x % Range32 = x)
<1>1. x \in Int
  BY RangeFacts DEF Range31
<1>2. Signed(x) = x
  BY <1>1, SignedIs, CongruentRefl
<1>3. ASSUME x >= 0 PROVE x % Range32 = x
  BY <1>3, RangeFacts DEF Range31
<1> QED
  BY <1>2, <1>3

-----------------------------------------------------------------------------
(* The lists of timers behind the pointers                                 *)

LEMMA NodeFacts ==
  /\ IsFiniteSet(Timer) /\ Timer \subseteq Node
  /\ ListHead \in Node /\ DueHead \in Node /\ ListHead # DueHead
  /\ ListHead \notin Timer /\ DueHead \notin Timer
  /\ Periodic \subseteq Timer
BY TimerAssumption DEF Node

LEMMA OrdersAre ==
  ASSUME NEW q
  PROVE  q \in Orders <=> q \in Seq(Timer) /\ IsInjective(q)
<1>1. ASSUME q \in Orders PROVE q \in Seq(Timer) /\ IsInjective(q)
  <2>0. Cardinality(Timer) \in Nat
    BY NodeFacts, FS_CardinalityType
  <2>1. PICK n \in 0 .. Cardinality(Timer) : q \in [1 .. n -> Timer] /\ IsInjective(q)
    BY <1>1 DEF Orders
  <2> QED
    BY <2>0, <2>1
<1>2. ASSUME q \in Seq(Timer), IsInjective(q) PROVE q \in Orders
  <2>0. Len(q) \in Nat /\ DOMAIN q = 1 .. Len(q) /\ q \in [1 .. Len(q) -> Timer]
    BY <1>2, LenProperties
  <2>1. q \in Injection(1 .. Len(q), Timer)
    BY <1>2, <2>0 DEF Injection, IsInjective
  <2>2. Cardinality(1 .. Len(q)) = Len(q)
    BY <2>0, FS_Interval, SMTT(30)
  <2>3. Cardinality(1 .. Len(q)) <= Cardinality(Timer) /\ Cardinality(Timer) \in Nat
    BY <2>1, NodeFacts, FS_Injection, FS_CardinalityType
  <2>4. Len(q) \in 0 .. Cardinality(Timer)
    BY <2>0, <2>2, <2>3
  <2> QED
    BY <1>2, <2>0, <2>4 DEF Orders
<1> QED
  BY <1>1, <1>2

(* The nodes that are met, from the head to its return.                    *)
Way(head, q) == [i \in 0 .. Len(q) + 1 |-> IF i \in 1 .. Len(q) THEN q[i] ELSE head]

LEMMA WayFacts ==
  ASSUME NEW q \in Seq(Timer), NEW head \in Node
  PROVE  /\ Len(q) \in Nat /\ DOMAIN q = 1 .. Len(q)
         /\ Way(head, q) \in [0 .. Len(q) + 1 -> Node]
         /\ Way(head, q)[0] = head /\ Way(head, q)[Len(q) + 1] = head
         /\ \A i \in 1 .. Len(q) : Way(head, q)[i] = q[i] /\ q[i] \in Timer
<1>1. Len(q) \in Nat /\ DOMAIN q = 1 .. Len(q) /\ \A i \in 1 .. Len(q) : q[i] \in Timer
  BY LenProperties, ElementOfSeq
<1> QED
  BY <1>1, NodeFacts DEF Way

LEMMA LeadThroughWay ==
  ASSUME NEW q \in Seq(Timer), NEW head \in Node, NEW h
  PROVE  LeadThrough(h, head, q)
           <=> \A i \in 0 .. Len(q) : h.next[Way(head, q)[i]] = Way(head, q)[i + 1]
<1>1. Len(q) \in Nat
  BY LenProperties
<1>2. ASSUME NEW i \in 0 .. Len(q)
      PROVE  /\ Way(head, q)[i] = IF i = 0 THEN head ELSE q[i]
             /\ Way(head, q)[i + 1] = IF i = Len(q) THEN head ELSE q[i + 1]
  BY <1>1 DEF Way
<1> QED
  BY <1>2 DEF LeadThrough

(* The pointers lead through one sequence only.                            *)
LEMMA SameWay ==
  ASSUME NEW h, NEW head \in Node \ Timer, NEW q \in Seq(Timer), NEW r \in Seq(Timer),
         LeadThrough(h, head, q), LeadThrough(h, head, r)
  PROVE  Len(r) <= Len(q) => /\ Len(r) = Len(q)
                             /\ \A i \in 1 .. Len(q) : r[i] = q[i]
<1> SUFFICES ASSUME Len(r) <= Len(q)
             PROVE  Len(r) = Len(q) /\ \A i \in 1 .. Len(q) : r[i] = q[i]
  OBVIOUS
<1> DEFINE v == Way(head, r)
           w == Way(head, q)
           differ == {i \in 1 .. Len(r) : v[i] # w[i]}
<1>1. /\ Len(q) \in Nat /\ w[0] = head /\ w[Len(q) + 1] = head
      /\ \A i \in 1 .. Len(q) : w[i] = q[i] /\ q[i] \in Timer
  BY WayFacts
<1>2. /\ Len(r) \in Nat /\ v[0] = head /\ v[Len(r) + 1] = head
      /\ \A i \in 1 .. Len(r) : v[i] = r[i] /\ r[i] \in Timer
  BY WayFacts
<1>3. /\ \A i \in 0 .. Len(q) : h.next[w[i]] = w[i + 1]
      /\ \A i \in 0 .. Len(r) : h.next[v[i]] = v[i + 1]
  BY LeadThroughWay
<1> HIDE DEF v, w
<1>4. differ = {}
  <2> SUFFICES ASSUME differ # {} PROVE FALSE
    OBVIOUS
  <2>1. differ \in SUBSET Nat
    OBVIOUS
  <2>2. PICK m : m = Min(differ)
    OBVIOUS
  <2>3. m \in differ /\ \A x \in differ : m <= x
    BY <2>1, <2>2, MinProperties
  <2>4. m - 1 \in 0 .. Len(r) /\ m - 1 \in 0 .. Len(q) /\ m - 1 \notin differ /\ (m - 1) + 1 = m
    BY <1>1, <1>2, <2>3
  <2>5. v[m - 1] = w[m - 1]
    BY <1>1, <1>2, <2>4
  <2>6. v[m] = w[m]
    BY <1>3, <2>4, <2>5
  <2> QED
    BY <2>3, <2>6
<1>5. v[Len(r)] = w[Len(r)]
  BY <1>1, <1>2, <1>4
<1>6. w[Len(r) + 1] = head
  <2>1. Len(r) \in 0 .. Len(r) /\ Len(r) \in 0 .. Len(q)
    BY <1>1, <1>2
  <2> QED
    BY <1>2, <1>3, <1>5, <2>1
<1>7. Len(r) = Len(q)
  BY <1>1, <1>2, <1>6
<1> QED
  BY <1>1, <1>2, <1>4, <1>7

LEMMA ItemsAre ==
  ASSUME NEW h, NEW head \in Node \ Timer, NEW q \in Seq(Timer), IsInjective(q),
         LeadThrough(h, head, q)
  PROVE  Items(h, head) = q
<1>1. q \in Orders
  BY OrdersAre
<1>2. ASSUME NEW r \in Orders, LeadThrough(h, head, r) PROVE r = q
  <2>1. r \in Seq(Timer)
    BY OrdersAre
  <2>2. Len(r) \in Nat /\ Len(q) \in Nat
    BY <2>1, LenProperties
  <2>3. Len(r) <= Len(q) \/ Len(q) <= Len(r)
    BY <2>2
  <2>4. Len(r) = Len(q) /\ \A i \in 1 .. Len(q) : r[i] = q[i]
    BY <1>2, <2>1, <2>3, SameWay
  <2> QED
    BY <2>1, <2>4, SeqEqual
<1> QED
  BY <1>1, <1>2 DEF Items

(* What the pointers of a list say of the nodes in it.                     *)
LEMMA FirstItem ==
  ASSUME NEW h, NEW head \in Node \ Timer, NEW q \in Seq(Timer), LeadThrough(h, head, q)
  PROVE  /\ q = <<>> => h.next[head] = head
         /\ q # <<>> => h.next[head] = q[1] /\ q[1] \in Timer /\ h.next[head] # head
<1> DEFINE w == Way(head, q)
<1>1. /\ Len(q) \in Nat /\ w[0] = head /\ w[Len(q) + 1] = head
      /\ \A i \in 1 .. Len(q) : w[i] = q[i] /\ q[i] \in Timer
  BY WayFacts
<1>2. \A i \in 0 .. Len(q) : h.next[w[i]] = w[i + 1]
  BY LeadThroughWay
<1>3. h.next[head] = w[1]
  <2>1. 0 \in 0 .. Len(q) /\ 0 + 1 = 1
    BY <1>1
  <2> QED
    BY <1>1, <1>2, <2>1
<1> HIDE DEF w
<1>4. ASSUME q = <<>> PROVE h.next[head] = head
  <2>1. Len(q) = 0
    BY <1>4
  <2> QED
    BY <1>1, <1>3, <2>1
<1>5. ASSUME q # <<>> PROVE h.next[head] = q[1] /\ q[1] \in Timer
  <2>1. 1 \in 1 .. Len(q)
    BY <1>1, <1>5, EmptySeq
  <2> QED
    BY <1>1, <1>3, <2>1
<1> QED
  BY <1>4, <1>5

LEMMA ItemsLinked ==
  ASSUME NEW h, NEW head \in Node \ Timer, NEW q \in Seq(Timer), LeadThrough(h, head, q),
         IsInjective(q), NEW t \in Range(q)
  PROVE  h.next[t] # t
<1> DEFINE w == Way(head, q)
<1>1. /\ Len(q) \in Nat /\ w[Len(q) + 1] = head /\ DOMAIN q = 1 .. Len(q)
      /\ \A i \in 1 .. Len(q) : w[i] = q[i] /\ q[i] \in Timer
  BY WayFacts
<1>2. \A i \in 0 .. Len(q) : h.next[w[i]] = w[i + 1]
  BY LeadThroughWay
<1> HIDE DEF w
<1>3. PICK i \in 1 .. Len(q) : q[i] = t
  BY <1>1 DEF Range
<1>4. h.next[t] = w[i + 1]
  BY <1>1, <1>2, <1>3
<1>5. CASE i = Len(q)
  BY <1>1, <1>3, <1>4, <1>5
<1>6. CASE i # Len(q)
  <2>0. Len(q) \in Nat
    BY <1>1
  <2>1. i + 1 \in 1 .. Len(q) /\ i + 1 # i
    BY <2>0, <1>6
  <2>2. q[i + 1] # q[i]
    BY <1>1, <2>1 DEF IsInjective
  <2> QED
    BY <1>1, <1>3, <1>4, <2>1, <2>2
<1> QED
  BY <1>5, <1>6

(* A list whose nodes keep their pointers stays as it is.                  *)
LEMMA LeadThroughKept ==
  ASSUME NEW h, NEW r, NEW head \in Node \ Timer, NEW q \in Seq(Timer),
         LeadThrough(h, head, q), r.next[head] = h.next[head],
         \A t \in Range(q) : r.next[t] = h.next[t]
  PROVE  LeadThrough(r, head, q)
<1> DEFINE w == Way(head, q)
<1>1. /\ Len(q) \in Nat /\ w[0] = head /\ DOMAIN q = 1 .. Len(q)
      /\ \A i \in 1 .. Len(q) : w[i] = q[i]
  BY WayFacts
<1>2. \A i \in 0 .. Len(q) : h.next[w[i]] = w[i + 1]
  BY LeadThroughWay
<1>3. \A i \in 1 .. Len(q) : q[i] \in Range(q)
  BY <1>1 DEF Range
<1> HIDE DEF w
<1>4. \A i \in 0 .. Len(q) : r.next[w[i]] = w[i + 1]
  BY <1>1, <1>2, <1>3
<1> QED
  BY <1>4, LeadThroughWay DEF w

(* Module YrList's theorems for the nodes of this module.                  *)
LEMMA DeleteNode ==
  ASSUME NEW h \in Heaps(Node), WellLinked(h), NEW n \in Timer
  PROVE  LET r == ListDeleteSelf(h, n) IN
         /\ r \in Heaps(Node)
         /\ WellLinked(r)
         /\ r.next[n] = n
         /\ \A m \in Node : m # n /\ h.next[m] # n => r.next[m] = h.next[m]
         /\ \A m \in Node : m # n /\ h.next[m] = n => r.next[m] = h.next[n]
<1>1. h \in Heaps(Node) /\ WellLinked(h) /\ n \in Node
  BY NodeFacts
<1> DEFINE r == ListDeleteSelf(h, n)
<1>2. /\ r \in Heaps(Node)
      /\ WellLinked(r)
      /\ r.next[n] = n /\ r.prev[n] = n
      /\ \A m \in Node : m # n /\ h.next[m] # n => r.next[m] = h.next[m]
      /\ \A m \in Node : m # n /\ h.next[m] = n => r.next[m] = h.next[n]
  BY <1>1, DeleteSelfSafe
<1> QED
  BY <1>2

(* yr_list_delete_self on the pointers is Without on the sequence.         *)
LEMMA LeadThroughWithout ==
  ASSUME NEW h \in Heaps(Node), WellLinked(h), NEW n \in Timer,
         NEW head \in Node \ Timer, NEW q \in Seq(Timer), IsInjective(q),
         LeadThrough(h, head, q)
  PROVE  LeadThrough(ListDeleteSelf(h, n), head, Without(q, n))
<1> DEFINE r == ListDeleteSelf(h, n)
           s == Without(q, n)
           w == Way(head, q)
           v == Way(head, s)
<1>0. n \in Node /\ n # head
  BY NodeFacts
<1>1. /\ \A m \in Node : m # n /\ h.next[m] # n => r.next[m] = h.next[m]
      /\ \A m \in Node : m # n /\ h.next[m] = n => r.next[m] = h.next[n]
  BY DeleteNode
<1> HIDE DEF r
<1>2. /\ Len(q) \in Nat /\ DOMAIN q = 1 .. Len(q)
      /\ w[0] = head /\ w[Len(q) + 1] = head
      /\ \A i \in 1 .. Len(q) : w[i] = q[i] /\ q[i] \in Timer
  BY WayFacts
<1>3. \A i \in 0 .. Len(q) : h.next[w[i]] = w[i + 1]
  BY LeadThroughWay
<1>4. \A i \in 0 .. Len(q) + 1 : w[i] \in Node
  BY <1>2, NodeFacts
<1> HIDE DEF w
<1>5. CASE n \notin Range(q)
  <2>1. s = q
    BY <1>5, WithoutProperties
  <2>2. \A i \in 0 .. Len(q) + 1 : w[i] # n
    BY <1>0, <1>2, <1>5 DEF Range
  <2>3. \A i \in 0 .. Len(q) : r.next[w[i]] = w[i + 1]
    BY <1>1, <1>2, <1>3, <1>4, <2>2
  <2>4. LeadThrough(r, head, q)
    BY <2>3, LeadThroughWay DEF w
  <2> QED
    BY <2>1, <2>4 DEF r
<1>6. CASE n \in Range(q)
  <2>1. PICK k \in 1 .. Len(q) :
          /\ q[k] = n
          /\ s \in Seq(Timer)
          /\ DOMAIN s = 1 .. Len(q) - 1
          /\ \A j \in 1 .. Len(q) - 1 : s[j] = IF j < k THEN q[j] ELSE q[j + 1]
    BY <1>6, WithoutPlaces
  <2> HIDE DEF s
  <2>2. s \in Seq(Timer) /\ Len(s) = Len(q) - 1
    <3>1. Len(s) \in Nat /\ 1 .. Len(s) = 1 .. Len(q) - 1
      BY <2>1, LenProperties
    <3>2. Len(q) - 1 \in Nat
      BY <1>2, <2>1
    <3> QED
      BY ONLY <2>1, <3>1, <3>2
  <2>3. /\ v[0] = head /\ v[Len(q)] = head
        /\ \A i \in 1 .. Len(q) - 1 : v[i] = s[i]
    <3>1. /\ v[0] = head /\ v[Len(s) + 1] = head
          /\ \A i \in 1 .. Len(s) : v[i] = s[i]
      BY <2>2, WayFacts
    <3> HIDE DEF v
    <3>2. Len(s) + 1 = Len(q)
      BY <1>2, <2>2
    <3> QED
      BY <2>2, <3>1, <3>2
  <2> HIDE DEF v
  <2>4. \A i \in 0 .. Len(q) : v[i] = IF i < k THEN w[i] ELSE w[i + 1]
    BY <1>2, <2>1, <2>3
  <2>5. \A i \in 0 .. Len(q) + 1 : i # k => w[i] # n
    <3>1. \A i \in 1 .. Len(q) : i # k => q[i] # n
      BY <1>2, <2>1 DEF IsInjective
    <3> QED
      BY <1>0, <1>2, <3>1
  <2>6. w[k] = n
    BY <1>2, <2>1
  <2>7. ASSUME NEW i \in 0 .. Len(q) - 1 PROVE r.next[v[i]] = v[i + 1]
    <3>1. CASE i + 1 < k
      <4>1. v[i] = w[i] /\ v[i + 1] = w[i + 1] /\ w[i] # n /\ w[i + 1] # n
        BY <1>2, <2>4, <2>5, <3>1
      <4> QED
        BY <1>1, <1>2, <1>3, <1>4, <4>1
    <3>2. CASE i + 1 = k
      <4>1. v[i] = w[i] /\ v[i + 1] = w[k + 1] /\ w[i] # n /\ w[i + 1] = n
        BY <1>2, <2>1, <2>4, <2>5, <2>6, <3>2
      <4>2. h.next[w[i]] = n /\ h.next[n] = w[k + 1] /\ w[i] \in Node
        BY <1>2, <1>3, <1>4, <2>1, <2>6, <4>1
      <4> QED
        BY <1>1, <4>1, <4>2
    <3>3. CASE i + 1 > k
      <4>1. i + 1 \in 0 .. Len(q) /\ i + 2 \in 0 .. Len(q) + 1 /\ (i + 1) + 1 = i + 2
        BY <1>2
      <4>2. v[i] = w[i + 1] /\ v[i + 1] = w[i + 2] /\ w[i + 1] # n /\ w[i + 2] # n
        BY <1>2, <2>1, <2>4, <2>5, <3>3, <4>1
      <4>3. h.next[w[i + 1]] = w[i + 2] /\ w[i + 1] \in Node
        BY <1>3, <1>4, <4>1
      <4> QED
        BY <1>1, <4>2, <4>3
    <3> QED
      BY <3>1, <3>2, <3>3, <1>2, <2>1
  <2>8. \A i \in 0 .. Len(s) : r.next[v[i]] = v[i + 1]
    BY <2>2, <2>7
  <2>9. LeadThrough(r, head, s)
    BY <2>2, <2>8, LeadThroughWay DEF v
  <2> QED
    BY <2>9 DEF r, s
<1> QED
  BY <1>5, <1>6

LEMMA InsertNode ==
  ASSUME NEW h \in Heaps(Node), WellLinked(h), NEW l \in Node, NEW n \in Timer,
         l # n, h.next[n] = n
  PROVE  LET r == ListInsertBefore(h, l, n) IN
         /\ r \in Heaps(Node)
         /\ WellLinked(r)
         /\ r.next[n] = l
         /\ \A m \in Node \ {n} : r.next[m] = IF h.next[m] = l THEN n ELSE h.next[m]
<1>1. h \in Heaps(Node) /\ WellLinked(h) /\ n \in Node
  BY NodeFacts
<1> DEFINE r == ListInsertBefore(h, l, n)
<1>2. /\ r \in Heaps(Node)
      /\ WellLinked(r)
      /\ r.next[n] = l /\ r.next[h.prev[l]] = n
      /\ \A m \in Node \ {n, h.prev[l]} : r.next[m] = h.next[m]
  BY <1>1, InsertBeforeSafe
<1> HIDE DEF r
<1>3. \A m \in Node : h.prev[h.next[m]] = m /\ h.next[h.prev[m]] = m
  BY DEF Heaps, WellLinked
<1>4. ASSUME NEW m \in Node \ {n}
      PROVE  r.next[m] = IF h.next[m] = l THEN n ELSE h.next[m]
  <2>1. h.next[m] = l <=> m = h.prev[l]
    BY <1>3
  <2> QED
    BY <1>2, <2>1
<1> QED
  BY <1>2, <1>4 DEF r

(* The node in front of which the timer at place k of a list is, or will   *)
(* be: a timer of the list, or its head for the place behind the last one. *)
PlaceOf(head, q, k) == Way(head, q)[k]

(* yr_list_insert_before on the pointers is the insertion at this place.   *)
LEMMA LeadThroughInsert ==
  ASSUME NEW h \in Heaps(Node), WellLinked(h), NEW n \in Timer, h.next[n] = n,
         NEW head \in Node \ Timer, NEW q \in Seq(Timer), IsInjective(q),
         LeadThrough(h, head, q), n \notin Range(q),
         NEW k \in 1 .. Len(q) + 1, NEW s \in Seq(Timer), PutAt(s, q, n, k)
  PROVE  LeadThrough(ListInsertBefore(h, PlaceOf(head, q, k), n), head, s)
<1> DEFINE l == PlaceOf(head, q, k)
           r == ListInsertBefore(h, l, n)
           w == Way(head, q)
           v == Way(head, s)
<1>1. /\ Len(q) \in Nat /\ DOMAIN q = 1 .. Len(q)
      /\ w[0] = head /\ w[Len(q) + 1] = head
      /\ \A i \in 1 .. Len(q) : w[i] = q[i] /\ q[i] \in Timer
  BY WayFacts
<1>2. \A i \in 0 .. Len(q) : h.next[w[i]] = w[i + 1]
  BY LeadThroughWay
<1>3. l = w[k]
  BY DEF PlaceOf
<1> HIDE DEF w, l
<1>4. n \in Node /\ n # head
  BY NodeFacts
<1>5. \A i \in 0 .. Len(q) + 1 : w[i] \in Node /\ w[i] # n
  BY <1>1, <1>4, NodeFacts DEF Range
<1>6. \A i, j \in 1 .. Len(q) + 1 : w[i] = w[j] => i = j
  <2>1. \A i, j \in 1 .. Len(q) : q[i] = q[j] => i = j
    BY <1>1 DEF IsInjective
  <2>2. \A i \in 1 .. Len(q) : q[i] # head
    BY <1>1
  <2> QED
    BY <1>1, <2>1, <2>2
<1>7. /\ r.next[n] = l
      /\ \A m \in Node \ {n} : r.next[m] = IF h.next[m] = l THEN n ELSE h.next[m]
  <2>1. l \in Node /\ l # n
    BY <1>1, <1>3, <1>5
  <2> QED
    BY <2>1, InsertNode
<1> HIDE DEF r
<1>8. /\ DOMAIN s = 1 .. Len(q) + 1
      /\ \A j \in 1 .. Len(q) + 1 :
           s[j] = IF j < k THEN q[j] ELSE IF j = k THEN n ELSE q[j - 1]
  BY DEF PutAt
<1>9. Len(s) = Len(q) + 1
  <2>1. Len(s) \in Nat /\ 1 .. Len(s) = 1 .. Len(q) + 1
    BY <1>8, LenProperties
  <2>2. Len(q) + 1 \in Nat
    BY <1>1
  <2> QED
    BY ONLY <2>1, <2>2
<1>10. /\ v[0] = head /\ v[Len(q) + 2] = head
       /\ \A i \in 1 .. Len(q) + 1 : v[i] = s[i]
  <2>1. /\ v[0] = head /\ v[Len(s) + 1] = head
        /\ \A i \in 1 .. Len(s) : v[i] = s[i]
    BY WayFacts
  <2> HIDE DEF v
  <2>2. Len(s) + 1 = Len(q) + 2
    BY <1>1, <1>9
  <2> QED
    BY <1>9, <2>1, <2>2
<1> HIDE DEF v
<1>11. \A i \in 0 .. Len(q) + 2 : v[i] = IF i < k THEN w[i] ELSE IF i = k THEN n ELSE w[i - 1]
  <2> SUFFICES ASSUME NEW i \in 0 .. Len(q) + 2
               PROVE  v[i] = IF i < k THEN w[i] ELSE IF i = k THEN n ELSE w[i - 1]
    OBVIOUS
  <2>1. CASE i = 0 \/ i = Len(q) + 2
    BY <1>1, <1>10, <2>1
  <2>2. CASE i \in 1 .. Len(q) + 1
    BY <1>1, <1>8, <1>10, <2>2
  <2> QED
    BY <2>1, <2>2, <1>1
<1>12. ASSUME NEW i \in 0 .. Len(q) + 1 PROVE r.next[v[i]] = v[i + 1]
  <2>1. CASE i + 1 < k
    <3>1. v[i] = w[i] /\ v[i + 1] = w[i + 1] /\ h.next[w[i]] = w[i + 1] /\ i \in 0 .. Len(q)
      BY <1>1, <1>2, <1>11, <2>1
    <3>2. w[i + 1] # l
      BY <1>1, <1>3, <1>6, <2>1
    <3> QED
      BY <1>1, <1>5, <1>7, <3>1, <3>2
  <2>2. CASE i + 1 = k
    <3>1. v[i] = w[i] /\ v[i + 1] = n /\ h.next[w[i]] = l /\ i \in 0 .. Len(q)
      BY <1>1, <1>2, <1>3, <1>11, <2>2, SMTT(30)
    <3> QED
      BY <1>1, <1>5, <1>7, <3>1
  <2>3. CASE i = k
    BY <1>1, <1>3, <1>7, <1>11, <2>3
  <2>4. CASE i > k
    <3>1. i - 1 \in 0 .. Len(q) /\ (i - 1) + 1 = i /\ i \in 1 .. Len(q) + 1 /\ i # k
      BY <1>1, <2>4
    <3>2. v[i] = w[i - 1] /\ v[i + 1] = w[i] /\ h.next[w[i - 1]] = w[i]
      <4>1. h.next[w[i - 1]] = w[(i - 1) + 1]
        BY <1>2, <3>1
      <4>2. /\ i \in 0 .. Len(q) + 2 /\ ~ (i < k) /\ i # k
            /\ i + 1 \in 0 .. Len(q) + 2 /\ ~ (i + 1 < k) /\ i + 1 # k /\ (i + 1) - 1 = i
        BY <1>1, <2>4
      <4>3. v[i + 1] = w[(i + 1) - 1]
        BY <1>11, <4>2
      <4> QED
        BY <1>11, <3>1, <4>1, <4>2, <4>3
    <3>3. w[i] # l
      BY <1>3, <1>6, <3>1
    <3> QED
      BY <1>1, <1>5, <1>7, <3>1, <3>2, <3>3, SMTT(30)
  <2> QED
    BY <2>1, <2>2, <2>3, <2>4, <1>1
<1>13. \A i \in 0 .. Len(s) : r.next[v[i]] = v[i + 1]
  BY <1>9, <1>12
<1> QED
  BY <1>13, LeadThroughWay DEF v, r, l

LEMMA StaysInList ==
  ASSUME NEW h, NEW head \in Node \ Timer, NEW q \in Seq(Timer), LeadThrough(h, head, q),
         NEW m, m = head \/ m \in Range(q)
  PROVE  h.next[m] = head \/ h.next[m] \in Range(q)
<1> DEFINE w == Way(head, q)
<1>1. /\ Len(q) \in Nat /\ w[0] = head /\ w[Len(q) + 1] = head /\ DOMAIN q = 1 .. Len(q)
      /\ \A i \in 1 .. Len(q) : w[i] = q[i]
  BY WayFacts
<1>2. \A i \in 0 .. Len(q) : h.next[w[i]] = w[i + 1]
  BY LeadThroughWay
<1> HIDE DEF w
<1>3. \E i \in 0 .. Len(q) : w[i] = m
  <2>1. CASE m = head
    BY <1>1, <2>1
  <2>2. CASE m \in Range(q)
    <3>1. PICK i \in 1 .. Len(q) : q[i] = m
      BY <1>1, <2>2 DEF Range
    <3>2. i \in 0 .. Len(q)
      BY <1>1
    <3> QED
      BY <1>1, <3>1, <3>2
  <2> QED
    BY <2>1, <2>2
<1>4. PICK i \in 0 .. Len(q) : w[i] = m
  BY <1>3
<1>5. h.next[m] = w[i + 1]
  BY <1>2, <1>4
<1>6. i + 1 = Len(q) + 1 \/ i + 1 \in 1 .. Len(q)
  BY <1>1
<1> QED
  BY <1>1, <1>5, <1>6 DEF Range

(* Linking a timer into one of two lists does not touch the other.         *)
LEMMA InsertInList ==
  ASSUME NEW h \in Heaps(Node), WellLinked(h), NEW n \in Timer, h.next[n] = n,
         NEW head \in Node \ Timer, NEW q \in Seq(Timer), IsInjective(q),
         LeadThrough(h, head, q), n \notin Range(q),
         NEW other \in Node \ Timer, other # head, NEW p \in Seq(Timer),
         LeadThrough(h, other, p), n \notin Range(p), \A t \in Range(q) : t \notin Range(p),
         NEW places \in SUBSET DOMAIN q, NEW l,
         l = IF places = {} THEN head ELSE q[Min(places)]
  PROVE  LET r == ListInsertBefore(h, l, n) IN
         /\ r \in Heaps(Node)
         /\ WellLinked(r)
         /\ LeadThrough(r, head, InsertBefore(q, n, places))
         /\ LeadThrough(r, other, p)
         /\ \A t \in Timer : h.next[t] = t /\ t \notin Range(q) /\ t # n => r.next[t] = t
<1> DEFINE r == ListInsertBefore(h, l, n)
           s == InsertBefore(q, n, places)
<1>0. Len(q) \in Nat /\ DOMAIN q = 1 .. Len(q) /\ \A i \in 1 .. Len(q) : q[i] \in Timer
  BY LenProperties, ElementOfSeq
<1>1. \E k \in 1 .. Len(q) + 1 : PutAt(s, q, n, k) /\ l = PlaceOf(head, q, k)
  <2>1. CASE places = {}
    <3>1. /\ DOMAIN s = 1 .. Len(q) + 1
          /\ \A j \in 1 .. Len(q) : s[j] = q[j]
          /\ s[Len(q) + 1] = n
      BY <2>1, AppendProperties, LenProperties DEF InsertBefore
    <3> HIDE DEF s
    <3>2. PutAt(s, q, n, Len(q) + 1)
      BY <1>0, <3>1 DEF PutAt
    <3>3. l = PlaceOf(head, q, Len(q) + 1)
      BY <2>1, WayFacts DEF PlaceOf
    <3>4. Len(q) + 1 \in 1 .. Len(q) + 1
      BY <1>0
    <3> QED
      BY <3>2, <3>3, <3>4
  <2>2. CASE places # {}
    <3>1. PICK k \in 1 .. Len(q) :
            /\ k \in places /\ \A x \in places : k <= x
            /\ PutAt(s, q, n, k)
      BY <2>2, PutAtFirst, Zenon
    <3>2. Min(places) = k
      <4>1. places \in SUBSET Nat
        BY <1>0
      <4>2. PICK m : m = Min(places)
        OBVIOUS
      <4>3. m \in places /\ m <= k
        BY <2>2, <3>1, <4>1, <4>2, MinProperties
      <4>4. k <= m /\ m \in Nat /\ k \in Nat
        BY <1>0, <3>1, <4>1, <4>3
      <4> QED
        BY <4>2, <4>3, <4>4
    <3>3. l = q[k]
      BY <2>2, <3>2
    <3>4. PlaceOf(head, q, k) = q[k]
      BY WayFacts DEF PlaceOf
    <3>5. k \in 1 .. Len(q) + 1
      BY <1>0
    <3> QED
      BY <3>1, <3>3, <3>4, <3>5
  <2> QED
    BY <2>1, <2>2
<1>2. PICK k \in 1 .. Len(q) + 1 : PutAt(s, q, n, k) /\ l = PlaceOf(head, q, k)
  BY <1>1
<1>3. s \in Seq(Timer)
  BY InsertBeforeProperties
<1>4. l = head \/ l \in Range(q)
  <2>1. PICK i \in 1 .. Len(q) + 1 : l = Way(head, q)[i]
    BY <1>2 DEF PlaceOf
  <2>2. i \in 1 .. Len(q) \/ i = Len(q) + 1
    BY <1>0
  <2>3. (l = q[i] /\ i \in 1 .. Len(q)) \/ l = head
    BY <2>1, <2>2, WayFacts
  <2> QED
    BY <1>0, <2>3 DEF Range
<1> HIDE DEF s
<1>5. l \in Node /\ l # n
  BY <1>0, <1>4, NodeFacts DEF Range
<1>6. /\ r \in Heaps(Node)
      /\ WellLinked(r)
      /\ \A m \in Node \ {n} : r.next[m] = IF h.next[m] = l THEN n ELSE h.next[m]
  BY <1>5, InsertNode
<1>7. LeadThrough(r, head, s)
  BY <1>2, <1>3, LeadThroughInsert
<1> HIDE DEF r
<1>8. LeadThrough(r, other, p)
  <2>1. ASSUME NEW m, m = other \/ m \in Range(p) PROVE r.next[m] = h.next[m]
    <3>1. h.next[m] = other \/ h.next[m] \in Range(p)
      BY <2>1, StaysInList
    <3>2. \A t \in Range(p) : t \in Timer
      BY LenProperties, ElementOfSeq DEF Range
    <3>3. h.next[m] # l
      BY <1>0, <1>4, <3>1, <3>2 DEF Range
    <3>4. m \in Node /\ m # n
      BY <2>1, <3>2, NodeFacts
    <3> QED
      BY <1>6, <3>3, <3>4
  <2> QED
    BY <2>1, LeadThroughKept
<1>9. ASSUME NEW t \in Timer, h.next[t] = t, t \notin Range(q), t # n
      PROVE  r.next[t] = t
  <2>1. t \in Node /\ t # head
    BY NodeFacts
  <2>2. t # l
    BY <1>4, <1>9, <2>1
  <2> QED
    BY <1>6, <1>9, <2>1, <2>2
<1> QED
  BY <1>6, <1>7, <1>8, <1>9 DEF r, s

(* The pointers form the two lists a, from yr_timer_list, and d, from      *)
(* timeout_list, and no others.                                            *)
Represents(h, a, d) ==
  /\ h \in Heaps(Node) /\ WellLinked(h)
  /\ a \in Seq(Timer) /\ IsInjective(a) /\ LeadThrough(h, ListHead, a)
  /\ d \in Seq(Timer) /\ IsInjective(d) /\ LeadThrough(h, DueHead, d)
  /\ \A t \in Range(a) : t \notin Range(d)
  /\ \A t \in Timer : h.next[t] # t => t \in Range(a) \/ t \in Range(d)

LEMMA RepresentsItems ==
  ASSUME NEW h, NEW a, NEW d, Represents(h, a, d)
  PROVE  /\ Items(h, ListHead) = a /\ Items(h, DueHead) = d
         /\ \A t \in Timer : h.next[t] # t <=> t \in Range(a) \/ t \in Range(d)
<1>1. ListHead \in Node \ Timer /\ DueHead \in Node \ Timer
  BY NodeFacts
<1>2. Items(h, ListHead) = a /\ Items(h, DueHead) = d
  BY <1>1, ItemsAre DEF Represents
<1>3. \A t \in Range(a) : h.next[t] # t
  BY <1>1, ItemsLinked DEF Represents
<1>4. \A t \in Range(d) : h.next[t] # t
  BY <1>1, ItemsLinked DEF Represents
<1> QED
  BY <1>2, <1>3, <1>4 DEF Represents

LEMMA RepresentsInit ==
  ASSUME Init
  PROVE  Represents(heap, <<>>, <<>>)
<1> DEFINE e == <<>>
<1>1. e \in Seq(Timer) /\ Len(e) = 0 /\ IsInjective(e) /\ Range(e) = {} /\ DOMAIN e = {}
  BY EmptySeq DEF IsInjective, Range
<1> HIDE DEF e
<1>2. /\ heap = [next |-> heap.next, prev |-> heap.prev]
      /\ heap.next \in [Node -> Node] /\ heap.prev \in [Node -> Node]
      /\ \A n \in Node : heap.next[n] = n /\ heap.prev[n] = n
  BY DEF Init
<1>3. heap \in Heaps(Node) /\ WellLinked(heap)
  BY <1>2 DEF Heaps, WellLinked
<1>4. ASSUME NEW head \in Node PROVE LeadThrough(heap, head, e)
  BY <1>1, <1>2 DEF LeadThrough
<1>5. LeadThrough(heap, ListHead, e) /\ LeadThrough(heap, DueHead, e)
  BY <1>4, NodeFacts
<1>6. \A t \in Timer : heap.next[t] = t
  BY <1>2, NodeFacts
<1> QED
  BY <1>1, <1>3, <1>5, <1>6 DEF Represents, e

(* yr_list_delete_self, yr_list_insert_before and yr_list_init of an empty *)
(* list as operations on the two sequences.                                *)
LEMMA RepresentsDelete ==
  ASSUME NEW h, NEW a, NEW d, Represents(h, a, d), NEW n \in Timer
  PROVE  /\ Represents(ListDeleteSelf(h, n), Without(a, n), Without(d, n))
         /\ n \notin Range(Without(a, n)) /\ n \notin Range(Without(d, n))
         /\ \A u : u # n => /\ u \in Range(Without(a, n)) <=> u \in Range(a)
                            /\ u \in Range(Without(d, n)) <=> u \in Range(d)
<1> DEFINE r == ListDeleteSelf(h, n)
           b == Without(a, n)
           e == Without(d, n)
<1>0. ListHead \in Node \ Timer /\ DueHead \in Node \ Timer /\ n \in Node
  BY NodeFacts
<1>1. /\ h \in Heaps(Node) /\ WellLinked(h)
      /\ a \in Seq(Timer) /\ IsInjective(a) /\ LeadThrough(h, ListHead, a)
      /\ d \in Seq(Timer) /\ IsInjective(d) /\ LeadThrough(h, DueHead, d)
      /\ \A t \in Range(a) : t \notin Range(d)
      /\ \A t \in Timer : h.next[t] # t => t \in Range(a) \/ t \in Range(d)
  BY DEF Represents
<1>2. LeadThrough(r, ListHead, b) /\ LeadThrough(r, DueHead, e)
  BY <1>0, <1>1, LeadThroughWithout
<1>3. /\ r \in Heaps(Node)
      /\ WellLinked(r)
      /\ r.next[n] = n
      /\ \A m \in Node : m # n /\ h.next[m] # n => r.next[m] = h.next[m]
      /\ \A m \in Node : m # n /\ h.next[m] = n => r.next[m] = h.next[n]
  BY <1>1, DeleteNode
<1>4. /\ b \in Seq(Timer) /\ IsInjective(b) /\ n \notin Range(b)
      /\ \A u : u # n => (u \in Range(b) <=> u \in Range(a))
  BY <1>1, WithoutProperties
<1>5. /\ e \in Seq(Timer) /\ IsInjective(e) /\ n \notin Range(e)
      /\ \A u : u # n => (u \in Range(e) <=> u \in Range(d))
  BY <1>1, WithoutProperties
<1> HIDE DEF r, b, e
<1>6. \A t \in Range(b) : t \notin Range(e)
  BY <1>1, <1>4, <1>5
<1>7. ASSUME NEW t \in Timer, r.next[t] # t PROVE t \in Range(b) \/ t \in Range(e)
  <2>1. t # n /\ t \in Node
    BY <1>3, <1>7, NodeFacts
  <2>2. h.next[t] # t
    BY <1>3, <1>7, <2>1
  <2> QED
    BY <1>1, <1>4, <1>5, <2>1, <2>2
<1> QED
  BY <1>2, <1>3, <1>4, <1>5, <1>6, <1>7 DEF Represents, r, b, e

LEMMA RepresentsInsert ==
  ASSUME NEW h, NEW a, NEW d, Represents(h, a, d), NEW n \in Timer,
         n \notin Range(a), n \notin Range(d), NEW places \in SUBSET DOMAIN a
  PROVE  LET l == IF places = {} THEN ListHead ELSE a[Min(places)] IN
         Represents(ListInsertBefore(h, l, n), InsertBefore(a, n, places), d)
<1> DEFINE l == IF places = {} THEN ListHead ELSE a[Min(places)]
           r == ListInsertBefore(h, l, n)
           b == InsertBefore(a, n, places)
<1>0. ListHead \in Node \ Timer /\ DueHead \in Node \ Timer /\ DueHead # ListHead
  BY NodeFacts
<1>1. /\ h \in Heaps(Node) /\ WellLinked(h)
      /\ a \in Seq(Timer) /\ IsInjective(a) /\ LeadThrough(h, ListHead, a)
      /\ d \in Seq(Timer) /\ IsInjective(d) /\ LeadThrough(h, DueHead, d)
      /\ \A t \in Range(a) : t \notin Range(d)
      /\ \A t \in Timer : h.next[t] # t => t \in Range(a) \/ t \in Range(d)
  BY DEF Represents
<1>2. h.next[n] = n
  BY <1>1
<1>3. /\ r \in Heaps(Node)
      /\ WellLinked(r)
      /\ LeadThrough(r, ListHead, b)
      /\ LeadThrough(r, DueHead, d)
      /\ \A t \in Timer : h.next[t] = t /\ t \notin Range(a) /\ t # n => r.next[t] = t
  <2>1. /\ h \in Heaps(Node) /\ WellLinked(h) /\ n \in Timer /\ h.next[n] = n
        /\ ListHead \in Node \ Timer /\ a \in Seq(Timer) /\ IsInjective(a)
        /\ LeadThrough(h, ListHead, a) /\ n \notin Range(a)
        /\ DueHead \in Node \ Timer /\ DueHead # ListHead /\ d \in Seq(Timer)
        /\ LeadThrough(h, DueHead, d) /\ n \notin Range(d)
        /\ \A t \in Range(a) : t \notin Range(d)
        /\ places \in SUBSET DOMAIN a /\ l = IF places = {} THEN ListHead ELSE a[Min(places)]
    BY <1>0, <1>1, <1>2
  <2> HIDE DEF l
  <2> QED
    BY ONLY <2>1, InsertInList, SMTT(30)
<1>4. /\ b \in Seq(Timer) /\ IsInjective(b)
      /\ \A u : u \in Range(b) <=> u \in Range(a) \/ u = n
  BY <1>1, InsertBeforeProperties
<1> HIDE DEF r, b, l
<1>5. \A t \in Range(b) : t \notin Range(d)
  BY <1>1, <1>4
<1>6. \A t \in Timer : r.next[t] # t => t \in Range(b) \/ t \in Range(d)
  BY <1>1, <1>3, <1>4
<1> QED
  BY <1>1, <1>3, <1>4, <1>5, <1>6 DEF Represents, r, b, l

LEMMA RepresentsAppend ==
  ASSUME NEW h, NEW a, NEW d, Represents(h, a, d), NEW n \in Timer,
         n \notin Range(a), n \notin Range(d)
  PROVE  Represents(ListInsertBefore(h, DueHead, n), a, Append(d, n))
<1> DEFINE r == ListInsertBefore(h, DueHead, n)
           e == Append(d, n)
<1>0. ListHead \in Node \ Timer /\ DueHead \in Node \ Timer /\ DueHead # ListHead
  BY NodeFacts
<1>1. /\ h \in Heaps(Node) /\ WellLinked(h)
      /\ a \in Seq(Timer) /\ IsInjective(a) /\ LeadThrough(h, ListHead, a)
      /\ d \in Seq(Timer) /\ IsInjective(d) /\ LeadThrough(h, DueHead, d)
      /\ \A t \in Range(a) : t \notin Range(d)
      /\ \A t \in Timer : h.next[t] # t => t \in Range(a) \/ t \in Range(d)
  BY DEF Represents
<1>2. h.next[n] = n
  BY <1>1
<1>3. \A t \in Range(d) : t \notin Range(a)
  BY <1>1
<1>4. InsertBefore(d, n, {}) = e
  BY DEF InsertBefore
<1>5. PICK none : none = {}
  OBVIOUS
<1>6. none \in SUBSET DOMAIN d
  BY <1>5
<1>7. /\ r \in Heaps(Node)
      /\ WellLinked(r)
      /\ LeadThrough(r, DueHead, InsertBefore(d, n, none))
      /\ LeadThrough(r, ListHead, a)
      /\ \A t \in Timer : h.next[t] = t /\ t \notin Range(d) /\ t # n => r.next[t] = t
  <2>1. /\ h \in Heaps(Node) /\ WellLinked(h) /\ n \in Timer /\ h.next[n] = n
        /\ DueHead \in Node \ Timer /\ d \in Seq(Timer) /\ IsInjective(d)
        /\ LeadThrough(h, DueHead, d) /\ n \notin Range(d)
        /\ ListHead \in Node \ Timer /\ ListHead # DueHead /\ a \in Seq(Timer)
        /\ LeadThrough(h, ListHead, a) /\ n \notin Range(a)
        /\ \A t \in Range(d) : t \notin Range(a)
        /\ none \in SUBSET DOMAIN d /\ DueHead = IF none = {} THEN DueHead ELSE d[Min(none)]
    BY <1>0, <1>1, <1>2, <1>3, <1>5, <1>6
  <2> QED
    BY ONLY <2>1, InsertInList
<1>8. /\ r \in Heaps(Node)
      /\ WellLinked(r)
      /\ LeadThrough(r, DueHead, e)
      /\ LeadThrough(r, ListHead, a)
      /\ \A t \in Timer : h.next[t] = t /\ t \notin Range(d) /\ t # n => r.next[t] = t
  BY <1>4, <1>5, <1>7
<1>9. /\ e \in Seq(Timer) /\ IsInjective(e)
      /\ \A u : u \in Range(e) <=> u \in Range(d) \/ u = n
  BY <1>1, AppendRange
<1> HIDE DEF r, e
<1>10. \A t \in Range(a) : t \notin Range(e)
  BY <1>1, <1>9
<1>11. \A t \in Timer : r.next[t] # t => t \in Range(a) \/ t \in Range(e)
  BY <1>1, <1>8, <1>9
<1> QED
  BY <1>1, <1>8, <1>9, <1>10, <1>11 DEF Represents, r, e

LEMMA RepresentsReset ==
  ASSUME NEW h, NEW a, Represents(h, a, <<>>)
  PROVE  ListInit(h, DueHead) = h
<1>1. DueHead \in Node \ Timer
  BY NodeFacts
<1>2. h \in Heaps(Node) /\ WellLinked(h) /\ LeadThrough(h, DueHead, <<>>) /\ <<>> \in Seq(Timer)
  BY DEF Represents
<1>3. h.next[DueHead] = DueHead
  BY <1>1, <1>2, FirstItem
<1>4. h.prev[DueHead] = DueHead
  BY <1>1, <1>2, <1>3 DEF WellLinked, Heaps
<1> QED
  BY <1>1, <1>2, <1>3, <1>4 DEF ListInit, Heaps

-----------------------------------------------------------------------------
(* The inductive invariant                                                 *)

TimerTypes ==
  /\ now \in Word
  /\ timeout \in [Timer -> Word]
  /\ target \in [Periodic -> Word]
  /\ rest \in [Periodic -> 0 .. MaxTicks]
  /\ stage \in {"off", "check", "fire", "callback"}

(* While yr_timer_check collects the expired timers, the tick has already  *)
(* been counted but they are still in yr_timer_list.                       *)
Earliest == IF stage = "check" THEN -1 ELSE 0

(* A periodic task sleeps for its next target, or its target has come, or  *)
(* it is between its two critical sections with its timer in no list.      *)
PeriodicOK(t) ==
  /\ t \in Armed => /\ rest[t] = 0
                    /\ Signed(timeout[t] - target[t]) \in 0 .. MaxDelay
                    /\ Left[t] > Earliest
  /\ t \notin Armed /\ rest[t] = 0 => Signed(now - target[t]) >= 0
  /\ rest[t] # 0 => t \notin Due /\ Signed(now + rest[t] - target[t]) \in 0 .. MaxDelay

PeriodicInv == \A t \in Periodic : PeriodicOK(t)

ITimer ==
  /\ TimerTypes
  /\ Represents(heap, Items(heap, ListHead), Items(heap, DueHead))
  /\ stage = "off" => Items(heap, DueHead) = <<>>
  /\ \A t \in Armed : Left[t] \in Earliest .. MaxTicks
  /\ InOrder(Items(heap, ListHead), Left)
  /\ PeriodicInv

LEMMA WordFacts ==
  /\ Word \subseteq Int /\ Range31 \subseteq Int
  /\ MaxTicks \in Nat /\ MaxTicks <= HalfRange - 1
  /\ MaxDelay \in Nat /\ MaxDelay <= HalfRange - 1
  /\ HalfRange \in Nat /\ HalfRange >= 2
BY RangeFacts, TimerAssumption DEF Word, Range31

LEMMA TypeFacts ==
  ASSUME TimerTypes
  PROVE  /\ now \in Int
         /\ \A t \in Timer : timeout[t] \in Int
         /\ \A t \in Periodic : target[t] \in Int /\ rest[t] \in Int /\ rest[t] \in 0 .. MaxTicks
<1>1. \A x \in Word : x \in Int
  BY WordFacts
<1>2. now \in Word /\ \A t \in Timer : timeout[t] \in Word
  BY DEF TimerTypes
<1>3. \A t \in Periodic : target[t] \in Word /\ rest[t] \in 0 .. MaxTicks
  BY DEF TimerTypes
<1>4. MaxTicks \in Nat
  BY WordFacts
<1> QED
  BY <1>1, <1>2, <1>3, <1>4

LEMMA LeftIs ==
  ASSUME TimerTypes
  PROVE  /\ Left \in [Timer -> Int] /\ DOMAIN Left = Timer
         /\ \A t \in Timer : Left[t] = IF t \in Armed THEN Signed(timeout[t] - now) ELSE 0
<1>1. Left = [t \in Timer |-> IF t \in Armed THEN Signed(timeout[t] - now) ELSE 0]
  BY DEF Left
<1>2. ASSUME NEW t \in Timer PROVE Signed(timeout[t] - now) \in Int
  <2>1. timeout[t] - now \in Int
    BY TypeFacts
  <2>2. Signed(timeout[t] - now) \in Range31
    BY <2>1, SignedOf
  <2> QED
    BY <2>2, WordFacts
<1> QED
  BY <1>1, <1>2

LEMMA ArmedFacts ==
  ASSUME ITimer
  PROVE  /\ Items(heap, ListHead) \in Seq(Timer) /\ IsInjective(Items(heap, ListHead))
         /\ Items(heap, DueHead) \in Seq(Timer) /\ IsInjective(Items(heap, DueHead))
         /\ \A t \in Armed : t \in Timer /\ t \notin Due
         /\ \A t \in Due : t \in Timer
         /\ \A t \in Timer : heap.next[t] # t <=> t \in Armed \/ t \in Due
<1>1. /\ Items(heap, ListHead) \in Seq(Timer) /\ IsInjective(Items(heap, ListHead))
      /\ Items(heap, DueHead) \in Seq(Timer) /\ IsInjective(Items(heap, DueHead))
      /\ \A t \in Armed : t \notin Due
  BY DEF ITimer, Represents, Armed, Due
<1>2. \A t \in Armed : t \in Timer
  BY <1>1, LenProperties, ElementOfSeq DEF Armed, Range
<1>3. \A t \in Due : t \in Timer
  BY <1>1, LenProperties, ElementOfSeq DEF Due, Range
<1>4. \A t \in Timer : heap.next[t] # t <=> t \in Armed \/ t \in Due
  <2>1. Represents(heap, Items(heap, ListHead), Items(heap, DueHead))
    BY DEF ITimer
  <2> QED
    BY <2>1, RepresentsItems DEF Armed, Due
<1> QED
  BY <1>1, <1>2, <1>3, <1>4

(* yr_timer_start looks for the timers with more ticks left than the new   *)
(* one, although it only sees the words in which they expire.              *)
LEMMA LaterMeans ==
  ASSUME ITimer, stage # "check", NEW n \in 0 .. MaxTicks, NEW u \in Armed
  PROVE  Later(timeout[u], (now + n) % Range32) <=> Left[u] > n
<1>1. TimerTypes /\ u \in Timer /\ Left[u] \in 0 .. MaxTicks
  BY ArmedFacts DEF ITimer, Earliest
<1>2. timeout[u] \in Int /\ now \in Int /\ n \in Int
  BY <1>1, TypeFacts, WordFacts
<1>3. Left[u] = Signed(timeout[u] - now)
  BY <1>1, LeftIs
<1>4. Left[u] - n \in Range31 /\ Left[u] \in Int
  BY <1>1, WordFacts DEF Range31
<1>5. Signed(timeout[u] - ((now + n) % Range32)) = Signed(timeout[u] - (now + n))
  <2>1. timeout[u] \in Int /\ now + n \in Int
    BY <1>2
  <2> QED
    BY ONLY <2>1, SignedWord
<1>6. Signed((timeout[u] - now) + (-n)) = Signed(timeout[u] - now) + (-n)
  <2>1. timeout[u] - now \in Int /\ -n \in Int /\ Signed(timeout[u] - now) + (-n) \in Range31
    BY <1>2, <1>3, <1>4
  <2> QED
    BY ONLY <2>1, SignedSum
<1>7. (timeout[u] - now) + (-n) = timeout[u] - (now + n)
  BY <1>2
<1> QED
  BY <1>3, <1>4, <1>5, <1>6, <1>7 DEF Later

(* What has expired at a tick has no ticks left.                           *)
LEMMA ExpiredMeans ==
  ASSUME ITimer, NEW u \in Armed
  PROVE  Expired(timeout[u]) <=> Left[u] <= 0
<1>1. TimerTypes /\ u \in Timer /\ Left[u] \in -1 .. MaxTicks
  BY ArmedFacts DEF ITimer, Earliest
<1>2. timeout[u] \in Int /\ now \in Int
  BY <1>1, TypeFacts
<1>3. Left[u] = Signed(timeout[u] - now)
  BY <1>1, LeftIs
<1>4. -Left[u] \in Range31 /\ Left[u] \in Int
  BY <1>1, WordFacts DEF Range31
<1>5. Signed(-(timeout[u] - now)) = -Signed(timeout[u] - now)
  <2>1. timeout[u] - now \in Int /\ -Signed(timeout[u] - now) \in Range31
    BY <1>2, <1>3, <1>4
  <2> QED
    BY ONLY <2>1, SignedNegative
<1>6. -(timeout[u] - now) = now - timeout[u]
  BY <1>2
<1> QED
  BY <1>3, <1>4, <1>5, <1>6 DEF Expired

-----------------------------------------------------------------------------
(* What each operation does to the lists and to the ticks left             *)

LEMMA LeftAfter ==
  ASSUME NEW a, NEW d, Represents(heap', a, d), NEW L \in [Timer -> Int],
         \A t \in Timer : L[t] = IF t \in Range(a) THEN Signed(timeout'[t] - now') ELSE 0
  PROVE  /\ Items(heap, ListHead)' = a /\ Items(heap, DueHead)' = d
         /\ Armed' = Range(a) /\ Due' = Range(d)
         /\ Left' = L
<1>1. Items(heap', ListHead) = a /\ Items(heap', DueHead) = d
  BY RepresentsItems
<1>2. Armed' = Range(a) /\ Due' = Range(d)
  BY <1>1 DEF Armed, Due
<1>3. Left' = [t \in Timer |-> IF t \in Armed' THEN Signed(timeout'[t] - now') ELSE 0]
  BY DEF Left
<1>4. Left' = L
  BY <1>2, <1>3
<1> QED
  BY <1>1, <1>2, <1>4

(* The step leaves the lists a and d and the ticks L.                      *)
Becomes(a, d, L) ==
  /\ Represents(heap', a, d)
  /\ Items(heap, ListHead)' = a /\ Items(heap, DueHead)' = d
  /\ Armed' = Range(a) /\ Due' = Range(d)
  /\ Left' = L

LEMMA StartEffect ==
  ASSUME ITimer, stage # "check", NEW t \in Timer, NEW n \in 0 .. MaxTicks, Start(t, n),
         now' = now
  PROVE  LET L == [Left EXCEPT ![t] = n]
             a == Without(Items(heap, ListHead), t)
         IN  /\ Becomes(InsertTimer(a, t, L), Without(Items(heap, DueHead), t), L)
             /\ InOrder(InsertTimer(a, t, L), L)
             /\ \A u : u \in Range(InsertTimer(a, t, L)) <=> u \in Armed \/ u = t
             /\ \A u : u \in Due' <=> u \in Due /\ u # t
             /\ timeout' = [timeout EXCEPT ![t] = (now + n) % Range32]
<1> DEFINE A == Items(heap, ListHead)
           D == Items(heap, DueHead)
           L == [Left EXCEPT ![t] = n]
           a == Without(A, t)
           d == Without(D, t)
           x == (now + n) % Range32
           removed == ListDeleteSelf(heap, t)
           later == {i \in DOMAIN a : Later(timeout[a[i]], x)}
           b == InsertTimer(a, t, L)
<1>1. /\ TimerTypes /\ Represents(heap, A, D) /\ InOrder(A, Left)
      /\ A \in Seq(Timer) /\ \A u \in Armed : u \in Timer
      /\ Armed = Range(A) /\ Due = Range(D)
  BY ArmedFacts DEF ITimer, Armed, Due
<1>2. /\ Left \in [Timer -> Int] /\ L \in [Timer -> Int]
      /\ \A u \in Timer : Left[u] = IF u \in Armed THEN Signed(timeout[u] - now) ELSE 0
      /\ L[t] = n /\ \A u \in Timer : u # t => L[u] = Left[u]
  BY <1>1, LeftIs
<1>3. /\ Represents(removed, a, d)
      /\ t \notin Range(a) /\ t \notin Range(d)
      /\ \A u : u # t => /\ u \in Range(a) <=> u \in Armed
                         /\ u \in Range(d) <=> u \in Due
  <2> HIDE DEF A, D
  <2> QED
    BY <1>1, RepresentsDelete
<1>4. Items(removed, ListHead) = a
  <2> HIDE DEF a, d, removed
  <2> QED
    BY <1>3, RepresentsItems
<1>5. /\ timeout' = [timeout EXCEPT ![t] = x]
      /\ heap' = ListInsertBefore(removed, IF later = {} THEN ListHead ELSE a[Min(later)], t)
  BY <1>4 DEF Start
<1>6. a \in Seq(Timer) /\ \A i \in DOMAIN a : a[i] \in Armed /\ a[i] \in Timer /\ a[i] # t
  <2>1. a \in Seq(Timer)
    BY <1>1, WithoutProperties
  <2> HIDE DEF a, d, removed
  <2>2. \A i \in DOMAIN a : a[i] \in Range(a)
    BY DEF Range
  <2> QED
    BY <1>1, <1>3, <2>1, <2>2
<1> HIDE DEF A, D, a, d, L, x, removed
<1>7. later = {i \in DOMAIN a : L[a[i]] > L[t]}
  <2>1. ASSUME NEW i \in DOMAIN a PROVE Later(timeout[a[i]], x) <=> L[a[i]] > L[t]
    <3>1. PICK u : u = a[i]
      OBVIOUS
    <3>2. u \in Armed /\ u \in Timer /\ u # t
      BY <1>6, <3>1
    <3>3. Later(timeout[u], x) <=> Left[u] > n
      BY <3>2, LaterMeans DEF x
    <3> QED
      BY <1>2, <3>1, <3>2, <3>3
  <2> QED
    BY <2>1
<1>8. b = InsertBefore(a, t, later)
  BY <1>7 DEF InsertTimer
<1>9. Represents(heap', b, d)
  <2>1. later \in SUBSET DOMAIN a
    OBVIOUS
  <2> HIDE DEF later, b
  <2> QED
    BY <1>3, <1>5, <1>8, <2>1, RepresentsInsert
<1>10. \A u : u \in Range(b) <=> u \in Armed \/ u = t
  <2>1. later \in SUBSET DOMAIN a
    OBVIOUS
  <2> HIDE DEF later, b
  <2>2. \A u : u \in Range(b) <=> u \in Range(a) \/ u = t
    BY <1>6, <1>8, <2>1, InsertBeforeProperties
  <2> QED
    BY <1>3, <2>2
<1>11. InOrder(b, L)
  <2>1. InOrder(a, Left)
    BY <1>1, WithoutInOrder DEF a
  <2>2. InOrder(a, L)
    BY <1>2, <1>6, <2>1 DEF InOrder
  <2> QED
    BY <1>2, <1>6, <2>2, InsertInOrder
<1> HIDE DEF b
<1>12. ASSUME NEW u \in Timer
       PROVE  L[u] = IF u \in Range(b) THEN Signed(timeout'[u] - now') ELSE 0
  <2>1. timeout \in [Timer -> Word]
    BY <1>1 DEF TimerTypes
  <2>2. CASE u # t
    BY <1>2, <1>5, <1>10, <2>1, <2>2
  <2>3. CASE u = t
    <3>1. timeout'[t] = x /\ t \in Range(b)
      BY <1>5, <1>10, <2>1
    <3>2. now + n \in Int /\ now \in Int /\ n \in Range31
      BY <1>1, TypeFacts, WordFacts DEF Range31
    <3>3. Signed(x - now) = Signed((now + n) - now)
      BY <3>2, SignedWord DEF x
    <3>4. (now + n) - now = n
      BY <3>2, WordFacts
    <3>5. Signed(n) = n
      BY <3>2, SignedSmall
    <3> QED
      BY <1>2, <2>3, <3>1, <3>3, <3>4, <3>5
  <2> QED
    BY <2>2, <2>3
<1>13. Becomes(b, d, L)
  BY <1>2, <1>9, <1>12, LeftAfter DEF Becomes
<1>14. \A u : u \in Due' <=> u \in Due /\ u # t
  BY <1>3, <1>13 DEF Becomes
<1> QED
  BY <1>5, <1>10, <1>11, <1>13, <1>14 DEF A, D, a, d, L, b, x

LEMMA StopEffect ==
  ASSUME ITimer, NEW t \in Timer, heap' = ListDeleteSelf(heap, t),
         now' = now, timeout' = timeout
  PROVE  LET L == [Left EXCEPT ![t] = 0]
             a == Without(Items(heap, ListHead), t)
         IN  /\ Becomes(a, Without(Items(heap, DueHead), t), L)
             /\ InOrder(a, L)
             /\ \A u : u \in Range(a) <=> u \in Armed /\ u # t
             /\ \A u : u \in Due' <=> u \in Due /\ u # t
<1> DEFINE A == Items(heap, ListHead)
           D == Items(heap, DueHead)
           L == [Left EXCEPT ![t] = 0]
           a == Without(A, t)
           d == Without(D, t)
<1>1. /\ TimerTypes /\ Represents(heap, A, D) /\ InOrder(A, Left)
      /\ A \in Seq(Timer) /\ \A u \in Armed : u \in Timer
      /\ Armed = Range(A) /\ Due = Range(D)
  BY ArmedFacts DEF ITimer, Armed, Due
<1>2. /\ L \in [Timer -> Int]
      /\ \A u \in Timer : Left[u] = IF u \in Armed THEN Signed(timeout[u] - now) ELSE 0
      /\ L[t] = 0 /\ \A u \in Timer : u # t => L[u] = Left[u]
  BY <1>1, LeftIs
<1> HIDE DEF A, D
<1>3. /\ Represents(heap', a, d)
      /\ t \notin Range(a) /\ t \notin Range(d)
      /\ \A u : u # t => /\ u \in Range(a) <=> u \in Armed
                         /\ u \in Range(d) <=> u \in Due
  BY <1>1, RepresentsDelete
<1>4. a \in Seq(Timer) /\ InOrder(a, Left)
  BY <1>1, WithoutProperties, WithoutInOrder
<1> HIDE DEF a, d, L
<1>5. InOrder(a, L)
  <2>1. \A i \in DOMAIN a : a[i] \in Range(a)
    BY DEF Range
  <2>2. \A i \in DOMAIN a : L[a[i]] = Left[a[i]]
    BY <1>1, <1>2, <1>3, <2>1
  <2> QED
    BY <1>4, <2>2 DEF InOrder
<1>6. \A u \in Timer : L[u] = IF u \in Range(a) THEN Signed(timeout'[u] - now') ELSE 0
  BY <1>2, <1>3
<1>7. Becomes(a, d, L)
  BY <1>2, <1>3, <1>6, LeftAfter DEF Becomes
<1>8. \A u : u \in Due' <=> u \in Due /\ u # t
  BY <1>3, <1>7 DEF Becomes
<1>9. \A u : u \in Range(a) <=> u \in Armed /\ u # t
  BY <1>3
<1> QED
  BY <1>5, <1>7, <1>8, <1>9 DEF A, D, a, d, L

LEMMA TickEffect ==
  ASSUME ITimer, Tick
  PROVE  LET L == [t \in Timer |-> IF t \in Armed THEN Left[t] - 1 ELSE 0] IN
         /\ Becomes(Items(heap, ListHead), Items(heap, DueHead), L)
         /\ Items(heap, DueHead) = <<>>
         /\ InOrder(Items(heap, ListHead), L)
         /\ heap' = heap
<1> DEFINE A == Items(heap, ListHead)
           L == [t \in Timer |-> IF t \in Armed THEN Left[t] - 1 ELSE 0]
<1>1. /\ TimerTypes /\ Represents(heap, A, Items(heap, DueHead)) /\ InOrder(A, Left)
      /\ A \in Seq(Timer) /\ \A u \in Armed : u \in Timer
      /\ Armed = Range(A)
      /\ \A u \in Armed : Left[u] \in 0 .. MaxTicks
      /\ Items(heap, DueHead) = <<>>
      /\ now' = (now + 1) % Range32 /\ timeout' = timeout /\ heap' = ListInit(heap, DueHead)
  BY ArmedFacts DEF ITimer, Armed, Tick, Earliest
<1>2. /\ Left \in [Timer -> Int] /\ L \in [Timer -> Int]
      /\ \A u \in Timer : Left[u] = IF u \in Armed THEN Signed(timeout[u] - now) ELSE 0
  BY <1>1, LeftIs
<1>3. heap' = heap
  BY <1>1, RepresentsReset
<1>4. ASSUME NEW u \in Timer
      PROVE  L[u] = IF u \in Range(A) THEN Signed(timeout'[u] - now') ELSE 0
  <2>1. CASE u \notin Armed
    BY <1>1, <2>1
  <2>2. CASE u \in Armed
    <3>1. timeout[u] \in Int /\ now \in Int
      BY <1>1, TypeFacts
    <3>2. timeout[u] - now \in Int /\ -1 \in Int /\ Signed(timeout[u] - now) + (-1) \in Range31
      BY <1>1, <1>2, <2>2, <3>1, WordFacts, SMTT(30) DEF Range31
    <3>3. Signed((timeout[u] - now) + (-1)) = Signed(timeout[u] - now) + (-1)
      BY ONLY <3>2, SignedSum
    <3>4. (timeout[u] - now) + (-1) = timeout[u] - (now + 1) /\ now + 1 \in Int
      BY <3>1
    <3>5. Signed(timeout[u] - ((now + 1) % Range32)) = Signed(timeout[u] - (now + 1))
      BY ONLY <3>1, <3>4, SignedWord
    <3>6. Signed(timeout'[u] - now') = Left[u] - 1
      <4>1. Left[u] \in Int /\ Left[u] = Signed(timeout[u] - now)
        BY <1>2, <2>2
      <4> QED
        BY <1>1, <3>3, <3>4, <3>5, <4>1
    <3> QED
      BY <1>1, <2>2, <3>6
  <2> QED
    BY <2>1, <2>2
<1>5. Becomes(A, Items(heap, DueHead), L)
  <2> HIDE DEF A, L
  <2> QED
    BY <1>1, <1>2, <1>3, <1>4, LeftAfter, ZenonT(30) DEF Becomes
<1>6. InOrder(A, L)
  <2> HIDE DEF A
  <2>1. \A i \in DOMAIN A : A[i] \in Range(A)
    BY DEF Range
  <2>2. \A i \in DOMAIN A : L[A[i]] = Left[A[i]] - 1 /\ Left[A[i]] \in Int
    BY <1>1, <1>2, <2>1
  <2> HIDE DEF L
  <2> QED
    BY <1>1, <2>2 DEF InOrder
<1> QED
  BY <1>1, <1>3, <1>5, <1>6

LEMMA FirstIs ==
  ASSUME ITimer
  PROVE  /\ ListIsEmpty(heap, ListHead) <=> Items(heap, ListHead) = <<>>
         /\ ListIsEmpty(heap, DueHead) <=> Items(heap, DueHead) = <<>>
         /\ Items(heap, ListHead) # <<>> => First = Head(Items(heap, ListHead))
         /\ Items(heap, DueHead) # <<>> => heap.next[DueHead] = Head(Items(heap, DueHead))
<1> DEFINE A == Items(heap, ListHead)
           D == Items(heap, DueHead)
<1>1. /\ A \in Seq(Timer) /\ IsInjective(A) /\ LeadThrough(heap, ListHead, A)
      /\ D \in Seq(Timer) /\ IsInjective(D) /\ LeadThrough(heap, DueHead, D)
  BY DEF ITimer, Represents
<1> HIDE DEF A, D
<1>2. ListHead \in Node \ Timer /\ DueHead \in Node \ Timer
  BY NodeFacts
<1>3. /\ A = <<>> => heap.next[ListHead] = ListHead
      /\ A # <<>> => heap.next[ListHead] = A[1] /\ heap.next[ListHead] # ListHead
  BY <1>1, <1>2, FirstItem
<1>4. /\ D = <<>> => heap.next[DueHead] = DueHead
      /\ D # <<>> => heap.next[DueHead] = D[1] /\ heap.next[DueHead] # DueHead
  BY <1>1, <1>2, FirstItem
<1>5. (A # <<>> => Head(A) = A[1]) /\ (D # <<>> => Head(D) = D[1])
  BY <1>1, HeadTailProperties
<1> QED
  BY <1>3, <1>4, <1>5 DEF ListIsEmpty, First, A, D

LEMMA ExpireEffect ==
  ASSUME ITimer, Expire
  PROVE  LET A == Items(heap, ListHead)
             L == [Left EXCEPT ![Head(A)] = 0]
         IN  /\ A # <<>> /\ Head(A) \in Armed /\ Left[Head(A)] <= 0
             /\ Becomes(Tail(A), Append(Items(heap, DueHead), Head(A)), L)
             /\ InOrder(Tail(A), L)
             /\ \A u : u \in Range(Tail(A)) <=> u \in Armed /\ u # Head(A)
             /\ \A u : u \in Due' <=> u \in Due \/ u = Head(A)
<1> DEFINE A == Items(heap, ListHead)
           D == Items(heap, DueHead)
           f == Head(A)
           L == [Left EXCEPT ![f] = 0]
           removed == ListDeleteSelf(heap, f)
<1>1. /\ TimerTypes /\ Represents(heap, A, D) /\ InOrder(A, Left)
      /\ A \in Seq(Timer) /\ IsInjective(A) /\ D \in Seq(Timer)
      /\ Armed = Range(A) /\ Due = Range(D) /\ \A u \in Armed : u \notin Due
  BY ArmedFacts DEF ITimer, Armed, Due
<1>2. /\ A # <<>> /\ First = f /\ Expired(timeout[f])
      /\ heap' = ListInsertBefore(removed, DueHead, f)
      /\ now' = now /\ timeout' = timeout
  BY FirstIs DEF Expire
<1>3. /\ Left \in [Timer -> Int]
      /\ \A u \in Timer : Left[u] = IF u \in Armed THEN Signed(timeout[u] - now) ELSE 0
  BY <1>1, LeftIs
<1> HIDE DEF A, D
<1>4. /\ f \in Timer /\ f \in Range(A) /\ Tail(A) \in Seq(Timer) /\ Tail(A) = Without(A, f)
      /\ Without(D, f) = D
  <2>1. f \in Timer /\ f \in Range(A) /\ Tail(A) \in Seq(Timer) /\ Tail(A) = Without(A, f)
    BY <1>1, <1>2, HeadUnlinked
  <2>2. Without(D, f) = D
    BY <1>1, <2>1, WithoutProperties
  <2> QED
    BY <2>1, <2>2
<1> HIDE DEF f
<1>5. Left[f] <= 0
  BY <1>1, <1>2, <1>4, ExpiredMeans
<1>6. /\ Represents(removed, Tail(A), D)
      /\ f \notin Range(Tail(A)) /\ f \notin Range(D)
      /\ \A u : u # f => (u \in Range(Tail(A)) <=> u \in Armed)
  <2>1. /\ Represents(removed, Without(A, f), Without(D, f))
        /\ f \notin Range(Without(A, f)) /\ f \notin Range(Without(D, f))
        /\ \A u : u # f => (u \in Range(Without(A, f)) <=> u \in Range(A))
    BY <1>1, <1>4, RepresentsDelete
  <2> QED
    BY <1>1, <1>4, <2>1
<1> HIDE DEF removed
<1>7. Represents(heap', Tail(A), Append(D, f))
  BY <1>2, <1>4, <1>6, RepresentsAppend
<1>8. L \in [Timer -> Int] /\ L[f] = 0 /\ \A u \in Timer : u # f => L[u] = Left[u]
  BY <1>3, <1>4
<1>9. InOrder(Tail(A), L)
  <2>1. InOrder(Tail(A), Left)
    BY <1>1, <1>4, WithoutInOrder
  <2>2. Range(Tail(A)) \subseteq Timer
    BY <1>4, LenProperties, ElementOfSeq DEF Range
  <2>3. \A i \in DOMAIN Tail(A) : Tail(A)[i] \in Range(Tail(A))
    BY DEF Range
  <2>4. \A i \in DOMAIN Tail(A) : L[Tail(A)[i]] = Left[Tail(A)[i]]
    BY <1>6, <1>8, <2>2, <2>3
  <2> HIDE DEF L
  <2> QED
    BY <2>1, <2>4 DEF InOrder
<1> HIDE DEF L
<1>10. \A u \in Timer : L[u] = IF u \in Range(Tail(A)) THEN Signed(timeout'[u] - now') ELSE 0
  BY <1>2, <1>3, <1>6, <1>8
<1>11. Becomes(Tail(A), Append(D, f), L)
  <2>1. PICK a, d : a = Tail(A) /\ d = Append(D, f)
    OBVIOUS
  <2>2. /\ Represents(heap', a, d) /\ L \in [Timer -> Int]
        /\ \A u \in Timer : L[u] = IF u \in Range(a) THEN Signed(timeout'[u] - now') ELSE 0
    BY <1>7, <1>8, <1>10, <2>1
  <2>3. Becomes(a, d, L)
    BY ONLY <2>2, LeftAfter DEF Becomes
  <2> QED
    BY <2>1, <2>3
<1>12. \A u : u \in Due' <=> u \in Due \/ u = f
  BY <1>1, <1>4, <1>11, AppendRange DEF Becomes
<1>13. \A u : u \in Range(Tail(A)) <=> u \in Armed /\ u # f
  BY <1>6
<1> QED
  BY <1>1, <1>2, <1>4, <1>5, <1>9, <1>11, <1>12, <1>13 DEF A, D, f, L

LEMMA AllExpiredEffect ==
  ASSUME ITimer, AllExpired
  PROVE  \A i \in DOMAIN Items(heap, ListHead) : Left[Items(heap, ListHead)[i]] > 0
<1> DEFINE A == Items(heap, ListHead)
<1>1. /\ TimerTypes /\ InOrder(A, Left) /\ A \in Seq(Timer) /\ IsInjective(A) /\ Armed = Range(A)
      /\ \A u \in Armed : u \in Timer
  BY ArmedFacts DEF ITimer, Armed
<1>2. A # <<>> => First = Head(A) /\ ~Expired(timeout[First])
  BY FirstIs DEF AllExpired
<1>3. Left \in [Timer -> Int]
  BY <1>1, LeftIs
<1> HIDE DEF A
<1> SUFFICES ASSUME NEW i \in DOMAIN A PROVE Left[A[i]] > 0
  BY DEF A
<1>4. Len(A) \in Nat /\ DOMAIN A = 1 .. Len(A) /\ A # <<>> /\ 1 \in DOMAIN A
  BY <1>1, LenProperties, EmptySeq
<1>5. Head(A) = A[1] /\ Head(A) \in Armed
  BY <1>1, <1>4, HeadUnlinked
<1>6. Left[A[1]] > 0
  BY <1>1, <1>2, <1>3, <1>4, <1>5, ExpiredMeans
<1>7. i = 1 \/ Left[A[1]] <= Left[A[i]]
  BY <1>1, <1>4 DEF InOrder
<1>8. A[1] \in Timer /\ A[i] \in Timer
  BY <1>1, <1>4, ElementOfSeq
<1> QED
  BY <1>3, <1>6, <1>7, <1>8

LEMMA CallEffect ==
  ASSUME ITimer, Call
  PROVE  LET D == Items(heap, DueHead) IN
         /\ D # <<>> /\ firing' = Head(D) /\ Head(D) \in Timer
         /\ Becomes(Items(heap, ListHead), Tail(D), Left)
         /\ \A u : u \in Due' <=> u \in Due /\ u # Head(D)
<1> DEFINE A == Items(heap, ListHead)
           D == Items(heap, DueHead)
           f == Head(D)
<1>1. /\ TimerTypes /\ Represents(heap, A, D)
      /\ A \in Seq(Timer) /\ D \in Seq(Timer) /\ IsInjective(D)
      /\ Armed = Range(A) /\ Due = Range(D) /\ \A u \in Armed : u \notin Due
  BY ArmedFacts DEF ITimer, Armed, Due
<1>2. /\ D # <<>> /\ heap.next[DueHead] = f /\ firing' = f
      /\ heap' = ListDeleteSelf(heap, f)
      /\ now' = now /\ timeout' = timeout
  BY FirstIs DEF Call
<1>3. /\ Left \in [Timer -> Int]
      /\ \A u \in Timer : Left[u] = IF u \in Armed THEN Signed(timeout[u] - now) ELSE 0
  BY <1>1, LeftIs
<1> HIDE DEF A, D
<1>4. f \in Timer /\ f \in Range(D) /\ Tail(D) \in Seq(Timer) /\ Tail(D) = Without(D, f)
  BY <1>1, <1>2, HeadUnlinked
<1>5. Without(A, f) = A
  <2>1. f \notin Range(A)
    BY <1>1, <1>4
  <2> QED
    BY <1>1, <2>1, WithoutProperties
<1> HIDE DEF f
<1>6. /\ Represents(heap', A, Tail(D))
      /\ f \notin Range(Tail(D))
      /\ \A u : u # f => (u \in Range(Tail(D)) <=> u \in Due)
  <2>1. /\ Represents(ListDeleteSelf(heap, f), Without(A, f), Without(D, f))
        /\ f \notin Range(Without(D, f))
        /\ \A u : u # f => (u \in Range(Without(D, f)) <=> u \in Range(D))
    BY <1>1, <1>4, RepresentsDelete
  <2> QED
    BY <1>1, <1>2, <1>4, <1>5, <2>1
<1>7. Becomes(A, Tail(D), Left)
  <2>1. PICK d, L : d = Tail(D) /\ L = Left
    OBVIOUS
  <2>2. /\ Represents(heap', A, d) /\ L \in [Timer -> Int]
        /\ \A u \in Timer : L[u] = IF u \in Range(A) THEN Signed(timeout'[u] - now') ELSE 0
    BY <1>1, <1>2, <1>3, <1>6, <2>1
  <2>3. Becomes(A, d, L)
    BY ONLY <2>2, LeftAfter DEF Becomes
  <2> QED
    BY <2>1, <2>3
<1>8. \A u : u \in Due' <=> u \in Due /\ u # f
  BY <1>6, <1>7 DEF Becomes
<1> QED
  BY <1>2, <1>4, <1>7, <1>8 DEF A, D, f

LEMMA NoEffect ==
  ASSUME ITimer, heap' = heap, now' = now, timeout' = timeout
  PROVE  /\ Becomes(Items(heap, ListHead), Items(heap, DueHead), Left)
         /\ Armed' = Armed /\ Due' = Due
<1>1. TimerTypes /\ Represents(heap, Items(heap, ListHead), Items(heap, DueHead))
  BY DEF ITimer
<1>2. /\ Items(heap, ListHead)' = Items(heap, ListHead)
      /\ Items(heap, DueHead)' = Items(heap, DueHead)
  OBVIOUS
<1>3. Armed' = Armed /\ Due' = Due
  BY <1>2 DEF Armed, Due
<1>4. Left' = Left
  BY <1>3 DEF Left
<1> QED
  BY <1>1, <1>2, <1>3, <1>4 DEF Becomes, Armed, Due

-----------------------------------------------------------------------------
(* ITimer is an invariant                                                  *)

LEMMA ITimerInit == Init => ITimer
<1> SUFFICES ASSUME Init PROVE ITimer
  OBVIOUS
<1>1. /\ Items(heap, ListHead) = <<>> /\ Items(heap, DueHead) = <<>>
      /\ Represents(heap, <<>>, <<>>)
  BY RepresentsInit, RepresentsItems
<1>2. TimerTypes
  <2>1. 0 \in Word /\ 0 \in 0 .. MaxTicks
    BY WordFacts, RangeFacts DEF Word
  <2> QED
    BY <2>1 DEF Init, TimerTypes
<1>3. Armed = {} /\ Due = {}
  BY <1>1 DEF Armed, Due, Range
<1>4. InOrder(Items(heap, ListHead), Left)
  <2>1. DOMAIN Items(heap, ListHead) = {}
    BY <1>1
  <2> QED
    BY <2>1 DEF InOrder
<1>5. ASSUME NEW t \in Periodic PROVE PeriodicOK(t)
  <2>1. target[t] = now /\ rest[t] = 0 /\ now \in Int
    BY <1>2, TypeFacts DEF Init
  <2>2. Signed(now - target[t]) = 0
    <3>1. now - target[t] = 0 /\ 0 \in Range31
      BY <2>1, WordFacts DEF Range31
    <3> QED
      BY <3>1, SignedSmall
  <2> QED
    BY <1>3, <2>1, <2>2 DEF PeriodicOK
<1> QED
  BY <1>1, <1>2, <1>3, <1>4, <1>5 DEF ITimer, PeriodicInv

LEMMA ITimerAfter ==
  ASSUME TimerTypes', NEW a, NEW d, NEW L, Becomes(a, d, L), InOrder(a, L),
         stage' = "off" => d = <<>>,
         \A u \in Range(a) : L[u] \in Earliest' .. MaxTicks,
         \A p \in Periodic : PeriodicOK(p)'
  PROVE  ITimer'
BY DEF ITimer, Becomes, PeriodicInv

(* Steps that do not concern the timer of the periodic task p.             *)
LEMMA PeriodicKept ==
  ASSUME NEW p \in Periodic, PeriodicOK(p), now' = now, timeout'[p] = timeout[p],
         target'[p] = target[p], rest'[p] = rest[p],
         p \in Armed' <=> p \in Armed, p \in Due' => p \in Due,
         p \in Armed => Left'[p] = Left[p] /\ Left[p] > Earliest'
  PROVE  PeriodicOK(p)'
BY DEF PeriodicOK

LEMMA StartKeeps ==
  ASSUME ITimer, Open, NEW t \in Timer, NEW n \in 0 .. MaxTicks, Start(t, n),
         now' = now, stage' = stage, TimerTypes',
         \A p \in Periodic : p # t => rest'[p] = rest[p] /\ target'[p] = target[p],
         t \in Periodic => PeriodicOK(t)'
  PROVE  ITimer'
<1> DEFINE L == [Left EXCEPT ![t] = n]
           a == InsertTimer(Without(Items(heap, ListHead), t), t, L)
           d == Without(Items(heap, DueHead), t)
<1>0. stage # "check" /\ Earliest = 0 /\ Earliest' = 0
  BY DEF Open, Earliest
<1>1. /\ Becomes(a, d, L) /\ InOrder(a, L)
      /\ \A u : u \in Range(a) <=> u \in Armed \/ u = t
      /\ \A u : u \in Due' <=> u \in Due /\ u # t
      /\ timeout' = [timeout EXCEPT ![t] = (now + n) % Range32]
  BY <1>0, StartEffect
<1>2. /\ TimerTypes /\ Left \in [Timer -> Int] /\ \A u \in Armed : u \in Timer
      /\ \A u \in Armed : Left[u] \in 0 .. MaxTicks
      /\ \A p \in Periodic : PeriodicOK(p) /\ p \in Timer
      /\ Items(heap, DueHead) \in Seq(Timer)
      /\ stage = "off" => Items(heap, DueHead) = <<>>
  BY <1>0, ArmedFacts, LeftIs, NodeFacts DEF ITimer, PeriodicInv
<1>3. L[t] = n /\ \A u \in Timer : u # t => L[u] = Left[u]
  BY <1>2
<1>4. stage' = "off" => d = <<>>
  BY <1>2, WithoutProperties
<1> HIDE DEF L, a, d
<1>5. \A u \in Range(a) : L[u] \in Earliest' .. MaxTicks
  BY <1>0, <1>1, <1>2, <1>3
<1>6. ASSUME NEW p \in Periodic PROVE PeriodicOK(p)'
  <2>1. CASE p = t
    BY <2>1
  <2>2. CASE p # t
    <3>1. PeriodicOK(p) /\ p \in Timer /\ timeout'[p] = timeout[p]
      BY <1>1, <1>2, <2>2 DEF TimerTypes
    <3>2. p \in Armed' <=> p \in Armed
      BY <1>1, <2>2 DEF Becomes
    <3>3. Left'[p] = Left[p]
      BY <1>1, <1>3, <2>2, <3>1 DEF Becomes
    <3>4. p \in Armed => Left[p] > Earliest'
      BY <1>0, <3>1 DEF PeriodicOK
    <3> QED
      BY <1>1, <2>2, <3>1, <3>2, <3>3, <3>4, PeriodicKept
  <2> QED
    BY <2>1, <2>2
<1> QED
  BY <1>1, <1>4, <1>5, <1>6, ITimerAfter

(* yr_timer_start of a timer takes it to a word.                           *)
LEMMA StartTypes ==
  ASSUME TimerTypes, NEW t \in Timer, NEW n \in 0 .. MaxTicks, Start(t, n)
  PROVE  timeout' \in [Timer -> Word]
<1>1. timeout' = [timeout EXCEPT ![t] = (now + n) % Range32]
  BY DEF Start
<1>2. (now + n) % Range32 \in Word
  <2>1. now + n \in Int
    BY TypeFacts, WordFacts
  <2> QED
    BY ONLY <2>1, WordOf
<1> QED
  BY <1>1, <1>2 DEF TimerTypes

LEMMA StartTimerKeeps ==
  ASSUME ITimer, NEW t \in Timer \ Periodic, NEW n \in 0 .. MaxTicks, StartTimer(t, n)
  PROVE  ITimer'
<1>1. /\ Open /\ Start(t, n) /\ now' = now /\ stage' = stage
      /\ rest' = rest /\ target' = target
  BY DEF StartTimer, handlerVars, taskVars
<1>2. TimerTypes'
  BY <1>1, StartTypes DEF ITimer, TimerTypes
<1> QED
  BY <1>1, <1>2, StartKeeps

LEMMA StopTimerKeeps ==
  ASSUME ITimer, NEW t \in Timer \ Periodic, StopTimer(t)
  PROVE  ITimer'
<1> DEFINE L == [Left EXCEPT ![t] = 0]
           a == Without(Items(heap, ListHead), t)
           d == Without(Items(heap, DueHead), t)
<1>0. /\ Earliest' = Earliest
      /\ heap' = ListDeleteSelf(heap, t) /\ now' = now /\ timeout' = timeout
      /\ rest' = rest /\ target' = target /\ stage' = stage
  BY DEF StopTimer, handlerVars, taskVars, Earliest
<1>1. /\ Becomes(a, d, L) /\ InOrder(a, L)
      /\ \A u : u \in Range(a) <=> u \in Armed /\ u # t
      /\ \A u : u \in Due' <=> u \in Due /\ u # t
  BY <1>0, StopEffect
<1>2. /\ TimerTypes /\ Left \in [Timer -> Int] /\ \A u \in Armed : u \in Timer
      /\ \A u \in Armed : Left[u] \in Earliest .. MaxTicks
      /\ \A p \in Periodic : PeriodicOK(p) /\ p \in Timer
      /\ Items(heap, DueHead) \in Seq(Timer)
      /\ stage = "off" => Items(heap, DueHead) = <<>>
  BY ArmedFacts, LeftIs, NodeFacts DEF ITimer, PeriodicInv
<1>3. \A u \in Timer : u # t => L[u] = Left[u]
  BY <1>2
<1>4. stage' = "off" => d = <<>>
  BY <1>0, <1>2, WithoutProperties
<1> HIDE DEF L, a, d
<1>5. \A u \in Range(a) : L[u] \in Earliest' .. MaxTicks
  BY <1>0, <1>1, <1>2, <1>3
<1>6. ASSUME NEW p \in Periodic PROVE PeriodicOK(p)'
  <2>1. PeriodicOK(p) /\ p \in Timer /\ p # t
    BY <1>2
  <2>2. p \in Armed' <=> p \in Armed
    BY <1>1, <2>1 DEF Becomes
  <2>3. Left'[p] = Left[p]
    BY <1>1, <1>3, <2>1 DEF Becomes
  <2>4. p \in Armed => Left[p] > Earliest'
    BY <1>0, <2>1 DEF PeriodicOK
  <2> QED
    BY <1>0, <1>1, <2>1, <2>2, <2>3, <2>4, PeriodicKept
<1>7. TimerTypes'
  BY <1>0, <1>2 DEF TimerTypes
<1> QED
  BY <1>1, <1>4, <1>5, <1>6, <1>7, ITimerAfter

(* A step that touches neither lists nor time.                             *)
LEMMA NoEffectKeeps ==
  ASSUME ITimer, heap' = heap, now' = now, timeout' = timeout, TimerTypes',
         stage' = "off" => Items(heap, DueHead) = <<>>,
         \A u \in Armed : Left[u] \in Earliest' .. MaxTicks,
         \A p \in Periodic : PeriodicOK(p)'
  PROVE  ITimer'
<1>1. Becomes(Items(heap, ListHead), Items(heap, DueHead), Left)
  BY NoEffect
<1>2. InOrder(Items(heap, ListHead), Left) /\ Armed = Range(Items(heap, ListHead))
  BY DEF ITimer, Armed
<1> QED
  BY <1>1, <1>2, ITimerAfter

LEMMA UntilReadKeeps ==
  ASSUME ITimer, NEW t \in Periodic, NEW inc \in 0 .. MaxTicks, UntilRead(t, inc)
  PROVE  ITimer'
<1> DEFINE next == (target[t] + inc) % Range32
           s    == Signed(next - now)
<1>0. /\ stage = "off" /\ rest[t] = 0 /\ heap.next[t] = t
      /\ target' = [target EXCEPT ![t] = next]
      /\ rest' = [rest EXCEPT ![t] = IF s <= 0 THEN 0 ELSE (next - now) % Range32]
      /\ heap' = heap /\ now' = now /\ timeout' = timeout /\ stage' = stage
      /\ Earliest = 0 /\ Earliest' = 0
  BY DEF UntilRead, handlerVars, Earliest
<1>1. /\ TimerTypes /\ t \in Timer /\ t \notin Armed /\ t \notin Due
      /\ \A p \in Periodic : PeriodicOK(p)
      /\ \A u \in Armed : Left[u] \in 0 .. MaxTicks
      /\ Items(heap, DueHead) = <<>>
  BY <1>0, ArmedFacts, NodeFacts DEF ITimer, PeriodicInv
<1>2. now \in Int /\ target[t] \in Int /\ inc \in Int /\ inc \in 0 .. HalfRange - 1
  BY <1>1, TypeFacts, WordFacts
<1>3. PICK e : e = Signed(now - target[t])
  OBVIOUS
<1>4. e \in 0 .. HalfRange - 1
  <2>1. e \in Range31
    BY <1>2, <1>3, SignedOf
  <2>2. e >= 0
    BY <1>0, <1>1, <1>3 DEF PeriodicOK
  <2> QED
    BY <2>1, <2>2, WordFacts DEF Range31
<1>5. next \in Word /\ next \in Int
  <2>1. target[t] + inc \in Int
    BY <1>2
  <2>2. next \in Word
    BY ONLY <2>1, WordOf
  <2> QED
    BY <2>2, WordFacts
<1>6. s = inc - e
  <2>1. target[t] + inc \in Int /\ now \in Int /\ target[t] - now \in Int
    BY <1>2
  <2>2. s = Signed((target[t] + inc) - now)
    BY ONLY <2>1, SignedWord
  <2>3. Signed(-(now - target[t])) = -e
    <3>1. now - target[t] \in Int /\ -Signed(now - target[t]) \in Range31
      BY <1>2, <1>3, <1>4, WordFacts DEF Range31
    <3> QED
      BY ONLY <3>1, <1>3, SignedNegative
  <2>4. -(now - target[t]) = target[t] - now
    BY <1>2
  <2>5. Signed(target[t] - now) + inc \in Range31
    BY <1>2, <1>4, <2>3, <2>4, WordFacts DEF Range31
  <2>6. Signed((target[t] - now) + inc) = Signed(target[t] - now) + inc
    BY ONLY <2>1, <2>5, <1>2, SignedSum
  <2>7. (target[t] - now) + inc = (target[t] + inc) - now
    BY <1>2
  <2> QED
    BY <1>2, <1>4, <2>2, <2>3, <2>4, <2>6, <2>7
<1> HIDE DEF next
<1>7. Signed(now - next) = e - inc
  <2>1. next - now \in Int /\ -Signed(next - now) \in Range31
    BY <1>2, <1>4, <1>5, <1>6, WordFacts DEF Range31
  <2>2. Signed(-(next - now)) = -s
    BY ONLY <2>1, SignedNegative
  <2>3. -(next - now) = now - next
    BY <1>2, <1>5
  <2> QED
    BY <1>2, <1>4, <1>6, <2>2, <2>3
<1>8. ASSUME ~ (s <= 0)
      PROVE  /\ (next - now) % Range32 = inc - e
             /\ inc - e \in 1 .. MaxTicks
             /\ Signed(now + (inc - e) - next) = 0
  <2>1. inc - e \in 1 .. MaxTicks /\ inc - e \in Range31 /\ inc - e \in Int
    BY <1>2, <1>4, <1>6, <1>8, WordFacts DEF Range31
  <2>2. next - now \in Int
    BY <1>2, <1>5
  <2>3. (next - now) % Range32 = inc - e
    <3>1. s = IF (next - now) % Range32 < HalfRange THEN (next - now) % Range32
              ELSE ((next - now) % Range32) - Range32
      BY DEF Signed
    <3>2. (next - now) % Range32 \in 0 .. Range32 - 1 /\ Range32 \in Nat
      BY <2>2, WordOf, RangeFacts DEF Word
    <3>3. s > 0
      BY <1>6, <1>8, <2>1
    <3> HIDE DEF s
    <3> QED
      BY <1>6, <3>1, <3>2, <3>3, RangeFacts
  <2>4. Signed((now - next) + (inc - e)) = Signed(now - next) + (inc - e)
    <3>1. now - next \in Int /\ inc - e \in Int /\ Signed(now - next) + (inc - e) \in Range31
      BY <1>2, <1>4, <1>5, <1>7, WordFacts DEF Range31
    <3> QED
      BY ONLY <3>1, SignedSum
  <2>5. (now - next) + (inc - e) = now + (inc - e) - next
    BY <1>2, <1>4, <1>5
  <2> QED
    BY <1>2, <1>4, <1>7, <2>1, <2>3, <2>4, <2>5
<1> HIDE DEF s
<1>9. PICK r : r = IF s <= 0 THEN 0 ELSE (next - now) % Range32
  OBVIOUS
<1>10. /\ r \in 0 .. MaxTicks
       /\ r = 0 => Signed(now - next) >= 0
       /\ r # 0 => Signed(now + r - next) = 0
  <2>1. CASE s <= 0
    BY <1>2, <1>4, <1>6, <1>7, <1>9, <2>1, WordFacts
  <2>2. CASE ~ (s <= 0)
    BY <1>8, <1>9, <2>2
  <2> QED
    BY <2>1, <2>2
<1>11. rest' = [rest EXCEPT ![t] = r]
  BY <1>0, <1>9
<1>12. TimerTypes'
  BY <1>0, <1>1, <1>5, <1>10, <1>11 DEF TimerTypes
<1>13. Armed' = Armed /\ Due' = Due /\ Left' = Left
  BY <1>0, NoEffect DEF Becomes
<1>14. ASSUME NEW p \in Periodic PROVE PeriodicOK(p)'
  <2>1. CASE p = t
    <3>1. rest'[t] = r /\ target'[t] = next
      BY <1>0, <1>1, <1>11 DEF TimerTypes
    <3> QED
      BY <1>0, <1>1, <1>10, <1>13, <2>1, <3>1, WordFacts DEF PeriodicOK
  <2>2. CASE p # t
    <3>1. rest'[p] = rest[p] /\ target'[p] = target[p] /\ timeout'[p] = timeout[p]
      BY <1>0, <1>1, <1>11, <2>2 DEF TimerTypes
    <3>2. PeriodicOK(p) /\ (p \in Armed => Left'[p] = Left[p] /\ Left[p] > Earliest')
      BY <1>0, <1>1, <1>13 DEF PeriodicOK
    <3> QED
      BY <1>0, <1>13, <3>1, <3>2, PeriodicKept
  <2> QED
    BY <2>1, <2>2
<1> QED
  BY <1>0, <1>1, <1>12, <1>14, NoEffectKeeps

LEMMA UntilSleepKeeps ==
  ASSUME ITimer, NEW t \in Periodic, UntilSleep(t)
  PROVE  ITimer' /\ rest[t] \in 0 .. MaxTicks /\ Start(t, rest[t])
<1>0. /\ Open /\ stage = "off" /\ Start(t, rest[t]) /\ rest[t] # 0
      /\ rest' = [rest EXCEPT ![t] = 0]
      /\ now' = now /\ stage' = stage /\ target' = target /\ Earliest' = 0
  BY DEF UntilSleep, handlerVars, Open, Earliest
<1>1. /\ TimerTypes /\ t \in Timer /\ rest[t] \in 0 .. MaxTicks /\ PeriodicOK(t)
      /\ now \in Int /\ target[t] \in Int /\ rest[t] \in Int
      /\ DOMAIN timeout = Timer /\ DOMAIN rest = Periodic
      /\ Left \in [Timer -> Int]
  BY NodeFacts, TypeFacts, LeftIs DEF ITimer, PeriodicInv, TimerTypes
<1>2. TimerTypes'
  <2>1. timeout' \in [Timer -> Word]
    BY <1>0, <1>1, StartTypes
  <2>2. 0 \in 0 .. MaxTicks
    BY WordFacts
  <2> QED
    BY <1>0, <1>1, <2>1, <2>2 DEF TimerTypes
<1>3. PeriodicOK(t)'
  <2> DEFINE L == [Left EXCEPT ![t] = rest[t]]
             a == InsertTimer(Without(Items(heap, ListHead), t), t, L)
  <2>1. /\ Becomes(a, Without(Items(heap, DueHead), t), L)
        /\ \A u : u \in Range(a) <=> u \in Armed \/ u = t
        /\ timeout' = [timeout EXCEPT ![t] = (now + rest[t]) % Range32]
    BY <1>0, <1>1, StartEffect
  <2>2. L[t] = rest[t]
    BY <1>1
  <2> HIDE DEF L, a
  <2>3. /\ t \in Armed' /\ Left'[t] > 0
        /\ rest'[t] = 0 /\ target'[t] = target[t]
        /\ timeout'[t] = (now + rest[t]) % Range32
    BY <1>0, <1>1, <2>1, <2>2 DEF Becomes
  <2>4. Signed(timeout'[t] - target'[t]) = Signed(now + rest[t] - target[t])
    <3>1. PICK x, y : x = now + rest[t] /\ y = target[t]
      OBVIOUS
    <3>2. x \in Int /\ y \in Int
      BY <1>1, <3>1
    <3>3. Signed((x % Range32) - y) = Signed(x - y)
      BY ONLY <3>2, SignedWord
    <3>4. timeout'[t] = x % Range32 /\ target'[t] = y
      BY <2>3, <3>1
    <3>5. now + rest[t] - target[t] = x - y
      BY <1>1, <3>1, <3>2
    <3> QED
      BY <3>3, <3>4, <3>5
  <2> QED
    BY <1>0, <1>1, <2>3, <2>4 DEF PeriodicOK
<1>4. \A p \in Periodic : p # t => rest'[p] = rest[p] /\ target'[p] = target[p]
  BY <1>0, <1>1
<1> QED
  BY <1>0, <1>1, <1>2, <1>3, <1>4, StartKeeps

LEMMA TickKeeps ==
  ASSUME ITimer, Tick
  PROVE  ITimer'
<1> DEFINE A == Items(heap, ListHead)
           L == [t \in Timer |-> IF t \in Armed THEN Left[t] - 1 ELSE 0]
<1>0. /\ stage = "off" /\ stage' = "check" /\ Earliest = 0 /\ Earliest' = -1
      /\ now' = (now + 1) % Range32
      /\ timeout' = timeout /\ target' = target /\ rest' = rest
      /\ \A p \in Periodic : InTime(p)
  BY DEF Tick, taskVars, Earliest
<1>1. /\ Becomes(A, Items(heap, DueHead), L) /\ InOrder(A, L)
      /\ Items(heap, DueHead) = <<>> /\ Armed = Range(A)
  BY TickEffect DEF Armed
<1>2. /\ TimerTypes /\ Left \in [Timer -> Int] /\ \A u \in Armed : u \in Timer
      /\ \A u \in Armed : Left[u] \in 0 .. MaxTicks
      /\ \A p \in Periodic : PeriodicOK(p) /\ p \in Timer
      /\ \A p \in Periodic : heap.next[p] # p <=> p \in Armed
  <2>1. Due = {}
    BY <1>1 DEF Due, Range
  <2> QED
    BY <1>0, <2>1, ArmedFacts, LeftIs, NodeFacts DEF ITimer, PeriodicInv
<1>3. TimerTypes'
  <2>1. now + 1 \in Int
    BY <1>2, TypeFacts
  <2>2. (now + 1) % Range32 \in Word
    BY ONLY <2>1, WordOf
  <2> QED
    BY <1>0, <1>2, <2>2 DEF TimerTypes
<1> HIDE DEF A
<1>4. \A u \in Range(A) : L[u] \in Earliest' .. MaxTicks
  <2>1. ASSUME NEW u \in Range(A) PROVE L[u] \in Earliest' .. MaxTicks
    <3>1. L[u] = Left[u] - 1 /\ Left[u] \in 0 .. MaxTicks
      BY <1>1, <1>2
    <3> QED
      BY <1>0, <3>1, WordFacts
  <2> QED
    BY <2>1
<1>5. ASSUME NEW p \in Periodic PROVE PeriodicOK(p)'
  <2>1. /\ now \in Int /\ target[p] \in Int /\ rest[p] \in Int /\ rest[p] >= 0
        /\ PeriodicOK(p) /\ InTime(p) /\ p \in Timer
    BY <1>0, <1>2, TypeFacts
  <2>2. Armed' = Armed /\ Due' = {}
    BY <1>1 DEF Becomes, Range
  <2>3. ASSUME NEW y \in Int, Signed(now - y) + 1 \in Range31
        PROVE  Signed(now' - y) = Signed(now - y) + 1
    <3>1. now - y \in Int /\ 1 \in Int /\ now + 1 \in Int
      BY <2>1
    <3>2. Signed((now - y) + 1) = Signed(now - y) + 1
      BY ONLY <3>1, <2>3, SignedSum
    <3>3. Signed(((now + 1) % Range32) - y) = Signed((now + 1) - y)
      BY ONLY <3>1, <2>3, SignedWord
    <3>4. (now - y) + 1 = (now + 1) - y
      BY <2>1
    <3> QED
      BY <1>0, <3>2, <3>3, <3>4
  <2>4. CASE p \in Armed
    <3>1. Left'[p] = Left[p] - 1 /\ Left[p] > 0 /\ Left[p] \in Int
      BY <1>0, <1>1, <1>2, <2>1, <2>4 DEF Becomes, PeriodicOK
    <3>2. Left'[p] > Earliest'
      BY <1>0, <3>1
    <3> QED
      BY <1>0, <2>1, <2>2, <2>4, <3>2 DEF PeriodicOK
  <2>5. CASE p \notin Armed /\ rest[p] = 0
    <3>1. PICK e : e = Signed(now - target[p])
      OBVIOUS
    <3>2. e >= 0 /\ e < HalfRange - 1
      BY <1>2, <2>1, <2>5, <3>1 DEF PeriodicOK, InTime
    <3>3. e \in Range31
      BY <2>1, <3>1, SignedOf
    <3>4. e + 1 \in Range31 /\ e + 1 >= 0
      BY <3>2, <3>3, WordFacts DEF Range31
    <3>5. Signed(now' - target[p]) = e + 1
      BY <2>1, <2>3, <3>1, <3>4
    <3> QED
      BY <1>0, <2>2, <2>5, <3>4, <3>5 DEF PeriodicOK
  <2>6. CASE rest[p] # 0
    <3>1. PICK y, e : y = target[p] - rest[p] /\ e = Signed(now - y)
      OBVIOUS
    <3>2. y \in Int /\ now - y = now + rest[p] - target[p]
      BY <2>1, <3>1
    <3>3. e \in 0 .. MaxDelay /\ e < MaxDelay
      BY <2>1, <2>6, <3>1, <3>2 DEF PeriodicOK, InTime
    <3>4. e + 1 \in Range31 /\ e + 1 \in 0 .. MaxDelay
      BY <3>3, WordFacts DEF Range31
    <3>5. Signed(now' - y) = e + 1
      BY <2>3, <3>1, <3>2, <3>4
    <3>6. now' - y = now' + rest[p] - target[p]
      <4>1. now' \in Int
        BY <1>3, WordFacts DEF TimerTypes
      <4> QED
        BY <2>1, <3>1, <4>1
    <3> QED
      BY <1>0, <2>1, <2>2, <2>6, <3>4, <3>5, <3>6 DEF PeriodicOK
  <2> QED
    BY <2>4, <2>5, <2>6
<1> HIDE DEF L
<1> QED
  BY <1>0, <1>1, <1>3, <1>4, <1>5, ITimerAfter

LEMMA ExpireKeeps ==
  ASSUME ITimer, Expire
  PROVE  ITimer'
<1> DEFINE A == Items(heap, ListHead)
           f == Head(A)
           L == [Left EXCEPT ![f] = 0]
           a == Tail(A)
           d == Append(Items(heap, DueHead), f)
<1>0. /\ stage = "check" /\ stage' = "check" /\ Earliest = -1 /\ Earliest' = -1
      /\ now' = now /\ timeout' = timeout /\ target' = target /\ rest' = rest
  BY DEF Expire, handlerVars, taskVars, Earliest
<1>1. /\ f \in Armed /\ Left[f] <= 0
      /\ Becomes(a, d, L) /\ InOrder(a, L)
      /\ \A u : u \in Range(a) <=> u \in Armed /\ u # f
      /\ \A u : u \in Due' <=> u \in Due \/ u = f
  BY ExpireEffect
<1>2. /\ TimerTypes /\ Left \in [Timer -> Int] /\ \A u \in Armed : u \in Timer
      /\ \A u \in Armed : Left[u] \in -1 .. MaxTicks
      /\ \A p \in Periodic : PeriodicOK(p) /\ p \in Timer
      /\ \A u \in Timer : Left[u] = IF u \in Armed THEN Signed(timeout[u] - now) ELSE 0
  BY <1>0, ArmedFacts, LeftIs, NodeFacts DEF ITimer, PeriodicInv
<1>3. \A u \in Timer : u # f => L[u] = Left[u]
  BY <1>2
<1> HIDE DEF L, a, d, f
<1>4. \A u \in Range(a) : L[u] \in Earliest' .. MaxTicks
  BY <1>0, <1>1, <1>2, <1>3
<1>5. TimerTypes'
  BY <1>0, <1>2 DEF TimerTypes
<1>6. ASSUME NEW p \in Periodic PROVE PeriodicOK(p)'
  <2>1. PeriodicOK(p) /\ p \in Timer
    BY <1>2
  <2>2. CASE p # f
    <3>1. (p \in Armed' <=> p \in Armed) /\ (p \in Due' => p \in Due)
      BY <1>1, <2>2 DEF Becomes
    <3>2. p \in Armed => Left'[p] = Left[p] /\ Left[p] > Earliest'
      BY <1>0, <1>1, <1>3, <2>1, <2>2 DEF Becomes, PeriodicOK
    <3> QED
      BY <1>0, <2>1, <3>1, <3>2, PeriodicKept
  <2>3. CASE p = f
    <3>1. /\ p \in Armed /\ Left[p] = 0 /\ rest[p] = 0
          /\ Signed(timeout[p] - target[p]) \in 0 .. MaxDelay
      BY <1>0, <1>1, <1>2, <2>1, <2>3 DEF PeriodicOK
    <3>2. timeout[p] \in Int /\ now \in Int /\ target[p] \in Int
      BY <1>2, <2>1, TypeFacts
    <3>3. Signed(now - target[p]) >= 0
      <4>1. PICK e : e = Signed(timeout[p] - target[p])
        OBVIOUS
      <4>2. e \in 0 .. MaxDelay /\ e \in Range31 /\ e >= 0 /\ e \in Int
        BY <3>1, <4>1, WordFacts DEF Range31
      <4>3. Signed(timeout[p] - now) = 0
        BY <1>2, <2>1, <3>1
      <4>4. /\ Congruent(0, timeout[p] - now) /\ Congruent(e, timeout[p] - target[p])
        BY <3>2, <4>1, <4>3, SignedOf
      <4>5. Congruent(e - 0, (timeout[p] - target[p]) - (timeout[p] - now))
        BY <3>2, <4>2, <4>4, CongruentDiff, SMTT(30)
      <4>6. e - 0 = e /\ (timeout[p] - target[p]) - (timeout[p] - now) = now - target[p]
        BY <3>2, <4>2
      <4>7. Congruent(now - target[p], e)
        BY <3>2, <4>2, <4>5, <4>6, CongruentSym
      <4>8. Signed(now - target[p]) = e
        BY <3>2, <4>2, <4>7, SignedIs
      <4> QED
        BY <4>2, <4>8
    <3>4. p \notin Armed'
      BY <1>1, <2>3 DEF Becomes
    <3> QED
      BY <1>0, <3>1, <3>3, <3>4 DEF PeriodicOK
  <2> QED
    BY <2>2, <2>3
<1> QED
  BY <1>0, <1>1, <1>4, <1>5, <1>6, ITimerAfter

LEMMA AllExpiredKeeps ==
  ASSUME ITimer, AllExpired
  PROVE  ITimer'
<1> DEFINE A == Items(heap, ListHead)
<1>0. /\ stage' = "fire" /\ Earliest' = 0 /\ heap' = heap
      /\ now' = now /\ timeout' = timeout /\ target' = target /\ rest' = rest
  BY DEF AllExpired, taskVars, Earliest
<1>1. \A i \in DOMAIN A : Left[A[i]] > 0
  BY AllExpiredEffect
<1>2. /\ TimerTypes /\ Armed = Range(A)
      /\ \A u \in Armed : Left[u] \in Earliest .. MaxTicks
      /\ Earliest \in Int /\ MaxTicks \in Int
      /\ \A p \in Periodic : PeriodicOK(p)
  BY WordFacts DEF ITimer, PeriodicInv, Armed, Earliest
<1>3. \A u \in Armed : Left[u] > 0
  BY <1>1, <1>2 DEF Range
<1>4. \A u \in Armed : Left[u] \in Earliest' .. MaxTicks
  BY <1>0, <1>2, <1>3
<1>5. TimerTypes'
  BY <1>0, <1>2 DEF TimerTypes
<1>6. Armed' = Armed /\ Due' = Due /\ Left' = Left
  BY <1>0, NoEffect DEF Becomes
<1>7. ASSUME NEW p \in Periodic PROVE PeriodicOK(p)'
  <2>1. p \in Armed => Left'[p] = Left[p] /\ Left[p] > Earliest'
    BY <1>0, <1>3, <1>6
  <2> QED
    BY <1>0, <1>2, <1>6, <2>1, PeriodicKept
<1> QED
  BY <1>0, <1>4, <1>5, <1>7, NoEffectKeeps

LEMMA CallKeeps ==
  ASSUME ITimer, Call
  PROVE  ITimer'
<1> DEFINE A == Items(heap, ListHead)
           d == Tail(Items(heap, DueHead))
<1>0. /\ stage' = "callback" /\ Earliest = 0 /\ Earliest' = 0
      /\ now' = now /\ timeout' = timeout /\ target' = target /\ rest' = rest
  BY DEF Call, taskVars, Earliest
<1>1. /\ Becomes(A, d, Left)
      /\ \A u : u \in Due' => u \in Due
  BY CallEffect
<1>2. /\ TimerTypes /\ Armed = Range(A) /\ InOrder(A, Left)
      /\ \A u \in Armed : Left[u] \in 0 .. MaxTicks
      /\ \A p \in Periodic : PeriodicOK(p)
  BY <1>0 DEF ITimer, PeriodicInv, Armed
<1>3. TimerTypes'
  BY <1>0, <1>2 DEF TimerTypes
<1> HIDE DEF A, d
<1>4. Armed' = Armed /\ Left' = Left
  BY <1>1, <1>2 DEF Becomes
<1>5. ASSUME NEW p \in Periodic PROVE PeriodicOK(p)'
  <2>1. p \in Armed => Left'[p] = Left[p] /\ Left[p] > Earliest'
    BY <1>0, <1>2, <1>4 DEF PeriodicOK
  <2> QED
    BY <1>0, <1>1, <1>2, <1>4, <2>1, PeriodicKept
<1>6. stage' # "off" /\ \A u \in Range(A) : Left[u] \in Earliest' .. MaxTicks
  BY <1>0, <1>2
<1> QED
  BY <1>1, <1>2, <1>3, <1>5, <1>6, ITimerAfter

LEMMA HandlerKeeps ==
  ASSUME ITimer, Return \/ TickEnd
  PROVE  ITimer'
<1>0. /\ Earliest = 0 /\ Earliest' = 0 /\ heap' = heap
      /\ now' = now /\ timeout' = timeout /\ target' = target /\ rest' = rest
      /\ stage' \in {"off", "fire"}
  BY DEF Return, TickEnd, taskVars, Earliest
<1>1. stage' = "off" => Items(heap, DueHead) = <<>>
  BY FirstIs DEF Return, TickEnd
<1>2. /\ TimerTypes /\ \A u \in Armed : Left[u] \in 0 .. MaxTicks
      /\ \A p \in Periodic : PeriodicOK(p)
  BY <1>0 DEF ITimer, PeriodicInv
<1>3. TimerTypes'
  BY <1>0, <1>2 DEF TimerTypes
<1>4. Armed' = Armed /\ Due' = Due /\ Left' = Left
  BY <1>0, NoEffect DEF Becomes
<1>5. ASSUME NEW p \in Periodic PROVE PeriodicOK(p)'
  <2>1. p \in Armed => Left'[p] = Left[p] /\ Left[p] > Earliest'
    BY <1>0, <1>2, <1>4 DEF PeriodicOK
  <2> QED
    BY <1>0, <1>2, <1>4, <2>1, PeriodicKept
<1> QED
  BY <1>0, <1>1, <1>2, <1>3, <1>5, NoEffectKeeps

LEMMA ITimerStutters ==
  ASSUME ITimer, UNCHANGED vars
  PROVE  ITimer'
<1>0. /\ Earliest' = Earliest /\ heap' = heap
      /\ now' = now /\ timeout' = timeout /\ target' = target /\ rest' = rest /\ stage' = stage
  BY DEF vars, handlerVars, taskVars, Earliest
<1>1. Armed' = Armed /\ Due' = Due /\ Left' = Left
  BY <1>0, NoEffect DEF Becomes
<1>2. TimerTypes' /\ PeriodicInv'
  BY <1>0, <1>1 DEF ITimer, TimerTypes, PeriodicInv, PeriodicOK
<1>3. /\ stage' = "off" => Items(heap, DueHead) = <<>>
      /\ \A u \in Armed : Left[u] \in Earliest' .. MaxTicks
      /\ \A p \in Periodic : PeriodicOK(p)'
  BY <1>0, <1>2 DEF ITimer, PeriodicInv
<1> QED
  BY <1>0, <1>2, <1>3, NoEffectKeeps

LEMMA ITimerStep == ITimer /\ [Next]_vars => ITimer'
<1> SUFFICES ASSUME ITimer, [Next]_vars PROVE ITimer'
  OBVIOUS
<1>1. ASSUME NEW t \in Timer \ Periodic, NEW n \in 0 .. MaxTicks, StartTimer(t, n) PROVE ITimer'
  BY <1>1, StartTimerKeeps
<1>2. ASSUME NEW t \in Timer \ Periodic, StopTimer(t) PROVE ITimer'
  BY <1>2, StopTimerKeeps
<1>3. ASSUME NEW t \in Periodic, UntilSleep(t) PROVE ITimer'
  BY <1>3, UntilSleepKeeps
<1>4. ASSUME NEW t \in Periodic, NEW inc \in 0 .. MaxTicks, UntilRead(t, inc) PROVE ITimer'
  BY <1>4, UntilReadKeeps
<1>5. ASSUME Tick PROVE ITimer'
  BY <1>5, TickKeeps
<1>6. ASSUME Expire PROVE ITimer'
  BY <1>6, ExpireKeeps
<1>7. ASSUME AllExpired PROVE ITimer'
  BY <1>7, AllExpiredKeeps
<1>8. ASSUME Call PROVE ITimer'
  BY <1>8, CallKeeps
<1>9. ASSUME Return \/ TickEnd PROVE ITimer'
  BY <1>9, HandlerKeeps
<1>10. ASSUME UNCHANGED vars PROVE ITimer'
  BY <1>10, ITimerStutters
<1> QED
  BY <1>1, <1>2, <1>3, <1>4, <1>5, <1>6, <1>7, <1>8, <1>9, <1>10 DEF Next

-----------------------------------------------------------------------------
(* The theorems                                                            *)

(* The inductive invariant of timer.c.                                     *)
THEOREM TimerInvariant == Spec => []ITimer
BY ITimerInit, ITimerStep, PTL DEF Spec

(* After every sequence of starts, stops, callbacks and ticks, all         *)
(* pointers come in pairs, and a timer is in yr_timer_list, or in          *)
(* timeout_list, or points to itself: no callback that stops or restarts   *)
(* an expired timer breaks the walk of yr_timer_check.                     *)
THEOREM TimerListsIntact == Spec => []ListsIntact
<1>1. ITimer => ListsIntact
  <2> SUFFICES ASSUME ITimer PROVE ListsIntact
    OBVIOUS
  <2>1. WellLinked(heap)
    BY DEF ITimer, Represents
  <2> QED
    BY <2>1, ArmedFacts DEF ListsIntact
<1> QED
  BY <1>1, TimerInvariant, PTL

(* A task in yr_task_sleep_until never wakes before its target, however    *)
(* many ticks pass between its two critical sections, and it wakes at most *)
(* as many ticks late.                                                     *)
THEOREM SleepNeverEarly == Spec => []NeverEarly
<1>1. ITimer => NeverEarly
  BY DEF ITimer, PeriodicInv, PeriodicOK, NeverEarly
<1> QED
  BY <1>1, TimerInvariant, PTL

(* Module Countdown has its own copies of the operators of RunQueue.       *)
LEMMA SameOperators ==
  /\ \A q : Abstract!Range(q) = Range(q)
  /\ \A q, t : Abstract!Without(q, t) = Without(q, t)
  /\ \A q, t, L : Abstract!InsertTimer(q, t, L) = InsertTimer(q, t, L)
<1>1. \A q : Abstract!Range(q) = Range(q)
  BY DEF Abstract!Range, Range
<1>2. \A q, i : Abstract!RemoveAt(q, i) = RemoveAt(q, i)
  BY DEF Abstract!RemoveAt, RemoveAt
<1>3. ASSUME NEW q, NEW t PROVE Abstract!Without(q, t) = Without(q, t)
  BY <1>1, <1>2 DEF Abstract!Without, Without
<1>4. \A q, i, t : Abstract!InsertAt(q, i, t) = InsertAt(q, i, t)
  BY DEF Abstract!InsertAt, InsertAt
<1>5. \A S : Abstract!Min(S) = Min(S)
  BY DEF Abstract!Min, Min
<1>6. ASSUME NEW q, NEW t, NEW P PROVE Abstract!InsertBefore(q, t, P) = InsertBefore(q, t, P)
  BY <1>4, <1>5 DEF Abstract!InsertBefore, InsertBefore
<1>7. ASSUME NEW q, NEW t, NEW L PROVE Abstract!InsertTimer(q, t, L) = InsertTimer(q, t, L)
  BY <1>6 DEF Abstract!InsertTimer, InsertTimer
<1> QED
  BY <1>1, <1>3, <1>7

(* Each step of timer.c is the step of Countdown of the same name.         *)
LEMMA ArmStep ==
  ASSUME ITimer, Open, NEW t \in Timer, NEW n \in 0 .. MaxTicks, Start(t, n),
         now' = now, UNCHANGED handlerVars
  PROVE  Abstract!Arm(t, n)
<1> DEFINE L == [Left EXCEPT ![t] = n]
           a == Without(Items(heap, ListHead), t)
<1>1. stage # "check"
  BY DEF Open
<1>2. Becomes(InsertTimer(a, t, L), Without(Items(heap, DueHead), t), L)
  BY <1>1, StartEffect
<1>3. Left' = L
  BY <1>2 DEF Becomes
<1>4. Items(heap, DueHead)' = Abstract!Without(Items(heap, DueHead), t)
  BY <1>2, SameOperators DEF Becomes
<1>5. Items(heap, ListHead)'
        = Abstract!InsertTimer(Abstract!Without(Items(heap, ListHead), t), t, Left')
  BY <1>2, <1>3, SameOperators DEF Becomes
<1>6. UNCHANGED <<firing, stage>> /\ Abstract!Open
  BY DEF handlerVars, Open, Abstract!Open
<1> QED
  BY <1>3, <1>4, <1>5, <1>6 DEF Abstract!Arm

LEMMA DisarmStep ==
  ASSUME ITimer, NEW t \in Timer, StopTimer(t)
  PROVE  Abstract!Disarm(t)
<1> DEFINE L == [Left EXCEPT ![t] = 0]
<1>1. /\ heap' = ListDeleteSelf(heap, t) /\ now' = now /\ timeout' = timeout
      /\ UNCHANGED <<firing, stage>> /\ Abstract!Open
  BY DEF StopTimer, handlerVars, Open, Abstract!Open
<1>2. Becomes(Without(Items(heap, ListHead), t), Without(Items(heap, DueHead), t), L)
  BY <1>1, StopEffect
<1>3. /\ Left' = L
      /\ Items(heap, DueHead)' = Abstract!Without(Items(heap, DueHead), t)
      /\ Items(heap, ListHead)' = Abstract!Without(Items(heap, ListHead), t)
  BY <1>2, SameOperators DEF Becomes
<1> QED
  BY <1>1, <1>3 DEF Abstract!Disarm

LEMMA TickStep ==
  ASSUME ITimer, Tick
  PROVE  Abstract!Tick
<1> DEFINE A == Items(heap, ListHead)
           L == [t \in Timer |-> IF t \in Armed THEN Left[t] - 1 ELSE 0]
<1>1. Becomes(A, Items(heap, DueHead), L)
  BY TickEffect
<1>2. A' = A /\ Items(heap, DueHead)' = Items(heap, DueHead) /\ Left' = L
  BY <1>1 DEF Becomes
<1>3. Armed = Abstract!Range(A)
  BY SameOperators DEF Armed
<1>4. Left' = [t \in Timer |-> IF t \in Abstract!Range(A) THEN Left[t] - 1 ELSE 0]
  BY <1>2, <1>3
<1>5. stage = "off" /\ stage' = "check" /\ firing' = firing
  BY DEF Tick
<1> QED
  BY <1>2, <1>4, <1>5 DEF Abstract!Tick

LEMMA ExpireStep ==
  ASSUME ITimer, Expire
  PROVE  Abstract!Expire
<1> DEFINE A == Items(heap, ListHead)
           D == Items(heap, DueHead)
           L == [Left EXCEPT ![Head(A)] = 0]
<1>1. A # <<>> /\ Left[Head(A)] <= 0 /\ Becomes(Tail(A), Append(D, Head(A)), L)
  BY ExpireEffect
<1>2. A' = Tail(A) /\ D' = Append(D, Head(A)) /\ Left' = L
  BY <1>1 DEF Becomes
<1>3. stage = "check" /\ UNCHANGED <<firing, stage>>
  BY DEF Expire, handlerVars
<1> QED
  BY <1>1, <1>2, <1>3 DEF Abstract!Expire

LEMMA CallStep ==
  ASSUME ITimer, Call
  PROVE  Abstract!Call
<1> DEFINE A == Items(heap, ListHead)
           D == Items(heap, DueHead)
<1>1. D # <<>> /\ firing' = Head(D) /\ Becomes(A, Tail(D), Left)
  BY CallEffect
<1>2. A' = A /\ D' = Tail(D) /\ Left' = Left
  BY <1>1 DEF Becomes
<1>3. stage = "fire" /\ stage' = "callback"
  BY DEF Call
<1> QED
  BY <1>1, <1>2, <1>3 DEF Abstract!Call

LEMMA Stuttering ==
  ASSUME ITimer, heap' = heap, now' = now, timeout' = timeout
  PROVE  /\ Items(heap, ListHead)' = Items(heap, ListHead)
         /\ Items(heap, DueHead)' = Items(heap, DueHead)
         /\ Left' = Left
BY NoEffect DEF Becomes

LEMMA CountdownStep == ITimer /\ [Next]_vars => [Abstract!Next]_(Abstract!vars)
<1> SUFFICES ASSUME ITimer, [Next]_vars PROVE [Abstract!Next]_(Abstract!vars)
  OBVIOUS
<1>1. ASSUME NEW t \in Timer \ Periodic, NEW n \in 0 .. MaxTicks, StartTimer(t, n)
      PROVE  Abstract!Next
  <2>1. Abstract!Arm(t, n)
    BY <1>1, ArmStep DEF StartTimer
  <2> QED
    BY <2>1 DEF Abstract!Next
<1>2. ASSUME NEW t \in Timer \ Periodic, StopTimer(t) PROVE Abstract!Next
  <2>1. Abstract!Disarm(t)
    BY <1>2, DisarmStep
  <2> QED
    BY <2>1 DEF Abstract!Next
<1>3. ASSUME NEW t \in Periodic, UntilSleep(t) PROVE Abstract!Next
  <2>1. rest[t] \in 0 .. MaxTicks /\ t \in Timer
    BY <1>3, UntilSleepKeeps, NodeFacts
  <2>2. Open /\ Start(t, rest[t]) /\ now' = now /\ UNCHANGED handlerVars
    BY <1>3 DEF UntilSleep, Open
  <2>3. Abstract!Arm(t, rest[t])
    BY <2>1, <2>2, ArmStep
  <2> QED
    BY <2>1, <2>3 DEF Abstract!Next
<1>4. ASSUME NEW t \in Periodic, NEW inc \in 0 .. MaxTicks, UntilRead(t, inc)
      PROVE  UNCHANGED Abstract!vars
  BY <1>4, Stuttering DEF UntilRead, handlerVars, Abstract!vars
<1>5. ASSUME Tick PROVE Abstract!Next
  BY <1>5, TickStep DEF Abstract!Next
<1>6. ASSUME Expire PROVE Abstract!Next
  BY <1>6, ExpireStep DEF Abstract!Next
<1>7. ASSUME AllExpired PROVE Abstract!Next
  <2>1. Abstract!AllExpired
    BY <1>7, AllExpiredEffect, Stuttering DEF AllExpired, Abstract!AllExpired
  <2> QED
    BY <2>1 DEF Abstract!Next
<1>8. ASSUME Call PROVE Abstract!Next
  BY <1>8, CallStep DEF Abstract!Next
<1>9. ASSUME Return PROVE Abstract!Next
  <2>1. Abstract!Return
    BY <1>9, Stuttering DEF Return, Abstract!Return
  <2> QED
    BY <2>1 DEF Abstract!Next
<1>10. ASSUME TickEnd PROVE Abstract!Next
  <2>1. Abstract!TickEnd
    BY <1>10, Stuttering, FirstIs DEF TickEnd, Abstract!TickEnd
  <2> QED
    BY <2>1 DEF Abstract!Next
<1>11. ASSUME UNCHANGED vars PROVE UNCHANGED Abstract!vars
  BY <1>11, Stuttering DEF vars, handlerVars, Abstract!vars
<1> QED
  BY <1>1, <1>2, <1>3, <1>4, <1>5, <1>6, <1>7, <1>8, <1>9, <1>10, <1>11 DEF Next

(* timer.c implements Countdown: although the counter wraps around and the *)
(* lists are pointers, a timer is called at the tick it is meant for and   *)
(* in its turn, and never after it has been stopped.                       *)
THEOREM TimerCountsDown == Spec => CountsDown
<1>1. Init => Abstract!Init
  <2> SUFFICES ASSUME Init PROVE Abstract!Init
    OBVIOUS
  <2>1. Items(heap, ListHead) = <<>> /\ Items(heap, DueHead) = <<>>
    BY RepresentsInit, RepresentsItems
  <2>2. Armed = {}
    BY <2>1 DEF Armed, Range
  <2>3. Left = [t \in Timer |-> 0]
    BY <2>2 DEF Left
  <2> QED
    BY <2>1, <2>3 DEF Init, Abstract!Init
<1> QED
  BY <1>1, CountdownStep, TimerInvariant, PTL DEF Spec, CountsDown, Abstract!Spec
=============================================================================
