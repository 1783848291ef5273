---------------------------- MODULE Lists_proofs ----------------------------
(***************************************************************************)
(* What the operators of RunQueue return, for every set of tasks: the      *)
(* proofs about the kernel cite these lemmas and do not look into the      *)
(* sequences again.  The last section is about the linked lists behind     *)
(* them: the functions of YrList keep all pointers in pairs, for every set *)
(* of nodes.                                                               *)
(***************************************************************************)
EXTENDS RunQueue, YrList, SequenceTheorems, FiniteSetTheorems, TLAPS

(* Taking one element out of a sequence moves the later ones up.           *)
LEMMA RemoveAtProperties ==
  ASSUME NEW S, NEW s \in Seq(S), NEW i \in 1 .. Len(s)
  PROVE  /\ RemoveAt(s, i) \in Seq(S)
         /\ Len(RemoveAt(s, i)) = Len(s) - 1
         /\ \A j \in 1 .. Len(s) - 1 :
              RemoveAt(s, i)[j] = IF j < i THEN s[j] ELSE s[j + 1]
<1> DEFINE front == SubSeq(s, 1, i - 1)
           back  == SubSeq(s, i + 1, Len(s))
<1>0. Len(s) \in Nat
  BY LenProperties
<1>1. /\ front \in Seq(S)
      /\ Len(front) = i - 1
      /\ \A j \in 1 .. i - 1 : front[j] = s[j]
  <2>1. \A j \in 1 .. i - 1 : s[j] \in S
    BY ElementOfSeq, <1>0
  <2> QED
    BY <1>0, <2>1, SubSeqProperties
<1>2. /\ back \in Seq(S)
      /\ Len(back) = Len(s) - i
      /\ \A j \in 1 .. Len(s) - i : back[j] = s[i + j]
  <2>1. \A j \in i + 1 .. Len(s) : s[j] \in S
    BY ElementOfSeq, <1>0
  <2> QED
    BY <1>0, <2>1, SubSeqProperties
<1>3. RemoveAt(s, i) = front \o back
  BY DEF RemoveAt
<1> HIDE DEF front, back
<1>4. /\ front \o back \in Seq(S)
      /\ Len(front \o back) = Len(s) - 1
      /\ \A j \in 1 .. Len(s) - 1 :
           (front \o back)[j] = IF j <= i - 1 THEN front[j] ELSE back[j - (i - 1)]
  <2>1. /\ front \o back \in Seq(S)
        /\ Len(front \o back) = Len(front) + Len(back)
        /\ \A j \in 1 .. Len(front) + Len(back) :
             (front \o back)[j] =
               IF j <= Len(front) THEN front[j] ELSE back[j - Len(front)]
    <3>1. front \in Seq(S) /\ back \in Seq(S)
      BY <1>1, <1>2
    <3> QED
      BY ONLY <3>1, ConcatProperties, Zenon
  <2>2. Len(front) + Len(back) = Len(s) - 1
    BY <1>0, <1>1, <1>2
  <2> QED
    BY <1>1, <2>1, <2>2
<1>5. ASSUME NEW j \in 1 .. Len(s) - 1
      PROVE  (front \o back)[j] = IF j < i THEN s[j] ELSE s[j + 1]
  BY <1>0, <1>1, <1>2, <1>4
<1> QED
  BY <1>3, <1>4, <1>5

LEMMA WithoutPlaces ==
  ASSUME NEW S, NEW s \in Seq(S), NEW t \in Range(s)
  PROVE  \E i \in 1 .. Len(s) :
           /\ s[i] = t
           /\ Without(s, t) \in Seq(S)
           /\ DOMAIN Without(s, t) = 1 .. Len(s) - 1
           /\ \A j \in 1 .. Len(s) - 1 :
                Without(s, t)[j] = IF j < i THEN s[j] ELSE s[j + 1]
<1>0. Len(s) \in Nat /\ DOMAIN s = 1 .. Len(s)
  BY LenProperties
<1> DEFINE i == CHOOSE k \in DOMAIN s : s[k] = t
           r == Without(s, t)
<1>1. i \in 1 .. Len(s) /\ s[i] = t
  <2>1. \E k \in DOMAIN s : s[k] = t
    BY DEF Range
  <2> QED
    BY <1>0, <2>1
<1>2. r = RemoveAt(s, i)
  BY DEF Without
<1> HIDE DEF i, r
<1>3. /\ r \in Seq(S)
      /\ Len(r) = Len(s) - 1
      /\ \A j \in 1 .. Len(s) - 1 : r[j] = IF j < i THEN s[j] ELSE s[j + 1]
  BY <1>1, <1>2, RemoveAtProperties
<1>4. DOMAIN r = 1 .. Len(s) - 1
  BY <1>3, LenProperties
<1> QED
  BY <1>1, <1>3, <1>4 DEF r

(* Unlinking a node takes this node out of its list and nothing else, and  *)
(* leaves every other list as it is.                                       *)
LEMMA WithoutProperties ==
  ASSUME NEW S, NEW s \in Seq(S), NEW t
  PROVE  /\ Without(s, t) \in Seq(S)
         /\ t \notin Range(s) => Without(s, t) = s
         /\ \A u : u # t => (u \in Range(Without(s, t)) <=> u \in Range(s))
         /\ IsInjective(s) => /\ IsInjective(Without(s, t))
                              /\ t \notin Range(Without(s, t))
         /\ s = <<>> => Without(s, t) = <<>>
<1>0. Len(s) \in Nat /\ DOMAIN s = 1 .. Len(s)
  BY LenProperties
<1>1. CASE t \notin Range(s)
  BY <1>1 DEF Without, Range
<1>2. CASE t \in Range(s)
  <2> DEFINE r == Without(s, t)
  <2>1. PICK i \in 1 .. Len(s) :
          /\ s[i] = t
          /\ r \in Seq(S)
          /\ DOMAIN r = 1 .. Len(s) - 1
          /\ \A j \in 1 .. Len(s) - 1 : r[j] = IF j < i THEN s[j] ELSE s[j + 1]
    BY <1>2, WithoutPlaces
  <2> HIDE DEF r
  <2>3. /\ r \in Seq(S)
        /\ \A j \in 1 .. Len(s) - 1 : r[j] = IF j < i THEN s[j] ELSE s[j + 1]
    BY <2>1
  <2>4. DOMAIN r = 1 .. Len(s) - 1
    BY <2>1
  <2>5. ASSUME NEW u, u # t
        PROVE  u \in Range(r) <=> u \in Range(s)
    <3>1. ASSUME NEW j \in DOMAIN r PROVE r[j] \in Range(s)
      BY <1>0, <2>1, <2>3, <2>4 DEF Range
    <3>2. ASSUME NEW j \in DOMAIN s, s[j] = u PROVE u \in Range(r)
      <4>1. CASE j < i
        <5>1. j \in DOMAIN r /\ r[j] = u
          BY <4>1, <1>0, <2>1, <2>3, <2>4, <3>2
        <5> QED
          BY <5>1 DEF Range
      <4>2. CASE j > i
        <5>1. j - 1 \in DOMAIN r /\ r[j - 1] = u
          BY <4>2, <1>0, <2>1, <2>3, <2>4, <3>2
        <5> QED
          BY <5>1 DEF Range
      <4> QED
        BY <4>1, <4>2, <1>0, <2>1, <2>5, <3>2
    <3> QED
      BY <3>1, <3>2 DEF Range
  <2>6. ASSUME IsInjective(s)
        PROVE  IsInjective(r) /\ t \notin Range(r)
    <3>1. ASSUME NEW j \in DOMAIN r PROVE r[j] # t
      <4>1. \A k \in DOMAIN s : s[k] = t => k = i
        BY <1>0, <2>1, <2>6 DEF IsInjective
      <4>2. j \in 1 .. Len(s) - 1 /\ j \in DOMAIN s /\ j + 1 \in DOMAIN s
        BY <1>0, <2>4
      <4> QED
        BY <1>0, <2>3, <4>1, <4>2
    <3>2. ASSUME NEW j \in DOMAIN r, NEW k \in DOMAIN r, r[j] = r[k]
          PROVE  j = k
      <4> DEFINE old(x) == IF x < i THEN x ELSE x + 1
      <4>1. /\ old(j) \in DOMAIN s /\ r[j] = s[old(j)]
            /\ old(k) \in DOMAIN s /\ r[k] = s[old(k)]
        BY <1>0, <2>1, <2>3, <2>4
      <4>2. old(j) = old(k)
        BY <4>1, <2>6, <3>2 DEF IsInjective
      <4> QED
        BY <4>2, <1>0, <2>1, <2>4
    <3> QED
      BY <3>1, <3>2 DEF Range, IsInjective
  <2>7. s # <<>>
    BY <1>2 DEF Range
  <2> QED
    BY <1>2, <2>3, <2>5, <2>6, <2>7 DEF r
<1> QED
  BY <1>1, <1>2

(* The first of a list is unlinked: this leaves the others in their order. *)
LEMMA HeadUnlinked ==
  ASSUME NEW S, NEW s \in Seq(S), IsInjective(s), s # <<>>
  PROVE  /\ Head(s) = s[1] /\ Head(s) \in S /\ Head(s) \in Range(s)
         /\ Tail(s) \in Seq(S) /\ Tail(s) = Without(s, Head(s))
<1> DEFINE r == Without(s, Head(s))
<1>0. Len(s) \in Nat /\ DOMAIN s = 1 .. Len(s) /\ 1 \in 1 .. Len(s)
  BY LenProperties, EmptySeq
<1>1. /\ Head(s) \in S /\ Head(s) = s[1]
      /\ Tail(s) \in Seq(S) /\ Len(Tail(s)) = Len(s) - 1
      /\ \A j \in 1 .. Len(Tail(s)) : Tail(s)[j] = s[j + 1]
  BY HeadTailProperties
<1>2. Head(s) \in Range(s)
  BY <1>0, <1>1 DEF Range
<1>3. PICK i \in 1 .. Len(s) :
        /\ s[i] = Head(s)
        /\ r \in Seq(S)
        /\ DOMAIN r = 1 .. Len(s) - 1
        /\ \A j \in 1 .. Len(s) - 1 : r[j] = IF j < i THEN s[j] ELSE s[j + 1]
  <2>1. \A t \in Range(s) :
          \E i \in 1 .. Len(s) :
            /\ s[i] = t
            /\ Without(s, t) \in Seq(S)
            /\ DOMAIN Without(s, t) = 1 .. Len(s) - 1
            /\ \A j \in 1 .. Len(s) - 1 :
                 Without(s, t)[j] = IF j < i THEN s[j] ELSE s[j + 1]
    BY WithoutPlaces
  <2> QED
    BY ONLY <1>2, <2>1 DEF r
<1>4. i = 1
  BY <1>0, <1>1, <1>3 DEF IsInjective
<1> HIDE DEF r
<1>5. Len(r) = Len(s) - 1
  <2>1. Len(r) \in Nat /\ 1 .. Len(r) = 1 .. Len(s) - 1
    BY <1>3, LenProperties
  <2>2. Len(s) - 1 \in Nat
    BY <1>0
  <2> QED
    BY ONLY <2>1, <2>2
<1>6. \A j \in 1 .. Len(s) - 1 : r[j] = s[j + 1]
  BY <1>0, <1>3, <1>4
<1>7. Tail(s) = r
  BY <1>1, <1>3, <1>5, <1>6, SeqEqual
<1> QED
  BY <1>1, <1>2, <1>7 DEF r

(* A non-empty set of natural numbers has a least element.                 *)
LEMMA MinProperties ==
  ASSUME NEW S \in SUBSET Nat, S # {}
  PROVE  Min(S) \in S /\ \A x \in S : Min(S) <= x
<1>1. PICK x \in S : \A y \in S : ~ (<<y, x>> \in OpToRel(<, Nat))
  BY WFMin, NatLessThanWellFounded
<1>2. \A y \in S : x <= y
  <2> SUFFICES ASSUME NEW y \in S, y < x PROVE FALSE
    OBVIOUS
  <2>1. <<y, x>> \in Nat \X Nat /\ <<y, x>>[1] < <<y, x>>[2]
    OBVIOUS
  <2> QED
    BY <2>1, <1>1 DEF OpToRel
<1> QED
  BY <1>1, <1>2 DEF Min

(* Linking a task at the end of a list.                                    *)
LEMMA AppendRange ==
  ASSUME NEW S, NEW s \in Seq(S), NEW t \in S
  PROVE  /\ Append(s, t) \in Seq(S)
         /\ \A u : u \in Range(Append(s, t)) <=> u \in Range(s) \/ u = t
         /\ IsInjective(s) /\ t \notin Range(s) => IsInjective(Append(s, t))
<1> DEFINE r == Append(s, t)
<1>0. Len(s) \in Nat /\ DOMAIN s = 1 .. Len(s)
  BY LenProperties
<1>1. /\ r \in Seq(S)
      /\ DOMAIN r = 1 .. Len(s) + 1
      /\ \A j \in 1 .. Len(s) : r[j] = s[j]
      /\ r[Len(s) + 1] = t
  BY AppendProperties, LenProperties
<1> HIDE DEF r
<1>2. ASSUME NEW u PROVE u \in Range(r) <=> u \in Range(s) \/ u = t
  <2>1. ASSUME NEW j \in DOMAIN r PROVE r[j] \in Range(s) \/ r[j] = t
    BY <1>0, <1>1 DEF Range
  <2>2. ASSUME NEW j \in DOMAIN s PROVE s[j] \in Range(r)
    BY <1>0, <1>1 DEF Range
  <2>3. t \in Range(r)
    BY <1>0, <1>1 DEF Range
  <2> QED
    BY <2>1, <2>2, <2>3 DEF Range
<1>3. ASSUME IsInjective(s), t \notin Range(s) PROVE IsInjective(r)
  <2>1. ASSUME NEW j \in DOMAIN r, NEW k \in DOMAIN r, r[j] = r[k]
        PROVE  j = k
    BY <1>0, <1>1, <1>3, <2>1 DEF IsInjective, Range
  <2> QED
    BY <2>1 DEF IsInjective
<1> QED
  BY <1>1, <1>2, <1>3 DEF r

(* Inserting a task in front of the first of the given places moves the    *)
(* later ones down.                                                        *)
LEMMA InsertPlaces ==
  ASSUME NEW S, NEW s \in Seq(S), NEW t \in S, NEW places \in SUBSET DOMAIN s,
         places # {}
  PROVE  \E i \in 1 .. Len(s) :
           LET r == InsertBefore(s, t, places) IN
           /\ i \in places /\ \A x \in places : i <= x
           /\ r \in Seq(S)
           /\ DOMAIN r = 1 .. Len(s) + 1
           /\ \A j \in 1 .. Len(s) + 1 :
                r[j] = IF j < i THEN s[j] ELSE IF j = i THEN t ELSE s[j - 1]
<1>0. Len(s) \in Nat /\ DOMAIN s = 1 .. Len(s)
  BY LenProperties
<1> DEFINE i == Min(places)
           r == InsertBefore(s, t, places)
           front == SubSeq(s, 1, i - 1)
           back  == SubSeq(s, i, Len(s))
<1>1. i \in 1 .. Len(s)
  BY <1>0, MinProperties
<1>2. r = (front \o <<t>>) \o back
  BY DEF InsertBefore, InsertAt
<1> HIDE DEF i, r
<1>3. /\ front \in Seq(S)
      /\ Len(front) = i - 1
      /\ \A j \in 1 .. i - 1 : front[j] = s[j]
  <2>1. \A j \in 1 .. i - 1 : s[j] \in S
    BY ElementOfSeq, <1>0, <1>1
  <2> QED
    BY <1>0, <1>1, <2>1, SubSeqProperties
<1>4. /\ back \in Seq(S)
      /\ Len(back) = Len(s) - i + 1
      /\ \A j \in 1 .. Len(s) - i + 1 : back[j] = s[i + j - 1]
  <2>1. \A j \in i .. Len(s) : s[j] \in S
    BY ElementOfSeq, <1>0, <1>1
  <2> QED
    BY <1>0, <1>1, <2>1, SubSeqProperties
<1>5. front \o <<t>> = Append(front, t)
  BY <1>3, AppendIsConcat
<1> HIDE DEF front, back
<1> DEFINE f == Append(front, t)
<1>6. /\ f \in Seq(S)
      /\ Len(f) = i
      /\ \A j \in 1 .. i - 1 : f[j] = s[j]
      /\ f[i] = t
  BY <1>1, <1>3, AppendProperties
<1> HIDE DEF f
<1>7. /\ f \o back \in Seq(S)
      /\ Len(f \o back) = Len(f) + Len(back)
      /\ \A j \in 1 .. Len(f) + Len(back) :
           (f \o back)[j] = IF j <= Len(f) THEN f[j] ELSE back[j - Len(f)]
  <2>1. f \in Seq(S) /\ back \in Seq(S)
    BY <1>4, <1>6
  <2> QED
    BY ONLY <2>1, ConcatProperties, Zenon
<1>8. r = f \o back
  BY <1>2, <1>5 DEF f
<1>9. /\ r \in Seq(S)
      /\ Len(r) = Len(s) + 1
      /\ \A j \in 1 .. Len(s) + 1 :
           r[j] = IF j < i THEN s[j] ELSE IF j = i THEN t ELSE s[j - 1]
  <2>1. Len(f) + Len(back) = Len(s) + 1
    BY <1>0, <1>1, <1>4, <1>6
  <2> QED
    BY <1>0, <1>1, <1>4, <1>6, <1>7, <1>8, <2>1
<1>10. DOMAIN r = 1 .. Len(s) + 1
  BY <1>9, LenProperties
<1>11. i \in places /\ \A x \in places : i <= x
  <2>1. places \in SUBSET Nat
    BY <1>0
  <2> QED
    BY <2>1, MinProperties DEF i
<1> QED
  BY <1>1, <1>9, <1>10, <1>11 DEF r

(* A task is in a list after its insertion, and only it is new there.      *)
LEMMA InsertBeforeProperties ==
  ASSUME NEW S, NEW s \in Seq(S), NEW t \in S, NEW places \in SUBSET DOMAIN s
  PROVE  /\ InsertBefore(s, t, places) \in Seq(S)
         /\ \A u : u \in Range(InsertBefore(s, t, places))
                    <=> u \in Range(s) \/ u = t
         /\ IsInjective(s) /\ t \notin Range(s)
              => IsInjective(InsertBefore(s, t, places))
<1>0. Len(s) \in Nat /\ DOMAIN s = 1 .. Len(s)
  BY LenProperties
<1>1. CASE places = {}
  BY <1>1, AppendRange DEF InsertBefore
<1>2. CASE places # {}
  <2> DEFINE r == InsertBefore(s, t, places)
  <2>1. PICK i \in 1 .. Len(s) :
          /\ r \in Seq(S)
          /\ DOMAIN r = 1 .. Len(s) + 1
          /\ \A j \in 1 .. Len(s) + 1 :
               r[j] = IF j < i THEN s[j] ELSE IF j = i THEN t ELSE s[j - 1]
    BY <1>2, InsertPlaces
  <2> HIDE DEF r
  <2>9. /\ r \in Seq(S)
        /\ \A j \in 1 .. Len(s) + 1 :
             r[j] = IF j < i THEN s[j] ELSE IF j = i THEN t ELSE s[j - 1]
    BY <2>1
  <2>10. DOMAIN r = 1 .. Len(s) + 1
    BY <2>1
  <2>11. ASSUME NEW u PROVE u \in Range(r) <=> u \in Range(s) \/ u = t
    <3>1. ASSUME NEW j \in DOMAIN r PROVE r[j] \in Range(s) \/ r[j] = t
      <4>1. CASE j < i
        <5>1. j \in DOMAIN s /\ r[j] = s[j]
          BY <4>1, <1>0, <2>1, <2>9, <2>10
        <5> QED
          BY <5>1 DEF Range
      <4>2. CASE j = i
        BY <4>2, <2>9, <2>10
      <4>3. CASE j > i
        <5>1. j - 1 \in DOMAIN s /\ r[j] = s[j - 1]
          BY <4>3, <1>0, <2>1, <2>9, <2>10
        <5> QED
          BY <5>1 DEF Range
      <4> QED
        BY <4>1, <4>2, <4>3, <1>0, <2>1, <2>10
    <3>2. ASSUME NEW j \in DOMAIN s PROVE s[j] \in Range(r)
      <4>1. CASE j < i
        <5>1. j \in DOMAIN r /\ r[j] = s[j]
          BY <4>1, <1>0, <2>1, <2>9, <2>10
        <5> QED
          BY <5>1 DEF Range
      <4>2. CASE j >= i
        <5>1. j + 1 \in DOMAIN r /\ r[j + 1] = s[j]
          BY <4>2, <1>0, <2>1, <2>9, <2>10
        <5> QED
          BY <5>1 DEF Range
      <4> QED
        BY <4>1, <4>2, <1>0, <2>1
    <3>3. t \in Range(r)
      BY <1>0, <2>1, <2>9, <2>10 DEF Range
    <3> QED
      BY <3>1, <3>2, <3>3 DEF Range
  <2>12. ASSUME IsInjective(s), t \notin Range(s) PROVE IsInjective(r)
    <3>1. ASSUME NEW j \in DOMAIN r, NEW k \in DOMAIN r, r[j] = r[k]
          PROVE  j = k
      <4> DEFINE old(x) == IF x < i THEN x ELSE x - 1
      <4>1. \A x \in DOMAIN s : s[x] # t
        BY <2>12 DEF Range
      <4>2. \A x \in DOMAIN r :
              x # i => old(x) \in DOMAIN s /\ r[x] = s[old(x)]
        BY <1>0, <2>1, <2>9, <2>10
      <4>3. r[i] = t /\ i \in DOMAIN r
        BY <1>0, <2>1, <2>9, <2>10
      <4>4. CASE j = i \/ k = i
        BY <4>1, <4>2, <4>3, <4>4, <3>1
      <4>5. CASE j # i /\ k # i
        <5>1. old(j) = old(k)
          BY <4>2, <4>5, <2>12, <3>1 DEF IsInjective
        <5> QED
          BY <5>1, <4>5, <1>0, <2>1, <2>10
      <4> QED
        BY <4>4, <4>5
    <3> QED
      BY <3>1 DEF IsInjective
  <2> QED
    BY <2>9, <2>11, <2>12 DEF r
<1> QED
  BY <1>1, <1>2

(* No list of a family holds a node twice.                                 *)
InjectiveLists(lists) == \A l \in DOMAIN lists : IsInjective(lists[l])

(* yr_list_delete_self removes a node from wherever it is.                 *)
LEMMA UnlinkProperties ==
  ASSUME NEW L, NEW S, NEW lists \in [L -> Seq(S)], NEW t
  PROVE  /\ Unlink(lists, t) \in [L -> Seq(S)]
         /\ \A l \in L : \A u : u # t =>
              (u \in Range(Unlink(lists, t)[l]) <=> u \in Range(lists[l]))
         /\ \A l \in L : lists[l] = <<>> => Unlink(lists, t)[l] = <<>>
         /\ InjectiveLists(lists)
              => /\ InjectiveLists(Unlink(lists, t))
                 /\ \A l \in L : t \notin Range(Unlink(lists, t)[l])
<1> DEFINE r == Unlink(lists, t)
<1>1. DOMAIN lists = L /\ r = [l \in L |-> Without(lists[l], t)]
  BY DEF Unlink
<1>2. ASSUME NEW l \in L
      PROVE  /\ r[l] \in Seq(S)
             /\ \A u : u # t => (u \in Range(r[l]) <=> u \in Range(lists[l]))
             /\ lists[l] = <<>> => r[l] = <<>>
             /\ IsInjective(lists[l])
                  => IsInjective(r[l]) /\ t \notin Range(r[l])
  <2>1. r[l] = Without(lists[l], t) /\ lists[l] \in Seq(S)
    BY <1>1
  <2> HIDE DEF r
  <2> QED
    BY <2>1, WithoutProperties
<1>3. r \in [L -> Seq(S)] /\ DOMAIN r = L
  BY <1>1, <1>2
<1> HIDE DEF r
<1> QED
  BY <1>1, <1>2, <1>3 DEF InjectiveLists, r

(* yr_list_insert_before(head, node): the list gains the task, the other   *)
(* lists are as before.                                                    *)
LEMMA LinkLastProperties ==
  ASSUME NEW L, NEW S, NEW lists \in [L -> Seq(S)], NEW k \in L, NEW t \in S
  PROVE  /\ LinkLast(lists, k, t) \in [L -> Seq(S)]
         /\ LinkLast(lists, k, t)[k] # <<>>
         /\ \A l \in L : l # k => LinkLast(lists, k, t)[l] = lists[l]
         /\ \A l \in L : \A u : u \in Range(LinkLast(lists, k, t)[l])
                             <=> u \in Range(lists[l]) \/ (l = k /\ u = t)
         /\ InjectiveLists(lists) /\ t \notin Range(lists[k])
              => InjectiveLists(LinkLast(lists, k, t))
<1> DEFINE r == LinkLast(lists, k, t)
<1>1. /\ r = [lists EXCEPT ![k] = Append(lists[k], t)]
      /\ lists[k] \in Seq(S)
  BY DEF LinkLast
<1>2. /\ Append(lists[k], t) \in Seq(S)
      /\ Append(lists[k], t) # <<>>
      /\ \A u : u \in Range(Append(lists[k], t)) <=> u \in Range(lists[k]) \/ u = t
      /\ IsInjective(lists[k]) /\ t \notin Range(lists[k])
           => IsInjective(Append(lists[k], t))
  BY <1>1, AppendRange, AppendProperties
<1>3. /\ r \in [L -> Seq(S)]
      /\ r[k] = Append(lists[k], t)
      /\ \A l \in L : l # k => r[l] = lists[l]
  BY <1>1, <1>2
<1> HIDE DEF r
<1>4. ASSUME NEW l \in L, NEW u
      PROVE  u \in Range(r[l]) <=> u \in Range(lists[l]) \/ (l = k /\ u = t)
  BY <1>2, <1>3
<1>5. ASSUME InjectiveLists(lists), t \notin Range(lists[k])
      PROVE  InjectiveLists(r)
  <2>1. DOMAIN r = L /\ DOMAIN lists = L
    BY <1>3
  <2> QED
    BY <1>2, <1>3, <1>5, <2>1 DEF InjectiveLists
<1> QED
  BY <1>2, <1>3, <1>4, <1>5 DEF r

(* The task a scheduler state selects is the first of a non-empty queue    *)
(* whose bit is set.                                                       *)
LEMMA ChosenProperties ==
  ASSUME NEW L, NEW S, NEW P \in SUBSET Nat, P \subseteq L,
         NEW s \in [lists : [L -> Seq(S)], group : SUBSET P],
         CanDispatch(s)
  PROVE  /\ Top(s) \in P
         /\ \A p \in s.group : Top(s) <= p
         /\ Chosen(s) \in S
         /\ Chosen(s) \in Range(s.lists[Top(s)])
<1>1. s.group # {} /\ s.group \in SUBSET Nat
  BY DEF CanDispatch
<1>2. Top(s) \in s.group /\ \A p \in s.group : Top(s) <= p
  BY <1>1, MinProperties DEF Top
<1> DEFINE q == s.lists[Top(s)]
<1>3. q \in Seq(S) /\ q # <<>>
  BY <1>2 DEF CanDispatch
<1>4. Chosen(s) = Head(q)
  BY DEF Chosen
<1> HIDE DEF q
<1>5. Head(q) \in S /\ Head(q) = q[1] /\ 1 \in DOMAIN q
  BY <1>3, HeadTailProperties, LenProperties, EmptySeq
<1> QED
  BY <1>2, <1>4, <1>5 DEF Range, q

(* Taking the elements of a set out of a sequence: the k-th of them is the *)
(* one with k of them up to its place, and there is exactly one such.      *)
LEMMA KeptProperties ==
  ASSUME NEW S, NEW q \in Seq(S), NEW T
  PROVE  /\ Kept(q, T) \in Seq(S)
         /\ \A u : u \in Range(Kept(q, T)) <=> u \in Range(q) /\ u \in T
         /\ IsInjective(q) => IsInjective(Kept(q, T))
<1> DEFINE chosen == {i \in DOMAIN q : q[i] \in T}
           upto(i) == {j \in chosen : j <= i}
           rank    == [i \in chosen |-> Cardinality(upto(i))]
           n       == Cardinality(chosen)
           place   == [k \in 1 .. n |-> CHOOSE i \in chosen : rank[i] = k]
           r       == Kept(q, T)
<1>0. Len(q) \in Nat /\ DOMAIN q = 1 .. Len(q) /\ \A i \in 1 .. Len(q) : q[i] \in S
  BY LenProperties, ElementOfSeq
<1>1. IsFiniteSet(chosen) /\ n \in Nat /\ chosen \subseteq 1 .. Len(q)
  <2>1. IsFiniteSet(1 .. Len(q)) /\ chosen \in SUBSET (1 .. Len(q))
    BY <1>0, FS_Interval
  <2> HIDE DEF chosen
  <2>2. IsFiniteSet(chosen)
    BY ONLY <2>1, FS_Subset
  <2>3. Cardinality(chosen) \in Nat
    BY ONLY <2>2, FS_CardinalityType
  <2> QED
    BY <2>1, <2>2, <2>3
<1>2. \A i \in chosen : IsFiniteSet(upto(i)) /\ rank[i] \in 1 .. n
  <2> SUFFICES ASSUME NEW i \in chosen PROVE IsFiniteSet(upto(i)) /\ rank[i] \in 1 .. n
    OBVIOUS
  <2>1. upto(i) \in SUBSET chosen /\ i \in upto(i)
    BY <1>1
  <2>2. rank[i] = Cardinality(upto(i))
    OBVIOUS
  <2> HIDE DEF upto, chosen, rank
  <2>3. IsFiniteSet(upto(i)) /\ Cardinality(upto(i)) <= n
    BY ONLY <1>1, <2>1, FS_Subset
  <2>4. Cardinality(upto(i)) \in Nat /\ Cardinality(upto(i)) # 0
    BY ONLY <2>1, <2>3, FS_CardinalityType, FS_EmptySet
  <2> QED
    BY <1>1, <2>2, <2>3, <2>4
<1>3. ASSUME NEW i \in chosen, NEW j \in chosen, i < j PROVE rank[i] < rank[j]
  <2>1. upto(i) \in SUBSET upto(j) /\ j \in upto(j) /\ j \notin upto(i)
    BY <1>1, <1>3
  <2>2. rank[i] = Cardinality(upto(i)) /\ rank[j] = Cardinality(upto(j))
    OBVIOUS
  <2>a. IsFiniteSet(upto(i)) /\ IsFiniteSet(upto(j))
    BY <1>2
  <2> HIDE DEF upto, chosen, rank
  <2>3. Cardinality(upto(i)) <= Cardinality(upto(j)) /\ Cardinality(upto(i)) # Cardinality(upto(j))
    BY ONLY <2>1, <2>a, FS_Subset
  <2>4. Cardinality(upto(i)) \in Nat /\ Cardinality(upto(j)) \in Nat
    BY ONLY <2>a, FS_CardinalityType
  <2> QED
    BY <2>2, <2>3, <2>4
<1>4. \A k \in 1 .. n : \E i \in chosen : rank[i] = k
  <2>1. rank \in [chosen -> 1 .. n]
    BY <1>2
  <2>2. ASSUME NEW i \in chosen, NEW j \in chosen, rank[i] = rank[j] PROVE i = j
    <3>1. rank[i] \in 1 .. n /\ rank[j] \in 1 .. n /\ i \in 1 .. Len(q) /\ j \in 1 .. Len(q)
      BY <1>1, <1>2
    <3> HIDE DEF rank, chosen, n, upto
    <3> QED
      BY <3>1, <1>3, <2>2
  <2> HIDE DEF rank, chosen
  <2>3. rank \in Injection(chosen, 1 .. n)
    BY <2>1, <2>2 DEF Injection, IsInjective
  <2>4. IsFiniteSet(1 .. n) /\ Cardinality(1 .. n) = n
    BY <1>1, FS_Interval
  <2>5. rank \in Surjection(chosen, 1 .. n)
    BY <2>3, <2>4, FS_Injection
  <2> QED
    BY <2>5 DEF Surjection
<1>5. \A k \in 1 .. n : place[k] \in chosen /\ rank[place[k]] = k
  <2> SUFFICES ASSUME NEW k \in 1 .. n PROVE place[k] \in chosen /\ rank[place[k]] = k
    OBVIOUS
  <2>1. place[k] = CHOOSE i \in chosen : rank[i] = k
    OBVIOUS
  <2> HIDE DEF place, chosen, rank
  <2> QED
    BY <1>4, <2>1
<1>6. r = [k \in 1 .. n |-> q[place[k]]]
  <2>1. r = [k \in 1 .. n |-> q[CHOOSE i \in chosen : Cardinality(upto(i)) = k]]
    BY DEF Kept
  <2>2. ASSUME NEW k
        PROVE (CHOOSE i \in chosen : Cardinality(upto(i)) = k) = CHOOSE i \in chosen : rank[i] = k
    OBVIOUS
  <2> QED
    BY <2>1, <2>2
<1>7. \A i \in chosen : i \in 1 .. Len(q) /\ q[i] \in T
  BY <1>0
<1>8. \A i \in 1 .. Len(q) : q[i] \in T => i \in chosen
  BY <1>0
<1> HIDE DEF r, place, rank, chosen, n, upto
<1>9. r \in Seq(S) /\ DOMAIN r = 1 .. n
  <2>1. r \in [1 .. n -> S]
    BY <1>0, <1>5, <1>6, <1>7
  <2> QED
    BY <1>1, <2>1
<1>10. ASSUME NEW u \in Range(r) PROVE u \in Range(q) /\ u \in T
  <2>1. PICK k \in 1 .. n : u = q[place[k]]
    BY <1>6, <1>9 DEF Range
  <2> QED
    BY <2>1, <1>0, <1>5, <1>7 DEF Range
<1>11. ASSUME NEW u \in Range(q), u \in T PROVE u \in Range(r)
  <2>1. PICK i \in 1 .. Len(q) : q[i] = u
    BY <1>0 DEF Range
  <2>2. i \in chosen
    BY <2>1, <1>8, <1>11
  <2>3. rank[i] \in 1 .. n
    BY <2>2, <1>2
  <2>4. place[rank[i]] \in chosen /\ rank[place[rank[i]]] = rank[i]
    BY <2>3, <1>5
  <2>5. place[rank[i]] = i
    <3>1. place[rank[i]] \in 1 .. Len(q) /\ i \in 1 .. Len(q)
      BY <2>1, <2>4, <1>7
    <3> QED
      BY <3>1, <1>0, <1>1, <1>3, <2>2, <2>3, <2>4
  <2>6. r[rank[i]] = u
    BY <1>6, <2>1, <2>3, <2>5
  <2> QED
    BY <2>3, <2>6, <1>9 DEF Range
<1>12. ASSUME IsInjective(q) PROVE IsInjective(r)
  <2> SUFFICES ASSUME NEW j \in 1 .. n, NEW k \in 1 .. n, r[j] = r[k] PROVE j = k
    BY <1>9 DEF IsInjective
  <2>1. q[place[j]] = q[place[k]] /\ place[j] \in 1 .. Len(q) /\ place[k] \in 1 .. Len(q)
    BY <1>5, <1>6, <1>7
  <2>2. place[j] = place[k]
    BY <1>0, <1>12, <2>1 DEF IsInjective
  <2> QED
    BY <2>2, <1>5
<1> QED
  BY <1>9, <1>10, <1>11, <1>12 DEF r

LEMMA KeptAll ==
  ASSUME NEW S, NEW q \in Seq(S), NEW T, \A u \in Range(q) : u \in T
  PROVE  Kept(q, T) = q
<1> DEFINE chosen == {i \in DOMAIN q : q[i] \in T}
           rank(i) == Cardinality({j \in chosen : j <= i})
<1>0. \A k \in Nat : Cardinality(1 .. k) = k
  BY ONLY FS_Interval
<1>1. Len(q) \in Nat /\ DOMAIN q = 1 .. Len(q)
  BY LenProperties
<1>2. chosen = 1 .. Len(q)
  BY <1>1 DEF Range
<1>3. ASSUME NEW i \in 1 .. Len(q) PROVE rank(i) = i
  <2>1. {j \in chosen : j <= i} = 1 .. i
    BY <1>1, <1>2
  <2>2. Cardinality(1 .. i) = i
    BY <1>0, <1>1
  <2> QED
    BY <2>1, <2>2
<1>4. Cardinality(chosen) = Len(q)
  BY <1>0, <1>1, <1>2
<1>5. Kept(q, T) = [k \in 1 .. Cardinality(chosen) |->
                      q[CHOOSE i \in chosen : rank(i) = k]]
  BY DEF Kept
<1> HIDE DEF rank
<1>6. ASSUME NEW k \in 1 .. Len(q) PROVE (CHOOSE i \in chosen : rank(i) = k) = k
  BY <1>2, <1>3, <1>6
<1> HIDE DEF chosen
<1>7. Kept(q, T) = [k \in 1 .. Len(q) |-> q[k]]
  BY <1>4, <1>5, <1>6
<1>8. q = [k \in 1 .. Len(q) |-> q[k]]
  BY <1>1
<1> QED
  BY <1>7, <1>8

(* One list behind another.                                                *)
LEMMA ConcatRange ==
  ASSUME NEW S, NEW s \in Seq(S), NEW e \in Seq(S)
  PROVE  /\ s \o e \in Seq(S)
         /\ \A u : u \in Range(s \o e) <=> u \in Range(s) \/ u \in Range(e)
         /\ /\ IsInjective(s) /\ IsInjective(e)
            /\ \A u \in Range(s) : u \notin Range(e)
            => IsInjective(s \o e)
<1> DEFINE r == s \o e
<1>0. /\ Len(s) \in Nat /\ DOMAIN s = 1 .. Len(s)
      /\ Len(e) \in Nat /\ DOMAIN e = 1 .. Len(e)
  BY LenProperties
<1>1. /\ r \in Seq(S)
      /\ Len(r) = Len(s) + Len(e)
      /\ \A j \in 1 .. Len(s) + Len(e) : r[j] = IF j <= Len(s) THEN s[j] ELSE e[j - Len(s)]
  BY ConcatProperties, Zenon
<1> HIDE DEF r
<1>2. DOMAIN r = 1 .. Len(s) + Len(e)
  BY <1>1, LenProperties
<1>3. /\ \A j \in 1 .. Len(s) : j \in DOMAIN r /\ r[j] = s[j]
      /\ \A j \in 1 .. Len(e) : Len(s) + j \in DOMAIN r /\ r[Len(s) + j] = e[j]
  <2>1. ASSUME NEW j \in 1 .. Len(s) PROVE j \in 1 .. Len(s) + Len(e) /\ r[j] = s[j]
    BY <1>0, <1>1
  <2>2. ASSUME NEW j \in 1 .. Len(e)
        PROVE  Len(s) + j \in 1 .. Len(s) + Len(e) /\ r[Len(s) + j] = e[j]
    <3>1. Len(s) + j \in 1 .. Len(s) + Len(e) /\ ~ (Len(s) + j <= Len(s))
      BY <1>0
    <3>2. (Len(s) + j) - Len(s) = j
      BY <1>0
    <3> QED
      BY <3>1, <3>2, <1>1
  <2> QED
    BY <2>1, <2>2, <1>2
<1>4. \A j \in DOMAIN r : \/ j \in DOMAIN s /\ r[j] = s[j]
                          \/ j - Len(s) \in DOMAIN e /\ r[j] = e[j - Len(s)]
  <2> SUFFICES ASSUME NEW j \in 1 .. Len(s) + Len(e)
               PROVE  \/ j \in 1 .. Len(s) /\ r[j] = s[j]
                      \/ j - Len(s) \in 1 .. Len(e) /\ r[j] = e[j - Len(s)]
    BY <1>0, <1>2
  <2>1. CASE j <= Len(s)
    BY <2>1, <1>0, <1>1
  <2>2. CASE ~ (j <= Len(s))
    BY <2>2, <1>0, <1>1
  <2> QED
    BY <2>1, <2>2
<1>5. \A u : u \in Range(r) <=> u \in Range(s) \/ u \in Range(e)
  BY <1>0, <1>3, <1>4 DEF Range
<1>6. ASSUME IsInjective(s), IsInjective(e), \A u \in Range(s) : u \notin Range(e)
      PROVE  IsInjective(r)
  <2> SUFFICES ASSUME NEW j \in DOMAIN r, NEW k \in DOMAIN r, r[j] = r[k] PROVE j = k
    BY DEF IsInjective
  <2>1. ASSUME NEW a \in DOMAIN r, NEW b \in DOMAIN r, r[a] = r[b],
               a \in DOMAIN s, r[a] = s[a]
        PROVE  b \in DOMAIN s /\ r[b] = s[b]
    BY <2>1, <1>4, <1>6 DEF Range
  <2>2. CASE j \in DOMAIN s /\ r[j] = s[j]
    BY <2>1, <2>2, <1>6 DEF IsInjective
  <2>3. CASE j - Len(s) \in DOMAIN e /\ r[j] = e[j - Len(s)]
    <3>1. CASE k \in DOMAIN s /\ r[k] = s[k]
      BY <2>1, <3>1, <1>6 DEF IsInjective
    <3>2. CASE k - Len(s) \in DOMAIN e /\ r[k] = e[k - Len(s)]
      <4>1. j - Len(s) = k - Len(s)
        BY <2>3, <3>2, <1>6 DEF IsInjective
      <4> QED
        BY <4>1, <1>0, <1>2
    <3> QED
      BY <3>1, <3>2, <1>4
  <2> QED
    BY <2>2, <2>3, <1>4
<1> QED
  BY <1>1, <1>5, <1>6 DEF r

-----------------------------------------------------------------------------
(* Lists that are sorted by a number d of their elements.                  *)

InOrder(q, d) == \A i, j \in DOMAIN q : i < j => d[q[i]] <= d[q[j]]

LEMMA WithoutInOrder ==
  ASSUME NEW S, NEW q \in Seq(S), NEW t, NEW d, InOrder(q, d)
  PROVE  InOrder(Without(q, t), d)
<1> DEFINE r == Without(q, t)
<1>0. Len(q) \in Nat /\ DOMAIN q = 1 .. Len(q)
  BY LenProperties
<1>1. CASE t \notin Range(q)
  BY <1>1, WithoutProperties
<1>2. CASE t \in Range(q)
  <2>1. PICK k \in 1 .. Len(q) :
          /\ DOMAIN r = 1 .. Len(q) - 1
          /\ \A j \in 1 .. Len(q) - 1 : r[j] = IF j < k THEN q[j] ELSE q[j + 1]
    BY <1>2, WithoutPlaces
  <2> HIDE DEF r
  <2>2. ASSUME NEW i \in DOMAIN r, NEW j \in DOMAIN r, i < j
        PROVE  d[r[i]] <= d[r[j]]
    <3> DEFINE old(x) == IF x < k THEN x ELSE x + 1
    <3>1. /\ old(i) \in DOMAIN q /\ r[i] = q[old(i)]
          /\ old(j) \in DOMAIN q /\ r[j] = q[old(j)]
          /\ old(i) < old(j)
      BY <1>0, <2>1, <2>2
    <3> HIDE DEF old
    <3> QED
      BY <3>1 DEF InOrder
  <2> QED
    BY <2>2 DEF InOrder, r
<1> QED
  BY <1>1, <1>2

(* r is q with t put in at place k.                                        *)
PutAt(r, q, t, k) ==
  /\ DOMAIN r = 1 .. Len(q) + 1
  /\ \A j \in 1 .. Len(q) + 1 :
       r[j] = IF j < k THEN q[j] ELSE IF j = k THEN t ELSE q[j - 1]

LEMMA PutAtFirst ==
  ASSUME NEW S, NEW q \in Seq(S), NEW t \in S, NEW places \in SUBSET DOMAIN q,
         places # {}
  PROVE  \E k \in 1 .. Len(q) :
           /\ k \in places /\ \A x \in places : k <= x
           /\ PutAt(InsertBefore(q, t, places), q, t, k)
<1>1. PICK k \in 1 .. Len(q) :
        LET s == InsertBefore(q, t, places) IN
        /\ k \in places /\ \A x \in places : k <= x
        /\ s \in Seq(S)
        /\ DOMAIN s = 1 .. Len(q) + 1
        /\ \A j \in 1 .. Len(q) + 1 :
             s[j] = IF j < k THEN q[j] ELSE IF j = k THEN t ELSE q[j - 1]
  BY InsertPlaces
<1> QED
  BY <1>1 DEF PutAt

LEMMA InsertBeforeLater ==
  ASSUME NEW S, NEW q \in Seq(S), NEW t \in S, NEW d \in [S -> Int], InOrder(q, d),
         NEW places \in SUBSET DOMAIN q, places # {},
         \A j \in DOMAIN q : j \in places <=> d[q[j]] > d[t]
  PROVE  InOrder(InsertBefore(q, t, places), d)
<1> DEFINE r == InsertBefore(q, t, places)
<1>0. Len(q) \in Nat /\ DOMAIN q = 1 .. Len(q) /\ \A j \in 1 .. Len(q) : q[j] \in S
  BY LenProperties, ElementOfSeq
<1>1. \A j \in DOMAIN q : d[q[j]] \in Int /\ (j \in places <=> d[q[j]] > d[t])
  BY <1>0
<1>2. d[t] \in Int
  OBVIOUS
<1>3. PICK k \in 1 .. Len(q) :
        /\ k \in places /\ \A x \in places : k <= x
        /\ PutAt(r, q, t, k)
  BY PutAtFirst, Zenon
<1>4. /\ k \in places /\ \A x \in places : k <= x
      /\ DOMAIN r = 1 .. Len(q) + 1
      /\ \A j \in 1 .. Len(q) + 1 :
           r[j] = IF j < k THEN q[j] ELSE IF j = k THEN t ELSE q[j - 1]
  BY <1>3 DEF PutAt
<1> HIDE DEF r
<1>5. \A j \in DOMAIN q : j < k => d[q[j]] <= d[t]
  BY <1>0, <1>1, <1>2, <1>4
<1>6. \A j \in DOMAIN q : j >= k => d[t] <= d[q[j]]
  <2>1. d[q[k]] > d[t] /\ k \in DOMAIN q
    BY <1>0, <1>1, <1>4
  <2>2. \A j \in DOMAIN q : j > k => d[q[k]] <= d[q[j]]
    BY <2>1 DEF InOrder
  <2> QED
    BY <1>0, <1>1, <1>2, <2>1, <2>2
<1>7. ASSUME NEW i \in DOMAIN r, NEW j \in DOMAIN r, i < j
      PROVE  d[r[i]] <= d[r[j]]
  <2>1. CASE i < k /\ j < k
    <3>1. i \in DOMAIN q /\ r[i] = q[i] /\ j \in DOMAIN q /\ r[j] = q[j]
      BY <1>0, <1>4, <2>1
    <3> QED
      BY <1>7, <3>1 DEF InOrder
  <2>2. CASE i < k /\ j = k
    BY <1>0, <1>4, <1>5, <2>2
  <2>3. CASE i < k /\ j > k
    <3>1. /\ i \in DOMAIN q /\ r[i] = q[i]
          /\ j - 1 \in DOMAIN q /\ r[j] = q[j - 1]
      BY <1>0, <1>4, <2>3
    <3>2. d[q[i]] <= d[t] /\ d[t] <= d[q[j - 1]]
      BY <1>0, <1>5, <1>6, <1>4, <2>3, <3>1
    <3>3. d[q[i]] \in Int /\ d[q[j - 1]] \in Int
      BY <1>1, <3>1
    <3> QED
      BY <1>2, <3>1, <3>2, <3>3
  <2>4. CASE i = k
    <3>1. j - 1 \in DOMAIN q /\ r[j] = q[j - 1] /\ j - 1 >= k /\ r[i] = t
      BY <1>0, <1>4, <1>7, <2>4
    <3> QED
      BY <1>6, <3>1
  <2>5. CASE i > k
    <3>1. /\ i - 1 \in DOMAIN q /\ r[i] = q[i - 1]
          /\ j - 1 \in DOMAIN q /\ r[j] = q[j - 1] /\ i - 1 < j - 1
      BY <1>0, <1>4, <1>7, <2>5, SMTT(30)
    <3> QED
      BY <3>1 DEF InOrder
  <2> QED
    BY <1>0, <1>4, <1>7, <2>1, <2>2, <2>3, <2>4, <2>5
<1> QED
  BY <1>7 DEF InOrder, r

LEMMA InsertInOrder ==
  ASSUME NEW S, NEW q \in Seq(S), NEW t \in S, NEW d \in [S -> Int], InOrder(q, d)
  PROVE  InOrder(InsertTimer(q, t, d), d)
<1> DEFINE places == {i \in DOMAIN q : d[q[i]] > d[t]}
           r == InsertBefore(q, t, places)
<1>0. Len(q) \in Nat /\ DOMAIN q = 1 .. Len(q) /\ \A j \in 1 .. Len(q) : q[j] \in S
  BY LenProperties, ElementOfSeq
<1>1. \A j \in DOMAIN q : d[q[j]] \in Int /\ (j \in places <=> d[q[j]] > d[t])
  BY <1>0
<1>2. d[t] \in Int /\ places \in SUBSET DOMAIN q
  OBVIOUS
<1>3. InsertTimer(q, t, d) = r
  BY DEF InsertTimer
<1> HIDE DEF places
<1>4. ASSUME places = {} PROVE InOrder(r, d)
  <2>1. /\ DOMAIN r = 1 .. Len(q) + 1
        /\ \A j \in 1 .. Len(q) : r[j] = q[j]
        /\ r[Len(q) + 1] = t
    BY <1>4, AppendProperties, LenProperties DEF InsertBefore
  <2> HIDE DEF r
  <2>2. ASSUME NEW i \in DOMAIN r, NEW j \in DOMAIN r, i < j
        PROVE  d[r[i]] <= d[r[j]]
    <3>1. i \in DOMAIN q /\ r[i] = q[i]
      BY <1>0, <2>1, <2>2
    <3>2. d[q[i]] <= d[t]
      BY <1>1, <1>2, <1>4, <3>1
    <3>3. CASE j = Len(q) + 1
      BY <2>1, <3>1, <3>2, <3>3
    <3>4. CASE j # Len(q) + 1
      <4>1. j \in DOMAIN q /\ r[j] = q[j]
        BY <1>0, <2>1, <2>2, <3>4
      <4> QED
        BY <2>2, <3>1, <4>1 DEF InOrder
    <3> QED
      BY <3>3, <3>4
  <2> QED
    BY <2>2 DEF InOrder
<1>5. ASSUME places # {} PROVE InOrder(r, d)
  <2>1. \A j \in DOMAIN q : j \in places <=> d[q[j]] > d[t]
    BY <1>1
  <2> QED
    BY <1>2, <1>5, <2>1, InsertBeforeLater
<1> QED
  BY <1>3, <1>4, <1>5

-----------------------------------------------------------------------------
(* Module YrList *)

(* yr_list_delete_self of any node, in whatever list it is or in none,     *)
(* takes it out, closes the gap and leaves every other link alone.  This   *)
(* is why yr_timer_stop, suspend, delete and the timeout callback may      *)
(* delete a node without knowing its list.                                 *)
THEOREM DeleteSelfSafe ==
  ASSUME NEW Node, NEW h \in Heaps(Node), WellLinked(h), NEW n \in Node
  PROVE  LET r == ListDeleteSelf(h, n) IN
         /\ r \in Heaps(Node)
         /\ WellLinked(r)
         /\ r.next[n] = n /\ r.prev[n] = n
         /\ \A m \in Node : m # n /\ h.next[m] # n => r.next[m] = h.next[m]
         /\ \A m \in Node : m # n /\ h.next[m] = n => r.next[m] = h.next[n]
<1> DEFINE r == ListDeleteSelf(h, n)
<1>1. /\ h.next \in [Node -> Node] /\ h.prev \in [Node -> Node]
      /\ \A m \in Node : h.prev[h.next[m]] = m /\ h.next[h.prev[m]] = m
  BY DEF Heaps, WellLinked
<1>2. /\ r.next = [[h.next EXCEPT ![h.prev[n]] = h.next[n]] EXCEPT ![n] = n]
      /\ r.prev = [[h.prev EXCEPT ![h.next[n]] = h.prev[n]] EXCEPT ![n] = n]
      /\ r = [next |-> r.next, prev |-> r.prev]
  BY DEF ListDeleteSelf, ListInit
<1> HIDE DEF r
<1>3. /\ r.next \in [Node -> Node] /\ r.prev \in [Node -> Node]
  BY <1>1, <1>2
<1>4. \A m \in Node : r.next[m] = IF m = n THEN n
                                ELSE IF m = h.prev[n] THEN h.next[n] ELSE h.next[m]
  BY <1>1, <1>2
<1>5. \A m \in Node : r.prev[m] = IF m = n THEN n
                                ELSE IF m = h.next[n] THEN h.prev[n] ELSE h.prev[m]
  BY <1>1, <1>2
<1>6. r \in Heaps(Node)
  BY <1>2, <1>3 DEF Heaps
<1>7. ASSUME NEW m \in Node PROVE r.prev[r.next[m]] = m /\ r.next[r.prev[m]] = m
  <2>1. /\ h.next[m] \in Node /\ h.prev[m] \in Node
        /\ h.next[n] \in Node /\ h.prev[n] \in Node
        /\ h.prev[h.next[m]] = m /\ h.next[h.prev[m]] = m
        /\ h.prev[h.next[n]] = n /\ h.next[h.prev[n]] = n
    BY <1>1
  <2>2. CASE m = n
    BY <1>4, <1>5, <2>2
  <2>3. CASE m # n
    <3>1. r.prev[r.next[m]] = m
      <4>1. CASE m = h.prev[n]
        <5>1. r.next[m] = h.next[n] /\ h.next[n] # n
          BY <1>4, <2>1, <2>3, <4>1
        <5> QED
          BY <1>5, <2>1, <4>1, <5>1
      <4>2. CASE m # h.prev[n]
        <5>1. r.next[m] = h.next[m] /\ h.next[m] # n /\ h.next[m] # h.next[n]
          BY <1>4, <2>1, <2>3, <4>2
        <5> QED
          BY <1>5, <2>1, <5>1
      <4> QED
        BY <4>1, <4>2
    <3>2. r.next[r.prev[m]] = m
      <4>1. CASE m = h.next[n]
        <5>1. r.prev[m] = h.prev[n] /\ h.prev[n] # n
          BY <1>5, <2>1, <2>3, <4>1
        <5> QED
          BY <1>4, <2>1, <4>1, <5>1
      <4>2. CASE m # h.next[n]
        <5>1. r.prev[m] = h.prev[m] /\ h.prev[m] # n /\ h.prev[m] # h.prev[n]
          BY <1>5, <2>1, <2>3, <4>2
        <5> QED
          BY <1>4, <2>1, <5>1
      <4> QED
        BY <4>1, <4>2
    <3> QED
      BY <3>1, <3>2
  <2> QED
    BY <2>2, <2>3
<1>8. WellLinked(r)
  BY <1>3, <1>7 DEF WellLinked
<1> QED
  BY <1>1, <1>4, <1>5, <1>6, <1>8 DEF r

(* yr_list_insert_before of a node that is in no list, before any node of  *)
(* a list or its head: the node is linked in exactly there.  The new node  *)
(* must be unlinked: this is what the kernel's status checks are for.      *)
THEOREM InsertBeforeSafe ==
  ASSUME NEW Node, NEW h \in Heaps(Node), WellLinked(h),
         NEW l \in Node, NEW n \in Node, l # n, h.next[n] = n
  PROVE  LET r == ListInsertBefore(h, l, n) IN
         /\ r \in Heaps(Node)
         /\ WellLinked(r)
         /\ r.next[n] = l /\ r.next[h.prev[l]] = n
         /\ \A m \in Node \ {n, h.prev[l]} : r.next[m] = h.next[m]
<1> DEFINE r == ListInsertBefore(h, l, n)
           p == h.prev[l]
<1>1. /\ h.next \in [Node -> Node] /\ h.prev \in [Node -> Node]
      /\ \A m \in Node : h.prev[h.next[m]] = m /\ h.next[h.prev[m]] = m
  BY DEF Heaps, WellLinked
<1>2. /\ r.next = [[h.next EXCEPT ![n] = l] EXCEPT ![p] = n]
      /\ r.prev = [[h.prev EXCEPT ![n] = p] EXCEPT ![l] = n]
      /\ r = [next |-> r.next, prev |-> r.prev]
  BY DEF ListInsertBefore
<1>3. p \in Node /\ p # n /\ h.next[p] = l /\ h.prev[n] = n
  BY <1>1
<1> HIDE DEF r, p
<1>4. r.next \in [Node -> Node] /\ r.prev \in [Node -> Node]
  <2>1. /\ [h.next EXCEPT ![n] = l] \in [Node -> Node]
        /\ [h.prev EXCEPT ![n] = p] \in [Node -> Node]
    BY <1>1, <1>3
  <2> QED
    BY <1>2, <1>3, <2>1
<1>5. \A m \in Node : r.next[m] = IF m = p THEN n ELSE IF m = n THEN l ELSE h.next[m]
  BY <1>1, <1>2, <1>3
<1>6. \A m \in Node : r.prev[m] = IF m = l THEN n ELSE IF m = n THEN p ELSE h.prev[m]
  BY <1>1, <1>2, <1>3
<1>7. r \in Heaps(Node)
  BY <1>2, <1>4 DEF Heaps
<1>8. ASSUME NEW m \in Node PROVE r.prev[r.next[m]] = m /\ r.next[r.prev[m]] = m
  BY <1>1, <1>3, <1>5, <1>6
<1>9. WellLinked(r)
  BY <1>4, <1>8 DEF WellLinked
<1> QED
  BY <1>3, <1>5, <1>6, <1>7, <1>9 DEF r, p
=============================================================================
