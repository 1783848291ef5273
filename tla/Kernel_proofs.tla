--------------------------- MODULE Kernel_proofs ----------------------------
(***************************************************************************)
(* Theorems about the kernel, for every set of tasks, every workload and   *)
(* every value of the other constants: its types, the order of its timers, *)
(* that status and lists agree and the bitmap covers the ready queues, and *)
(* first come, first served within a priority.                             *)
(***************************************************************************)
EXTENDS Kernel, Lists_proofs

Covers(s) == \A p \in Prio : s.lists[p] # <<>> => p \in s.group

InList(s, t, l) == t \in Range(s.lists[l])

LEMMA ConstantFacts ==
  /\ Prio \subseteq Nat /\ Prio \subseteq ListId /\ Defunct \in ListId
  /\ Ipc \subseteq ListId
  /\ Idle \in Task /\ User \subseteq Task /\ NoTask \notin Task
  /\ MaxPriority - 1 \in Prio
  /\ SliceTicks \in 1 .. SliceTicks
  /\ BasePrio \in [Task -> Prio]
BY TaskAssumption, SizeAssumption, ListAssumption, WorkloadAssumption
   DEF Prio, ListId, Task

-----------------------------------------------------------------------------
(* The scheduler's operations on any well-typed scheduler state: each is   *)
(* well-typed, keeps the bitmap covering the non-empty queues, and moves   *)
(* no node but the one it is given.                                        *)

LEMMA InsertSched ==
  ASSUME NEW s \in SchedType, NEW t \in Task, NEW p \in Prio, NEW m \in Prio
  PROVE  LET r == SchedInsert(s, t, p, m) IN
         /\ r \in SchedType
         /\ Covers(s) /\ m = p => Covers(r)
         /\ \A l \in ListId : \A u : InList(r, u, l) <=> InList(s, u, l) \/ (l = p /\ u = t)
         /\ InjectiveLists(s.lists) /\ ~InList(s, t, p) => InjectiveLists(r.lists)
<1> DEFINE r == SchedInsert(s, t, p, m)
<1>1. r = [lists |-> LinkLast(s.lists, p, t), group |-> s.group \cup {m}]
  BY DEF SchedInsert
<1>2. s.lists \in [ListId -> Seq(Task)] /\ s.group \subseteq Prio /\ p \in ListId
  BY ConstantFacts DEF SchedType
<1>3. /\ LinkLast(s.lists, p, t) \in [ListId -> Seq(Task)]
      /\ LinkLast(s.lists, p, t)[p] # <<>>
      /\ \A l \in ListId : l # p => LinkLast(s.lists, p, t)[l] = s.lists[l]
      /\ \A l \in ListId : \A u : u \in Range(LinkLast(s.lists, p, t)[l])
                                <=> u \in Range(s.lists[l]) \/ (l = p /\ u = t)
      /\ InjectiveLists(s.lists) /\ t \notin Range(s.lists[p])
           => InjectiveLists(LinkLast(s.lists, p, t))
  <2>1. /\ s.lists \in [ListId -> Seq(Task)] /\ p \in ListId /\ t \in Task
    BY <1>2
  <2> QED
    BY ONLY <2>1, LinkLastProperties, Zenon
<1> HIDE DEF r
<1>4. r \in SchedType
  BY <1>1, <1>2, <1>3 DEF SchedType
<1>5. Covers(s) /\ m = p => Covers(r)
  BY <1>1, <1>3, ConstantFacts DEF Covers
<1> QED
  BY <1>1, <1>3, <1>4, <1>5 DEF InList, r

LEMMA UnlinkSched ==
  ASSUME NEW s \in SchedType, NEW t
  PROVE  LET r == [s EXCEPT !.lists = Unlink(@, t)] IN
         /\ r \in SchedType
         /\ r.group = s.group
         /\ Covers(s) => Covers(r)
         /\ \A l \in ListId : \A u : u # t => (InList(r, u, l) <=> InList(s, u, l))
         /\ InjectiveLists(s.lists) => /\ InjectiveLists(r.lists)
                                       /\ \A l \in ListId : ~InList(r, t, l)
<1> DEFINE r == [s EXCEPT !.lists = Unlink(@, t)]
<1>1. s.lists \in [ListId -> Seq(Task)] /\ s.group \subseteq Prio
  BY DEF SchedType
<1>2. /\ Unlink(s.lists, t) \in [ListId -> Seq(Task)]
      /\ \A l \in ListId : \A u : u # t =>
           (u \in Range(Unlink(s.lists, t)[l]) <=> u \in Range(s.lists[l]))
      /\ \A l \in ListId : s.lists[l] = <<>> => Unlink(s.lists, t)[l] = <<>>
      /\ InjectiveLists(s.lists)
           => /\ InjectiveLists(Unlink(s.lists, t))
              /\ \A l \in ListId : t \notin Range(Unlink(s.lists, t)[l])
  BY <1>1, UnlinkProperties, Zenon
<1>3. r \in SchedType /\ r.lists = Unlink(s.lists, t) /\ r.group = s.group
  BY <1>1, <1>2 DEF SchedType
<1> HIDE DEF r
<1>4. Covers(s) => Covers(r)
  BY <1>2, <1>3, ConstantFacts DEF Covers
<1> QED
  BY <1>2, <1>3, <1>4 DEF InList, r

LEMMA RemoveSched ==
  ASSUME NEW s \in SchedType, NEW t, NEW p \in Prio, NEW m \in Prio
  PROVE  LET r == SchedRemove(s, t, p, m) IN
         /\ r \in SchedType
         /\ Covers(s) /\ m = p => Covers(r)
         /\ r.lists = Unlink(s.lists, t)
         /\ \A l \in ListId : \A u : u # t => (InList(r, u, l) <=> InList(s, u, l))
         /\ InjectiveLists(s.lists) => /\ InjectiveLists(r.lists)
                                       /\ \A l \in ListId : ~InList(r, t, l)
<1> DEFINE r == SchedRemove(s, t, p, m)
           x == [s EXCEPT !.lists = Unlink(@, t)]
<1>1. /\ x \in SchedType
      /\ x.lists = Unlink(s.lists, t)
      /\ x.group = s.group
      /\ Covers(s) => Covers(x)
      /\ \A l \in ListId : \A u : u # t => (InList(x, u, l) <=> InList(s, u, l))
      /\ InjectiveLists(s.lists) => /\ InjectiveLists(x.lists)
                                    /\ \A l \in ListId : ~InList(x, t, l)
  <2>1. x.lists = Unlink(s.lists, t)
    BY DEF SchedType
  <2> QED
    BY <2>1, UnlinkSched, Zenon
<1> HIDE DEF x
<1>2. r = [lists |-> x.lists,
           group |-> IF x.lists[p] = <<>> THEN s.group \ {m} ELSE s.group]
  BY <1>1 DEF SchedRemove
<1> HIDE DEF r
<1>3. r \in SchedType
  BY <1>1, <1>2 DEF SchedType
<1>4. Covers(s) /\ m = p => Covers(r)
  BY <1>1, <1>2 DEF Covers
<1> QED
  BY <1>1, <1>2, <1>3, <1>4 DEF InList, r

(* yr_sched_yield moves a task to the end of the queue it is in.           *)
LEMMA RotateSched ==
  ASSUME NEW s \in SchedType, NEW t \in Task, NEW p \in Prio
  PROVE  LET r == Rotate(s, t, p) IN
         /\ r \in SchedType
         /\ Covers(s) /\ p \in s.group => Covers(r)
         /\ \A l \in ListId : \A u : u # t => (InList(r, u, l) <=> InList(s, u, l))
         /\ InjectiveLists(s.lists) =>
              /\ InjectiveLists(r.lists)
              /\ \A l \in ListId : InList(r, t, l) <=> l = p
<1> DEFINE x == [s EXCEPT !.lists = Unlink(@, t)]
           y == SchedInsert(x, t, p, p)
           r == Rotate(s, t, p)
<1>1. /\ x \in SchedType
      /\ x.group = s.group
      /\ Covers(s) => Covers(x)
      /\ \A l \in ListId : \A u : u # t => (InList(x, u, l) <=> InList(s, u, l))
      /\ InjectiveLists(s.lists) => /\ InjectiveLists(x.lists)
                                    /\ \A l \in ListId : ~InList(x, t, l)
  BY UnlinkSched, Zenon
<1>2. r = [s EXCEPT !.lists = y.lists]
  BY DEF Rotate, SchedInsert, SchedType
<1> HIDE DEF x
<1>3. /\ y \in SchedType
      /\ Covers(x) => Covers(y)
      /\ \A l \in ListId : \A u : InList(y, u, l) <=> InList(x, u, l) \/ (l = p /\ u = t)
      /\ InjectiveLists(x.lists) /\ ~InList(x, t, p) => InjectiveLists(y.lists)
  BY <1>1, InsertSched, Zenon
<1>4. y.group = x.group \cup {p}
  BY DEF SchedInsert
<1> HIDE DEF y, r
<1>5. r \in SchedType /\ r.lists = y.lists /\ r.group = s.group
  BY <1>2, <1>3 DEF SchedType
<1>6. Covers(s) /\ p \in s.group => Covers(r)
  BY <1>1, <1>3, <1>4, <1>5 DEF Covers
<1>7. ASSUME NEW l \in ListId, NEW u
      PROVE  InList(r, u, l) <=> InList(x, u, l) \/ (l = p /\ u = t)
  BY <1>3, <1>5 DEF InList
<1>8. p \in ListId
  BY ConstantFacts
<1> QED
  BY <1>1, <1>3, <1>5, <1>6, <1>7, <1>8 DEF r

(* __task_delete ends with the node in the defunct list.                   *)
LEMMA LinkDefunct ==
  ASSUME NEW s \in SchedType, NEW t \in Task
  PROVE  LET r == [s EXCEPT !.lists = LinkLast(@, Defunct, t)] IN
         /\ r \in SchedType
         /\ Covers(s) => Covers(r)
         /\ \A l \in ListId : \A u :
              InList(r, u, l) <=> InList(s, u, l) \/ (l = Defunct /\ u = t)
         /\ InjectiveLists(s.lists) /\ ~InList(s, t, Defunct)
              => InjectiveLists(r.lists)
<1> DEFINE r == [s EXCEPT !.lists = LinkLast(@, Defunct, t)]
           q == LinkLast(s.lists, Defunct, t)
<1>1. s.lists \in [ListId -> Seq(Task)] /\ s.group \subseteq Prio /\ Defunct \in ListId
  BY ConstantFacts DEF SchedType
<1>2. /\ LinkLast(s.lists, Defunct, t) \in [ListId -> Seq(Task)]
      /\ LinkLast(s.lists, Defunct, t)[Defunct] # <<>>
      /\ \A l \in ListId : l # Defunct => LinkLast(s.lists, Defunct, t)[l] = s.lists[l]
      /\ \A l \in ListId : \A u : u \in Range(LinkLast(s.lists, Defunct, t)[l])
                                <=> u \in Range(s.lists[l]) \/ (l = Defunct /\ u = t)
      /\ InjectiveLists(s.lists) /\ t \notin Range(s.lists[Defunct])
           => InjectiveLists(LinkLast(s.lists, Defunct, t))
  <2>1. s.lists \in [ListId -> Seq(Task)] /\ Defunct \in ListId /\ t \in Task
    BY <1>1
  <2> QED
    BY ONLY <2>1, LinkLastProperties, Zenon
<1>3. r \in SchedType /\ r.lists = q /\ r.group = s.group
  BY <1>1, <1>2 DEF SchedType
<1> HIDE DEF r
<1>4. Covers(s) => Covers(r)
  BY <1>2, <1>3, ConstantFacts, ListAssumption DEF Covers
<1> QED
  BY <1>2, <1>3, <1>4 DEF InList, r

(* yr_ipc_reorder_blocked_task takes the waiter out and puts it back.      *)
LEMMA ReorderSched ==
  ASSUME NEW s \in SchedType, NEW t \in Task, NEW i \in Ipc, NEW prio
  PROVE  LET rest == Unlink(s.lists, t)
             r == [s EXCEPT !.lists =
                     [rest EXCEPT ![i] = InsertByPriority(@, t, prio)]]
         IN
         /\ r \in SchedType
         /\ Covers(s) => Covers(r)
         /\ \A l \in ListId : \A u : u # t => (InList(r, u, l) <=> InList(s, u, l))
         /\ InjectiveLists(s.lists) =>
              /\ InjectiveLists(r.lists)
              /\ \A l \in ListId : InList(r, t, l) <=> l = i
<1> DEFINE x == [s EXCEPT !.lists = Unlink(@, t)]
           q == InsertByPriority(x.lists[i], t, prio)
           r == [s EXCEPT !.lists = [Unlink(s.lists, t) EXCEPT ![i] = q]]
<1>0. x.lists = Unlink(s.lists, t)
  BY DEF SchedType
<1>1. /\ x \in SchedType
      /\ x.group = s.group
      /\ Covers(s) => Covers(x)
      /\ \A l \in ListId : \A u : u # t => (InList(x, u, l) <=> InList(s, u, l))
      /\ InjectiveLists(s.lists) => /\ InjectiveLists(x.lists)
                                    /\ \A l \in ListId : ~InList(x, t, l)
  BY UnlinkSched, Zenon
<1> HIDE DEF x
<1>2. i \in ListId /\ i \notin Prio /\ x.lists[i] \in Seq(Task)
  BY <1>1, ConstantFacts, ListAssumption DEF SchedType
<1>3. /\ q \in Seq(Task)
      /\ \A u : u \in Range(q) <=> u \in Range(x.lists[i]) \/ u = t
      /\ IsInjective(x.lists[i]) /\ t \notin Range(x.lists[i]) => IsInjective(q)
  <2> DEFINE places == {j \in DOMAIN x.lists[i] : prio[t] < prio[x.lists[i][j]]}
  <2>1. q = InsertBefore(x.lists[i], t, places)
    BY DEF InsertByPriority
  <2>2. places \in SUBSET DOMAIN x.lists[i]
    OBVIOUS
  <2> HIDE DEF q, places
  <2> QED
    BY <1>2, <2>1, <2>2, InsertBeforeProperties
<1> HIDE DEF q
<1>4. /\ r \in SchedType
      /\ r.group = s.group
      /\ r.lists = [x.lists EXCEPT ![i] = q]
  BY <1>0, <1>1, <1>2, <1>3 DEF SchedType
<1>5. r.lists[i] = q /\ \A l \in ListId : l # i => r.lists[l] = x.lists[l]
  BY <1>1, <1>2, <1>4 DEF SchedType
<1>6. DOMAIN r.lists = ListId /\ DOMAIN x.lists = ListId
  BY <1>1, <1>4 DEF SchedType
<1> HIDE DEF r
<1>7. Covers(s) => Covers(r)
  BY <1>1, <1>2, <1>4, <1>5, ConstantFacts DEF Covers
<1>8. ASSUME NEW l \in ListId, NEW u
      PROVE  InList(r, u, l) <=> InList(x, u, l) \/ (l = i /\ u = t)
  BY <1>3, <1>5 DEF InList
<1>9. InjectiveLists(x.lists) /\ ~InList(x, t, i) => InjectiveLists(r.lists)
  BY <1>2, <1>3, <1>5, <1>6 DEF InjectiveLists, InList
<1>10. r = [s EXCEPT !.lists = [Unlink(s.lists, t) EXCEPT ![i] =
                                  InsertByPriority(@, t, prio)]]
  BY <1>0, <1>1, <1>2 DEF r, q, SchedType
<1> QED
  BY <1>1, <1>2, <1>4, <1>7, <1>8, <1>9, <1>10

(* The timer list stays a list of tasks, and yr_timer_check takes a prefix. *)
LEMMA TimerListTypes ==
  ASSUME NEW q \in Seq(Task), NEW t \in Task, NEW d
  PROVE  /\ Without(q, t) \in Seq(Task)
         /\ InsertTimer(Without(q, t), t, d) \in Seq(Task)
<1>1. Without(q, t) \in Seq(Task)
  BY WithoutProperties
<1> DEFINE r == Without(q, t)
           places == {i \in DOMAIN r : d[r[i]] > d[t]}
<1>2. InsertTimer(r, t, d) = InsertBefore(r, t, places)
  BY DEF InsertTimer
<1>3. places \in SUBSET DOMAIN r /\ r \in Seq(Task)
  BY <1>1
<1> HIDE DEF r, places
<1> QED
  BY <1>1, <1>2, <1>3, InsertBeforeProperties DEF r

LEMMA ExpiredRange ==
  ASSUME NEW q \in Seq(Task), NEW d
  PROVE  ExpiredCount(q, d) \in 0 .. Len(q)
<1> DEFINE n == ExpiredCount(q, d)
           pending == {i \in DOMAIN q : d[q[i]] > 0}
<1>1. Len(q) \in Nat /\ DOMAIN q = 1 .. Len(q)
  BY LenProperties
<1>2. pending \in SUBSET Nat /\ pending \subseteq 1 .. Len(q)
  BY <1>1
<1>3. n = IF pending = {} THEN Len(q) ELSE Min(pending) - 1
  BY DEF ExpiredCount
<1> HIDE DEF pending, n
<1>4. pending # {} => Min(pending) \in 1 .. Len(q)
  BY <1>2, MinProperties
<1>5. n \in 0 .. Len(q)
  BY <1>1, <1>3, <1>4
<1> QED
  BY <1>5 DEF n

LEMMA ExpiredPrefix ==
  ASSUME NEW q \in Seq(Task), NEW d
  PROVE  LET n == ExpiredCount(q, d) IN
         SubSeq(q, 1, n) \in Seq(Task) /\ SubSeq(q, n + 1, Len(q)) \in Seq(Task)
<1> DEFINE n == ExpiredCount(q, d)
<1>1. Len(q) \in Nat /\ DOMAIN q = 1 .. Len(q)
  BY LenProperties
<1>2. n \in 0 .. Len(q)
  BY ExpiredRange
<1> HIDE DEF n
<1>3. \A j \in 1 .. Len(q) : q[j] \in Task
  BY ElementOfSeq
<1>4. (\A j \in 1 .. n : q[j] \in Task) /\ \A j \in n + 1 .. Len(q) : q[j] \in Task
  BY <1>1, <1>2, <1>3
<1>5. n \in Int /\ n + 1 \in Int /\ Len(q) \in Int /\ 1 \in Int
  BY <1>1, <1>2
<1>6. SubSeq(q, 1, n) \in Seq(Task)
  BY <1>4, <1>5, SubSeqProperties
<1>7. SubSeq(q, n + 1, Len(q)) \in Seq(Task)
  BY <1>4, <1>5, SubSeqProperties
<1> QED
  BY <1>6, <1>7 DEF n

(* q is cut after its n-th element into p and r.                           *)
Cut(q, n, p, r) == p = SubSeq(q, 1, n) /\ r = SubSeq(q, n + 1, Len(q))

LEMMA CutPlaces ==
  ASSUME NEW q \in Seq(Task), NEW n \in 0 .. Len(q), NEW p, NEW r, Cut(q, n, p, r)
  PROVE  /\ DOMAIN p = 1 .. n
         /\ \A j \in 1 .. n : p[j] = q[j]
         /\ DOMAIN r = 1 .. Len(q) - n
         /\ \A j \in 1 .. Len(q) - n : r[j] = q[j + n]
<1>1. Len(q) \in Nat /\ DOMAIN q = 1 .. Len(q) /\ \A j \in 1 .. Len(q) : q[j] \in Task
  BY LenProperties, ElementOfSeq
<1>2. /\ DOMAIN p = 1 .. n
      /\ \A j \in 1 .. n : p[j] = q[j]
  BY <1>1, SubSeqProperties DEF Cut
<1>3. /\ DOMAIN r = 1 .. Len(q) - n
      /\ \A j \in 1 .. Len(q) - n : r[j] = q[j + n]
  BY <1>1, SubSeqProperties DEF Cut
<1> QED
  BY <1>2, <1>3

LEMMA CutProperties ==
  ASSUME NEW q \in Seq(Task), NEW n \in 0 .. Len(q), NEW p, NEW r, Cut(q, n, p, r)
  PROVE  /\ \A u : u \in Range(q) <=> u \in Range(p) \/ u \in Range(r)
         /\ IsInjective(q) => /\ IsInjective(p) /\ IsInjective(r)
                              /\ \A u : ~ (u \in Range(p) /\ u \in Range(r))
<1>1. Len(q) \in Nat /\ DOMAIN q = 1 .. Len(q) /\ \A j \in 1 .. Len(q) : q[j] \in Task
  BY LenProperties, ElementOfSeq
<1>2. /\ DOMAIN p = 1 .. n
      /\ \A j \in 1 .. n : p[j] = q[j]
  BY CutPlaces
<1>3. /\ DOMAIN r = 1 .. Len(q) - n
      /\ \A j \in 1 .. Len(q) - n : r[j] = q[j + n]
  BY CutPlaces
<1>4. ASSUME NEW u, u \in Range(q) PROVE u \in Range(p) \/ u \in Range(r)
  <2>1. PICK j \in 1 .. Len(q) : q[j] = u
    BY <1>1, <1>4 DEF Range
  <2>2. CASE j <= n
    <3>1. j \in 1 .. n
      BY <2>2, <1>1
    <3> QED
      BY <3>1, <2>1, <1>2 DEF Range
  <2>3. CASE j > n
    <3>1. j - n \in 1 .. Len(q) - n /\ (j - n) + n = j
      BY <2>3, <1>1
    <3> QED
      BY <3>1, <2>1, <1>3 DEF Range
  <2> QED
    BY <2>2, <2>3, <1>1
<1>5. ASSUME NEW u, u \in Range(p) PROVE u \in Range(q)
  <2>1. PICK j \in 1 .. n : p[j] = u
    BY <1>2, <1>5 DEF Range
  <2>2. j \in 1 .. Len(q)
    BY <1>1
  <2> QED
    BY <2>1, <2>2, <1>1, <1>2 DEF Range
<1>6. ASSUME NEW u, u \in Range(r) PROVE u \in Range(q)
  <2>1. PICK j \in 1 .. Len(q) - n : r[j] = u
    BY <1>3, <1>6 DEF Range
  <2>2. j + n \in 1 .. Len(q)
    BY <1>1
  <2> QED
    BY <2>1, <2>2, <1>1, <1>3 DEF Range
<1>7. ASSUME IsInjective(q)
      PROVE  /\ IsInjective(p) /\ IsInjective(r)
             /\ \A u : ~ (u \in Range(p) /\ u \in Range(r))
  <2>1. \A a, b \in 1 .. Len(q) : q[a] = q[b] => a = b
    BY <1>1, <1>7 DEF IsInjective
  <2>2. ASSUME NEW a \in 1 .. n, NEW b \in 1 .. n, p[a] = p[b] PROVE a = b
    <3>1. a \in 1 .. Len(q) /\ b \in 1 .. Len(q)
      BY <1>1
    <3> QED
      BY <3>1, <2>1, <2>2, <1>2
  <2>3. ASSUME NEW a \in 1 .. Len(q) - n, NEW b \in 1 .. Len(q) - n, r[a] = r[b]
        PROVE  a = b
    <3>1. a + n \in 1 .. Len(q) /\ b + n \in 1 .. Len(q)
      BY <1>1
    <3>2. a + n = b + n
      BY <3>1, <2>1, <2>3, <1>3
    <3> QED
      BY <3>2, <1>1
  <2>4. ASSUME NEW u, u \in Range(p), u \in Range(r) PROVE FALSE
    <3>1. PICK a \in 1 .. n : p[a] = u
      BY <1>2, <2>4 DEF Range
    <3>2. PICK b \in 1 .. Len(q) - n : r[b] = u
      BY <1>3, <2>4 DEF Range
    <3>3. a \in 1 .. Len(q) /\ b + n \in 1 .. Len(q) /\ a # b + n
      BY <1>1
    <3> QED
      BY <3>1, <3>2, <3>3, <2>1, <1>2, <1>3
  <2>5. IsInjective(p)
    BY ONLY <2>2, <1>2 DEF IsInjective
  <2>6. IsInjective(r)
    BY ONLY <2>3, <1>3 DEF IsInjective
  <2> QED
    BY <2>4, <2>5, <2>6
<1> QED
  BY <1>4, <1>5, <1>6, <1>7

-----------------------------------------------------------------------------
(* The type invariant needs to know where the null task pointer cannot be. *)
IType ==
  /\ TypeOK
  /\ tick # "off" => current \in Task
  /\ tick = "timeout" => firing \in Task
  /\ \A t \in Task : pc[t] = "start" => arg[t] \in User

LEMMA DispatchType ==
  ASSUME IType, Dispatch, current \in Task
  PROVE  /\ current' \in Task
         /\ status' \in [Task -> Status]
         /\ current' # current =>
              /\ current' = Chosen(sched)
              /\ status'[current'] = "RUNNING"
              /\ status'[current] = IF status[current] = "RUNNING" THEN "READY"
                                    ELSE status[current]
              /\ \A t \in Task \ {current, current'} : status'[t] = status[t]
         /\ current' = current => UNCHANGED status /\ current = Chosen(sched)
         /\ \E p \in Prio : InList(sched, current', p)
<1>1. sched \in SchedType /\ status \in [Task -> Status]
  BY DEF IType, TypeOK
<1>2. CanDispatch(sched)
  BY DEF Dispatch
<1>3. /\ Chosen(sched) \in Task
      /\ Top(sched) \in Prio
      /\ InList(sched, Chosen(sched), Top(sched))
  <2>1. /\ Prio \in SUBSET Nat /\ Prio \subseteq ListId
        /\ sched \in [lists : [ListId -> Seq(Task)], group : SUBSET Prio]
    BY <1>1, ConstantFacts DEF SchedType
  <2> QED
    BY <1>2, <2>1, ChosenProperties DEF InList
<1>4. CASE Chosen(sched) = current
  BY <1>1, <1>3, <1>4 DEF Dispatch
<1>5. CASE Chosen(sched) # current
  <2>1. /\ current' = Chosen(sched)
        /\ status' = [status EXCEPT
             ![current] = IF status[current] = "RUNNING" THEN "READY" ELSE status[current],
             ![Chosen(sched)] = "RUNNING"]
    BY <1>5 DEF Dispatch
  <2> QED
    BY <1>1, <1>3, <1>5, <2>1 DEF Status
<1> QED
  BY <1>4, <1>5

LEMMA StartEffectType ==
  ASSUME IType, NEW u \in Task, StartEffect(u)
  PROVE  /\ sched' \in SchedType
         /\ status' \in [Task -> Status]
         /\ curPrio' \in [Task -> Prio]
         /\ slice' \in [Task -> 1 .. SliceTicks]
         /\ sched' = SchedInsert(sched, u, curPrio'[u], mask[u])
         /\ UNCHANGED <<initPrio, mask, holds, msg>>
<1>1. /\ sched \in SchedType /\ status \in [Task -> Status]
      /\ curPrio \in [Task -> Prio] /\ initPrio \in [Task -> Prio]
      /\ slice \in [Task -> 1 .. SliceTicks] /\ mask[u] \in Prio
  BY DEF IType, TypeOK
<1>2. status' \in [Task -> Status] /\ curPrio' \in [Task -> Prio]
  BY <1>1 DEF StartEffect, Status
<1>3. slice' \in [Task -> 1 .. SliceTicks]
  BY <1>1, ConstantFacts DEF StartEffect
<1>4. sched' = SchedInsert(sched, u, curPrio'[u], mask[u]) /\ curPrio'[u] \in Prio
  BY <1>2 DEF StartEffect
<1>5. sched' \in SchedType
  BY <1>1, <1>4, InsertSched
<1> QED
  BY <1>2, <1>3, <1>4, <1>5 DEF StartEffect

LEMMA StopTimerType ==
  ASSUME IType, NEW u \in Task, StopTimer(u)
  PROVE  /\ timerList' \in Seq(Task) /\ due' \in Seq(Task)
         /\ left' \in [Task -> Int] /\ UNCHANGED firing
<1>1. timerList \in Seq(Task) /\ due \in Seq(Task) /\ left \in [Task -> Int]
  BY DEF IType, TypeOK
<1>2. Without(timerList, u) \in Seq(Task) /\ Without(due, u) \in Seq(Task)
  BY <1>1, TimerListTypes, Zenon
<1>3. left' \in [Task -> Int]
  BY <1>1 DEF StopTimer
<1> QED
  BY <1>2, <1>3 DEF StopTimer

LEMMA StartTimerType ==
  ASSUME IType, NEW u \in Task, NEW n \in Int, StartTimer(u, n)
  PROVE  /\ timerList' \in Seq(Task) /\ due' \in Seq(Task)
         /\ left' \in [Task -> Int] /\ UNCHANGED firing
<1>1. timerList \in Seq(Task) /\ due \in Seq(Task) /\ left \in [Task -> Int]
  BY DEF IType, TypeOK
<1>2. /\ Without(due, u) \in Seq(Task)
      /\ InsertTimer(Without(timerList, u), u, left') \in Seq(Task)
  BY <1>1, TimerListTypes, Zenon
<1>3. left' \in [Task -> Int]
  BY <1>1 DEF StartTimer
<1> QED
  BY <1>2, <1>3 DEF StartTimer

LEMMA DeleteEffectType ==
  ASSUME IType, NEW u \in Task, DeleteEffect(u)
  PROVE  /\ sched' \in SchedType
         /\ status' \in [Task -> Status]
         /\ timerList' \in Seq(Task) /\ due' \in Seq(Task)
         /\ left' \in [Task -> Int]
         /\ UNCHANGED <<current, initPrio, curPrio, mask, slice, holds, msg,
                        firing, tick, arg, idleDone, fault>>
<1> DEFINE removed == IF status[u] \in {"READY", "RUNNING"}
                      THEN SchedRemove(sched, u, curPrio[u], mask[u])
                      ELSE [sched EXCEPT !.lists = Unlink(@, u)]
<1>1. sched \in SchedType /\ curPrio[u] \in Prio /\ mask[u] \in Prio
  BY DEF IType, TypeOK
<1>2. removed \in SchedType
  BY <1>1, UnlinkSched, RemoveSched
<1>3. sched' = [removed EXCEPT !.lists = LinkLast(@, Defunct, u)]
  BY DEF DeleteEffect
<1> HIDE DEF removed
<1>4. sched' \in SchedType
  BY <1>2, <1>3, LinkDefunct
<1>5. /\ timerList' \in Seq(Task) /\ due' \in Seq(Task)
      /\ left' \in [Task -> Int] /\ UNCHANGED firing
  BY StopTimerType DEF DeleteEffect
<1>6. status' = [status EXCEPT ![u] = "TERMINATED"]
  BY DEF DeleteEffect
<1>7. status' \in [Task -> Status]
  BY <1>6 DEF IType, TypeOK, Status
<1> QED
  BY <1>4, <1>5, <1>7 DEF DeleteEffect

(* The members of the enumerated types the actions use.                    *)
LEMMA Literals ==
  /\ {"INIT", "READY", "RUNNING", "BLOCKED", "SUSPENDED", "TERMINATED",
      "DELETED"} \subseteq Status
  /\ {"off", "yield", "switch", "check", "fire", "timeout", "fireSwitch"}
       \subseteq Stage
  /\ {"app", "start", "switch"} \subseteq Label
  /\ {"none", "misdispatched", "relinked"} \subseteq Fault
  /\ NoMsg \in MsgType
  /\ [NoMsg EXCEPT !.reason = "SLEEP"] \in MsgType
  /\ [NoMsg EXCEPT !.notify = "TIMEOUT"] \in MsgType
BY DEF Status, Stage, Label, Fault, MsgType, NoMsg

LEMMA ITypeInit == Init => IType
<1> SUFFICES ASSUME Init PROVE IType
  OBVIOUS
<1> DEFINE empty == [lists |-> [l \in ListId |-> <<>>], group |-> {}]
<1>1. empty \in SchedType
  BY DEF SchedType
<1>2. sched \in SchedType
  <2>1. sched = SchedInsert(empty, Idle, MaxPriority - 1, MaxPriority - 1)
    BY DEF Init
  <2> HIDE DEF empty
  <2> QED
    BY <1>1, <2>1, InsertSched, ConstantFacts
<1>3. <<>> \in Seq(Task)
  BY EmptySeq
<1>4. /\ status \in [Task -> Status] /\ msg \in [Task -> MsgType]
      /\ pc \in [Task -> Label]
  BY Literals DEF Init
<1>5. /\ slice \in [Task -> 1 .. SliceTicks] /\ holds \in [Task -> Nat]
      /\ left \in [Task -> Int]
      /\ arg \in [Task -> Task \cup {NoTask}]
  BY ConstantFacts DEF Init
<1>6. /\ initPrio \in [Task -> Prio] /\ curPrio \in [Task -> Prio]
      /\ mask \in [Task -> Prio]
  BY ConstantFacts DEF Init
<1>7. timerList \in Seq(Task) /\ due \in Seq(Task)
  BY <1>3 DEF Init
<1>8. /\ current = NoTask /\ tick = "off" /\ firing = NoTask
      /\ idleDone = FALSE /\ fault = "none" /\ \A t \in Task : pc[t] = "app"
  BY DEF Init
<1>9. TypeOK
  BY <1>2, <1>4, <1>5, <1>6, <1>7, <1>8, Literals DEF TypeOK
<1> QED
  BY <1>8, <1>9 DEF IType

(* Every step, one by one, leaves all variables in their types.            *)
LEMMA ITypeStep == IType /\ [Next]_vars => IType'
<1> SUFFICES ASSUME IType, [Next]_vars PROVE IType'
  OBVIOUS
<1> USE DEF IType
<1>a. /\ sched \in SchedType
      /\ timerList \in Seq(Task) /\ due \in Seq(Task) /\ left \in [Task -> Int]
      /\ curPrio \in [Task -> Prio] /\ mask \in [Task -> Prio]
      /\ status \in [Task -> Status]
  BY DEF TypeOK
<1>b. User \subseteq Task /\ NoTask \notin Task /\ Idle \in Task /\ Prio \subseteq ListId
  BY ConstantFacts
<1>1. ASSUME NEW u \in User, MainStart(u) PROVE IType'
  <2>1. StartEffect(u) /\ u \in Task
    BY <1>1, <1>b DEF MainStart
  <2> QED
    BY <1>1, <2>1, <1>b, StartEffectType, Literals
    DEF MainStart, TypeOK, timerVars
<1>2. ASSUME KernelStart PROVE IType'
  <2>1. current' \in Task
    <3>1. /\ Prio \in SUBSET Nat /\ Prio \subseteq ListId
          /\ sched \in [lists : [ListId -> Seq(Task)], group : SUBSET Prio]
      BY <1>a, ConstantFacts DEF SchedType
    <3> QED
      BY <1>2, <3>1, ChosenProperties DEF KernelStart
  <2> QED
    BY <1>2, <2>1, ConstantFacts, Literals DEF KernelStart, TypeOK, timerVars
<1>3. ASSUME NEW t \in User, StartCommit(t) PROVE IType'
  <2>1. StartEffect(arg[t]) /\ arg[t] \in Task
    BY <1>3, <1>b DEF StartCommit
  <2> DEFINE label == IF Preempts(curPrio'[arg[t]], t) THEN "switch" ELSE "app"
  <2>2. pc' = [pc EXCEPT ![t] = label] /\ label \in Label /\ label # "start"
    BY <1>3, Literals DEF StartCommit, Goto
  <2> HIDE DEF label
  <2>3. arg' = [arg EXCEPT ![t] = NoTask]
    BY <1>3 DEF StartCommit
  <2> QED
    BY <1>3, <2>1, <2>2, <2>3, <1>b, StartEffectType, Literals
    DEF StartCommit, Executes, TypeOK, timerVars
<1>4. ASSUME NEW t \in User, StartRelinks(t) PROVE IType'
  BY <1>4, Literals DEF StartRelinks, Crash, TypeOK, taskVars, timerVars
<1>5. ASSUME NEW t \in User, TaskSwitch(t) PROVE IType'
  <2>1. Dispatch /\ current \in Task
    BY <1>5, <1>b DEF TaskSwitch, Executes
  <2>2. current' \in Task /\ status' \in [Task -> Status]
    BY <2>1, DispatchType
  <2> QED
    BY <1>5, <2>2, <1>b, Literals DEF TaskSwitch, Executes, Goto, TypeOK, timerVars
<1>6. ASSUME NEW t \in User, TaskMisdispatch(t) PROVE IType'
  BY <1>6, Literals DEF TaskMisdispatch, Misdispatch, Crash, TypeOK, taskVars, timerVars
<1>7. ASSUME NEW t \in User, NEW n \in 1 .. MaxSleep, Sleep(t, n) PROVE IType'
  <2>1. sched' \in SchedType
    BY <1>7, <1>a, <1>b, RemoveSched DEF Sleep
  <2>2. /\ timerList' \in Seq(Task) /\ due' \in Seq(Task)
        /\ left' \in [Task -> Int] /\ UNCHANGED firing
    BY <1>7, <1>b, StartTimerType DEF Sleep
  <2>3. msg' \in [Task -> MsgType]
    BY <1>7, Literals DEF Sleep, TypeOK
  <2> QED
    BY <1>7, <2>1, <2>2, <2>3, <1>b, Literals
    DEF Sleep, MayCall, Executes, Goto, TypeOK
<1>8. ASSUME NEW t \in User, SleepZero(t) PROVE IType'
  BY <1>8, Literals DEF SleepZero, Goto, TypeOK, taskVars, timerVars
<1>9. ASSUME NEW t \in User, Yield(t) PROVE IType'
  <2>1. sched' \in SchedType
    BY <1>9, <1>a, <1>b, RotateSched DEF Yield
  <2> QED
    BY <1>9, <2>1, Literals DEF Yield, MayCall, Executes, Goto, TypeOK, taskVars, timerVars
<1>10. ASSUME NEW t \in User, Exit(t) PROVE IType'
  <2>1. DeleteEffect(t) /\ t \in Task
    BY <1>10, <1>b DEF Exit
  <2>2. /\ pc' \in [Task -> Label]
        /\ \A x \in Task : pc'[x] = "start" => pc[x] = "start"
    BY <1>10, Literals DEF Exit, Goto, TypeOK
  <2>3. tick = "off"
    BY <1>10 DEF Exit, MayCall, Executes
  <2> QED
    BY <2>1, <2>2, <2>3, DeleteEffectType DEF TypeOK
<1>11. ASSUME NEW t \in User, NEW u \in User, StartCheck(t, u) PROVE IType'
  BY <1>11, <1>b, Literals DEF StartCheck, Goto, TypeOK, taskVars, timerVars
<1>12. ASSUME NEW t \in User, NEW u \in User, Suspend(t, u) PROVE IType'
  <2>1. sched' \in SchedType
    <3>1. /\ SchedRemove(sched, u, curPrio[u], mask[u]) \in SchedType
          /\ [sched EXCEPT !.lists = Unlink(@, u)] \in SchedType
      <4>1. curPrio[u] \in Prio /\ mask[u] \in Prio
        BY <1>a, <1>b
      <4> QED
        BY <4>1, <1>a, RemoveSched, UnlinkSched, Zenon
    <3> QED
      BY <1>12, <3>1 DEF Suspend
  <2>2. /\ timerList' \in Seq(Task) /\ due' \in Seq(Task)
        /\ left' \in [Task -> Int] /\ UNCHANGED firing
    <3>1. CASE StopTimer(u)
      BY <3>1, <1>b, StopTimerType
    <3>2. CASE UNCHANGED timerVars
      BY <3>2, <1>a DEF timerVars
    <3> QED
      BY <1>12, <3>1, <3>2 DEF Suspend
  <2> QED
    BY <1>12, <2>1, <2>2, <1>b, Literals
    DEF Suspend, MayCall, Executes, Goto, TypeOK
<1>13. ASSUME NEW t \in User, NEW u \in User, Delete(t, u) PROVE IType'
  <2>1. DeleteEffect(u) /\ u \in Task
    BY <1>13, <1>b DEF Delete
  <2>2. /\ pc' \in [Task -> Label]
        /\ \A x \in Task : pc'[x] = "start" => pc[x] = "start"
    BY <1>13, Literals DEF Delete, Goto, TypeOK
  <2>3. tick = "off"
    BY <1>13 DEF Delete, MayCall, Executes
  <2> QED
    BY <2>1, <2>2, <2>3, DeleteEffectType DEF TypeOK
<1>14. ASSUME NEW t \in User, NEW u \in User, Create(t, u) PROVE IType'
  BY <1>14, <1>b, ConstantFacts, Literals
  DEF Create, MayCall, Executes, TypeOK, timerVars
<1>15. ASSUME NEW t \in User, NEW u \in User, NEW p \in Prio, SetPriority(t, u, p)
       PROVE  IType'
  <2>1. CASE (holds[u] = 0 \/ p < curPrio[u]) /\ curPrio[u] # p
    <3>1. /\ ChangePriority(u, p) /\ curPrio' = [curPrio EXCEPT ![u] = p]
          /\ mask' = MaskFor(curPrio')
      BY <1>15, <2>1 DEF SetPriority, ChangePriority
    <3>2. sched' \in SchedType
      <4>1. Reordered(sched, u, curPrio') \in SchedType
        <5>1. CASE /\ msg[u].reason = "IPC"
                   /\ msg[u].source # NoIpc /\ msg[u].source \in prioIpc
          <6>1. msg[u].source \in Ipc /\ u \in Task
            BY <5>1, <1>b DEF TypeOK, MsgType
          <6>2. PICK i \in Ipc : i = msg[u].source
            BY <6>1
          <6>3. PICK prio : prio = curPrio'
            OBVIOUS
          <6> DEFINE rest == Unlink(sched.lists, u)
                     r == [sched EXCEPT !.lists =
                             [rest EXCEPT ![i] = InsertByPriority(@, u, prio)]]
          <6>4. r \in SchedType
            BY ONLY <1>a, <6>1, ReorderSched, Zenon
          <6> QED
            BY <5>1, <6>2, <6>3, <6>4 DEF Reordered
        <5> QED
          BY <5>1, <1>a DEF Reordered
      <4>2. SchedInsert(SchedRemove(sched, u, p, p), u, p, p) \in SchedType
        BY <1>a, <1>b, RemoveSched, InsertSched
      <4> QED
        BY <3>1, <4>1, <4>2, <1>a, <1>b DEF ChangePriority, Reprioritised, TypeOK
    <3>3. \E label \in {"switch", "app"} : pc' = [pc EXCEPT ![t] = label]
      BY <1>15, <2>1 DEF SetPriority, Goto
    <3>4. /\ curPrio' \in [Task -> Prio]
          /\ pc' \in [Task -> Label]
          /\ \A x \in Task : pc'[x] = "start" => pc[x] = "start"
      BY <3>1, <3>3, Literals, ZenonT(30) DEF TypeOK
    <3>7. mask' \in [Task -> Prio]
      BY <3>1, <3>4, <1>a DEF MaskFor
    <3>5. initPrio' \in [Task -> Prio] /\ tick = "off"
      BY <1>15 DEF SetPriority, MayCall, Executes, TypeOK
    <3>6. UNCHANGED <<current, status, slice, holds, msg, timerVars, tick, arg,
                      idleDone, fault>>
      BY <1>15 DEF SetPriority
    <3> QED
      BY <3>2, <3>4, <3>5, <3>6, <3>7 DEF TypeOK, timerVars
  <2>2. CASE ~((holds[u] = 0 \/ p < curPrio[u]) /\ curPrio[u] # p)
    BY <1>15, <2>2, <1>b, Literals
    DEF SetPriority, MayCall, Executes, TypeOK, timerVars
  <2> QED
    BY <2>1, <2>2
<1>16. ASSUME CleanupDefunct PROVE IType'
  <2>1. sched' \in SchedType
    BY <1>16, <1>a, EmptySeq DEF CleanupDefunct, SchedType
  <2> QED
    BY <1>16, <2>1, Literals DEF CleanupDefunct, Executes, TypeOK, timerVars
<1>17. ASSUME TickBegin PROVE IType'
  <2>1. slice' \in [Task -> 1 .. SliceTicks]
    <3>1. slice \in [Task -> 1 .. SliceTicks]
      BY DEF TypeOK
    <3>2. CASE slice' = [slice EXCEPT ![current] = SliceTicks]
      BY <3>1, <3>2, ConstantFacts
    <3>3. CASE slice' = [slice EXCEPT ![current] = @ - 1] /\ slice[current] # 1
      <4>1. ASSUME NEW x \in Task
            PROVE  slice'[x] \in 1 .. SliceTicks
        <5>1. slice[x] \in 1 .. SliceTicks /\ SliceTicks \in Nat
          BY <3>1, SizeAssumption
        <5>2. slice'[x] = IF x = current THEN slice[x] - 1 ELSE slice[x]
          BY <3>1, <3>3
        <5> QED
          BY <3>3, <5>1, <5>2
      <4> QED
        BY <3>1, <3>3, <4>1
    <3>4. CASE UNCHANGED slice
      BY <3>1, <3>4
    <3> QED
      BY <1>17, <3>2, <3>3, <3>4 DEF TickBegin, ChargeSlice
  <2>2. current \in Task /\ tick' \in {"yield", "check"}
    BY <1>17, Literals DEF TickBegin, ChargeSlice, TypeOK
  <2>3. left' \in [Task -> Int]
    BY <1>17, <1>a DEF TickBegin
  <2>4. UNCHANGED <<sched, current, status, initPrio, curPrio, mask, holds, msg,
                    timerList, due, firing, pc, arg, idleDone, fault>>
    BY <1>17 DEF TickBegin
  <2> QED
    BY <2>1, <2>2, <2>3, <2>4, Literals DEF TypeOK
<1>18. ASSUME TickYield PROVE IType'
  <2>1. sched' \in SchedType /\ tick' \in {"check", "switch"}
    BY <1>18, <1>a, RotateSched DEF TickYield
  <2> QED
    BY <1>18, <2>1, Literals DEF TickYield, TypeOK, taskVars, timerVars
<1>19. ASSUME TickSwitch PROVE IType'
  <2>1. Dispatch /\ current \in Task
    BY <1>19 DEF TickSwitch
  <2>2. current' \in Task /\ status' \in [Task -> Status]
    BY <2>1, DispatchType
  <2> QED
    BY <1>19, <2>2, Literals DEF TickSwitch, TypeOK, timerVars
<1>20. ASSUME TickMisdispatch PROVE IType'
  BY <1>20, Literals DEF TickMisdispatch, Misdispatch, Crash, TypeOK, taskVars, timerVars
<1>21. ASSUME TickCheck PROVE IType'
  <2>1. timerList' \in Seq(Task) /\ due' \in Seq(Task)
    BY <1>21, <1>a, ExpiredPrefix DEF TickCheck
  <2> QED
    BY <1>21, <2>1, Literals DEF TickCheck, TypeOK, taskVars
<1>22. ASSUME TickPop PROVE IType'
  <2>1. firing' \in Task /\ due' \in Seq(Task)
    BY <1>22, <1>a, HeadTailProperties DEF TickPop
  <2> QED
    BY <1>22, <2>1, Literals DEF TickPop, TypeOK, taskVars
<1>23. ASSUME TickTimeout PROVE IType'
  <2>1. firing \in Task /\ current \in Task
    BY <1>23 DEF TickTimeout
  <2>2. sched' \in SchedType
    <3>1. [sched EXCEPT !.lists = Unlink(@, firing)] \in SchedType
      BY <1>a, UnlinkSched
    <3> QED
      BY <1>23, <2>1, <3>1, <1>a, InsertSched DEF TickTimeout
  <2>3. status' \in [Task -> Status] /\ tick' \in {"fire", "fireSwitch"}
    <3>1. [status EXCEPT ![firing] = "READY"] \in [Task -> Status]
      BY <1>a, Literals
    <3> QED
      BY <1>23, <1>a, <3>1 DEF TickTimeout
  <2>4. msg' \in [Task -> MsgType]
    BY <1>23, Literals DEF TickTimeout, TypeOK
  <2> QED
    BY <1>23, <2>1, <2>2, <2>3, <2>4, Literals DEF TickTimeout, TypeOK
<1>24. ASSUME TickEnd PROVE IType'
  BY <1>24, Literals DEF TickEnd, TypeOK, taskVars, timerVars
<1>25. ASSUME UNCHANGED vars PROVE IType'
  BY <1>25, Literals DEF vars, TypeOK, taskVars, timerVars
<1> QED
  BY <1>1, <1>2, <1>3, <1>4, <1>5, <1>6, <1>7, <1>8, <1>9, <1>10, <1>11, <1>12,
     <1>13, <1>14, <1>15, <1>16, <1>17, <1>18, <1>19, <1>20, <1>21, <1>22, <1>23,
     <1>24, <1>25
  DEF Next, TaskStep, TickStep, Halted

(* Type correctness of the kernel.                                         *)
THEOREM TypeCorrect == Spec => []TypeOK
<1>1. IType => TypeOK
  BY DEF IType
<1> QED
  BY <1>1, ITypeInit, ITypeStep, PTL DEF Spec

-----------------------------------------------------------------------------
(* Timers fire in time: yr_timer_list is in expiry order, and no expired   *)
(* timer is behind the place where yr_timer_check stops.                   *)

(* What yr_timer_check leaves in the list has not expired.                 *)
LEMMA UnexpiredRest ==
  ASSUME NEW q \in Seq(Task), NEW d \in [Task -> Int], InOrder(q, d), IsInjective(q),
         NEW p, NEW r, Cut(q, ExpiredCount(q, d), p, r)
  PROVE  InOrder(r, d) /\ IsInjective(r) /\ \A j \in DOMAIN r : d[r[j]] > 0
<1> DEFINE pending == {i \in DOMAIN q : d[q[i]] > 0}
<1>0. Len(q) \in Nat /\ DOMAIN q = 1 .. Len(q) /\ \A j \in 1 .. Len(q) : q[j] \in Task
  BY LenProperties, ElementOfSeq
<1>1. PICK n \in 0 .. Len(q) : n = ExpiredCount(q, d)
  BY ExpiredRange
<1>2. n = IF pending = {} THEN Len(q) ELSE Min(pending) - 1
  BY <1>1 DEF ExpiredCount
<1>3. pending # {} => Min(pending) \in pending
  <2>1. pending \in SUBSET Nat
    BY <1>0
  <2> HIDE DEF pending
  <2> QED
    BY <2>1, MinProperties
<1>4. Cut(q, n, p, r)
  BY <1>1
<1>5. /\ DOMAIN r = 1 .. Len(q) - n
      /\ \A j \in 1 .. Len(q) - n : r[j] = q[j + n]
  <2>1. q \in Seq(Task) /\ n \in 0 .. Len(q) /\ Cut(q, n, p, r)
    BY <1>1, <1>4
  <2> QED
    BY ONLY <2>1, CutPlaces
<1>6. \A j \in DOMAIN r : j \in Nat \ {0} /\ j + n \in DOMAIN q /\ r[j] = q[j + n]
  BY <1>0, <1>5
<1>7. InOrder(r, d)
  <2> SUFFICES ASSUME NEW i \in DOMAIN r, NEW j \in DOMAIN r, i < j
               PROVE  d[r[i]] <= d[r[j]]
    BY DEF InOrder
  <2>1. i + n < j + n
    BY <1>6
  <2> QED
    BY <1>6, <2>1 DEF InOrder
<1>8. IsInjective(r)
  <2> SUFFICES ASSUME NEW i \in DOMAIN r, NEW j \in DOMAIN r, r[i] = r[j]
               PROVE  i = j
    BY DEF IsInjective
  <2>1. i + n = j + n
    BY <1>6 DEF IsInjective
  <2> QED
    BY <1>6, <2>1
<1>9. ASSUME NEW j \in DOMAIN r PROVE d[r[j]] > 0
  <2>1. pending # {} /\ n + 1 \in pending /\ n + 1 \in DOMAIN q
    <3>1. n # Len(q) /\ n \in Nat
      BY <1>0, <1>1, <1>5
    <3>2. pending # {} /\ n = Min(pending) - 1
      BY <1>2, <3>1
    <3>3. Min(pending) \in pending /\ Min(pending) \in DOMAIN q
      BY <1>3, <3>2
    <3>4. n + 1 = Min(pending)
      BY <1>0, <3>2, <3>3
    <3> QED
      BY <3>2, <3>3, <3>4
  <2>2. d[q[n + 1]] > 0 /\ d[q[n + 1]] \in Int
    BY <1>0, <2>1
  <2>3. j + n = n + 1 \/ n + 1 < j + n
    BY <1>6
  <2>4. j + n = n + 1 \/ d[q[n + 1]] <= d[q[j + n]]
    BY <1>6, <2>1, <2>3 DEF InOrder
  <2>5. d[q[j + n]] \in Int
    BY <1>0, <1>6
  <2> QED
    BY <1>6, <2>2, <2>4, <2>5
<1> QED
  BY <1>7, <1>8, <1>9

(* The list is in order, and no timer in it has expired unless the handler *)
(* has yet to look: with fewer than one tick left after the decrement,     *)
(* with none at all before.                                                *)
Unchecked(stage) == stage \in {"yield", "switch", "check"}
TimersKept == UNCHANGED <<timerList, left>> /\ (Unchecked(tick') <=> Unchecked(tick))
AllAtLeast(q, d, k) == \A j \in DOMAIN q : d[q[j]] >= k

TimerOrder ==
  /\ IsInjective(timerList)
  /\ InOrder(timerList, left)
  /\ AllAtLeast(timerList, left, IF Unchecked(tick) THEN 0 ELSE 1)

(* Stopping a timer resets the count of a task that is no longer listed.   *)
LEMMA StopInOrder ==
  ASSUME IType, TimerOrder, NEW u \in Task, StopTimer(u), UNCHANGED tick
  PROVE  TimerOrder'
<1> DEFINE r == Without(timerList, u)
           low == IF Unchecked(tick) THEN 0 ELSE 1
<1>1. timerList \in Seq(Task) /\ left \in [Task -> Int]
  BY DEF IType, TypeOK
<1>2. r \in Seq(Task) /\ IsInjective(r) /\ u \notin Range(r)
      /\ \A x : x # u => (x \in Range(r) <=> x \in Range(timerList))
  BY <1>1, WithoutProperties DEF TimerOrder
<1>3. InOrder(r, left)
  BY <1>1, WithoutInOrder DEF TimerOrder
<1>4. timerList' = r /\ left' = [left EXCEPT ![u] = 0]
  BY DEF StopTimer
<1> HIDE DEF r
<1>5. \A j \in DOMAIN r : r[j] \in Task /\ r[j] # u /\ r[j] \in Range(timerList)
  <2>1. \A j \in DOMAIN r : r[j] \in Task
    BY <1>2, ElementOfSeq, LenProperties
  <2> QED
    BY <1>2, <2>1 DEF Range
<1>6. \A j \in DOMAIN r : left'[r[j]] = left[r[j]]
  BY <1>1, <1>4, <1>5
<1>7. AllAtLeast(r, left, low)
  BY <1>5 DEF TimerOrder, AllAtLeast, Range
<1>8. PICK q, d : q = timerList' /\ d = left'
  OBVIOUS
<1>9. InOrder(q, d) /\ AllAtLeast(q, d, low) /\ IsInjective(q)
  BY <1>2, <1>3, <1>4, <1>6, <1>7, <1>8 DEF InOrder, AllAtLeast
<1> QED
  BY <1>8, <1>9 DEF TimerOrder, InOrder, AllAtLeast, IsInjective

LEMMA StartInOrder ==
  ASSUME IType, TimerOrder, NEW u \in Task, NEW n \in Nat \ {0}, StartTimer(u, n),
         UNCHANGED tick
  PROVE  TimerOrder'
<1> DEFINE r == Without(timerList, u)
           low == IF Unchecked(tick) THEN 0 ELSE 1
<1>1. timerList \in Seq(Task) /\ left \in [Task -> Int]
  BY DEF IType, TypeOK
<1>2. r \in Seq(Task) /\ IsInjective(r) /\ u \notin Range(r)
      /\ \A x : x # u => (x \in Range(r) <=> x \in Range(timerList))
  BY <1>1, WithoutProperties DEF TimerOrder
<1>3. InOrder(r, left)
  BY <1>1, WithoutInOrder DEF TimerOrder
<1>4. PICK d \in [Task -> Int] : d = [left EXCEPT ![u] = n] /\ d = left'
  <2>1. left' = [left EXCEPT ![u] = n]
    BY DEF StartTimer
  <2> QED
    BY <1>1, <2>1
<1>5. timerList' = InsertTimer(r, u, d)
  BY <1>4 DEF StartTimer
<1> HIDE DEF r
<1>6. \A j \in DOMAIN r : r[j] \in Task /\ r[j] # u /\ r[j] \in Range(timerList)
  <2>1. \A j \in DOMAIN r : r[j] \in Task
    BY <1>2, ElementOfSeq, LenProperties
  <2> QED
    BY <1>2, <2>1 DEF Range
<1>7. \A j \in DOMAIN r : d[r[j]] = left[r[j]]
  BY <1>1, <1>4, <1>6
<1>8. InOrder(r, d)
  BY <1>3, <1>7 DEF InOrder
<1>9. PICK q : q = InsertTimer(r, u, d)
  OBVIOUS
<1>10. InOrder(q, d)
  BY <1>2, <1>8, <1>9, InsertInOrder
<1>11. /\ IsInjective(q)
       /\ \A x : x \in Range(q) <=> x \in Range(r) \/ x = u
  <2> DEFINE places == {i \in DOMAIN r : d[r[i]] > d[u]}
  <2>1. q = InsertBefore(r, u, places) /\ places \in SUBSET DOMAIN r
    BY <1>9 DEF InsertTimer
  <2> HIDE DEF places
  <2> QED
    BY <1>2, <2>1, InsertBeforeProperties
<1>12. \A x \in Range(q) : d[x] >= low
  <2>1. \A x \in Range(r) : d[x] >= low
    BY <1>6, <1>7 DEF TimerOrder, AllAtLeast, Range
  <2>2. d[u] >= low
    BY <1>1, <1>4
  <2> QED
    BY <1>11, <2>1, <2>2
<1>13. AllAtLeast(q, d, low)
  BY <1>12 DEF AllAtLeast, Range
<1> QED
  BY <1>4, <1>5, <1>9, <1>10, <1>11, <1>13 DEF TimerOrder, InOrder, AllAtLeast, IsInjective

LEMMA TimerOrderInit == Init => TimerOrder
  BY DEF Init, TimerOrder, InOrder, AllAtLeast, IsInjective

LEMMA TimerOrderStep == IType /\ TimerOrder /\ [Next]_vars => TimerOrder'
<1> SUFFICES ASSUME IType, TimerOrder, [Next]_vars PROVE TimerOrder'
  OBVIOUS
<1>a. timerList \in Seq(Task) /\ left \in [Task -> Int]
  BY DEF IType, TypeOK
<1>b. User \subseteq Task
  BY ConstantFacts
<1>1. TimersKept => TimerOrder'
  <2> SUFFICES ASSUME TimersKept PROVE TimerOrder'
    OBVIOUS
  <2>1. /\ timerList' = timerList /\ left' = left
        /\ Unchecked(tick') <=> Unchecked(tick)
    BY DEF TimersKept
  <2> QED
    BY <2>1 DEF TimerOrder, InOrder, AllAtLeast, IsInjective
<1>2. ASSUME NEW t \in User, NEW n \in 1 .. MaxSleep, Sleep(t, n) PROVE TimerOrder'
  <2>1. StartTimer(t, n) /\ UNCHANGED tick /\ n \in Nat \ {0}
    BY <1>2, SizeAssumption DEF Sleep
  <2> QED
    BY <2>1, <1>b, StartInOrder
<1>3. ASSUME NEW u \in Task, DeleteEffect(u) PROVE TimerOrder'
  BY <1>3, StopInOrder DEF DeleteEffect
<1>4. ASSUME NEW t \in User, NEW u \in User, Suspend(t, u) PROVE TimerOrder'
  <2>1. UNCHANGED tick /\ (UNCHANGED timerVars \/ StopTimer(u))
    BY <1>4 DEF Suspend
  <2>2. CASE UNCHANGED timerVars
    BY <1>1, <2>1, <2>2 DEF TimersKept, Unchecked, timerVars
  <2>3. CASE StopTimer(u)
    BY <1>b, <2>1, <2>3, StopInOrder
  <2> QED
    BY <2>1, <2>2, <2>3
<1>5. ASSUME TickBegin PROVE TimerOrder'
  <2>1. tick = "off" /\ UNCHANGED timerList /\ Unchecked(tick')
    BY <1>5 DEF TickBegin, ChargeSlice, Unchecked
  <2>2. \A j \in DOMAIN timerList :
          left[timerList[j]] \in Int /\ left'[timerList[j]] = left[timerList[j]] - 1
    <3>1. \A j \in DOMAIN timerList : timerList[j] \in Task
      BY <1>a, ElementOfSeq, LenProperties
    <3> QED
      BY <1>5, <1>a, <3>1 DEF TickBegin, Range
  <2>3. PICK d : d = left'
    OBVIOUS
  <2>4. IsInjective(timerList) /\ InOrder(timerList, left)
        /\ AllAtLeast(timerList, left, 1)
    BY <2>1 DEF TimerOrder, Unchecked
  <2>5. InOrder(timerList, d) /\ AllAtLeast(timerList, d, 0)
    BY <2>2, <2>3, <2>4 DEF InOrder, AllAtLeast
  <2> QED
    BY <2>1, <2>3, <2>4, <2>5 DEF TimerOrder, InOrder, AllAtLeast, IsInjective
<1>6. ASSUME TickCheck PROVE TimerOrder'
  <2>1. PICK p, r : p = due' /\ r = timerList'
    OBVIOUS
  <2>2. Cut(timerList, ExpiredCount(timerList, left), p, r)
    BY <1>6, <2>1 DEF TickCheck, Cut
  <2>3. IsInjective(timerList) /\ InOrder(timerList, left)
    BY DEF TimerOrder
  <2>4. InOrder(r, left) /\ IsInjective(r) /\ \A j \in DOMAIN r : left[r[j]] > 0
    BY ONLY <1>a, <2>2, <2>3, UnexpiredRest
  <2>5. \A j \in DOMAIN r : left[r[j]] \in Int
    <3>1. r \in Seq(Task)
      BY <2>1, <1>6, <1>a, ExpiredPrefix DEF TickCheck
    <3> QED
      BY <1>a, <3>1, ElementOfSeq, LenProperties
  <2>6. AllAtLeast(r, left, 1)
    BY <2>4, <2>5 DEF AllAtLeast
  <2>7. UNCHANGED left /\ ~Unchecked(tick')
    BY <1>6 DEF TickCheck, Unchecked
  <2> QED
    BY <2>1, <2>4, <2>6, <2>7 DEF TimerOrder, InOrder, AllAtLeast, IsInjective
<1>7. ASSUME NEW t \in User, TaskStep(t) PROVE TimerOrder'
  <2>1. ASSUME NEW n \in 1 .. MaxSleep, Sleep(t, n) PROVE TimerOrder'
    BY <1>2, <2>1
  <2>2. CASE Exit(t)
    BY <1>3, <1>b, <2>2 DEF Exit
  <2>3. ASSUME NEW u \in User, Suspend(t, u) \/ Delete(t, u) PROVE TimerOrder'
    BY <1>3, <1>4, <1>b, <2>3 DEF Delete
  <2>4. CASE \/ StartCommit(t) \/ StartRelinks(t) \/ TaskSwitch(t)
             \/ TaskMisdispatch(t) \/ SleepZero(t) \/ Yield(t)
    BY <1>1, <2>4 DEF StartCommit, StartRelinks, TaskSwitch, TaskMisdispatch,
       Misdispatch, Crash, SleepZero, Yield, timerVars, TimersKept, Unchecked
  <2>5. ASSUME NEW u \in User,
               StartCheck(t, u) \/ Create(t, u) \/ \E p \in Prio : SetPriority(t, u, p)
        PROVE  TimerOrder'
    BY <1>1, <2>5 DEF StartCheck, Create, SetPriority, timerVars,
       TimersKept, Unchecked
  <2> QED
    BY <1>7, <2>1, <2>2, <2>3, <2>4, <2>5 DEF TaskStep
<1>8. ASSUME \/ TickYield \/ TickSwitch \/ TickMisdispatch \/ TickPop
             \/ TickTimeout \/ TickEnd
      PROVE  TimerOrder'
  BY <1>1, <1>8 DEF TickYield, TickSwitch, TickMisdispatch, Misdispatch, Crash,
     TickPop, TickTimeout, TickEnd, TimersKept, Unchecked, timerVars
<1>9. ASSUME \/ \E u \in User : MainStart(u)
             \/ KernelStart \/ CleanupDefunct \/ UNCHANGED vars
      PROVE  TimerOrder'
  BY <1>1, <1>9 DEF MainStart, KernelStart, CleanupDefunct, vars, timerVars,
     TimersKept, Unchecked
<1> QED
  BY <1>5, <1>6, <1>7, <1>8, <1>9 DEF Next, TickStep, Halted

(* No timeout is missed, whatever timers tasks start, stop or let expire.  *)
THEOREM NoTimeoutMissed == Spec => []NoMissedTimeout
<1>1. IType /\ TimerOrder => NoMissedTimeout
  BY DEF TimerOrder, NoMissedTimeout, InOrder, AllAtLeast, Unchecked
<1> QED
  BY <1>1, ITypeInit, ITypeStep, TimerOrderInit, TimerOrderStep, PTL DEF Spec

-----------------------------------------------------------------------------
(* Status and lists *)

Ready(t) == status[t] \in {"READY", "RUNNING"}

Match == \A t \in Task, l \in ListId : InList(sched, t, l) <=> l \in Home(t)

SchedInv == Match /\ InjectiveLists(sched.lists)

(* The current task may be asked to give up the processor between two      *)
(* critical sections of one call only: whenever it can start a new call,   *)
(* its node is in a ready queue, as yr_sched_yield takes for granted.      *)
RunInv ==
  /\ OnlyCurrentRuns
  /\ current # NoTask /\ pc[current] # "switch" => Ready(current)
  /\ tick = "yield" => status[current] = "RUNNING"

Inv == IType /\ SchedInv /\ RunInv

-----------------------------------------------------------------------------
(* What Match says of one task, and how it survives a step that moves the  *)
(* node of one task only.                                                  *)

LEMMA InReadyQueue ==
  ASSUME IType, Match, NEW t \in Task, NEW p \in Prio
  PROVE  InList(sched, t, p) <=> Ready(t) /\ p = curPrio[t]
<1>1. p \in ListId /\ p # Defunct /\ p \notin Ipc \cup {NoIpc}
  BY ConstantFacts, ListAssumption
<1>2. msg[t].source \in Ipc \cup {NoIpc}
  BY DEF IType, TypeOK, MsgType
<1>3. InList(sched, t, p) <=> p \in Home(t)
  BY <1>1 DEF Match
<1> QED
  BY <1>1, <1>2, <1>3 DEF Home, Ready

LEMMA InDefunctList ==
  ASSUME IType, Match, NEW t \in Task
  PROVE  InList(sched, t, Defunct) <=> status[t] = "TERMINATED"
<1>1. Defunct \in ListId /\ Defunct \notin Prio /\ Defunct \notin Ipc \cup {NoIpc}
  BY ConstantFacts, ListAssumption
<1>2. msg[t].source \in Ipc \cup {NoIpc} /\ curPrio[t] \in Prio
  BY DEF IType, TypeOK, MsgType
<1>3. InList(sched, t, Defunct) <=> Defunct \in Home(t)
  BY <1>1 DEF Match
<1> QED
  BY <1>1, <1>2, <1>3 DEF Home

LEMMA MoveOne ==
  ASSUME Match, NEW t \in Task,
         \A u \in Task : u # t => /\ status'[u] = status[u]
                                /\ curPrio'[u] = curPrio[u]
                                /\ msg'[u] = msg[u],
         \A l \in ListId : \A u : u # t => (InList(sched', u, l) <=> InList(sched, u, l)),
         \A l \in ListId : InList(sched', t, l) <=> l \in Home(t)'
  PROVE  Match'
<1> SUFFICES ASSUME NEW u \in Task, NEW l \in ListId
             PROVE  InList(sched', u, l) <=> l \in Home(u)'
  BY DEF Match
<1>1. CASE u = t
  BY <1>1
<1>2. CASE u # t
  <2>1. Home(u)' = Home(u)
    BY <1>2 DEF Home
  <2> QED
    BY <1>2, <2>1 DEF Match
<1> QED
  BY <1>1, <1>2

-----------------------------------------------------------------------------
(* SchedInv is kept by the effect of every operation on the lists.         *)

LEMMA StartKeepsLists ==
  ASSUME IType, SchedInv, NEW u \in Task, StartEffect(u),
         \A l \in ListId : ~InList(sched, u, l)
  PROVE  SchedInv'
<1> DEFINE p == curPrio'[u]
<1>1. /\ sched' = SchedInsert(sched, u, p, mask[u])
      /\ p \in Prio /\ p \in ListId /\ mask[u] \in Prio
      /\ sched \in SchedType
  BY StartEffectType, ConstantFacts DEF IType, TypeOK
<1>2. /\ \A l \in ListId : \A x :
           InList(sched', x, l) <=> InList(sched, x, l) \/ (l = p /\ x = u)
      /\ InjectiveLists(sched.lists) /\ ~InList(sched, u, p)
           => InjectiveLists(sched'.lists)
  <2> HIDE DEF p
  <2> QED
    BY <1>1, InsertSched
<1>3. status'[u] = "READY"
  BY DEF StartEffect, IType, TypeOK
<1>4. Home(u)' = {p}
  BY <1>3 DEF Home
<1>5. \A x \in Task : x # u => /\ status'[x] = status[x]
                              /\ curPrio'[x] = curPrio[x]
                              /\ msg'[x] = msg[x]
  BY DEF StartEffect, IType, TypeOK
<1>6. \A l \in ListId : InList(sched', u, l) <=> l \in Home(u)'
  BY <1>2, <1>4
<1>7. Match'
  BY <1>2, <1>5, <1>6, MoveOne DEF SchedInv
<1> QED
  BY <1>1, <1>2, <1>7 DEF SchedInv

(* A step takes the node of u out of the lists, and u waits for no IPC     *)
(* object and is neither ready nor to be cleaned up.                       *)
LEMMA TakeKeepsLists ==
  ASSUME IType, SchedInv, NEW u \in Task, NEW p \in Prio, NEW m \in Prio,
         \/ sched' = SchedRemove(sched, u, p, m)
         \/ sched' = [sched EXCEPT !.lists = Unlink(@, u)],
         \A x \in Task : x # u => /\ status'[x] = status[x]
                                /\ curPrio'[x] = curPrio[x]
                                /\ msg'[x] = msg[x],
         Home(u)' = {}
  PROVE  SchedInv'
<1>1. sched \in SchedType
  BY DEF IType, TypeOK
<1>2. /\ \A l \in ListId : \A x : x # u => (InList(sched', x, l) <=> InList(sched, x, l))
      /\ InjectiveLists(sched.lists) => /\ InjectiveLists(sched'.lists)
                                        /\ \A l \in ListId : ~InList(sched', u, l)
  <2>1. CASE sched' = SchedRemove(sched, u, p, m)
    BY <1>1, <2>1, RemoveSched
  <2>2. CASE sched' = [sched EXCEPT !.lists = Unlink(@, u)]
    BY <1>1, <2>2, UnlinkSched
  <2> QED
    BY <2>1, <2>2
<1>3. Match'
  BY <1>2, MoveOne DEF SchedInv
<1> QED
  BY <1>2, <1>3 DEF SchedInv

LEMMA DeleteKeepsLists ==
  ASSUME IType, SchedInv, NEW u \in Task, DeleteEffect(u)
  PROVE  SchedInv'
<1> DEFINE removed == IF status[u] \in {"READY", "RUNNING"}
                      THEN SchedRemove(sched, u, curPrio[u], mask[u])
                      ELSE [sched EXCEPT !.lists = Unlink(@, u)]
<1>1. /\ sched \in SchedType /\ curPrio[u] \in Prio /\ mask[u] \in Prio
      /\ Defunct \in ListId
  BY ConstantFacts DEF IType, TypeOK
<1>2. /\ removed \in SchedType
      /\ \A l \in ListId : \A x : x # u => (InList(removed, x, l) <=> InList(sched, x, l))
      /\ InjectiveLists(sched.lists) => /\ InjectiveLists(removed.lists)
                                        /\ \A l \in ListId : ~InList(removed, u, l)
  BY <1>1, RemoveSched, UnlinkSched
<1>3. sched' = [removed EXCEPT !.lists = LinkLast(@, Defunct, u)]
  BY DEF DeleteEffect
<1> HIDE DEF removed
<1>4. /\ \A l \in ListId : \A x :
           InList(sched', x, l) <=> InList(removed, x, l) \/ (l = Defunct /\ x = u)
      /\ InjectiveLists(removed.lists) /\ ~InList(removed, u, Defunct)
           => InjectiveLists(sched'.lists)
  BY <1>2, <1>3, LinkDefunct
<1>5. /\ status' = [status EXCEPT ![u] = "TERMINATED"]
      /\ UNCHANGED <<curPrio, msg>>
  BY DEF DeleteEffect
<1>6. Home(u)' = {Defunct}
  BY <1>5 DEF Home, IType, TypeOK
<1>7. \A x \in Task : x # u => /\ status'[x] = status[x]
                              /\ curPrio'[x] = curPrio[x]
                              /\ msg'[x] = msg[x]
  BY <1>5 DEF IType, TypeOK
<1>8. \A l \in ListId : InList(sched', u, l) <=> l \in Home(u)'
  BY <1>2, <1>4, <1>6 DEF SchedInv
<1>9. \A l \in ListId : \A x : x # u => (InList(sched', x, l) <=> InList(sched, x, l))
  BY <1>2, <1>4
<1>10. Match'
  BY <1>7, <1>8, <1>9, MoveOne DEF SchedInv
<1> QED
  BY <1>1, <1>2, <1>4, <1>10 DEF SchedInv

(* yr_sched_yield of a task that is in the queue of its priority.          *)
LEMMA RotateKeepsLists ==
  ASSUME IType, SchedInv, NEW t \in Task, Ready(t),
         sched' = Rotate(sched, t, curPrio[t]), UNCHANGED taskVars
  PROVE  SchedInv'
<1>1. /\ sched \in SchedType /\ curPrio[t] \in Prio /\ curPrio[t] \in ListId
  BY ConstantFacts DEF IType, TypeOK
<1>3. /\ \A l \in ListId : \A u : u # t => (InList(sched', u, l) <=> InList(sched, u, l))
      /\ InjectiveLists(sched.lists) =>
           /\ InjectiveLists(sched'.lists)
           /\ \A l \in ListId : InList(sched', t, l) <=> l = curPrio[t]
  BY <1>1, RotateSched
<1>4. Home(t)' = {curPrio[t]}
  BY DEF Home, taskVars, Ready
<1>5. Match'
  BY <1>3, <1>4, MoveOne DEF SchedInv, taskVars
<1> QED
  BY <1>3, <1>5 DEF SchedInv

(* yr_timeout_default_func moves a BLOCKED task to its ready queue.        *)
LEMMA WakeKeepsLists ==
  ASSUME IType, SchedInv, NEW t \in Task,
         status' = [status EXCEPT ![t] = "READY"],
         \A u \in Task : u # t => msg'[u] = msg[u],
         NEW m \in Prio,
         sched' = SchedInsert([sched EXCEPT !.lists = Unlink(@, t)], t, curPrio[t], m),
         UNCHANGED curPrio
  PROVE  SchedInv'
<1> DEFINE x == [sched EXCEPT !.lists = Unlink(@, t)]
<1>1. /\ sched \in SchedType /\ curPrio[t] \in Prio /\ curPrio[t] \in ListId
  BY ConstantFacts DEF IType, TypeOK
<1>2. /\ x \in SchedType
      /\ \A l \in ListId : \A u : u # t => (InList(x, u, l) <=> InList(sched, u, l))
      /\ InjectiveLists(sched.lists) => /\ InjectiveLists(x.lists)
                                        /\ \A l \in ListId : ~InList(x, t, l)
  BY <1>1, UnlinkSched
<1>3. sched' = SchedInsert(x, t, curPrio[t], m)
  OBVIOUS
<1> HIDE DEF x
<1>4. /\ \A l \in ListId : \A u :
           InList(sched', u, l) <=> InList(x, u, l) \/ (l = curPrio[t] /\ u = t)
      /\ InjectiveLists(x.lists) /\ ~InList(x, t, curPrio[t])
           => InjectiveLists(sched'.lists)
  BY <1>1, <1>2, <1>3, InsertSched
<1>5. Home(t)' = {curPrio[t]}
  BY DEF Home, IType, TypeOK
<1>6. \A u \in Task : u # t => /\ status'[u] = status[u]
                              /\ curPrio'[u] = curPrio[u]
                              /\ msg'[u] = msg[u]
  BY DEF IType, TypeOK
<1>7. \A l \in ListId : InList(sched', t, l) <=> l \in Home(t)'
  BY <1>2, <1>4, <1>5 DEF SchedInv
<1>8. \A l \in ListId : \A u : u # t => (InList(sched', u, l) <=> InList(sched, u, l))
  BY <1>2, <1>4
<1>9. Match'
  BY <1>6, <1>7, <1>8, MoveOne DEF SchedInv
<1> QED
  BY <1>1, <1>2, <1>4, <1>9 DEF SchedInv

(* The list a task's status says its node is in, if p is its priority.     *)
Place(t, p) ==
  CASE Ready(t) -> {p}
    [] status[t] = "TERMINATED" -> {Defunct}
    [] status[t] = "BLOCKED" /\ msg[t].reason = "IPC" -> {msg[t].source}
    [] OTHER -> {}

InPlace(s, t, p) == \A l \in ListId : InList(s, t, l) <=> l \in Place(t, p)

(* yr_task_ctrl_current: a change of priority takes the node of a ready    *)
(* task from one queue to another, and moves that of an IPC waiter within  *)
(* its list.                                                               *)
LEMMA ReprioritisedSched ==
  ASSUME IType, NEW s \in SchedType, InjectiveLists(s.lists),
         NEW u \in Task, NEW p, InPlace(s, u, p), NEW prio, prio[u] \in Prio
  PROVE  LET r == Reprioritised(s, u, prio) IN
         /\ r \in SchedType /\ InjectiveLists(r.lists)
         /\ Covers(s) => Covers(r)
         /\ \A l \in ListId : \A t : t # u => (InList(r, t, l) <=> InList(s, t, l))
         /\ InPlace(r, u, prio[u])
<1> DEFINE r == Reprioritised(s, u, prio)
<1>1. CASE Ready(u)
  <2> DEFINE x == SchedRemove(s, u, prio[u], prio[u])
  <2>1. /\ x \in SchedType
        /\ Covers(s) => Covers(x)
        /\ \A l \in ListId : \A t : t # u => (InList(x, t, l) <=> InList(s, t, l))
        /\ InjectiveLists(x.lists)
        /\ \A l \in ListId : ~InList(x, u, l)
    BY RemoveSched
  <2>2. r = SchedInsert(x, u, prio[u], prio[u])
    BY <1>1 DEF Reprioritised, Ready
  <2> HIDE DEF x, r
  <2>3. prio[u] \in ListId
    BY ConstantFacts
  <2>4. /\ r \in SchedType /\ (Covers(s) => Covers(r))
        /\ \A l \in ListId : \A t :
             InList(r, t, l) <=> InList(x, t, l) \/ (l = prio[u] /\ t = u)
        /\ InjectiveLists(r.lists)
    BY <2>1, <2>2, <2>3, InsertSched
  <2>5. Place(u, prio[u]) = {prio[u]}
    BY <1>1 DEF Place, Ready
  <2>6. InPlace(r, u, prio[u])
    BY <2>1, <2>4, <2>5 DEF InPlace
  <2> QED
    BY <2>1, <2>4, <2>6 DEF r
<1>2. CASE ~Ready(u) /\ r = s
  <2>1. Place(u, prio[u]) = Place(u, p)
    BY <1>2 DEF Place
  <2> HIDE DEF r
  <2>2. InPlace(r, u, prio[u])
    BY <1>2, <2>1 DEF InPlace
  <2>3. r = Reprioritised(s, u, prio)
    BY DEF r
  <2> QED
    BY <1>2, <2>2, <2>3
<1>3. CASE /\ status[u] = "BLOCKED" /\ msg[u].reason = "IPC"
           /\ msg[u].source # NoIpc /\ msg[u].source \in prioIpc
  <2>1. PICK i \in Ipc : i = msg[u].source
    BY <1>3 DEF IType, TypeOK, MsgType
  <2> DEFINE rest == Unlink(s.lists, u)
             e == [s EXCEPT !.lists =
                     [rest EXCEPT ![i] = InsertByPriority(@, u, prio)]]
  <2>2. u \in Task /\ i \in Ipc /\ s \in SchedType /\ InjectiveLists(s.lists)
    OBVIOUS
  <2>3. e \in SchedType /\ (Covers(s) => Covers(e))
    BY ONLY <2>2, ReorderSched, Zenon
  <2>4. \A l \in ListId : \A x : x # u => (InList(e, x, l) <=> InList(s, x, l))
    BY ONLY <2>2, ReorderSched, Zenon
  <2>5. InjectiveLists(e.lists) /\ \A l \in ListId : InList(e, u, l) <=> l = i
    BY ONLY <2>2, ReorderSched, Zenon
  <2>6. r = e
    BY <1>3, <2>1 DEF Reprioritised, Reordered
  <2> HIDE DEF r, e
  <2>7. Place(u, prio[u]) = {i}
    BY <1>3, <2>1 DEF Place, Ready
  <2>8. InPlace(r, u, prio[u])
    BY <2>5, <2>6, <2>7 DEF InPlace
  <2> QED
    BY <2>3, <2>4, <2>5, <2>6, <2>8 DEF r
<1>4. \/ Ready(u)
      \/ ~Ready(u) /\ r = s
      \/ /\ status[u] = "BLOCKED" /\ msg[u].reason = "IPC"
         /\ msg[u].source # NoIpc /\ msg[u].source \in prioIpc
  BY DEF Reprioritised, Reordered, Ready
<1> QED
  BY <1>1, <1>2, <1>3, <1>4

LEMMA PriorityKeepsLists ==
  ASSUME IType, SchedInv, NEW u \in Task, NEW p \in Prio, ChangePriority(u, p),
         UNCHANGED <<status, msg>>
  PROVE  SchedInv'
<1>1. /\ sched \in SchedType /\ InjectiveLists(sched.lists)
      /\ curPrio \in [Task -> Prio]
  BY DEF IType, TypeOK, SchedInv
<1>2. PICK prio : prio = [curPrio EXCEPT ![u] = p]
  OBVIOUS
<1>3. curPrio' = prio /\ prio[u] = p /\ sched' = Reprioritised(sched, u, prio)
  BY <1>1, <1>2 DEF ChangePriority
<1>4. InPlace(sched, u, curPrio[u])
  <2>1. Place(u, curPrio[u]) = Home(u)
    BY DEF Place, Home, Ready
  <2> QED
    BY <2>1 DEF SchedInv, Match, InPlace
<1>5. /\ InjectiveLists(sched'.lists)
      /\ \A l \in ListId : \A t : t # u => (InList(sched', t, l) <=> InList(sched, t, l))
      /\ InPlace(sched', u, p)
  BY <1>1, <1>3, <1>4, ReprioritisedSched
<1>6. \A x \in Task : x # u => /\ status'[x] = status[x]
                              /\ curPrio'[x] = curPrio[x]
                              /\ msg'[x] = msg[x]
  BY <1>1, <1>2, <1>3
<1>7. \A l \in ListId : InList(sched', u, l) <=> l \in Home(u)'
  <2>1. Place(u, p) = Home(u)'
    BY <1>3 DEF Place, Home, Ready
  <2> QED
    BY <1>5, <2>1 DEF InPlace
<1>8. Match'
  BY <1>5, <1>6, <1>7, MoveOne DEF SchedInv
<1> QED
  BY <1>5, <1>8 DEF SchedInv

(* yr_task_cleanup_defunct empties the list of the TERMINATED tasks.       *)
LEMMA CleanupKeepsLists ==
  ASSUME IType, SchedInv, CleanupDefunct
  PROVE  SchedInv'
<1>1. /\ sched \in SchedType /\ Defunct \in ListId /\ Defunct \notin Prio
      /\ Prio \subseteq ListId /\ status \in [Task -> Status]
  BY ConstantFacts, ListAssumption DEF IType, TypeOK
<1>2. /\ sched' = [sched EXCEPT !.lists[Defunct] = <<>>]
      /\ status' = [t \in Task |-> IF InList(sched, t, Defunct)
                                    THEN "DELETED" ELSE status[t]]
      /\ UNCHANGED <<curPrio, msg>>
  BY DEF CleanupDefunct, InList
<1>3. /\ sched'.group = sched.group /\ DOMAIN sched'.lists = ListId
      /\ DOMAIN sched.lists = ListId
      /\ sched'.lists[Defunct] = <<>>
      /\ \A l \in ListId : l # Defunct => sched'.lists[l] = sched.lists[l]
  BY <1>1, <1>2 DEF SchedType
<1>5. InjectiveLists(sched'.lists)
  <2>1. IsInjective(<<>>)
    BY DEF IsInjective
  <2> QED
    BY <1>1, <1>3, <2>1 DEF SchedInv, InjectiveLists
<1>6. ASSUME NEW t \in Task, NEW l \in ListId
      PROVE  InList(sched', t, l) <=> l \in Home(t)'
  <2>1. CASE status[t] = "TERMINATED"
    <3>1. InList(sched, t, Defunct) /\ Home(t) = {Defunct}
      BY <2>1, InDefunctList DEF SchedInv, Home
    <3>2. Home(t)' = {}
      BY <1>2, <3>1 DEF Home
    <3>3. ~InList(sched', t, l)
      BY <1>3, <3>1 DEF SchedInv, Match, InList, Range
    <3> QED
      BY <3>2, <3>3
  <2>2. CASE status[t] # "TERMINATED"
    <3>1. ~InList(sched, t, Defunct)
      BY <2>2, InDefunctList DEF SchedInv
    <3>2. Home(t)' = Home(t)
      BY <1>2, <3>1 DEF Home
    <3>3. InList(sched', t, l) <=> InList(sched, t, l)
      BY <1>3, <3>1 DEF InList, Range
    <3> QED
      BY <3>2, <3>3 DEF SchedInv, Match
  <2> QED
    BY <2>1, <2>2
<1>7. Match'
  BY <1>6 DEF Match
<1> QED
  BY <1>5, <1>7 DEF SchedInv

(* A dispatch exchanges READY and RUNNING only, and runs a ready task.     *)
LEMMA DispatchKeepsLists ==
  ASSUME IType, SchedInv, OnlyCurrentRuns, current \in Task, Dispatch,
         UNCHANGED <<sched, curPrio, msg>>
  PROVE  SchedInv' /\ OnlyCurrentRuns' /\ status'[current'] \in {"READY", "RUNNING"}
<1>1. PICK p \in Prio : InList(sched, current', p)
  BY DispatchType
<1>2. /\ current' \in Task /\ status' \in [Task -> Status]
      /\ current' # current =>
           /\ status'[current'] = "RUNNING"
           /\ status'[current] = IF status[current] = "RUNNING" THEN "READY"
                                 ELSE status[current]
           /\ \A t \in Task \ {current, current'} : status'[t] = status[t]
      /\ current' = current => UNCHANGED status
  BY DispatchType
<1>3. Ready(current')
  BY <1>1, <1>2, InReadyQueue DEF SchedInv
<1>4. ASSUME NEW t \in Task PROVE Home(t)' = Home(t)
  BY <1>2, <1>3 DEF Home, Ready
<1>5. Match'
  BY <1>4 DEF SchedInv, Match
<1>6. OnlyCurrentRuns'
  BY <1>2 DEF OnlyCurrentRuns
<1> QED
  BY <1>2, <1>3, <1>5, <1>6 DEF SchedInv, Ready

-----------------------------------------------------------------------------
(* The inductive invariant *)

LEMMA InvInit == Init => Inv
<1> SUFFICES ASSUME Init PROVE Inv
  OBVIOUS
<1> DEFINE empty == [lists |-> [l \in ListId |-> <<>>], group |-> {}]
           p == MaxPriority - 1
<1>1. IType
  BY ITypeInit
<1>2. /\ empty \in SchedType /\ InjectiveLists(empty.lists)
      /\ \A l \in ListId : \A t : ~InList(empty, t, l)
  <2>1. /\ empty.lists \in [ListId -> Seq(Task)] /\ empty.group = {}
        /\ empty = [lists |-> empty.lists, group |-> empty.group]
        /\ \A l \in ListId : empty.lists[l] = <<>>
        /\ \A q \in Prio : q \in ListId
    BY ConstantFacts
  <2>2. Range(<<>>) = {} /\ IsInjective(<<>>)
    BY DEF Range, IsInjective
  <2> HIDE DEF empty
  <2>3. empty \in SchedType
    BY <2>1 DEF SchedType
  <2>4. InjectiveLists(empty.lists)
    BY <2>1, <2>2 DEF InjectiveLists
  <2>5. \A l \in ListId : \A t : ~InList(empty, t, l)
    BY <2>1, <2>2 DEF InList
  <2> QED
    BY <2>3, <2>4, <2>5
<1>3. Idle \in Task /\ p \in Prio /\ p \in ListId /\ BasePrio[Idle] = p
  BY ConstantFacts, WorkloadAssumption
<1>4. sched = SchedInsert(empty, Idle, p, p)
  BY DEF Init
<1> HIDE DEF empty, p
<1>5. /\ InjectiveLists(sched.lists)
      /\ \A l \in ListId : \A t : InList(sched, t, l) <=> l = p /\ t = Idle
  BY <1>2, <1>3, <1>4, InsertSched
<1>6. \A t \in Task : Home(t) = IF t = Idle THEN {p} ELSE {}
  BY <1>3 DEF Init, Home
<1>7. Match
  BY <1>5, <1>6 DEF Match
<1>8. RunInv
  BY DEF Init, RunInv, OnlyCurrentRuns
<1> QED
  BY <1>1, <1>5, <1>7, <1>8 DEF Inv, SchedInv

(* A step of task t that leaves the processor where it is.                 *)
LEMMA RunInvFrame ==
  ASSUME IType, RunInv, NEW t \in User, Executes(t), UNCHANGED <<current, tick>>,
         \A u \in Task : status'[u] = "RUNNING" => status[u] = "RUNNING",
         pc'[t] # "switch" => status'[t] = status[t] /\ pc[t] # "switch"
  PROVE  RunInv'
<1>1. t \in Task /\ current = t /\ tick = "off"
  BY ConstantFacts DEF Executes
<1> QED
  BY <1>1 DEF RunInv, OnlyCurrentRuns, Ready

LEMMA InvStep == Inv /\ [Next]_vars => Inv'
<1> SUFFICES ASSUME Inv, [Next]_vars PROVE SchedInv' /\ RunInv'
  BY ITypeStep DEF Inv
<1>a. IType /\ SchedInv /\ RunInv /\ OnlyCurrentRuns
  BY DEF Inv, RunInv
<1>b. /\ status \in [Task -> Status] /\ curPrio \in [Task -> Prio]
      /\ mask \in [Task -> Prio]
      /\ msg \in [Task -> MsgType] /\ pc \in [Task -> Label]
  BY <1>a DEF IType, TypeOK
<1>c. User \subseteq Task /\ NoTask \notin Task /\ Idle \in Task
  BY ConstantFacts
<1>d. ASSUME NEW t \in User, Executes(t), pc[t] # "switch" PROVE Ready(t)
  BY <1>a, <1>c, <1>d DEF Executes, RunInv
<1>1. ASSUME UNCHANGED <<sched, status, curPrio, msg>> PROVE SchedInv'
  BY <1>1, <1>a DEF SchedInv, Match, Home
<1>2. ASSUME NEW u \in User, MainStart(u) PROVE SchedInv' /\ RunInv'
  <2>1. StartEffect(u) /\ u \in Task /\ current' = NoTask /\ current = NoTask
    BY <1>2, <1>c DEF MainStart
  <2>2. \A l \in ListId : ~InList(sched, u, l)
    BY <1>2, <1>a, <1>c DEF MainStart, SchedInv, Match, Home
  <2>3. SchedInv'
    BY <2>1, <2>2, <1>a, StartKeepsLists
  <2>4. \A t \in Task : status'[t] # "RUNNING"
    BY <2>1, <1>a, <1>b, <1>c DEF StartEffect, OnlyCurrentRuns
  <2> QED
    BY <1>2, <2>1, <2>3, <2>4, <1>a, <1>c
    DEF MainStart, RunInv, OnlyCurrentRuns, IType
<1>3. ASSUME KernelStart PROVE SchedInv' /\ RunInv'
  <2>1. /\ current' \in Task /\ current = NoTask
        /\ \E p \in Prio : InList(sched, current', p)
    <3>1. /\ Prio \in SUBSET Nat /\ Prio \subseteq ListId
          /\ sched \in [lists : [ListId -> Seq(Task)], group : SUBSET Prio]
      BY <1>a, ConstantFacts DEF IType, TypeOK, SchedType
    <3>2. CanDispatch(sched) /\ current' = Chosen(sched) /\ current = NoTask
      BY <1>3 DEF KernelStart
    <3>3. /\ Top(sched) \in Prio /\ Chosen(sched) \in Task
          /\ Chosen(sched) \in Range(sched.lists[Top(sched)])
      BY ONLY <3>1, <3>2, ChosenProperties
    <3> QED
      BY <3>2, <3>3 DEF InList
  <2>2. Ready(current')
    BY <2>1, <1>a, InReadyQueue DEF SchedInv
  <2>3. status' = [status EXCEPT ![current'] = "RUNNING"]
    BY <1>3 DEF KernelStart
  <2>4. \A t \in Task : Home(t)' = Home(t)
    BY <1>3, <1>b, <2>2, <2>3 DEF KernelStart, Home, Ready
  <2>5. SchedInv'
    BY <1>3, <1>a, <2>4 DEF KernelStart, SchedInv, Match
  <2>6. tick = "off" /\ tick' = tick
    BY <1>3, <1>a, <1>c, <2>1 DEF KernelStart, IType
  <2>7. OnlyCurrentRuns'
    BY <1>a, <1>b, <1>c, <2>1, <2>3 DEF OnlyCurrentRuns
  <2>8. status'[current'] = "RUNNING"
    BY <1>b, <2>1, <2>3
  <2> QED
    BY <2>5, <2>6, <2>7, <2>8 DEF RunInv, Ready
<1>4. ASSUME NEW t \in User, StartCommit(t) PROVE SchedInv' /\ RunInv'
  <2>1. StartEffect(arg[t]) /\ arg[t] \in Task /\ Executes(t) /\ pc[t] = "start"
    BY <1>4, <1>a, <1>c DEF StartCommit, IType
  <2>2. \A l \in ListId : ~InList(sched, arg[t], l)
    BY <1>4, <1>a DEF StartCommit, Linked, InList, IType, TypeOK, SchedType
  <2>3. SchedInv'
    BY <2>1, <2>2, <1>a, StartKeepsLists
  <2>4. t # arg[t]
    <3>1. Ready(t) /\ t \in Task
      BY <2>1, <1>c, <1>d
    <3>2. InList(sched, t, curPrio[t]) /\ curPrio[t] \in ListId
      BY <3>1, <1>a, <1>b, InReadyQueue, ConstantFacts DEF SchedInv
    <3> QED
      BY <2>2, <3>2
  <2>5. /\ \A u \in Task : status'[u] = "RUNNING" => status[u] = "RUNNING"
        /\ status'[t] = status[t]
    BY <2>1, <2>4, <1>b, <1>c DEF StartEffect
  <2>6. UNCHANGED <<current, tick>> /\ pc[t] # "switch"
    BY <1>4, <2>1 DEF StartCommit
  <2> QED
    BY <2>1, <2>3, <2>5, <2>6, <1>a, RunInvFrame
<1>5. ASSUME NEW t \in User, StartRelinks(t) PROVE SchedInv' /\ RunInv'
  BY <1>5, <1>1, <1>a
  DEF StartRelinks, Crash, taskVars, RunInv, OnlyCurrentRuns, Ready
<1>6. ASSUME NEW t \in User, TaskSwitch(t) PROVE SchedInv' /\ RunInv'
  <2>1. /\ Dispatch /\ current \in Task /\ tick' = "off"
        /\ UNCHANGED <<sched, curPrio, msg>>
    BY <1>6, <1>c DEF TaskSwitch, Executes
  <2>2. SchedInv' /\ OnlyCurrentRuns' /\ status'[current'] \in {"READY", "RUNNING"}
    BY <2>1, <1>a, DispatchKeepsLists
  <2> QED
    BY <2>1, <2>2 DEF RunInv, Ready
<1>7. ASSUME NEW t \in User, TaskMisdispatch(t) PROVE SchedInv' /\ RunInv'
  BY <1>7, <1>1, <1>a
  DEF TaskMisdispatch, Misdispatch, Crash, taskVars, RunInv, OnlyCurrentRuns, Ready
<1>8. ASSUME NEW t \in User, NEW n \in 1 .. MaxSleep, Sleep(t, n)
      PROVE  SchedInv' /\ RunInv'
  <2>1. /\ t \in Task /\ curPrio[t] \in Prio /\ mask[t] \in Prio /\ Executes(t)
        /\ sched' = SchedRemove(sched, t, curPrio[t], mask[t])
        /\ status' = [status EXCEPT ![t] = "BLOCKED"]
        /\ msg' = [msg EXCEPT ![t] = [NoMsg EXCEPT !.reason = "SLEEP"]]
        /\ UNCHANGED curPrio /\ UNCHANGED <<current, tick>>
        /\ pc' = [pc EXCEPT ![t] = "switch"]
    BY <1>8, <1>b, <1>c DEF Sleep, MayCall, Goto
  <2>2. status'[t] = "BLOCKED" /\ msg'[t].reason = "SLEEP"
    BY <2>1, <1>b DEF NoMsg
  <2>3. Home(t)' = {}
    BY <2>2 DEF Home
  <2>4. \A x \in Task : x # t => /\ status'[x] = status[x]
                                /\ curPrio'[x] = curPrio[x]
                                /\ msg'[x] = msg[x]
    BY <2>1, <1>b
  <2>5. SchedInv'
    BY <2>1, <2>3, <2>4, <1>a, TakeKeepsLists
  <2>6. /\ \A u \in Task : status'[u] = "RUNNING" => status[u] = "RUNNING"
        /\ pc'[t] = "switch"
    BY <2>1, <1>b
  <2> QED
    BY <2>1, <2>5, <2>6, <1>a, RunInvFrame
<1>9. ASSUME NEW t \in User, SleepZero(t) PROVE SchedInv' /\ RunInv'
  <2>1. /\ Executes(t) /\ pc[t] = "app" /\ UNCHANGED <<current, tick>>
        /\ UNCHANGED <<sched, status, curPrio, msg>>
    BY <1>9 DEF SleepZero, MayCall, taskVars
  <2> QED
    BY <2>1, <1>1, <1>a, RunInvFrame
<1>10. ASSUME NEW t \in User, Yield(t) PROVE SchedInv' /\ RunInv'
  <2>1. /\ Executes(t) /\ pc[t] = "app" /\ UNCHANGED <<current, tick>>
        /\ sched' = Rotate(sched, t, curPrio[t]) /\ UNCHANGED taskVars
        /\ UNCHANGED status
    BY <1>10 DEF Yield, MayCall, taskVars
  <2>2. Ready(t) /\ t \in Task
    BY <2>1, <1>c, <1>d
  <2>3. SchedInv'
    BY <2>1, <2>2, <1>a, RotateKeepsLists
  <2> QED
    BY <2>1, <2>3, <1>a, RunInvFrame
<1>11. ASSUME NEW t \in User, NEW u \in User, StartCheck(t, u)
       PROVE  SchedInv' /\ RunInv'
  <2>1. /\ Executes(t) /\ pc[t] = "app" /\ UNCHANGED <<current, tick>>
        /\ UNCHANGED <<sched, status, curPrio, msg>>
    BY <1>11 DEF StartCheck, MayCall, taskVars
  <2> QED
    BY <2>1, <1>1, <1>a, RunInvFrame
<1>12. ASSUME NEW t \in User, NEW u \in User, Suspend(t, u)
       PROVE  SchedInv' /\ RunInv'
  <2>1. /\ u \in Task /\ t \in Task /\ curPrio[u] \in Prio /\ mask[u] \in Prio
        /\ Executes(t) /\ pc[t] = "app"
        /\ status' = [status EXCEPT ![u] = "SUSPENDED"]
        /\ UNCHANGED curPrio /\ UNCHANGED msg /\ UNCHANGED <<current, tick>>
        /\ pc' = [pc EXCEPT ![t] = IF u = t THEN "switch" ELSE "app"]
    BY <1>12, <1>b, <1>c DEF Suspend, MayCall, Goto
  <2>2. \/ sched' = SchedRemove(sched, u, curPrio[u], mask[u])
        \/ sched' = [sched EXCEPT !.lists = Unlink(@, u)]
    BY <1>12 DEF Suspend
  <2>3. Home(u)' = {}
    BY <2>1, <1>b DEF Home
  <2>4. \A x \in Task : x # u => /\ status'[x] = status[x]
                                /\ curPrio'[x] = curPrio[x]
                                /\ msg'[x] = msg[x]
    BY <2>1, <1>b
  <2>5. SchedInv'
    BY <2>1, <2>2, <2>3, <2>4, <1>a, TakeKeepsLists
  <2>6. /\ \A x \in Task : status'[x] = "RUNNING" => status[x] = "RUNNING"
        /\ pc'[t] # "switch" => status'[t] = status[t]
    BY <2>1, <2>4, <1>b
  <2> QED
    BY <2>1, <2>5, <2>6, <1>a, RunInvFrame
<1>13. ASSUME NEW t \in User, NEW u \in Task, DeleteEffect(u), MayCall(t, "exit") \/ MayCall(t, "delete"),
              Goto(t, IF u = t THEN "switch" ELSE "app")
       PROVE  SchedInv' /\ RunInv'
  <2>1. /\ t \in Task /\ Executes(t) /\ pc[t] = "app"
        /\ status' = [status EXCEPT ![u] = "TERMINATED"]
        /\ UNCHANGED <<current, tick>>
        /\ pc' = [pc EXCEPT ![t] = IF u = t THEN "switch" ELSE "app"]
    BY <1>13, <1>c DEF MayCall, Goto, DeleteEffect
  <2>2. SchedInv'
    BY <1>13, <1>a, DeleteKeepsLists
  <2>3. /\ \A x \in Task : status'[x] = "RUNNING" => status[x] = "RUNNING"
        /\ pc'[t] # "switch" => status'[t] = status[t]
    BY <2>1, <1>b
  <2> QED
    BY <2>1, <2>2, <2>3, <1>a, RunInvFrame
<1>14. ASSUME NEW t \in User, Exit(t) PROVE SchedInv' /\ RunInv'
  BY <1>13, <1>14, <1>c DEF Exit
<1>15. ASSUME NEW t \in User, NEW u \in User, Delete(t, u)
       PROVE  SchedInv' /\ RunInv'
  BY <1>13, <1>15, <1>c DEF Delete
<1>16. ASSUME NEW t \in User, NEW u \in User, Create(t, u)
       PROVE  SchedInv' /\ RunInv'
  <2>1. /\ u \in Task /\ t \in Task /\ Executes(t) /\ pc[t] = "app"
        /\ status[u] = "DELETED"
        /\ status' = [status EXCEPT ![u] = "INIT"]
        /\ curPrio' = [curPrio EXCEPT ![u] = BasePrio[u]]
        /\ msg' = [msg EXCEPT ![u] = NoMsg]
        /\ UNCHANGED sched /\ UNCHANGED <<current, tick>>
    BY <1>16, <1>c DEF Create, MayCall
  <2>2. \A x \in Task : x # u => /\ status'[x] = status[x]
                                /\ curPrio'[x] = curPrio[x]
                                /\ msg'[x] = msg[x]
    BY <2>1, <1>b
  <2>3. Home(u)' = {} /\ Home(u) = {}
    BY <2>1, <1>b DEF Home
  <2>4. Match'
    BY <2>1, <2>2, <2>3, <1>a, MoveOne DEF SchedInv, Match
  <2>5. SchedInv'
    BY <2>1, <2>4, <1>a DEF SchedInv
  <2>6. Ready(t)
    BY <2>1, <1>d
  <2>7. /\ \A x \in Task : status'[x] = "RUNNING" => status[x] = "RUNNING"
        /\ status'[t] = status[t]
    BY <2>1, <2>6, <1>b DEF Ready
  <2> QED
    BY <2>1, <2>5, <2>7, <1>a, RunInvFrame
<1>17. ASSUME NEW t \in User, NEW u \in User, NEW p \in Prio, SetPriority(t, u, p)
       PROVE  SchedInv' /\ RunInv'
  <2>1. /\ u \in Task /\ Executes(t) /\ pc[t] = "app" /\ UNCHANGED <<current, tick>>
        /\ UNCHANGED <<status, msg>> /\ UNCHANGED status
    BY <1>17, <1>c DEF SetPriority, MayCall
  <2>2. ChangePriority(u, p) \/ UNCHANGED <<curPrio, sched>>
    BY <1>17 DEF SetPriority
  <2>3. SchedInv'
    BY <2>1, <2>2, <1>1, <1>a, PriorityKeepsLists
  <2> QED
    BY <2>1, <2>3, <1>a, RunInvFrame
<1>18. ASSUME CleanupDefunct PROVE SchedInv' /\ RunInv'
  <2>1. SchedInv'
    BY <1>18, <1>a, CleanupKeepsLists
  <2>2. /\ current = Idle /\ tick = "off" /\ UNCHANGED <<current, tick, pc>>
        /\ \A t \in Task : status'[t] = IF InList(sched, t, Defunct)
                                       THEN "DELETED" ELSE status[t]
    BY <1>18 DEF CleanupDefunct, Executes, InList
  <2>3. \A t \in Task : InList(sched, t, Defunct) <=> status[t] = "TERMINATED"
    BY <1>a, InDefunctList DEF SchedInv
  <2> QED
    BY <2>1, <2>2, <2>3, <1>a, <1>c DEF RunInv, OnlyCurrentRuns, Ready
<1>19. ASSUME TickBegin PROVE SchedInv' /\ RunInv'
  <2>1. /\ UNCHANGED <<sched, status, curPrio, msg>> /\ UNCHANGED <<current, pc>>
        /\ tick' = "yield" => status[current] = "RUNNING"
    BY <1>19 DEF TickBegin, ChargeSlice
  <2> QED
    BY <2>1, <1>1, <1>a DEF RunInv, OnlyCurrentRuns, Ready
<1>20. ASSUME TickYield PROVE SchedInv' /\ RunInv'
  <2>1. /\ status[current] = "RUNNING" /\ current \in Task
        /\ UNCHANGED <<current, pc>> /\ UNCHANGED taskVars /\ UNCHANGED status
        /\ tick' # "yield"
        /\ \/ UNCHANGED <<sched, status, curPrio, msg>>
           \/ sched' = Rotate(sched, current, curPrio[current])
    BY <1>20, <1>a DEF TickYield, RunInv, taskVars, IType
  <2>2. SchedInv'
    BY <2>1, <1>1, <1>a, RotateKeepsLists DEF Ready
  <2> QED
    BY <2>1, <2>2, <1>a DEF RunInv, OnlyCurrentRuns, Ready
<1>21. ASSUME TickSwitch PROVE SchedInv' /\ RunInv'
  <2>1. /\ Dispatch /\ current \in Task /\ tick' # "yield"
        /\ UNCHANGED <<sched, curPrio, msg>>
    BY <1>21, <1>a DEF TickSwitch, IType
  <2>2. SchedInv' /\ OnlyCurrentRuns' /\ status'[current'] \in {"READY", "RUNNING"}
    BY <2>1, <1>a, DispatchKeepsLists
  <2> QED
    BY <2>1, <2>2 DEF RunInv, Ready
<1>22. ASSUME TickMisdispatch PROVE SchedInv' /\ RunInv'
  BY <1>22, <1>1, <1>a
  DEF TickMisdispatch, Misdispatch, Crash, taskVars, RunInv, OnlyCurrentRuns, Ready
<1>23. ASSUME TickCheck \/ TickPop \/ TickEnd PROVE SchedInv' /\ RunInv'
  <2>1. /\ UNCHANGED <<sched, status, curPrio, msg>> /\ UNCHANGED <<current, pc>>
        /\ tick' # "yield"
    BY <1>23 DEF TickCheck, TickPop, TickEnd, taskVars
  <2> QED
    BY <2>1, <1>1, <1>a DEF RunInv, OnlyCurrentRuns, Ready
<1>24. ASSUME TickTimeout PROVE SchedInv' /\ RunInv'
  <2>1. /\ firing \in Task /\ current \in Task /\ tick' # "yield"
        /\ UNCHANGED <<current, pc>> /\ UNCHANGED curPrio
    BY <1>24, <1>a DEF TickTimeout, IType
  <2>2. CASE status[firing] = "BLOCKED"
    <3>1. /\ status' = [status EXCEPT ![firing] = "READY"]
          /\ \A u \in Task : u # firing => msg'[u] = msg[u]
          /\ sched' = SchedInsert([sched EXCEPT !.lists = Unlink(@, firing)],
                                  firing, curPrio[firing], mask[firing])
      BY <1>24, <1>b, <2>2 DEF TickTimeout
    <3>0. mask[firing] \in Prio
      BY <1>b, <2>1
    <3>2. SchedInv'
      BY <2>1, <3>0, <3>1, <1>a, WakeKeepsLists
    <3>3. \A t \in Task : status'[t] = IF t = firing THEN "READY" ELSE status[t]
      BY <3>1, <1>b
    <3> QED
      BY <2>1, <3>2, <3>3, <1>a DEF RunInv, OnlyCurrentRuns, Ready
  <2>3. CASE status[firing] # "BLOCKED"
    <3>1. UNCHANGED <<sched, status, curPrio, msg>>
      BY <1>24, <2>3 DEF TickTimeout
    <3> QED
      BY <2>1, <3>1, <1>1, <1>a DEF RunInv, OnlyCurrentRuns, Ready
  <2> QED
    BY <2>2, <2>3
<1>25. ASSUME UNCHANGED vars PROVE SchedInv' /\ RunInv'
  BY <1>25, <1>1, <1>a DEF vars, taskVars, RunInv, OnlyCurrentRuns, Ready
<1> QED
  BY <1>2, <1>3, <1>4, <1>5, <1>6, <1>7, <1>8, <1>9, <1>10, <1>11, <1>12, <1>14,
     <1>15, <1>16, <1>17, <1>18, <1>19, <1>20, <1>21, <1>22, <1>23, <1>24, <1>25
  DEF Next, TaskStep, TickStep, Halted

-----------------------------------------------------------------------------
(* A kernel operation blocks a task only by a sleep.                       *)

LEMMA DispatchBlocksNobody ==
  ASSUME IType, Dispatch, current \in Task, NEW t \in Task
  PROVE  status'[t] = "BLOCKED" => status[t] = "BLOCKED"
BY DispatchType DEF IType, TypeOK

LEMMA BlockedBySleep ==
  ASSUME Inv, [Next]_vars, NEW t \in Task, status'[t] = "BLOCKED"
  PROVE  \/ status[t] = "BLOCKED" /\ msg'[t] = msg[t]
         \/ Ready(t) /\ msg'[t] = [NoMsg EXCEPT !.reason = "SLEEP"]
<1> DEFINE Goal == \/ status[t] = "BLOCKED" /\ msg'[t] = msg[t]
                   \/ Ready(t) /\ msg'[t] = [NoMsg EXCEPT !.reason = "SLEEP"]
<1>a. /\ IType /\ status \in [Task -> Status] /\ msg \in [Task -> MsgType]
      /\ User \subseteq Task /\ NoTask \notin Task
  BY ConstantFacts DEF Inv, IType, TypeOK
<1>b. status'[t] = "BLOCKED"
  OBVIOUS
<1>c. ASSUME status'[t] = "BLOCKED" => status[t] = "BLOCKED", msg'[t] = msg[t]
      PROVE  Goal
  BY <1>b, <1>c
<1>1. ASSUME NEW u \in Task, StartEffect(u) PROVE Goal
  BY <1>1, <1>a, <1>c DEF StartEffect
<1>2. ASSUME UNCHANGED <<status, msg>> PROVE Goal
  BY <1>2, <1>c
<1>3. ASSUME NEW u \in Task, DeleteEffect(u) PROVE Goal
  BY <1>3, <1>a, <1>c DEF DeleteEffect
<1>4. ASSUME Dispatch, current \in Task, UNCHANGED msg PROVE Goal
  BY <1>4, <1>a, <1>c, DispatchBlocksNobody
<1>5. ASSUME KernelStart PROVE Goal
  BY <1>5, <1>a, <1>c DEF KernelStart
<1>6. ASSUME NEW u \in User, NEW n \in 1 .. MaxSleep, Sleep(u, n) PROVE Goal
  <2>1. /\ status' = [status EXCEPT ![u] = "BLOCKED"]
        /\ msg' = [msg EXCEPT ![u] = [NoMsg EXCEPT !.reason = "SLEEP"]]
    BY <1>6 DEF Sleep
  <2>2. CASE t = u
    <3>1. Ready(u)
      BY <1>6, <1>a DEF Sleep, MayCall, Executes, Inv, RunInv
    <3> QED
      BY <2>1, <2>2, <3>1, <1>a
  <2>3. CASE t # u
    BY <2>1, <2>3, <1>a, <1>c
  <2> QED
    BY <2>2, <2>3
<1>7. ASSUME NEW u \in User, NEW v \in User, Suspend(u, v) PROVE Goal
  BY <1>7, <1>a, <1>c DEF Suspend
<1>8. ASSUME NEW u \in User, NEW v \in User, Create(u, v) PROVE Goal
  BY <1>8, <1>a, <1>b, <1>c DEF Create
<1>9. ASSUME CleanupDefunct PROVE Goal
  BY <1>9, <1>a, <1>c DEF CleanupDefunct
<1>10. ASSUME TickTimeout PROVE Goal
  <2>1. CASE status[firing] = "BLOCKED"
    <3>1. /\ status' = [status EXCEPT ![firing] = "READY"]
          /\ msg' = [msg EXCEPT ![firing] = [NoMsg EXCEPT !.notify = "TIMEOUT"]]
      BY <1>10, <2>1 DEF TickTimeout
    <3> QED
      BY <3>1, <1>a, <1>b, <1>c
  <2>2. CASE status[firing] # "BLOCKED"
    BY <1>10, <2>2, <1>2 DEF TickTimeout
  <2> QED
    BY <2>1, <2>2
<1>11. ASSUME NEW u \in User, TaskStep(u) PROVE Goal
  <2>1. ASSUME StartCommit(u) PROVE Goal
    BY <2>1, <1>1, <1>a DEF StartCommit, IType
  <2>2. ASSUME TaskSwitch(u) PROVE Goal
    BY <2>2, <1>4, <1>a DEF TaskSwitch, Executes
  <2>3. ASSUME Exit(u) PROVE Goal
    BY <2>3, <1>3, <1>a DEF Exit
  <2>4. ASSUME NEW v \in User, Delete(u, v) PROVE Goal
    BY <2>4, <1>3, <1>a DEF Delete
  <2>5. ASSUME StartRelinks(u) \/ TaskMisdispatch(u) PROVE Goal
    BY <2>5, <1>2 DEF StartRelinks, TaskMisdispatch, Misdispatch, Crash, taskVars
  <2>6. ASSUME SleepZero(u) \/ Yield(u) PROVE Goal
    BY <2>6, <1>2 DEF SleepZero, Yield, taskVars
  <2>7. ASSUME NEW v \in User, StartCheck(u, v) PROVE Goal
    BY <2>7, <1>2 DEF StartCheck, taskVars
  <2>8. ASSUME NEW v \in User, NEW p \in Prio, SetPriority(u, v, p) PROVE Goal
    BY <2>8, <1>2 DEF SetPriority
  <2> QED
    BY <1>11, <1>6, <1>7, <1>8, <2>1, <2>2, <2>3, <2>4, <2>5, <2>6, <2>7, <2>8
    DEF TaskStep
<1>12. ASSUME TickStep PROVE Goal
  <2>1. ASSUME TickSwitch PROVE Goal
    BY <2>1, <1>4, <1>a DEF TickSwitch, IType
  <2>2. ASSUME TickBegin \/ TickYield \/ TickMisdispatch PROVE Goal
    BY <2>2, <1>2 DEF TickBegin, TickYield, TickMisdispatch, Misdispatch, Crash, taskVars
  <2>3. ASSUME TickCheck \/ TickPop \/ TickEnd PROVE Goal
    BY <2>3, <1>2 DEF TickCheck, TickPop, TickEnd, taskVars
  <2> QED
    BY <1>10, <1>12, <2>1, <2>2, <2>3 DEF TickStep
<1>13. ASSUME NEW u \in User, MainStart(u) PROVE Goal
  BY <1>13, <1>1, <1>a DEF MainStart
<1>14. ASSUME UNCHANGED vars PROVE Goal
  BY <1>14, <1>2 DEF vars, taskVars
<1> QED
  BY <1>5, <1>9, <1>11, <1>12, <1>13, <1>14 DEF Next, Halted

-----------------------------------------------------------------------------
LEMMA InvHolds == Spec => []Inv
BY InvInit, InvStep, PTL DEF Spec

(* The bitmap covers the ready queues because the priority and the mask of *)
(* a task are changed together.  yr_task_start, which resets the priority  *)
(* of an INIT task and not its mask, changes neither: that priority is     *)
(* still the initial one.                                                  *)
Masked(t) ==
  /\ mask[t] = curPrio[t]
  /\ status[t] = "INIT" => curPrio[t] = initPrio[t] /\ holds[t] = 0

CoverInv == Covers(sched) /\ \A t \in Task : Masked(t)

LEMMA CoverInit == Init => CoverInv
<1> SUFFICES ASSUME Init PROVE CoverInv
  OBVIOUS
<1>1. \A t \in Task : Masked(t)
  BY DEF Init, Masked
<1> DEFINE empty == [lists |-> [l \in ListId |-> <<>>], group |-> {}]
           p == MaxPriority - 1
<1>2. /\ empty \in SchedType /\ Covers(empty)
      /\ Idle \in Task /\ p \in Prio
  BY EmptySeq, ConstantFacts DEF SchedType, Covers
<1>3. sched = SchedInsert(empty, Idle, p, p)
  BY DEF Init
<1> HIDE DEF empty, p
<1>4. Covers(sched)
  BY <1>2, <1>3, InsertSched
<1> QED
  BY <1>1, <1>4 DEF CoverInv

LEMMA StartCovers ==
  ASSUME IType, CoverInv, NEW u \in Task, StartEffect(u)
  PROVE  CoverInv'
<1>1. /\ sched \in SchedType /\ status \in [Task -> Status]
      /\ curPrio \in [Task -> Prio] /\ mask \in [Task -> Prio]
  BY DEF IType, TypeOK
<1>2. /\ sched' = SchedInsert(sched, u, curPrio'[u], mask[u])
      /\ curPrio' \in [Task -> Prio] /\ UNCHANGED <<initPrio, mask, holds>>
  BY StartEffectType
<1>3. curPrio' = curPrio
  BY <1>1 DEF StartEffect, CoverInv, Masked
<1>4. Covers(sched')
  BY <1>1, <1>2, <1>3, InsertSched DEF CoverInv, Masked
<1>5. \A t \in Task : status'[t] = "INIT" => status[t] = "INIT"
  BY <1>1 DEF StartEffect
<1> QED
  BY <1>2, <1>3, <1>4, <1>5 DEF CoverInv, Masked

LEMMA DeleteCovers ==
  ASSUME IType, CoverInv, NEW u \in Task, DeleteEffect(u)
  PROVE  CoverInv'
<1>1. /\ sched \in SchedType /\ curPrio[u] \in Prio /\ mask[u] = curPrio[u]
      /\ status \in [Task -> Status]
  BY DEF IType, TypeOK, CoverInv, Masked
<1> DEFINE removed == IF status[u] \in {"READY", "RUNNING"}
                      THEN SchedRemove(sched, u, curPrio[u], mask[u])
                      ELSE [sched EXCEPT !.lists = Unlink(@, u)]
<1>2. removed \in SchedType /\ Covers(removed)
  BY <1>1, RemoveSched, UnlinkSched DEF CoverInv
<1>3. sched' = [removed EXCEPT !.lists = LinkLast(@, Defunct, u)]
  BY DEF DeleteEffect
<1> HIDE DEF removed
<1>4. Covers(sched')
  BY <1>2, <1>3, LinkDefunct
<1> QED
  BY <1>1, <1>4 DEF DeleteEffect, CoverInv, Masked

(* yr_sched_yield leaves the bitmap alone; the queue was not empty.        *)
LEMMA RotateCovers ==
  ASSUME IType, SchedInv, CoverInv, NEW t \in Task, Ready(t),
         sched' = Rotate(sched, t, curPrio[t])
  PROVE  Covers(sched')
<1>1. sched \in SchedType /\ curPrio[t] \in Prio
  BY DEF IType, TypeOK
<1>2. InList(sched, t, curPrio[t])
  BY <1>1, InReadyQueue DEF SchedInv
<1>3. sched.lists[curPrio[t]] # <<>>
  BY <1>2 DEF InList, Range
<1> QED
  BY <1>1, <1>3, RotateSched DEF CoverInv, Covers

LEMMA ChangePriorityMasked ==
  ASSUME IType, \A t \in Task : mask[t] = curPrio[t], NEW q \in [Task -> Prio]
  PROVE  MaskFor(q) = q
BY DEF IType, TypeOK, MaskFor

LEMMA PriorityCovers ==
  ASSUME Inv, CoverInv, NEW u \in Task, NEW p \in Prio, ChangePriority(u, p)
  PROVE  Covers(sched') /\ \A t \in Task : mask'[t] = curPrio'[t]
<1>1. /\ IType /\ sched \in SchedType /\ InjectiveLists(sched.lists)
      /\ curPrio \in [Task -> Prio] /\ Covers(sched)
      /\ \A t \in Task : mask[t] = curPrio[t]
  BY DEF Inv, IType, TypeOK, SchedInv, CoverInv, Masked
<1>2. PICK prio \in [Task -> Prio] : prio = [curPrio EXCEPT ![u] = p]
  BY <1>1
<1>3. /\ curPrio' = prio /\ prio[u] = p /\ sched' = Reprioritised(sched, u, prio)
      /\ mask' = MaskFor(prio)
  BY <1>1, <1>2 DEF ChangePriority
<1>4. InPlace(sched, u, curPrio[u])
  <2>1. Place(u, curPrio[u]) = Home(u)
    BY DEF Place, Home, Ready
  <2> QED
    BY <2>1 DEF Inv, SchedInv, Match, InPlace
<1>5. Covers(sched')
  BY <1>1, <1>3, <1>4, ReprioritisedSched
<1>6. mask' = prio
  BY <1>1, <1>3, ChangePriorityMasked
<1> QED
  BY <1>3, <1>5, <1>6

LEMMA CoverStep == Inv /\ CoverInv /\ [Next]_vars => CoverInv'
<1> SUFFICES ASSUME Inv, CoverInv, [Next]_vars PROVE CoverInv'
  OBVIOUS
<1>a. /\ IType /\ SchedInv /\ RunInv /\ Covers(sched) /\ \A t \in Task : Masked(t)
  BY DEF Inv, CoverInv
<1>b. /\ sched \in SchedType /\ status \in [Task -> Status]
      /\ curPrio \in [Task -> Prio] /\ mask \in [Task -> Prio]
      /\ initPrio \in [Task -> Prio] /\ holds \in [Task -> Nat]
  BY <1>a DEF IType, TypeOK
<1>c. User \subseteq Task /\ NoTask \notin Task /\ Idle \in Task
  BY ConstantFacts
<1>d. ASSUME NEW t \in User, MayCall(t, "yield") \/ MayCall(t, "sleep") PROVE Ready(t)
  BY <1>a, <1>c, <1>d DEF MayCall, Executes, RunInv
<1>1. ASSUME Covers(sched'), UNCHANGED <<initPrio, curPrio, mask, holds>>,
             \A t \in Task : status'[t] = "INIT" => status[t] = "INIT"
      PROVE  CoverInv'
  BY <1>1, <1>a DEF CoverInv, Masked
<1>2. ASSUME UNCHANGED <<sched, taskVars>> PROVE CoverInv'
  BY <1>2, <1>1, <1>a DEF taskVars
<1>3. ASSUME NEW u \in Task, StartEffect(u) PROVE CoverInv'
  BY <1>3, <1>a, StartCovers DEF Inv
<1>4. ASSUME NEW u \in Task, DeleteEffect(u) PROVE CoverInv'
  BY <1>4, <1>a, DeleteCovers
<1>5. ASSUME Dispatch, current \in Task,
             UNCHANGED <<sched, initPrio, curPrio, mask, holds>>
      PROVE  CoverInv'
  <2>1. \A t \in Task : status'[t] = "INIT" => status[t] = "INIT"
    BY <1>5, <1>a, <1>b, DispatchType
  <2> QED
    BY <2>1, <1>1, <1>5, <1>a
<1>6. ASSUME KernelStart PROVE CoverInv'
  BY <1>6, <1>1, <1>a, <1>b DEF KernelStart
<1>7. ASSUME NEW u \in Task, NEW s \in {"BLOCKED", "SUSPENDED"},
             \/ sched' = SchedRemove(sched, u, curPrio[u], mask[u])
             \/ sched' = [sched EXCEPT !.lists = Unlink(@, u)],
             status' = [status EXCEPT ![u] = s],
             UNCHANGED <<initPrio, curPrio, mask, holds>>
      PROVE  CoverInv'
  <2>0. sched \in SchedType /\ Covers(sched)
    BY <1>a, <1>b
  <2>1. curPrio[u] \in Prio /\ mask[u] = curPrio[u]
    BY <1>a, <1>b DEF Masked
  <2>2. Covers(sched')
    <3>1. CASE sched' = SchedRemove(sched, u, curPrio[u], mask[u])
      BY ONLY <2>0, <2>1, <3>1, RemoveSched
    <3>2. CASE sched' = [sched EXCEPT !.lists = Unlink(@, u)]
      BY ONLY <2>0, <3>2, UnlinkSched
    <3> QED
      BY <1>7, <3>1, <3>2
  <2>3. \A t \in Task : status'[t] = "INIT" => status[t] = "INIT"
    BY <1>7, <1>b
  <2> QED
    BY <2>2, <2>3, <1>1, <1>7
<1>8. ASSUME NEW t \in Task, Ready(t), sched' = Rotate(sched, t, curPrio[t]),
             UNCHANGED taskVars
      PROVE  CoverInv'
  BY <1>8, <1>1, <1>a, RotateCovers DEF taskVars
<1>9. ASSUME NEW t \in User, NEW u \in User, Create(t, u) PROVE CoverInv'
  <2>1. /\ UNCHANGED sched /\ u \in Task
        /\ status' = [status EXCEPT ![u] = "INIT"]
        /\ initPrio' = [initPrio EXCEPT ![u] = BasePrio[u]]
        /\ curPrio' = [curPrio EXCEPT ![u] = BasePrio[u]]
        /\ mask' = [mask EXCEPT ![u] = BasePrio[u]]
        /\ holds' = [holds EXCEPT ![u] = 0]
    BY <1>9, <1>c DEF Create
  <2>2. ASSUME NEW x \in Task PROVE Masked(x)'
    BY <2>1, <1>a, <1>b DEF Masked
  <2> QED
    BY <2>1, <2>2, <1>a DEF CoverInv
<1>10. ASSUME NEW t \in User, NEW u \in User, NEW p \in Prio, SetPriority(t, u, p)
       PROVE  CoverInv'
  <2>1. /\ initPrio' = [initPrio EXCEPT ![u] = p] /\ u \in Task
        /\ UNCHANGED <<status, holds>>
    BY <1>10, <1>c DEF SetPriority
  <2>2. CASE (holds[u] = 0 \/ p < curPrio[u]) /\ curPrio[u] # p
    <3>1. ChangePriority(u, p) /\ curPrio' = [curPrio EXCEPT ![u] = p]
      BY <1>10, <2>2 DEF SetPriority, ChangePriority
    <3>2. Covers(sched') /\ \A x \in Task : mask'[x] = curPrio'[x]
      BY <3>1, <2>1, PriorityCovers
    <3> QED
      BY <3>1, <3>2, <2>1, <1>a, <1>b DEF CoverInv, Masked
  <2>3. CASE ~((holds[u] = 0 \/ p < curPrio[u]) /\ curPrio[u] # p)
    <3>1. UNCHANGED <<curPrio, mask, sched>>
      BY <1>10, <2>3 DEF SetPriority
    <3>2. status[u] = "INIT" => curPrio[u] = p
      BY <2>1, <2>3, <1>a DEF Masked
    <3> QED
      BY <3>1, <3>2, <2>1, <1>a, <1>b DEF CoverInv, Masked
  <2> QED
    BY <2>2, <2>3
<1>11. ASSUME CleanupDefunct PROVE CoverInv'
  <2>1. /\ sched' = [sched EXCEPT !.lists[Defunct] = <<>>]
        /\ UNCHANGED <<initPrio, curPrio, mask, holds>>
        /\ \A t \in Task : status'[t] \in {"DELETED", status[t]}
    BY <1>11 DEF CleanupDefunct
  <2>2. \A l \in Prio : sched'.lists[l] = sched.lists[l] /\ sched'.group = sched.group
    BY <2>1, <1>b, ConstantFacts, ListAssumption DEF SchedType
  <2>3. Covers(sched')
    BY <2>2, <1>a DEF Covers
  <2> QED
    BY <2>1, <2>3, <1>1
<1>12. ASSUME TickTimeout PROVE CoverInv'
  <2>1. CASE status[firing] = "BLOCKED"
    <3>1. /\ firing \in Task /\ status' = [status EXCEPT ![firing] = "READY"]
          /\ sched' = SchedInsert([sched EXCEPT !.lists = Unlink(@, firing)],
                                  firing, curPrio[firing], mask[firing])
          /\ UNCHANGED <<initPrio, curPrio, mask, holds>>
      BY <1>12, <2>1, <1>a DEF TickTimeout, IType
    <3>2. PICK x : x = [sched EXCEPT !.lists = Unlink(@, firing)]
      OBVIOUS
    <3>3. x \in SchedType /\ Covers(x)
      BY <3>1, <3>2, <1>a, <1>b, UnlinkSched
    <3>4. Covers(sched')
      <4>1. curPrio[firing] \in Prio /\ mask[firing] = curPrio[firing]
        BY <3>1, <1>a, <1>b DEF Masked
      <4> QED
        BY <3>1, <3>2, <3>3, <4>1, InsertSched
    <3> QED
      BY <3>1, <3>4, <1>1, <1>b
  <2>2. CASE status[firing] # "BLOCKED"
    BY <1>12, <2>2, <1>1, <1>a DEF TickTimeout
  <2> QED
    BY <2>1, <2>2
<1>13. ASSUME NEW t \in User, TaskStep(t) PROVE CoverInv'
  <2>1. ASSUME StartCommit(t) PROVE CoverInv'
    BY <2>1, <1>3, <1>a, <1>c DEF StartCommit, IType
  <2>2. ASSUME TaskSwitch(t) PROVE CoverInv'
    BY <2>2, <1>5, <1>c DEF TaskSwitch, Executes
  <2>3. ASSUME StartRelinks(t) \/ TaskMisdispatch(t) \/ SleepZero(t) PROVE CoverInv'
    BY <2>3, <1>2
    DEF StartRelinks, TaskMisdispatch, Misdispatch, Crash, SleepZero
  <2>4. ASSUME NEW n \in 1 .. MaxSleep, Sleep(t, n) PROVE CoverInv'
    BY <2>4, <1>7, <1>c DEF Sleep
  <2>5. ASSUME Yield(t) PROVE CoverInv'
    BY <2>5, <1>8, <1>c, <1>d DEF Yield
  <2>6. ASSUME Exit(t) PROVE CoverInv'
    BY <2>6, <1>4, <1>c DEF Exit
  <2>7. ASSUME NEW u \in User, StartCheck(t, u) PROVE CoverInv'
    BY <2>7, <1>2 DEF StartCheck
  <2>8. ASSUME NEW u \in User, Suspend(t, u) PROVE CoverInv'
    BY <2>8, <1>7, <1>c DEF Suspend
  <2>9. ASSUME NEW u \in User, Delete(t, u) PROVE CoverInv'
    BY <2>9, <1>4, <1>c DEF Delete
  <2> QED
    BY <1>13, <1>9, <1>10, <2>1, <2>2, <2>3, <2>4, <2>5, <2>6, <2>7, <2>8, <2>9
    DEF TaskStep
<1>14. ASSUME TickStep PROVE CoverInv'
  <2>1. ASSUME TickBegin PROVE CoverInv'
    BY <2>1, <1>1, <1>a DEF TickBegin
  <2>2. ASSUME TickYield PROVE CoverInv'
    <3>1. current \in Task /\ Ready(current)
      BY <2>2, <1>a DEF TickYield, RunInv, IType, Ready
    <3> QED
      BY <2>2, <3>1, <1>2, <1>8 DEF TickYield
  <2>3. ASSUME TickSwitch PROVE CoverInv'
    BY <2>3, <1>5, <1>a DEF TickSwitch, IType
  <2>4. ASSUME TickMisdispatch \/ TickCheck \/ TickPop \/ TickEnd PROVE CoverInv'
    BY <2>4, <1>2 DEF TickMisdispatch, Misdispatch, Crash, TickCheck, TickPop, TickEnd
  <2> QED
    BY <1>12, <1>14, <2>1, <2>2, <2>3, <2>4 DEF TickStep
<1>15. ASSUME NEW u \in User, MainStart(u) PROVE CoverInv'
  BY <1>15, <1>3, <1>c DEF MainStart
<1>16. ASSUME UNCHANGED vars PROVE CoverInv'
  BY <1>16, <1>2 DEF vars
<1> QED
  BY <1>6, <1>11, <1>13, <1>14, <1>15, <1>16 DEF Next, Halted

LEMMA CoverHolds == Spec => []CoverInv
<1>1. Inv /\ CoverInv /\ [Next]_vars => CoverInv'
  BY CoverStep
<1> QED
  BY <1>1, CoverInit, InvHolds, PTL DEF Spec

(* The invariant in the words of the module: status and lists agree.  An   *)
(* application that links a node twice has left it, and the model stops    *)
(* there (StartRelinks), so that this alone does not say that no node is   *)
(* ever linked twice: ListsMatchStatus below does, of the applications of  *)
(* which it is true.                                                       *)
LEMMA InvMatches == Inv => NodesMatchStatus
<1> SUFFICES ASSUME Inv PROVE NodesMatchStatus
  OBVIOUS
<1>1. DOMAIN sched.lists = ListId
  BY DEF Inv, IType, TypeOK, SchedType
<1> QED
  BY <1>1 DEF Inv, SchedInv, Match, InList, InjectiveLists, NodesMatchStatus

(* The bitmap never hides a ready queue, even while a change of priority   *)
(* clears the wrong bit (task.c sets the new priority before it removes    *)
(* the task).                                                              *)
THEOREM BitmapNeverHides == Spec => []BitmapCovers
<1>1. CoverInv => BitmapCovers
  BY DEF CoverInv, Covers, BitmapCovers
<1> QED
  BY <1>1, CoverHolds, PTL

(* No other task than the current one is RUNNING.                          *)
THEOREM OneRunningTask == Spec => []OnlyCurrentRuns
<1>1. Inv => OnlyCurrentRuns
  BY DEF Inv, RunInv
<1> QED
  BY <1>1, InvHolds, PTL

-----------------------------------------------------------------------------
(* First come, first served within a priority.                             *)

LEMMA AheadWithout ==
  ASSUME NEW q \in Seq(Task), NEW x, NEW t, NEW u, t # x, u # x, Ahead(q, t, u)
  PROVE  Ahead(Without(q, x), t, u)
<1>0. Len(q) \in Nat /\ DOMAIN q = 1 .. Len(q)
  BY LenProperties
<1>1. CASE x \notin Range(q)
  BY <1>1, WithoutProperties
<1>2. CASE x \in Range(q)
  <2> DEFINE r == Without(q, x)
  <2>1. PICK k \in 1 .. Len(q) :
          /\ q[k] = x
          /\ DOMAIN r = 1 .. Len(q) - 1
          /\ \A j \in 1 .. Len(q) - 1 : r[j] = IF j < k THEN q[j] ELSE q[j + 1]
    BY <1>2, WithoutPlaces
  <2>2. PICK i \in 1 .. Len(q), j \in 1 .. Len(q) : i < j /\ q[i] = t /\ q[j] = u
    BY <1>0 DEF Ahead
  <2>3. i # k /\ j # k
    BY <2>1, <2>2
  <2> HIDE DEF r
  <2> DEFINE new(n) == IF n < k THEN n ELSE n - 1
  <2>4. /\ new(i) \in DOMAIN r /\ new(j) \in DOMAIN r /\ new(i) < new(j)
        /\ r[new(i)] = q[i] /\ r[new(j)] = q[j]
    BY <1>0, <2>1, <2>2, <2>3
  <2>5. Ahead(r, t, u)
    BY <2>2, <2>4 DEF Ahead
  <2> QED
    BY <2>5 DEF r
<1> QED
  BY <1>1, <1>2

LEMMA AheadAppend ==
  ASSUME NEW q \in Seq(Task), NEW x \in Task, NEW t, NEW u
  PROVE  /\ Ahead(q, t, u) => Ahead(Append(q, x), t, u)
         /\ t \in Range(q) => Ahead(Append(q, x), t, x)
<1> DEFINE r == Append(q, x)
<1>1. /\ Len(q) \in Nat /\ DOMAIN q = 1 .. Len(q) /\ DOMAIN r = 1 .. Len(q) + 1
      /\ \A i \in 1 .. Len(q) : r[i] = q[i]
      /\ r[Len(q) + 1] = x
  BY LenProperties, AppendProperties
<1> HIDE DEF r
<1>2. ASSUME Ahead(q, t, u) PROVE Ahead(r, t, u)
  <2>1. PICK i \in 1 .. Len(q), j \in 1 .. Len(q) : i < j /\ q[i] = t /\ q[j] = u
    BY <1>1, <1>2 DEF Ahead
  <2> QED
    BY <1>1, <2>1 DEF Ahead
<1>3. ASSUME t \in Range(q) PROVE Ahead(r, t, x)
  <2>1. PICK i \in 1 .. Len(q) : q[i] = t
    BY <1>1, <1>3 DEF Range
  <2>2. i < Len(q) + 1 /\ i \in DOMAIN r /\ Len(q) + 1 \in DOMAIN r
    BY <1>1
  <2> QED
    BY <1>1, <2>1, <2>2 DEF Ahead
<1> QED
  BY <1>2, <1>3 DEF r

(* From lists s to lists r no task but c is overtaken in a ready queue that *)
(* it stays in.                                                            *)
KeepsOrder(s, r, c) ==
  \A p \in Prio : \A t, u \in Task :
    /\ Ahead(s.lists[p], t, u)
    /\ {t, u} \subseteq Range(r.lists[p])
    => Ahead(r.lists[p], t, u) \/ t = c

LEMMA UnlinkKeepsOrder ==
  ASSUME NEW s \in SchedType, InjectiveLists(s.lists), NEW r, NEW x, NEW c,
         \A p \in Prio : r.lists[p] = Without(s.lists[p], x)
  PROVE  KeepsOrder(s, r, c)
<1> SUFFICES ASSUME NEW p \in Prio, NEW t \in Task, NEW u \in Task,
                    Ahead(s.lists[p], t, u), {t, u} \subseteq Range(r.lists[p])
             PROVE  Ahead(r.lists[p], t, u)
  BY DEF KeepsOrder
<1>1. s.lists[p] \in Seq(Task) /\ IsInjective(s.lists[p])
  BY ConstantFacts DEF SchedType, InjectiveLists
<1>2. x \notin Range(r.lists[p])
  BY <1>1, WithoutProperties
<1> QED
  BY <1>1, <1>2, AheadWithout

LEMMA InsertKeepsOrder ==
  ASSUME NEW s \in SchedType, NEW x \in Task, NEW p \in Prio, NEW m, NEW c,
         ~Linked(s.lists, x)
  PROVE  KeepsOrder(s, SchedInsert(s, x, p, m), c)
<1> DEFINE r == SchedInsert(s, x, p, m)
<1>1. s.lists \in [ListId -> Seq(Task)] /\ p \in ListId /\ Prio \subseteq ListId
  BY ConstantFacts DEF SchedType
<1>2. r.lists = [s.lists EXCEPT ![p] = Append(@, x)]
  BY DEF SchedInsert, LinkLast
<1> HIDE DEF r
<1>3. ASSUME NEW y \in Prio, NEW t \in Task, NEW u \in Task, Ahead(s.lists[y], t, u)
      PROVE  Ahead(r.lists[y], t, u)
  <2>1. CASE y = p
    BY <1>1, <1>2, <1>3, <2>1, AheadAppend
  <2>2. CASE y # p
    BY <1>1, <1>2, <1>3, <2>2
  <2> QED
    BY <2>1, <2>2
<1>4. KeepsOrder(s, r, c)
  BY <1>3 DEF KeepsOrder
<1> QED
  BY <1>4 DEF r

(* A task that becomes last in a queue it was not in, or that is c itself. *)
LEMMA MoveKeepsOrder ==
  ASSUME NEW s \in SchedType, InjectiveLists(s.lists), NEW x \in Task, NEW p \in Prio,
         NEW c, x = c \/ x \notin Range(s.lists[p]),
         NEW r, r.lists = LinkLast(Unlink(s.lists, x), p, x)
  PROVE  KeepsOrder(s, r, c)
<1>1. s.lists \in [ListId -> Seq(Task)] /\ p \in ListId /\ Prio \subseteq ListId
  BY ConstantFacts DEF SchedType
<1>2. r.lists = [Unlink(s.lists, x) EXCEPT ![p] = Append(@, x)]
  BY DEF LinkLast
<1>3. ASSUME NEW y \in Prio, y # p PROVE r.lists[y] = Without(s.lists[y], x)
  BY <1>1, <1>2, <1>3 DEF Unlink
<1>4. r.lists[p] = Append(Without(s.lists[p], x), x)
  BY <1>1, <1>2 DEF Unlink
<1>5. ASSUME NEW y \in Prio, NEW t \in Task, NEW u \in Task, t # c,
             Ahead(s.lists[y], t, u), {t, u} \subseteq Range(r.lists[y])
      PROVE  Ahead(r.lists[y], t, u)
  <2>1. PICK q \in Seq(Task) : q = s.lists[y]
    BY <1>1
  <2>2. IsInjective(q) /\ Ahead(q, t, u)
    BY <1>1, <1>5, <2>1 DEF InjectiveLists
  <2>3. Without(q, x) \in Seq(Task) /\ x \notin Range(Without(q, x))
    BY <2>1, <2>2, WithoutProperties
  <2>4. CASE y # p
    <3>1. r.lists[y] = Without(q, x)
      BY <1>3, <2>1, <2>4
    <3>2. t # x /\ u # x
      BY <1>5, <2>3, <3>1
    <3> QED
      BY <2>2, <3>1, <3>2, AheadWithout
  <2>5. CASE y = p
    <3>1. r.lists[y] = Append(Without(q, x), x)
      BY <1>4, <2>1, <2>5
    <3>2. t \in Range(q) /\ u \in Range(q)
      BY <2>2 DEF Ahead, Range
    <3>3. t # x
      BY <1>5, <2>1, <2>5, <3>2
    <3>4. t \in Range(Without(q, x))
      BY <3>2, <3>3, WithoutProperties
    <3>5. CASE u = x
      BY <2>3, <3>1, <3>4, <3>5, AheadAppend
    <3>6. CASE u # x
      BY <2>2, <2>3, <3>1, <3>3, <3>6, AheadWithout, AheadAppend
    <3> QED
      BY <3>5, <3>6
  <2> QED
    BY <2>4, <2>5
<1> QED
  BY <1>5 DEF KeepsOrder

(* A task that is not ready, or is moved to the queue of another priority. *)
LEMMA NotInQueue ==
  ASSUME Inv, NEW u \in Task, NEW p \in Prio, ~Ready(u) \/ p # curPrio[u]
  PROVE  u \notin Range(sched.lists[p])
BY InReadyQueue DEF Inv, SchedInv, InList

LEMMA DeleteKeepsOrder ==
  ASSUME Inv, NEW u \in Task, DeleteEffect(u)
  PROVE  KeepsOrder(sched, sched', current)
<1>1. sched \in SchedType /\ InjectiveLists(sched.lists)
  BY DEF Inv, IType, TypeOK, SchedInv
<1>2. \A l \in Prio : sched'.lists[l] = Without(sched.lists[l], u)
  BY <1>1, ConstantFacts, ListAssumption
     DEF DeleteEffect, SchedRemove, Unlink, LinkLast, SchedType
<1>3. PICK r : r = sched'
  OBVIOUS
<1> QED
  BY <1>1, <1>2, <1>3, UnlinkKeepsOrder

LEMMA SetPriorityKeepsOrder ==
  ASSUME Inv, NEW u \in Task, NEW p \in Prio, p # curPrio[u], ChangePriority(u, p)
  PROVE  KeepsOrder(sched, sched', current)
<1>1. sched \in SchedType /\ InjectiveLists(sched.lists) /\ curPrio \in [Task -> Prio]
  BY DEF Inv, IType, TypeOK, SchedInv
<1>2. PICK r : r = sched'
  OBVIOUS
<1>3. PICK prio : prio = [curPrio EXCEPT ![u] = p]
  OBVIOUS
<1>4. prio[u] = p /\ r = Reprioritised(sched, u, prio)
  BY <1>1, <1>2, <1>3 DEF ChangePriority
<1>5. CASE Ready(u)
  <2>1. r.lists = LinkLast(Unlink(sched.lists, u), p, u)
    BY <1>2, <1>4, <1>5 DEF Reprioritised, Ready, SchedInsert, SchedRemove
  <2>2. u \notin Range(sched.lists[p])
    BY NotInQueue
  <2> QED
    BY <1>1, <1>2, <2>1, <2>2, MoveKeepsOrder
<1>6. CASE ~Ready(u)
  <2>1. CASE r = sched
    BY <1>2, <2>1 DEF KeepsOrder
  <2>2. CASE r # sched
    <3>1. /\ msg[u].source \in Ipc
          /\ r = [sched EXCEPT !.lists =
                    LET rest == Unlink(@, u)
                    IN  [rest EXCEPT ![msg[u].source] =
                           InsertByPriority(@, u, prio)]]
      <4>1. r = Reordered(sched, u, prio)
        BY <1>4, <1>6, <2>2 DEF Reprioritised, Ready
      <4>2. msg[u].source \in Ipc \cup {NoIpc}
        BY DEF Inv, IType, TypeOK, MsgType
      <4> QED
        BY <2>2, <4>1, <4>2 DEF Reordered
    <3>2. \A l \in Prio : r.lists[l] = Without(sched.lists[l], u)
      BY <1>1, <3>1, ConstantFacts, ListAssumption DEF Unlink, SchedType
    <3> QED
      BY <1>1, <1>2, <3>2, UnlinkKeepsOrder
  <2> QED
    BY <2>1, <2>2
<1> QED
  BY <1>5, <1>6

LEMMA OrderStep ==
  ASSUME Inv, Next
  PROVE  KeepsOrder(sched, sched', current)
<1>a. /\ IType /\ sched \in SchedType /\ InjectiveLists(sched.lists)
      /\ curPrio \in [Task -> Prio] /\ User \subseteq Task /\ Idle \in Task
      /\ NoTask \notin Task
  BY ConstantFacts DEF Inv, IType, TypeOK, SchedInv
<1>1. ASSUME UNCHANGED sched PROVE KeepsOrder(sched, sched', current)
  BY <1>1 DEF KeepsOrder
<1>2. ASSUME NEW u \in Task, StartEffect(u), ~Linked(sched.lists, u)
      PROVE  KeepsOrder(sched, sched', current)
  <2>1. PICK p \in Prio : sched' = SchedInsert(sched, u, p, mask[u])
    BY <1>a, <1>2, StartEffectType
  <2> QED
    BY <1>a, <1>2, <2>1, InsertKeepsOrder
<1>3. ASSUME NEW u, \A p \in Prio : sched'.lists[p] = Without(sched.lists[p], u)
      PROVE  KeepsOrder(sched, sched', current)
  <2>1. PICK r : r = sched'
    OBVIOUS
  <2> QED
    BY <1>a, <1>3, <2>1, UnlinkKeepsOrder
<1>4. ASSUME current \in Task, sched' = Rotate(sched, current, curPrio[current])
      PROVE  KeepsOrder(sched, sched', current)
  <2>1. PICK t \in Task, p \in Prio : t = current /\ p = curPrio[t]
    BY <1>4, <1>a
  <2>2. PICK r : r = sched'
    OBVIOUS
  <2>3. r.lists = LinkLast(Unlink(sched.lists, t), p, t)
    BY <1>4, <1>a, <2>1, <2>2 DEF Rotate, SchedType
  <2> QED
    BY <1>a, <2>1, <2>2, <2>3, MoveKeepsOrder
<1>5. ASSUME NEW u \in User, MainStart(u) PROVE KeepsOrder(sched, sched', current)
  <2>1. Home(u) = {} /\ DOMAIN sched.lists = ListId /\ u \in Task
    BY <1>5, <1>a DEF MainStart, Home, SchedType
  <2>2. ~Linked(sched.lists, u)
    BY <2>1 DEF Inv, SchedInv, Match, Linked, InList
  <2> QED
    BY <1>2, <1>5, <2>1, <2>2 DEF MainStart
<1>6. ASSUME CleanupDefunct PROVE KeepsOrder(sched, sched', current)
  <2>1. \A p \in Prio : sched'.lists[p] = sched.lists[p]
    BY <1>6, <1>a, ConstantFacts, ListAssumption DEF CleanupDefunct, SchedType
  <2> QED
    BY <2>1 DEF KeepsOrder
<1>7. ASSUME TickTimeout PROVE KeepsOrder(sched, sched', current)
  <2>1. CASE status[firing] # "BLOCKED"
    BY <1>1, <1>7, <2>1 DEF TickTimeout
  <2>2. CASE status[firing] = "BLOCKED"
    <3>1. firing \in Task
      BY <1>7, <1>a DEF TickTimeout, IType
    <3>2. PICK t \in Task, p \in Prio : t = firing /\ p = curPrio[t]
      BY <3>1, <1>a
    <3>3. PICK r : r = sched'
      OBVIOUS
    <3>4. r.lists = LinkLast(Unlink(sched.lists, t), p, t)
      BY <1>7, <1>a, <2>2, <3>2, <3>3 DEF TickTimeout, SchedInsert, SchedType
    <3>5. t \notin Range(sched.lists[p])
      BY <2>2, <3>2, NotInQueue DEF Ready
    <3> QED
      BY <1>a, <3>2, <3>4, <3>5, <3>3, MoveKeepsOrder
  <2> QED
    BY <2>1, <2>2
<1>8. ASSUME NEW t \in User, TaskStep(t) PROVE KeepsOrder(sched, sched', current)
  <2>1. CASE StartCommit(t)
    BY <1>2, <1>a, <2>1 DEF StartCommit, IType
  <2>2. ASSUME NEW n \in 1 .. MaxSleep, Sleep(t, n)
        PROVE  KeepsOrder(sched, sched', current)
    BY <1>3, <1>a, <2>2, ConstantFacts DEF Sleep, SchedRemove, Unlink, SchedType
  <2>3. CASE Yield(t)
    BY <1>4, <1>a, <2>3 DEF Yield, MayCall, Executes
  <2>4. ASSUME NEW u \in User, Suspend(t, u) PROVE KeepsOrder(sched, sched', current)
    <3>1. sched'.lists = Unlink(sched.lists, u)
      <4>1. \/ sched' = SchedRemove(sched, u, curPrio[u], mask[u])
            \/ sched' = [sched EXCEPT !.lists = Unlink(@, u)]
        BY <2>4 DEF Suspend
      <4> QED
        BY <1>a, <4>1 DEF SchedRemove, SchedType
    <3> QED
      BY <1>3, <1>a, <3>1, ConstantFacts DEF Unlink, SchedType
  <2>5. CASE Exit(t) \/ \E u \in User : Delete(t, u)
    BY <1>a, <2>5, DeleteKeepsOrder DEF Exit, Delete
  <2>6. ASSUME NEW u \in User, NEW p \in Prio, SetPriority(t, u, p)
        PROVE  KeepsOrder(sched, sched', current)
    BY <1>1, <1>a, <2>6, SetPriorityKeepsOrder DEF SetPriority
  <2>7. CASE \/ StartRelinks(t) \/ TaskSwitch(t) \/ TaskMisdispatch(t) \/ SleepZero(t)
             \/ \E u \in User : StartCheck(t, u) \/ Create(t, u)
    BY <1>1, <2>7 DEF StartRelinks, TaskSwitch, TaskMisdispatch, Misdispatch, Crash,
       SleepZero, StartCheck, Create
  <2> QED
    BY <1>8, <2>1, <2>2, <2>3, <2>4, <2>5, <2>6, <2>7 DEF TaskStep
<1>9. ASSUME TickStep PROVE KeepsOrder(sched, sched', current)
  <2>1. CASE TickYield
    BY <1>1, <1>4, <1>a, <2>1 DEF TickYield, IType
  <2>2. CASE TickBegin \/ TickSwitch \/ TickMisdispatch \/ TickCheck \/ TickPop \/ TickEnd
    BY <1>1, <2>2 DEF TickBegin, TickSwitch, TickMisdispatch, Misdispatch, Crash,
       TickCheck, TickPop, TickEnd
  <2> QED
    BY <1>7, <1>9, <2>1, <2>2 DEF TickStep
<1>10. ASSUME KernelStart \/ Halted PROVE KeepsOrder(sched, sched', current)
  BY <1>1, <1>10 DEF KernelStart, Halted, vars
<1> QED
  BY <1>5, <1>6, <1>8, <1>9, <1>10 DEF Next

(* No task but the current one is overtaken in its ready queue, for every  *)
(* workload: neither a switch nor a change of priority, nor a timeout, a   *)
(* start or a deletion reorders the tasks that stay in a queue.            *)
THEOREM FirstComeFirstServed == Spec => FifoWithinPriority
<1>1. Inv /\ [Next]_vars =>
        [\A p \in Prio : \A t, u \in Task :
           /\ Ahead(sched.lists[p], t, u)
           /\ {t, u} \subseteq Range(sched'.lists[p])
           => Ahead(sched'.lists[p], t, u) \/ t = current]_vars
  BY OrderStep DEF KeepsOrder
<1> QED
  BY <1>1, InvHolds, PTL DEF Spec, FifoWithinPriority

-----------------------------------------------------------------------------
(* What the kernel guarantees to an application in which one task starts   *)
(* and deletes the others, or none changes a priority, for every such      *)
(* workload.  Without OneStarter the status that yr_task_start checks may  *)
(* change before it acts on it (StartIsAtomic of MCKernel); without        *)
(* FixedPriorities a bit may be left behind for the queue a task has left. *)

(* No two tasks call yr_task_start or yr_task_delete.                      *)
OneStarter ==
  \E m \in User : \A t \in User : {"start", "delete"} \cap Calls[t] # {} => t = m

Startable(t) == status[t] \in {"INIT", "SUSPENDED"}

(* What makes yr_task_start atomic: the task it is about to make ready     *)
(* stays as the check found it.                                            *)
StartInv ==
  /\ OneStarter
  /\ \A t \in User : pc[t] = "start" => "start" \in Calls[t] /\ Startable(arg[t])
  /\ current = NoTask => \A t \in User : pc[t] = "app"

(* The steps a task's status may take.                                     *)
Transition(t) ==
  \/ status'[t] = status[t]
  \/ {status[t], status'[t]} \subseteq {"READY", "RUNNING"}
  \/ Startable(t) /\ status'[t] = "READY"
  \/ status[t] = "BLOCKED" /\ status'[t] = "READY"
  \/ Ready(t) /\ status'[t] = "BLOCKED"
  \/ status[t] \in {"READY", "RUNNING", "BLOCKED"} /\ status'[t] = "SUSPENDED"
  \/ status[t] \notin {"TERMINATED", "DELETED"} /\ status'[t] = "TERMINATED"
  \/ status[t] = "TERMINATED" /\ status'[t] = "DELETED"
  \/ status[t] = "DELETED" /\ status'[t] = "INIT"

Allowed == \A t \in Task : Transition(t)

LEMMA StartInvInit == OneStarter /\ Init => StartInv
<1> SUFFICES ASSUME OneStarter, Init PROVE StartInv
  OBVIOUS
<1>1. \A t \in User : pc[t] = "app"
  BY ConstantFacts DEF Init
<1> QED
  BY <1>1 DEF StartInv

(* A step that starts and deletes no task.                                 *)
LEMMA StartFrame ==
  ASSUME Inv, StartInv,
         \A u \in Task : Startable(u) => Startable(u)',
         \A t \in User : pc'[t] = "start" => pc[t] = "start" /\ arg'[t] = arg[t],
         current' = NoTask => current = NoTask /\ UNCHANGED pc
  PROVE  StartInv'
<1>1. \A t \in User : pc[t] = "start" => arg[t] \in Task
  BY ConstantFacts DEF Inv, IType
<1>2. ASSUME NEW t \in User, pc'[t] = "start"
      PROVE  "start" \in Calls[t] /\ status'[arg'[t]] \in {"INIT", "SUSPENDED"}
  <2>1. /\ arg'[t] \in Task /\ arg'[t] = arg[t]
        /\ "start" \in Calls[t] /\ status[arg[t]] \in {"INIT", "SUSPENDED"}
    BY <1>1, <1>2 DEF StartInv, Startable
  <2> QED
    BY <2>1 DEF Startable
<1>3. current' = NoTask => \A t \in User : pc'[t] = "app"
  BY DEF StartInv
<1> QED
  BY <1>2, <1>3 DEF StartInv, Startable

LEMMA ChosenIsReady ==
  ASSUME Inv, CanDispatch(sched)
  PROVE  Chosen(sched) \in Task /\ Ready(Chosen(sched))
<1>1. /\ Prio \in SUBSET Nat /\ Prio \subseteq ListId
      /\ sched \in [lists : [ListId -> Seq(Task)], group : SUBSET Prio]
  BY ConstantFacts DEF Inv, IType, TypeOK, SchedType
<1>2. /\ Top(sched) \in Prio /\ Chosen(sched) \in Task
      /\ Chosen(sched) \in Range(sched.lists[Top(sched)])
  BY ONLY <1>1, CanDispatch(sched), ChosenProperties
<1>3. InList(sched, Chosen(sched), Top(sched))
  BY <1>2 DEF InList
<1> QED
  BY <1>2, <1>3, InReadyQueue DEF Inv, SchedInv

LEMMA DispatchTransition ==
  ASSUME Inv, Dispatch, current \in Task
  PROVE  /\ Allowed /\ current' \in Task
         /\ \A u \in Task : Startable(u) => Startable(u)'
         /\ \A u \in Task : status'[u] = "BLOCKED" <=> status[u] = "BLOCKED"
         /\ \A u \in Task : \/ status'[u] = status[u]
                            \/ {status[u], status'[u]} \subseteq {"READY", "RUNNING"}
<1>1. PICK p \in Prio : InList(sched, current', p)
  BY DispatchType DEF Inv
<1>2. /\ current' \in Task /\ status' \in [Task -> Status]
      /\ current' # current =>
           /\ status'[current'] = "RUNNING"
           /\ status'[current] = IF status[current] = "RUNNING" THEN "READY"
                                 ELSE status[current]
           /\ \A t \in Task \ {current, current'} : status'[t] = status[t]
      /\ current' = current => UNCHANGED status
  BY DispatchType DEF Inv
<1>3. Ready(current')
  BY <1>1, <1>2, InReadyQueue DEF Inv, SchedInv
<1>4. ASSUME NEW u \in Task
      PROVE  status'[u] = status[u] \/ {status[u], status'[u]} \subseteq {"READY", "RUNNING"}
  <2>1. CASE current' = current
    BY <1>2, <2>1
  <2>2. CASE current' # current /\ u = current'
    BY <1>2, <1>3, <2>2 DEF Ready
  <2>3. CASE current' # current /\ u = current
    BY <1>2, <2>3
  <2>4. CASE current' # current /\ u # current /\ u # current'
    BY <1>2, <2>4
  <2> QED
    BY <2>1, <2>2, <2>3, <2>4
<1> QED
  BY <1>2, <1>4 DEF Allowed, Transition, Startable

(* Only one task can be between the check and the effect of yr_task_start, *)
(* and while it is there nobody deletes a task.                            *)
LEMMA StarterIsAlone ==
  ASSUME StartInv, NEW t \in User, NEW x \in User,
         {"start", "delete"} \cap Calls[t] # {}, pc[x] = "start"
  PROVE  x = t
<1>1. {"start", "delete"} \cap Calls[x] # {}
  BY DEF StartInv
<1> QED
  BY <1>1 DEF StartInv, OneStarter
(* The kernel's steps keep to the diagram, and keep yr_task_start atomic.  *)
LEMMA ManagedStep ==
  ASSUME Inv, StartInv, [Next]_vars
  PROVE  Allowed /\ StartInv'
<1>a. /\ IType /\ status \in [Task -> Status] /\ pc \in [Task -> Label]
      /\ arg \in [Task -> Task \cup {NoTask}]
      /\ User \subseteq Task /\ NoTask \notin Task /\ Idle \in Task
  BY ConstantFacts DEF Inv, IType, TypeOK
<1>b. ASSUME NEW t \in User, Executes(t), pc[t] # "switch" PROVE Ready(t)
  BY <1>a, <1>b DEF Executes, Inv, RunInv
<1>c. ASSUME UNCHANGED status
      PROVE  Allowed /\ \A u \in Task : Startable(u) => Startable(u)'
  BY <1>c DEF Allowed, Transition, Startable
<1>d. ASSUME NEW t \in User, NEW label \in {"app", "switch"}, Goto(t, label)
      PROVE  \A x \in User : pc'[x] = "start" => pc[x] = "start"
  BY <1>d, <1>a DEF Goto
<1>1. ASSUME NEW u \in User, MainStart(u) PROVE Allowed /\ StartInv'
  <2>1. /\ current = NoTask /\ status[u] = "INIT" /\ UNCHANGED <<current, pc, arg>>
        /\ status' = [status EXCEPT ![u] = "READY"]
    BY <1>1 DEF MainStart, StartEffect
  <2>2. Allowed
    BY <2>1, <1>a DEF Allowed, Transition, Startable
  <2>3. \A x \in User : pc'[x] = "app"
    BY <2>1 DEF StartInv
  <2> QED
    BY <2>2, <2>3 DEF StartInv
<1>2. ASSUME KernelStart PROVE Allowed /\ StartInv'
  <2>1. /\ current = NoTask /\ UNCHANGED <<pc, arg>>
        /\ status' = [status EXCEPT ![current'] = "RUNNING"]
        /\ CanDispatch(sched) /\ current' = Chosen(sched)
    BY <1>2 DEF KernelStart
  <2>2. Ready(current') /\ current' \in Task
    BY <2>1, ChosenIsReady
  <2>3. Allowed
    BY <2>1, <2>2, <1>a DEF Allowed, Transition, Ready
  <2>4. \A x \in User : pc'[x] = "app"
    BY <2>1 DEF StartInv
  <2> QED
    BY <2>2, <2>3, <2>4 DEF StartInv
<1>3. ASSUME NEW t \in User, StartCommit(t) PROVE Allowed /\ StartInv'
  <2>1. /\ Executes(t) /\ pc[t] = "start" /\ UNCHANGED current
        /\ status' = [status EXCEPT ![arg[t]] = "READY"]
        /\ \E label \in {"app", "switch"} : Goto(t, label)
    BY <1>3 DEF StartCommit, StartEffect
  <2>2. Startable(arg[t]) /\ "start" \in Calls[t]
    BY <2>1 DEF StartInv
  <2>3. Allowed
    BY <2>1, <2>2, <1>a DEF Allowed, Transition
  <2>4. \A x \in User : pc[x] = "start" => x = t
    BY <2>2, StarterIsAlone
  <2>5. \A x \in User : pc'[x] # "start"
    BY <2>1, <2>4, <1>a DEF Goto
  <2>6. current' # NoTask
    BY <2>1, <1>a DEF Executes
  <2> QED
    BY <2>3, <2>5, <2>6 DEF StartInv
<1>4. ASSUME NEW t \in User, StartRelinks(t) PROVE Allowed /\ StartInv'
  <2>1. UNCHANGED <<status, pc, arg, current>>
    BY <1>4 DEF StartRelinks, Crash, taskVars
  <2> QED
    BY <2>1, <1>c, StartFrame
<1>5. ASSUME NEW t \in User, TaskSwitch(t) PROVE Allowed /\ StartInv'
  <2>1. Dispatch /\ current \in Task /\ UNCHANGED arg /\ Goto(t, "app")
    BY <1>5, <1>a DEF TaskSwitch, Executes
  <2>2. Allowed /\ current' \in Task /\ \A u \in Task : Startable(u) => Startable(u)'
    BY <2>1, DispatchTransition
  <2>3. \A x \in User : pc'[x] = "start" => pc[x] = "start"
    BY <2>1, <1>d
  <2> QED
    BY <2>1, <2>2, <2>3, <1>a, StartFrame
<1>6. ASSUME NEW t \in User, TaskMisdispatch(t) PROVE Allowed /\ StartInv'
  <2>1. UNCHANGED <<status, pc, arg, current>>
    BY <1>6 DEF TaskMisdispatch, Misdispatch, Crash, taskVars
  <2> QED
    BY <2>1, <1>c, StartFrame
<1>7. ASSUME NEW t \in User, NEW n \in 1 .. MaxSleep, Sleep(t, n)
      PROVE  Allowed /\ StartInv'
  <2>1. /\ Executes(t) /\ pc[t] = "app" /\ UNCHANGED <<current, arg>> /\ Goto(t, "switch")
        /\ status' = [status EXCEPT ![t] = "BLOCKED"]
    BY <1>7 DEF Sleep, MayCall
  <2>2. Ready(t)
    BY <2>1, <1>b
  <2>3. Allowed /\ \A u \in Task : Startable(u) => Startable(u)'
    BY <2>1, <2>2, <1>a DEF Allowed, Transition, Ready, Startable
  <2>4. \A x \in User : pc'[x] = "start" => pc[x] = "start"
    BY <2>1, <1>d
  <2>5. current' # NoTask
    BY <2>1, <1>a DEF Executes
  <2> QED
    BY <2>1, <2>3, <2>4, <2>5, StartFrame
<1>8. ASSUME NEW t \in User, SleepZero(t) \/ Yield(t) PROVE Allowed /\ StartInv'
  <2>1. /\ Executes(t) /\ UNCHANGED <<current, arg, status>> /\ Goto(t, "switch")
    BY <1>8 DEF SleepZero, Yield, MayCall, taskVars
  <2>2. \A x \in User : pc'[x] = "start" => pc[x] = "start"
    BY <2>1, <1>d
  <2>3. current' # NoTask
    BY <2>1, <1>a DEF Executes
  <2> QED
    BY <2>1, <2>2, <2>3, <1>c, StartFrame
<1>9. ASSUME NEW t \in User, NEW u \in User, StartCheck(t, u)
      PROVE  Allowed /\ StartInv'
  <2>1. /\ Executes(t) /\ "start" \in Calls[t] /\ Startable(u)
        /\ UNCHANGED <<current, status>>
        /\ pc' = [pc EXCEPT ![t] = "start"] /\ arg' = [arg EXCEPT ![t] = u]
    BY <1>9 DEF StartCheck, MayCall, Goto, Startable, taskVars
  <2>2. current' # NoTask
    BY <2>1, <1>a DEF Executes
  <2>3. ASSUME NEW x \in User, pc'[x] = "start"
        PROVE  "start" \in Calls[x] /\ status'[arg'[x]] \in {"INIT", "SUSPENDED"}
    BY <2>1, <2>3, <1>a DEF StartInv, Startable
  <2> QED
    BY <2>1, <2>2, <2>3, <1>c DEF StartInv, Startable
<1>10. ASSUME NEW t \in User, NEW u \in User, Suspend(t, u)
       PROVE  Allowed /\ StartInv'
  <2>1. /\ Executes(t) /\ UNCHANGED <<current, arg>>
        /\ \E label \in {"app", "switch"} : Goto(t, label)
        /\ status[u] \in {"READY", "RUNNING", "BLOCKED"}
        /\ status' = [status EXCEPT ![u] = "SUSPENDED"]
    BY <1>10 DEF Suspend, MayCall
  <2>2. Allowed /\ \A x \in Task : Startable(x) => Startable(x)'
    BY <2>1, <1>a DEF Allowed, Transition, Startable
  <2>3. \A x \in User : pc'[x] = "start" => pc[x] = "start"
    BY <2>1, <1>d
  <2>4. current' # NoTask
    BY <2>1, <1>a DEF Executes
  <2> QED
    BY <2>1, <2>2, <2>3, <2>4, StartFrame
<1>11. ASSUME NEW t \in User, Exit(t) PROVE Allowed /\ StartInv'
  <2>1. /\ Executes(t) /\ pc[t] = "app" /\ UNCHANGED <<current, arg>> /\ Goto(t, "switch")
        /\ status' = [status EXCEPT ![t] = "TERMINATED"]
    BY <1>11 DEF Exit, MayCall, DeleteEffect
  <2>2. Ready(t)
    BY <2>1, <1>b
  <2>3. Allowed /\ \A u \in Task : Startable(u) => Startable(u)'
    BY <2>1, <2>2, <1>a DEF Allowed, Transition, Ready, Startable
  <2>4. \A x \in User : pc'[x] = "start" => pc[x] = "start"
    BY <2>1, <1>d
  <2>5. current' # NoTask
    BY <2>1, <1>a DEF Executes
  <2> QED
    BY <2>1, <2>3, <2>4, <2>5, StartFrame
<1>12. ASSUME NEW t \in User, NEW u \in User, Delete(t, u) PROVE Allowed /\ StartInv'
  <2>1. /\ Executes(t) /\ pc[t] = "app" /\ UNCHANGED <<current, arg>>
        /\ "delete" \in Calls[t]
        /\ \E label \in {"app", "switch"} : Goto(t, label)
        /\ status[u] \notin {"TERMINATED", "DELETED"}
        /\ status' = [status EXCEPT ![u] = "TERMINATED"]
    BY <1>12 DEF Delete, MayCall, DeleteEffect
  <2>2. Allowed
    BY <2>1, <1>a DEF Allowed, Transition
  <2>3. \A x \in User : pc[x] = "start" => x = t
    BY <2>1, StarterIsAlone
  <2>4. \A x \in User : pc'[x] # "start"
    BY <2>1, <2>3, <1>a DEF Goto
  <2>5. current' # NoTask
    BY <2>1, <1>a DEF Executes
  <2> QED
    BY <2>2, <2>4, <2>5 DEF StartInv
<1>13. ASSUME NEW t \in User, NEW u \in User, Create(t, u) PROVE Allowed /\ StartInv'
  <2>1. /\ Executes(t) /\ UNCHANGED current /\ status[u] = "DELETED"
        /\ status' = [status EXCEPT ![u] = "INIT"]
        /\ pc' = [pc EXCEPT ![u] = "app"] /\ arg' = [arg EXCEPT ![u] = NoTask]
    BY <1>13 DEF Create, MayCall
  <2>2. Allowed /\ \A x \in Task : Startable(x) => Startable(x)'
    BY <2>1, <1>a DEF Allowed, Transition, Startable
  <2>3. \A x \in User : pc'[x] = "start" => pc[x] = "start" /\ arg'[x] = arg[x]
    BY <2>1, <1>a
  <2>4. current' # NoTask
    BY <2>1, <1>a DEF Executes
  <2> QED
    BY <2>2, <2>3, <2>4, StartFrame
<1>14. ASSUME NEW t \in User, NEW u \in User, NEW p \in Prio, SetPriority(t, u, p)
       PROVE  Allowed /\ StartInv'
  <2>1. /\ Executes(t) /\ UNCHANGED <<current, arg, status>>
        /\ (\E label \in {"app", "switch"} : Goto(t, label)) \/ UNCHANGED pc
    BY <1>14 DEF SetPriority, MayCall
  <2>2. \A x \in User : pc'[x] = "start" => pc[x] = "start"
    BY <2>1, <1>d
  <2>3. current' # NoTask
    BY <2>1, <1>a DEF Executes
  <2> QED
    BY <2>1, <2>2, <2>3, <1>c, StartFrame
<1>15. ASSUME CleanupDefunct PROVE Allowed /\ StartInv'
  <2>1. /\ UNCHANGED <<current, pc, arg>>
        /\ \A t \in Task : status'[t] = IF InList(sched, t, Defunct)
                                       THEN "DELETED" ELSE status[t]
    BY <1>15 DEF CleanupDefunct, InList
  <2>2. \A t \in Task : InList(sched, t, Defunct) <=> status[t] = "TERMINATED"
    BY <1>a, InDefunctList DEF Inv, SchedInv
  <2>3. Allowed /\ \A x \in Task : Startable(x) => Startable(x)'
    BY <2>1, <2>2 DEF Allowed, Transition, Startable
  <2> QED
    BY <2>1, <2>3, StartFrame
<1>16. ASSUME TickSwitch PROVE Allowed /\ StartInv'
  <2>1. Dispatch /\ current \in Task /\ UNCHANGED <<pc, arg>>
    BY <1>16, <1>a DEF TickSwitch, IType
  <2>2. Allowed /\ current' \in Task /\ \A u \in Task : Startable(u) => Startable(u)'
    BY <2>1, DispatchTransition
  <2> QED
    BY <2>1, <2>2, <1>a, StartFrame
<1>17. ASSUME TickTimeout PROVE Allowed /\ StartInv'
  <2>1. UNCHANGED <<current, pc, arg>> /\ firing \in Task
    BY <1>17, <1>a DEF TickTimeout, IType
  <2>2. \/ UNCHANGED status
        \/ status[firing] = "BLOCKED" /\ status' = [status EXCEPT ![firing] = "READY"]
    BY <1>17 DEF TickTimeout
  <2>3. Allowed /\ \A x \in Task : Startable(x) => Startable(x)'
    BY <2>1, <2>2, <1>a DEF Allowed, Transition, Startable
  <2> QED
    BY <2>1, <2>3, StartFrame
<1>18. ASSUME TickBegin \/ TickYield \/ TickMisdispatch \/ TickCheck \/ TickPop \/ TickEnd
       PROVE  Allowed /\ StartInv'
  <2>1. UNCHANGED <<status, pc, arg, current>>
    BY <1>18 DEF TickBegin, TickYield, TickMisdispatch, Misdispatch, Crash, TickCheck,
                 TickPop, TickEnd, taskVars
  <2> QED
    BY <2>1, <1>c, StartFrame
<1>19. ASSUME UNCHANGED vars PROVE Allowed /\ StartInv'
  <2>1. UNCHANGED <<status, pc, arg, current>>
    BY <1>19 DEF vars, taskVars
  <2> QED
    BY <2>1, <1>c, StartFrame
<1> QED
  BY <1>1, <1>2, <1>3, <1>4, <1>5, <1>6, <1>7, <1>8, <1>9, <1>10, <1>11, <1>12, <1>13,
     <1>14, <1>15, <1>16, <1>17, <1>18, <1>19
  DEF Next, TaskStep, TickStep, Halted

LEMMA ManagedHolds == OneStarter /\ Spec => [](Inv /\ StartInv)
<1>1. Init => Inv
  BY InvInit
<1>2. Inv /\ [Next]_vars => Inv'
  BY InvStep
<1>3. Inv /\ StartInv /\ [Next]_vars => StartInv'
  BY ManagedStep
<1>4. OneStarter /\ Init => StartInv
  BY StartInvInit
<1> QED
  BY <1>1, <1>2, <1>3, <1>4, PTL DEF Spec

(* yr_task_start is atomic if only one task starts and deletes: what it    *)
(* checks with interrupts enabled still holds when it acts.                *)
THEOREM StartAtomicIfManaged == OneStarter /\ Spec => StartIsAtomic
<1> DEFINE A == \A t \in User : StartCommit(t) \/ StartRelinks(t)
                                  => status[arg[t]] \in {"INIT", "SUSPENDED"}
<1>1. Inv /\ StartInv /\ [Next]_vars => [A]_vars
  <2> SUFFICES ASSUME StartInv PROVE A
    OBVIOUS
  <2> QED
    BY DEF StartInv, Startable, StartCommit, StartRelinks
<1> QED
  BY <1>1, ManagedHolds, PTL DEF Spec, StartIsAtomic

(* Then no step revives a TERMINATED task, and a DELETED one only comes    *)
(* back by yr_task_create: a timeout finds only BLOCKED tasks, a dispatch  *)
(* only ready ones.                                                        *)
THEOREM DeletionFinalIfManaged == OneStarter /\ Spec => DeletionIsFinal
<1> DEFINE A == \A t \in Task :
                  /\ status[t] = "TERMINATED" => status'[t] \in {"TERMINATED", "DELETED"}
                  /\ status[t] = "DELETED" => status'[t] \in {"DELETED", "INIT"}
<1>1. Inv /\ StartInv /\ [Next]_vars => [A]_vars
  <2> SUFFICES ASSUME Inv, StartInv, [Next]_vars PROVE A
    OBVIOUS
  <2>1. Allowed
    BY ManagedStep
  <2> QED
    BY <2>1 DEF Allowed, Transition, Ready, Startable
<1> QED
  BY <1>1, ManagedHolds, PTL DEF Spec, DeletionIsFinal

-----------------------------------------------------------------------------
(* Timers.  The node of a task's timer is in at most one place of three:   *)
(* the timer list, the list of the expired timers, and the variable of the *)
(* handler that has taken it out to fire it.                               *)

Timed(t) == t \in Range(timerList) \/ t \in Range(due) \/ firing = t

(* The stages of the handler with a timeout_list.                          *)
FireStage == {"fire", "timeout", "fireSwitch"}

TimerLists ==
  /\ IsInjective(timerList) /\ IsInjective(due)
  /\ \A t \in Task : ~ (t \in Range(timerList) /\ t \in Range(due))
  /\ firing \notin Range(timerList) /\ firing \notin Range(due)
  /\ tick # "timeout" => firing = NoTask
  /\ tick \notin FireStage => due = <<>>

TimerInv ==
  /\ TimerLists
  /\ \A t \in Task : /\ Timed(t) => status[t] = "BLOCKED"
                     /\ status[t] = "BLOCKED" /\ msg[t].reason = "SLEEP" => Timed(t)

LEMMA InsertTimerProperties ==
  ASSUME NEW q \in Seq(Task), NEW t \in Task, NEW d
  PROVE  /\ \A u : u \in Range(InsertTimer(q, t, d)) <=> u \in Range(q) \/ u = t
         /\ IsInjective(q) /\ t \notin Range(q) => IsInjective(InsertTimer(q, t, d))
<1> DEFINE places == {j \in DOMAIN q : d[q[j]] > d[t]}
<1>1. InsertTimer(q, t, d) = InsertBefore(q, t, places)
  BY DEF InsertTimer
<1>2. places \in SUBSET DOMAIN q
  OBVIOUS
<1> HIDE DEF places
<1> QED
  BY <1>1, <1>2, InsertBeforeProperties

LEMMA StopTimerLists ==
  ASSUME IType, TimerLists, NEW u \in Task, firing # u, StopTimer(u),
         tick' = tick
  PROVE  /\ TimerLists'
         /\ ~Timed(u)'
         /\ \A t \in Task : t # u => (Timed(t)' <=> Timed(t))
<1>1. timerList \in Seq(Task) /\ due \in Seq(Task)
  BY DEF IType, TypeOK
<1>2. timerList' = Without(timerList, u) /\ due' = Without(due, u) /\ UNCHANGED firing
  BY DEF StopTimer
<1>3. /\ \A t : t # u => (t \in Range(timerList') <=> t \in Range(timerList))
      /\ u \notin Range(timerList') /\ IsInjective(timerList')
  BY <1>1, <1>2, WithoutProperties DEF TimerLists
<1>4. /\ \A t : t # u => (t \in Range(due') <=> t \in Range(due))
      /\ u \notin Range(due') /\ IsInjective(due')
      /\ due = <<>> => due' = <<>>
  BY <1>1, <1>2, WithoutProperties DEF TimerLists
<1>5. TimerLists'
  BY <1>2, <1>3, <1>4 DEF TimerLists
<1> QED
  BY <1>2, <1>3, <1>4, <1>5 DEF Timed

LEMMA StartTimerLists ==
  ASSUME IType, TimerLists, NEW u \in Task, NEW n, firing # u, StartTimer(u, n),
         tick' = tick
  PROVE  /\ TimerLists'
         /\ Timed(u)'
         /\ \A t \in Task : t # u => (Timed(t)' <=> Timed(t))
<1>1. timerList \in Seq(Task) /\ due \in Seq(Task)
  BY DEF IType, TypeOK
<1> DEFINE q == Without(timerList, u)
<1>2. /\ timerList' = InsertTimer(q, u, left')
      /\ due' = Without(due, u) /\ UNCHANGED firing
  BY DEF StartTimer
<1>3. /\ q \in Seq(Task)
      /\ \A t : t # u => (t \in Range(q) <=> t \in Range(timerList))
      /\ u \notin Range(q) /\ IsInjective(q)
  BY <1>1, WithoutProperties DEF TimerLists
<1>4. /\ \A t : t # u => (t \in Range(due') <=> t \in Range(due))
      /\ u \notin Range(due') /\ IsInjective(due')
      /\ due = <<>> => due' = <<>>
  BY <1>1, <1>2, WithoutProperties DEF TimerLists
<1> HIDE DEF q
<1>5. PICK d : d = left'
  OBVIOUS
<1>6. /\ \A t : t \in Range(timerList') <=> t \in Range(q) \/ t = u
      /\ IsInjective(timerList')
  <2>1. /\ \A t : t \in Range(InsertTimer(q, u, d)) <=> t \in Range(q) \/ t = u
        /\ IsInjective(InsertTimer(q, u, d))
    BY <1>3, InsertTimerProperties
  <2> QED
    BY <2>1, <1>2, <1>5
<1>7. TimerLists'
  BY <1>2, <1>3, <1>4, <1>6 DEF TimerLists
<1> QED
  BY <1>2, <1>3, <1>4, <1>6, <1>7 DEF Timed

LEMMA PopProperties ==
  ASSUME NEW q \in Seq(Task), q # <<>>
  PROVE  /\ Head(q) \in Task
         /\ \A u : u \in Range(q) <=> u \in Range(Tail(q)) \/ u = Head(q)
         /\ IsInjective(q) => IsInjective(Tail(q)) /\ Head(q) \notin Range(Tail(q))
<1> DEFINE r == Tail(q)
<1>1. Len(q) \in Nat /\ Len(q) # 0 /\ DOMAIN q = 1 .. Len(q) /\ 1 \in 1 .. Len(q)
  BY EmptySeq, LenProperties
<1>2. q[1] \in Task /\ Head(q) = q[1]
  BY <1>1, ElementOfSeq
<1>3. /\ DOMAIN r = 1 .. Len(q) - 1
      /\ \A i \in 1 .. Len(q) - 1 : r[i] = q[i + 1]
  <2>1. Tail(q) \in Seq(Task) /\ Len(Tail(q)) = Len(q) - 1
    BY HeadTailProperties
  <2>2. DOMAIN r = 1 .. Len(q) - 1
    BY <2>1, LenProperties
  <2>3. \A i \in 1 .. Len(q) - 1 : r[i] = q[i + 1]
    BY <1>1
  <2> QED
    BY <2>2, <2>3
<1> HIDE DEF r
<1>4. ASSUME NEW u, u \in Range(q) PROVE u \in Range(r) \/ u = q[1]
  <2>1. PICK j \in 1 .. Len(q) : q[j] = u
    BY <1>1, <1>4 DEF Range
  <2>2. CASE j # 1
    <3>1. j - 1 \in 1 .. Len(q) - 1 /\ (j - 1) + 1 = j
      BY <2>2, <1>1
    <3> QED
      BY <3>1, <2>1, <1>3 DEF Range
  <2> QED
    BY <2>1, <2>2
<1>5. ASSUME NEW u, u \in Range(r)
      PROVE  u \in Range(q) /\ (IsInjective(q) => u # q[1])
  <2>1. PICK j \in 1 .. Len(q) - 1 : r[j] = u
    BY <1>3, <1>5 DEF Range
  <2>2. j + 1 \in 1 .. Len(q) /\ j + 1 # 1
    BY <1>1
  <2> QED
    BY <2>1, <2>2, <1>1, <1>3 DEF Range, IsInjective
<1>6. q[1] \in Range(q)
  BY <1>1 DEF Range
<1>7. ASSUME IsInjective(q) PROVE IsInjective(r)
  <2>1. ASSUME NEW a \in 1 .. Len(q) - 1, NEW b \in 1 .. Len(q) - 1, r[a] = r[b]
        PROVE  a = b
    <3>1. a + 1 \in 1 .. Len(q) /\ b + 1 \in 1 .. Len(q)
      BY <1>1
    <3>2. a + 1 = b + 1
      BY <3>1, <2>1, <1>1, <1>3, <1>7 DEF IsInjective
    <3> QED
      BY <3>2, <1>1
  <2> QED
    BY ONLY <2>1, <1>3 DEF IsInjective
<1> QED
  BY <1>2, <1>4, <1>5, <1>6, <1>7 DEF r
-----------------------------------------------------------------------------
(* A step that leaves the timers alone and blocks nobody.                  *)
LEMMA TimerFrame ==
  ASSUME TimerInv, UNCHANGED <<timerList, due, firing>>,
         tick' # "timeout" => tick # "timeout",
         tick' \notin FireStage => tick \notin FireStage \/ due = <<>>,
         \A t \in Task : status[t] = "BLOCKED" => status'[t] = "BLOCKED",
         \A t \in Task : status'[t] = "BLOCKED"
                           => status[t] = "BLOCKED" /\ msg'[t] = msg[t]
  PROVE  TimerInv'
<1>1. TimerLists'
  BY DEF TimerInv, TimerLists
<1>2. \A t \in Task : Timed(t)' <=> Timed(t)
  BY DEF Timed
<1> QED
  BY <1>1, <1>2 DEF TimerInv

(* The timer of u leaves its list, and u is no longer BLOCKED.             *)
LEMMA TimerStopped ==
  ASSUME IType, TimerInv, NEW u \in Task, tick = "off", tick' = tick, StopTimer(u),
         NEW s, s # "BLOCKED", status' = [status EXCEPT ![u] = s],
         \A t \in Task : t # u => msg'[t] = msg[t]
  PROVE  TimerInv'
<1>1. /\ status \in [Task -> Status] /\ u # NoTask /\ firing # u
  BY ConstantFacts DEF IType, TypeOK, TimerInv, TimerLists
<1>2. /\ TimerLists' /\ ~Timed(u)'
      /\ \A t \in Task : t # u => (Timed(t)' <=> Timed(t))
  BY <1>1, StopTimerLists DEF TimerInv
<1>3. \A t \in Task : status'[t] = IF t = u THEN s ELSE status[t]
  BY <1>1
<1> QED
  BY <1>2, <1>3 DEF TimerInv

LEMMA TimerInvInit == Init => TimerInv
<1> SUFFICES ASSUME Init PROVE TimerInv
  OBVIOUS
<1>1. timerList = <<>> /\ due = <<>> /\ firing = NoTask /\ NoTask \notin Task
  BY ConstantFacts DEF Init
<1>2. Range(<<>>) = {} /\ IsInjective(<<>>)
  BY DEF Range, IsInjective
<1>3. \A t \in Task : ~Timed(t) /\ status[t] # "BLOCKED"
  BY <1>1, <1>2 DEF Timed, Init
<1> QED
  BY <1>1, <1>2, <1>3 DEF TimerInv, TimerLists

(* The handler moves the expired timers to its own list, ...               *)
LEMMA CheckKeepsTimers ==
  ASSUME IType, TimerInv, TickCheck
  PROVE  TimerInv'
<1>1. /\ timerList \in Seq(Task) /\ due = <<>> /\ firing = NoTask
      /\ tick' = "fire" /\ UNCHANGED <<firing, status, msg>>
  BY DEF IType, TypeOK, TickCheck, taskVars, TimerInv, TimerLists, FireStage
<1>2. PICK n \in 0 .. Len(timerList) :
        /\ due' = SubSeq(timerList, 1, n)
        /\ timerList' = SubSeq(timerList, n + 1, Len(timerList))
  BY <1>1, ExpiredRange DEF TickCheck
<1>3. PICK p, r : p = due' /\ r = timerList'
  OBVIOUS
<1>4. /\ \A u : u \in Range(timerList) <=> u \in Range(p) \/ u \in Range(r)
      /\ IsInjective(timerList)
           => /\ IsInjective(p) /\ IsInjective(r)
              /\ \A u : ~ (u \in Range(p) /\ u \in Range(r))
  <2>1. Cut(timerList, n, p, r)
    BY <1>2, <1>3 DEF Cut
  <2>2. timerList \in Seq(Task)
    BY <1>1
  <2> QED
    BY ONLY <2>1, <2>2, n \in 0 .. Len(timerList), CutProperties
<1>5. \A u : u \notin Range(due)
  BY <1>1 DEF Range
<1>6. TimerLists'
  BY <1>1, <1>3, <1>4 DEF TimerInv, TimerLists, FireStage
<1>7. \A t \in Task : Timed(t)' <=> Timed(t)
  BY <1>1, <1>3, <1>4, <1>5 DEF Timed
<1> QED
  BY <1>1, <1>6, <1>7 DEF TimerInv

(* ... takes them out one by one, ...                                      *)
LEMMA PopKeepsTimers ==
  ASSUME IType, TimerInv, TickPop
  PROVE  TimerInv'
<1>1. /\ due \in Seq(Task) /\ due # <<>> /\ firing = NoTask /\ NoTask \notin Task
      /\ firing' = Head(due) /\ due' = Tail(due)
      /\ tick' = "timeout" /\ UNCHANGED <<timerList, status, msg>>
  BY ConstantFacts DEF IType, TypeOK, TickPop, taskVars, TimerInv, TimerLists
<1>2. PICK p, r : p = firing' /\ r = due'
  OBVIOUS
<1>3. /\ p \in Task
      /\ \A u : u \in Range(due) <=> u \in Range(r) \/ u = p
      /\ IsInjective(due) => IsInjective(r) /\ p \notin Range(r)
  BY <1>1, <1>2, PopProperties
<1>4. TimerLists'
  BY <1>1, <1>2, <1>3 DEF TimerInv, TimerLists, FireStage
<1>5. \A t \in Task : Timed(t)' <=> Timed(t)
  BY <1>1, <1>2, <1>3 DEF Timed
<1> QED
  BY <1>1, <1>4, <1>5 DEF TimerInv

(* ... and readies their tasks, each of which is BLOCKED.                  *)
LEMMA TimeoutKeepsTimers ==
  ASSUME IType, TimerInv, TickTimeout
  PROVE  TimerInv'
<1>1. /\ firing \in Task /\ NoTask \notin Task
      /\ status \in [Task -> Status] /\ msg \in [Task -> MsgType]
      /\ firing' = NoTask /\ tick' \in {"fire", "fireSwitch"}
      /\ UNCHANGED <<timerList, due>> /\ tick = "timeout"
  BY ConstantFacts DEF IType, TypeOK, TickTimeout
<1>2. status[firing] = "BLOCKED"
  BY <1>1 DEF TimerInv, Timed
<1>3. /\ status' = [status EXCEPT ![firing] = "READY"]
      /\ msg' = [msg EXCEPT ![firing] = [NoMsg EXCEPT !.notify = "TIMEOUT"]]
  BY <1>2 DEF TickTimeout
<1>4. TimerLists'
  <2>1. timerList \in Seq(Task) /\ due \in Seq(Task)
    BY DEF IType, TypeOK
  <2>2. NoTask \notin Range(timerList) /\ NoTask \notin Range(due)
    BY <1>1, <2>1, LenProperties, ElementOfSeq DEF Range
  <2> QED
    BY <1>1, <2>2 DEF TimerInv, TimerLists, FireStage
<1>5. PICK f \in Task : f = firing
  BY <1>1
<1>6. \A t \in Task : t # f => (Timed(t)' <=> Timed(t))
  BY <1>1, <1>5 DEF Timed
<1>7. ~Timed(f)'
  BY <1>1, <1>5 DEF Timed, TimerInv, TimerLists
<1>8. \A t \in Task : IF t = f THEN status'[t] = "READY"
                      ELSE status'[t] = status[t] /\ msg'[t] = msg[t]
  BY <1>1, <1>3, <1>5
<1> QED
  BY <1>4, <1>6, <1>7, <1>8 DEF TimerInv

LEMMA TimerStep ==
  ASSUME Inv, StartInv, TimerInv, [Next]_vars
  PROVE  TimerInv'
<1>a. /\ IType /\ status \in [Task -> Status] /\ msg \in [Task -> MsgType]
      /\ User \subseteq Task /\ NoTask \notin Task /\ Idle \in Task
  BY ConstantFacts DEF Inv, IType, TypeOK
<1>b. ASSUME NEW t \in User, Executes(t), pc[t] # "switch" PROVE Ready(t)
  BY <1>a, <1>b DEF Executes, Inv, RunInv
<1>c. ASSUME UNCHANGED <<status, msg>>, UNCHANGED <<timerList, due, firing>>,
             tick' = tick
      PROVE  TimerInv'
  BY <1>c, TimerFrame
<1>d. ASSUME NEW u \in Task, NEW s \in Status, s # "BLOCKED", status[u] # "BLOCKED",
             status' = [status EXCEPT ![u] = s],
             \A t \in Task : t # u => msg'[t] = msg[t],
             UNCHANGED <<timerList, due, firing>>, tick' = tick
      PROVE  TimerInv'
  <2>1. \A t \in Task : status'[t] = IF t = u THEN s ELSE status[t]
    BY <1>d, <1>a
  <2> QED
    BY <2>1, <1>d, TimerFrame
<1>e. ASSUME Dispatch, current \in Task, UNCHANGED <<msg, timerList, due, firing>>,
             tick # "timeout",
             tick' \notin FireStage => tick \notin FireStage \/ due = <<>>
      PROVE  TimerInv'
  <2>1. \A u \in Task : status'[u] = "BLOCKED" <=> status[u] = "BLOCKED"
    BY <1>e, DispatchTransition
  <2> QED
    BY <2>1, <1>e, TimerFrame
<1>1. ASSUME NEW u \in User, MainStart(u) PROVE TimerInv'
  <2>1. /\ status[u] = "INIT" /\ UNCHANGED <<timerList, due, firing>> /\ tick' = tick
        /\ status' = [status EXCEPT ![u] = "READY"] /\ UNCHANGED msg
    BY <1>1 DEF MainStart, StartEffect, timerVars
  <2> QED
    BY <2>1, <1>a, <1>d DEF Status
<1>2. ASSUME KernelStart PROVE TimerInv'
  <2>1. /\ UNCHANGED <<timerList, due, firing>> /\ UNCHANGED msg /\ tick' = tick
        /\ status' = [status EXCEPT ![current'] = "RUNNING"]
        /\ CanDispatch(sched) /\ current' = Chosen(sched)
    BY <1>2 DEF KernelStart, timerVars
  <2>2. Ready(current') /\ current' \in Task
    BY <2>1, ChosenIsReady
  <2> QED
    BY <2>1, <2>2, <1>d DEF Ready, Status
<1>3. ASSUME NEW t \in User, StartCommit(t) PROVE TimerInv'
  <2>1. /\ pc[t] = "start" /\ arg[t] \in Task
        /\ status' = [status EXCEPT ![arg[t]] = "READY"] /\ UNCHANGED msg
        /\ UNCHANGED <<timerList, due, firing>> /\ tick' = tick
    BY <1>3, <1>a DEF StartCommit, StartEffect, IType, timerVars
  <2>2. status[arg[t]] \in {"INIT", "SUSPENDED"}
    BY <2>1 DEF StartInv, Startable
  <2> QED
    BY <2>1, <2>2, <1>d DEF Status
<1>4. ASSUME NEW t \in User, StartRelinks(t) PROVE TimerInv'
  BY <1>4, <1>c DEF StartRelinks, Crash, taskVars, timerVars
<1>5. ASSUME NEW t \in User, TaskSwitch(t) PROVE TimerInv'
  <2>1. /\ Dispatch /\ current \in Task /\ tick = "off" /\ tick' = tick
        /\ UNCHANGED <<msg, timerList, due, firing>>
    BY <1>5, <1>a DEF TaskSwitch, Executes, timerVars
  <2> QED
    BY <2>1, <1>e DEF FireStage
<1>6. ASSUME NEW t \in User, TaskMisdispatch(t) PROVE TimerInv'
  BY <1>6, <1>c DEF TaskMisdispatch, Misdispatch, Crash, taskVars, timerVars
<1>7. ASSUME NEW t \in User, NEW n \in 1 .. MaxSleep, Sleep(t, n) PROVE TimerInv'
  <2>1. /\ Executes(t) /\ StartTimer(t, n) /\ tick' = tick /\ tick = "off"
        /\ status' = [status EXCEPT ![t] = "BLOCKED"]
        /\ msg' = [msg EXCEPT ![t] = [NoMsg EXCEPT !.reason = "SLEEP"]]
    BY <1>7 DEF Sleep, MayCall, Executes
  <2>2. firing # t
    BY <2>1, <1>a DEF TimerInv, TimerLists
  <2>3. /\ TimerLists' /\ Timed(t)'
        /\ \A u \in Task : u # t => (Timed(u)' <=> Timed(u))
    BY <2>1, <2>2, <1>a, StartTimerLists DEF TimerInv
  <2>4. \A u \in Task : IF u = t THEN status'[u] = "BLOCKED"
                        ELSE status'[u] = status[u] /\ msg'[u] = msg[u]
    BY <2>1, <1>a
  <2> QED
    BY <2>3, <2>4 DEF TimerInv
<1>8. ASSUME NEW t \in User, SleepZero(t) \/ Yield(t) PROVE TimerInv'
  BY <1>8, <1>c DEF SleepZero, Yield, taskVars, timerVars
<1>9. ASSUME NEW t \in User, NEW u \in User, StartCheck(t, u) PROVE TimerInv'
  BY <1>9, <1>c DEF StartCheck, taskVars, timerVars
<1>10. ASSUME NEW t \in User, NEW u \in User, Suspend(t, u) PROVE TimerInv'
  <2>1. /\ tick = "off" /\ tick' = tick /\ UNCHANGED msg /\ u \in Task
        /\ status' = [status EXCEPT ![u] = "SUSPENDED"]
    BY <1>10, <1>a DEF Suspend, MayCall, Executes
  <2>2. CASE status[u] \in {"READY", "RUNNING"} /\ UNCHANGED timerVars
    BY <2>1, <2>2, <1>d DEF timerVars, Status
  <2>3. CASE StopTimer(u)
    BY <2>1, <2>3, <1>a, TimerStopped
  <2> QED
    BY <1>10, <2>2, <2>3 DEF Suspend
<1>11. ASSUME NEW t \in User, Exit(t) PROVE TimerInv'
  <2>1. /\ tick = "off" /\ tick' = tick /\ UNCHANGED msg /\ t \in Task
        /\ status' = [status EXCEPT ![t] = "TERMINATED"] /\ StopTimer(t)
    BY <1>11, <1>a DEF Exit, MayCall, Executes, DeleteEffect
  <2> QED
    BY <2>1, <1>a, TimerStopped
<1>12. ASSUME NEW t \in User, NEW u \in User, Delete(t, u) PROVE TimerInv'
  <2>1. /\ tick = "off" /\ tick' = tick /\ UNCHANGED msg /\ u \in Task
        /\ status' = [status EXCEPT ![u] = "TERMINATED"] /\ StopTimer(u)
    BY <1>12, <1>a DEF Delete, MayCall, Executes, DeleteEffect
  <2> QED
    BY <2>1, <1>a, TimerStopped
<1>13. ASSUME NEW t \in User, NEW u \in User, Create(t, u) PROVE TimerInv'
  <2>1. /\ status[u] = "DELETED" /\ UNCHANGED <<timerList, due, firing>> /\ tick' = tick
        /\ status' = [status EXCEPT ![u] = "INIT"]
        /\ msg' = [msg EXCEPT ![u] = NoMsg]
    BY <1>13 DEF Create, timerVars
  <2> QED
    BY <2>1, <1>a, <1>d DEF Status
<1>14. ASSUME NEW t \in User, NEW u \in User, NEW p \in Prio, SetPriority(t, u, p)
       PROVE  TimerInv'
  BY <1>14, <1>c DEF SetPriority, timerVars
<1>15. ASSUME CleanupDefunct PROVE TimerInv'
  <2>1. /\ UNCHANGED <<timerList, due, firing>> /\ UNCHANGED msg /\ tick' = tick
        /\ \A t \in Task : status'[t] = IF InList(sched, t, Defunct)
                                       THEN "DELETED" ELSE status[t]
    BY <1>15 DEF CleanupDefunct, InList, timerVars
  <2>2. \A t \in Task : InList(sched, t, Defunct) <=> status[t] = "TERMINATED"
    BY <1>a, InDefunctList DEF Inv, SchedInv
  <2> QED
    BY <2>1, <2>2, TimerFrame
<1>16. ASSUME TickBegin \/ TickYield \/ TickMisdispatch PROVE TimerInv'
  <2>1. /\ UNCHANGED <<status, msg>> /\ UNCHANGED <<timerList, due, firing>>
        /\ tick \notin FireStage \/ tick' = tick
        /\ tick' # "timeout" \/ tick' = tick
    BY <1>16 DEF TickBegin, ChargeSlice, TickYield, TickMisdispatch, Misdispatch, Crash,
                 taskVars, timerVars, FireStage
  <2>2. tick' # "timeout" => tick # "timeout"
    BY <2>1 DEF FireStage
  <2> QED
    BY <2>1, <2>2, TimerFrame
<1>17. ASSUME TickSwitch PROVE TimerInv'
  <2>1. /\ Dispatch /\ current \in Task /\ UNCHANGED <<msg, timerList, due, firing>>
        /\ tick \in {"switch", "fireSwitch"}
        /\ tick' = IF tick = "switch" THEN "check" ELSE "fire"
    BY <1>17, <1>a DEF TickSwitch, IType, timerVars
  <2> QED
    BY <2>1, <1>e DEF FireStage
<1>18. ASSUME TickEnd PROVE TimerInv'
  <2>1. /\ UNCHANGED <<status, msg>> /\ UNCHANGED <<timerList, due, firing>>
        /\ due = <<>> /\ tick = "fire" /\ tick' = "off"
    BY <1>18 DEF TickEnd, taskVars, timerVars
  <2> QED
    BY <2>1, TimerFrame
<1>19. ASSUME UNCHANGED vars PROVE TimerInv'
  BY <1>19, <1>c DEF vars, taskVars, timerVars
<1> QED
  BY <1>1, <1>2, <1>3, <1>4, <1>5, <1>6, <1>7, <1>8, <1>9, <1>10, <1>11, <1>12, <1>13,
     <1>14, <1>15, <1>16, <1>17, <1>18, <1>19, <1>a,
     CheckKeepsTimers, PopKeepsTimers, TimeoutKeepsTimers
  DEF Next, TaskStep, TickStep, Halted

(* In the kernel alone a task is blocked by a sleep only.                  *)
SleepOnly == \A t \in Task : status[t] = "BLOCKED" => msg[t].reason = "SLEEP"

(* Armed, expired and firing timers belong to sleeping tasks, and every    *)
(* sleeping task has one: no suspension, deletion or timeout leaves a      *)
(* timer behind, whatever list the handler has moved it to.                *)
THEOREM TimersMatchIfManaged == OneStarter /\ Spec => []TimersMatchSleepers
<1>1. Init => TimerInv /\ SleepOnly
  <2> SUFFICES ASSUME Init PROVE SleepOnly
    BY TimerInvInit
  <2> QED
    BY DEF Init, SleepOnly
<1>2. Inv /\ StartInv /\ TimerInv /\ [Next]_vars => TimerInv'
  BY TimerStep
<1>3. Inv /\ SleepOnly /\ [Next]_vars => SleepOnly'
  <2> SUFFICES ASSUME Inv, SleepOnly, [Next]_vars, NEW t \in Task,
                      status'[t] = "BLOCKED"
               PROVE  msg'[t].reason = "SLEEP"
    BY DEF SleepOnly
  <2>1. \/ status[t] = "BLOCKED" /\ msg'[t] = msg[t]
        \/ Ready(t) /\ msg'[t] = [NoMsg EXCEPT !.reason = "SLEEP"]
    BY BlockedBySleep
  <2> QED
    BY <2>1 DEF SleepOnly, NoMsg
<1>4. TimerInv /\ SleepOnly => TimersMatchSleepers
  <2> SUFFICES ASSUME TimerInv, SleepOnly, NEW t \in Task
               PROVE  t \in Range(timerList) \cup Range(due) \cup {firing}
                        <=> status[t] = "BLOCKED" /\ msg[t].reason = "SLEEP"
    BY DEF TimersMatchSleepers
  <2>1. Timed(t) <=> status[t] = "BLOCKED" /\ msg[t].reason = "SLEEP"
    BY DEF TimerInv, SleepOnly
  <2> QED
    BY <2>1 DEF Timed
<1> QED
  BY <1>1, <1>2, <1>3, <1>4, ManagedHolds, PTL DEF Spec

-----------------------------------------------------------------------------
(* The bitmap and the current task of an application that does not change  *)
(* priorities.  (A change of priority may leave a bit behind for the queue *)
(* the task has left, and the properties below fail.)                      *)
FixedPriorities == \A t \in User : "prio" \notin Calls[t]

(* No bit is set for an empty queue.                                       *)
Tight(s) == \A p \in Prio : p \in s.group => s.lists[p] # <<>>

SameQueues(r, s) == \A p \in Prio : r.lists[p] = s.lists[p]

LEMMA SameTight ==
  ASSUME NEW s, NEW r, SameQueues(r, s), Tight(s), r.group \subseteq s.group
  PROVE  Tight(r)
BY DEF Tight, SameQueues

LEMMA InsertTight ==
  ASSUME NEW s \in SchedType, NEW u \in Task, NEW p \in Prio, Tight(s)
  PROVE  Tight(SchedInsert(s, u, p, p))
<1> DEFINE r == SchedInsert(s, u, p, p)
<1>1. s.lists \in [ListId -> Seq(Task)] /\ p \in ListId /\ Prio \subseteq ListId
  BY ConstantFacts DEF SchedType
<1>2. r.lists = [s.lists EXCEPT ![p] = Append(@, u)] /\ r.group = s.group \cup {p}
  BY DEF SchedInsert, LinkLast
<1>3. r.lists[p] # <<>>
  <2>1. PICK q \in Seq(Task) : q = s.lists[p]
    BY <1>1
  <2>2. Append(q, u) # <<>>
    BY AppendProperties
  <2> QED
    BY <1>1, <1>2, <2>1, <2>2
<1> HIDE DEF r
<1>4. \A x \in Prio : x # p => r.lists[x] = s.lists[x]
  BY <1>1, <1>2
<1>5. Tight(r)
  BY <1>2, <1>3, <1>4 DEF Tight
<1> QED
  BY <1>5 DEF r

(* The node of t is in no ready queue but possibly that of priority p.     *)
LEMMA UnlinkTight ==
  ASSUME NEW s \in SchedType, NEW r, NEW t, NEW p, Tight(s),
         \A x \in Prio : x # p => t \notin Range(s.lists[x]),
         r.lists = Unlink(s.lists, t), r.group \subseteq s.group,
         p \in Prio => (p \in r.group => r.lists[p] # <<>>)
  PROVE  Tight(r)
<1>1. \A l \in ListId : s.lists[l] \in Seq(Task) /\ r.lists[l] = Without(s.lists[l], t)
  BY DEF SchedType, Unlink
<1>2. ASSUME NEW x \in Prio, x # p PROVE r.lists[x] = s.lists[x]
  <2>1. PICK q \in Seq(Task) : q = s.lists[x]
    BY <1>1, ConstantFacts
  <2>2. Without(q, t) = q
    BY <1>2, <2>1, WithoutProperties
  <2> QED
    BY <1>1, <2>1, <2>2, ConstantFacts
<1> QED
  BY <1>2 DEF Tight

(* A task that is not ready is in no ready queue, a ready one in its own.  *)
LEMMA ReadyNodes ==
  ASSUME Inv, NEW u \in Task
  PROVE  /\ sched \in SchedType /\ curPrio[u] \in Prio
         /\ \A x \in Prio : x # curPrio[u] => u \notin Range(sched.lists[x])
         /\ ~Ready(u) => \A x \in Prio : u \notin Range(sched.lists[x])
         /\ Ready(u) => u \in Range(sched.lists[curPrio[u]])
<1>1. sched \in SchedType /\ curPrio[u] \in Prio
  BY DEF Inv, IType, TypeOK
<1>2. \A x \in Prio : InList(sched, u, x) <=> Ready(u) /\ x = curPrio[u]
  BY InReadyQueue DEF Inv, SchedInv
<1> QED
  BY <1>1, <1>2 DEF InList

LEMMA RemoveTight ==
  ASSUME Inv, Tight(sched), NEW u \in Task
  PROVE  /\ Tight(SchedRemove(sched, u, curPrio[u], curPrio[u]))
         /\ SchedRemove(sched, u, curPrio[u], curPrio[u]) \in SchedType
<1>1. /\ sched \in SchedType /\ curPrio[u] \in Prio
      /\ \A x \in Prio : x # curPrio[u] => u \notin Range(sched.lists[x])
  BY ReadyNodes
<1>2. PICK p \in Prio : p = curPrio[u]
  BY <1>1
<1>3. PICK r : r = SchedRemove(sched, u, p, p)
  OBVIOUS
<1>4. /\ r.lists = Unlink(sched.lists, u)
      /\ r.group = IF r.lists[p] = <<>> THEN sched.group \ {p} ELSE sched.group
  BY <1>3 DEF SchedRemove
<1>5. Tight(r)
  BY <1>1, <1>2, <1>4, UnlinkTight
<1>6. r \in SchedType
  BY <1>1, <1>3, RemoveSched
<1> QED
  BY <1>2, <1>3, <1>5, <1>6

LEMMA UnlinkWaiterTight ==
  ASSUME Inv, Tight(sched), NEW u \in Task, ~Ready(u)
  PROVE  /\ Tight([sched EXCEPT !.lists = Unlink(@, u)])
         /\ [sched EXCEPT !.lists = Unlink(@, u)] \in SchedType
<1>1. /\ sched \in SchedType
      /\ \A x \in Prio : u \notin Range(sched.lists[x])
  BY ReadyNodes
<1>2. PICK r : r = [sched EXCEPT !.lists = Unlink(@, u)]
  OBVIOUS
<1>3. r.lists = Unlink(sched.lists, u) /\ r.group = sched.group
  BY <1>1, <1>2 DEF SchedType
<1>4. PICK p : p \notin Prio
  <2>1. Defunct \notin Prio
    BY ListAssumption
  <2> QED
    BY <2>1
<1>6. Tight(r)
  BY <1>1, <1>3, <1>4, UnlinkTight
<1>7. r \in SchedType
  BY <1>1, <1>2, UnlinkSched
<1> QED
  BY <1>2, <1>6, <1>7

LEMMA RotateTight ==
  ASSUME Inv, Tight(sched), NEW t \in Task
  PROVE  Tight(Rotate(sched, t, curPrio[t]))
<1>1. /\ sched \in SchedType /\ curPrio[t] \in Prio /\ curPrio[t] \in ListId
      /\ \A x \in Prio : x # curPrio[t] => t \notin Range(sched.lists[x])
  BY ReadyNodes, ConstantFacts
<1>2. PICK p \in Prio : p = curPrio[t] /\ p \in ListId
  BY <1>1
<1>3. PICK r : r = Rotate(sched, t, p)
  OBVIOUS
<1>4. PICK f \in [ListId -> Seq(Task)] : f = Unlink(sched.lists, t)
  BY <1>1, UnlinkProperties DEF SchedType
<1>5. r.lists = [f EXCEPT ![p] = Append(@, t)] /\ r.group = sched.group
  BY <1>1, <1>3, <1>4 DEF Rotate, LinkLast, SchedType
<1>6. r.lists[p] # <<>>
  <2>1. PICK q \in Seq(Task) : q = f[p]
    BY <1>2, <1>4
  <2>2. Append(q, t) # <<>>
    BY AppendProperties
  <2> QED
    BY <1>2, <1>4, <1>5, <2>1, <2>2
<1>7. ASSUME NEW x \in Prio, x # p PROVE r.lists[x] = sched.lists[x]
  <2>1. PICK q \in Seq(Task) : q = sched.lists[x]
    BY <1>1, ConstantFacts DEF SchedType
  <2>2. Without(q, t) = q
    BY <1>1, <1>2, <1>7, <2>1, WithoutProperties
  <2>3. f[x] = q
    BY <1>1, <1>4, <2>1, <2>2, ConstantFacts DEF Unlink, SchedType
  <2> QED
    BY <1>4, <1>5, <1>7, <2>1, <2>3, ConstantFacts
<1>8. Tight(r)
  BY <1>5, <1>6, <1>7 DEF Tight
<1> QED
  BY <1>2, <1>3, <1>8

LEMMA DefunctTight ==
  ASSUME NEW s \in SchedType, NEW u, Tight(s)
  PROVE  Tight([s EXCEPT !.lists = LinkLast(@, Defunct, u)])
<1>1. PICK r : r = [s EXCEPT !.lists = LinkLast(@, Defunct, u)]
  OBVIOUS
<1>2. SameQueues(r, s) /\ r.group = s.group
  BY <1>1, ConstantFacts, ListAssumption DEF SameQueues, LinkLast, SchedType
<1> QED
  BY <1>1, <1>2, SameTight

LEMMA DeleteTight ==
  ASSUME Inv, Tight(sched), NEW u \in Task, mask[u] = curPrio[u], DeleteEffect(u)
  PROVE  Tight(sched')
<1> DEFINE removed == IF status[u] \in {"READY", "RUNNING"}
                      THEN SchedRemove(sched, u, curPrio[u], mask[u])
                      ELSE [sched EXCEPT !.lists = Unlink(@, u)]
<1>1. sched' = [removed EXCEPT !.lists = LinkLast(@, Defunct, u)]
  BY DEF DeleteEffect
<1>2. Tight(removed) /\ removed \in SchedType
  <2>1. CASE Ready(u)
    BY <2>1, RemoveTight DEF Ready
  <2>2. CASE ~Ready(u)
    BY <2>2, UnlinkWaiterTight DEF Ready
  <2> QED
    BY <2>1, <2>2
<1> HIDE DEF removed
<1> QED
  BY <1>1, <1>2, DefunctTight

LEMMA CleanupQueues == ASSUME IType, CleanupDefunct
                       PROVE  SameQueues(sched', sched) /\ sched'.group = sched.group
<1>1. sched \in SchedType /\ sched' = [sched EXCEPT !.lists[Defunct] = <<>>]
  BY DEF IType, TypeOK, CleanupDefunct
<1> QED
  BY <1>1, ConstantFacts, ListAssumption DEF SameQueues, SchedType

LEMMA TightInit == Init => Tight(sched)
<1> SUFFICES ASSUME Init PROVE Tight(sched)
  OBVIOUS
<1> DEFINE empty == [lists |-> [l \in ListId |-> <<>>], group |-> {}]
<1>1. empty \in SchedType /\ Tight(empty)
  BY DEF SchedType, Tight
<1>2. sched = SchedInsert(empty, Idle, MaxPriority - 1, MaxPriority - 1)
  BY DEF Init
<1> HIDE DEF empty
<1> QED
  BY <1>1, <1>2, InsertTight, ConstantFacts

LEMMA TightStep ==
  ASSUME Inv, CoverInv, FixedPriorities, Tight(sched), [Next]_vars
  PROVE  Tight(sched')
<1>a. /\ IType /\ sched \in SchedType /\ curPrio \in [Task -> Prio]
      /\ User \subseteq Task /\ NoTask \notin Task /\ Idle \in Task
      /\ \A u \in Task : mask[u] = curPrio[u]
  BY ConstantFacts DEF Inv, IType, TypeOK, CoverInv, Masked
<1>1. ASSUME NEW u \in Task, StartEffect(u) PROVE Tight(sched')
  <2>0. curPrio'[u] = mask[u]
    BY <1>1, <1>a DEF StartEffect, CoverInv, Masked
  <2>1. PICK p \in Prio : sched' = SchedInsert(sched, u, p, p)
    BY <1>1, <1>a, <2>0, StartEffectType
  <2> QED
    BY <2>1, <1>a, InsertTight
<1>2. ASSUME NEW t \in User, NEW n \in 1 .. MaxSleep, Sleep(t, n) PROVE Tight(sched')
  BY <1>2, <1>a, RemoveTight DEF Sleep
<1>3. ASSUME NEW t \in Task, sched' = Rotate(sched, t, curPrio[t]) PROVE Tight(sched')
  BY <1>3, RotateTight
<1>4. ASSUME NEW t \in User, NEW u \in User, Suspend(t, u) PROVE Tight(sched')
  <2>1. CASE status[u] \in {"READY", "RUNNING"}
    <3>1. sched' = SchedRemove(sched, u, curPrio[u], curPrio[u])
      BY <1>4, <1>a, <2>1 DEF Suspend
    <3> QED
      BY <3>1, <1>a, RemoveTight
  <2>2. CASE status[u] = "BLOCKED"
    <3>1. sched' = [sched EXCEPT !.lists = Unlink(@, u)] /\ ~Ready(u) /\ u \in Task
      BY <1>4, <1>a, <2>2 DEF Suspend, Ready
    <3> QED
      BY <3>1, UnlinkWaiterTight
  <2> QED
    BY <1>4, <2>1, <2>2 DEF Suspend
<1>5. ASSUME CleanupDefunct PROVE Tight(sched')
  BY <1>5, <1>a, CleanupQueues, SameTight
<1>6. ASSUME TickTimeout PROVE Tight(sched')
  <2>1. CASE status[firing] = "BLOCKED"
    <3>1. PICK t \in Task : t = firing
      BY <1>6, <1>a DEF TickTimeout, IType
    <3>2. PICK x : x = [sched EXCEPT !.lists = Unlink(@, t)]
      OBVIOUS
    <3>3. Tight(x) /\ x \in SchedType
      BY <2>1, <3>1, <3>2, UnlinkWaiterTight DEF Ready
    <3>4. sched' = SchedInsert(x, t, curPrio[t], curPrio[t]) /\ curPrio[t] \in Prio
      BY <1>6, <1>a, <2>1, <3>1, <3>2 DEF TickTimeout
    <3> QED
      BY <3>3, <3>4, InsertTight
  <2>2. CASE status[firing] # "BLOCKED"
    BY <1>6, <2>2 DEF TickTimeout
  <2> QED
    BY <2>1, <2>2
<1>7. ASSUME NEW t \in User, TaskStep(t) PROVE Tight(sched')
  <2>1. CASE StartCommit(t)
    BY <1>1, <1>a, <2>1 DEF StartCommit, IType
  <2>2. CASE Yield(t)
    BY <1>3, <1>a, <2>2 DEF Yield
  <2>3. CASE Exit(t)
    BY <1>a, <2>3, DeleteTight DEF Exit
  <2>4. ASSUME NEW u \in User, Delete(t, u) PROVE Tight(sched')
    BY <1>a, <2>4, DeleteTight DEF Delete
  <2>5. CASE StartRelinks(t) \/ TaskSwitch(t) \/ TaskMisdispatch(t) \/ SleepZero(t)
    BY <2>5 DEF StartRelinks, TaskSwitch, TaskMisdispatch, Misdispatch, Crash, SleepZero
  <2>6. ASSUME NEW u \in User, StartCheck(t, u) \/ Create(t, u) PROVE Tight(sched')
    BY <2>6 DEF StartCheck, Create
  <2>7. ASSUME NEW u \in User, NEW p \in Prio, SetPriority(t, u, p) PROVE Tight(sched')
    BY <2>7 DEF SetPriority, MayCall, FixedPriorities
  <2> QED
    BY <1>2, <1>4, <1>7, <2>1, <2>2, <2>3, <2>4, <2>5, <2>6, <2>7 DEF TaskStep
<1>8. ASSUME TickStep PROVE Tight(sched')
  <2>1. CASE TickYield
    BY <1>3, <1>a, <2>1 DEF TickYield, IType
  <2>2. CASE TickBegin \/ TickSwitch \/ TickMisdispatch \/ TickCheck \/ TickPop \/ TickEnd
    BY <2>2 DEF TickBegin, TickSwitch, TickMisdispatch, Misdispatch, Crash, TickCheck,
       TickPop, TickEnd
  <2> QED
    BY <1>6, <1>8, <2>1, <2>2 DEF TickStep
<1>9. ASSUME NEW u \in User, MainStart(u) PROVE Tight(sched')
  BY <1>1, <1>9, <1>a DEF MainStart
<1>10. ASSUME KernelStart \/ UNCHANGED vars PROVE Tight(sched')
  BY <1>10 DEF KernelStart, vars
<1> QED
  BY <1>5, <1>7, <1>8, <1>9, <1>10 DEF Next, Halted

TightInv == FixedPriorities /\ Tight(sched)

(* The bitmap is exact as long as no priority changes: no operation that   *)
(* empties a queue forgets its bit, and none clears the bit of another.    *)
THEOREM BitmapExactIfFixed == FixedPriorities /\ Spec => []BitmapExact
<1>1. CoverInv /\ TightInv => BitmapExact
  BY DEF CoverInv, Covers, Tight, TightInv, BitmapExact
<1>2. FixedPriorities /\ Init => TightInv
  BY TightInit DEF TightInv
<1>3. Inv /\ CoverInv /\ TightInv /\ [Next]_vars => TightInv'
  BY TightStep DEF TightInv
<1> QED
  BY <1>1, <1>2, <1>3, InvHolds, CoverHolds, PTL DEF Spec

-----------------------------------------------------------------------------
(* The idle task is always ready, so that there is a task to dispatch.     *)

IdleReady == Ready(Idle)

LEMMA ReadyIdleStep ==
  ASSUME Inv, IdleReady, [Next]_vars
  PROVE  IdleReady'
<1>a. /\ IType /\ status \in [Task -> Status]
      /\ User \subseteq Task /\ NoTask \notin Task /\ Idle \in Task /\ Idle \notin User
  BY ConstantFacts, TaskAssumption DEF Inv, IType, TypeOK
<1>1. ASSUME status'[Idle] = status[Idle] PROVE IdleReady'
  BY <1>1 DEF IdleReady, Ready
<1>2. ASSUME NEW u \in User, NEW x, status' = [status EXCEPT ![u] = x] PROVE IdleReady'
  BY <1>1, <1>2, <1>a
<1>3. ASSUME Dispatch, current \in Task PROVE IdleReady'
  BY <1>3, <1>a, DispatchTransition DEF IdleReady, Ready
<1>4. ASSUME NEW t \in User, TaskStep(t) PROVE IdleReady'
  <2>1. CASE StartCommit(t)
    <3>1. arg[t] \in User /\ status' = [status EXCEPT ![arg[t]] = "READY"]
      BY <1>a, <2>1 DEF StartCommit, StartEffect, IType
    <3> QED
      BY <1>2, <3>1
  <2>2. CASE TaskSwitch(t)
    BY <1>3, <1>a, <2>2 DEF TaskSwitch, Executes
  <2>3. ASSUME NEW n \in 1 .. MaxSleep, Sleep(t, n) PROVE IdleReady'
    BY <1>2, <2>3 DEF Sleep
  <2>4. CASE Exit(t)
    BY <1>2, <2>4 DEF Exit, DeleteEffect
  <2>5. ASSUME NEW u \in User, Suspend(t, u) \/ Delete(t, u) \/ Create(t, u)
        PROVE  IdleReady'
    BY <1>2, <2>5 DEF Suspend, Delete, DeleteEffect, Create
  <2>6. CASE \/ StartRelinks(t) \/ TaskMisdispatch(t) \/ SleepZero(t) \/ Yield(t)
    BY <1>1, <2>6 DEF StartRelinks, TaskMisdispatch, Misdispatch, Crash, SleepZero,
       Yield, taskVars
  <2>7. ASSUME NEW u \in User, StartCheck(t, u) \/ \E p \in Prio : SetPriority(t, u, p)
        PROVE  IdleReady'
    BY <1>1, <2>7 DEF StartCheck, SetPriority, taskVars
  <2> QED
    BY <1>4, <2>1, <2>2, <2>3, <2>4, <2>5, <2>6, <2>7 DEF TaskStep
<1>5. ASSUME TickStep PROVE IdleReady'
  <2>1. CASE TickSwitch
    BY <1>3, <1>a, <2>1 DEF TickSwitch, IType
  <2>2. CASE TickTimeout
    <3>1. CASE status[firing] = "BLOCKED"
      <4>1. firing # Idle /\ status' = [status EXCEPT ![firing] = "READY"]
        BY <2>2, <3>1 DEF TickTimeout, IdleReady, Ready
      <4> QED
        BY <1>1, <1>a, <4>1
    <3>2. CASE status[firing] # "BLOCKED"
      BY <1>1, <2>2, <3>2 DEF TickTimeout
    <3> QED
      BY <3>1, <3>2
  <2>3. CASE TickBegin \/ TickYield \/ TickMisdispatch \/ TickCheck \/ TickPop \/ TickEnd
    BY <1>1, <2>3 DEF TickBegin, TickYield, TickMisdispatch, Misdispatch, Crash,
       TickCheck, TickPop, TickEnd, taskVars
  <2> QED
    BY <1>5, <2>1, <2>2, <2>3 DEF TickStep
<1>6. ASSUME NEW u \in User, MainStart(u) PROVE IdleReady'
  BY <1>2, <1>6 DEF MainStart, StartEffect
<1>7. ASSUME KernelStart PROVE IdleReady'
  BY <1>7, <1>a, ChosenIsReady DEF KernelStart, IdleReady, Ready
<1>8. ASSUME CleanupDefunct PROVE IdleReady'
  <2>1. Idle \notin Range(sched.lists[Defunct])
    BY <1>a, InDefunctList DEF Inv, SchedInv, InList, IdleReady, Ready
  <2>2. status'[Idle] = status[Idle]
    BY <1>8, <1>a, <2>1 DEF CleanupDefunct
  <2> QED
    BY <1>1, <2>2
<1>9. ASSUME UNCHANGED vars PROVE IdleReady'
  BY <1>1, <1>9 DEF vars, taskVars
<1> QED
  BY <1>4, <1>5, <1>6, <1>7, <1>8, <1>9 DEF Next, Halted

LEMMA AlwaysDispatchable ==
  ASSUME Inv, CoverInv, Tight(sched), IdleReady
  PROVE  CanDispatch(sched)
<1>1. /\ sched \in SchedType /\ curPrio[Idle] \in Prio
      /\ Idle \in Range(sched.lists[curPrio[Idle]])
  BY ConstantFacts, ReadyNodes DEF IdleReady
<1>2. sched.lists[curPrio[Idle]] # <<>>
  BY <1>1 DEF Range
<1>3. curPrio[Idle] \in sched.group
  BY <1>1, <1>2 DEF CoverInv, Covers
<1>4. PICK g \in SUBSET Nat : g = sched.group
  BY <1>1, ConstantFacts DEF SchedType
<1>5. Top(sched) \in sched.group
  BY <1>3, <1>4, MinProperties DEF Top
<1> QED
  BY <1>1, <1>3, <1>5 DEF CanDispatch, Tight, SchedType

(* What yr_task_start has checked keeps the node out of every list.        *)
LEMMA StartableUnlinked ==
  ASSUME Inv, NEW u \in Task, Startable(u)
  PROVE  ~Linked(sched.lists, u)
<1>1. Home(u) = {} /\ DOMAIN sched.lists = ListId
  BY DEF Inv, IType, TypeOK, SchedType, Home, Startable
<1>2. \A l \in ListId : ~InList(sched, u, l)
  BY <1>1 DEF Inv, SchedInv, Match
<1> QED
  BY <1>1, <1>2 DEF Linked, InList

LEMMA NoRelink ==
  ASSUME Inv, StartInv, NEW t \in User, StartRelinks(t)
  PROVE  FALSE
<1>1. pc[t] = "start" /\ Linked(sched.lists, arg[t])
  BY DEF StartRelinks
<1>2. Startable(arg[t]) /\ arg[t] \in Task
  BY <1>1, ConstantFacts DEF StartInv, Inv, IType
<1> QED
  BY <1>1, <1>2, StartableUnlinked

(* No step but StartRelinks reports a node linked twice.                   *)
LEMMA RelinkReports ==
  ASSUME [Next]_vars, fault # "relinked", \A t \in User : ~StartRelinks(t)
  PROVE  fault' # "relinked"
<1>1. ASSUME NEW t \in User, TaskStep(t) PROVE fault' # "relinked"
  <2>1. ASSUME NEW u \in User, StartCheck(t, u) \/ Suspend(t, u) \/ Delete(t, u)
                               \/ Create(t, u) \/ \E p \in Prio : SetPriority(t, u, p)
        PROVE  fault' = fault
    BY <2>1 DEF StartCheck, Suspend, Delete, DeleteEffect, Create, SetPriority
  <2>2. CASE StartCommit(t) \/ TaskSwitch(t) \/ (\E n \in 1 .. MaxSleep : Sleep(t, n))
             \/ SleepZero(t) \/ Yield(t) \/ Exit(t)
    BY <2>2 DEF StartCommit, TaskSwitch, Sleep, SleepZero, Yield, Exit, DeleteEffect
  <2>3. CASE TaskMisdispatch(t)
    BY <2>3 DEF TaskMisdispatch, Misdispatch, Crash
  <2> QED
    BY <1>1, <2>1, <2>2, <2>3 DEF TaskStep
<1>2. ASSUME TickStep PROVE fault' # "relinked"
  BY <1>2 DEF TickStep, TickBegin, TickYield, TickSwitch, TickMisdispatch,
     TickCheck, TickPop, TickTimeout, TickEnd, Misdispatch, Crash
<1>3. ASSUME (\E u \in User : MainStart(u)) \/ KernelStart \/ CleanupDefunct \/ UNCHANGED vars
      PROVE  fault' = fault
  BY <1>3 DEF MainStart, KernelStart, CleanupDefunct, vars
<1> QED
  BY <1>1, <1>2, <1>3 DEF Next, Halted

(* Status and lists agree in every reachable state, and no node is ever    *)
(* linked twice, in whatever order calls and ticks come and however        *)
(* priorities change, if one task starts and deletes the others: each TCB  *)
(* is in the one list its status calls for, and only once.  Without that   *)
(* condition yr_task_start, which checks the status with interrupts        *)
(* enabled, may link a node that another task has linked meanwhile.        *)
THEOREM ListsMatchStatus ==
  OneStarter /\ Spec => [](NodesMatchStatus /\ fault # "relinked")
<1>1. Init => fault # "relinked"
  BY DEF Init
<1>2. Inv /\ StartInv /\ fault # "relinked" /\ [Next]_vars => (fault # "relinked")'
  BY NoRelink, RelinkReports
<1>3. OneStarter /\ Spec => [](fault # "relinked")
  BY <1>1, <1>2, ManagedHolds, PTL DEF Spec
<1> QED
  BY <1>3, ManagedHolds, InvMatches, PTL

LEMMA NoFaultStep ==
  ASSUME Inv, CoverInv, StartInv, Tight(sched), IdleReady, NoFault, [Next]_vars
  PROVE  NoFault'
<1>1. CanDispatch(sched)
  BY AlwaysDispatchable
<1>2. ~Misdispatch
  BY <1>1 DEF Misdispatch
<1>3. ASSUME NEW t \in User, StartRelinks(t) PROVE FALSE
  BY <1>3, NoRelink
<1>4. ASSUME NEW t \in User, TaskStep(t) PROVE fault' = fault
  <2>1. ASSUME NEW u \in User, StartCheck(t, u) \/ Suspend(t, u) \/ Delete(t, u)
                               \/ Create(t, u) \/ \E p \in Prio : SetPriority(t, u, p)
        PROVE  fault' = fault
    BY <2>1 DEF StartCheck, Suspend, Delete, DeleteEffect, Create, SetPriority
  <2>2. CASE StartCommit(t) \/ TaskSwitch(t) \/ (\E n \in 1 .. MaxSleep : Sleep(t, n))
             \/ SleepZero(t) \/ Yield(t) \/ Exit(t)
    BY <2>2 DEF StartCommit, TaskSwitch, Sleep, SleepZero, Yield, Exit, DeleteEffect
  <2> QED
    BY <1>2, <1>3, <1>4, <2>1, <2>2 DEF TaskStep, TaskMisdispatch
<1>5. ASSUME TickStep PROVE fault' = fault
  BY <1>2, <1>5 DEF TickStep, TickBegin, TickYield, TickSwitch, TickMisdispatch,
     TickCheck, TickPop, TickTimeout, TickEnd
<1>6. ASSUME (\E u \in User : MainStart(u)) \/ KernelStart \/ CleanupDefunct \/ UNCHANGED vars
      PROVE  fault' = fault
  BY <1>6 DEF MainStart, KernelStart, CleanupDefunct, vars
<1>7. fault' = fault
  BY <1>4, <1>5, <1>6 DEF Next, Halted
<1> QED
  BY <1>7 DEF NoFault

(* Without a change of priority, and with one task that starts and deletes *)
(* the others, the kernel never takes a list head for a task and never     *)
(* links a node twice, in whatever order ticks and calls come.             *)
THEOREM NoFaultIfManaged == FixedPriorities /\ OneStarter /\ Spec => []NoFault
<1>1. CoverInv => (BitmapExact <=> Tight(sched))
  BY DEF CoverInv, Covers, Tight, BitmapExact
<1>2. Init => IdleReady /\ NoFault
  BY ConstantFacts DEF Init, IdleReady, Ready, NoFault
<1>3. /\ Inv /\ CoverInv /\ StartInv /\ BitmapExact /\ IdleReady /\ NoFault
      /\ [Next]_vars
      => NoFault'
  BY <1>1, NoFaultStep
<1>4. Inv /\ IdleReady /\ [Next]_vars => IdleReady'
  BY ReadyIdleStep
<1> QED
  BY <1>2, <1>3, <1>4, ManagedHolds, CoverHolds, BitmapExactIfFixed, PTL DEF Spec

-----------------------------------------------------------------------------
(* The current task is the first of the highest ready queue, but for the   *)
(* time between an operation that readies or blocks a task and the switch  *)
(* that follows it.                                                        *)

(* t is the first task of queue p, and no higher queue has a task.         *)
Leads(s, t, p) ==
  /\ s.lists[p] # <<>>
  /\ Head(s.lists[p]) = t
  /\ \A q \in 0 .. p - 1 : s.lists[q] = <<>>

LeadInv ==
  (/\ current # NoTask
   /\ pc[current] # "switch"
   /\ tick \notin {"switch", "fireSwitch"}
   /\ fault = "none")
    => Leads(sched, current, curPrio[current])

LEMMA PrioBelow == ASSUME NEW p \in Prio, NEW q \in 0 .. p - 1 PROVE q \in Prio
BY SizeAssumption DEF Prio

(* Taking u out of a list whose first element is another task.             *)
LEMMA WithoutHead ==
  ASSUME NEW q \in Seq(Task), NEW u, q # <<>>, Head(q) # u
  PROVE  Without(q, u) # <<>> /\ Head(Without(q, u)) = Head(q)
<1>0. /\ Len(q) \in Nat /\ Len(q) # 0 /\ DOMAIN q = 1 .. Len(q)
      /\ Head(q) = q[1] /\ 1 \in 1 .. Len(q)
  BY EmptySeq, LenProperties
<1>1. CASE u \notin Range(q)
  BY <1>1, WithoutProperties
<1>2. CASE u \in Range(q)
  <2> DEFINE r == Without(q, u)
  <2>1. PICK k \in 1 .. Len(q) :
          /\ q[k] = u
          /\ DOMAIN r = 1 .. Len(q) - 1
          /\ \A j \in 1 .. Len(q) - 1 : r[j] = IF j < k THEN q[j] ELSE q[j + 1]
    BY <1>2, WithoutPlaces
  <2>2. k # 1
    BY <1>0, <2>1
  <2>3. 1 \in 1 .. Len(q) - 1 /\ 1 < k
    BY <1>0, <2>2
  <2>4. r[1] = q[1] /\ 1 \in DOMAIN r
    BY <2>1, <2>3
  <2>5. r \in Seq(Task)
    BY WithoutProperties
  <2> HIDE DEF r
  <2>6. r # <<>> /\ Head(r) = r[1]
    BY <2>4, <2>5, EmptySeq, LenProperties
  <2> QED
    BY <1>0, <2>4, <2>6 DEF r
<1> QED
  BY <1>1, <1>2

(* A step that only takes another task out of the ready queues.            *)
LEMMA UnlinkLeads ==
  ASSUME NEW s \in SchedType, NEW r, NEW t, NEW p \in Prio, NEW u, u # t,
         Leads(s, t, p), \A l \in Prio : r.lists[l] = Without(s.lists[l], u)
  PROVE  Leads(r, t, p)
<1>1. \A l \in Prio : s.lists[l] \in Seq(Task)
  BY ConstantFacts DEF SchedType
<1>2. PICK x \in Seq(Task) : x = s.lists[p]
  BY <1>1
<1>3. x # <<>> /\ Head(x) = t
  BY <1>2 DEF Leads
<1>4. Without(x, u) # <<>> /\ Head(Without(x, u)) = Head(x)
  BY <1>3, WithoutHead
<1>5. ASSUME NEW q \in 0 .. p - 1 PROVE r.lists[q] = <<>>
  <2>1. q \in Prio /\ s.lists[q] = <<>>
    BY PrioBelow DEF Leads
  <2>2. Without(<<>>, u) = <<>>
    BY DEF Without, Range
  <2> QED
    BY <2>1, <2>2
<1> QED
  BY <1>2, <1>3, <1>4, <1>5 DEF Leads

(* A task that becomes last in a queue that is not a higher one.           *)
LEMMA InsertLeads ==
  ASSUME NEW s \in SchedType, NEW t, NEW u \in Task, NEW p \in Prio, NEW m,
         NEW k \in Prio, Leads(s, t, k), k <= p
  PROVE  Leads(SchedInsert(s, u, p, m), t, k)
<1> DEFINE r == SchedInsert(s, u, p, m)
<1>0. /\ s.lists[k] # <<>> /\ Head(s.lists[k]) = t
      /\ \A q \in 0 .. k - 1 : s.lists[q] = <<>>
  BY DEF Leads
<1>1. /\ s.lists \in [ListId -> Seq(Task)] /\ p \in ListId /\ k \in ListId
      /\ p \in Nat /\ k \in Nat
  BY ConstantFacts DEF SchedType
<1>2. r.lists = [s.lists EXCEPT ![p] = Append(@, u)]
  BY DEF SchedInsert, LinkLast
<1> HIDE DEF r
<1>3. r.lists[k] # <<>> /\ Head(r.lists[k]) = t
  <2>1. CASE k = p
    <3>1. s.lists[k] \in Seq(Task) /\ r.lists[k] = Append(s.lists[k], u)
      BY <1>1, <1>2, <2>1
    <3>2. PICK q \in Seq(Task) : q = s.lists[k]
      BY <3>1
    <3>3. q # <<>> /\ Head(q) = t
      BY <1>0, <3>2
    <3>4. Append(q, u) # <<>> /\ Head(Append(q, u)) = Head(q)
      BY <3>3
    <3> QED
      BY <3>1, <3>2, <3>3, <3>4
  <2>2. CASE k # p
    BY <1>0, <1>1, <1>2, <2>2
  <2> QED
    BY <2>1, <2>2
<1>4. ASSUME NEW q \in 0 .. k - 1 PROVE r.lists[q] = <<>>
  <2>1. q \in Prio /\ q \in ListId /\ q # p
    BY <1>1, PrioBelow, ConstantFacts
  <2> QED
    BY <1>0, <1>1, <1>2, <2>1
<1> QED
  BY <1>3, <1>4 DEF Leads, r

LEMMA ChosenLeads ==
  ASSUME Inv, Covers(sched), CanDispatch(sched)
  PROVE  Chosen(sched) \in Task /\ Leads(sched, Chosen(sched), curPrio[Chosen(sched)])
<1>1. /\ sched \in SchedType /\ sched.group \in SUBSET Nat
      /\ sched.group \subseteq Prio /\ sched.group # {}
      /\ sched.lists[Top(sched)] # <<>>
  BY ConstantFacts DEF Inv, IType, TypeOK, SchedType, CanDispatch
<1>2. Top(sched) \in sched.group /\ \A x \in sched.group : Top(sched) <= x
  <2>1. PICK g \in SUBSET Nat : g = sched.group
    BY <1>1
  <2>2. Min(g) \in g /\ \A x \in g : Min(g) <= x
    BY <1>1, <2>1, MinProperties
  <2> QED
    BY <2>1, <2>2 DEF Top
<1>3. PICK p \in Prio : p = Top(sched)
  BY <1>1, <1>2
<1>4. ASSUME NEW q \in 0 .. p - 1, sched.lists[q] # <<>> PROVE FALSE
  <2>1. q \in Prio /\ q \in sched.group
    BY <1>4, PrioBelow DEF Covers
  <2>2. p <= q /\ p \in Nat
    BY <1>2, <1>3, <2>1, ConstantFacts
  <2> QED
    BY <2>2
<1>5. PICK x \in Seq(Task) : x = sched.lists[p]
  BY <1>1, ConstantFacts DEF SchedType
<1>6. PICK t : t = Head(x)
  OBVIOUS
<1>7. t \in Task /\ t \in Range(x)
  BY <1>1, <1>3, <1>5, <1>6, LenProperties, EmptySeq DEF Range
<1>8. curPrio[t] = p
  BY <1>5, <1>7, ReadyNodes
<1>9. Chosen(sched) = t
  BY <1>3, <1>5, <1>6 DEF Chosen
<1> QED
  BY <1>1, <1>3, <1>4, <1>5, <1>6, <1>7, <1>8, <1>9 DEF Leads

(* The leading task is ready, and its node is in a list.                   *)
LEMMA LeaderReady ==
  ASSUME Inv, NEW t \in Task, Leads(sched, t, curPrio[t])
  PROVE  Ready(t) /\ Linked(sched.lists, t)
<1>1. PICK x \in Seq(Task) : x = sched.lists[curPrio[t]]
  BY ReadyNodes, ConstantFacts DEF SchedType
<1>2. x # <<>> /\ Head(x) = t
  BY <1>1 DEF Leads
<1>3. t \in Range(x)
  BY <1>1, <1>2, LenProperties, EmptySeq DEF Range
<1>4. /\ curPrio[t] \in Prio /\ curPrio[t] \in DOMAIN sched.lists
      /\ t \in Range(sched.lists[curPrio[t]])
  BY <1>1, <1>3, ReadyNodes, ConstantFacts DEF SchedType
<1> QED
  BY <1>4, ReadyNodes DEF Linked

LEMMA DispatchLeads ==
  ASSUME Inv, Covers(sched), Dispatch, current \in Task, UNCHANGED <<sched, curPrio>>
  PROVE  Leads(sched', current', curPrio'[current'])
<1>1. CanDispatch(sched) /\ current' = Chosen(sched)
  BY DEF Dispatch
<1> QED
  BY <1>1, ChosenLeads

LEMMA DeleteLeads ==
  ASSUME Inv, NEW t \in Task, Leads(sched, t, curPrio[t]), NEW u \in Task, u # t,
         DeleteEffect(u)
  PROVE  Leads(sched', t, curPrio[t])
<1>1. sched \in SchedType /\ curPrio[t] \in Prio
  BY ReadyNodes
<1>2. \A l \in Prio : sched'.lists[l] = Without(sched.lists[l], u)
  BY <1>1, ConstantFacts, ListAssumption
     DEF DeleteEffect, SchedRemove, Unlink, LinkLast, SchedType
<1>3. PICK r : r = sched'
  OBVIOUS
<1> QED
  BY <1>1, <1>2, <1>3, UnlinkLeads

LEMMA LeadStep ==
  ASSUME Inv, CoverInv, FixedPriorities, LeadInv, [Next]_vars
  PROVE  LeadInv'
<1>a. /\ IType /\ sched \in SchedType /\ curPrio \in [Task -> Prio]
      /\ pc \in [Task -> Label] /\ Prio \subseteq Nat
      /\ User \subseteq Task /\ NoTask \notin Task /\ Idle \in Task
      /\ Covers(sched)
  BY ConstantFacts DEF Inv, IType, TypeOK, CoverInv
<1>b. ASSUME Leads(sched', current, curPrio'[current]), current' = current
      PROVE  LeadInv'
  BY <1>b DEF LeadInv
<1>c. ASSUME NEW t \in User, Executes(t), pc[t] # "switch"
      PROVE  /\ current = t /\ Leads(sched, t, curPrio[t]) /\ Ready(t)
             /\ Linked(sched.lists, t) /\ curPrio[t] \in Prio
  <2>1. current = t /\ Leads(sched, t, curPrio[t])
    BY <1>a, <1>c DEF LeadInv, Executes
  <2> QED
    BY <1>a, <2>1, LeaderReady
<1>1. ASSUME UNCHANGED <<sched, current, curPrio>>, UNCHANGED <<pc, fault>>,
             tick \notin {"switch", "fireSwitch"}
      PROVE  LeadInv'
  BY <1>1 DEF LeadInv
<1>2. ASSUME Dispatch, current \in Task, UNCHANGED <<sched, curPrio>> PROVE LeadInv'
  BY <1>2, <1>a, DispatchLeads DEF LeadInv
<1>3. ASSUME NEW t \in User, current' = t, pc' = [pc EXCEPT ![t] = "switch"]
      PROVE  LeadInv'
  BY <1>3, <1>a DEF LeadInv
<1>4. ASSUME fault' # "none" \/ current' = NoTask PROVE LeadInv'
  BY <1>4 DEF LeadInv
<1>5. ASSUME NEW t \in User, StartCommit(t) PROVE LeadInv'
  <2>0. pc[t] = "start" /\ Executes(t)
    BY <1>5 DEF StartCommit
  <2>1. PICK u \in Task : u = arg[t]
    BY <1>5, <1>a, <2>0 DEF IType
  <2>2. u # t /\ StartEffect(u) /\ current' = current
    BY <1>5, <1>c, <2>0, <2>1 DEF StartCommit
  <2>3. /\ sched' = SchedInsert(sched, u, curPrio'[u], mask[u])
        /\ curPrio'[u] \in Prio /\ curPrio'[t] = curPrio[t]
    BY <1>a, <2>2, StartEffectType DEF StartEffect
  <2>4. CASE Preempts(curPrio'[u], t)
    BY <1>3, <1>5, <1>c, <2>0, <2>1, <2>2, <2>4 DEF StartCommit, Goto
  <2>5. CASE ~Preempts(curPrio'[u], t)
    <3>1. PICK p \in Prio : p = curPrio'[u]
      BY <2>3
    <3>2. curPrio[t] <= p /\ curPrio[t] \in Prio
      <4>1. PICK a \in Nat, b \in Nat : a = curPrio[t] /\ b = p
        BY <1>a
      <4>2. ~ (b < a)
        BY <2>5, <3>1, <4>1 DEF Preempts
      <4> QED
        BY <1>a, <4>1, <4>2
    <3>3. Leads(SchedInsert(sched, u, p, mask[u]), t, curPrio[t])
      BY <1>a, <1>c, <2>0, <3>2, InsertLeads
    <3> QED
      BY <1>b, <1>c, <2>0, <2>2, <2>3, <3>1, <3>3
  <2> QED
    BY <2>4, <2>5
<1>6. ASSUME NEW t \in User, NEW u \in User, Suspend(t, u) PROVE LeadInv'
  <2>0. pc[t] = "app" /\ Executes(t) /\ current' = current /\ curPrio' = curPrio
    BY <1>6 DEF Suspend, MayCall
  <2>1. CASE u = t
    BY <1>3, <1>6, <1>c, <2>0, <2>1 DEF Suspend, Goto
  <2>2. CASE u # t
    <3>1. PICK r : r = sched'
      OBVIOUS
    <3>2. \A l \in Prio : r.lists[l] = Without(sched.lists[l], u)
      BY <1>6, <1>a, <3>1, ConstantFacts DEF Suspend, SchedRemove, Unlink, SchedType
    <3>3. Leads(r, t, curPrio[t])
      BY <1>a, <1>c, <2>0, <2>2, <3>2, UnlinkLeads
    <3> QED
      BY <1>b, <1>c, <2>0, <3>1, <3>3
  <2> QED
    BY <2>1, <2>2
<1>7. ASSUME NEW t \in User, NEW u \in User, Delete(t, u) PROVE LeadInv'
  <2>0. /\ pc[t] = "app" /\ Executes(t) /\ current' = current /\ curPrio' = curPrio
        /\ DeleteEffect(u)
    BY <1>7 DEF Delete, DeleteEffect, MayCall
  <2>1. CASE u = t
    BY <1>3, <1>7, <1>c, <2>0, <2>1 DEF Delete, Goto
  <2>2. CASE u # t
    <3>1. Leads(sched', t, curPrio[t])
      BY <1>a, <1>c, <2>0, <2>2, DeleteLeads
    <3> QED
      BY <1>b, <1>c, <2>0, <3>1
  <2> QED
    BY <2>1, <2>2
<1>8. ASSUME NEW t \in User, NEW u \in User, Create(t, u) PROVE LeadInv'
  <2>0. pc[t] = "app" /\ Executes(t) /\ current' = current /\ sched' = sched
    BY <1>8 DEF Create, MayCall
  <2>1. u # t
    BY <1>8, <1>c, <2>0 DEF Create, Ready
  <2>2. curPrio'[t] = curPrio[t]
    BY <1>8, <1>a, <2>1 DEF Create
  <2> QED
    BY <1>b, <1>c, <2>0, <2>2
<1>9. ASSUME CleanupDefunct PROVE LeadInv'
  <2>1. SameQueues(sched', sched) /\ UNCHANGED <<current, curPrio, pc, tick, fault>>
    BY <1>9, <1>a, CleanupQueues DEF CleanupDefunct
  <2>2. CASE pc[Idle] = "switch"
    BY <1>9, <2>1, <2>2 DEF CleanupDefunct, Executes, LeadInv
  <2>3. CASE pc[Idle] # "switch"
    <3>1. current = Idle /\ Leads(sched, Idle, curPrio[Idle]) /\ curPrio[Idle] \in Prio
      BY <1>9, <1>a, <2>3 DEF CleanupDefunct, Executes, LeadInv
    <3>2. PICK r : r = sched'
      OBVIOUS
    <3>3. PICK p \in Prio : p = curPrio[Idle]
      BY <3>1
    <3>4. \A q \in 0 .. p - 1 : q \in Prio
      BY PrioBelow
    <3>5. Leads(r, Idle, p)
      BY <2>1, <3>1, <3>2, <3>3, <3>4 DEF Leads, SameQueues
    <3> QED
      BY <1>b, <2>1, <3>1, <3>2, <3>3, <3>5
  <2> QED
    BY <2>2, <2>3
<1>10. ASSUME TickTimeout PROVE LeadInv'
  <2>0. /\ current' = current /\ UNCHANGED <<curPrio, pc, fault>>
        /\ tick \notin {"switch", "fireSwitch"}
        /\ current \in Task /\ firing \in Task
    BY <1>10, <1>a DEF TickTimeout, IType
  <2>1. CASE status[firing] # "BLOCKED"
    BY <1>1, <1>10, <2>0, <2>1 DEF TickTimeout
  <2>2. CASE status[firing] = "BLOCKED" /\ Preempts(curPrio[firing], current)
    <3>1. tick' = "fireSwitch"
      BY <1>10, <2>2 DEF TickTimeout
    <3> QED
      BY <3>1 DEF LeadInv
  <2>3. CASE status[firing] = "BLOCKED" /\ ~Preempts(curPrio[firing], current)
    <3>1. CASE pc[current] = "switch" \/ fault # "none"
      BY <2>0, <3>1 DEF LeadInv
    <3>2. CASE pc[current] # "switch" /\ fault = "none"
      <4>1. PICK t \in Task, f \in Task : t = current /\ f = firing
        BY <2>0
      <4>2. Leads(sched, t, curPrio[t])
        BY <1>a, <2>0, <3>2, <4>1 DEF LeadInv
      <4>3. f # t
        BY <2>3, <4>1, <4>2, LeaderReady DEF Ready
      <4>4. PICK x : x = [sched EXCEPT !.lists = Unlink(@, f)]
        OBVIOUS
      <4>5. x \in SchedType
        BY <1>a, <4>4, UnlinkSched
      <4>6. \A l \in Prio : x.lists[l] = Without(sched.lists[l], f)
        BY <1>a, <4>4, ConstantFacts DEF Unlink, SchedType
      <4>7. Leads(x, t, curPrio[t]) /\ curPrio[t] \in Prio /\ curPrio[f] \in Prio
        BY <1>a, <4>2, <4>3, <4>6, UnlinkLeads
      <4>8. curPrio[t] <= curPrio[f]
        <5>1. PICK a \in Nat, b \in Nat : a = curPrio[t] /\ b = curPrio[f]
          BY <1>a, <4>7
        <5>2. ~ (b < a)
          BY <2>3, <4>1, <5>1 DEF Preempts
        <5> QED
          BY <5>1, <5>2
      <4>9. Leads(SchedInsert(x, f, curPrio[f], mask[f]), t, curPrio[t])
        BY <4>5, <4>7, <4>8, InsertLeads
      <4>10. sched' = SchedInsert(x, f, curPrio[f], mask[f])
        BY <1>10, <2>3, <4>1, <4>4 DEF TickTimeout
      <4> QED
        BY <1>b, <2>0, <4>1, <4>9, <4>10
    <3> QED
      BY <3>1, <3>2
  <2> QED
    BY <2>1, <2>2, <2>3
<1>11. ASSUME NEW t \in User, TaskStep(t) PROVE LeadInv'
  <2>1. CASE StartRelinks(t) \/ TaskMisdispatch(t)
    BY <1>4, <2>1 DEF StartRelinks, TaskMisdispatch, Misdispatch, Crash
  <2>2. CASE TaskSwitch(t)
    BY <1>2, <1>a, <2>2 DEF TaskSwitch, Executes
  <2>3. ASSUME NEW n \in 1 .. MaxSleep, Sleep(t, n) PROVE LeadInv'
    BY <1>3, <2>3 DEF Sleep, MayCall, Executes, Goto
  <2>4. CASE SleepZero(t) \/ Yield(t) \/ Exit(t)
    BY <1>3, <2>4 DEF SleepZero, Yield, Exit, DeleteEffect, MayCall, Executes, Goto
  <2>5. ASSUME NEW u \in User, StartCheck(t, u) PROVE LeadInv'
    <3>1. pc[t] = "app" /\ Executes(t) /\ UNCHANGED <<sched, current, curPrio>>
      BY <2>5 DEF StartCheck, MayCall, taskVars
    <3> QED
      BY <1>b, <1>c, <3>1
  <2>6. ASSUME NEW u \in User, NEW p \in Prio, SetPriority(t, u, p) PROVE LeadInv'
    BY <2>6 DEF SetPriority, MayCall, FixedPriorities
  <2> QED
    BY <1>5, <1>6, <1>7, <1>8, <1>11, <2>1, <2>2, <2>3, <2>4, <2>5, <2>6 DEF TaskStep
<1>12. ASSUME TickStep PROVE LeadInv'
  <2>1. CASE TickSwitch
    BY <1>2, <1>a, <2>1 DEF TickSwitch, IType
  <2>2. CASE TickYield
    <3>1. CASE tick' = "switch"
      BY <3>1 DEF LeadInv
    <3>2. CASE tick' # "switch"
      BY <1>1, <2>2, <3>2 DEF TickYield, taskVars
    <3> QED
      BY <3>1, <3>2
  <2>3. CASE TickMisdispatch
    BY <1>4, <2>3 DEF TickMisdispatch, Misdispatch, Crash
  <2>4. CASE TickBegin \/ TickCheck \/ TickPop \/ TickEnd
    BY <1>1, <2>4 DEF TickBegin, TickCheck, TickPop, TickEnd, taskVars
  <2> QED
    BY <1>10, <1>12, <2>1, <2>2, <2>3, <2>4 DEF TickStep
<1>13. ASSUME KernelStart PROVE LeadInv'
  <2>1. /\ CanDispatch(sched) /\ current' = Chosen(sched)
        /\ UNCHANGED <<sched, curPrio>>
    BY <1>13 DEF KernelStart
  <2> QED
    BY <1>a, <2>1, ChosenLeads DEF LeadInv
<1>14. ASSUME NEW u \in User, MainStart(u) PROVE LeadInv'
  BY <1>4, <1>14 DEF MainStart
<1>15. ASSUME UNCHANGED vars PROVE LeadInv'
  BY <1>15 DEF vars, taskVars, LeadInv
<1> QED
  BY <1>9, <1>11, <1>12, <1>13, <1>14, <1>15 DEF Next, Halted

(* While no priority changes, the highest ready task runs, and of several  *)
(* the first: wherever a tick comes between a call and its switch, no      *)
(* switch is lost.                                                         *)
THEOREM HighestRunsIfFixed == FixedPriorities /\ Spec => []HighestRuns
<1> DEFINE FixedLead == FixedPriorities /\ LeadInv
<1>1. Inv /\ FixedLead => HighestRuns
  <2> SUFFICES ASSUME Inv, FixedLead, tick = "off", current # NoTask,
                      pc[current] # "switch", fault = "none"
               PROVE  \E p \in Prio : Leads(sched, current, p)
    BY DEF HighestRuns, Leads
  <2>1. Leads(sched, current, curPrio[current])
    BY DEF LeadInv
  <2>2. curPrio[current] \in Prio
    BY DEF Inv, IType, TypeOK
  <2> QED
    BY <2>1, <2>2
<1>2. FixedPriorities /\ Init => FixedLead
  BY DEF Init, LeadInv
<1>3. Inv /\ CoverInv /\ FixedLead /\ [Next]_vars => FixedLead'
  BY LeadStep
<1> HIDE DEF FixedLead
<1> QED
  BY <1>1, <1>2, <1>3, InvHolds, CoverHolds, PTL DEF Spec
=============================================================================
