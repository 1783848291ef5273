----------------------------- MODULE Ipc_proofs -----------------------------
(***************************************************************************)
(* What the proofs about semaphores, mutexes and queues share: the         *)
(* operations of ipc.c keep the types and the agreement of lists and       *)
(* status that Kernel_proofs shows for the kernel's own operations, and    *)
(* the kernel's steps only take waiters away.  The lemmas are about the    *)
(* lists s that an operation starts from: a mutex changes a priority       *)
(* before it blocks a task or wakes one, in the same critical section.     *)
(***************************************************************************)
EXTENDS Ipc, Kernel_proofs

-----------------------------------------------------------------------------
(* The lists while a task starts to wait *)

LEMMA InsertByPriorityProperties ==
  ASSUME NEW q \in Seq(Task), NEW t \in Task, NEW prio
  PROVE  /\ InsertByPriority(q, t, prio) \in Seq(Task)
         /\ \A u : u \in Range(InsertByPriority(q, t, prio)) <=> u \in Range(q) \/ u = t
         /\ IsInjective(q) /\ t \notin Range(q)
              => IsInjective(InsertByPriority(q, t, prio))
<1> DEFINE places == {j \in DOMAIN q : prio[t] < prio[q[j]]}
<1>1. InsertByPriority(q, t, prio) = InsertBefore(q, t, places)
  BY DEF InsertByPriority
<1>2. places \in SUBSET DOMAIN q
  OBVIOUS
<1> HIDE DEF places
<1> QED
  BY <1>1, <1>2, InsertBeforeProperties

(* A node that is in no list gets into the blocked list i as part of q.    *)
LEMMA PutInBlocked ==
  ASSUME NEW x \in SchedType, NEW t \in Task, NEW i \in Ipc, NEW q \in Seq(Task),
         \A u : u \in Range(q) <=> u \in Range(x.lists[i]) \/ u = t,
         IsInjective(x.lists[i]) /\ t \notin Range(x.lists[i]) => IsInjective(q),
         NEW r \in SchedType, r.group = x.group,
         r.lists = [x.lists EXCEPT ![i] = q]
  PROVE  /\ Covers(x) => Covers(r)
         /\ \A l \in ListId : \A u : InList(r, u, l) <=> InList(x, u, l) \/ (l = i /\ u = t)
         /\ InjectiveLists(x.lists) /\ ~InList(x, t, i) => InjectiveLists(r.lists)
<1>1. i \in ListId /\ i \notin Prio
  BY ConstantFacts, ListAssumption
<1>3. r.lists[i] = q /\ \A l \in ListId : l # i => r.lists[l] = x.lists[l]
  BY <1>1 DEF SchedType
<1>4. DOMAIN r.lists = ListId /\ DOMAIN x.lists = ListId
  BY DEF SchedType
<1>5. Covers(x) => Covers(r)
  BY <1>1, <1>3, ConstantFacts DEF Covers
<1>6. \A l \in ListId : \A u : InList(r, u, l) <=> InList(x, u, l) \/ (l = i /\ u = t)
  BY <1>3 DEF InList
<1>7. InjectiveLists(x.lists) /\ ~InList(x, t, i) => InjectiveLists(r.lists)
  BY <1>1, <1>3, <1>4 DEF InjectiveLists, InList
<1> QED
  BY <1>5, <1>6, <1>7

LEMMA BlockSched ==
  ASSUME NEW s \in SchedType, NEW t \in Task, NEW i \in Ipc, curPrio[t] \in Prio,
         mask[t] \in Prio
  PROVE  LET r == BlockedIn(s, i, t) IN
         /\ r \in SchedType
         /\ Covers(s) /\ mask[t] = curPrio[t] => Covers(r)
         /\ \A l \in ListId : \A u : u # t => (InList(r, u, l) <=> InList(s, u, l))
         /\ InjectiveLists(s.lists) => /\ InjectiveLists(r.lists)
                                       /\ \A l \in ListId : InList(r, t, l) <=> l = i
<1> DEFINE x == SchedRemove(s, t, curPrio[t], mask[t])
           q == IF i \in prioIpc THEN InsertByPriority(x.lists[i], t, curPrio)
                                 ELSE Append(x.lists[i], t)
           r == BlockedIn(s, i, t)
<1>1. /\ x \in SchedType
      /\ Covers(s) /\ mask[t] = curPrio[t] => Covers(x)
      /\ \A l \in ListId : \A u : u # t => (InList(x, u, l) <=> InList(s, u, l))
      /\ InjectiveLists(s.lists) => /\ InjectiveLists(x.lists)
                                    /\ \A l \in ListId : ~InList(x, t, l)
  BY RemoveSched
<1>2. r = [x EXCEPT !.lists[i] = q]
  BY DEF BlockedIn
<1> HIDE DEF x, r
<1>3. x.lists[i] \in Seq(Task) /\ i \in ListId
  BY <1>1, ConstantFacts DEF SchedType
<1>4. /\ q \in Seq(Task)
      /\ \A u : u \in Range(q) <=> u \in Range(x.lists[i]) \/ u = t
      /\ IsInjective(x.lists[i]) /\ t \notin Range(x.lists[i]) => IsInjective(q)
  BY <1>3, InsertByPriorityProperties, AppendRange
<1> HIDE DEF q
<1>5. r \in SchedType /\ r.group = x.group /\ r.lists = [x.lists EXCEPT ![i] = q]
  BY <1>1, <1>2, <1>3, <1>4 DEF SchedType
<1>6. /\ Covers(x) => Covers(r)
      /\ \A l \in ListId : \A u : InList(r, u, l) <=> InList(x, u, l) \/ (l = i /\ u = t)
      /\ InjectiveLists(x.lists) /\ ~InList(x, t, i) => InjectiveLists(r.lists)
  BY <1>1, <1>4, <1>5, PutInBlocked
<1> QED
  BY <1>1, <1>3, <1>5, <1>6 DEF r

(* The lists s agree with the status of the tasks if prio is their         *)
(* priority.                                                               *)
ListsAgree(s, prio) ==
  /\ s \in SchedType /\ InjectiveLists(s.lists)
  /\ \A t \in Task : InPlace(s, t, prio[t])

LEMMA SchedAgrees ==
  ASSUME IType, SchedInv
  PROVE  ListsAgree(sched, curPrio)
<1>1. ASSUME NEW t \in Task PROVE InPlace(sched, t, curPrio[t])
  <2>1. Place(t, curPrio[t]) = Home(t)
    BY DEF Place, Home, Ready
  <2> QED
    BY <2>1 DEF SchedInv, Match, InPlace
<1> QED
  BY <1>1 DEF ListsAgree, IType, TypeOK, SchedInv

(* yr_task_ctrl_current keeps the agreement.                               *)
LEMMA ReprioritisedAgrees ==
  ASSUME IType, NEW s, NEW prio \in [Task -> Prio], ListsAgree(s, prio),
         NEW u \in Task, NEW q \in [Task -> Prio],
         \A t \in Task : t # u => q[t] = prio[t]
  PROVE  ListsAgree(Reprioritised(s, u, q), q)
<1> DEFINE r == Reprioritised(s, u, q)
<1>1. /\ s \in SchedType /\ InjectiveLists(s.lists)
      /\ \A t \in Task : InPlace(s, t, prio[t])
  BY DEF ListsAgree
<1>2. /\ r \in SchedType /\ InjectiveLists(r.lists)
      /\ \A l \in ListId : \A t : t # u => (InList(r, t, l) <=> InList(s, t, l))
      /\ InPlace(r, u, q[u])
  BY <1>1, ReprioritisedSched
<1> HIDE DEF r
<1>3. ASSUME NEW t \in Task, t # u PROVE InPlace(r, t, q[t])
  BY <1>1, <1>2, <1>3 DEF InPlace
<1> QED
  BY <1>2, <1>3 DEF ListsAgree, r

(* The caller of a function that waits ends up in the list of the object,  *)
(* with the status and the message that say so.                            *)
LEMMA BlockFromKeeps ==
  ASSUME IType, NEW s, curPrio' \in [Task -> Prio], ListsAgree(s, curPrio'),
         NEW t \in Task, curPrio'[t] = curPrio[t], NEW i \in Ipc,
         NEW n, n # Forever => n \in Int, BlockFrom(s, i, t, n)
  PROVE  /\ SchedInv'
         /\ sched' \in SchedType /\ status' \in [Task -> Status]
         /\ msg' \in [Task -> MsgType]
         /\ timerList' \in Seq(Task) /\ due' \in Seq(Task) /\ left' \in [Task -> Int]
         /\ UNCHANGED firing
<1> DEFINE m == [source |-> i, reason |-> "IPC", notify |-> "NONE"]
<1>1. /\ s \in SchedType /\ InjectiveLists(s.lists)
      /\ curPrio[t] \in Prio /\ mask[t] \in Prio
      /\ status \in [Task -> Status] /\ msg \in [Task -> MsgType]
  BY DEF IType, TypeOK, ListsAgree
<1>2. /\ sched' = BlockedIn(s, i, t)
      /\ status' = [status EXCEPT ![t] = "BLOCKED"]
      /\ msg' = [msg EXCEPT ![t] = m]
  BY DEF BlockFrom
<1>3. m \in MsgType /\ m.reason = "IPC" /\ m.source = i
  BY DEF MsgType
<1>4. /\ sched' \in SchedType /\ InjectiveLists(sched'.lists)
      /\ \A l \in ListId : \A u : u # t => (InList(sched', u, l) <=> InList(s, u, l))
      /\ \A l \in ListId : InList(sched', t, l) <=> l = i
  BY <1>1, <1>2, BlockSched
<1> HIDE DEF m
<1>5. Home(t)' = {i}
  BY <1>1, <1>2, <1>3 DEF Home
<1>6. ASSUME NEW u \in Task, u # t PROVE \A l \in ListId : InList(sched', u, l) <=> l \in Home(u)'
  <2>1. status'[u] = status[u] /\ msg'[u] = msg[u]
    BY <1>1, <1>2, <1>6
  <2>2. Home(u)' = Place(u, curPrio'[u])
    BY <2>1 DEF Home, Place, Ready
  <2> QED
    BY <1>4, <1>6, <2>2 DEF ListsAgree, InPlace
<1>7. Match'
  BY <1>4, <1>5, <1>6 DEF Match
<1>8. SchedInv'
  BY <1>4, <1>7 DEF SchedInv
<1>9. status' \in [Task -> Status] /\ msg' \in [Task -> MsgType]
  BY <1>1, <1>2, <1>3, Literals
<1>10. /\ timerList' \in Seq(Task) /\ due' \in Seq(Task) /\ left' \in [Task -> Int]
       /\ UNCHANGED firing
  <2>1. CASE n = Forever
    BY <2>1 DEF BlockFrom, timerVars, IType, TypeOK
  <2>2. CASE n # Forever
    BY <2>2, StartTimerType DEF BlockFrom
  <2> QED
    BY <2>1, <2>2
<1> QED
  BY <1>4, <1>8, <1>9, <1>10

LEMMA BlockKeeps ==
  ASSUME IType, SchedInv, NEW t \in Task, NEW i \in Ipc,
         NEW n, n # Forever => n \in Int, Block(i, t, n)
  PROVE  /\ SchedInv'
         /\ sched' \in SchedType /\ status' \in [Task -> Status]
         /\ msg' \in [Task -> MsgType]
         /\ timerList' \in Seq(Task) /\ due' \in Seq(Task) /\ left' \in [Task -> Int]
         /\ UNCHANGED firing
<1>1. /\ curPrio' = curPrio /\ curPrio \in [Task -> Prio]
      /\ BlockFrom(sched, i, t, n)
  BY DEF Block, IType, TypeOK
<1>2. ListsAgree(sched, curPrio')
  BY <1>1, SchedAgrees
<1> QED
  BY <1>1, <1>2, BlockFromKeeps

-----------------------------------------------------------------------------
(* The first waiter, or every waiter, becomes ready *)

LEMMA WaiterInPlace ==
  ASSUME NEW s, NEW i \in Ipc, NEW t \in Task, NEW p \in Prio, InPlace(s, t, p),
         InList(s, t, i)
  PROVE  status[t] = "BLOCKED" /\ msg[t].reason = "IPC" /\ msg[t].source = i
<1>1. i \in ListId /\ i \notin Prio /\ i # Defunct
  BY ConstantFacts, ListAssumption
<1>2. i \in Place(t, p)
  BY <1>1 DEF InPlace
<1> QED
  BY <1>1, <1>2 DEF Place, Ready

LEMMA WaiterIsBlocked ==
  ASSUME IType, SchedInv, NEW i \in Ipc, NEW t \in Task, InList(sched, t, i)
  PROVE  status[t] = "BLOCKED" /\ msg[t].reason = "IPC" /\ msg[t].source = i
<1>1. InPlace(sched, t, curPrio[t]) /\ curPrio[t] \in Prio
  BY SchedAgrees DEF ListsAgree, IType, TypeOK
<1> QED
  BY <1>1, WaiterInPlace

LEMMA FirstOfList ==
  ASSUME NEW s \in SchedType, NEW i \in Ipc, s.lists[i] # <<>>
  PROVE  Head(s.lists[i]) \in Task /\ InList(s, Head(s.lists[i]), i)
<1>1. s.lists[i] \in Seq(Task)
  BY ConstantFacts DEF SchedType
<1>2. Head(s.lists[i]) \in Task /\ 1 \in DOMAIN s.lists[i] /\ Head(s.lists[i]) = s.lists[i][1]
  BY <1>1, HeadTailProperties, LenProperties, EmptySeq
<1> QED
  BY <1>2 DEF InList, Range

LEMMA ResumeFromKeeps ==
  ASSUME IType, NEW s, curPrio' \in [Task -> Prio], ListsAgree(s, curPrio'),
         NEW i \in Ipc, s.lists[i] # <<>>, ResumeFrom(s, i),
         NEW u, u = Head(s.lists[i]), curPrio'[u] = curPrio[u]
  PROVE  /\ SchedInv'
         /\ u \in Task /\ status[u] = "BLOCKED"
         /\ status' = [status EXCEPT ![u] = "READY"]
         /\ sched' \in SchedType /\ status' \in [Task -> Status]
         /\ msg' \in [Task -> MsgType]
         /\ timerList' \in Seq(Task) /\ due' \in Seq(Task) /\ left' \in [Task -> Int]
         /\ UNCHANGED firing
<1> DEFINE x == [s EXCEPT !.lists = Unlink(@, u)]
<1>1. /\ s \in SchedType /\ InjectiveLists(s.lists)
      /\ mask \in [Task -> Prio]
      /\ \A t \in Task : InPlace(s, t, curPrio'[t])
      /\ status \in [Task -> Status] /\ msg \in [Task -> MsgType]
  BY DEF IType, TypeOK, ListsAgree
<1>2. u \in Task /\ InList(s, u, i)
  BY <1>1, FirstOfList
<1>3. /\ curPrio'[u] \in Prio /\ curPrio[u] \in Prio /\ curPrio[u] \in ListId
      /\ mask[u] \in Prio
  BY <1>1, <1>2, ConstantFacts
<1>4. status[u] = "BLOCKED"
  BY <1>1, <1>2, <1>3, WaiterInPlace
<1>5. /\ sched' = SchedInsert(x, u, curPrio[u], mask[u])
      /\ status' = [status EXCEPT ![u] = "READY"]
      /\ msg' = [msg EXCEPT ![u] = [NoMsg EXCEPT !.notify = "OK"]]
      /\ StopTimer(u)
  BY DEF ResumeFrom, StopWait
<1>6. /\ x \in SchedType /\ InjectiveLists(x.lists)
      /\ \A l \in ListId : \A t : t # u => (InList(x, t, l) <=> InList(s, t, l))
      /\ \A l \in ListId : ~InList(x, u, l)
  <2>1. s \in SchedType /\ InjectiveLists(s.lists)
    BY <1>1
  <2> QED
    BY ONLY <2>1, UnlinkSched, ZenonT(30)
<1> HIDE DEF x
<1>7. /\ sched' \in SchedType /\ InjectiveLists(sched'.lists)
      /\ \A l \in ListId : \A t :
           InList(sched', t, l) <=> InList(x, t, l) \/ (l = curPrio[u] /\ t = u)
  BY <1>2, <1>3, <1>5, <1>6, InsertSched, SMTT(30)
<1>8. Home(u)' = {curPrio[u]}
  BY <1>1, <1>2, <1>5 DEF Home
<1>9. ASSUME NEW t \in Task, t # u PROVE \A l \in ListId : InList(sched', t, l) <=> l \in Home(t)'
  <2>1. status'[t] = status[t] /\ msg'[t] = msg[t]
    BY <1>1, <1>5, <1>9
  <2>2. Home(t)' = Place(t, curPrio'[t])
    BY <2>1 DEF Home, Place, Ready
  <2> QED
    BY <1>1, <1>6, <1>7, <1>9, <2>2 DEF InPlace
<1>10. SchedInv'
  BY <1>6, <1>7, <1>8, <1>9 DEF SchedInv, Match
<1>11. status' \in [Task -> Status] /\ msg' \in [Task -> MsgType]
  <2>1. [NoMsg EXCEPT !.notify = "OK"] \in MsgType
    BY DEF NoMsg, MsgType
  <2> QED
    BY <1>1, <1>5, <2>1, Literals
<1>12. /\ timerList' \in Seq(Task) /\ due' \in Seq(Task) /\ left' \in [Task -> Int]
       /\ UNCHANGED firing
  BY <1>2, <1>5, StopTimerType
<1> QED
  BY <1>2, <1>4, <1>5, <1>7, <1>10, <1>11, <1>12

LEMMA ResumeKeeps ==
  ASSUME IType, SchedInv, NEW i \in Ipc, sched.lists[i] # <<>>, Resume(i),
         UNCHANGED curPrio
  PROVE  LET u == Head(sched.lists[i]) IN
         /\ SchedInv'
         /\ u \in Task /\ status[u] = "BLOCKED"
         /\ status' = [status EXCEPT ![u] = "READY"]
         /\ sched' \in SchedType /\ status' \in [Task -> Status]
         /\ msg' \in [Task -> MsgType]
         /\ timerList' \in Seq(Task) /\ due' \in Seq(Task) /\ left' \in [Task -> Int]
         /\ UNCHANGED firing
<1>1. /\ curPrio' = curPrio /\ curPrio \in [Task -> Prio]
      /\ ResumeFrom(sched, i)
  BY DEF Resume, IType, TypeOK
<1>2. ListsAgree(sched, curPrio')
  BY <1>1, SchedAgrees
<1>3. PICK u : u = Head(sched.lists[i])
  OBVIOUS
<1>4. curPrio'[u] = curPrio[u]
  BY <1>1
<1> QED
  BY <1>1, <1>2, <1>3, <1>4, ResumeFromKeeps

LEMMA AllResumedSched ==
  ASSUME IType, SchedInv, NEW q \in Seq(Task), IsInjective(q)
  PROVE  LET r == AllResumed(q) IN
         /\ r \in SchedType
         /\ Covers(sched) /\ (\A u \in Range(q) : mask[u] = curPrio[u]) => Covers(r)
         /\ InjectiveLists(r.lists)
         /\ \A l \in ListId : \A u \in Task :
              InList(r, u, l) <=> IF u \in Range(q) THEN l = curPrio[u]
                                  ELSE InList(sched, u, l)
<1> DEFINE R == Range(q)
           woken(l) == IF l \in Prio THEN Kept(q, {u \in Task : curPrio[u] = l}) ELSE <<>>
           rest(l) == Kept(sched.lists[l], Task \ R)
           G == sched.group \cup {mask[u] : u \in R}
           L == [l \in ListId |-> rest(l) \o woken(l)]
           r == AllResumed(q)
<1>1. /\ sched.lists \in [ListId -> Seq(Task)] /\ sched.group \subseteq Prio
      /\ curPrio \in [Task -> Prio] /\ mask \in [Task -> Prio] /\ Prio \subseteq ListId
      /\ InjectiveLists(sched.lists)
  BY ConstantFacts DEF IType, TypeOK, SchedType, SchedInv
<1>2. \A u \in R : u \in Task
  BY ElementOfSeq, LenProperties DEF Range
<1>3. r = [lists |-> L, group |-> G]
  BY DEF AllResumed
<1>4. ASSUME NEW l \in ListId
      PROVE  /\ rest(l) \in Seq(Task) /\ IsInjective(rest(l))
             /\ \A u : u \in Range(rest(l)) <=> u \in Range(sched.lists[l]) /\ u \in Task \ R
  <2>1. sched.lists[l] \in Seq(Task) /\ IsInjective(sched.lists[l])
    BY <1>1 DEF InjectiveLists
  <2> QED
    BY <2>1, KeptProperties
<1>5. ASSUME NEW l \in ListId
      PROVE  /\ woken(l) \in Seq(Task) /\ IsInjective(woken(l))
             /\ \A u \in Task : u \in Range(woken(l)) <=> u \in R /\ l = curPrio[u]
             /\ \A u : u \in Range(woken(l)) => u \in R /\ l \in Prio
  <2>1. CASE l \in Prio
    <3>1. /\ woken(l) \in Seq(Task) /\ IsInjective(woken(l))
          /\ \A u : u \in Range(woken(l)) <=> u \in R /\ u \in {v \in Task : curPrio[v] = l}
      BY <2>1, KeptProperties
    <3> QED
      BY <2>1, <3>1
  <2>2. CASE l \notin Prio
    <3>1. woken(l) = <<>> /\ Range(<<>>) = {} /\ IsInjective(<<>>) /\ <<>> \in Seq(Task)
      BY <2>2, EmptySeq DEF Range, IsInjective
    <3> HIDE DEF woken
    <3> QED
      BY <2>2, <3>1, <1>1
  <2> QED
    BY <2>1, <2>2
<1> HIDE DEF rest, woken, R
<1>6. ASSUME NEW l \in ListId
      PROVE  /\ L[l] \in Seq(Task) /\ IsInjective(L[l])
             /\ \A u : u \in Range(L[l]) <=> u \in Range(rest(l)) \/ u \in Range(woken(l))
  <2>1. L[l] = rest(l) \o woken(l)
    OBVIOUS
  <2>2. \A u \in Range(rest(l)) : u \notin Range(woken(l))
    BY <1>4, <1>5
  <2> HIDE DEF L
  <2> QED
    BY <2>1, <2>2, <1>4, <1>5, ConcatRange
<1>7. L \in [ListId -> Seq(Task)] /\ G \subseteq Prio
  BY <1>1, <1>2, <1>6
<1>8. G = sched.group \cup {mask[u] : u \in R}
  OBVIOUS
<1> HIDE DEF L, G, r
<1>9. /\ r.lists = L /\ r.group = G /\ DOMAIN r.lists = ListId
      /\ r \in [lists : [ListId -> Seq(Task)], group : SUBSET Prio]
  BY <1>3, <1>7
<1>10. r \in SchedType
  BY <1>9 DEF SchedType
<1>11. ASSUME Covers(sched), \A u \in R : mask[u] = curPrio[u] PROVE Covers(r)
  <2> SUFFICES ASSUME NEW p \in Prio, r.lists[p] # <<>>, p \notin sched.group
               PROVE  p \in G
    BY <1>8, <1>9 DEF Covers
  <2>1. p \in ListId /\ sched.lists[p] = <<>>
    BY <1>1, <1>11 DEF Covers
  <2>2. PICK u : u \in Range(L[p])
    <3>1. L[p] \in Seq(Task) /\ L[p] # <<>>
      BY <1>6, <1>9, <2>1
    <3>2. 1 \in DOMAIN L[p]
      BY <3>1, LenProperties, EmptySeq
    <3> QED
      BY <3>2 DEF Range
  <2>3. u \notin Range(rest(p))
    <3>1. u \notin Range(<<>>)
      BY DEF Range
    <3> QED
      BY <2>1, <3>1, <1>4
  <2>4. u \in Range(woken(p)) /\ u \in R
    BY <2>1, <2>2, <2>3, <1>5, <1>6
  <2>5. mask[u] = p
    BY <2>1, <2>4, <1>2, <1>5, <1>11
  <2> QED
    BY <2>4, <2>5, <1>8
<1>12. InjectiveLists(r.lists)
  BY <1>6, <1>9 DEF InjectiveLists
<1>13. ASSUME NEW l \in ListId, NEW u \in Task
       PROVE  InList(r, u, l) <=> IF u \in R THEN l = curPrio[u] ELSE InList(sched, u, l)
  BY <1>4, <1>5, <1>6, <1>9 DEF InList
<1> QED
  BY <1>10, <1>11, <1>12, <1>13 DEF r, R

(* Deleting an object readies all its waiters, those of a queue from both  *)
(* its lists.                                                              *)
LEMMA WakeEachKeeps ==
  ASSUME IType, NEW q \in Seq(Task), WakeAll(q),
         \A t \in Range(q) : status[t] = "BLOCKED",
         curPrio' \in [Task -> Prio],
         sched' \in SchedType, InjectiveLists(sched'.lists),
         \A t \in Task, l \in ListId :
           InList(sched', t, l) <=> IF t \in Range(q) THEN l = curPrio'[t]
                                    ELSE l \in Place(t, curPrio'[t])
  PROVE  /\ SchedInv'
         /\ \A t \in Task : \/ status'[t] = status[t]
                            \/ status[t] = "BLOCKED" /\ status'[t] = "READY"
         /\ status' \in [Task -> Status] /\ msg' \in [Task -> MsgType]
         /\ timerList' \in Seq(Task) /\ due' \in Seq(Task) /\ left' \in [Task -> Int]
         /\ UNCHANGED firing
<1> DEFINE R == Range(q)
           m == [NoMsg EXCEPT !.notify = "DELETED"]
<1>1. /\ status \in [Task -> Status] /\ msg \in [Task -> MsgType]
      /\ timerList \in Seq(Task) /\ due \in Seq(Task) /\ left \in [Task -> Int]
  BY DEF IType, TypeOK
<1>2. /\ status' = [t \in Task |-> IF t \in R THEN "READY" ELSE status[t]]
      /\ msg' = [t \in Task |-> IF t \in R THEN m ELSE msg[t]]
      /\ timerList' = Kept(timerList, Task \ R)
      /\ due' = Kept(due, Task \ R)
      /\ left' = [t \in Task |-> IF t \in R THEN 0 ELSE left[t]]
      /\ UNCHANGED firing
  BY DEF WakeAll
<1>3. \A t \in R : status[t] = "BLOCKED"
  OBVIOUS
<1>4. m \in MsgType
  BY DEF NoMsg, MsgType
<1>5. \A t \in Task, l \in ListId :
        InList(sched', t, l) <=> IF t \in R THEN l = curPrio'[t]
                                 ELSE l \in Place(t, curPrio'[t])
  OBVIOUS
<1> HIDE DEF m, R
<1>6. ASSUME NEW t \in Task, NEW l \in ListId PROVE InList(sched', t, l) <=> l \in Home(t)'
  <2>1. CASE t \in R
    <3>1. Home(t)' = {curPrio'[t]}
      BY <1>2, <2>1 DEF Home
    <3> QED
      BY <2>1, <3>1, <1>5
  <2>2. CASE t \notin R
    <3>1. Home(t)' = Place(t, curPrio'[t])
      BY <1>2, <2>2 DEF Home, Place, Ready
    <3> QED
      BY <2>2, <3>1, <1>5
  <2> QED
    BY <2>1, <2>2
<1>7. SchedInv'
  BY <1>6 DEF SchedInv, Match
<1>8. status' \in [Task -> Status] /\ msg' \in [Task -> MsgType] /\ left' \in [Task -> Int]
  BY <1>1, <1>2, <1>4, Literals
<1>9. timerList' \in Seq(Task) /\ due' \in Seq(Task)
  BY <1>1, <1>2, KeptProperties
<1> QED
  BY <1>2, <1>3, <1>7, <1>8, <1>9

LEMMA WakeAllKeeps ==
  ASSUME IType, SchedInv, NEW i \in Ipc, WakeAll(sched.lists[i]),
         curPrio' \in [Task -> Prio],
         sched' \in SchedType, InjectiveLists(sched'.lists),
         \A t \in Task, l \in ListId :
           InList(sched', t, l) <=> IF t \in Range(sched.lists[i]) THEN l = curPrio'[t]
                                    ELSE l \in Place(t, curPrio'[t])
  PROVE  /\ SchedInv'
         /\ \A t \in Task : \/ status'[t] = status[t]
                            \/ status[t] = "BLOCKED" /\ status'[t] = "READY"
         /\ status' \in [Task -> Status] /\ msg' \in [Task -> MsgType]
         /\ timerList' \in Seq(Task) /\ due' \in Seq(Task) /\ left' \in [Task -> Int]
         /\ UNCHANGED firing
<1>1. sched \in SchedType /\ i \in ListId
  BY ConstantFacts DEF IType, TypeOK
<1>2. PICK q : q = sched.lists[i]
  OBVIOUS
<1>3. q \in Seq(Task)
  BY <1>1, <1>2 DEF SchedType
<1>4. \A t \in Range(q) : t \in Task
  BY <1>3, ElementOfSeq, LenProperties DEF Range
<1>5. \A t \in Range(q) : status[t] = "BLOCKED"
  BY <1>2, <1>4, WaiterIsBlocked DEF InList
<1>6. /\ WakeAll(q)
      /\ \A t \in Task, l \in ListId :
           InList(sched', t, l) <=> IF t \in Range(q) THEN l = curPrio'[t]
                                    ELSE l \in Place(t, curPrio'[t])
  BY <1>2
<1> QED
  BY <1>3, <1>5, <1>6, WakeEachKeeps

LEMMA ResumeEachKeeps ==
  ASSUME IType, SchedInv, NEW q \in Seq(Task), IsInjective(q),
         \A t \in Range(q) : status[t] = "BLOCKED", ResumeAll(q), UNCHANGED curPrio
  PROVE  /\ SchedInv'
         /\ \A t \in Task : \/ status'[t] = status[t]
                            \/ status[t] = "BLOCKED" /\ status'[t] = "READY"
         /\ sched' \in SchedType /\ status' \in [Task -> Status]
         /\ msg' \in [Task -> MsgType]
         /\ timerList' \in Seq(Task) /\ due' \in Seq(Task) /\ left' \in [Task -> Int]
         /\ UNCHANGED firing
<1>1. /\ sched \in SchedType /\ curPrio' = curPrio /\ curPrio \in [Task -> Prio]
      /\ sched' = AllResumed(q) /\ WakeAll(q)
  BY DEF IType, TypeOK, ResumeAll
<1>2. /\ sched' \in SchedType /\ InjectiveLists(sched'.lists)
      /\ \A l \in ListId : \A t \in Task :
           InList(sched', t, l) <=> IF t \in Range(q) THEN l = curPrio[t]
                                    ELSE InList(sched, t, l)
  BY <1>1, AllResumedSched
<1>3. \A t \in Task, l \in ListId : InList(sched, t, l) <=> l \in Place(t, curPrio[t])
  BY SchedAgrees DEF ListsAgree, InPlace
<1> QED
  BY <1>1, <1>2, <1>3, WakeEachKeeps

LEMMA ResumeAllKeeps ==
  ASSUME IType, SchedInv, NEW i \in Ipc, ResumeAll(sched.lists[i]), UNCHANGED curPrio
  PROVE  /\ SchedInv'
         /\ \A t \in Task : \/ status'[t] = status[t]
                            \/ status[t] = "BLOCKED" /\ status'[t] = "READY"
         /\ sched' \in SchedType /\ status' \in [Task -> Status]
         /\ msg' \in [Task -> MsgType]
         /\ timerList' \in Seq(Task) /\ due' \in Seq(Task) /\ left' \in [Task -> Int]
         /\ UNCHANGED firing
<1>1. sched \in SchedType /\ i \in ListId
  BY ConstantFacts DEF IType, TypeOK
<1>2. PICK q \in Seq(Task) : q = sched.lists[i] /\ IsInjective(q)
  BY <1>1, ConstantFacts DEF SchedType, SchedInv, InjectiveLists
<1>3. \A t \in Range(q) : t \in Task
  BY ElementOfSeq, LenProperties DEF Range
<1>4. \A t \in Range(q) : status[t] = "BLOCKED"
  BY <1>2, <1>3, WaiterIsBlocked DEF InList
<1>5. ResumeAll(q)
  BY <1>2
<1> QED
  BY <1>2, <1>4, <1>5, ResumeEachKeeps

(* The bitmap still covers the queues if the priority and the mask of the  *)
(* tasks that come or go agree.                                            *)
LEMMA ResumeFromCovers ==
  ASSUME NEW s \in SchedType, Covers(s), NEW i, ResumeFrom(s, i),
         NEW u \in Task, u = Head(s.lists[i]), curPrio[u] \in Prio, mask[u] = curPrio[u]
  PROVE  Covers(sched')
<1>1. PICK x : x = [s EXCEPT !.lists = Unlink(@, u)]
  OBVIOUS
<1>2. x \in SchedType /\ Covers(x)
  BY <1>1, UnlinkSched
<1>3. sched' = SchedInsert(x, u, curPrio[u], mask[u])
  BY <1>1 DEF ResumeFrom
<1> QED
  BY <1>2, <1>3, InsertSched

-----------------------------------------------------------------------------
(* No step of the kernel makes a task wait at an IPC object.               *)

Waits(t, i) == status[t] = "BLOCKED" /\ msg[t].reason = "IPC" /\ msg[t].source = i

LEMMA InBlockedList ==
  ASSUME IType, Match, NEW t \in Task, NEW i \in Ipc
  PROVE  InList(sched, t, i) <=> Waits(t, i)
<1>1. i \in ListId /\ i \notin Prio /\ i # Defunct
  BY ConstantFacts, ListAssumption
<1>2. curPrio[t] \in Prio /\ (InList(sched, t, i) <=> i \in Home(t))
  BY <1>1 DEF IType, TypeOK, Match
<1> QED
  BY <1>1, <1>2 DEF Home, Waits

LEMMA KernelBlocksNobody ==
  ASSUME Inv, [Next]_vars, NEW t \in Task, NEW i \in Ipc, Waits(t, i)'
  PROVE  Waits(t, i)
<1>1. status'[t] = "BLOCKED" /\ msg'[t].reason = "IPC" /\ msg'[t].source = i
  BY DEF Waits
<1>2. [NoMsg EXCEPT !.reason = "SLEEP"].reason = "SLEEP"
  BY DEF NoMsg
<1> QED
  BY <1>1, <1>2, BlockedBySleep DEF Waits

(* A blocked list that is empty before a step of the kernel is empty after *)
(* it.                                                                     *)
LEMMA KernelKeepsEmpty ==
  ASSUME Inv, Inv', [Next]_vars, NEW i \in Ipc, sched.lists[i] = <<>>
  PROVE  sched'.lists[i] = <<>>
<1>1. i \in ListId /\ sched' \in SchedType
  BY ConstantFacts DEF Inv, IType, TypeOK
<1>2. sched'.lists[i] \in Seq(Task)
  BY <1>1 DEF SchedType
<1> SUFFICES ASSUME sched'.lists[i] # <<>> PROVE FALSE
  OBVIOUS
<1>3. PICK t \in Task : t \in Range(sched'.lists[i])
  <2>1. 1 \in DOMAIN sched'.lists[i] /\ sched'.lists[i][1] \in Task
    BY <1>2, LenProperties, EmptySeq, ElementOfSeq
  <2> QED
    BY <2>1 DEF Range
<1>4. Waits(t, i)'
  <2>1. i \in Home(t)' /\ curPrio'[t] \in Prio
    BY <1>1, <1>3 DEF Inv, SchedInv, Match, InList, IType, TypeOK
  <2>2. i \notin Prio /\ i # Defunct
    BY ListAssumption
  <2>3. status'[t] = "BLOCKED" /\ msg'[t].reason = "IPC" /\ msg'[t].source = i
    BY <2>1, <2>2 DEF Home
  <2> QED
    BY <2>3 DEF Waits
<1>5. InList(sched, t, i)
  BY <1>4, KernelBlocksNobody, InBlockedList DEF Inv, SchedInv
<1> QED
  BY <1>5 DEF InList, Range

-----------------------------------------------------------------------------
(* The invariant of the kernel after a step of an IPC function *)

(* A step of t that keeps the kernel's lists and types keeps its invariant.*)
LEMMA TaskStepKeepsInv ==
  ASSUME Inv, NEW t \in User, Executes(t), pc[t] = "app", SchedInv',
         sched' \in SchedType, status' \in [Task -> Status], msg' \in [Task -> MsgType],
         curPrio' \in [Task -> Prio], mask' \in [Task -> Prio], holds' \in [Task -> Nat],
         timerList' \in Seq(Task), due' \in Seq(Task), left' \in [Task -> Int],
         NEW label \in {"app", "switch"}, Goto(t, label),
         \A u \in Task : status'[u] = "RUNNING" => status[u] = "RUNNING",
         label = "app" => status'[t] = status[t],
         UNCHANGED <<current, initPrio, slice, tick, firing, arg, idleDone, fault>>
  PROVE  Inv'
<1>1. IType /\ RunInv /\ pc \in [Task -> Label] /\ t \in Task
  BY ConstantFacts DEF Inv, IType, TypeOK
<1>2. /\ pc' = [pc EXCEPT ![t] = label] /\ label \in Label
      /\ pc' \in [Task -> Label]
      /\ pc'[t] = label
      /\ \A u \in Task : pc'[u] = "start" => pc[u] = "start"
  BY <1>1, Literals DEF Goto
<1>3. TypeOK'
  BY <1>1, <1>2 DEF IType, TypeOK
<1>4. IType'
  BY <1>1, <1>2, <1>3 DEF IType
<1>5. RunInv'
  BY <1>1, <1>2, RunInvFrame
<1> QED
  BY <1>4, <1>5 DEF Inv

(* In particular one that changes no priority and no count of mutexes.     *)
LEMMA TaskKeepsInv ==
  ASSUME Inv, NEW t \in User, Executes(t), pc[t] = "app", SchedInv',
         sched' \in SchedType, status' \in [Task -> Status], msg' \in [Task -> MsgType],
         timerList' \in Seq(Task), due' \in Seq(Task), left' \in [Task -> Int],
         NEW label \in {"app", "switch"}, Goto(t, label),
         \A u \in Task : status'[u] = "RUNNING" => status[u] = "RUNNING",
         label = "app" => status'[t] = status[t],
         UNCHANGED <<current, initPrio, curPrio, mask, slice, holds, tick, firing,
                     arg, idleDone, fault>>
  PROVE  Inv'
<1>1. /\ curPrio' \in [Task -> Prio] /\ mask' \in [Task -> Prio]
      /\ holds' \in [Task -> Nat]
  BY DEF Inv, IType, TypeOK
<1> QED
  BY <1>1, TaskStepKeepsInv

LEMMA FrameKeepsInv == Inv /\ UNCHANGED vars => Inv'
BY InvStep DEF vars

LEMMA KernelStepIsNext == KernelStep => Next
BY DEF KernelStep, Next

LEMMA CallerReady ==
  ASSUME Inv, NEW t \in User, NEW at, In(t, at)
  PROVE  /\ t \in Task /\ Ready(t) /\ call[t] = at
         /\ Executes(t) /\ pc[t] = "app" /\ current = t /\ tick = "off"
BY ConstantFacts DEF In, Executes, Inv, RunInv

(* A task resumes the first waiter of an object, or waits itself.          *)
LEMMA TaskResumes ==
  ASSUME Inv, NEW t \in User, NEW at, In(t, at), NEW i \in Ipc,
         sched.lists[i] # <<>>, Resume(i),
         NEW label \in {"app", "switch"}, Goto(t, label),
         UNCHANGED <<current, initPrio, curPrio, mask, slice, holds, tick, arg,
                     idleDone, fault>>
  PROVE  Inv'
<1> DEFINE u == Head(sched.lists[i])
<1>1. IType /\ SchedInv /\ status \in [Task -> Status] /\ UNCHANGED curPrio
  BY DEF Inv, IType, TypeOK
<1>2. /\ SchedInv'
      /\ u \in Task /\ status[u] = "BLOCKED"
      /\ status' = [status EXCEPT ![u] = "READY"]
      /\ sched' \in SchedType /\ status' \in [Task -> Status]
      /\ msg' \in [Task -> MsgType]
      /\ timerList' \in Seq(Task) /\ due' \in Seq(Task) /\ left' \in [Task -> Int]
      /\ UNCHANGED firing
  BY <1>1, ResumeKeeps
<1> HIDE DEF u
<1>3. Executes(t) /\ pc[t] = "app" /\ Ready(t) /\ t \in Task
  BY CallerReady
<1>4. /\ \A v \in Task : status'[v] = "RUNNING" => status[v] = "RUNNING"
      /\ status'[t] = status[t]
  BY <1>1, <1>2, <1>3 DEF Ready
<1> QED
  BY <1>1, <1>2, <1>3, <1>4, TaskKeepsInv

LEMMA TaskBlocks ==
  ASSUME Inv, NEW t \in User, NEW at, In(t, at), NEW i \in Ipc,
         NEW n, n # Forever => n \in Int, Block(i, t, n), Goto(t, "switch")
  PROVE  Inv'
<1>1. /\ IType /\ SchedInv /\ status \in [Task -> Status]
      /\ Executes(t) /\ pc[t] = "app" /\ t \in Task
  BY CallerReady DEF Inv, IType, TypeOK
<1>2. /\ SchedInv'
      /\ sched' \in SchedType /\ status' \in [Task -> Status]
      /\ msg' \in [Task -> MsgType]
      /\ timerList' \in Seq(Task) /\ due' \in Seq(Task) /\ left' \in [Task -> Int]
      /\ UNCHANGED firing
  BY <1>1, BlockKeeps
<1>3. /\ status' = [status EXCEPT ![t] = "BLOCKED"]
      /\ UNCHANGED <<current, initPrio, curPrio, mask, slice, holds, tick, arg,
                     idleDone, fault>>
  BY DEF Block, BlockFrom
<1>4. \A u \in Task : status'[u] = "RUNNING" => status[u] = "RUNNING"
  BY <1>1, <1>3
<1> QED
  BY <1>1, <1>2, <1>3, <1>4, TaskKeepsInv

(* An interrupt handler resumes the first waiter of an object, and takes   *)
(* the switch that asks for.                                               *)
LEMMA HandlerResumes ==
  ASSUME Inv, NEW i \in Ipc, sched.lists[i] # <<>>, Resume(i),
         UNCHANGED <<current, initPrio, curPrio, mask, slice, holds, tick, pc, arg,
                     idleDone, fault>>
  PROVE  Inv'
<1> DEFINE u == Head(sched.lists[i])
<1>1. /\ IType /\ SchedInv /\ RunInv /\ OnlyCurrentRuns /\ UNCHANGED curPrio
      /\ status \in [Task -> Status]
  BY DEF Inv, RunInv, IType, TypeOK
<1>2. /\ SchedInv'
      /\ u \in Task /\ status[u] = "BLOCKED"
      /\ status' = [status EXCEPT ![u] = "READY"]
      /\ sched' \in SchedType /\ status' \in [Task -> Status]
      /\ msg' \in [Task -> MsgType]
      /\ timerList' \in Seq(Task) /\ due' \in Seq(Task) /\ left' \in [Task -> Int]
      /\ UNCHANGED firing
  BY <1>1, ResumeKeeps
<1> HIDE DEF u
<1>3. IType'
  BY <1>1, <1>2 DEF IType, TypeOK
<1>4. RunInv'
  BY <1>1, <1>2 DEF RunInv, OnlyCurrentRuns, Ready, IType, TypeOK
<1> QED
  BY <1>2, <1>3, <1>4 DEF Inv

LEMMA HandlerSwitches ==
  ASSUME Inv, tick = "off", current \in Task, IsrSwitch
  PROVE  Inv'
<1>1. /\ IType /\ SchedInv /\ RunInv /\ OnlyCurrentRuns
      /\ status \in [Task -> Status] /\ curPrio \in [Task -> Prio] /\ NoTask \notin Task
  BY ConstantFacts DEF Inv, RunInv, IType, TypeOK
<1>2. UNCHANGED prioIpc
  BY DEF IsrSwitch
<1>3. CASE /\ Dispatch
           /\ UNCHANGED <<sched, initPrio, curPrio, mask, slice, holds, msg,
                          timerVars, tick, pc, arg, idleDone, fault>>
  <2>1. UNCHANGED <<sched, curPrio, msg>>
    BY <1>3
  <2>2. SchedInv' /\ OnlyCurrentRuns' /\ status'[current'] \in {"READY", "RUNNING"}
    BY <1>1, <1>3, <2>1, DispatchKeepsLists
  <2>3. current' \in Task /\ status' \in [Task -> Status]
    BY <1>1, <1>3, DispatchType
  <2>4. IType'
    BY <1>1, <1>3, <2>3 DEF IType, TypeOK, timerVars
  <2>5. RunInv'
    BY <1>3, <2>2 DEF RunInv, Ready
  <2> QED
    BY <2>2, <2>4, <2>5 DEF Inv
<1>4. CASE Misdispatch
  <2>1. /\ UNCHANGED <<sched, current, taskVars, timerVars, tick, pc, arg, idleDone>>
        /\ fault' \in Fault
    BY <1>4, Literals DEF Misdispatch, Crash
  <2> QED
    BY <1>1, <1>2, <2>1
    DEF Inv, IType, TypeOK, SchedInv, Match, Home, RunInv, OnlyCurrentRuns, Ready,
        taskVars, timerVars
<1> QED
  BY <1>3, <1>4 DEF IsrSwitch

-----------------------------------------------------------------------------
(* What a step does to the waits of the tasks *)

(* A step leaves the waits of t, and what it was told, as they are.        *)
Undisturbed(t) ==
  msg'[t] = msg[t] /\ (status'[t] = "BLOCKED" <=> status[t] = "BLOCKED")

(* A task in the middle of an IPC function is told something only while it *)
(* waits.                                                                  *)
Told(t) ==
  \/ msg'[t] = msg[t] /\ (status'[t] = "BLOCKED" => status[t] = "BLOCKED")
  \/ status[t] = "BLOCKED" /\ status'[t] = "READY"
  \/ status'[t] = "INIT"
  \/ call[t] = "none" /\ status'[t] # "INIT"

(* A step of the kernel concerns the wait of one task at most.             *)
LEMMA KernelDisturbsOne ==
  ASSUME Inv, KernelStep
  PROVE  /\ \E u \in Task : \A t \in Task \ {u} : Undisturbed(t)
         /\ \A t \in Task : Told(t)
<1> DEFINE Goal == /\ \E u \in Task : \A t \in Task \ {u} : Undisturbed(t)
                   /\ \A t \in Task : Told(t)
<1>a. /\ IType /\ SchedInv /\ status \in [Task -> Status] /\ msg \in [Task -> MsgType]
      /\ User \subseteq Task /\ NoTask \notin Task /\ Idle \in Task
  BY ConstantFacts DEF Inv, IType, TypeOK
<1>b. ASSUME NEW u \in Task, \A t \in Task \ {u} : Undisturbed(t), Told(u) PROVE Goal
  <2>1. \A t \in Task \ {u} : Told(t)
    BY <1>b DEF Undisturbed, Told
  <2> QED
    BY <1>b, <2>1
<1>c. ASSUME \A t \in Task : Undisturbed(t) PROVE Goal
  BY <1>a, <1>c DEF Undisturbed, Told
<1> HIDE DEF Goal
<1>d. ASSUME NEW u \in Task, NEW s \in Status, s # "BLOCKED",
             status' = [status EXCEPT ![u] = s], UNCHANGED msg
      PROVE  Goal
  BY <1>a, <1>b, <1>d DEF Undisturbed, Told
<1>1. ASSUME NEW u \in Task, StartEffect(u) PROVE Goal
  BY <1>1, <1>d, Literals DEF StartEffect
<1>2. ASSUME UNCHANGED <<status, msg>> PROVE Goal
  BY <1>2, <1>c DEF Undisturbed
<1>3. ASSUME NEW u \in Task, DeleteEffect(u) PROVE Goal
  BY <1>3, <1>d, Literals DEF DeleteEffect
<1>4. ASSUME Dispatch, current \in Task, UNCHANGED msg PROVE Goal
  <2>1. \A t \in Task : status'[t] = "BLOCKED" <=> status[t] = "BLOCKED"
    BY <1>4, DispatchTransition DEF Inv
  <2> QED
    BY <1>4, <1>c, <2>1 DEF Undisturbed
<1>5. ASSUME KernelStart PROVE Goal
  <2>1. current' \in Task /\ Ready(current')
    <3>1. sched \in SchedType /\ CanDispatch(sched)
          /\ current' = Chosen(sched)
      BY <1>5, <1>a DEF KernelStart, SchedInv, IType, TypeOK
    <3> QED
      BY <1>a, <3>1, ChosenIsReady DEF Inv
  <2>2. status' = [status EXCEPT ![current'] = "RUNNING"] /\ UNCHANGED msg
    BY <1>5 DEF KernelStart
  <2> QED
    BY <2>1, <2>2, <1>d, Literals
<1>6. ASSUME NEW u \in User, NEW n \in 1 .. MaxSleep, Sleep(u, n),
             pc[u] = "app" => call[u] = "none"
      PROVE  Goal
  <2>1. /\ status' = [status EXCEPT ![u] = "BLOCKED"]
        /\ msg' = [msg EXCEPT ![u] = [NoMsg EXCEPT !.reason = "SLEEP"]]
        /\ call[u] = "none" /\ u \in Task
    BY <1>6, <1>a DEF Sleep, MayCall
  <2>2. \A t \in Task \ {u} : Undisturbed(t)
    BY <1>a, <2>1 DEF Undisturbed
  <2>3. Told(u)
    BY <1>a, <2>1 DEF Told
  <2> QED
    BY <1>b, <2>1, <2>2, <2>3
<1>7. ASSUME NEW u \in User, NEW v \in User, Suspend(u, v) PROVE Goal
  BY <1>7, <1>a, <1>d, Literals DEF Suspend
<1>8. ASSUME NEW u \in User, NEW v \in User, Create(u, v) PROVE Goal
  <2>1. /\ status' = [status EXCEPT ![v] = "INIT"]
        /\ msg' = [msg EXCEPT ![v] = NoMsg] /\ v \in Task
    BY <1>8, <1>a DEF Create
  <2>2. \A t \in Task \ {v} : Undisturbed(t)
    BY <1>a, <2>1 DEF Undisturbed
  <2>3. Told(v)
    BY <1>a, <2>1 DEF Told
  <2> QED
    BY <1>b, <2>1, <2>2, <2>3
<1>9. ASSUME CleanupDefunct PROVE Goal
  <2>1. \A t \in Task : t \in Range(sched.lists[Defunct]) => status[t] = "TERMINATED"
    BY <1>a, InDefunctList DEF InList, SchedInv
  <2>2. UNCHANGED msg /\ \A t \in Task : status'[t] =
          IF t \in Range(sched.lists[Defunct]) THEN "DELETED" ELSE status[t]
    BY <1>9 DEF CleanupDefunct
  <2> QED
    BY <1>c, <2>1, <2>2 DEF Undisturbed
<1>10. ASSUME TickTimeout PROVE Goal
  <2>1. CASE status[firing] = "BLOCKED"
    <3>1. /\ status' = [status EXCEPT ![firing] = "READY"]
          /\ msg' = [msg EXCEPT ![firing] = [NoMsg EXCEPT !.notify = "TIMEOUT"]]
      BY <1>10, <2>1 DEF TickTimeout
    <3>2. \A t \in Task \ {firing} : Undisturbed(t)
      BY <1>a, <3>1 DEF Undisturbed
    <3>3. CASE firing \in Task
      <4>1. Told(firing)
        BY <1>a, <2>1, <3>1, <3>3 DEF Told
      <4> QED
        BY <1>b, <3>2, <3>3, <4>1
    <3>4. CASE firing \notin Task
      BY <1>c, <3>2, <3>4
    <3> QED
      BY <3>3, <3>4
  <2>2. CASE status[firing] # "BLOCKED"
    BY <1>10, <2>2, <1>2 DEF TickTimeout
  <2> QED
    BY <2>1, <2>2
<1>11. ASSUME NEW u \in User, TaskStep(u), pc[u] = "app" => call[u] = "none" PROVE Goal
  <2>1. ASSUME StartCommit(u) PROVE Goal
    <3>1. arg[u] \in Task
      BY <2>1, <1>a DEF StartCommit, IType
    <3> QED
      BY <2>1, <3>1, <1>1 DEF StartCommit
  <2>2. ASSUME TaskSwitch(u) PROVE Goal
    BY <2>2, <1>4, <1>a DEF TaskSwitch, Executes
  <2>3. ASSUME Exit(u) PROVE Goal
    BY <2>3, <1>3, <1>a DEF Exit
  <2>4. ASSUME NEW v \in User, Delete(u, v) PROVE Goal
    BY <2>4, <1>3, <1>a DEF Delete
  <2>5. ASSUME StartRelinks(u) \/ TaskMisdispatch(u) PROVE Goal
    BY <2>5, <1>2 DEF StartRelinks, TaskMisdispatch, Misdispatch, Crash, taskVars
  <2>6. ASSUME SleepZero(u) \/ Yield(u) PROVE Goal
    BY <2>6, <1>2 DEF SleepZero, Yield, taskVars
  <2>7. ASSUME NEW v \in User, StartCheck(u, v) PROVE Goal
    BY <2>7, <1>2 DEF StartCheck, taskVars
  <2>8. ASSUME NEW v \in User, NEW p \in Prio, SetPriority(u, v, p) PROVE Goal
    BY <2>8, <1>2 DEF SetPriority
  <2> QED
    BY <1>11, <1>6, <1>7, <1>8, <2>1, <2>2, <2>3, <2>4, <2>5, <2>6, <2>7, <2>8
    DEF TaskStep
<1>12. ASSUME TickStep PROVE Goal
  <2>1. ASSUME TickSwitch PROVE Goal
    BY <2>1, <1>4, <1>a DEF TickSwitch, IType
  <2>2. ASSUME TickBegin \/ TickYield \/ TickMisdispatch PROVE Goal
    BY <2>2, <1>2 DEF TickBegin, TickYield, TickMisdispatch, Misdispatch, Crash, taskVars
  <2>3. ASSUME TickCheck \/ TickPop \/ TickEnd PROVE Goal
    BY <2>3, <1>2 DEF TickCheck, TickPop, TickEnd, taskVars
  <2> QED
    BY <1>10, <1>12, <2>1, <2>2, <2>3 DEF TickStep
<1>13. ASSUME NEW u \in User, MainStart(u) PROVE Goal
  BY <1>13, <1>1, <1>a DEF MainStart
<1>14. ASSUME Halted PROVE Goal
  BY <1>14, <1>2 DEF Halted, vars, taskVars
<1> QED
  BY <1>5, <1>9, <1>11, <1>12, <1>13, <1>14 DEF KernelStep, Goal

(* No step of the kernel gives a task what it waits for: a timeout and a   *)
(* task's own sleep change its message, nothing else does.                 *)
LEMMA KernelServesNobody ==
  ASSUME Inv, KernelStep, NEW t \in Task, msg'[t].notify = "OK"
  PROVE  msg'[t] = msg[t] /\ (status'[t] = "INIT" => status[t] = "INIT")
<1>1. status \in [Task -> Status] /\ msg \in [Task -> MsgType] /\ IType
  BY DEF Inv, IType, TypeOK
<1>2. /\ NoMsg.notify = "NONE"
      /\ [NoMsg EXCEPT !.reason = "SLEEP"].notify = "NONE"
      /\ [NoMsg EXCEPT !.notify = "TIMEOUT"].notify = "TIMEOUT"
  BY DEF NoMsg
<1> DEFINE Goal == msg'[t] = msg[t] /\ (status'[t] = "INIT" => status[t] = "INIT")
<1> SUFFICES Goal
  OBVIOUS
<1>3. ASSUME UNCHANGED <<status, msg>> PROVE Goal
  BY <1>3
<1>4. ASSUME NEW u, NEW s, s # "INIT", status' = [status EXCEPT ![u] = s], UNCHANGED msg
      PROVE  Goal
  BY <1>1, <1>4
<1>5. ASSUME Dispatch, UNCHANGED msg, current \in Task PROVE Goal
  <2>1. \/ status'[t] = status[t]
        \/ {status[t], status'[t]} \subseteq {"READY", "RUNNING"}
    BY <1>5, DispatchTransition DEF Inv
  <2> QED
    BY <1>5, <2>1
<1> HIDE DEF Goal
<1>6. ASSUME NEW u \in User, NEW v \in User, Create(u, v) PROVE Goal
  <2>1. status' = [status EXCEPT ![v] = "INIT"] /\ msg' = [msg EXCEPT ![v] = NoMsg]
    BY <1>6 DEF Create
  <2>2. t # v
    BY <1>1, <1>2, <2>1
  <2> QED
    BY <1>1, <2>1, <2>2 DEF Goal
<1>7. ASSUME NEW u \in User, NEW n \in 1 .. MaxSleep, Sleep(u, n) PROVE Goal
  <2>1. /\ status' = [status EXCEPT ![u] = "BLOCKED"]
        /\ msg' = [msg EXCEPT ![u] = [NoMsg EXCEPT !.reason = "SLEEP"]]
    BY <1>7 DEF Sleep
  <2>2. t # u
    BY <1>1, <1>2, <2>1
  <2> QED
    BY <1>1, <2>1, <2>2 DEF Goal
<1>8. ASSUME TickTimeout PROVE Goal
  <2>1. CASE status[firing] = "BLOCKED"
    <3>1. /\ status' = [status EXCEPT ![firing] = "READY"]
          /\ msg' = [msg EXCEPT ![firing] = [NoMsg EXCEPT !.notify = "TIMEOUT"]]
      BY <1>8, <2>1 DEF TickTimeout
    <3>2. t # firing
      BY <1>1, <1>2, <3>1
    <3> QED
      BY <1>1, <3>1, <3>2 DEF Goal
  <2>2. CASE status[firing] # "BLOCKED"
    BY <1>8, <2>2, <1>3 DEF TickTimeout
  <2> QED
    BY <2>1, <2>2
<1>9. ASSUME NEW u \in User, TaskStep(u) PROVE Goal
  <2>1. ASSUME StartCommit(u) PROVE Goal
    BY <2>1, <1>4 DEF StartCommit, StartEffect
  <2>2. ASSUME TaskSwitch(u) PROVE Goal
    BY <2>2, <1>5, ConstantFacts DEF TaskSwitch, Executes
  <2>3. ASSUME NEW v \in User, DeleteEffect(v) PROVE Goal
    BY <2>3, <1>4 DEF DeleteEffect
  <2>4. ASSUME StartRelinks(u) \/ TaskMisdispatch(u) PROVE Goal
    BY <2>4, <1>3 DEF StartRelinks, TaskMisdispatch, Misdispatch, Crash, taskVars
  <2>5. ASSUME SleepZero(u) \/ Yield(u) PROVE Goal
    BY <2>5, <1>3 DEF SleepZero, Yield, taskVars
  <2>6. ASSUME NEW v \in User, StartCheck(u, v) PROVE Goal
    BY <2>6, <1>3 DEF StartCheck, taskVars
  <2>7. ASSUME NEW v \in User, NEW p \in Prio, SetPriority(u, v, p) PROVE Goal
    BY <2>7, <1>3 DEF SetPriority
  <2>8. ASSUME NEW v \in User, Suspend(u, v) PROVE Goal
    BY <2>8, <1>4 DEF Suspend
  <2> QED
    BY <1>6, <1>7, <1>9, <2>1, <2>2, <2>3, <2>4, <2>5, <2>6, <2>7, <2>8
    DEF TaskStep, Exit, Delete
<1>10. ASSUME TickStep PROVE Goal
  <2>1. ASSUME TickSwitch PROVE Goal
    BY <2>1, <1>1, <1>5 DEF TickSwitch, IType
  <2>2. ASSUME TickBegin \/ TickYield \/ TickMisdispatch PROVE Goal
    BY <2>2, <1>3 DEF TickBegin, TickYield, TickMisdispatch, Misdispatch, Crash, taskVars
  <2>3. ASSUME TickCheck \/ TickPop \/ TickEnd PROVE Goal
    BY <2>3, <1>3 DEF TickCheck, TickPop, TickEnd, taskVars
  <2> QED
    BY <1>8, <1>10, <2>1, <2>2, <2>3 DEF TickStep
<1>11. ASSUME NEW u \in User, MainStart(u) PROVE Goal
  BY <1>11, <1>4 DEF MainStart, StartEffect
<1>12. ASSUME KernelStart PROVE Goal
  BY <1>12, <1>4 DEF KernelStart
<1>13. ASSUME CleanupDefunct PROVE Goal
  BY <1>13, <1>1 DEF CleanupDefunct, Goal
<1>14. ASSUME Halted PROVE Goal
  BY <1>14, <1>3 DEF Halted, vars, taskVars
<1> QED
  BY <1>9, <1>10, <1>11, <1>12, <1>13, <1>14 DEF KernelStep

(* The nodes in the blocked list of object i are the tasks that wait there.*)
LEMMA WaitersAre ==
  ASSUME Inv, Inv', NEW i \in Ipc
  PROVE  \A t : /\ t \in Range(sched.lists[i]) <=> t \in Task /\ Waits(t, i)
                /\ t \in Range(sched'.lists[i]) <=> t \in Task /\ Waits(t, i)'
<1>1. /\ i \in ListId /\ i \notin Prio /\ i # Defunct
      /\ IType /\ Match /\ curPrio' \in [Task -> Prio]
      /\ sched \in SchedType /\ sched' \in SchedType
  BY ConstantFacts, ListAssumption DEF Inv, SchedInv, IType, TypeOK
<1>2. sched.lists[i] \in Seq(Task) /\ sched'.lists[i] \in Seq(Task)
  BY <1>1 DEF SchedType
<1>3. \A t : /\ t \in Range(sched.lists[i]) => t \in Task
             /\ t \in Range(sched'.lists[i]) => t \in Task
  BY <1>2, ElementOfSeq, LenProperties DEF Range
<1>4. ASSUME NEW t \in Task PROVE t \in Range(sched.lists[i]) <=> Waits(t, i)
  BY <1>1, InBlockedList DEF InList
<1>5. ASSUME NEW t \in Task PROVE t \in Range(sched'.lists[i]) <=> Waits(t, i)'
  <2>1. t \in Range(sched'.lists[i]) <=> i \in Home(t)'
    BY <1>1 DEF Inv, SchedInv, Match, InList
  <2>2. curPrio'[t] \in Prio
    BY <1>1
  <2> QED
    BY <1>1, <2>1, <2>2 DEF Home, Waits
<1> QED
  BY <1>3, <1>4, <1>5

LEMMA FirstWaits ==
  ASSUME Inv, NEW i \in Ipc, sched.lists[i] # <<>>
  PROVE  Head(sched.lists[i]) \in Task /\ Waits(Head(sched.lists[i]), i)
<1>1. sched \in SchedType /\ IType /\ Match
  BY DEF Inv, IType, TypeOK, SchedInv
<1>2. PICK u : u = Head(sched.lists[i])
  OBVIOUS
<1>3. u \in Task /\ InList(sched, u, i)
  BY <1>1, <1>2, FirstOfList
<1> QED
  BY <1>1, <1>2, <1>3, InBlockedList

-----------------------------------------------------------------------------
(* Blocked lists with YR_IPC_FLAG_PRIO stay in priority order.             *)

LEMMA InOrderFrame ==
  ASSUME NEW q, NEW d, NEW e, InOrder(q, d), \A t \in Range(q) : e[t] = d[t]
  PROVE  InOrder(q, e)
<1>1. \A j \in DOMAIN q : e[q[j]] = d[q[j]]
  BY DEF Range
<1> QED
  BY <1>1 DEF InOrder

LEMMA EmptyInOrder ==
  ASSUME NEW d
  PROVE  InOrder(<<>>, d)
BY DEF InOrder

(* A waiter is taken out and the others keep their priority.               *)
LEMMA WithoutStaysInOrder ==
  ASSUME NEW q \in Seq(Task), NEW u, NEW d, NEW e, InOrder(q, d), IsInjective(q),
         \A t \in Range(q) : t # u => e[t] = d[t]
  PROVE  InOrder(Without(q, u), e)
<1>1. PICK r : r = Without(q, u)
  OBVIOUS
<1>2. InOrder(r, d)
  BY <1>1, WithoutInOrder
<1>3. \A t \in Range(r) : t \in Range(q) /\ t # u
  BY <1>1, WithoutProperties
<1> QED
  BY <1>1, <1>2, <1>3, InOrderFrame

LEMMA InsertByPriorityInOrder ==
  ASSUME NEW q \in Seq(Task), NEW t \in Task, NEW d \in [Task -> Prio], InOrder(q, d)
  PROVE  InOrder(InsertByPriority(q, t, d), d)
<1> DEFINE places == {j \in DOMAIN q : d[t] < d[q[j]]}
           later  == {j \in DOMAIN q : d[q[j]] > d[t]}
<1>1. d \in [Task -> Int]
  <2>1. \A p \in Prio : p \in Int
    BY DEF Prio
  <2> QED
    BY <2>1
<1>2. \A j \in DOMAIN q : d[q[j]] \in Int
  <2>1. \A j \in DOMAIN q : q[j] \in Task
    BY LenProperties, ElementOfSeq
  <2> QED
    BY <1>1, <2>1
<1>3. places = later
  BY <1>1, <1>2
<1>4. InsertByPriority(q, t, d) = InsertBefore(q, t, later)
  BY <1>3 DEF InsertByPriority
<1>5. InsertTimer(q, t, d) = InsertBefore(q, t, later)
  BY DEF InsertTimer
<1> QED
  BY <1>1, <1>4, <1>5, InsertInOrder

(* Who is in a blocked list of lists that agree with the tasks.            *)
LEMMA BlockedNodes ==
  ASSUME IType, NEW s, NEW prio \in [Task -> Prio], ListsAgree(s, prio), NEW i \in Ipc
  PROVE  /\ s.lists[i] \in Seq(Task) /\ IsInjective(s.lists[i])
         /\ \A t \in Range(s.lists[i]) : t \in Task /\ Waits(t, i)
<1>1. i \in ListId /\ DOMAIN s.lists = ListId
  BY ConstantFacts DEF ListsAgree, SchedType
<1>2. s.lists[i] \in Seq(Task) /\ IsInjective(s.lists[i])
  BY <1>1 DEF ListsAgree, SchedType, InjectiveLists
<1>3. ASSUME NEW t \in Range(s.lists[i]) PROVE t \in Task /\ Waits(t, i)
  <2>1. t \in Task
    BY <1>2, ElementOfSeq, LenProperties DEF Range
  <2>2. prio[t] \in Prio /\ InPlace(s, t, prio[t]) /\ InList(s, t, i)
    BY <2>1 DEF ListsAgree, InList
  <2> QED
    BY <2>1, <2>2, WaiterInPlace DEF Waits
<1> QED
  BY <1>2, <1>3

LEMMA ReprioritisedInOrder ==
  ASSUME NEW s \in SchedType, NEW prio \in [Task -> Prio],
         NEW u \in Task, NEW q \in [Task -> Prio],
         \A t \in Task : t # u => q[t] = prio[t],
         NEW i \in Ipc, i \in prioIpc, InOrder(s.lists[i], prio),
         IsInjective(s.lists[i]), \A t \in Range(s.lists[i]) : t \in Task /\ Waits(t, i)
  PROVE  InOrder(Reprioritised(s, u, q).lists[i], q)
<1>1. /\ s.lists[i] \in Seq(Task) /\ IsInjective(s.lists[i])
      /\ \A t \in Range(s.lists[i]) : t \in Task /\ Waits(t, i)
  BY ConstantFacts DEF SchedType
<1>2. i \in ListId /\ i \notin Prio /\ i # NoIpc
  BY ConstantFacts, ListAssumption
<1>3. s \in SchedType /\ Unlink(s.lists, u)[i] = Without(s.lists[i], u)
      /\ Unlink(s.lists, u) \in [ListId -> Seq(Task)]
  <2>1. s \in SchedType /\ s.lists \in [ListId -> Seq(Task)]
    BY DEF SchedType
  <2>2. Unlink(s.lists, u) \in [ListId -> Seq(Task)]
    BY <2>1, UnlinkProperties
  <2> QED
    BY <2>1, <2>2, <1>2 DEF Unlink
<1>4. PICK r : r = Without(s.lists[i], u)
  OBVIOUS
<1>5. InOrder(r, q) /\ r \in Seq(Task)
  BY <1>1, <1>4, WithoutStaysInOrder, WithoutProperties
<1>6. CASE Ready(u)
  <2>1. Reprioritised(s, u, q).lists = LinkLast(Unlink(s.lists, u), q[u], u)
    BY <1>6 DEF Reprioritised, Ready, SchedInsert, SchedRemove
  <2>2. q[u] # i
    BY <1>2
  <2> QED
    BY <1>2, <1>3, <1>4, <1>5, <2>1, <2>2 DEF LinkLast
<1>7. CASE Waits(u, i)
  <2>1. Reprioritised(s, u, q) = [s EXCEPT !.lists =
            [Unlink(s.lists, u) EXCEPT ![i] = InsertByPriority(@, u, q)]]
    BY <1>2, <1>7 DEF Waits, Reprioritised, Reordered
  <2>2. Reprioritised(s, u, q).lists[i] = InsertByPriority(r, u, q)
    BY <1>2, <1>3, <1>4, <2>1 DEF SchedType
  <2> QED
    BY <1>5, <2>2, InsertByPriorityInOrder
<1>8. CASE ~Ready(u) /\ ~Waits(u, i)
  <2>1. u \notin Range(s.lists[i])
    BY <1>1, <1>8
  <2>2. InOrder(s.lists[i], q)
    BY <1>1, <2>1, InOrderFrame
  <2>3. CASE Reprioritised(s, u, q) = s
    BY <2>2, <2>3
  <2>4. CASE Reprioritised(s, u, q) # s
    <3> DEFINE j == msg[u].source
    <3>1. /\ status[u] = "BLOCKED" /\ msg[u].reason = "IPC" /\ j # NoIpc /\ j \in prioIpc
          /\ Reprioritised(s, u, q) = [s EXCEPT !.lists =
               [Unlink(s.lists, u) EXCEPT ![j] = InsertByPriority(@, u, q)]]
      BY <1>8, <2>4 DEF Reprioritised, Reordered, Ready
    <3>2. j # i
      BY <1>8, <3>1 DEF Waits
    <3> HIDE DEF j
    <3>3. Reprioritised(s, u, q).lists[i] = r
      BY <1>2, <1>3, <1>4, <3>1, <3>2 DEF SchedType
    <3> QED
      BY <1>5, <3>3
  <2> QED
    BY <2>3, <2>4
<1> QED
  BY <1>6, <1>7, <1>8

LEMMA ReprioritisedSorted ==
  ASSUME IType, NEW s, NEW prio \in [Task -> Prio], ListsAgree(s, prio),
         NEW u \in Task, NEW q \in [Task -> Prio],
         \A t \in Task : t # u => q[t] = prio[t],
         NEW i \in Ipc, i \in prioIpc, InOrder(s.lists[i], prio)
  PROVE  InOrder(Reprioritised(s, u, q).lists[i], q)
<1>1. /\ s \in SchedType /\ IsInjective(s.lists[i])
      /\ \A t \in Range(s.lists[i]) : t \in Task /\ Waits(t, i)
  BY BlockedNodes DEF ListsAgree
<1> QED
  BY <1>1, ReprioritisedInOrder

(* The steps of the kernel keep it.                                        *)
LEMMA KernelKeepsSorted ==
  ASSUME Inv, [Next]_vars, NEW i \in Ipc, i \in prioIpc, InOrder(sched.lists[i], curPrio)
  PROVE  InOrder(sched'.lists[i], curPrio')
<1> DEFINE Goal == InOrder(sched'.lists[i], curPrio')
           q == sched.lists[i]
<1>a. /\ IType /\ SchedInv /\ sched \in SchedType /\ curPrio \in [Task -> Prio]
      /\ status \in [Task -> Status]
      /\ User \subseteq Task /\ NoTask \notin Task /\ Idle \in Task
  BY ConstantFacts DEF Inv, IType, TypeOK
<1>b. i \in ListId /\ i \notin Prio /\ i # Defunct
  BY ConstantFacts, ListAssumption
<1>c. ListsAgree(sched, curPrio)
  BY <1>a, SchedAgrees
<1>d. /\ q \in Seq(Task) /\ IsInjective(q) /\ InOrder(q, curPrio)
      /\ \A t \in Range(q) : t \in Task /\ Waits(t, i)
  BY <1>a, <1>c, BlockedNodes
<1>e. \A u, p, m : /\ SchedRemove(sched, u, p, m).lists[i] = Without(q, u)
                   /\ [sched EXCEPT !.lists = Unlink(@, u)].lists[i] = Without(q, u)
  BY <1>a, <1>b DEF SchedRemove, Unlink, SchedType
<1> HIDE DEF q
<1>f. ASSUME sched'.lists[i] = q,
             \A t \in Task : status[t] = "BLOCKED" => curPrio'[t] = curPrio[t]
      PROVE  Goal
  BY <1>d, <1>f, InOrderFrame DEF Waits
<1>g. ASSUME NEW u, sched'.lists[i] = Without(q, u), UNCHANGED curPrio PROVE Goal
  BY <1>d, <1>g, WithoutStaysInOrder
<1> HIDE DEF Goal
<1>1. ASSUME NEW u \in Task, StartEffect(u) PROVE Goal
  <2>1. /\ sched' = SchedInsert(sched, u, curPrio'[u], mask[u]) /\ curPrio'[u] \in Prio
        /\ curPrio' = curPrio \/ (status[u] = "INIT" /\ curPrio' = [curPrio EXCEPT ![u] = initPrio[u]])
    BY <1>1, <1>a, StartEffectType DEF StartEffect
  <2>2. sched'.lists[i] = q
    BY <1>a, <1>b, <2>1 DEF SchedInsert, LinkLast, SchedType, q
  <2> QED
    BY <1>a, <1>f, <2>1, <2>2
<1>2. ASSUME UNCHANGED <<sched, curPrio>> PROVE Goal
  BY <1>2, <1>f DEF q
<1>3. ASSUME NEW u \in Task, DeleteEffect(u) PROVE Goal
  <2>1. sched'.lists[i] = Without(q, u) /\ UNCHANGED curPrio
    BY <1>3, <1>a, <1>b, <1>e DEF DeleteEffect, SchedRemove, LinkLast, Unlink, SchedType, q
  <2> QED
    BY <1>g, <2>1
<1>4. ASSUME NEW u, sched' = Rotate(sched, u, curPrio[u]), curPrio[u] \in Prio, UNCHANGED curPrio PROVE Goal
  <2>1. sched'.lists[i] = Without(q, u)
    BY <1>4, <1>a, <1>b DEF Rotate, LinkLast, Unlink, SchedType, q
  <2> QED
    BY <1>4, <1>g, <2>1
<1>6. ASSUME NEW u \in User, NEW n \in 1 .. MaxSleep, Sleep(u, n) PROVE Goal
  BY <1>6, <1>e, <1>g DEF Sleep
<1>7. ASSUME NEW u \in User, NEW v \in User, Suspend(u, v) PROVE Goal
  <2>1. sched'.lists[i] = Without(q, v) /\ UNCHANGED curPrio
    <3>1. /\ SchedRemove(sched, v, curPrio[v], mask[v]).lists[i] = Without(q, v)
          /\ [sched EXCEPT !.lists = Unlink(@, v)].lists[i] = Without(q, v)
      BY <1>e
    <3> QED
      BY <1>7, <3>1 DEF Suspend
  <2> QED
    BY <1>g, <2>1
<1>8. ASSUME NEW u \in User, NEW v \in User, Create(u, v) PROVE Goal
  BY <1>8, <1>a, <1>f DEF Create, q
<1>9. ASSUME CleanupDefunct PROVE Goal
  <2>1. sched'.lists[i] = q /\ UNCHANGED curPrio
    BY <1>9, <1>a, <1>b DEF CleanupDefunct, SchedType, q
  <2> QED
    BY <1>f, <2>1
<1>10. ASSUME TickTimeout PROVE Goal
  <2>1. CASE status[firing] = "BLOCKED"
    <3>1. PICK u \in Task : u = firing
      BY <1>10, <1>a DEF TickTimeout, IType
    <3>2. /\ sched' = SchedInsert([sched EXCEPT !.lists = Unlink(@, u)], u,
                                  curPrio[u], mask[u])
          /\ UNCHANGED curPrio /\ curPrio[u] \in Prio
      BY <1>10, <1>a, <2>1, <3>1 DEF TickTimeout
    <3>3. sched'.lists[i] = Without(q, u)
      BY <1>a, <1>b, <1>e, <3>2 DEF SchedInsert, LinkLast, Unlink, SchedType, q
    <3> QED
      BY <1>g, <3>2, <3>3
  <2>2. CASE status[firing] # "BLOCKED"
    BY <1>10, <2>2, <1>2 DEF TickTimeout
  <2> QED
    BY <2>1, <2>2
<1>11. ASSUME NEW u \in User, TaskStep(u) PROVE Goal
  <2>1. ASSUME StartCommit(u) PROVE Goal
    BY <2>1, <1>1, <1>a DEF StartCommit, IType
  <2>2. ASSUME TaskSwitch(u) PROVE Goal
    BY <2>2, <1>2 DEF TaskSwitch
  <2>3. ASSUME Exit(u) PROVE Goal
    BY <2>3, <1>3, <1>a DEF Exit
  <2>4. ASSUME NEW v \in User, Delete(u, v) PROVE Goal
    BY <2>4, <1>3, <1>a DEF Delete
  <2>5. ASSUME StartRelinks(u) \/ TaskMisdispatch(u) PROVE Goal
    BY <2>5, <1>2 DEF StartRelinks, TaskMisdispatch, Misdispatch, Crash, taskVars
  <2>6. ASSUME SleepZero(u) PROVE Goal
    BY <2>6, <1>2 DEF SleepZero, taskVars
  <2>7. ASSUME NEW v \in User, StartCheck(u, v) PROVE Goal
    BY <2>7, <1>2 DEF StartCheck, taskVars
  <2>8. ASSUME NEW v \in User, NEW p \in Prio, SetPriority(u, v, p) PROVE Goal
    <3>1. CASE UNCHANGED <<curPrio, sched>>
      BY <3>1, <1>2
    <3>2. CASE ChangePriority(v, p)
      <4>1. PICK prio \in [Task -> Prio] :
              prio = [curPrio EXCEPT ![v] = p] /\ \A t \in Task : t # v => prio[t] = curPrio[t]
        BY <1>a
      <4>2. curPrio' = prio /\ sched' = Reprioritised(sched, v, prio)
        BY <3>2, <4>1 DEF ChangePriority
      <4>3. InOrder(Reprioritised(sched, v, prio).lists[i], prio)
        BY <1>a, <1>c, <1>d, <4>1, ReprioritisedSorted DEF q
      <4> QED
        BY <4>2, <4>3 DEF Goal
    <3> QED
      BY <2>8, <3>1, <3>2 DEF SetPriority
  <2>9. ASSUME Yield(u) PROVE Goal
    BY <2>9, <1>4, <1>a DEF Yield, taskVars
  <2> QED
    BY <1>11, <1>6, <1>7, <1>8, <2>1, <2>2, <2>3, <2>4, <2>5, <2>6, <2>7, <2>8, <2>9
    DEF TaskStep
<1>12. ASSUME TickStep PROVE Goal
  <2>1. ASSUME TickSwitch PROVE Goal
    BY <2>1, <1>2 DEF TickSwitch
  <2>2. ASSUME TickBegin \/ TickMisdispatch PROVE Goal
    BY <2>2, <1>2 DEF TickBegin, TickMisdispatch, Misdispatch, Crash, taskVars
  <2>3. ASSUME TickCheck \/ TickPop \/ TickEnd PROVE Goal
    BY <2>3, <1>2 DEF TickCheck, TickPop, TickEnd, taskVars
  <2>4. ASSUME TickYield PROVE Goal
    <3>1. current \in Task /\ UNCHANGED curPrio
      BY <2>4, <1>a DEF TickYield, IType, taskVars
    <3> QED
      BY <2>4, <3>1, <1>2, <1>4, <1>a DEF TickYield
  <2> QED
    BY <1>10, <1>12, <2>1, <2>2, <2>3, <2>4 DEF TickStep
<1>13. ASSUME NEW u \in User, MainStart(u) PROVE Goal
  BY <1>13, <1>1, <1>a DEF MainStart
<1>14. ASSUME UNCHANGED vars \/ KernelStart PROVE Goal
  BY <1>14, <1>2 DEF vars, taskVars, KernelStart
<1> QED
  BY <1>9, <1>11, <1>12, <1>13, <1>14 DEF Next, Halted, Goal

(* So do a waiter's coming and going.                                      *)
LEMMA BlockedInSorted ==
  ASSUME NEW s \in SchedType, InjectiveLists(s.lists), curPrio \in [Task -> Prio],
         NEW i \in Ipc, NEW t \in Task, NEW j \in Ipc, j \in prioIpc,
         NEW d, InOrder(s.lists[j], d), d[t] = curPrio[t],
         \A u \in Range(s.lists[i]) : d[u] = curPrio[u]
  PROVE  InOrder(BlockedIn(s, i, t).lists[j], d)
<1>1. i \in ListId /\ j \in ListId /\ s.lists[j] \in Seq(Task) /\ DOMAIN s.lists = ListId
  BY ConstantFacts DEF SchedType
<1>2. PICK q \in Seq(Task) : q = s.lists[j] /\ IsInjective(q) /\ InOrder(q, d)
  BY <1>1 DEF InjectiveLists
<1>3. PICK r : r = Without(q, t)
  OBVIOUS
<1>4. r \in Seq(Task) /\ InOrder(r, d) /\ (\A u \in Range(r) : u \in Range(q))
  BY <1>2, <1>3, WithoutProperties, WithoutStaysInOrder
<1>5. /\ SchedRemove(s, t, curPrio[t], mask[t]).lists[j] = r
      /\ SchedRemove(s, t, curPrio[t], mask[t]).lists \in [ListId -> Seq(Task)]
  <2>1. s.lists \in [ListId -> Seq(Task)]
    BY DEF SchedType
  <2>2. Unlink(s.lists, t) \in [ListId -> Seq(Task)]
    BY <2>1, UnlinkProperties
  <2>3. SchedRemove(s, t, curPrio[t], mask[t]).lists = Unlink(s.lists, t)
    BY DEF SchedRemove
  <2>4. Unlink(s.lists, t)[j] = r
    BY <1>1, <1>2, <1>3 DEF Unlink
  <2> QED
    BY <2>2, <2>3, <2>4
<1>6. CASE i # j
  <2>1. BlockedIn(s, i, t).lists[j] = r
    BY <1>5, <1>6 DEF BlockedIn
  <2> QED
    BY <1>4, <2>1
<1>7. CASE i = j
  <2>1. BlockedIn(s, i, t).lists[j] = InsertByPriority(r, t, curPrio)
    BY <1>1, <1>5, <1>7 DEF BlockedIn
  <2>2. InOrder(r, curPrio)
    BY <1>2, <1>4, <1>7, InOrderFrame
  <2>3. PICK l : l = InsertByPriority(r, t, curPrio)
    OBVIOUS
  <2>4. InOrder(l, curPrio)
    BY <1>4, <2>2, <2>3, InsertByPriorityInOrder
  <2>5. \A u \in Range(l) : u \in Range(r) \/ u = t
    BY <1>4, <2>3, InsertByPriorityProperties
  <2>6. InOrder(l, d)
    BY <1>2, <1>4, <1>7, <2>4, <2>5, InOrderFrame
  <2> QED
    BY <2>1, <2>3, <2>6
<1> QED
  BY <1>6, <1>7

LEMMA ResumeFromSorted ==
  ASSUME NEW s \in SchedType, InjectiveLists(s.lists), NEW i, ResumeFrom(s, i),
         Head(s.lists[i]) \in Task, curPrio \in [Task -> Prio],
         NEW j \in Ipc, NEW d, InOrder(s.lists[j], d)
  PROVE  InOrder(sched'.lists[j], d)
<1>1. j \in ListId /\ j \notin Prio /\ s.lists[j] \in Seq(Task) /\ DOMAIN s.lists = ListId
  BY ConstantFacts, ListAssumption DEF SchedType
<1>2. IsInjective(s.lists[j])
  BY <1>1 DEF InjectiveLists
<1>3. PICK u \in Task : u = Head(s.lists[i])
  OBVIOUS
<1>4. /\ sched' = SchedInsert([s EXCEPT !.lists = Unlink(@, u)], u,
                              curPrio[u], mask[u])
      /\ curPrio[u] \in Prio
  BY <1>3 DEF ResumeFrom
<1>5. sched'.lists[j] = Without(s.lists[j], u)
  BY <1>1, <1>4 DEF SchedInsert, LinkLast, Unlink, SchedType
<1> QED
  BY <1>1, <1>2, <1>5, WithoutStaysInOrder

(* The waiters of other objects are left where they are.                   *)
LEMMA ResumedElsewhere ==
  ASSUME Inv, NEW q, NEW j \in Ipc, \A u \in Range(q) : ~Waits(u, j)
  PROVE  AllResumed(q).lists[j] = sched.lists[j]
<1>1. IType /\ ListsAgree(sched, curPrio) /\ curPrio \in [Task -> Prio]
  BY SchedAgrees DEF Inv, IType, TypeOK
<1>2. j \in ListId /\ j \notin Prio
  BY ConstantFacts, ListAssumption
<1>3. PICK r \in Seq(Task) : r = sched.lists[j]
  BY <1>1, BlockedNodes
<1>4. \A t \in Range(r) : t \in Task \ Range(q)
  BY <1>1, <1>3, BlockedNodes
<1>5. Kept(r, Task \ Range(q)) = r
  BY <1>4, KeptAll
<1>6. AllResumed(q).lists[j] = Kept(r, Task \ Range(q)) \o <<>>
  BY <1>2, <1>3 DEF AllResumed
<1> QED
  BY <1>3, <1>5, <1>6, ConcatProperties

LEMMA AllResumedOthers ==
  ASSUME Inv, NEW i \in Ipc, NEW j \in Ipc, i # j
  PROVE  AllResumed(sched.lists[i]).lists[j] = sched.lists[j]
<1>1. ListsAgree(sched, curPrio) /\ curPrio \in [Task -> Prio] /\ IType
  BY SchedAgrees DEF Inv, IType, TypeOK
<1>2. \A u \in Range(sched.lists[i]) : ~Waits(u, j)
  BY <1>1, BlockedNodes DEF Waits
<1> QED
  BY <1>2, ResumedElsewhere

LEMMA PrioritiesAreInts ==
  ASSUME NEW d \in [Task -> Prio]
  PROVE  \A t \in Task : d[t] \in Int
<1>1. \A p \in Prio : p \in Int
  BY DEF Prio
<1> QED
  BY <1>1

(* The first waiter has the highest priority.                              *)
LEMMA FirstIsHighest ==
  ASSUME Inv, NEW i \in Ipc, InOrder(sched.lists[i], curPrio), sched.lists[i] # <<>>,
         NEW v \in Task, Waits(v, i)
  PROVE  curPrio[Head(sched.lists[i])] <= curPrio[v]
<1>1. PICK q : q = sched.lists[i]
  OBVIOUS
<1>2. IType /\ Match /\ curPrio \in [Task -> Prio] /\ i \in ListId /\ sched \in SchedType
  BY ConstantFacts DEF Inv, SchedInv, IType, TypeOK
<1>3. q \in Seq(Task) /\ q # <<>> /\ InOrder(q, curPrio)
  BY <1>1, <1>2 DEF SchedType
<1>4. v \in Range(q)
  BY <1>1, <1>2, InBlockedList DEF InList
<1>5. PICK k \in DOMAIN q : q[k] = v
  BY <1>4 DEF Range
<1>6. /\ Head(q) = q[1] /\ 1 \in DOMAIN q /\ k \in Nat /\ k >= 1 /\ q[1] \in Task
  BY <1>3, <1>5, LenProperties, EmptySeq
<1>7. curPrio[q[1]] \in Int
  BY <1>2, <1>6, PrioritiesAreInts
<1>8. CASE k = 1
  BY <1>1, <1>5, <1>6, <1>7, <1>8
<1>9. CASE k # 1
  BY <1>1, <1>3, <1>5, <1>6, <1>9 DEF InOrder
<1> QED
  BY <1>8, <1>9

-----------------------------------------------------------------------------
(* Lists with YR_IPC_FLAG_PRIO are in priority order, also after waiters   *)
(* have been raised.                                                       *)
SortedLists == \A i \in prioIpc : InOrder(sched.lists[i], curPrio)

LEMMA SortedInit ==
  ASSUME Init
  PROVE  SortedLists
<1>1. Inv /\ prioIpc \subseteq Ipc
  BY InvInit DEF Init
<1>2. \A t \in Task : status[t] # "BLOCKED"
  BY DEF Init
<1>3. ASSUME NEW i \in prioIpc PROVE sched.lists[i] = <<>>
  BY <1>1, <1>2, FirstWaits DEF Waits
<1> QED
  BY <1>3, EmptyInOrder DEF SortedLists

LEMMA BlockKeepsSorted ==
  ASSUME Inv, prioIpc \subseteq Ipc, SortedLists, NEW i \in Ipc, NEW t \in Task,
         NEW n, Block(i, t, n)
  PROVE  SortedLists'
<1>1. /\ sched' = BlockedIn(sched, i, t) /\ UNCHANGED <<curPrio, prioIpc>>
      /\ sched \in SchedType /\ InjectiveLists(sched.lists) /\ curPrio \in [Task -> Prio]
  BY DEF Block, BlockFrom, Inv, IType, TypeOK, SchedInv
<1>2. ASSUME NEW j \in prioIpc PROVE InOrder(sched'.lists[j], curPrio)
  <2>1. j \in Ipc /\ InOrder(sched.lists[j], curPrio)
    BY DEF SortedLists
  <2> QED
    BY <1>1, <2>1, BlockedInSorted
<1> QED
  BY <1>1, <1>2 DEF SortedLists

LEMMA ResumeKeepsSorted ==
  ASSUME Inv, prioIpc \subseteq Ipc, SortedLists, NEW i \in Ipc,
         sched.lists[i] # <<>>, Resume(i), UNCHANGED <<curPrio, prioIpc>>
  PROVE  SortedLists'
<1>1. /\ ResumeFrom(sched, i) /\ Head(sched.lists[i]) \in Task
      /\ sched \in SchedType /\ InjectiveLists(sched.lists) /\ curPrio \in [Task -> Prio]
  BY FirstWaits DEF Resume, Inv, IType, TypeOK, SchedInv
<1>2. ASSUME NEW j \in prioIpc PROVE InOrder(sched'.lists[j], curPrio)
  <2>1. j \in Ipc /\ InOrder(sched.lists[j], curPrio)
    BY DEF SortedLists
  <2> QED
    BY <1>1, <2>1, ResumeFromSorted
<1> QED
  BY <1>2 DEF SortedLists

LEMMA DeletionKeepsSorted ==
  ASSUME Inv, prioIpc \subseteq Ipc, SortedLists, NEW q, NEW gone,
         ResumeAll(q), prioIpc' = prioIpc \ gone, UNCHANGED curPrio,
         \A u \in Range(q) : \E i \in gone : Waits(u, i)
  PROVE  SortedLists'
<1>1. ASSUME NEW j \in prioIpc' PROVE InOrder(sched'.lists[j], curPrio)
  <2>1. j \in Ipc /\ j \notin gone /\ InOrder(sched.lists[j], curPrio)
    BY DEF SortedLists
  <2>2. \A u \in Range(q) : ~Waits(u, j)
    BY <2>1 DEF Waits
  <2>3. sched'.lists[j] = sched.lists[j]
    BY <2>1, <2>2, ResumedElsewhere DEF ResumeAll
  <2> QED
    BY <2>1, <2>3
<1> QED
  BY <1>1 DEF SortedLists

LEMMA KernelStepKeepsSorted ==
  ASSUME Inv, prioIpc \subseteq Ipc, SortedLists, KernelStep \/ IsrSwitch
  PROVE  SortedLists'
<1>1. CASE KernelStep
  <2>1. Next /\ UNCHANGED prioIpc
    BY <1>1, KernelStepIsNext DEF KernelStep
  <2>2. ASSUME NEW i \in prioIpc PROVE InOrder(sched'.lists[i], curPrio')
    BY <2>1, KernelKeepsSorted DEF SortedLists
  <2> QED
    BY <2>1, <2>2 DEF SortedLists
<1>2. CASE IsrSwitch
  <2>1. UNCHANGED <<sched, curPrio, prioIpc>>
    BY <1>2 DEF IsrSwitch, Misdispatch, Crash, taskVars
  <2> QED
    BY <2>1 DEF SortedLists
<1> QED
  BY <1>1, <1>2

(* Who is served: a waiter has not been told anything yet, and only        *)
(* Resume tells one, the first, that it is given what it waits for.        *)
ServesBestStep ==
  \A i \in Ipc : \A t \in Range(sched.lists[i]) : Served(t, i) =>
    /\ i \in prioIpc => \A u \in Range(sched.lists[i]) : curPrio[t] <= curPrio[u]
    /\ i \notin prioIpc => t = Head(sched.lists[i])

Untold == \A t \in Task : status[t] = "BLOCKED" => msg[t].notify = "NONE"

LEMMA NobodyServed ==
  ASSUME Inv, \A t \in Task : status[t] = "BLOCKED" => msg'[t].notify # "OK"
  PROVE  ServesBestStep
<1>1. IType /\ ListsAgree(sched, curPrio) /\ curPrio \in [Task -> Prio]
  BY SchedAgrees DEF Inv, IType, TypeOK
<1>2. ASSUME NEW i \in Ipc, NEW t \in Range(sched.lists[i]) PROVE ~Served(t, i)
  <2>1. t \in Task /\ Waits(t, i)
    BY <1>1, <1>2, BlockedNodes
  <2> QED
    BY <2>1 DEF Served, Waits
<1> QED
  BY <1>2 DEF ServesBestStep

LEMMA FirstServed ==
  ASSUME Inv, prioIpc \subseteq Ipc, SortedLists, Untold, NEW i \in Ipc,
         sched.lists[i] # <<>>,
         LET u == Head(sched.lists[i]) IN
         msg' = [msg EXCEPT ![u] = [NoMsg EXCEPT !.notify = "OK"]]
  PROVE  ServesBestStep
<1>1. PICK u \in Task : u = Head(sched.lists[i]) /\ Waits(u, i)
  BY FirstWaits
<1>2. IType /\ ListsAgree(sched, curPrio) /\ curPrio \in [Task -> Prio]
      /\ msg \in [Task -> MsgType]
  BY SchedAgrees DEF Inv, IType, TypeOK
<1>3. msg' = [msg EXCEPT ![u] = [NoMsg EXCEPT !.notify = "OK"]]
  BY <1>1
<1>4. ASSUME NEW j \in Ipc, NEW t \in Range(sched.lists[j]), Served(t, j)
      PROVE  t = u /\ j = i
  <2>1. t \in Task /\ Waits(t, j)
    BY <1>2, BlockedNodes
  <2>2. msg[t].notify # "OK" /\ msg'[t].notify = "OK"
    BY <1>4, <2>1 DEF Served, Untold, Waits
  <2>3. t = u
    BY <1>2, <1>3, <2>1, <2>2
  <2> QED
    BY <1>1, <2>1, <2>3 DEF Waits
<1>5. ASSUME i \in prioIpc, NEW v \in Range(sched.lists[i]) PROVE curPrio[u] <= curPrio[v]
  <2>1. v \in Task /\ Waits(v, i)
    BY <1>2, BlockedNodes
  <2>2. InOrder(sched.lists[i], curPrio)
    BY <1>5 DEF SortedLists
  <2> QED
    BY <1>1, <2>1, <2>2, FirstIsHighest
<1> QED
  BY <1>1, <1>4, <1>5 DEF ServesBestStep

LEMMA KernelServesBest ==
  ASSUME Inv, Untold, KernelStep \/ IsrSwitch
  PROVE  ServesBestStep
<1>1. ASSUME NEW t \in Task, status[t] = "BLOCKED" PROVE msg'[t].notify # "OK"
  <2>1. msg[t].notify # "OK"
    BY <1>1 DEF Untold
  <2>2. CASE KernelStep
    BY <2>1, <2>2, KernelServesNobody
  <2>3. CASE IsrSwitch
    <3>1. UNCHANGED msg
      BY <2>3 DEF IsrSwitch, Misdispatch, Crash, taskVars
    <3> QED
      BY <2>1, <3>1
  <2> QED
    BY <2>2, <2>3
<1> QED
  BY <1>1, NobodyServed

LEMMA DeletionServesNobody ==
  ASSUME Inv, Untold, NEW q, WakeAll(q)
  PROVE  ServesBestStep
<1>1. msg' = [t \in Task |-> IF t \in Range(q) THEN [NoMsg EXCEPT !.notify = "DELETED"]
                             ELSE msg[t]]
  BY DEF WakeAll
<1>2. [NoMsg EXCEPT !.notify = "DELETED"].notify = "DELETED"
  BY DEF NoMsg
<1>3. ASSUME NEW t \in Task, status[t] = "BLOCKED" PROVE msg'[t].notify # "OK"
  BY <1>1, <1>2, <1>3 DEF Untold
<1> QED
  BY <1>3, NobodyServed

-----------------------------------------------------------------------------
(* Only a deleted task is created anew.                                    *)
LEMMA KernelCreatesDeleted ==
  ASSUME Inv, KernelStep, NEW t \in Task, status'[t] = "INIT"
  PROVE  status[t] = "INIT" \/ \E u \in User : Create(u, t) /\ status[t] = "DELETED"
<1> DEFINE Goal == status[t] = "INIT" \/ \E u \in User : Create(u, t) /\ status[t] = "DELETED"
<1>1. status \in [Task -> Status] /\ IType
  BY DEF Inv, IType, TypeOK
<1>2. ASSUME UNCHANGED status PROVE Goal
  BY <1>2
<1>3. ASSUME NEW u, NEW s, s # "INIT", status' = [status EXCEPT ![u] = s]
      PROVE  Goal
  BY <1>1, <1>3
<1>4. ASSUME Dispatch, current \in Task PROVE Goal
  <2>1. \/ status'[t] = status[t]
        \/ {status[t], status'[t]} \subseteq {"READY", "RUNNING"}
    BY <1>4, DispatchTransition DEF Inv
  <2> QED
    BY <2>1
<1>5. ASSUME NEW u \in User, TaskStep(u) PROVE Goal
  <2>1. CASE StartCommit(u)
    BY <2>1, <1>3 DEF StartCommit, StartEffect
  <2>2. CASE TaskSwitch(u)
    BY <2>2, <1>4, ConstantFacts DEF TaskSwitch, Executes
  <2>3. ASSUME NEW v \in User, DeleteEffect(v) PROVE Goal
    BY <2>3, <1>3 DEF DeleteEffect
  <2>4. CASE StartRelinks(u) \/ TaskMisdispatch(u) \/ SleepZero(u) \/ Yield(u)
    BY <2>4, <1>2 DEF StartRelinks, TaskMisdispatch, Misdispatch, Crash, SleepZero, Yield,
       taskVars
  <2>5. ASSUME NEW v \in User, StartCheck(u, v) \/ \E p \in Prio : SetPriority(u, v, p)
        PROVE  Goal
    BY <2>5, <1>2 DEF StartCheck, SetPriority, taskVars
  <2>6. ASSUME NEW v \in User, Suspend(u, v) PROVE Goal
    BY <2>6, <1>3 DEF Suspend
  <2>7. ASSUME NEW n \in 1 .. MaxSleep, Sleep(u, n) PROVE Goal
    BY <2>7, <1>3 DEF Sleep
  <2>8. ASSUME NEW v \in User, Create(u, v)
        PROVE  Goal
    <3>1. CASE t = v
      BY <2>8, <3>1 DEF Create
    <3>2. CASE t # v
      BY <2>8, <3>2, <1>1 DEF Create
    <3> QED
      BY <3>1, <3>2
  <2> QED
    BY <1>5, <2>1, <2>2, <2>3, <2>4, <2>5, <2>6, <2>7, <2>8 DEF TaskStep, Exit, Delete
<1>6. ASSUME TickStep PROVE Goal
  <2>1. CASE TickSwitch
    BY <2>1, <1>1, <1>4 DEF TickSwitch, IType
  <2>2. CASE TickTimeout
    BY <2>2, <1>2, <1>3 DEF TickTimeout
  <2>3. CASE TickBegin \/ TickYield \/ TickMisdispatch
    BY <2>3, <1>2 DEF TickBegin, TickYield, TickMisdispatch, Misdispatch, Crash, taskVars
  <2>4. CASE TickCheck \/ TickPop \/ TickEnd
    BY <2>4, <1>2 DEF TickCheck, TickPop, TickEnd, taskVars
  <2> QED
    BY <1>6, <2>1, <2>2, <2>3, <2>4 DEF TickStep
<1>7. ASSUME NEW u \in User, MainStart(u) PROVE Goal
  BY <1>7, <1>3 DEF MainStart, StartEffect
<1>8. CASE KernelStart
  BY <1>8, <1>3 DEF KernelStart
<1>9. CASE CleanupDefunct
  BY <1>9, <1>1 DEF CleanupDefunct
<1>10. CASE Halted
  BY <1>10, <1>2 DEF Halted, vars, taskVars
<1> QED
  BY <1>5, <1>6, <1>7, <1>8, <1>9, <1>10 DEF KernelStep

(* What a task had counts for nothing after it is created anew.            *)
NoRecreation == \A t \in User : "create" \notin Calls[t]

LEMMA KernelCreatesNobody ==
  ASSUME Inv, NoRecreation, KernelStep, NEW t \in Task, status'[t] = "INIT"
  PROVE  status[t] = "INIT"
<1>1. \A u \in User : ~Create(u, t)
  BY DEF Create, MayCall, NoRecreation
<1> QED
  BY <1>1, KernelCreatesDeleted
=============================================================================
