---------------------------- MODULE Mutex_proofs -----------------------------
(***************************************************************************)
(* Mutexes and the kernel together, for every set of tasks, every workload *)
(* and every value of the other constants: a mutex is a lock whose result  *)
(* a waiting taker can trust; a task's hold count is the number of mutexes *)
(* it owns, an owner inherits the priorities of those who wait for it, and *)
(* what it inherits ends with its last mutex, if tasks are not created     *)
(* anew.                                                                   *)
(***************************************************************************)
EXTENDS Mutex, Ipc_proofs

-----------------------------------------------------------------------------
(* The inductive invariant *)

Places == {"none", "take", "give", "delete", "wait"}

MutexType ==
  /\ prioIpc \subseteq Ipc
  /\ call \in [Task -> Places]
  /\ isr = "off"
  /\ owner \in [Mutex -> Task \cup {NoTask}]
  /\ hold \in [Mutex -> 0 .. HoldMax]
  /\ valid \subseteq Mutex
  /\ obj \in [Task -> Mutex \cup {NoIpc}]

(* Nobody waits for a mutex that is free.                                  *)
OwnerInv ==
  \A x \in Mutex :
    /\ owner[x] = NoTask <=> hold[x] = 0
    /\ owner[x] = NoTask => \A t \in Task : ~Waits(t, x)

(* What a task's place in a mutex function says of its status, of its      *)
(* message and of the owner.  A waiter that owns the mutex has been given  *)
(* it; a task that is about to give its mutex has not lost it to yr_mutex_ *)
(* delete without losing the ownership too.                                *)
CallOK(t) ==
  /\ status[t] = "BLOCKED" => msg[t].notify = "NONE"
  /\ status[t] = "INIT" => call[t] = "none"
  /\ call[t] # "none" => t \in User /\ obj[t] \in Mutex
  /\ \A x \in Mutex : Waits(t, x) => call[t] = "wait" /\ obj[t] = x /\ owner[x] # t
  /\ call[t] = "wait" /\ owner[obj[t]] = t
       => msg[t].notify = "OK" /\ status[t] # "BLOCKED"
  /\ call[t] = "give" /\ owner[obj[t]] = t => obj[t] \in valid

CallInv == \A t \in Task : CallOK(t)

MutexInv == Inv /\ MutexType /\ OwnerInv /\ CallInv

LEMMA MutexFacts ==
  ASSUME MutexInv
  PROVE  /\ IType /\ SchedInv /\ RunInv
         /\ sched \in SchedType /\ status \in [Task -> Status] /\ msg \in [Task -> MsgType]
         /\ curPrio \in [Task -> Prio] /\ initPrio \in [Task -> Prio]
         /\ mask \in [Task -> Prio] /\ holds \in [Task -> Nat]
         /\ timerList \in Seq(Task) /\ due \in Seq(Task) /\ left \in [Task -> Int]
         /\ ListsAgree(sched, curPrio)
         /\ User \subseteq Task /\ NoTask \notin Task
         /\ Mutex \subseteq Ipc /\ HoldMax \in Nat /\ HoldMax >= 1
         /\ NoIpc \notin Mutex
         /\ call \in [Task -> Places] /\ owner \in [Mutex -> Task \cup {NoTask}]
         /\ hold \in [Mutex -> 0 .. HoldMax] /\ obj \in [Task -> Mutex \cup {NoIpc}]
         /\ valid \subseteq Mutex
<1>1. /\ Inv /\ IType /\ SchedInv /\ RunInv /\ MutexType
  BY DEF MutexInv, Inv
<1>2. ListsAgree(sched, curPrio)
  BY <1>1, SchedAgrees
<1>3. /\ User \subseteq Task /\ NoTask \notin Task
      /\ Mutex \subseteq Ipc /\ HoldMax \in Nat /\ HoldMax >= 1
      /\ NoIpc \notin Mutex
  <2>1. User \subseteq Task /\ NoTask \notin Task
    BY ConstantFacts
  <2>2. Mutex \subseteq Ipc /\ HoldMax \in Nat \ {0}
    BY MutexAssumption
  <2>3. NoIpc \notin Ipc
    BY ListAssumption
  <2> QED
    BY <2>1, <2>2, <2>3
<1>4. TypeOK
  BY <1>1 DEF IType
<1> QED
  BY <1>1, <1>2, <1>3, <1>4 DEF TypeOK, MutexType

LEMMA MutexInvInit == MutexInit => MutexInv
<1> SUFFICES ASSUME MutexInit PROVE MutexInv
  OBVIOUS
<1>1. Inv /\ prioIpc \subseteq Ipc
  BY InvInit DEF MutexInit, Init
<1>2. /\ call = [t \in Task |-> "none"] /\ isr = "off"
      /\ owner = [x \in Mutex |-> NoTask] /\ hold = [x \in Mutex |-> 0]
      /\ valid = Mutex /\ obj = [t \in Task |-> NoIpc]
      /\ status = [t \in Task |-> IF t = Idle THEN "READY" ELSE "INIT"]
  BY DEF MutexInit, Init
<1>3. MutexType
  BY <1>1, <1>2, MutexAssumption DEF MutexType, Places
<1>4. OwnerInv /\ CallInv
  BY <1>2 DEF OwnerInv, CallInv, CallOK, Waits
<1> QED
  BY <1>1, <1>3, <1>4 DEF MutexInv

-----------------------------------------------------------------------------
(* The kernel's part of the mutex functions *)

(* Lists that agree with the tasks, whose status is not changed.           *)
LEMMA AgreesSched ==
  ASSUME ListsAgree(sched', curPrio'), UNCHANGED <<status, msg>>
  PROVE  SchedInv' /\ sched' \in SchedType
<1>1. ASSUME NEW t \in Task PROVE \A l \in ListId : InList(sched', t, l) <=> l \in Home(t)'
  <2>1. Home(t)' = Place(t, curPrio'[t])
    BY DEF Home, Place, Ready
  <2> QED
    BY <2>1 DEF ListsAgree, InPlace
<1> QED
  BY <1>1 DEF ListsAgree, SchedInv, Match

(* Raising the owner, or restoring its priority.                           *)
LEMMA InheritedAgrees ==
  ASSUME MutexInv, NEW t \in Task, NEW x \in Mutex, owner[x] # t
  PROVE  /\ Inherited(t, x) \in [Task -> Prio]
         /\ Inherited(t, x)[t] = curPrio[t]
         /\ \A u \in Task : u # owner[x] => Inherited(t, x)[u] = curPrio[u]
         /\ Boosts(t, x) => owner[x] \in Task
         /\ ListsAgree(IF Boosts(t, x) THEN Reprioritised(sched, owner[x], Inherited(t, x))
                       ELSE sched, Inherited(t, x))
<1> USE MutexFacts
<1>1. CASE ~Boosts(t, x)
  BY <1>1 DEF Inherited
<1>2. CASE Boosts(t, x)
  <2>1. PICK u \in Task : u = owner[x]
    BY <1>2 DEF Boosts
  <2>2. PICK q : q = Inherited(t, x)
    OBVIOUS
  <2>3. q = [curPrio EXCEPT ![u] = curPrio[t]]
    BY <1>2, <2>1, <2>2 DEF Inherited
  <2>4. q \in [Task -> Prio] /\ \A v \in Task : v # u => q[v] = curPrio[v]
    BY <2>3
  <2>5. ListsAgree(Reprioritised(sched, u, q), q)
    <3>1. IType /\ curPrio \in [Task -> Prio] /\ ListsAgree(sched, curPrio)
      OBVIOUS
    <3> QED
      BY ONLY <2>4, <3>1, ReprioritisedAgrees, u \in Task
  <2> QED
    BY <1>2, <2>1, <2>2, <2>4, <2>5
<1> QED
  BY <1>1, <1>2

LEMMA RestoredFacts ==
  ASSUME MutexInv, NEW u \in Task
  PROVE  /\ Restored(u) \in [Task -> Prio]
         /\ \A t \in Task : t # u => Restored(u)[t] = curPrio[t]
         /\ FewerHolds(u) \in Nat
<1> USE MutexFacts
<1>1. FewerHolds(u) \in Nat
  BY DEF FewerHolds
<1>2. curPrio \in [Task -> Prio] /\ initPrio \in [Task -> Prio]
  OBVIOUS
<1>3. \/ Restored(u) = curPrio
      \/ Restored(u) = [curPrio EXCEPT ![u] = initPrio[u]]
  BY DEF Restored
<1>4. Restored(u) \in [Task -> Prio] /\ \A t \in Task : t # u => Restored(u)[t] = curPrio[t]
  BY ONLY <1>2, <1>3, u \in Task
<1> QED
  BY <1>1, <1>4

LEMMA RestoredAgrees ==
  ASSUME MutexInv, NEW u \in Task, NEW s, ListsAgree(s, curPrio)
  PROVE  ListsAgree(RestoredLists(s, u), Restored(u))
<1> USE MutexFacts
<1>1. PICK q \in [Task -> Prio] : q = Restored(u) /\ \A t \in Task : t # u => q[t] = curPrio[t]
  <2>1. Restored(u) \in [Task -> Prio] /\ \A t \in Task : t # u => Restored(u)[t] = curPrio[t]
    BY RestoredFacts
  <2> QED
    BY ONLY <2>1
<1>2. ListsAgree(Reprioritised(s, u, q), q)
  <2>1. IType /\ curPrio \in [Task -> Prio] /\ ListsAgree(s, curPrio)
    OBVIOUS
  <2>2. \A t \in Task : t # u => q[t] = curPrio[t]
    BY <1>1
  <2> QED
    BY ONLY <2>1, <2>2, ReprioritisedAgrees, u \in Task, q \in [Task -> Prio]
<1> QED
  BY <1>1, <1>2 DEF RestoredLists

(* A change of the priority of a ready task concerns no blocked list.      *)
LEMMA ReadyReprioritised ==
  ASSUME IType, NEW s, NEW prio \in [Task -> Prio], ListsAgree(s, prio),
         NEW u \in Task, Ready(u), NEW q, q[u] \in Prio, NEW i \in Ipc
  PROVE  Reprioritised(s, u, q).lists[i] = s.lists[i]
<1>1. i \in ListId /\ i \notin Prio /\ i # q[u]
  BY ConstantFacts, ListAssumption
<1>2. s.lists \in [ListId -> Seq(Task)]
  BY DEF ListsAgree, SchedType
<1>3. u \notin Range(s.lists[i])
  BY BlockedNodes DEF Ready, Waits
<1>4. Reprioritised(s, u, q).lists = LinkLast(Unlink(s.lists, u), q[u], u)
  BY DEF Reprioritised, Ready, SchedInsert, SchedRemove
<1>5. LinkLast(Unlink(s.lists, u), q[u], u)[i] = Without(s.lists[i], u)
  BY <1>1, <1>2 DEF LinkLast, Unlink
<1> QED
  BY <1>3, <1>4, <1>5 DEF Without

LEMMA RestoredReady ==
  ASSUME MutexInv, NEW u \in Task, Ready(u), NEW i \in Ipc
  PROVE  RestoredLists(sched, u).lists[i] = sched.lists[i]
<1> USE MutexFacts
<1>1. PICK q \in [Task -> Prio] : q = Restored(u)
  BY RestoredFacts
<1>2. Reprioritised(sched, u, q).lists[i] = sched.lists[i]
  <2>1. IType /\ curPrio \in [Task -> Prio] /\ ListsAgree(sched, curPrio) /\ q[u] \in Prio
    BY <1>1
  <2> QED
    BY ONLY <2>1, ReadyReprioritised, u \in Task, Ready(u), i \in Ipc
<1> QED
  BY <1>1, <1>2 DEF RestoredLists

LEMMA MaskForType ==
  ASSUME MutexInv, NEW q \in [Task -> Prio]
  PROVE  MaskFor(q) \in [Task -> Prio]
BY MutexFacts DEF MaskFor

LEMMA TakeNowKeepsInv ==
  ASSUME MutexInv, NEW t \in User, NEW x \in Mutex, NEW n, TakeNow(t, x, n)
  PROVE  Inv'
<1> USE MutexFacts
<1>1. UNCHANGED <<sched, current, status, initPrio, curPrio, mask, slice, msg,
                  timerVars, prioIpc, tick, pc, arg, idleDone, fault>>
  BY DEF TakeNow
<1>2. holds' \in [Task -> Nat]
  BY DEF TakeNow
<1> QED
  BY <1>1, <1>2
  DEF MutexInv, Inv, IType, TypeOK, SchedInv, Match, Home, RunInv, OnlyCurrentRuns,
      Ready, timerVars

LEMMA TakeWaitKeepsInv ==
  ASSUME MutexInv, NEW t \in User, NEW x \in Mutex, NEW n \in {Forever} \cup 0 .. MaxWait,
         In(t, "take"), TakeWait(t, x, n)
  PROVE  Inv' /\ status' = [status EXCEPT ![t] = "BLOCKED"]
         /\ msg' = [msg EXCEPT ![t] = [source |-> x, reason |-> "IPC", notify |-> "NONE"]]
<1> USE MutexFacts
<1>1. t \in Task /\ Ready(t) /\ Executes(t) /\ pc[t] = "app"
  BY CallerReady DEF MutexInv
<1>2. PICK s : s = IF Boosts(t, x) THEN Reprioritised(sched, owner[x], Inherited(t, x))
                   ELSE sched
  OBVIOUS
<1>3. /\ BlockFrom(s, x, t, n) /\ Goto(t, "switch")
      /\ curPrio' = Inherited(t, x) /\ owner[x] # t
      /\ mask' = MaskFor(curPrio')
  BY <1>2 DEF TakeWait
<1>4. /\ curPrio' \in [Task -> Prio] /\ ListsAgree(s, curPrio')
      /\ curPrio'[t] = curPrio[t]
  BY <1>1, <1>2, <1>3, InheritedAgrees
<1>10. mask' \in [Task -> Prio]
  BY <1>3, <1>4, MaskForType
<1>5. x \in Ipc /\ (n # Forever => n \in Int)
  OBVIOUS
<1>6. /\ SchedInv'
      /\ sched' \in SchedType /\ status' \in [Task -> Status]
      /\ msg' \in [Task -> MsgType]
      /\ timerList' \in Seq(Task) /\ due' \in Seq(Task) /\ left' \in [Task -> Int]
      /\ UNCHANGED firing
  BY <1>1, <1>3, <1>4, <1>5, BlockFromKeeps
<1>7. /\ status' = [status EXCEPT ![t] = "BLOCKED"]
      /\ msg' = [msg EXCEPT ![t] = [source |-> x, reason |-> "IPC", notify |-> "NONE"]]
      /\ UNCHANGED <<current, initPrio, slice, holds, prioIpc, tick, arg, idleDone, fault>>
  BY <1>3 DEF BlockFrom
<1>8. /\ \A u \in Task : status'[u] = "RUNNING" => status[u] = "RUNNING"
      /\ holds' \in [Task -> Nat]
  BY <1>7
<1>9. Inv
  BY DEF MutexInv
<1> QED
  BY <1>1, <1>3, <1>4, <1>6, <1>7, <1>8, <1>9, <1>10, TaskStepKeepsInv

(* The owner is not in the list, so that its change of priority leaves the *)
(* first waiter where it is.                                               *)
LEMMA ReleaseKeepsInv ==
  ASSUME MutexInv, NEW t \in User, NEW x \in Mutex, In(t, "give"), Release(t, x)
  PROVE  /\ Inv'
         /\ Waiters(x) = <<>> => UNCHANGED <<status, msg>>
         /\ Waiters(x) # <<>> =>
              LET u == Head(Waiters(x)) IN
              /\ u \in Task /\ Waits(u, x) /\ u # t
              /\ status' = [status EXCEPT ![u] = "READY"]
              /\ msg' = [msg EXCEPT ![u] = [NoMsg EXCEPT !.notify = "OK"]]
<1> USE MutexFacts
<1>1. t \in Task /\ Ready(t) /\ Executes(t) /\ pc[t] = "app" /\ x \in Ipc /\ Inv
  BY CallerReady DEF MutexInv
<1>2. PICK s : s = RestoredLists(sched, t)
  OBVIOUS
<1>3. /\ curPrio' = Restored(t) /\ mask' = MaskFor(curPrio')
      /\ UNCHANGED <<current, initPrio, slice, prioIpc, tick, arg, idleDone, fault>>
  BY DEF Release
<1>4. /\ curPrio' \in [Task -> Prio] /\ ListsAgree(s, curPrio')
      /\ mask' \in [Task -> Prio]
      /\ \A u \in Task : u # t => curPrio'[u] = curPrio[u]
      /\ FewerHolds(t) \in Nat
  BY <1>1, <1>2, <1>3, RestoredFacts, RestoredAgrees, MaskForType
<1>5. CASE Waiters(x) = <<>>
  <2>1. /\ sched' = s /\ UNCHANGED <<status, msg, timerVars>>
        /\ holds' = [holds EXCEPT ![t] = FewerHolds(t)]
    BY <1>2, <1>5 DEF Release
  <2>2. PICK label \in {"app", "switch"} : Goto(t, label)
    BY <1>5 DEF Release
  <2>3. SchedInv' /\ sched' \in SchedType
    BY <1>4, <2>1, AgreesSched
  <2>4. holds' \in [Task -> Nat]
    BY <1>4, <2>1
  <2>5. /\ status' \in [Task -> Status] /\ msg' \in [Task -> MsgType]
        /\ timerList' \in Seq(Task) /\ due' \in Seq(Task) /\ left' \in [Task -> Int]
        /\ UNCHANGED firing
        /\ \A u \in Task : status'[u] = status[u]
    BY <2>1 DEF timerVars
  <2>6. Inv'
    BY <1>1, <1>3, <1>4, <2>2, <2>3, <2>4, <2>5, TaskStepKeepsInv
  <2> QED
    BY <1>5, <2>1, <2>6
<1>6. CASE Waiters(x) # <<>>
  <2>1. s.lists[x] = sched.lists[x]
    BY <1>1, <1>2, RestoredReady
  <2>2. PICK u : u = Head(Waiters(x))
    OBVIOUS
  <2>3. s.lists[x] # <<>> /\ u = Head(s.lists[x])
    BY <1>6, <2>1, <2>2 DEF Waiters
  <2>4. u \in Task /\ Waits(u, x)
    BY <1>1, <1>6, <2>2, FirstWaits DEF Waiters
  <2>5. u # t
    BY <1>1, <2>4 DEF Ready, Waits
  <2>6. /\ ResumeFrom(s, x) /\ curPrio'[u] = curPrio[u]
        /\ holds' = [holds EXCEPT ![t] = FewerHolds(t), ![u] = @ + 1]
    BY <1>2, <1>4, <1>6, <2>2, <2>4, <2>5 DEF Release
  <2>7. PICK label \in {"app", "switch"} : Goto(t, label)
    BY <1>6 DEF Release
  <2>8. /\ SchedInv'
        /\ status' = [status EXCEPT ![u] = "READY"]
        /\ sched' \in SchedType /\ status' \in [Task -> Status]
        /\ msg' \in [Task -> MsgType]
        /\ timerList' \in Seq(Task) /\ due' \in Seq(Task) /\ left' \in [Task -> Int]
        /\ UNCHANGED firing
    <3>1. /\ IType /\ curPrio' \in [Task -> Prio] /\ ListsAgree(s, curPrio')
          /\ x \in Ipc /\ s.lists[x] # <<>> /\ ResumeFrom(s, x)
          /\ u = Head(s.lists[x]) /\ curPrio'[u] = curPrio[u]
      BY <1>1, <1>4, <2>3, <2>6
    <3> QED
      BY ONLY <3>1, ResumeFromKeeps
  <2>9. /\ holds' \in [Task -> Nat]
        /\ \A v \in Task : status'[v] = "RUNNING" => status[v] = "RUNNING"
        /\ status'[t] = status[t]
    <3>1. /\ holds \in [Task -> Nat] /\ FewerHolds(t) \in Nat /\ t \in Task /\ u \in Task
          /\ status \in [Task -> Status] /\ u # t
          /\ status' = [status EXCEPT ![u] = "READY"]
          /\ holds' = [holds EXCEPT ![t] = FewerHolds(t), ![u] = @ + 1]
      BY <1>1, <1>4, <2>4, <2>5, <2>6, <2>8
    <3>2. holds' \in [Task -> Nat]
      BY ONLY <3>1
    <3> QED
      BY ONLY <3>1, <3>2
  <2>10. Inv'
    <3>1. /\ Inv /\ Executes(t) /\ pc[t] = "app" /\ SchedInv'
          /\ sched' \in SchedType /\ status' \in [Task -> Status] /\ msg' \in [Task -> MsgType]
          /\ curPrio' \in [Task -> Prio] /\ mask' \in [Task -> Prio]
          /\ holds' \in [Task -> Nat]
          /\ timerList' \in Seq(Task) /\ due' \in Seq(Task) /\ left' \in [Task -> Int]
          /\ Goto(t, label)
          /\ \A v \in Task : status'[v] = "RUNNING" => status[v] = "RUNNING"
          /\ status'[t] = status[t]
          /\ UNCHANGED <<current, initPrio, slice, tick, firing, arg, idleDone, fault>>
      BY <1>1, <1>3, <1>4, <2>7, <2>8, <2>9
    <3> QED
      BY ONLY <3>1, TaskStepKeepsInv, t \in User, label \in {"app", "switch"}
  <2>11. msg' = [msg EXCEPT ![u] = [NoMsg EXCEPT !.notify = "OK"]]
    BY <2>3, <2>6 DEF ResumeFrom
  <2> QED
    BY <1>6, <2>2, <2>4, <2>5, <2>8, <2>10, <2>11
<1> QED
  BY <1>5, <1>6

LEMMA DeleteKeepsInv ==
  ASSUME MutexInv, NEW t \in User, DeleteMutex(t)
  PROVE  Inv'
<1> USE MutexFacts
<1>1. /\ t \in Task /\ Ready(t) /\ Executes(t) /\ pc[t] = "app" /\ Inv
      /\ call[t] = "delete"
  BY CallerReady DEF MutexInv, DeleteMutex
<1>2. PICK x \in Mutex : x = obj[t]
  BY <1>1 DEF MutexInv, CallInv, CallOK
<1>3. PICK u \in Task \cup {NoTask} : u = owner[x]
  OBVIOUS
<1>4. /\ WakeAll(Waiters(x))
      /\ IF u = NoTask
         THEN sched' = AllResumed(Waiters(x)) /\ UNCHANGED <<curPrio, mask, holds>>
         ELSE /\ sched' = RestoredLists(AllResumed(Waiters(x)), u)
              /\ curPrio' = Restored(u) /\ mask' = MaskFor(curPrio')
              /\ holds' = [holds EXCEPT ![u] = FewerHolds(u)]
      /\ UNCHANGED <<current, initPrio, slice, tick, arg, idleDone, fault>>
  BY <1>2, <1>3 DEF DeleteMutex
<1>5. PICK q \in Seq(Task) :
        /\ q = Waiters(x) /\ q = sched.lists[x] /\ IsInjective(q)
        /\ \A v \in Range(q) : v \in Task /\ Waits(v, x)
  <2>1. x \in Ipc /\ IType /\ curPrio \in [Task -> Prio] /\ ListsAgree(sched, curPrio)
    OBVIOUS
  <2> QED
    BY <2>1, BlockedNodes DEF Waiters
<1>6. PICK r : r = AllResumed(q)
  OBVIOUS
<1>7. /\ r \in SchedType /\ InjectiveLists(r.lists)
      /\ \A l \in ListId : \A v \in Task :
           InList(r, v, l) <=> IF v \in Range(q) THEN l = curPrio[v]
                               ELSE InList(sched, v, l)
  BY <1>5, <1>6, AllResumedSched
<1>8. \A v \in Task, l \in ListId : InList(sched, v, l) <=> l \in Place(v, curPrio[v])
  BY DEF ListsAgree, InPlace
<1>9. /\ sched' \in SchedType /\ InjectiveLists(sched'.lists)
      /\ curPrio' \in [Task -> Prio] /\ holds' \in [Task -> Nat]
      /\ \A v \in Task, l \in ListId :
           InList(sched', v, l) <=> IF v \in Range(q) THEN l = curPrio'[v]
                                    ELSE l \in Place(v, curPrio'[v])
  <2>1. CASE sched' = r /\ UNCHANGED <<curPrio, holds>>
    BY <1>7, <1>8, <2>1
  <2>2. CASE u # NoTask /\ Restored(u) # curPrio
    <3>1. /\ sched' = Reprioritised(r, u, Restored(u)) /\ curPrio' = Restored(u)
          /\ holds' = [holds EXCEPT ![u] = FewerHolds(u)] /\ u \in Task
      BY <1>4, <1>5, <1>6, <2>2 DEF RestoredLists
    <3>2. u \notin Range(q)
      BY <1>3, <1>5, <2>2 DEF MutexInv, CallInv, CallOK
    <3>3. InPlace(r, u, curPrio[u])
      BY <1>7, <1>8, <3>1, <3>2 DEF InPlace
    <3>4. PICK prio \in [Task -> Prio] :
            prio = Restored(u) /\ \A v \in Task : v # u => prio[v] = curPrio[v]
      BY <3>1, RestoredFacts
    <3>5. PICK s : s = Reprioritised(r, u, prio)
      OBVIOUS
    <3>6. /\ s \in SchedType /\ InjectiveLists(s.lists)
          /\ \A l \in ListId : \A v : v # u => (InList(s, v, l) <=> InList(r, v, l))
          /\ InPlace(s, u, prio[u])
      BY <1>7, <3>1, <3>3, <3>4, <3>5, ReprioritisedSched
    <3>7. holds' \in [Task -> Nat]
      BY <3>1, RestoredFacts
    <3>8. sched' = s /\ curPrio' = prio
      BY <3>1, <3>4, <3>5
    <3>9. ASSUME NEW v \in Task, NEW l \in ListId
          PROVE  InList(s, v, l) <=> IF v \in Range(q) THEN l = prio[v]
                                     ELSE l \in Place(v, prio[v])
      <4>1. CASE v = u
        BY <3>2, <3>6, <4>1 DEF InPlace
      <4>2. CASE v # u
        BY <1>7, <1>8, <3>4, <3>6, <4>2
      <4> QED
        BY <4>1, <4>2
    <3> QED
      BY <3>4, <3>6, <3>7, <3>8, <3>9
  <2>3. CASE u # NoTask /\ Restored(u) = curPrio
    <3>1. /\ sched' = r /\ curPrio' = curPrio
          /\ holds' = [holds EXCEPT ![u] = FewerHolds(u)] /\ u \in Task
      BY <1>4, <1>5, <1>6, <2>3 DEF RestoredLists
    <3>2. holds' \in [Task -> Nat]
      BY <3>1, RestoredFacts
    <3> QED
      BY <1>7, <1>8, <3>1, <3>2
  <2> QED
    BY <1>4, <1>5, <1>6, <2>1, <2>2, <2>3
<1>13. mask' \in [Task -> Prio]
  BY <1>4, <1>9, MaskForType
<1>10. /\ SchedInv'
       /\ \A v \in Task : \/ status'[v] = status[v]
                          \/ status[v] = "BLOCKED" /\ status'[v] = "READY"
       /\ status' \in [Task -> Status] /\ msg' \in [Task -> MsgType]
       /\ timerList' \in Seq(Task) /\ due' \in Seq(Task) /\ left' \in [Task -> Int]
       /\ UNCHANGED firing
  <2>1. x \in Ipc /\ WakeAll(sched.lists[x])
    BY <1>4, <1>5
  <2> QED
    BY <1>5, <1>9, <2>1, WakeAllKeeps
<1>11. PICK label \in {"app", "switch"} : Goto(t, label)
  BY DEF DeleteMutex
<1>12. /\ \A v \in Task : status'[v] = "RUNNING" => status[v] = "RUNNING"
       /\ status'[t] = status[t]
  BY <1>1, <1>10 DEF Ready
<1> QED
  BY <1>1, <1>4, <1>9, <1>10, <1>11, <1>12, <1>13, TaskStepKeepsInv

-----------------------------------------------------------------------------
(* Owners and callers from step to step *)

(* A step that leaves a task's call and state alone may only take mutexes  *)
(* from it.                                                                *)
LEMMA CallFrame ==
  ASSUME NEW t \in Task, CallOK(t), call'[t] = call[t], obj'[t] = obj[t],
         status'[t] = status[t], msg'[t] = msg[t],
         \A x \in Mutex : owner'[x] = t => owner[x] = t /\ (x \in valid => x \in valid')
  PROVE  CallOK(t)'
<1>1. \A x \in Mutex : Waits(t, x)' <=> Waits(t, x)
  BY DEF Waits
<1> QED
  BY <1>1 DEF CallOK

(* A task in its own code waits for nothing.                               *)
LEMMA CallerSettled ==
  ASSUME MutexInv, NEW t \in User, NEW at, In(t, at), status'[t] = status[t],
         NEW next \in {"none", "take", "give", "delete"}, NEW y,
         GotoCall(t, next), obj' = [obj EXCEPT ![t] = y],
         next # "none" => y \in Mutex, next = "give" => y \in valid'
  PROVE  /\ CallOK(t)'
         /\ call' \in [Task -> Places]
         /\ \A u \in Task : u # t => call'[u] = call[u] /\ obj'[u] = obj[u]
<1> USE MutexFacts
<1>1. t \in Task /\ Ready(t)
  BY CallerReady DEF MutexInv
<1>2. /\ call'[t] = next /\ obj'[t] = y /\ call' \in [Task -> Places]
      /\ \A u \in Task : u # t => call'[u] = call[u] /\ obj'[u] = obj[u]
  BY <1>1 DEF GotoCall, Places
<1>3. /\ status'[t] # "BLOCKED" /\ status'[t] # "INIT" /\ \A x \in Mutex : ~Waits(t, x)'
  BY <1>1 DEF Ready, Waits
<1>4. CallOK(t)'
  BY <1>2, <1>3 DEF CallOK
<1> QED
  BY <1>1, <1>2, <1>4

LEMMA ReturnFacts ==
  ASSUME MutexInv, NEW t \in User, NEW at, In(t, at), Return(t), status'[t] = status[t]
  PROVE  /\ CallOK(t)'
         /\ call' \in [Task -> Places]
         /\ obj' \in [Task -> Mutex \cup {NoIpc}]
         /\ \A u \in Task : u # t => call'[u] = call[u] /\ obj'[u] = obj[u]
<1> USE MutexFacts
<1>1. /\ GotoCall(t, "none") /\ obj' = [obj EXCEPT ![t] = NoIpc]
  BY DEF Return
<1>2. obj' \in [Task -> Mutex \cup {NoIpc}]
  BY <1>1
<1>3. /\ MutexInv /\ In(t, at) /\ status'[t] = status[t] /\ "none" \in {"none", "take", "give", "delete"}
      /\ "none" # "none" => NoIpc \in Mutex
      /\ "none" = "give" => NoIpc \in valid'
  OBVIOUS
<1> QED
  BY ONLY <1>1, <1>2, <1>3, CallerSettled, t \in User

LEMMA EnterKeeps ==
  ASSUME MutexInv, NEW t \in User, NEW f \in {"take", "give", "delete"}, NEW x \in Mutex,
         Enter(t, f, x)
  PROVE  MutexInv'
<1> USE MutexFacts
<1>1. /\ In(t, "none") /\ GotoCall(t, f) /\ obj' = [obj EXCEPT ![t] = x] /\ x \in valid
      /\ UNCHANGED <<isr, owner, hold, valid>> /\ UNCHANGED vars
  BY DEF Enter
<1>2. UNCHANGED <<status, msg, prioIpc, sched>> /\ UNCHANGED valid /\ UNCHANGED owner
  BY <1>1 DEF vars, taskVars
<1>3. /\ CallOK(t)' /\ call' \in [Task -> Places]
      /\ \A u \in Task : u # t => call'[u] = call[u] /\ obj'[u] = obj[u]
  <2>1. /\ MutexInv /\ In(t, "none") /\ status'[t] = status[t]
        /\ f \in {"none", "take", "give", "delete"} /\ GotoCall(t, f)
        /\ obj' = [obj EXCEPT ![t] = x] /\ x \in Mutex /\ x \in valid'
    BY <1>1, <1>2
  <2> QED
    BY ONLY <2>1, CallerSettled, t \in User
<1>4. \A u \in Task : CallOK(u)
  BY DEF MutexInv, CallInv
<1>5. ASSUME NEW u \in Task, u # t PROVE CallOK(u)'
  <2>1. /\ CallOK(u) /\ call'[u] = call[u] /\ obj'[u] = obj[u]
        /\ status'[u] = status[u] /\ msg'[u] = msg[u]
        /\ \A z \in Mutex : owner'[z] = u => owner[z] = u /\ (z \in valid => z \in valid')
    BY <1>2, <1>3, <1>4, <1>5
  <2> QED
    BY ONLY <2>1, CallFrame, u \in Task
<1>6. CallInv'
  BY <1>3, <1>5 DEF CallInv
<1>7. OwnerInv'
  BY <1>1, <1>2 DEF MutexInv, OwnerInv, Waits
<1>8. MutexType'
  <2>1. obj' \in [Task -> Mutex \cup {NoIpc}]
    BY <1>1
  <2> QED
    BY <1>1, <1>2, <1>3, <2>1 DEF MutexInv, MutexType
<1>9. Inv'
  BY <1>1, FrameKeepsInv DEF MutexInv
<1> QED
  BY <1>6, <1>7, <1>8, <1>9 DEF MutexInv

(* A function returns, with its mutex owned by the same task, by the       *)
(* caller or by nobody.                                                    *)
LEMMA ReturnKeepsCalls ==
  ASSUME MutexInv, NEW t \in User, NEW at, In(t, at), Return(t),
         UNCHANGED <<status, msg, valid>>, NEW x \in Mutex,
         \A z \in Mutex : z # x => owner'[z] = owner[z],
         owner'[x] \in {owner[x], t, NoTask}
  PROVE  /\ CallInv'
         /\ call' \in [Task -> Places]
         /\ obj' \in [Task -> Mutex \cup {NoIpc}]
<1> USE MutexFacts
<1>0. UNCHANGED valid /\ UNCHANGED status /\ UNCHANGED msg
  OBVIOUS
<1>1. /\ CallOK(t)' /\ call' \in [Task -> Places]
      /\ obj' \in [Task -> Mutex \cup {NoIpc}]
      /\ \A u \in Task : u # t => call'[u] = call[u] /\ obj'[u] = obj[u]
  <2>1. MutexInv /\ In(t, at) /\ Return(t) /\ status'[t] = status[t]
    OBVIOUS
  <2> QED
    BY ONLY <2>1, ReturnFacts, t \in User
<1>2. \A u \in Task : CallOK(u)
  BY DEF MutexInv, CallInv
<1>3. ASSUME NEW u \in Task, u # t PROVE CallOK(u)'
  <2>1. /\ CallOK(u) /\ call'[u] = call[u] /\ obj'[u] = obj[u]
        /\ status'[u] = status[u] /\ msg'[u] = msg[u]
        /\ \A z \in Mutex : owner'[z] = u => owner[z] = u /\ (z \in valid => z \in valid')
    BY <1>0, <1>1, <1>2, <1>3
  <2> QED
    BY ONLY <2>1, CallFrame, u \in Task
<1> QED
  BY <1>1, <1>3 DEF CallInv

LEMMA ReturnKeepsMutex ==
  ASSUME MutexInv, NEW t \in User, NEW at, In(t, at), Return(t),
         UNCHANGED <<status, msg, valid, isr, prioIpc>>, NEW x \in Mutex,
         NEW o \in {owner[x], t, NoTask}, NEW n \in 0 .. HoldMax, Owned(x, o, n),
         o = NoTask <=> n = 0, o = NoTask => \A u \in Task : ~Waits(u, x),
         Inv'
  PROVE  MutexInv'
<1> USE MutexFacts
<1>1. /\ owner' = [owner EXCEPT ![x] = o] /\ hold' = [hold EXCEPT ![x] = n]
      /\ o \in Task \cup {NoTask}
  BY DEF Owned
<1>2. /\ owner' \in [Mutex -> Task \cup {NoTask}] /\ hold' \in [Mutex -> 0 .. HoldMax]
      /\ owner'[x] = o /\ hold'[x] = n
      /\ \A z \in Mutex : z # x => owner'[z] = owner[z] /\ hold'[z] = hold[z]
  BY <1>1
<1>3. /\ CallInv' /\ call' \in [Task -> Places]
      /\ obj' \in [Task -> Mutex \cup {NoIpc}]
  <2>1. /\ MutexInv /\ In(t, at) /\ Return(t) /\ UNCHANGED <<status, msg, valid>>
        /\ \A z \in Mutex : z # x => owner'[z] = owner[z]
        /\ owner'[x] \in {owner[x], t, NoTask}
    BY <1>2
  <2> QED
    BY ONLY <2>1, ReturnKeepsCalls, t \in User, x \in Mutex
<1>4. \A u \in Task, z \in Mutex : Waits(u, z)' <=> Waits(u, z)
  BY DEF Waits
<1>5. OwnerInv'
  BY <1>2, <1>4, SMTT(30) DEF MutexInv, OwnerInv
<1>6. MutexType'
  BY <1>2, <1>3 DEF MutexInv, MutexType
<1> QED
  BY <1>3, <1>5, <1>6 DEF MutexInv

LEMMA TakeNowKeeps ==
  ASSUME MutexInv, NEW t \in User, NEW x \in Mutex, NEW n, In(t, "take"), TakeNow(t, x, n),
         UNCHANGED <<isr, valid>>
  PROVE  MutexInv'
<1> USE MutexFacts
<1>1. Inv'
  BY TakeNowKeepsInv
<1>2. Return(t) /\ UNCHANGED <<status, msg, valid, isr, prioIpc>>
  BY DEF TakeNow
<1>3. /\ owner[x] \in Task \cup {NoTask} /\ hold[x] \in 0 .. HoldMax
      /\ owner[x] = NoTask <=> hold[x] = 0
      /\ owner[x] = NoTask => \A u \in Task : ~Waits(u, x)
      /\ t \in Task /\ t # NoTask
  BY DEF MutexInv, OwnerInv
<1>4. PICK o \in {owner[x], t, NoTask}, m \in 0 .. HoldMax :
        /\ Owned(x, o, m) /\ (o = NoTask <=> m = 0)
        /\ o = NoTask => \A u \in Task : ~Waits(u, x)
  <2>1. CASE UNCHANGED <<owner, hold>>
    <3>1. Owned(x, owner[x], hold[x])
      BY <2>1 DEF Owned
    <3> QED
      BY <1>3, <3>1
  <2>2. CASE ~AtHoldMax(x) /\ owner[x] = t /\ Owned(x, t, hold[x] + 1)
    <3>1. hold[x] + 1 \in 0 .. HoldMax /\ hold[x] + 1 # 0
      BY <1>3, <2>2 DEF AtHoldMax
    <3> QED
      BY <1>3, <2>2, <3>1
  <2>3. CASE Free(x) /\ Owned(x, t, 1)
    BY <1>3, <2>3
  <2> QED
    BY <2>1, <2>2, <2>3 DEF TakeNow
<1>5. /\ MutexInv /\ In(t, "take") /\ Return(t)
      /\ UNCHANGED <<status, msg, valid, isr, prioIpc>>
      /\ Owned(x, o, m) /\ (o = NoTask <=> m = 0)
      /\ o = NoTask => \A u \in Task : ~Waits(u, x)
      /\ Inv'
  BY <1>1, <1>2, <1>4
<1> QED
  BY ONLY <1>5, ReturnKeepsMutex, t \in User, x \in Mutex, o \in {owner[x], t, NoTask},
          m \in 0 .. HoldMax

LEMMA TakeWaitKeeps ==
  ASSUME MutexInv, NEW t \in User, NEW x \in Mutex, NEW n \in {Forever} \cup 0 .. MaxWait,
         In(t, "take"), x = obj[t], TakeWait(t, x, n), UNCHANGED <<isr, valid>>
  PROVE  MutexInv'
<1> USE MutexFacts
<1>1. /\ Inv' /\ status' = [status EXCEPT ![t] = "BLOCKED"]
      /\ msg' = [msg EXCEPT ![t] = [source |-> x, reason |-> "IPC", notify |-> "NONE"]]
  BY TakeWaitKeepsInv
<1>2. /\ call' = [call EXCEPT ![t] = "wait"] /\ UNCHANGED <<owner, hold, obj, isr, valid, prioIpc>>
      /\ ~Free(x) /\ owner[x] # t /\ t \in Task
  BY DEF TakeWait, GotoCall, BlockFrom
<1>3. UNCHANGED obj /\ UNCHANGED owner /\ UNCHANGED hold /\ UNCHANGED valid
  BY <1>2
<1>4. /\ status'[t] = "BLOCKED" /\ call'[t] = "wait" /\ call' \in [Task -> Places]
      /\ msg'[t].source = x /\ msg'[t].reason = "IPC" /\ msg'[t].notify = "NONE"
      /\ \A u \in Task : u # t => /\ status'[u] = status[u] /\ msg'[u] = msg[u]
                                  /\ call'[u] = call[u]
  BY <1>1, <1>2 DEF Places
<1>5. \A u \in Task, z \in Mutex : Waits(u, z)' <=> IF u = t THEN z = x ELSE Waits(u, z)
  BY <1>4 DEF Waits
<1>6. owner[x] # NoTask
  BY <1>2 DEF MutexInv, OwnerInv, Free
<1>7. OwnerInv'
  BY <1>3, <1>5, <1>6 DEF MutexInv, OwnerInv
<1>8. \A u \in Task : CallOK(u)
  BY DEF MutexInv, CallInv
<1>9. CallOK(t)'
  BY <1>2, <1>3, <1>4, <1>5 DEF CallOK
<1>10. ASSUME NEW u \in Task, u # t PROVE CallOK(u)'
  <2>1. /\ CallOK(u) /\ call'[u] = call[u] /\ obj'[u] = obj[u]
        /\ status'[u] = status[u] /\ msg'[u] = msg[u]
        /\ \A z \in Mutex : owner'[z] = u => owner[z] = u /\ (z \in valid => z \in valid')
    BY <1>3, <1>4, <1>8, <1>10
  <2> QED
    BY ONLY <2>1, CallFrame, u \in Task
<1>11. CallInv'
  BY <1>9, <1>10 DEF CallInv
<1>12. MutexType'
  BY <1>2, <1>3, <1>4 DEF MutexInv, MutexType
<1> QED
  BY <1>1, <1>7, <1>11, <1>12 DEF MutexInv

LEMMA HandOverKeeps ==
  ASSUME MutexInv, NEW t \in User, NEW x \in Mutex, In(t, "give"), x = obj[t], owner[x] = t,
         Release(t, x), Return(t), UNCHANGED <<isr, valid>>
  PROVE  MutexInv'
<1> USE MutexFacts
<1>1. /\ Inv'
      /\ Waiters(x) = <<>> => UNCHANGED <<status, msg>>
      /\ Waiters(x) # <<>> =>
           LET u == Head(Waiters(x)) IN
           /\ u \in Task /\ Waits(u, x) /\ u # t
           /\ status' = [status EXCEPT ![u] = "READY"]
           /\ msg' = [msg EXCEPT ![u] = [NoMsg EXCEPT !.notify = "OK"]]
  BY ReleaseKeepsInv
<1>2. UNCHANGED <<prioIpc, isr, valid>> /\ UNCHANGED valid /\ t \in Task /\ Inv /\ x \in Ipc
  BY DEF Release, MutexInv
<1>3. CASE Waiters(x) = <<>>
  <2>1. Owned(x, NoTask, 0) /\ UNCHANGED <<status, msg>>
    BY <1>1, <1>3 DEF Release, NextOwner
  <2>2. \A u \in Task : ~Waits(u, x)
    <3>1. \A u : u \in Range(sched.lists[x]) <=> u \in Task /\ Waits(u, x)
      BY ONLY <1>1, <1>2, WaitersAre
    <3> QED
      BY <3>1, <1>3 DEF Waiters, Range
  <2>3. /\ MutexInv /\ In(t, "give") /\ Return(t)
        /\ UNCHANGED <<status, msg, valid, isr, prioIpc>>
        /\ Owned(x, NoTask, 0) /\ (NoTask = NoTask <=> 0 = 0)
        /\ NoTask = NoTask => \A u \in Task : ~Waits(u, x)
        /\ Inv' /\ NoTask \in {owner[x], t, NoTask} /\ 0 \in 0 .. HoldMax
    BY <1>1, <1>2, <2>1, <2>2
  <2> QED
    BY ONLY <2>3, ReturnKeepsMutex, t \in User, x \in Mutex
<1>4. CASE Waiters(x) # <<>>
  <2>1. PICK u : u = Head(Waiters(x))
    OBVIOUS
  <2>2. /\ u \in Task /\ Waits(u, x) /\ u # t
        /\ status' = [status EXCEPT ![u] = "READY"]
        /\ msg' = [msg EXCEPT ![u] = [NoMsg EXCEPT !.notify = "OK"]]
    BY <1>1, <1>4, <2>1
  <2>3. owner' = [owner EXCEPT ![x] = u] /\ hold' = [hold EXCEPT ![x] = 1]
    BY <1>4, <2>1 DEF Release, NextOwner, Owned
  <2>4. /\ owner' \in [Mutex -> Task \cup {NoTask}] /\ hold' \in [Mutex -> 0 .. HoldMax]
        /\ owner'[x] = u /\ hold'[x] = 1 /\ u # NoTask
        /\ \A z \in Mutex : z # x => owner'[z] = owner[z] /\ hold'[z] = hold[z]
    BY <2>2, <2>3
  <2>5. /\ status'[u] = "READY" /\ msg'[u].notify = "OK"
        /\ \A v \in Task : v # u => status'[v] = status[v] /\ msg'[v] = msg[v]
    BY <2>2 DEF NoMsg
  <2>6. /\ CallOK(t)' /\ call' \in [Task -> Places]
        /\ obj' \in [Task -> Mutex \cup {NoIpc}]
        /\ \A v \in Task : v # t => call'[v] = call[v] /\ obj'[v] = obj[v]
    <3>1. MutexInv /\ In(t, "give") /\ Return(t) /\ status'[t] = status[t]
      BY <1>2, <2>2, <2>5
    <3> QED
      BY ONLY <3>1, ReturnFacts, t \in User
  <2>7. \A v \in Task : CallOK(v)
    BY DEF MutexInv, CallInv
  <2>8. \A v \in Task, z \in Mutex : Waits(v, z)' <=> v # u /\ Waits(v, z)
    BY <2>5 DEF Waits
  <2>9. CallOK(u)'
    <3>1. call[u] = "wait" /\ obj[u] = x /\ u \in User
      BY <2>2, <2>7 DEF CallOK
    <3> QED
      BY <2>2, <2>5, <2>6, <2>8, <3>1 DEF CallOK
  <2>10. ASSUME NEW v \in Task, v # t, v # u PROVE CallOK(v)'
    <3>1. /\ CallOK(v) /\ call'[v] = call[v] /\ obj'[v] = obj[v]
          /\ status'[v] = status[v] /\ msg'[v] = msg[v]
          /\ \A z \in Mutex : owner'[z] = v => owner[z] = v /\ (z \in valid => z \in valid')
      BY <1>2, <2>4, <2>5, <2>6, <2>7, <2>10
    <3> QED
      BY ONLY <3>1, CallFrame, v \in Task
  <2>11. CallInv'
    BY <2>6, <2>9, <2>10 DEF CallInv
  <2>12. OwnerInv'
    <3>1. \A z \in Mutex :
            /\ owner[z] = NoTask <=> hold[z] = 0
            /\ owner[z] = NoTask => \A v \in Task : ~Waits(v, z)
      BY DEF MutexInv, OwnerInv
    <3>2. ASSUME NEW z \in Mutex
          PROVE  /\ owner'[z] = NoTask <=> hold'[z] = 0
                 /\ owner'[z] = NoTask => \A v \in Task : ~Waits(v, z)'
      <4>1. CASE z = x
        BY <2>4, <4>1
      <4>2. CASE z # x
        <5>1. owner'[z] = owner[z] /\ hold'[z] = hold[z]
          BY <2>4, <4>2
        <5>2. \A v \in Task : Waits(v, z)' => Waits(v, z)
          BY <2>8
        <5> QED
          BY ONLY <3>1, <5>1, <5>2, z \in Mutex
      <4> QED
        BY <4>1, <4>2
    <3> QED
      BY <3>2 DEF OwnerInv
  <2>13. MutexType'
    BY <1>2, <2>4, <2>6 DEF MutexInv, MutexType
  <2> QED
    BY <1>1, <2>11, <2>12, <2>13 DEF MutexInv
<1> QED
  BY <1>3, <1>4

LEMMA GiveKeeps ==
  ASSUME MutexInv, NEW t \in User, Give(t)
  PROVE  MutexInv'
<1> USE MutexFacts
<1>1. /\ In(t, "give") /\ Return(t) /\ UNCHANGED <<isr, valid>> /\ t \in Task
      /\ call[t] = "give"
  BY DEF Give, In
<1>2. PICK x \in Mutex : x = obj[t]
  BY <1>1 DEF MutexInv, CallInv, CallOK
<1>3. /\ owner[x] \in Task \cup {NoTask} /\ hold[x] \in 0 .. HoldMax
      /\ owner[x] = NoTask <=> hold[x] = 0
      /\ owner[x] = NoTask => \A u \in Task : ~Waits(u, x)
      /\ t # NoTask
  BY <1>1 DEF MutexInv, OwnerInv
<1>4. CASE owner[x] = t /\ hold[x] = 1 /\ Release(t, x)
  BY <1>1, <1>2, <1>4, HandOverKeeps
<1>5. ASSUME UNCHANGED vars, NEW m \in 0 .. HoldMax, Owned(x, owner[x], m),
             owner[x] = NoTask <=> m = 0
      PROVE  MutexInv'
  <2>1. Inv' /\ UNCHANGED <<status, msg, prioIpc>>
    BY <1>5, FrameKeepsInv DEF MutexInv, vars, taskVars
  <2>2. /\ MutexInv /\ In(t, "give") /\ Return(t)
        /\ UNCHANGED <<status, msg, valid, isr, prioIpc>>
        /\ Owned(x, owner[x], m) /\ (owner[x] = NoTask <=> m = 0)
        /\ owner[x] = NoTask => \A u \in Task : ~Waits(u, x)
        /\ Inv' /\ owner[x] \in {owner[x], t, NoTask}
    BY <1>1, <1>3, <1>5, <2>1
  <2> QED
    BY ONLY <2>2, ReturnKeepsMutex, t \in User, x \in Mutex, m \in 0 .. HoldMax
<1>6. CASE UNCHANGED <<vars, owner, hold>>
  <2>1. Owned(x, owner[x], hold[x])
    BY <1>6 DEF Owned
  <2> QED
    BY <1>3, <1>5, <1>6, <2>1
<1>7. CASE owner[x] = t /\ hold[x] > 1 /\ Owned(x, t, hold[x] - 1) /\ UNCHANGED vars
  <2>1. hold[x] - 1 \in 0 .. HoldMax /\ hold[x] - 1 # 0
    BY <1>3, <1>7
  <2> QED
    BY <1>3, <1>5, <1>7, <2>1
<1> QED
  BY <1>2, <1>4, <1>6, <1>7 DEF Give

LEMMA DeleteKeeps ==
  ASSUME MutexInv, NEW t \in User, DeleteMutex(t)
  PROVE  MutexInv'
<1> USE MutexFacts
<1>1. /\ In(t, "delete") /\ Return(t) /\ UNCHANGED isr /\ t \in Task
      /\ call[t] = "delete"
  BY DEF DeleteMutex, In
<1>2. PICK x \in Mutex : x = obj[t]
  BY <1>1 DEF MutexInv, CallInv, CallOK
<1>3. /\ Inv' /\ Inv /\ x \in Ipc /\ Ready(t)
  BY <1>1, DeleteKeepsInv, CallerReady DEF MutexInv
<1>4. /\ owner' = [owner EXCEPT ![x] = NoTask] /\ hold' = [hold EXCEPT ![x] = 0]
      /\ valid' = valid \ {x} /\ prioIpc' = prioIpc \ {x}
  BY <1>2 DEF DeleteMutex, Owned
<1>5. /\ owner' \in [Mutex -> Task \cup {NoTask}] /\ hold' \in [Mutex -> 0 .. HoldMax]
      /\ owner'[x] = NoTask /\ hold'[x] = 0
      /\ \A z \in Mutex : z # x => owner'[z] = owner[z] /\ hold'[z] = hold[z]
  BY <1>4
<1>6. PICK R : R = Range(Waiters(x))
  OBVIOUS
<1>7. \A v : v \in R <=> v \in Task /\ Waits(v, x)
  BY ONLY <1>3, <1>6, WaitersAre DEF Waiters
<1>8. /\ \A v \in Task : v \in R => status'[v] = "READY" /\ msg'[v].notify = "DELETED"
      /\ \A v \in Task : v \notin R => status'[v] = status[v] /\ msg'[v] = msg[v]
  <2>1. /\ status' = [v \in Task |-> IF v \in R THEN "READY" ELSE status[v]]
        /\ msg' = [v \in Task |-> IF v \in R THEN [NoMsg EXCEPT !.notify = "DELETED"]
                                  ELSE msg[v]]
    BY <1>2, <1>6 DEF DeleteMutex, WakeAll
  <2> QED
    BY <2>1 DEF NoMsg
<1>9. t \notin R
  BY <1>3, <1>7 DEF Ready, Waits
<1>10. /\ CallOK(t)' /\ call' \in [Task -> Places]
       /\ obj' \in [Task -> Mutex \cup {NoIpc}]
       /\ \A v \in Task : v # t => call'[v] = call[v] /\ obj'[v] = obj[v]
  <2>1. MutexInv /\ In(t, "delete") /\ Return(t) /\ status'[t] = status[t]
    BY <1>1, <1>8, <1>9
  <2> QED
    BY ONLY <2>1, ReturnFacts, t \in User
<1>11. \A v \in Task : CallOK(v)
  BY DEF MutexInv, CallInv
<1>12. \A v \in Task, z \in Mutex : Waits(v, z)' <=> v \notin R /\ Waits(v, z)
  BY <1>8 DEF Waits
<1>13. ASSUME NEW v \in Task, v # t, v \in R PROVE CallOK(v)'
  <2>1. call[v] = "wait" /\ obj[v] = x /\ v \in User
    BY <1>7, <1>11, <1>13 DEF CallOK
  <2> QED
    BY <1>5, <1>8, <1>10, <1>12, <1>13, <2>1 DEF CallOK
<1>14. ASSUME NEW v \in Task, v # t, v \notin R PROVE CallOK(v)'
  <2>1. /\ CallOK(v) /\ call'[v] = call[v] /\ obj'[v] = obj[v]
        /\ status'[v] = status[v] /\ msg'[v] = msg[v]
        /\ \A z \in Mutex : owner'[z] = v => owner[z] = v /\ (z \in valid => z \in valid')
    BY <1>4, <1>5, <1>8, <1>10, <1>11, <1>14
  <2> QED
    BY ONLY <2>1, CallFrame, v \in Task
<1>15. CallInv'
  BY <1>10, <1>13, <1>14 DEF CallInv
<1>16. OwnerInv'
  BY <1>5, <1>7, <1>12 DEF MutexInv, OwnerInv
<1>17. MutexType'
  BY <1>1, <1>4, <1>5, <1>10 DEF MutexInv, MutexType
<1> QED
  BY <1>3, <1>15, <1>16, <1>17 DEF MutexInv

LEMMA KernelKeepsMutex ==
  ASSUME MutexInv, MutexKernelStep
  PROVE  MutexInv'
<1> USE MutexFacts
<1>1. /\ KernelStep /\ Inv /\ Next /\ UNCHANGED <<owner, hold, valid>>
      /\ UNCHANGED <<isr, prioIpc>>
      /\ obj' = [t \in Task |-> IF call'[t] = "none" THEN NoIpc ELSE obj[t]]
      /\ call' = [t \in Task |-> IF status'[t] = "INIT" THEN "none" ELSE call[t]]
  BY KernelStepIsNext DEF MutexKernelStep, KernelStep, Restarted, MutexInv
<1>2. Inv' /\ UNCHANGED owner /\ UNCHANGED hold /\ UNCHANGED valid
  BY <1>1, InvStep
<1>3. \A t \in Task : Told(t)
  BY <1>1, KernelDisturbsOne
<1>4. \A t \in Task, x \in Mutex : Waits(t, x)' => Waits(t, x)
  BY <1>1, KernelBlocksNobody
<1>5. ASSUME NEW t \in Task, status'[t] = "BLOCKED"
      PROVE  \/ status[t] = "BLOCKED" /\ msg'[t] = msg[t]
             \/ msg'[t].notify = "NONE"
  BY <1>1, <1>5, BlockedBySleep DEF NoMsg
<1>6. call' \in [Task -> Places] /\ obj' \in [Task -> Mutex \cup {NoIpc}]
  BY <1>1 DEF Places
<1>7. \A t \in Task : CallOK(t)
  BY DEF MutexInv, CallInv
<1>8. ASSUME NEW t \in Task PROVE CallOK(t)'
  <2>1. /\ call'[t] = IF status'[t] = "INIT" THEN "none" ELSE call[t]
        /\ call'[t] # "none" => obj'[t] = obj[t] /\ call[t] = call'[t]
    BY <1>1
  <2>2. \A x \in Mutex : Waits(t, x)' => call'[t] = "wait" /\ obj'[t] = x /\ owner'[x] # t
    <3>1. ASSUME NEW x \in Mutex, Waits(t, x)'
          PROVE  call'[t] = "wait" /\ obj'[t] = x /\ owner'[x] # t
      <4>1. status'[t] # "INIT" /\ Waits(t, x)
        BY <1>4, <3>1 DEF Waits
      <4>2. call[t] = "wait" /\ obj[t] = x /\ owner[x] # t
        BY <1>7, <4>1 DEF CallOK
      <4> QED
        BY <1>2, <2>1, <4>1, <4>2
    <3> QED
      BY <3>1
  <2>3. status'[t] = "BLOCKED" => msg'[t].notify = "NONE"
    BY <1>5, <1>7 DEF CallOK
  <2>4. call'[t] = "wait" /\ owner'[obj'[t]] = t => msg'[t].notify = "OK" /\ status'[t] # "BLOCKED"
    <3> HAVE call'[t] = "wait" /\ owner'[obj'[t]] = t
    <3>1. call[t] = "wait" /\ owner[obj[t]] = t /\ status'[t] # "INIT"
      BY <1>2, <2>1
    <3>2. msg[t].notify = "OK" /\ status[t] # "BLOCKED"
      BY <1>7, <3>1 DEF CallOK
    <3> QED
      BY <1>3, <3>1, <3>2 DEF Told
  <2> QED
    BY <1>2, <1>7, <2>1, <2>2, <2>3, <2>4 DEF CallOK
<1>9. CallInv'
  BY <1>8 DEF CallInv
<1>10. OwnerInv'
  BY <1>2, <1>4 DEF MutexInv, OwnerInv
<1>11. MutexType'
  BY <1>1, <1>2, <1>6 DEF MutexInv, MutexType
<1> QED
  BY <1>2, <1>9, <1>10, <1>11 DEF MutexInv

LEMMA MutexInvStep == MutexInv /\ [MutexNext]_allVars => MutexInv'
<1> SUFFICES ASSUME MutexInv, [MutexNext]_allVars PROVE MutexInv'
  OBVIOUS
<1>1. ASSUME NEW t \in User, NEW n \in {Forever} \cup 0 .. MaxWait, Take(t, n) PROVE MutexInv'
  <2>1. In(t, "take") /\ t \in Task /\ call[t] = "take" /\ UNCHANGED <<isr, valid>>
    BY <1>1, MutexFacts DEF Take, In
  <2>2. PICK x \in Mutex : x = obj[t]
    BY <2>1 DEF MutexInv, CallInv, CallOK
  <2>3. TakeNow(t, x, n) \/ TakeWait(t, x, n)
    BY <1>1, <2>2 DEF Take
  <2> QED
    BY <2>1, <2>2, <2>3, TakeNowKeeps, TakeWaitKeeps
<1>2. ASSUME NEW t \in User, TakeReturn(t) PROVE MutexInv'
  <2>1. /\ In(t, "wait") /\ t \in Task /\ call[t] = "wait" /\ Return(t)
        /\ UNCHANGED vars /\ UNCHANGED <<isr, owner, hold, valid>>
    BY <1>2, MutexFacts DEF TakeReturn, In
  <2>2. PICK x \in Mutex : x = obj[t]
    BY <2>1 DEF MutexInv, CallInv, CallOK
  <2>3. Inv' /\ UNCHANGED <<status, msg, prioIpc>>
    BY <2>1, FrameKeepsInv DEF MutexInv, vars, taskVars
  <2>4. /\ MutexInv /\ In(t, "wait") /\ Return(t)
        /\ UNCHANGED <<status, msg, valid, isr, prioIpc>>
        /\ Owned(x, owner[x], hold[x]) /\ (owner[x] = NoTask <=> hold[x] = 0)
        /\ owner[x] = NoTask => \A u \in Task : ~Waits(u, x)
        /\ Inv' /\ owner[x] \in {owner[x], t, NoTask} /\ hold[x] \in 0 .. HoldMax
    BY <2>1, <2>3, MutexFacts DEF Owned, MutexInv, OwnerInv
  <2> QED
    BY ONLY <2>4, ReturnKeepsMutex, t \in User, x \in Mutex
<1>3. ASSUME UNCHANGED allVars PROVE MutexInv'
  <2>1. Inv' /\ UNCHANGED <<status, msg, prioIpc, call, isr, owner, hold, valid, obj>>
    BY <1>3, FrameKeepsInv DEF MutexInv, allVars, vars, taskVars, ipcVars, mutexVars
  <2> QED
    BY <2>1 DEF MutexInv, MutexType, OwnerInv, CallInv, CallOK, Waits
<1> QED
  BY <1>1, <1>2, <1>3, EnterKeeps, GiveKeeps, DeleteKeeps, KernelKeepsMutex
  DEF MutexNext, MutexStep

LEMMA MutexInvHolds == MutexSpec => []MutexInv
BY MutexInvInit, MutexInvStep, PTL DEF MutexSpec

-----------------------------------------------------------------------------
(* The abstract lock *)

W == [x \in Mutex |-> Range(Waiters(x))]

LEMMA WaitingIs ==
  ASSUME Inv, Inv', NEW f, f = [z \in Mutex |-> f[z]],
         \A z \in Mutex : \A u : u \in f[z] <=> u \in Task /\ Waits(u, z)'
  PROVE  W' = f
<1>1. W' = [z \in Mutex |-> Range(sched'.lists[z])]
  BY DEF W, Waiters
<1>2. ASSUME NEW z \in Mutex PROVE Range(sched'.lists[z]) = f[z]
  <2>1. z \in Ipc
    BY MutexAssumption
  <2>2. PICK R : R = Range(sched'.lists[z])
    OBVIOUS
  <2>3. \A u : u \in R <=> u \in Task /\ Waits(u, z)'
    BY ONLY Inv, Inv', <2>1, <2>2, WaitersAre
  <2>4. \A u : u \in R <=> u \in f[z]
    BY <2>3
  <2>5. R = f[z]
    BY ONLY <2>4
  <2> QED
    BY <2>2, <2>5
<1> QED
  BY <1>1, <1>2

LEMMA WaitingNow ==
  ASSUME Inv, Inv'
  PROVE  \A z \in Mutex : \A u : u \in W[z] <=> u \in Task /\ Waits(u, z)
<1>1. ASSUME NEW z \in Mutex PROVE \A u : u \in W[z] <=> u \in Task /\ Waits(u, z)
  <2>1. z \in Ipc
    BY MutexAssumption
  <2>2. PICK R : R = Range(sched.lists[z])
    OBVIOUS
  <2>3. \A u : u \in R <=> u \in Task /\ Waits(u, z)
    BY ONLY Inv, Inv', <2>1, <2>2, WaitersAre
  <2>4. W[z] = R
    BY <2>2 DEF W, Waiters
  <2> QED
    BY <2>3, <2>4
<1> QED
  BY <1>1

LEMMA WaitingSame ==
  ASSUME Inv, Inv', \A u \in Task, z \in Mutex : Waits(u, z)' <=> Waits(u, z)
  PROVE  W' = W
<1>1. W = [z \in Mutex |-> W[z]]
  BY DEF W
<1>2. \A z \in Mutex : \A u : u \in W[z] <=> u \in Task /\ Waits(u, z)'
  BY WaitingNow
<1> QED
  BY <1>1, <1>2, WaitingIs

LEMMA WaitingJoins ==
  ASSUME Inv, Inv', NEW x \in Mutex, NEW t \in Task,
         \A u \in Task, z \in Mutex : Waits(u, z)' <=> (u = t /\ z = x) \/ Waits(u, z)
  PROVE  W' = [W EXCEPT ![x] = @ \cup {t}]
<1> DEFINE f == [W EXCEPT ![x] = @ \cup {t}]
<1>1. f = [z \in Mutex |-> f[z]]
  BY DEF W
<1>2. \A z \in Mutex : f[z] = IF z = x THEN W[z] \cup {t} ELSE W[z]
  BY DEF W
<1> HIDE DEF f
<1>3. \A z \in Mutex : \A u : u \in f[z] <=> u \in Task /\ Waits(u, z)'
  BY <1>2, WaitingNow
<1>4. W' = f
  BY <1>1, <1>3, WaitingIs
<1> QED
  BY <1>4 DEF f

LEMMA WaitingLeaves ==
  ASSUME Inv, Inv', NEW x \in Mutex, NEW t \in Task,
         \A u \in Task, z \in Mutex : Waits(u, z)' <=> Waits(u, z) /\ ~(u = t /\ z = x)
  PROVE  W' = [W EXCEPT ![x] = @ \ {t}]
<1> DEFINE f == [W EXCEPT ![x] = @ \ {t}]
<1>1. f = [z \in Mutex |-> f[z]]
  BY DEF W
<1>2. \A z \in Mutex : f[z] = IF z = x THEN W[z] \ {t} ELSE W[z]
  BY DEF W
<1> HIDE DEF f
<1>3. \A z \in Mutex : \A u : u \in f[z] <=> u \in Task /\ Waits(u, z)'
  BY <1>2, WaitingNow
<1>4. W' = f
  BY <1>1, <1>3, WaitingIs
<1> QED
  BY <1>4 DEF f

LEMMA WaitingEnds ==
  ASSUME Inv, Inv', NEW x \in Mutex,
         \A u \in Task, z \in Mutex : Waits(u, z)' <=> Waits(u, z) /\ z # x
  PROVE  W' = [W EXCEPT ![x] = {}]
<1> DEFINE f == [W EXCEPT ![x] = {}]
<1>1. f = [z \in Mutex |-> f[z]]
  BY DEF W
<1>2. \A z \in Mutex : f[z] = IF z = x THEN {} ELSE W[z]
  BY DEF W
<1> HIDE DEF f
<1>3. \A z \in Mutex : \A u : u \in f[z] <=> u \in Task /\ Waits(u, z)'
  BY <1>2, WaitingNow
<1>4. W' = f
  BY <1>1, <1>3, WaitingIs
<1> QED
  BY <1>4 DEF f

LEMMA LockIdle ==
  ASSUME Inv, Inv', \A u \in Task, z \in Mutex : Waits(u, z)' <=> Waits(u, z),
         UNCHANGED <<owner, hold, valid>>
  PROVE  UNCHANGED Abstract!vars
<1>1. W' = W
  BY WaitingSame
<1> QED
  BY <1>1 DEF Abstract!vars, W

LEMMA StatusIdle ==
  ASSUME Inv, Inv', UNCHANGED <<status, msg>>
  PROVE  W' = W
<1>1. \A u \in Task, z \in Mutex : Waits(u, z)' <=> Waits(u, z)
  BY DEF Waits
<1> QED
  BY <1>1, WaitingSame

LEMMA TakeNowLock ==
  ASSUME MutexInv, MutexInv', NEW t \in User, NEW x \in Mutex, NEW n, TakeNow(t, x, n),
         UNCHANGED <<isr, valid>>
  PROVE  [Abstract!Next]_(Abstract!vars)
<1> USE MutexFacts
<1>0. UNCHANGED valid /\ W' = W
  <2>1. Inv /\ Inv' /\ UNCHANGED <<status, msg>>
    BY DEF MutexInv, TakeNow
  <2> QED
    BY <2>1, StatusIdle
<1>1. CASE UNCHANGED <<owner, hold>>
  BY <1>0, <1>1 DEF Abstract!vars, W
<1>2. CASE ~AtHoldMax(x) /\ owner[x] = t /\ Owned(x, t, hold[x] + 1)
  <2>1. hold[x] < HoldMax
    BY <1>2 DEF AtHoldMax
  <2>2. Abstract!TakeAgain(t, x)
    BY <1>0, <1>2, <2>1 DEF Abstract!TakeAgain, Abstract!Held, Owned, W
  <2> QED
    BY <2>2 DEF Abstract!Next
<1>3. CASE Free(x) /\ Owned(x, t, 1)
  <2>1. owner[x] = NoTask /\ \A u \in Task : ~Waits(u, x)
    BY <1>3 DEF Free, MutexInv, OwnerInv
  <2>2. W[x] = {}
    <3>1. Inv /\ Inv'
      BY DEF MutexInv
    <3> QED
      BY <2>1, <3>1, WaitingNow
  <2>3. Abstract!Grab(t, x)
    BY <1>0, <1>3, <2>1, <2>2 DEF Abstract!Grab, Abstract!Held, Owned, W
  <2> QED
    BY <2>3 DEF Abstract!Next
<1> QED
  BY <1>1, <1>2, <1>3 DEF TakeNow

LEMMA TakeWaitLock ==
  ASSUME MutexInv, MutexInv', NEW t \in User, NEW x \in Mutex,
         NEW n \in {Forever} \cup 0 .. MaxWait, In(t, "take"), TakeWait(t, x, n),
         UNCHANGED <<isr, valid>>
  PROVE  [Abstract!Next]_(Abstract!vars)
<1> USE MutexFacts
<1>1. /\ Inv' /\ status' = [status EXCEPT ![t] = "BLOCKED"]
      /\ msg' = [msg EXCEPT ![t] = [source |-> x, reason |-> "IPC", notify |-> "NONE"]]
  BY TakeWaitKeepsInv
<1>2. /\ ~Free(x) /\ owner[x] # t /\ UNCHANGED <<owner, hold, valid>> /\ t \in Task /\ Inv
      /\ Ready(t)
  BY CallerReady DEF TakeWait, MutexInv
<1>3. owner[x] # NoTask
  BY <1>2 DEF MutexInv, OwnerInv, Free
<1>4. \A u \in Task, z \in Mutex : Waits(u, z)' <=> (u = t /\ z = x) \/ Waits(u, z)
  BY <1>1, <1>2 DEF Waits, Ready
<1>5. W' = [W EXCEPT ![x] = @ \cup {t}]
  BY <1>1, <1>2, <1>4, WaitingJoins
<1>6. Abstract!Wait(t, x)
  BY <1>2, <1>3, <1>5 DEF Abstract!Wait, W
<1> QED
  BY <1>6 DEF Abstract!Next

LEMMA GiveLock ==
  ASSUME MutexInv, MutexInv', NEW t \in User, Give(t)
  PROVE  [Abstract!Next]_(Abstract!vars)
<1> USE MutexFacts
<1>1. /\ In(t, "give") /\ UNCHANGED valid /\ t \in Task /\ call[t] = "give"
      /\ Inv /\ Inv'
  BY DEF Give, In, MutexInv
<1>2. PICK x \in Mutex : x = obj[t]
  BY <1>1 DEF MutexInv, CallInv, CallOK
<1>3. owner[x] = t => x \in valid
  BY <1>1, <1>2 DEF MutexInv, CallInv, CallOK
<1>4. ASSUME UNCHANGED vars PROVE W' = W
  <2>1. UNCHANGED <<status, msg>>
    BY <1>4 DEF vars, taskVars
  <2> QED
    BY <1>1, <2>1, StatusIdle
<1>5. CASE UNCHANGED <<vars, owner, hold>>
  BY <1>1, <1>4, <1>5 DEF Abstract!vars, W
<1>6. CASE owner[x] = t /\ hold[x] > 1 /\ Owned(x, t, hold[x] - 1) /\ UNCHANGED vars
  <2>1. W' = W
    BY <1>4, <1>6
  <2>2. Abstract!Give(t, x)
    BY <1>1, <1>3, <1>6, <2>1 DEF Abstract!Give, Abstract!Held, Owned, W
  <2> QED
    BY <2>2 DEF Abstract!Next
<1>7. CASE owner[x] = t /\ hold[x] = 1 /\ Release(t, x)
  <2>0. /\ Waiters(x) = <<>> => UNCHANGED <<status, msg>>
        /\ Waiters(x) # <<>> =>
             LET u == Head(Waiters(x)) IN
             /\ u \in Task /\ Waits(u, x) /\ u # t
             /\ status' = [status EXCEPT ![u] = "READY"]
             /\ msg' = [msg EXCEPT ![u] = [NoMsg EXCEPT !.notify = "OK"]]
    BY <1>1, <1>7, ReleaseKeepsInv
  <2>1. CASE Waiters(x) = <<>>
    <3>1. Owned(x, NoTask, 0)
      BY <1>7, <2>1 DEF Release, NextOwner
    <3>2. W[x] = {}
      BY <2>1 DEF W, Range
    <3>3. W' = W
      BY <1>1, <2>0, <2>1, StatusIdle
    <3>4. Abstract!Give(t, x)
      BY <1>1, <1>3, <1>7, <3>1, <3>2, <3>3 DEF Abstract!Give, Abstract!Held, Owned, W
    <3> QED
      BY <3>4 DEF Abstract!Next
  <2>2. CASE Waiters(x) # <<>>
    <3>1. PICK u : u = Head(Waiters(x))
      OBVIOUS
    <3>2. /\ u \in Task /\ Waits(u, x) /\ status' = [status EXCEPT ![u] = "READY"]
          /\ msg' = [msg EXCEPT ![u] = [NoMsg EXCEPT !.notify = "OK"]]
      BY <2>0, <2>2, <3>1
    <3>3. Owned(x, u, 1)
      BY <1>7, <2>2, <3>1 DEF Release, NextOwner
    <3>4. \A v \in Task, z \in Mutex : Waits(v, z)' <=> Waits(v, z) /\ ~(v = u /\ z = x)
      BY <3>2 DEF Waits
    <3>5. W' = [W EXCEPT ![x] = @ \ {u}]
      BY <1>1, <3>2, <3>4, WaitingLeaves
    <3>6. u \in W[x]
      BY <1>1, <3>2, WaitingNow
    <3>7. Abstract!Give(t, x)
      BY <1>1, <1>3, <1>7, <3>3, <3>5, <3>6 DEF Abstract!Give, Abstract!Held, Owned, W
    <3> QED
      BY <3>7 DEF Abstract!Next
  <2> QED
    BY <2>1, <2>2
<1> QED
  BY <1>2, <1>5, <1>6, <1>7 DEF Give

LEMMA DeleteLock ==
  ASSUME MutexInv, MutexInv', NEW t \in User, DeleteMutex(t)
  PROVE  [Abstract!Next]_(Abstract!vars)
<1> USE MutexFacts
<1>1. /\ In(t, "delete") /\ t \in Task /\ call[t] = "delete" /\ Inv /\ Inv'
  BY DEF DeleteMutex, In, MutexInv
<1>2. PICK x \in Mutex : x = obj[t]
  BY <1>1 DEF MutexInv, CallInv, CallOK
<1>3. WakeAll(Waiters(x)) /\ Owned(x, NoTask, 0) /\ valid' = valid \ {x} /\ x \in Ipc
  BY <1>2 DEF DeleteMutex
<1>4. PICK R : R = Range(Waiters(x))
  OBVIOUS
<1>5. \A v : v \in R <=> v \in Task /\ Waits(v, x)
  BY ONLY <1>1, <1>3, <1>4, WaitersAre DEF Waiters
<1>6. /\ status' = [v \in Task |-> IF v \in R THEN "READY" ELSE status[v]]
      /\ msg' = [v \in Task |-> IF v \in R THEN [NoMsg EXCEPT !.notify = "DELETED"]
                                ELSE msg[v]]
  BY <1>3, <1>4 DEF WakeAll
<1>7. \A v \in Task, z \in Mutex : Waits(v, z)' <=> Waits(v, z) /\ z # x
  BY <1>5, <1>6 DEF Waits
<1>8. W' = [W EXCEPT ![x] = {}]
  BY <1>1, <1>7, WaitingEnds
<1>9. Abstract!Close(x)
  BY <1>3, <1>8 DEF Abstract!Close, Abstract!Held, Owned, W
<1> QED
  BY <1>9 DEF Abstract!Next

(* A step of the kernel ends one wait at most.                             *)
LEMMA KernelLock ==
  ASSUME MutexInv, MutexInv', MutexKernelStep
  PROVE  [Abstract!Next]_(Abstract!vars)
<1> USE MutexFacts
<1>1. KernelStep /\ Inv /\ Inv' /\ Next /\ UNCHANGED <<owner, hold, valid>>
  BY KernelStepIsNext DEF MutexKernelStep, MutexInv
<1>2. \A t \in Task, x \in Mutex : Waits(t, x)' => Waits(t, x)
  BY <1>1, KernelBlocksNobody
<1>3. PICK u \in Task : \A t \in Task \ {u} : Undisturbed(t)
  BY <1>1, KernelDisturbsOne
<1>4. \A t \in Task, x \in Mutex : t # u => (Waits(t, x)' <=> Waits(t, x))
  BY <1>3 DEF Undisturbed, Waits
<1>5. CASE \A x \in Mutex : Waits(u, x)' <=> Waits(u, x)
  BY <1>1, <1>4, <1>5, LockIdle
<1>6. ASSUME NEW x \in Mutex, Waits(u, x), ~Waits(u, x)' PROVE Abstract!Leave(u, x)
  <2>1. \A z \in Mutex : Waits(u, z) => z = x
    BY <1>6 DEF Waits
  <2>2. \A t \in Task, z \in Mutex : Waits(t, z)' <=> Waits(t, z) /\ ~(t = u /\ z = x)
    BY <1>2, <1>4, <1>6, <2>1
  <2>3. W' = [W EXCEPT ![x] = @ \ {u}]
    BY <1>1, <2>2, WaitingLeaves
  <2>4. u \in W[x]
    BY <1>1, <1>6, WaitingNow
  <2> QED
    BY <1>1, <2>3, <2>4 DEF Abstract!Leave, W
<1>7. ASSUME NEW x \in Mutex, Waits(u, x) PROVE u \in User
  BY <1>7 DEF MutexInv, CallInv, CallOK
<1> QED
  BY <1>2, <1>5, <1>6, <1>7 DEF Abstract!Next

LEMMA LockStep ==
  ASSUME MutexInv, MutexInv', [MutexNext]_allVars
  PROVE  [Abstract!Next]_(Abstract!vars)
<1>1. ASSUME NEW t \in User, NEW n \in {Forever} \cup 0 .. MaxWait, Take(t, n)
      PROVE  [Abstract!Next]_(Abstract!vars)
  <2>1. In(t, "take") /\ t \in Task /\ call[t] = "take" /\ UNCHANGED <<isr, valid>>
    BY <1>1, MutexFacts DEF Take, In
  <2>2. PICK x \in Mutex : x = obj[t]
    BY <2>1 DEF MutexInv, CallInv, CallOK
  <2>3. TakeNow(t, x, n) \/ TakeWait(t, x, n)
    BY <1>1, <2>2 DEF Take
  <2> QED
    BY <2>1, <2>2, <2>3, TakeNowLock, TakeWaitLock
<1>2. ASSUME UNCHANGED vars, UNCHANGED <<owner, hold, valid>>
      PROVE  [Abstract!Next]_(Abstract!vars)
  <2>1. UNCHANGED <<status, msg>> /\ Inv /\ Inv'
    BY <1>2 DEF vars, taskVars, MutexInv
  <2>2. \A u \in Task, z \in Mutex : Waits(u, z)' <=> Waits(u, z)
    BY <2>1 DEF Waits
  <2> QED
    BY <1>2, <2>1, <2>2, LockIdle
<1>3. ASSUME NEW t \in User, TakeReturn(t) PROVE [Abstract!Next]_(Abstract!vars)
  BY <1>2, <1>3 DEF TakeReturn
<1>4. ASSUME NEW t \in User, NEW f, NEW x, Enter(t, f, x) PROVE [Abstract!Next]_(Abstract!vars)
  BY <1>2, <1>4 DEF Enter
<1>5. ASSUME UNCHANGED allVars PROVE [Abstract!Next]_(Abstract!vars)
  BY <1>2, <1>5 DEF allVars, mutexVars
<1> QED
  BY <1>1, <1>3, <1>4, <1>5, GiveLock, DeleteLock, KernelLock DEF MutexNext, MutexStep

LEMMA LockInit == MutexInit => Abstract!Init
<1> SUFFICES ASSUME MutexInit PROVE Abstract!Init
  OBVIOUS
<1>1. \A x \in Mutex : Range(Waiters(x)) = {}
  <2>1. ASSUME NEW x \in Mutex PROVE Range(Waiters(x)) = {}
    <3> DEFINE p == MaxPriority - 1
    <3>1. x \in ListId /\ x \notin Prio
      BY MutexAssumption, ConstantFacts, ListAssumption
    <3>2. p \in Prio /\ p \in ListId /\ x # p
      BY <3>1, ConstantFacts
    <3>3. sched.lists = LinkLast([l \in ListId |-> <<>>], p, Idle)
      BY DEF MutexInit, Init, SchedInsert
    <3> HIDE DEF p
    <3>4. sched.lists[x] = <<>>
      BY <3>1, <3>2, <3>3 DEF LinkLast
    <3> QED
      BY <3>4 DEF Waiters, Range
  <2> QED
    BY <2>1
<1> QED
  BY <1>1 DEF MutexInit, Abstract!Init

-----------------------------------------------------------------------------
(* Owner and depth, the places in the functions and the mutex each call is *)
(* about stay of their types: no take goes beyond YR_MUTEX_HOLD_MAX and    *)
(* none counts below zero.                                                 *)
THEOREM MutexTypeCorrect == MutexSpec => []MutexTypeOK
<1>1. MutexInv => MutexTypeOK
  BY DEF MutexInv, Inv, IType, MutexType, Places, MutexTypeOK
<1> QED
  BY <1>1, MutexInvHolds, PTL

(* A take that waited returns success exactly if its task is the owner,    *)
(* however give, timeout, suspension and deletion race.                    *)
THEOREM TakeTellsTheTruth == MutexSpec => TakeIsTruthful
<1>1. MutexInv /\ [MutexNext]_allVars =>
        [\A t \in Task : TakeReturn(t) => (Succeeds(t) <=> owner[obj[t]] = t)]_allVars
  <2>1. ASSUME MutexInv, NEW t \in Task, TakeReturn(t)
        PROVE  Succeeds(t) <=> owner[obj[t]] = t
    BY <2>1 DEF TakeReturn, In, Succeeds, MutexInv, CallInv, CallOK
  <2> QED
    BY <2>1
<1> QED
  BY <1>1, MutexInvHolds, PTL DEF MutexSpec, TakeIsTruthful

(* The mutex is a lock: one owner, handed over to a waiter with the last   *)
(* give, never lost and never taken past a waiter, in every interleaving   *)
(* of tasks and kernel.                                                    *)
THEOREM MutexIsLock == MutexSpec => IsLock
<1>1. MutexInv /\ MutexInv' /\ [MutexNext]_allVars => [Abstract!Next]_(Abstract!vars)
  BY LockStep
<1> QED
  BY <1>1, LockInit, MutexInvHolds, PTL DEF MutexSpec, IsLock, Abstract!Spec

-----------------------------------------------------------------------------
(* hold_mutex_count and the end of an inheritance, if no task is created   *)
(* anew.  (A task deleted while it owns a mutex and created again has a    *)
(* count of zero and still owns it.)                                       *)
(* What the kernel does to the priorities of task t: a start restores the  *)
(* priority of a task that never ran, yr_task_set_priority changes it.     *)
PriorityStep(t) ==
  /\ status'[t] = "INIT" => status[t] = "INIT"
  /\ \/ curPrio'[t] = curPrio[t] /\ initPrio'[t] = initPrio[t]
     \/ status[t] = "INIT" /\ curPrio'[t] = initPrio[t] /\ initPrio'[t] = initPrio[t]
     \/ ~FixedPriorities /\ (holds[t] = 0 => curPrio'[t] = initPrio'[t])

LEMMA KernelPriorities ==
  ASSUME Inv, NoRecreation, KernelStep
  PROVE  UNCHANGED holds /\ \A t \in Task : PriorityStep(t)
<1> DEFINE Goal == UNCHANGED holds /\ \A t \in Task : PriorityStep(t)
<1>a. /\ IType /\ SchedInv /\ status \in [Task -> Status] /\ curPrio \in [Task -> Prio]
      /\ initPrio \in [Task -> Prio]
      /\ User \subseteq Task /\ NoTask \notin Task /\ Idle \in Task
  BY ConstantFacts DEF Inv, IType, TypeOK
<1>b. ASSUME UNCHANGED <<curPrio, initPrio, holds>>,
             \A t \in Task : status'[t] = "INIT" => status[t] = "INIT"
      PROVE  Goal
  BY <1>b DEF PriorityStep
<1>c. ASSUME UNCHANGED <<curPrio, initPrio, holds, status>> PROVE Goal
  BY <1>c, <1>b
<1>d. ASSUME NEW u, NEW s, s # "INIT", status' = [status EXCEPT ![u] = s],
             UNCHANGED <<curPrio, initPrio, holds>>
      PROVE  Goal
  BY <1>a, <1>b, <1>d
<1>1. ASSUME NEW u \in Task, StartEffect(u) PROVE Goal
  BY <1>1, <1>a DEF StartEffect, PriorityStep
<1>2. ASSUME NEW u \in Task, DeleteEffect(u) PROVE Goal
  BY <1>2, <1>d DEF DeleteEffect
<1> HIDE DEF Goal
<1>3. ASSUME Dispatch, current \in Task, UNCHANGED <<curPrio, initPrio, holds>> PROVE Goal
  <2>1. PICK next : next = Chosen(sched)
    OBVIOUS
  <2>2. \/ UNCHANGED status
        \/ status' = [status EXCEPT ![current] = IF @ = "RUNNING" THEN "READY" ELSE @,
                                    ![next] = "RUNNING"]
    BY <1>3, <2>1 DEF Dispatch
  <2> QED
    BY <1>a, <1>b, <1>3, <2>2
<1>4. ASSUME KernelStart PROVE Goal
  <2>1. PICK next : next = current'
    OBVIOUS
  <2>2. status' = [status EXCEPT ![next] = "RUNNING"] /\ UNCHANGED <<curPrio, initPrio, holds>>
    BY <1>4, <2>1 DEF KernelStart
  <2> QED
    BY <2>2, <1>d
<1>5. ASSUME CleanupDefunct PROVE Goal
  <2>1. \A t \in Task : status'[t] \in {"DELETED", status[t]}
    BY <1>5 DEF CleanupDefunct
  <2> QED
    BY <1>5, <2>1, <1>b DEF CleanupDefunct
<1>6. ASSUME TickStep PROVE Goal
  <2>1. ASSUME TickTimeout PROVE Goal
    BY <2>1, <1>c, <1>d DEF TickTimeout
  <2>2. ASSUME TickSwitch PROVE Goal
    BY <2>2, <1>3, <1>a DEF TickSwitch, IType
  <2>3. ASSUME TickBegin \/ TickYield \/ TickMisdispatch PROVE Goal
    BY <2>3, <1>c DEF TickBegin, TickYield, TickMisdispatch, Misdispatch, Crash, taskVars
  <2>4. ASSUME TickCheck \/ TickPop \/ TickEnd PROVE Goal
    BY <2>4, <1>c DEF TickCheck, TickPop, TickEnd, taskVars
  <2> QED
    BY <1>6, <2>1, <2>2, <2>3, <2>4 DEF TickStep
<1>7. ASSUME NEW t \in User, NEW u \in User, NEW p \in Prio, SetPriority(t, u, p) PROVE Goal
  <2>1. /\ ~FixedPriorities /\ UNCHANGED <<status, holds>>
        /\ initPrio' = [initPrio EXCEPT ![u] = p]
        /\ \/ curPrio' = [curPrio EXCEPT ![u] = p]
           \/ UNCHANGED curPrio /\ (holds[u] = 0 => curPrio[u] = p)
    BY <1>7 DEF SetPriority, MayCall, FixedPriorities, ChangePriority
  <2> QED
    BY <1>a, <2>1 DEF Goal, PriorityStep
<1>8. ASSUME NEW t \in User, TaskStep(t) PROVE Goal
  <2>1. ASSUME StartCommit(t) PROVE Goal
    <3>1. arg[t] \in Task
      BY <2>1, <1>a DEF StartCommit, IType
    <3> QED
      BY <2>1, <3>1, <1>1 DEF StartCommit
  <2>2. ASSUME TaskSwitch(t) PROVE Goal
    BY <2>2, <1>3, <1>a DEF TaskSwitch, Executes
  <2>3. ASSUME Exit(t) PROVE Goal
    BY <2>3, <1>2, <1>a DEF Exit
  <2>4. ASSUME NEW v \in User, Delete(t, v) PROVE Goal
    BY <2>4, <1>2, <1>a DEF Delete
  <2>5. ASSUME StartRelinks(t) \/ TaskMisdispatch(t) PROVE Goal
    BY <2>5, <1>c DEF StartRelinks, TaskMisdispatch, Misdispatch, Crash, taskVars
  <2>6. ASSUME SleepZero(t) \/ Yield(t) PROVE Goal
    BY <2>6, <1>c DEF SleepZero, Yield, taskVars
  <2>7. ASSUME NEW v \in User, StartCheck(t, v) PROVE Goal
    BY <2>7, <1>c DEF StartCheck, taskVars
  <2>8. ASSUME NEW v \in User, Create(t, v) PROVE Goal
    BY <2>8 DEF Create, MayCall, NoRecreation
  <2>9. ASSUME NEW n \in 1 .. MaxSleep, Sleep(t, n) PROVE Goal
    BY <2>9, <1>d DEF Sleep
  <2>10. ASSUME NEW v \in User, Suspend(t, v) PROVE Goal
    BY <2>10, <1>d DEF Suspend
  <2> QED
    BY <1>7, <1>8, <2>1, <2>2, <2>3, <2>4, <2>5, <2>6, <2>7, <2>8, <2>9, <2>10
    DEF TaskStep
<1>9. ASSUME NEW u \in User, MainStart(u) PROVE Goal
  BY <1>9, <1>1, <1>a DEF MainStart
<1>10. ASSUME Halted PROVE Goal
  BY <1>10, <1>c DEF Halted, vars, taskVars
<1> QED
  BY <1>4, <1>5, <1>6, <1>8, <1>9, <1>10 DEF KernelStep, Goal

-----------------------------------------------------------------------------
Possessions(t) == {x \in Mutex : owner[x] = t}

Counted(t) ==
  /\ IsFiniteSet(Possessions(t))
  /\ holds[t] = Cardinality(Possessions(t))
  /\ holds[t] = 0 => curPrio[t] = initPrio[t]

HoldInv == NoRecreation /\ \A t \in Task : Counted(t)

LEMMA PossessionGained ==
  ASSUME NEW t, NEW x \in Mutex, owner[x] # t, owner'[x] = t,
         \A z \in Mutex : z # x => owner'[z] = owner[z],
         IsFiniteSet(Possessions(t))
  PROVE  /\ IsFiniteSet(Possessions(t)')
         /\ Cardinality(Possessions(t)') = Cardinality(Possessions(t)) + 1
<1>1. PICK S : S = Possessions(t)
  OBVIOUS
<1>2. x \notin S /\ IsFiniteSet(S) /\ Possessions(t)' = S \cup {x}
  BY <1>1 DEF Possessions
<1>3. /\ IsFiniteSet(S \cup {x}) /\ Cardinality(S \cup {x}) = Cardinality(S) + 1
  BY ONLY <1>2, FS_AddElement
<1> QED
  BY <1>1, <1>2, <1>3

LEMMA PossessionLost ==
  ASSUME NEW t, NEW x \in Mutex, owner[x] = t, owner'[x] # t,
         \A z \in Mutex : z # x => owner'[z] = owner[z],
         IsFiniteSet(Possessions(t))
  PROVE  /\ IsFiniteSet(Possessions(t)')
         /\ Cardinality(Possessions(t)') = Cardinality(Possessions(t)) - 1
         /\ Cardinality(Possessions(t)) \in Nat /\ Cardinality(Possessions(t)) # 0
<1>1. PICK S : S = Possessions(t)
  OBVIOUS
<1>2. x \in S /\ IsFiniteSet(S) /\ Possessions(t)' = S \ {x}
  BY <1>1 DEF Possessions
<1>3. /\ IsFiniteSet(S \ {x}) /\ Cardinality(S \ {x}) = Cardinality(S) - 1
  BY ONLY <1>2, FS_RemoveElement
<1>4. Cardinality(S) \in Nat /\ Cardinality(S) # 0
  BY ONLY <1>2, FS_EmptySet, FS_CardinalityType
<1> QED
  BY <1>1, <1>2, <1>3, <1>4

LEMMA CountedFrame ==
  ASSUME NEW t, Counted(t), holds'[t] = holds[t],
         \A z \in Mutex : owner'[z] = t <=> owner[z] = t,
         holds[t] = 0 => curPrio'[t] = curPrio[t] /\ initPrio'[t] = initPrio[t]
  PROVE  Counted(t)'
<1>1. Possessions(t)' = Possessions(t)
  BY DEF Possessions
<1> QED
  BY <1>1 DEF Counted

LEMMA OwnerHolds ==
  ASSUME MutexInv, HoldInv, NEW x \in Mutex, owner[x] # NoTask
  PROVE  owner[x] \in Task /\ holds[owner[x]] # 0
<1>1. PICK u : u = owner[x]
  OBVIOUS
<1>2. u \in Task
  BY <1>1, MutexFacts
<1>3. x \in Possessions(u)
  BY <1>1 DEF Possessions
<1>4. IsFiniteSet(Possessions(u)) /\ holds[u] = Cardinality(Possessions(u))
  BY <1>2 DEF HoldInv, Counted
<1>5. Cardinality(Possessions(u)) # 0
  BY ONLY <1>3, <1>4, FS_EmptySet
<1> QED
  BY <1>1, <1>2, <1>4, <1>5

LEMMA HoldInvStep ==
  ASSUME MutexInv, HoldInv, [MutexNext]_allVars
  PROVE  HoldInv'
<1> USE MutexFacts
<1>a. \A t \in Task : Counted(t)
  BY DEF HoldInv
<1>b. NoRecreation'
  BY DEF HoldInv, NoRecreation
<1>c. ASSUME UNCHANGED <<holds, owner, curPrio, initPrio>> PROVE HoldInv'
  <2>1. UNCHANGED owner /\ UNCHANGED holds /\ UNCHANGED curPrio /\ UNCHANGED initPrio
    BY <1>c
  <2>2. ASSUME NEW t \in Task PROVE Counted(t)'
    BY <1>a, <2>1, CountedFrame
  <2> QED
    BY <1>b, <2>2 DEF HoldInv
<1>d. ASSUME UNCHANGED vars, UNCHANGED owner PROVE HoldInv'
  BY <1>c, <1>d DEF vars, taskVars
<1>1. ASSUME NEW t \in User, NEW x \in Mutex, NEW n, TakeNow(t, x, n) PROVE HoldInv'
  <2>1. t \in Task /\ t # NoTask /\ UNCHANGED <<curPrio, initPrio>>
    BY <1>1 DEF TakeNow
  <2>2. CASE UNCHANGED <<owner, hold, holds>>
    BY <1>c, <2>1, <2>2
  <2>3. CASE owner[x] = t /\ Owned(x, t, hold[x] + 1) /\ UNCHANGED holds
    <3>1. owner' = owner
      BY <2>3 DEF Owned
    <3> QED
      BY <1>c, <2>1, <2>3, <3>1
  <2>4. CASE Free(x) /\ Owned(x, t, 1) /\ holds' = [holds EXCEPT ![t] = @ + 1]
    <3>1. /\ owner[x] = NoTask /\ owner'[x] = t
          /\ \A z \in Mutex : z # x => owner'[z] = owner[z]
          /\ holds'[t] = holds[t] + 1 /\ \A u \in Task : u # t => holds'[u] = holds[u]
      BY <2>1, <2>4 DEF Free, Owned
    <3>2. Counted(t)'
      <4>1. IsFiniteSet(Possessions(t)) /\ holds[t] = Cardinality(Possessions(t)) /\ owner[x] # t
        BY <1>a, <2>1, <3>1 DEF Counted
      <4>2. /\ IsFiniteSet(Possessions(t)')
            /\ Cardinality(Possessions(t)') = Cardinality(Possessions(t)) + 1
        BY ONLY <3>1, <4>1, PossessionGained, x \in Mutex
      <4>3. holds'[t] # 0 /\ holds'[t] = Cardinality(Possessions(t)')
        BY <2>1, <3>1, <4>1, <4>2
      <4> QED
        BY <4>2, <4>3 DEF Counted
    <3>3. ASSUME NEW u \in Task, u # t PROVE Counted(u)'
      BY <1>a, <2>1, <3>1, <3>3, CountedFrame
    <3> QED
      BY <1>b, <3>2, <3>3 DEF HoldInv
  <2> QED
    BY <1>1, <2>2, <2>3, <2>4 DEF TakeNow
<1>2. ASSUME NEW t \in User, NEW x \in Mutex, NEW n, TakeWait(t, x, n) PROVE HoldInv'
  <2>1. /\ UNCHANGED <<owner, holds, initPrio>> /\ curPrio' = Inherited(t, x)
        /\ UNCHANGED owner /\ UNCHANGED holds /\ UNCHANGED initPrio
    BY <1>2 DEF TakeWait, BlockFrom
  <2>2. ASSUME NEW u \in Task, holds[u] = 0 PROVE curPrio'[u] = curPrio[u]
    <3>1. CASE Boosts(t, x)
      <4>1. u # owner[x] /\ owner[x] \in Task
        BY <2>2, <3>1, OwnerHolds DEF Boosts
      <4> QED
        BY <2>1, <3>1, <4>1 DEF Inherited
    <3>2. CASE ~Boosts(t, x)
      BY <2>1, <3>2 DEF Inherited
    <3> QED
      BY <3>1, <3>2
  <2>3. ASSUME NEW u \in Task PROVE Counted(u)'
    BY <1>a, <2>1, <2>2, CountedFrame
  <2> QED
    BY <1>b, <2>3 DEF HoldInv
<1>3. ASSUME NEW t \in Task, NEW x \in Mutex, owner[x] = t, curPrio' = Restored(t),
             UNCHANGED initPrio, owner'[x] # t,
             \A z \in Mutex : z # x => owner'[z] = owner[z], holds'[t] = FewerHolds(t)
      PROVE  Counted(t)'
  <2>1. /\ IsFiniteSet(Possessions(t)) /\ holds[t] = Cardinality(Possessions(t))
        /\ owner[x] = t /\ owner'[x] # t
        /\ \A z \in Mutex : z # x => owner'[z] = owner[z]
    BY <1>a, <1>3 DEF Counted
  <2>2. /\ IsFiniteSet(Possessions(t)')
        /\ Cardinality(Possessions(t)') = Cardinality(Possessions(t)) - 1
        /\ Cardinality(Possessions(t)) \in Nat /\ Cardinality(Possessions(t)) # 0
    BY ONLY <2>1, PossessionLost, x \in Mutex
  <2>3. holds'[t] = Cardinality(Possessions(t)')
    BY <1>3, <2>1, <2>2 DEF FewerHolds
  <2>4. holds'[t] = 0 => curPrio'[t] = initPrio'[t]
    BY <1>3 DEF Restored
  <2> QED
    BY <2>2, <2>3, <2>4 DEF Counted
<1>4. ASSUME NEW t \in User, Give(t) PROVE HoldInv'
  <2>1. t \in Task /\ call[t] = "give" /\ t # NoTask
    BY <1>4 DEF Give, In
  <2>2. PICK x \in Mutex : x = obj[t]
    BY <2>1 DEF MutexInv, CallInv, CallOK
  <2>3. CASE UNCHANGED <<vars, owner, hold>>
    BY <2>3, <1>d
  <2>4. CASE owner[x] = t /\ Owned(x, t, hold[x] - 1) /\ UNCHANGED vars
    <3>1. owner' = owner
      BY <2>4 DEF Owned
    <3> QED
      BY <1>d, <2>4, <3>1
  <2>5. CASE owner[x] = t /\ Release(t, x)
    <3>1. curPrio' = Restored(t) /\ UNCHANGED initPrio
      BY <2>5 DEF Release
    <3>2. \A u \in Task : u # t => curPrio'[u] = curPrio[u]
      BY <2>1, <3>1, RestoredFacts
    <3>3. CASE Waiters(x) = <<>>
      <4>1. /\ owner' = [owner EXCEPT ![x] = NoTask]
            /\ holds' = [holds EXCEPT ![t] = FewerHolds(t)]
        BY <2>5, <3>3 DEF Release, NextOwner, Owned
      <4>2. /\ owner'[x] = NoTask /\ \A z \in Mutex : z # x => owner'[z] = owner[z]
            /\ holds'[t] = FewerHolds(t) /\ \A u \in Task : u # t => holds'[u] = holds[u]
        BY <2>1, <4>1
      <4>3. Counted(t)'
        BY <1>3, <2>1, <2>5, <3>1, <4>2
      <4>4. ASSUME NEW u \in Task, u # t PROVE Counted(u)'
        <5>1. u # NoTask
          OBVIOUS
        <5> QED
          BY <1>a, <2>5, <3>1, <3>2, <4>2, <4>4, <5>1, CountedFrame
      <4> QED
        BY <1>b, <4>3, <4>4 DEF HoldInv
    <3>4. CASE Waiters(x) # <<>>
      <4>0. PICK v : v = Head(Waiters(x))
        OBVIOUS
      <4>1. v \in Task /\ v # t
        <5>1. Inv /\ x \in Ipc
          BY DEF MutexInv
        <5>2. v \in Task /\ Waits(v, x)
          BY <3>4, <4>0, <5>1, FirstWaits DEF Waiters
        <5> QED
          BY <2>5, <5>2 DEF MutexInv, CallInv, CallOK
      <4>2. /\ owner' = [owner EXCEPT ![x] = v]
            /\ holds' = [holds EXCEPT ![t] = FewerHolds(t), ![v] = @ + 1]
        BY <2>5, <3>4, <4>0 DEF Release, NextOwner, Owned
      <4>3. /\ owner'[x] = v /\ \A z \in Mutex : z # x => owner'[z] = owner[z]
            /\ holds'[t] = FewerHolds(t) /\ holds'[v] = holds[v] + 1
            /\ \A u \in Task : u # t /\ u # v => holds'[u] = holds[u]
        BY <2>1, <4>1, <4>2
      <4>4. Counted(t)'
        BY <1>3, <2>1, <2>5, <3>1, <4>1, <4>3
      <4>5. Counted(v)'
        <5>1. IsFiniteSet(Possessions(v)) /\ holds[v] = Cardinality(Possessions(v)) /\ owner[x] # v
          BY <1>a, <2>5, <4>1 DEF Counted
        <5>2. /\ IsFiniteSet(Possessions(v)')
              /\ Cardinality(Possessions(v)') = Cardinality(Possessions(v)) + 1
          BY ONLY <4>3, <5>1, PossessionGained, x \in Mutex
        <5>3. holds'[v] # 0 /\ holds'[v] = Cardinality(Possessions(v)')
          BY <4>1, <4>3, <5>1, <5>2
        <5> QED
          BY <5>2, <5>3 DEF Counted
      <4>6. ASSUME NEW u \in Task, u # t, u # v PROVE Counted(u)'
        BY <1>a, <2>5, <3>1, <3>2, <4>3, <4>6, CountedFrame
      <4> QED
        BY <1>b, <4>4, <4>5, <4>6 DEF HoldInv
    <3> QED
      BY <3>3, <3>4
  <2> QED
    BY <1>4, <2>2, <2>3, <2>4, <2>5 DEF Give
<1>5. ASSUME NEW t \in User, DeleteMutex(t) PROVE HoldInv'
  <2>1. t \in Task /\ call[t] = "delete"
    BY <1>5 DEF DeleteMutex, In
  <2>2. PICK x \in Mutex : x = obj[t]
    BY <2>1 DEF MutexInv, CallInv, CallOK
  <2>3. PICK u \in Task \cup {NoTask} : u = owner[x]
    OBVIOUS
  <2>4. /\ owner' = [owner EXCEPT ![x] = NoTask] /\ UNCHANGED initPrio
        /\ IF u = NoTask THEN UNCHANGED <<curPrio, holds>>
           ELSE curPrio' = Restored(u) /\ holds' = [holds EXCEPT ![u] = FewerHolds(u)]
    BY <1>5, <2>2, <2>3 DEF DeleteMutex, Owned
  <2>5. owner'[x] = NoTask /\ \A z \in Mutex : z # x => owner'[z] = owner[z]
    BY <2>4
  <2>6. ASSUME NEW v \in Task, v # u PROVE Counted(v)'
    <3>1. holds'[v] = holds[v] /\ curPrio'[v] = curPrio[v]
      BY <2>3, <2>4, <2>6, RestoredFacts
    <3>2. v # NoTask
      OBVIOUS
    <3> QED
      BY <1>a, <2>3, <2>4, <2>5, <2>6, <3>1, <3>2, CountedFrame
  <2>7. ASSUME u \in Task PROVE Counted(u)'
    <3>1. u # NoTask
      BY <2>7
    <3> QED
      BY <1>3, <2>3, <2>4, <2>5, <2>7, <3>1
  <2> QED
    BY <1>b, <2>6, <2>7 DEF HoldInv
<1>6. ASSUME MutexKernelStep PROVE HoldInv'
  <2>1. UNCHANGED holds /\ (\A t \in Task : PriorityStep(t)) /\ UNCHANGED owner
    BY <1>6, KernelPriorities DEF MutexKernelStep, MutexInv, HoldInv
  <2>2. ASSUME NEW t \in Task PROVE Counted(t)'
    <3>1. Possessions(t)' = Possessions(t)
      BY <2>1 DEF Possessions
    <3> QED
      BY <1>a, <2>1, <3>1 DEF Counted, PriorityStep
  <2> QED
    BY <1>b, <2>2 DEF HoldInv
<1>7. ASSUME NEW t \in User, NEW n \in {Forever} \cup 0 .. MaxWait, Take(t, n) PROVE HoldInv'
  <2>1. t \in Task /\ call[t] = "take"
    BY <1>7 DEF Take, In
  <2>2. PICK x \in Mutex : x = obj[t]
    BY <2>1 DEF MutexInv, CallInv, CallOK
  <2> QED
    BY <1>1, <1>2, <1>7, <2>2 DEF Take
<1> QED
  BY <1>d, <1>4, <1>5, <1>6, <1>7
  DEF MutexNext, MutexStep, Enter, TakeReturn, allVars, mutexVars

LEMMA HoldInvInit == NoRecreation /\ MutexInit => HoldInv
<1> SUFFICES ASSUME NoRecreation, MutexInit, NEW t \in Task PROVE Counted(t)
  BY DEF HoldInv
<1>1. /\ owner = [x \in Mutex |-> NoTask] /\ holds = [u \in Task |-> 0]
      /\ curPrio = BasePrio /\ initPrio = BasePrio /\ t # NoTask
  BY ConstantFacts DEF MutexInit, Init
<1>2. Possessions(t) = {}
  BY <1>1 DEF Possessions
<1> QED
  BY <1>1, <1>2, FS_EmptySet DEF Counted

(* Without re-creation of tasks hold_mutex_count is the number of mutexes  *)
(* a task owns, over every hand-over and deletion.                         *)
THEOREM HoldsCountedIfNotRecreated == NoRecreation /\ MutexSpec => []HoldsCounted
<1>1. HoldInv => HoldsCounted
  BY DEF HoldInv, Counted, Possessions, HoldsCounted
<1>2. MutexInv /\ HoldInv /\ [MutexNext]_allVars => HoldInv'
  BY HoldInvStep
<1> QED
  BY <1>1, <1>2, HoldInvInit, MutexInvHolds, PTL DEF MutexSpec

(* And a task that owns none runs at its own priority: no inheritance      *)
(* outlives its mutex.                                                     *)
THEOREM InheritanceEndsIfNotRecreated == NoRecreation /\ MutexSpec => []InheritanceEnds
<1>1. HoldInv => InheritanceEnds
  BY DEF HoldInv, Counted, InheritanceEnds
<1>2. MutexInv /\ HoldInv /\ [MutexNext]_allVars => HoldInv'
  BY HoldInvStep
<1> QED
  BY <1>1, <1>2, HoldInvInit, MutexInvHolds, PTL DEF MutexSpec

-----------------------------------------------------------------------------
(* The bitmap while owners are raised and restored: their priority and     *)
(* their mask change together.  A task that was never started owns no      *)
(* mutex, so that none is raised before yr_task_start resets its priority  *)
(* and not its mask; an owner that is deleted and created anew may be.     *)
LEMMA CoverFrame ==
  ASSUME MutexInv, CoverInv, Covers(sched'), UNCHANGED initPrio,
         NEW q \in [Task -> Prio], curPrio' = q, mask' = MaskFor(q),
         \A t \in Task : status'[t] = "INIT" =>
           status[t] = "INIT" /\ q[t] = curPrio[t] /\ holds'[t] = holds[t]
  PROVE  CoverInv'
<1>1. IType /\ \A t \in Task : Masked(t)
  BY MutexFacts DEF CoverInv
<1>2. mask' = q
  BY <1>1, ChangePriorityMasked DEF Masked
<1> QED
  BY <1>1, <1>2 DEF CoverInv, Masked

LEMMA RestoredCovers ==
  ASSUME MutexInv, NEW u \in Task, NEW s \in SchedType, InjectiveLists(s.lists),
         InPlace(s, u, curPrio[u]), Covers(s)
  PROVE  Covers(RestoredLists(s, u))
<1> USE MutexFacts
<1>1. PICK q \in [Task -> Prio] : q = Restored(u) /\ \A t \in Task : t # u => q[t] = curPrio[t]
  BY RestoredFacts
<1>2. Covers(Reprioritised(s, u, q))
  BY <1>1, ReprioritisedSched
<1> QED
  BY <1>1, <1>2 DEF RestoredLists

LEMMA OwnerStarted ==
  ASSUME MutexInv, HoldInv, CoverInv, NEW x \in Mutex, owner[x] # NoTask
  PROVE  owner[x] \in Task /\ status[owner[x]] # "INIT"
BY OwnerHolds DEF CoverInv, Masked

LEMMA TakeWaitCovers ==
  ASSUME MutexInv, HoldInv, CoverInv, NEW t \in User, NEW x \in Mutex, NEW n,
         In(t, "take"), TakeWait(t, x, n)
  PROVE  CoverInv'
<1> USE MutexFacts
<1>1. t \in Task /\ Inv
  BY DEF MutexInv
<1>2. PICK s : s = IF Boosts(t, x) THEN Reprioritised(sched, owner[x], Inherited(t, x))
                   ELSE sched
  OBVIOUS
<1>3. /\ sched' = BlockedIn(s, x, t)
      /\ status' = [status EXCEPT ![t] = "BLOCKED"]
      /\ UNCHANGED <<initPrio, holds>>
      /\ curPrio' = Inherited(t, x) /\ mask' = MaskFor(curPrio') /\ owner[x] # t
  BY <1>2 DEF TakeWait, BlockFrom
<1>4. PICK q \in [Task -> Prio] :
        /\ q = Inherited(t, x) /\ ListsAgree(s, q)
        /\ \A u \in Task : u # owner[x] => q[u] = curPrio[u]
  BY <1>1, <1>2, <1>3, InheritedAgrees
<1>5. s \in SchedType /\ Covers(s)
  <2>1. CASE Boosts(t, x)
    <3>1. PICK u \in Task : u = owner[x] /\ InPlace(sched, u, curPrio[u])
      BY <2>1 DEF Boosts, ListsAgree
    <3>2. s = Reprioritised(sched, u, q) /\ \A v \in Task : v # u => q[v] = curPrio[v]
      BY <1>2, <1>4, <2>1, <3>1
    <3>3. /\ IType /\ sched \in SchedType /\ InjectiveLists(sched.lists) /\ Covers(sched)
          /\ curPrio \in [Task -> Prio]
      BY DEF SchedInv, CoverInv
    <3> QED
      BY <1>4, <3>1, <3>2, <3>3, ReprioritisedSched
  <2>2. CASE ~Boosts(t, x)
    BY <1>2, <2>2 DEF CoverInv
  <2> QED
    BY <2>1, <2>2
<1>6. Covers(sched')
  <2>1. curPrio[t] \in Prio /\ mask[t] = curPrio[t] /\ x \in Ipc
    BY <1>1 DEF CoverInv, Masked
  <2> QED
    BY <1>1, <1>3, <1>5, <2>1, BlockSched
<1>7. ASSUME NEW v \in Task, status'[v] = "INIT"
      PROVE  status[v] = "INIT" /\ q[v] = curPrio[v] /\ holds'[v] = holds[v]
  <2>1. status[v] = "INIT"
    BY <1>1, <1>3, <1>7
  <2>2. v # owner[x]
    BY <1>7, <2>1, OwnerStarted
  <2> QED
    BY <1>3, <1>4, <2>1, <2>2
<1> QED
  BY <1>3, <1>4, <1>6, <1>7, CoverFrame

LEMMA ReleaseCovers ==
  ASSUME MutexInv, CoverInv, NEW t \in User, NEW x \in Mutex, In(t, "give"),
         Release(t, x)
  PROVE  CoverInv'
<1> USE MutexFacts
<1>1. t \in Task /\ Ready(t) /\ x \in Ipc /\ Inv
  BY CallerReady DEF MutexInv
<1>2. PICK s : s = RestoredLists(sched, t)
  OBVIOUS
<1>3. PICK q \in [Task -> Prio] :
        q = Restored(t) /\ \A u \in Task : u # t => q[u] = curPrio[u]
  BY <1>1, RestoredFacts
<1>4. curPrio' = q /\ mask' = MaskFor(q) /\ UNCHANGED initPrio
  BY <1>3 DEF Release
<1>5. ListsAgree(s, q) /\ s \in SchedType
  BY <1>1, <1>2, <1>3, RestoredAgrees DEF ListsAgree
<1>6. Covers(s)
  <2>1. InPlace(sched, t, curPrio[t]) /\ InjectiveLists(sched.lists) /\ Covers(sched)
    BY <1>1 DEF ListsAgree, CoverInv
  <2> QED
    BY <1>1, <1>2, <2>1, RestoredCovers
<1>7. CASE Waiters(x) = <<>>
  <2>1. /\ sched' = s /\ UNCHANGED status
        /\ holds' = [holds EXCEPT ![t] = FewerHolds(t)]
    BY <1>2, <1>7 DEF Release
  <2>2. \A v \in Task : status'[v] = "INIT" =>
          status[v] = "INIT" /\ q[v] = curPrio[v] /\ holds'[v] = holds[v]
    BY <1>1, <1>3, <2>1 DEF Ready
  <2> QED
    BY <1>4, <1>6, <2>1, <2>2, CoverFrame
<1>8. CASE Waiters(x) # <<>>
  <2>1. PICK u \in Task : u = Head(Waiters(x)) /\ Waits(u, x)
    BY <1>1, <1>8, FirstWaits DEF Waiters
  <2>2. s.lists[x] = sched.lists[x]
    BY <1>1, <1>2, RestoredReady
  <2>3. /\ ResumeFrom(s, x) /\ u = Head(s.lists[x])
        /\ holds' = [holds EXCEPT ![t] = FewerHolds(t), ![u] = @ + 1]
    BY <1>2, <1>8, <2>1, <2>2 DEF Release, Waiters
  <2>4. curPrio[u] \in Prio /\ mask[u] = curPrio[u]
    BY DEF CoverInv, Masked
  <2>5. Covers(sched')
    BY <1>5, <1>6, <2>3, <2>4, ResumeFromCovers
  <2>6. status' = [status EXCEPT ![u] = "READY"]
    BY <2>3 DEF ResumeFrom
  <2>7. \A v \in Task : status'[v] = "INIT" =>
          status[v] = "INIT" /\ q[v] = curPrio[v] /\ holds'[v] = holds[v]
    BY <1>1, <1>3, <2>3, <2>6 DEF Ready
  <2> QED
    BY <1>4, <2>5, <2>7, CoverFrame
<1> QED
  BY <1>7, <1>8

LEMMA DeleteMutexCovers ==
  ASSUME MutexInv, HoldInv, CoverInv, NEW t \in User, DeleteMutex(t)
  PROVE  CoverInv'
<1> USE MutexFacts
<1>1. call[t] = "delete" /\ t \in Task
  BY DEF DeleteMutex, In
<1>2. PICK x \in Mutex : x = obj[t]
  BY <1>1 DEF MutexInv, CallInv, CallOK
<1>3. PICK u \in Task \cup {NoTask} : u = owner[x]
  OBVIOUS
<1>4. PICK q \in Seq(Task) :
        /\ q = Waiters(x) /\ q = sched.lists[x] /\ IsInjective(q)
        /\ \A v \in Range(q) : v \in Task /\ Waits(v, x)
  <2>1. x \in Ipc /\ IType /\ curPrio \in [Task -> Prio] /\ ListsAgree(sched, curPrio)
    OBVIOUS
  <2> QED
    BY <2>1, BlockedNodes DEF Waiters
<1>5. PICK r : r = AllResumed(q)
  OBVIOUS
<1>6. /\ UNCHANGED initPrio
      /\ status' = [v \in Task |-> IF v \in Range(q) THEN "READY" ELSE status[v]]
      /\ IF u = NoTask
         THEN sched' = r /\ UNCHANGED <<curPrio, mask, holds>>
         ELSE /\ sched' = RestoredLists(r, u)
              /\ curPrio' = Restored(u) /\ mask' = MaskFor(curPrio')
              /\ holds' = [holds EXCEPT ![u] = FewerHolds(u)]
  BY <1>2, <1>3, <1>4, <1>5 DEF DeleteMutex, WakeAll
<1>7. /\ r \in SchedType /\ Covers(r) /\ InjectiveLists(r.lists)
      /\ \A l \in ListId : \A v \in Task :
           InList(r, v, l) <=> IF v \in Range(q) THEN l = curPrio[v]
                               ELSE InList(sched, v, l)
  <2>1. Covers(sched) /\ \A v \in Range(q) : mask[v] = curPrio[v]
    BY <1>4 DEF CoverInv, Masked
  <2> QED
    BY <1>4, <1>5, <2>1, AllResumedSched
<1>8. \A v \in Task : status'[v] = "INIT" => status[v] = "INIT"
  BY <1>6
<1>9. CASE u = NoTask
  <2>1. MaskFor(curPrio) = mask
    BY DEF MaskFor
  <2> QED
    BY <1>6, <1>7, <1>8, <1>9, <2>1, CoverFrame
<1>10. CASE u \in Task
  <2>1. status[u] # "INIT" /\ u # NoTask
    BY <1>3, <1>10, OwnerStarted
  <2>2. u \notin Range(q)
    BY <1>3, <1>4 DEF MutexInv, CallInv, CallOK
  <2>3. InPlace(r, u, curPrio[u])
    BY <1>7, <1>10, <2>2 DEF InPlace, ListsAgree
  <2>4. Covers(sched')
    BY <1>6, <1>7, <1>10, <2>1, <2>3, RestoredCovers
  <2>5. PICK p \in [Task -> Prio] :
          p = Restored(u) /\ \A v \in Task : v # u => p[v] = curPrio[v]
    BY <1>10, RestoredFacts
  <2>6. curPrio' = p /\ mask' = MaskFor(p) /\ holds' = [holds EXCEPT ![u] = FewerHolds(u)]
    BY <1>6, <2>1, <2>5
  <2>7. \A v \in Task : status'[v] = "INIT" =>
          status[v] = "INIT" /\ p[v] = curPrio[v] /\ holds'[v] = holds[v]
    BY <1>8, <2>1, <2>5, <2>6
  <2> QED
    BY <1>6, <2>4, <2>5, <2>6, <2>7, CoverFrame
<1> QED
  BY <1>3, <1>9, <1>10

LEMMA MutexCoverStep ==
  ASSUME MutexInv, HoldInv, CoverInv, [MutexNext]_allVars
  PROVE  CoverInv'
<1> USE MutexFacts
<1>0. Covers(sched) /\ \A t \in Task : Masked(t)
  BY DEF CoverInv
<1>1. ASSUME UNCHANGED vars PROVE CoverInv'
  BY <1>0, <1>1 DEF vars, taskVars, CoverInv, Masked
<1>2. ASSUME NEW t \in User, NEW x \in Mutex, NEW n, In(t, "take"), TakeNow(t, x, n)
      PROVE  CoverInv'
  <2>1. /\ UNCHANGED <<sched, status, initPrio, curPrio, mask>>
        /\ holds' = holds \/ holds' = [holds EXCEPT ![t] = @ + 1]
    BY <1>2 DEF TakeNow
  <2>2. status[t] # "INIT"
    BY <1>2, CallerReady DEF MutexInv, Ready
  <2> QED
    BY <1>0, <2>1, <2>2 DEF CoverInv, Masked
<1>3. ASSUME NEW t \in User, NEW n \in {Forever} \cup 0 .. MaxWait, Take(t, n) PROVE CoverInv'
  <2>1. In(t, "take") /\ t \in Task /\ call[t] = "take"
    BY <1>3 DEF Take, In
  <2>2. PICK x \in Mutex : x = obj[t]
    BY <2>1 DEF MutexInv, CallInv, CallOK
  <2> QED
    BY <1>2, <1>3, <2>1, <2>2, TakeWaitCovers DEF Take
<1>4. ASSUME NEW t \in User, Give(t) PROVE CoverInv'
  <2>1. In(t, "give") /\ t \in Task /\ call[t] = "give"
    BY <1>4 DEF Give, In
  <2>2. PICK x \in Mutex : x = obj[t]
    BY <2>1 DEF MutexInv, CallInv, CallOK
  <2>3. CASE UNCHANGED vars
    BY <1>1, <2>3
  <2>4. CASE Release(t, x)
    BY <2>1, <2>4, ReleaseCovers
  <2> QED
    BY <1>4, <2>2, <2>3, <2>4 DEF Give
<1>5. ASSUME MutexKernelStep PROVE CoverInv'
  BY <1>5, KernelStepIsNext, CoverStep DEF MutexKernelStep, MutexInv
<1> QED
  BY <1>1, <1>3, <1>4, <1>5, DeleteMutexCovers
  DEF MutexNext, MutexStep, Enter, TakeReturn, allVars

(* A priority with a ready task has its bit also while owners are raised   *)
(* and restored, if tasks are not created anew.  (yr_task_start on an      *)
(* owner that was deleted, created again and raised in between resets its  *)
(* priority and leaves its mask.)                                          *)
THEOREM BitmapNeverHidesIfNotRecreated == NoRecreation /\ MutexSpec => []BitmapCovers
<1>1. CoverInv => BitmapCovers
  BY DEF CoverInv, Covers, BitmapCovers
<1>2. MutexInit => CoverInv
  BY CoverInit DEF MutexInit
<1>3. MutexInv /\ HoldInv /\ [MutexNext]_allVars => HoldInv'
  BY HoldInvStep
<1>4. MutexInv /\ HoldInv /\ CoverInv /\ [MutexNext]_allVars => CoverInv'
  BY MutexCoverStep
<1> QED
  BY <1>1, <1>2, <1>3, <1>4, HoldInvInit, MutexInvHolds, PTL DEF MutexSpec

-----------------------------------------------------------------------------
(* Who is served: lists with YR_IPC_FLAG_PRIO stay in priority order, also *)
(* when an owner that waits itself is raised, and a mutex is given to the  *)
(* first waiter.                                                           *)
LEMMA MutexSorted ==
  ASSUME MutexInv, SortedLists, [MutexNext]_allVars
  PROVE  SortedLists'
<1> USE MutexFacts
<1>0. Inv /\ prioIpc \subseteq Ipc /\ SchedInv
  BY DEF MutexInv, MutexType
<1>a. ASSUME UNCHANGED <<sched, curPrio, prioIpc>> PROVE SortedLists'
  BY <1>a DEF SortedLists
<1>1. ASSUME NEW t \in User, NEW x \in Mutex, NEW n, In(t, "take"), TakeWait(t, x, n)
      PROVE  SortedLists'
  <2>1. PICK s : s = IF Boosts(t, x) THEN Reprioritised(sched, owner[x], Inherited(t, x))
                     ELSE sched
    OBVIOUS
  <2>2. /\ sched' = BlockedIn(s, x, t) /\ UNCHANGED prioIpc
        /\ curPrio' = Inherited(t, x) /\ owner[x] # t /\ t \in Task /\ x \in Ipc
    BY <1>1, <2>1 DEF TakeWait, BlockFrom
  <2>3. /\ curPrio' \in [Task -> Prio] /\ curPrio'[t] = curPrio[t]
        /\ \A u \in Task : u # owner[x] => curPrio'[u] = curPrio[u]
        /\ Boosts(t, x) => owner[x] \in Task
        /\ ListsAgree(s, curPrio')
    BY <2>1, <2>2, InheritedAgrees
  <2>4. s \in SchedType /\ InjectiveLists(s.lists)
    BY <2>3 DEF ListsAgree
  <2>5. \A u \in Range(s.lists[x]) : curPrio'[u] = curPrio[u]
    <3>1. \A u \in Range(s.lists[x]) : u \in Task /\ Waits(u, x)
      BY <2>2, <2>3, BlockedNodes
    <3> QED
      BY <2>3, <3>1 DEF MutexInv, CallInv, CallOK
  <2>6. ASSUME NEW j \in prioIpc PROVE InOrder(s.lists[j], curPrio')
    <3>1. InOrder(sched.lists[j], curPrio) /\ j \in Ipc
      BY <1>0 DEF SortedLists
    <3>2. CASE Boosts(t, x)
      <4>1. PICK u \in Task : u = owner[x]
        BY <2>3, <3>2
      <4>2. PICK q \in [Task -> Prio] :
              q = Inherited(t, x) /\ \A v \in Task : v # u => q[v] = curPrio[v]
        BY <2>2, <2>3, <4>1
      <4>3. s = Reprioritised(sched, u, q) /\ curPrio' = q
        BY <2>1, <2>2, <3>2, <4>1, <4>2
      <4>4. InOrder(Reprioritised(sched, u, q).lists[j], q)
        BY <3>1, <4>2, ReprioritisedSorted
      <4> QED
        BY <4>3, <4>4
    <3>3. CASE ~Boosts(t, x)
      BY <2>1, <2>2, <3>1, <3>3 DEF Inherited
    <3> QED
      BY <3>2, <3>3
  <2>7. ASSUME NEW j \in prioIpc PROVE InOrder(sched'.lists[j], curPrio')
    <3>1. PICK d : d = curPrio'
      OBVIOUS
    <3>2. /\ s \in SchedType /\ InjectiveLists(s.lists) /\ curPrio \in [Task -> Prio]
          /\ x \in Ipc /\ t \in Task /\ j \in Ipc /\ j \in prioIpc
          /\ InOrder(s.lists[j], d) /\ d[t] = curPrio[t]
          /\ \A u \in Range(s.lists[x]) : d[u] = curPrio[u]
      BY <1>0, <2>2, <2>3, <2>4, <2>5, <2>6, <3>1
    <3>3. InOrder(BlockedIn(s, x, t).lists[j], d)
      BY ONLY <3>2, BlockedInSorted
    <3> QED
      BY <2>2, <3>1, <3>3
  <2> QED
    BY <2>2, <2>7 DEF SortedLists
<1>2. ASSUME NEW t \in User, NEW x \in Mutex, In(t, "give"), Release(t, x)
      PROVE  SortedLists'
  <2>1. t \in Task /\ Ready(t) /\ x \in Ipc
    BY <1>0, <1>2, CallerReady
  <2>2. PICK s : s = RestoredLists(sched, t)
    OBVIOUS
  <2>3. /\ curPrio' = Restored(t) /\ UNCHANGED prioIpc
        /\ curPrio' \in [Task -> Prio] /\ ListsAgree(s, curPrio')
        /\ \A u \in Task : u # t => curPrio'[u] = curPrio[u]
    BY <1>2, <2>1, <2>2, RestoredFacts, RestoredAgrees DEF Release
  <2>4. ASSUME NEW j \in Ipc PROVE s.lists[j] = sched.lists[j]
    BY <2>1, <2>2, RestoredReady
  <2>5. ASSUME NEW j \in prioIpc PROVE InOrder(s.lists[j], curPrio') /\ j \in Ipc
    <3>1. j \in Ipc /\ InOrder(sched.lists[j], curPrio)
      BY <1>0 DEF SortedLists
    <3>2. \A u \in Range(sched.lists[j]) : u \in Task /\ Waits(u, j)
      BY <3>1, BlockedNodes
    <3>3. \A u \in Range(sched.lists[j]) : curPrio'[u] = curPrio[u]
      BY <2>1, <2>3, <3>2 DEF Ready, Waits
    <3> QED
      BY <2>4, <3>1, <3>3, InOrderFrame
  <2>6. CASE Waiters(x) = <<>>
    <3>1. sched' = s
      BY <1>2, <2>2, <2>6 DEF Release
    <3> QED
      BY <2>3, <2>5, <3>1 DEF SortedLists
  <2>7. CASE Waiters(x) # <<>>
    <3>1. ResumeFrom(s, x)
      BY <1>2, <2>2, <2>7 DEF Release
    <3>2. Head(s.lists[x]) \in Task
      BY <1>0, <2>1, <2>4, <2>7, FirstWaits DEF Waiters
    <3>3. s \in SchedType /\ InjectiveLists(s.lists)
      BY <2>3 DEF ListsAgree
    <3>4. ASSUME NEW j \in prioIpc PROVE InOrder(sched'.lists[j], curPrio')
      <4>1. PICK d : d = curPrio'
        OBVIOUS
      <4>2. /\ s \in SchedType /\ InjectiveLists(s.lists) /\ ResumeFrom(s, x)
            /\ Head(s.lists[x]) \in Task /\ curPrio \in [Task -> Prio] /\ j \in Ipc
            /\ InOrder(s.lists[j], d)
        BY <2>5, <3>1, <3>2, <3>3, <4>1
      <4>3. InOrder(sched'.lists[j], d)
        BY ONLY <4>2, ResumeFromSorted
      <4> QED
        BY <4>1, <4>3
    <3> QED
      BY <2>3, <3>4 DEF SortedLists
  <2> QED
    BY <2>6, <2>7
<1>3. ASSUME NEW t \in User, Give(t) PROVE SortedLists'
  <2>1. In(t, "give") /\ t \in Task /\ call[t] = "give"
    BY <1>3 DEF Give, In
  <2>2. PICK x \in Mutex : x = obj[t]
    BY <2>1 DEF MutexInv, CallInv, CallOK
  <2>3. CASE UNCHANGED vars
    BY <1>a, <2>3 DEF vars, taskVars
  <2>4. CASE Release(t, x)
    BY <1>2, <2>1, <2>4
  <2> QED
    BY <1>3, <2>2, <2>3, <2>4 DEF Give
<1>4. ASSUME NEW t \in User, DeleteMutex(t) PROVE SortedLists'
  <2>1. t \in Task /\ call[t] = "delete"
    BY <1>4 DEF DeleteMutex, In
  <2>2. PICK x \in Mutex : x = obj[t]
    BY <2>1 DEF MutexInv, CallInv, CallOK
  <2>3. PICK u \in Task \cup {NoTask} : u = owner[x]
    OBVIOUS
  <2>4. PICK r : r = AllResumed(sched.lists[x])
    OBVIOUS
  <2>5. /\ prioIpc' = prioIpc \ {x} /\ x \in Ipc
        /\ IF u = NoTask THEN sched' = r /\ UNCHANGED curPrio
           ELSE sched' = RestoredLists(r, u) /\ curPrio' = Restored(u)
    BY <1>4, <2>2, <2>3, <2>4 DEF DeleteMutex, Waiters
  <2>6. r \in SchedType
    <3>1. PICK q \in Seq(Task) : q = sched.lists[x] /\ IsInjective(q)
      BY <2>5, BlockedNodes
    <3> QED
      BY <2>4, <3>1, AllResumedSched
  <2>7. ASSUME NEW j \in prioIpc, j # x PROVE InOrder(sched'.lists[j], curPrio')
    <3>1. j \in Ipc /\ InOrder(sched.lists[j], curPrio)
      BY <1>0 DEF SortedLists
    <3>2. r.lists[j] = sched.lists[j]
      BY <1>0, <2>4, <2>5, <2>7, <3>1, AllResumedOthers
    <3>3. CASE u = NoTask
      BY <2>5, <3>1, <3>2, <3>3
    <3>4. CASE u \in Task
      <4>1. PICK q \in [Task -> Prio] :
              q = Restored(u) /\ \A v \in Task : v # u => q[v] = curPrio[v]
        BY <3>4, RestoredFacts
      <4>2. sched' = RestoredLists(r, u) /\ curPrio' = q
        BY <2>5, <3>4, <4>1
      <4>3. CASE q = curPrio
        BY <3>1, <3>2, <4>1, <4>2, <4>3 DEF RestoredLists
      <4>4. CASE q # curPrio
        <5>1. sched' = Reprioritised(r, u, q)
          BY <4>1, <4>2, <4>4 DEF RestoredLists
        <5>2. /\ IsInjective(r.lists[j])
              /\ \A v \in Range(r.lists[j]) : v \in Task /\ Waits(v, j)
          BY <3>1, <3>2, BlockedNodes
        <5>3. /\ r \in SchedType /\ curPrio \in [Task -> Prio] /\ u \in Task
              /\ q \in [Task -> Prio] /\ (\A v \in Task : v # u => q[v] = curPrio[v])
              /\ j \in Ipc /\ j \in prioIpc /\ InOrder(r.lists[j], curPrio)
              /\ IsInjective(r.lists[j])
              /\ \A v \in Range(r.lists[j]) : v \in Task /\ Waits(v, j)
          BY <2>6, <3>1, <3>2, <3>4, <4>1, <5>2
        <5>4. InOrder(Reprioritised(r, u, q).lists[j], q)
          BY ONLY <5>3, ReprioritisedInOrder
        <5> QED
          BY <4>2, <5>1, <5>4
      <4> QED
        BY <4>3, <4>4
    <3> QED
      BY <3>3, <3>4
  <2> QED
    BY <2>5, <2>7 DEF SortedLists
<1>5. ASSUME MutexKernelStep PROVE SortedLists'
  <2>1. Next /\ UNCHANGED prioIpc
    BY <1>5, KernelStepIsNext DEF MutexKernelStep, KernelStep
  <2>2. ASSUME NEW i \in prioIpc PROVE InOrder(sched'.lists[i], curPrio')
    <3>1. i \in Ipc /\ InOrder(sched.lists[i], curPrio)
      BY <1>0 DEF SortedLists
    <3> QED
      BY <1>0, <2>1, <3>1, KernelKeepsSorted
  <2> QED
    BY <2>1, <2>2 DEF SortedLists
<1>6. ASSUME NEW t \in User, NEW n \in {Forever} \cup 0 .. MaxWait, Take(t, n) PROVE SortedLists'
  <2>1. In(t, "take") /\ t \in Task /\ call[t] = "take"
    BY <1>6 DEF Take, In
  <2>2. PICK x \in Mutex : x = obj[t]
    BY <2>1 DEF MutexInv, CallInv, CallOK
  <2>3. CASE TakeNow(t, x, n)
    BY <1>a, <2>3 DEF TakeNow
  <2> QED
    BY <1>1, <1>6, <2>1, <2>2, <2>3 DEF Take
<1>7. ASSUME UNCHANGED vars PROVE SortedLists'
  BY <1>a, <1>7 DEF vars, taskVars
<1> QED
  BY <1>3, <1>4, <1>5, <1>6, <1>7 DEF MutexNext, MutexStep, Enter, TakeReturn, allVars

LEMMA MutexServesStep ==
  ASSUME MutexInv, SortedLists, [MutexNext]_allVars
  PROVE  ServesBestStep
<1> USE MutexFacts
<1>a. Inv /\ prioIpc \subseteq Ipc
  BY DEF MutexInv, MutexType
<1>b. Untold
  BY DEF MutexInv, CallInv, CallOK, Untold
<1>c. ASSUME UNCHANGED msg PROVE ServesBestStep
  BY <1>a, <1>b, <1>c, NobodyServed DEF Untold
<1>1. ASSUME NEW t \in User, NEW x \in Mutex, NEW n, In(t, "take"), TakeWait(t, x, n)
      PROVE  ServesBestStep
  <2>1. t \in Task /\ Ready(t)
    BY <1>1, <1>a, CallerReady
  <2>2. \A u \in Task : u # t => msg'[u] = msg[u]
    BY <1>1 DEF TakeWait, BlockFrom
  <2> QED
    BY <1>a, <1>b, <2>1, <2>2, NobodyServed DEF Untold, Ready
<1>2. ASSUME NEW t \in User, NEW x \in Mutex, In(t, "give"), Release(t, x)
      PROVE  ServesBestStep
  <2>1. t \in Task /\ Ready(t) /\ x \in Ipc
    BY <1>2, <1>a, CallerReady
  <2>2. RestoredLists(sched, t).lists[x] = sched.lists[x]
    BY <2>1, RestoredReady
  <2>3. CASE Waiters(x) = <<>>
    BY <1>2, <1>c, <2>3 DEF Release
  <2>4. CASE Waiters(x) # <<>>
    <3>1. PICK u : u = Head(sched.lists[x])
      OBVIOUS
    <3>2. ResumeFrom(RestoredLists(sched, t), x)
      BY <1>2, <2>4 DEF Release
    <3>3. msg' = [msg EXCEPT ![u] = [NoMsg EXCEPT !.notify = "OK"]]
      BY <2>2, <3>1, <3>2 DEF ResumeFrom
    <3> QED
      BY <1>a, <1>b, <2>1, <2>4, <3>1, <3>3, FirstServed DEF Waiters
  <2> QED
    BY <2>3, <2>4
<1>3. ASSUME NEW t \in User, NEW n, Take(t, n) PROVE ServesBestStep
  <2>1. In(t, "take") /\ t \in Task /\ call[t] = "take"
    BY <1>3 DEF Take, In
  <2>2. PICK x \in Mutex : x = obj[t]
    BY <2>1 DEF MutexInv, CallInv, CallOK
  <2>3. TakeNow(t, x, n) \/ TakeWait(t, x, n)
    BY <1>3, <2>2 DEF Take
  <2> QED
    BY <1>1, <1>c, <2>1, <2>3 DEF TakeNow
<1>4. ASSUME NEW t \in User, Give(t) PROVE ServesBestStep
  <2>1. In(t, "give") /\ t \in Task /\ call[t] = "give"
    BY <1>4 DEF Give, In
  <2>2. PICK x \in Mutex : x = obj[t]
    BY <2>1 DEF MutexInv, CallInv, CallOK
  <2>3. UNCHANGED vars \/ Release(t, x)
    BY <1>4, <2>2 DEF Give
  <2> QED
    BY <1>2, <1>c, <2>1, <2>3 DEF vars, taskVars
<1>5. ASSUME NEW t \in User, DeleteMutex(t) PROVE ServesBestStep
  BY <1>5, <1>a, <1>b, DeletionServesNobody DEF DeleteMutex
<1>6. ASSUME MutexKernelStep PROVE ServesBestStep
  BY <1>6, <1>a, <1>b, KernelServesBest DEF MutexKernelStep
<1>7. ASSUME UNCHANGED vars PROVE ServesBestStep
  BY <1>c, <1>7 DEF vars, taskVars
<1> QED
  BY <1>3, <1>4, <1>5, <1>6, <1>7 DEF MutexNext, MutexStep, Enter, TakeReturn, allVars

(* The task a mutex is given to: with YR_IPC_FLAG_PRIO none of the other   *)
(* waiters has a higher priority, also when inheritance or                 *)
(* yr_task_set_priority has raised one of them; with YR_IPC_FLAG_FIFO it   *)
(* has waited longest.                                                     *)
THEOREM MutexServesBest == MutexSpec => ServesBest
<1>1. MutexInit => SortedLists
  BY SortedInit DEF MutexInit
<1>2. MutexInv /\ SortedLists /\ [MutexNext]_allVars => SortedLists'
  BY MutexSorted
<1>3. MutexInv /\ SortedLists /\ [MutexNext]_allVars => [ServesBestStep]_<<vars, ipcVars>>
  BY MutexServesStep
<1>4. ServesBest <=> [][ServesBestStep]_<<vars, ipcVars>>
  BY PTL DEF ServesBest, ServesBestStep
<1> QED
  BY <1>1, <1>2, <1>3, <1>4, MutexInvHolds, PTL DEF MutexSpec

-----------------------------------------------------------------------------
(* No priority inversion, if tasks are neither created anew nor given      *)
(* another priority.  A waiter may itself be raised while it waits, so the *)
(* owner is compared with what the waiter had when it came: at least its   *)
(* own initial priority.                                                   *)
Raised(t) ==
  /\ curPrio[t] <= initPrio[t]
  /\ status[t] = "INIT" => holds[t] = 0

Inherits(x) == \A u \in Task : Waits(u, x) => curPrio[owner[x]] <= initPrio[u]

InheritInv ==
  /\ FixedPriorities
  /\ SortedLists
  /\ \A t \in Task : Raised(t)
  /\ \A x \in Mutex \cap prioIpc : Inherits(x)

LEMMA InheritInvInit == FixedPriorities /\ MutexInit => InheritInv
<1> SUFFICES ASSUME FixedPriorities, MutexInit PROVE InheritInv
  OBVIOUS
<1>1. /\ status = [t \in Task |-> IF t = Idle THEN "READY" ELSE "INIT"]
      /\ curPrio = BasePrio /\ initPrio = BasePrio /\ holds = [t \in Task |-> 0]
      /\ prioIpc \subseteq Ipc /\ Inv
  BY InvInit DEF MutexInit, Init
<1>2. \A t \in Task : BasePrio[t] \in Int
  <2>1. BasePrio \in [Task -> Prio]
    BY ConstantFacts
  <2> QED
    BY <2>1, PrioritiesAreInts
<1>3. \A t \in Task : Raised(t)
  BY <1>1, <1>2 DEF Raised
<1>4. \A x \in Mutex : Inherits(x)
  BY <1>1 DEF Inherits, Waits
<1>5. SortedLists
  BY SortedInit DEF MutexInit
<1> QED
  BY <1>1, <1>3, <1>4, <1>5 DEF InheritInv

(* Restoring an owner's priority leaves the mutexes it still owns alone.   *)
LEMMA RestoredElsewhere ==
  ASSUME MutexInv, HoldInv, HoldInv', MutexInv', NEW u \in Task, NEW z \in Mutex,
         curPrio' = Restored(u), holds'[u] = FewerHolds(u), owner'[z] \in Task,
         owner'[z] = owner[z]
  PROVE  curPrio'[owner'[z]] = curPrio[owner[z]]
<1>1. CASE owner[z] = u
  <2>1. holds'[u] # 0
    <3>1. PICK S : S = Possessions(u)'
      OBVIOUS
    <3>2. z \in S
      BY <1>1, <3>1 DEF Possessions
    <3>3. IsFiniteSet(S) /\ holds'[u] = Cardinality(S)
      BY <3>1 DEF HoldInv, Counted
    <3>4. Cardinality(S) # 0
      BY ONLY <3>2, <3>3, FS_EmptySet
    <3> QED
      BY <3>3, <3>4
  <2>2. curPrio' = curPrio
    BY <2>1 DEF Restored
  <2> QED
    BY <2>2
<1>2. CASE owner[z] # u
  BY <1>2, RestoredFacts
<1> QED
  BY <1>1, <1>2

LEMMA InheritInvStep ==
  ASSUME MutexInv, MutexInv', HoldInv, HoldInv', InheritInv, [MutexNext]_allVars
  PROVE  InheritInv'
<1> USE MutexFacts
<1>a. /\ FixedPriorities' /\ SortedLists' /\ Inv /\ prioIpc \subseteq Ipc
      /\ \A t \in Task : Raised(t)
      /\ \A x \in Mutex \cap prioIpc : Inherits(x)
      /\ \A t \in Task : curPrio[t] \in Int /\ initPrio[t] \in Int
  <2>1. SortedLists'
    BY MutexSorted DEF InheritInv
  <2>2. \A t \in Task : curPrio[t] \in Int /\ initPrio[t] \in Int
    BY PrioritiesAreInts
  <2> QED
    BY <2>1, <2>2 DEF InheritInv, FixedPriorities, MutexInv, MutexType
<1>b. \A x \in Mutex, u \in Task : Waits(u, x) => owner[x] \in Task
  BY DEF MutexInv, OwnerInv
<1>c. ASSUME UNCHANGED <<status, msg, initPrio, curPrio, holds, owner>>, prioIpc' = prioIpc
      PROVE  InheritInv'
  <2>1. UNCHANGED status /\ UNCHANGED msg /\ UNCHANGED initPrio /\ UNCHANGED curPrio
        /\ UNCHANGED holds /\ UNCHANGED owner
    BY <1>c
  <2>2. \A t \in Task : Raised(t)'
    BY <1>a, <2>1 DEF Raised
  <2>3. \A x \in Mutex \cap prioIpc : Inherits(x)'
    BY <1>a, <2>1 DEF Inherits, Waits
  <2> QED
    BY <1>a, <1>c, <2>2, <2>3 DEF InheritInv
<1>d. ASSUME UNCHANGED vars, UNCHANGED owner PROVE InheritInv'
  BY <1>c, <1>d DEF vars, taskVars
<1>1. ASSUME NEW t \in User, NEW x \in Mutex, NEW n, In(t, "take"), TakeNow(t, x, n)
      PROVE  InheritInv'
  <2>1. t \in Task /\ Ready(t)
    BY <1>1, CallerReady, <1>a
  <2>2. /\ UNCHANGED status /\ UNCHANGED msg /\ UNCHANGED initPrio /\ UNCHANGED curPrio
        /\ UNCHANGED prioIpc
    BY <1>1 DEF TakeNow
  <2>3. \A u \in Task : u # t => holds'[u] = holds[u]
    BY <1>1, <2>1 DEF TakeNow
  <2>4. \A u \in Task : Raised(u)'
    BY <1>a, <2>1, <2>2, <2>3 DEF Raised, Ready
  <2>5. /\ \A z \in Mutex : z # x => owner'[z] = owner[z]
        /\ owner'[x] = owner[x] \/ owner[x] = NoTask
    BY <1>1 DEF TakeNow, Owned, Free
  <2>6. \A z \in Mutex, u \in Task : Waits(u, z)' => Waits(u, z) /\ owner'[z] = owner[z]
    <3>1. \A z \in Mutex, u \in Task : Waits(u, z)' => Waits(u, z)
      BY <2>2 DEF Waits
    <3> QED
      BY <1>b, <2>5, <3>1
  <2>7. \A z \in Mutex \cap prioIpc : Inherits(z)'
    BY <1>a, <2>2, <2>6 DEF Inherits
  <2> QED
    BY <1>a, <2>2, <2>4, <2>7 DEF InheritInv
<1>2. ASSUME NEW t \in User, NEW x \in Mutex, NEW n \in {Forever} \cup 0 .. MaxWait,
             In(t, "take"), TakeWait(t, x, n)
      PROVE  InheritInv'
  <2>1. /\ t \in Task /\ Ready(t) /\ status' = [status EXCEPT ![t] = "BLOCKED"]
        /\ msg' = [msg EXCEPT ![t] = [source |-> x, reason |-> "IPC", notify |-> "NONE"]]
    BY <1>2, CallerReady, TakeWaitKeepsInv, <1>a
  <2>2. /\ UNCHANGED <<initPrio, holds, owner, prioIpc>> /\ curPrio' = Inherited(t, x)
        /\ UNCHANGED initPrio /\ UNCHANGED holds /\ UNCHANGED owner /\ UNCHANGED prioIpc
        /\ ~Free(x)
    BY <1>2 DEF TakeWait, BlockFrom
  <2>3. owner[x] \in Task
    BY <2>2 DEF MutexInv, OwnerInv, Free
  <2>4. /\ \A u \in Task : curPrio'[u] \in Int /\ curPrio'[u] <= curPrio[u]
        /\ curPrio'[owner[x]] <= curPrio[t]
    <3>1. CASE Boosts(t, x)
      <4>1. curPrio' = [curPrio EXCEPT ![owner[x]] = curPrio[t]] /\ curPrio[t] < curPrio[owner[x]]
        BY <2>2, <3>1 DEF Inherited, Boosts
      <4> QED
        BY <1>a, <2>1, <2>3, <4>1
    <3>2. CASE ~Boosts(t, x)
      <4>1. curPrio' = curPrio /\ ~(curPrio[t] < curPrio[owner[x]])
        BY <2>2, <2>3, <3>2 DEF Inherited, Boosts
      <4> QED
        BY <1>a, <2>1, <2>3, <4>1
    <3> QED
      BY <3>1, <3>2
  <2>5. \A u \in Task : Raised(u)'
    <3>1. ASSUME NEW u \in Task PROVE Raised(u)'
      <4>1. curPrio[u] <= initPrio[u] /\ (status[u] = "INIT" => holds[u] = 0)
        BY <1>a DEF Raised
      <4>2. curPrio'[u] <= initPrio'[u]
        BY <1>a, <2>2, <2>4, <4>1
      <4>3. status'[u] = "INIT" => status[u] = "INIT"
        BY <2>1
      <4> QED
        BY <2>2, <4>1, <4>2, <4>3 DEF Raised
    <3> QED
      BY <3>1
  <2>6. ASSUME NEW z \in Mutex \cap prioIpc, NEW u \in Task, Waits(u, z)'
        PROVE  curPrio'[owner'[z]] <= initPrio'[u]
    <3>1. CASE u = t
      <4>1. z = x
        BY <2>1, <2>6, <3>1 DEF Waits
      <4>2. curPrio[t] <= initPrio[t]
        BY <1>a, <2>1 DEF Raised
      <4> QED
        BY <1>a, <2>1, <2>2, <2>3, <2>4, <3>1, <4>1, <4>2
    <3>2. CASE u # t
      <4>1. Waits(u, z)
        BY <2>1, <2>6, <3>2 DEF Waits
      <4>2. curPrio[owner[z]] <= initPrio[u] /\ owner[z] \in Task
        BY <1>a, <1>b, <4>1 DEF Inherits
      <4>3. PICK v \in Task : v = owner[z]
        BY <4>2
      <4>4. /\ curPrio'[v] \in Int /\ curPrio'[v] <= curPrio[v]
            /\ curPrio[v] \in Int /\ initPrio[u] \in Int
            /\ curPrio[v] <= initPrio[u] /\ initPrio'[u] = initPrio[u] /\ owner'[z] = v
        BY <1>a, <2>2, <2>4, <4>2, <4>3
      <4> QED
        BY ONLY <4>4
    <3> QED
      BY <3>1, <3>2
  <2>7. \A z \in Mutex \cap prioIpc : Inherits(z)'
    BY <2>6 DEF Inherits
  <2> QED
    BY <1>a, <2>2, <2>5, <2>7 DEF InheritInv
<1>e. ASSUME NEW u \in Task, curPrio' = Restored(u), UNCHANGED initPrio
      PROVE  \A t \in Task : curPrio'[t] <= initPrio'[t]
  BY <1>a, <1>e DEF Restored, Raised
<1>3. ASSUME NEW t \in User, NEW x \in Mutex, x = obj[t], owner[x] = t, In(t, "give"),
             Release(t, x)
      PROVE  InheritInv'
  <2>1. t \in Task /\ Ready(t)
    BY <1>3, CallerReady, <1>a
  <2>2. curPrio' = Restored(t) /\ UNCHANGED initPrio /\ UNCHANGED prioIpc
    BY <1>3 DEF Release
  <2>3. PICK u : u = Head(Waiters(x))
    OBVIOUS
  <2>4. \/ /\ Waiters(x) = <<>> /\ UNCHANGED status /\ UNCHANGED msg
           /\ owner' = [owner EXCEPT ![x] = NoTask]
           /\ holds' = [holds EXCEPT ![t] = FewerHolds(t)]
        \/ /\ Waiters(x) # <<>> /\ u \in Task /\ Waits(u, x) /\ u # t
           /\ status' = [status EXCEPT ![u] = "READY"]
           /\ msg' = [msg EXCEPT ![u] = [NoMsg EXCEPT !.notify = "OK"]]
           /\ owner' = [owner EXCEPT ![x] = u]
           /\ holds' = [holds EXCEPT ![t] = FewerHolds(t), ![u] = @ + 1]
    <3>1. CASE Waiters(x) = <<>>
      <4>1. UNCHANGED <<status, msg>>
        BY <1>3, <3>1, ReleaseKeepsInv
      <4> QED
        BY <1>3, <3>1, <4>1 DEF Release, NextOwner, Owned
    <3>2. CASE Waiters(x) # <<>>
      <4>1. /\ u \in Task /\ Waits(u, x) /\ u # t
            /\ status' = [status EXCEPT ![u] = "READY"]
            /\ msg' = [msg EXCEPT ![u] = [NoMsg EXCEPT !.notify = "OK"]]
        BY <1>3, <2>3, <3>2, ReleaseKeepsInv
      <4> QED
        BY <1>3, <2>3, <3>2, <4>1 DEF Release, NextOwner, Owned
    <3> QED
      BY <3>1, <3>2
  <2>5. /\ holds'[t] = FewerHolds(t)
        /\ \A z \in Mutex : z # x => owner'[z] = owner[z]
        /\ \A v \in Task : status'[v] = "INIT" => status[v] = "INIT" /\ v # t /\ holds'[v] = holds[v]
        /\ \A v \in Task, z \in Mutex : Waits(v, z)' => Waits(v, z)
    <3>1. holds'[t] = FewerHolds(t) /\ \A z \in Mutex : z # x => owner'[z] = owner[z]
      BY <2>1, <2>4
    <3>2. \A v \in Task, z \in Mutex : Waits(v, z)' => Waits(v, z)
      BY <2>4 DEF Waits
    <3>3. ASSUME NEW v \in Task, status'[v] = "INIT"
          PROVE  status[v] = "INIT" /\ v # t /\ holds'[v] = holds[v]
      <4>1. CASE /\ UNCHANGED status /\ holds' = [holds EXCEPT ![t] = FewerHolds(t)]
        BY <2>1, <3>3, <4>1 DEF Ready
      <4>2. CASE /\ status' = [status EXCEPT ![u] = "READY"] /\ u \in Task
                 /\ holds' = [holds EXCEPT ![t] = FewerHolds(t), ![u] = @ + 1]
        <5>1. v # u /\ status[v] = "INIT"
          BY <3>3, <4>2
        <5>2. v # t
          BY <2>1, <5>1 DEF Ready
        <5> QED
          BY <4>2, <5>1, <5>2
      <4> QED
        BY <2>4, <4>1, <4>2
    <3> QED
      BY <3>1, <3>2, <3>3
  <2>6. \A v \in Task : Raised(v)'
    BY <1>a, <1>e, <2>1, <2>2, <2>5 DEF Raised
  <2>7. ASSUME NEW z \in Mutex \cap prioIpc, NEW v \in Task, Waits(v, z)'
        PROVE  curPrio'[owner'[z]] <= initPrio'[v]
    <3>1. Waits(v, z) /\ owner'[z] \in Task
      <4>1. owner'[z] # NoTask
        BY <2>7 DEF MutexInv, OwnerInv
      <4>2. owner'[z] \in Task \cup {NoTask}
        BY DEF MutexInv, MutexType
      <4> QED
        BY <2>5, <2>7, <4>1, <4>2
    <3>2. CASE z # x
      <4>1. owner'[z] = owner[z] /\ curPrio[owner[z]] <= initPrio[v]
        BY <1>a, <2>5, <3>1, <3>2 DEF Inherits
      <4>2. curPrio'[owner'[z]] = curPrio[owner[z]]
        <5>1. /\ MutexInv /\ HoldInv /\ HoldInv' /\ MutexInv' /\ z \in Mutex /\ t \in Task
              /\ curPrio' = Restored(t) /\ holds'[t] = FewerHolds(t) /\ owner'[z] \in Task
              /\ owner'[z] = owner[z]
          BY <2>1, <2>2, <2>5, <3>1, <4>1
        <5> QED
          BY ONLY <5>1, RestoredElsewhere
      <4> QED
        BY <2>2, <4>1, <4>2
    <3>3. CASE z = x
      <4>1. /\ Waiters(x) # <<>> /\ u \in Task /\ u # t /\ owner'[x] = u
        BY <2>4, <3>1, <3>3
      <4>2. curPrio'[u] = curPrio[u]
        BY <2>1, <2>2, <4>1, RestoredFacts
      <4>3. curPrio[u] <= curPrio[v]
        <5>1. /\ Inv /\ x \in Ipc /\ InOrder(sched.lists[x], curPrio) /\ sched.lists[x] # <<>>
              /\ v \in Task /\ Waits(v, x)
          BY <1>a, <2>7, <3>1, <3>3, <4>1 DEF InheritInv, SortedLists, Waiters
        <5>2. curPrio[Head(sched.lists[x])] <= curPrio[v]
          BY ONLY <5>1, FirstIsHighest
        <5> QED
          BY <2>3, <5>2 DEF Waiters
      <4>4. curPrio[v] <= initPrio[v]
        BY <1>a DEF Raised
      <4> QED
        BY <1>a, <2>2, <3>3, <4>1, <4>2, <4>3, <4>4, SMTT(30)
    <3> QED
      BY <3>2, <3>3
  <2>8. \A z \in Mutex \cap prioIpc : Inherits(z)'
    BY <2>7 DEF Inherits
  <2> QED
    BY <1>a, <2>2, <2>6, <2>8 DEF InheritInv
<1>4. ASSUME NEW t \in User, Give(t) PROVE InheritInv'
  <2>1. In(t, "give") /\ t \in Task /\ call[t] = "give"
    BY <1>4 DEF Give, In
  <2>2. PICK x \in Mutex : x = obj[t]
    BY <2>1 DEF MutexInv, CallInv, CallOK
  <2>3. CASE UNCHANGED <<vars, owner, hold>>
    BY <1>d, <2>3
  <2>4. CASE owner[x] = t /\ Owned(x, t, hold[x] - 1) /\ UNCHANGED vars
    <3>1. owner' = owner
      BY <2>4 DEF Owned
    <3> QED
      BY <1>d, <2>4, <3>1
  <2>5. CASE owner[x] = t /\ Release(t, x)
    BY <1>3, <2>1, <2>2, <2>5
  <2> QED
    BY <1>4, <2>2, <2>3, <2>4, <2>5 DEF Give
<1>5. ASSUME NEW t \in User, DeleteMutex(t) PROVE InheritInv'
  <2>1. t \in Task /\ call[t] = "delete"
    BY <1>5 DEF DeleteMutex, In
  <2>2. PICK x \in Mutex : x = obj[t]
    BY <2>1 DEF MutexInv, CallInv, CallOK
  <2>3. PICK u \in Task \cup {NoTask} : u = owner[x]
    OBVIOUS
  <2>4. /\ owner' = [owner EXCEPT ![x] = NoTask] /\ UNCHANGED initPrio
        /\ prioIpc' = prioIpc \ {x}
        /\ IF u = NoTask THEN UNCHANGED <<curPrio, holds>>
           ELSE curPrio' = Restored(u) /\ holds' = [holds EXCEPT ![u] = FewerHolds(u)]
        /\ WakeAll(Waiters(x))
    BY <1>5, <2>2, <2>3 DEF DeleteMutex, Owned
  <2>5. \A z \in Mutex : z # x => owner'[z] = owner[z]
    BY <2>4
  <2>6. \A v \in Task : \/ status'[v] = status[v] /\ msg'[v] = msg[v]
                        \/ status'[v] = "READY"
    BY <2>4 DEF WakeAll
  <2>7. \A v \in Task : curPrio'[v] <= initPrio'[v]
    <3>1. CASE u = NoTask
      BY <1>a, <2>4, <3>1 DEF Raised
    <3>2. CASE u \in Task
      BY <1>e, <2>4, <3>2
    <3> QED
      BY <3>1, <3>2
  <2>8. ASSUME NEW v \in Task, status'[v] = "INIT" PROVE holds'[v] = 0
    <3>1. status[v] = "INIT" /\ holds[v] = 0
      BY <1>a, <2>6, <2>8 DEF Raised
    <3>2. v # u
      BY <2>3, <3>1, OwnerHolds
    <3> QED
      BY <2>3, <2>4, <3>1, <3>2
  <2>9. \A v \in Task : Raised(v)'
    BY <2>7, <2>8 DEF Raised
  <2>10. ASSUME NEW z \in Mutex \cap prioIpc', NEW v \in Task, Waits(v, z)'
         PROVE  curPrio'[owner'[z]] <= initPrio'[v]
    <3>1. z # x /\ z \in prioIpc /\ Waits(v, z) /\ owner'[z] = owner[z]
      BY <2>4, <2>5, <2>6, <2>10 DEF Waits
    <3>2. owner[z] \in Task /\ curPrio[owner[z]] <= initPrio[v]
      BY <1>a, <1>b, <3>1 DEF Inherits
    <3>3. CASE u = NoTask
      BY <2>4, <3>1, <3>2, <3>3
    <3>4. CASE u \in Task
      <4>1. /\ MutexInv /\ HoldInv /\ HoldInv' /\ MutexInv' /\ z \in Mutex /\ u \in Task
            /\ curPrio' = Restored(u) /\ holds'[u] = FewerHolds(u) /\ owner'[z] \in Task
            /\ owner'[z] = owner[z]
        BY <2>4, <3>1, <3>2, <3>4
      <4>2. curPrio'[owner'[z]] = curPrio[owner[z]]
        BY ONLY <4>1, RestoredElsewhere
      <4> QED
        BY <2>4, <3>2, <4>2
    <3> QED
      BY <3>3, <3>4
  <2>11. \A z \in Mutex \cap prioIpc' : Inherits(z)'
    BY <2>10 DEF Inherits
  <2> QED
    BY <1>a, <2>9, <2>11 DEF InheritInv
<1>6. ASSUME MutexKernelStep PROVE InheritInv'
  <2>1. /\ UNCHANGED holds /\ (\A t \in Task : PriorityStep(t)) /\ UNCHANGED owner
        /\ Next /\ UNCHANGED prioIpc
    BY <1>6, <1>a, KernelPriorities, KernelStepIsNext DEF MutexKernelStep, HoldInv, KernelStep
  <2>2. \A u \in Task, x \in Mutex : Waits(u, x)' => Waits(u, x)
    BY <1>a, <2>1, KernelBlocksNobody
  <2>3. ASSUME NEW t \in Task
        PROVE  /\ status'[t] = "INIT" => status[t] = "INIT"
               /\ initPrio'[t] = initPrio[t]
               /\ \/ curPrio'[t] = curPrio[t]
                  \/ status[t] = "INIT" /\ curPrio'[t] = initPrio[t]
    BY <2>1 DEF PriorityStep, InheritInv
  <2>4. \A t \in Task : Raised(t)'
    <3>1. ASSUME NEW t \in Task PROVE Raised(t)'
      <4>1. curPrio[t] <= initPrio[t] /\ (status[t] = "INIT" => holds[t] = 0)
            /\ curPrio[t] \in Int /\ initPrio[t] \in Int
        BY <1>a DEF Raised
      <4> QED
        BY <2>1, <2>3, <4>1 DEF Raised
    <3> QED
      BY <3>1
  <2>5. ASSUME NEW z \in Mutex \cap prioIpc, NEW v \in Task, Waits(v, z)'
        PROVE  curPrio'[owner'[z]] <= initPrio'[v]
    <3>1. Waits(v, z) /\ owner[z] \in Task /\ curPrio[owner[z]] <= initPrio[v]
      BY <1>a, <1>b, <2>2, <2>5 DEF Inherits
    <3>2. status[owner[z]] # "INIT"
      <4>1. holds[owner[z]] # 0
        BY <3>1, OwnerHolds
      <4> QED
        BY <1>a, <3>1, <4>1 DEF Raised
    <3> QED
      BY <2>1, <2>3, <3>1, <3>2
  <2>6. \A z \in Mutex \cap prioIpc : Inherits(z)'
    BY <2>5 DEF Inherits
  <2> QED
    BY <1>a, <2>1, <2>4, <2>6 DEF InheritInv
<1>7. ASSUME NEW t \in User, NEW n \in {Forever} \cup 0 .. MaxWait, Take(t, n) PROVE InheritInv'
  <2>1. In(t, "take") /\ t \in Task /\ call[t] = "take"
    BY <1>7 DEF Take, In
  <2>2. PICK x \in Mutex : x = obj[t]
    BY <2>1 DEF MutexInv, CallInv, CallOK
  <2> QED
    BY <1>1, <1>2, <1>7, <2>1, <2>2 DEF Take
<1> QED
  BY <1>d, <1>4, <1>5, <1>6, <1>7
  DEF MutexNext, MutexStep, Enter, TakeReturn, allVars, mutexVars

(* While a task waits for a mutex whose waiters are served by priority,    *)
(* its owner runs at least at the waiter's priority: after others joined   *)
(* or left, after a hand-over, after the owner gave another mutex back.    *)
THEOREM OwnerInheritsIfFixed ==
  NoRecreation /\ FixedPriorities /\ MutexSpec => []OwnerInherits
<1>1. MutexInv /\ MutexInv' /\ HoldInv /\ HoldInv' /\ InheritInv /\ [MutexNext]_allVars
        => InheritInv'
  BY InheritInvStep
<1>2. MutexInv /\ HoldInv /\ [MutexNext]_allVars => HoldInv'
  BY HoldInvStep
<1>3. MutexInv /\ HoldInv /\ InheritInv => OwnerInherits
  <2> SUFFICES ASSUME MutexInv, HoldInv, InheritInv,
                      NEW x \in Mutex \cap prioIpc, NEW u \in Range(Waiters(x)), holds[u] = 0
               PROVE  owner[x] # NoTask /\ curPrio[owner[x]] <= curPrio[u]
    BY DEF OwnerInherits
  <2>1. u \in Task /\ Waits(u, x)
    BY MutexFacts, BlockedNodes DEF Waiters
  <2>2. curPrio[owner[x]] <= initPrio[u]
    BY <2>1 DEF InheritInv, Inherits
  <2>3. curPrio[u] = initPrio[u]
    BY <2>1 DEF HoldInv, Counted
  <2>4. owner[x] # NoTask
    BY <2>1 DEF MutexInv, OwnerInv
  <2> QED
    BY <2>2, <2>3, <2>4
<1> QED
  BY <1>1, <1>2, <1>3, InheritInvInit, HoldInvInit, MutexInvHolds, PTL DEF MutexSpec
=============================================================================
