------------------------------- MODULE Mutex --------------------------------
(***************************************************************************)
(* mutex.c: recursive mutexes with priority inheritance, used by the tasks *)
(* of module Kernel.  A function checks the validity of the mutex, then    *)
(* enters its critical section: the labels "take", "give" and "delete" of  *)
(* call are the points in between.  A taker that waited reads its result   *)
(* in a critical section of its own, from label "wait".                    *)
(*                                                                         *)
(* The specification implements module Lock.                               *)
(***************************************************************************)
EXTENDS Ipc

CONSTANTS
  Mutex,       \* the mutexes
  HoldMax,     \* YR_MUTEX_HOLD_MAX
  MutexCalls   \* which functions each task calls on which mutexes

ASSUME MutexAssumption ==
  /\ Mutex \subseteq Ipc
  /\ HoldMax \in Nat \ {0}
  /\ \A u \in User : MutexCalls[u] \subseteq {"take", "give", "delete"} \X Mutex

VARIABLES
  owner,   \* mutex->owner
  hold,    \* mutex->hold
  valid,   \* the mutexes whose ipc_base.is_valid is YR_TRUE
  obj      \* the mutex a task's call is about

mutexVars == <<owner, hold, valid, obj>>
allVars   == <<vars, ipcVars, mutexVars>>

Waiters(x) == sched.lists[x]

MutexInit ==
  /\ Init
  /\ call = [t \in Task |-> "none"]
  /\ isr = "off"
  /\ owner = [x \in Mutex |-> NoTask]
  /\ hold = [x \in Mutex |-> 0]
  /\ valid = Mutex
  /\ obj = [t \in Task |-> NoIpc]

Return(t) == GotoCall(t, "none") /\ obj' = [obj EXCEPT ![t] = NoIpc]

Owned(x, t, n) ==
  /\ owner' = [owner EXCEPT ![x] = t]
  /\ hold' = [hold EXCEPT ![x] = n]

-----------------------------------------------------------------------------
(* Faulty variants for mutation tests. *)

BeyondHoldMax(x) == hold[x] > HoldMax

HoldsKept(u) == holds[u]

NotRestored(u) == curPrio

RestoredAtEachGive(u) == [curPrio EXCEPT ![u] = initPrio[u]]

SucceedsIfNotified(t) == msg[t].notify = "OK"

LeftWithoutOwner(x) == NoTask

-----------------------------------------------------------------------------
(* Priority inheritance *)

(* The owner of x inherits the priority of the task t that is to wait.     *)
Boosts(t, x) == owner[x] # NoTask /\ curPrio[t] < curPrio[owner[x]]

Inherited(t, x) ==
  IF Boosts(t, x) THEN [curPrio EXCEPT ![owner[x]] = curPrio[t]] ELSE curPrio

(* Task u has lost a mutex: its hold_mutex_count, and with the last mutex  *)
(* the end of the inheritance.                                             *)
FewerHolds(u) == IF holds[u] > 0 THEN holds[u] - 1 ELSE 0

Restored(u) ==
  IF FewerHolds(u) = 0 THEN [curPrio EXCEPT ![u] = initPrio[u]] ELSE curPrio

RestoredLists(s, u) ==
  IF Restored(u) = curPrio THEN s ELSE Reprioritised(s, u, Restored(u))

RestoringSwitches(u) == Restored(u) # curPrio /\ NeedsSwitch(u, initPrio[u])

-----------------------------------------------------------------------------
(* The functions *)

(* yr_mutex_take, yr_mutex_give and yr_mutex_delete up to the critical     *)
(* section.                                                                *)
Enter(t, f, x) ==
  /\ In(t, "none")
  /\ <<f, x>> \in MutexCalls[t]
  /\ x \in valid
  /\ GotoCall(t, f)
  /\ obj' = [obj EXCEPT ![t] = x]
  /\ UNCHANGED <<vars, isr, owner, hold, valid>>

Free(x) == owner[x] = NoTask /\ hold[x] = 0

AtHoldMax(x) == hold[x] >= HoldMax

(* A take that gets the mutex, or that fails at once.                      *)
TakeNow(t, x, n) ==
  /\ Return(t)
  /\ UNCHANGED <<sched, current, status, initPrio, curPrio, mask, slice, msg,
                 timerVars, prioIpc, tick, pc, arg, idleDone, fault>>
  /\ \/ /\ AtHoldMax(x)
        /\ UNCHANGED <<owner, hold, holds>>
     \/ /\ ~AtHoldMax(x)
        /\ owner[x] = t
        /\ Owned(x, t, hold[x] + 1)
        /\ UNCHANGED holds
     \/ /\ Free(x)
        /\ Owned(x, t, 1)
        /\ holds' = [holds EXCEPT ![t] = @ + 1]
     \/ /\ n = 0
        /\ ~AtHoldMax(x)
        /\ ~Free(x)
        /\ owner[x] # t
        /\ UNCHANGED <<owner, hold, holds>>

(* A take that waits.                                                      *)
TakeWait(t, x, n) ==
  /\ n # 0
  /\ ~AtHoldMax(x)
  /\ ~Free(x)
  /\ owner[x] # t
  /\ curPrio' = Inherited(t, x)
  /\ mask' = MaskFor(curPrio')
  /\ BlockFrom(IF Boosts(t, x) THEN Reprioritised(sched, owner[x], Inherited(t, x))
               ELSE sched, x, t, n)
  /\ Goto(t, "switch")
  /\ GotoCall(t, "wait")
  /\ UNCHANGED <<owner, hold, obj>>

(* yr_mutex_take with wait_ticks n.                                        *)
Take(t, n) ==
  /\ In(t, "take")
  /\ TakeNow(t, obj[t], n) \/ TakeWait(t, obj[t], n)
  /\ UNCHANGED <<isr, valid>>

(* The end of a take that waited, and the result it returns.               *)
Succeeds(t) == msg[t].notify = "OK" /\ owner[obj[t]] = t

TakeReturn(t) ==
  /\ In(t, "wait")
  /\ Return(t)
  /\ UNCHANGED <<vars, isr, owner, hold, valid>>

NextOwner(x) == IF Waiters(x) = <<>> THEN NoTask ELSE Head(Waiters(x))

(* The owner gives up x; the first waiter, if there is one, gets it.       *)
Release(t, x) ==
  LET next == NextOwner(x) IN
  /\ curPrio' = Restored(t)
  /\ mask' = MaskFor(curPrio')
  /\ \/ /\ Waiters(x) = <<>>
        /\ Owned(x, next, 0)
        /\ holds' = [holds EXCEPT ![t] = FewerHolds(t)]
        /\ sched' = RestoredLists(sched, t)
        /\ Goto(t, IF RestoringSwitches(t) THEN "switch" ELSE "app")
        /\ UNCHANGED <<status, msg, timerVars>>
     \/ /\ Waiters(x) # <<>>
        /\ Owned(x, next, 1)
        /\ holds' = [holds EXCEPT ![t] = FewerHolds(t),
                                   ![Head(Waiters(x))] = @ + 1]
        /\ ResumeFrom(RestoredLists(sched, t), x)
        /\ Goto(t, IF RestoringSwitches(t) \/ curPrio'[Head(Waiters(x))] < curPrio'[t]
                   THEN "switch" ELSE "app")
  /\ UNCHANGED <<current, initPrio, slice, prioIpc, tick, arg, idleDone,
                 fault>>

(* yr_mutex_give *)
Give(t) ==
  LET x == obj[t] IN
  /\ In(t, "give")
  /\ Return(t)
  /\ \/ /\ owner[x] # t
        /\ UNCHANGED <<vars, owner, hold>>
     \/ /\ owner[x] = t
        /\ hold[x] > 1
        /\ Owned(x, t, hold[x] - 1)
        /\ UNCHANGED vars
     \/ /\ owner[x] = t
        /\ hold[x] = 1
        /\ Release(t, x)
  /\ UNCHANGED <<isr, valid>>

(* yr_mutex_delete: the owner loses the mutex too.                         *)
DeleteMutex(t) ==
  LET x == obj[t]
      u == owner[x]
  IN  /\ In(t, "delete")
      /\ WakeAll(Waiters(x))
      /\ IF u = NoTask
         THEN /\ sched' = AllResumed(Waiters(x))
              /\ UNCHANGED <<curPrio, mask, holds>>
         ELSE /\ sched' = RestoredLists(AllResumed(Waiters(x)), u)
              /\ curPrio' = Restored(u)
              /\ mask' = MaskFor(curPrio')
              /\ holds' = [holds EXCEPT ![u] = FewerHolds(u)]
      /\ Goto(t, IF Waiters(x) # <<>> \/ (u # NoTask /\ RestoringSwitches(u))
                 THEN "switch" ELSE "app")
      /\ Owned(x, NoTask, 0)
      /\ valid' = valid \ {x}
      /\ prioIpc' = prioIpc \ {x}
      /\ Return(t)
      /\ UNCHANGED <<current, initPrio, slice, tick, arg, idleDone, fault,
                     isr>>

-----------------------------------------------------------------------------
MutexStep(t) ==
  \/ \E f \in {"take", "give", "delete"}, x \in Mutex : Enter(t, f, x)
  \/ \E n \in {Forever} \cup 0 .. MaxWait : Take(t, n)
  \/ TakeReturn(t)
  \/ Give(t)
  \/ DeleteMutex(t)

MutexKernelStep ==
  /\ KernelStep
  /\ obj' = [t \in Task |-> IF call'[t] = "none" THEN NoIpc ELSE obj[t]]
  /\ UNCHANGED <<owner, hold, valid>>

MutexNext == MutexKernelStep \/ \E t \in User : MutexStep(t)

MutexSpec == MutexInit /\ [][MutexNext]_allVars

-----------------------------------------------------------------------------
(* Properties *)

MutexTypeOK ==
  /\ TypeOK
  /\ prioIpc \subseteq Ipc
  /\ call \in [Task -> {"none", "take", "give", "delete", "wait"}]
  /\ isr = "off"
  /\ owner \in [Mutex -> Task \cup {NoTask}]
  /\ hold \in [Mutex -> 0 .. HoldMax]
  /\ valid \subseteq Mutex
  /\ obj \in [Task -> Mutex \cup {NoIpc}]

(* hold_mutex_count, which decides when an inherited priority ends, counts *)
(* the mutexes a task owns, over hand-overs, deletions of mutexes and of   *)
(* tasks.  (A task created anew starts from zero; see README.)             *)
HoldsCounted ==
  \A t \in Task : holds[t] = Cardinality({x \in Mutex : owner[x] = t})

(* Inheritance ends: a task that owns no mutex runs at its own priority.   *)
InheritanceEnds == \A t \in Task : holds[t] = 0 => curPrio[t] = initPrio[t]

(* No priority inversion: while a task waits, the owner runs at least at   *)
(* its priority, also after other tasks have joined or left the list and   *)
(* after the mutex has been handed over.  Inheritance is not transitive: a *)
(* waiter that owns a mutex itself may be boosted while it waits; and only *)
(* YR_IPC_FLAG_PRIO hands the mutex to the highest waiter.                 *)
OwnerInherits ==
  \A x \in Mutex \cap prioIpc : \A u \in Range(Waiters(x)) :
    holds[u] = 0 => owner[x] # NoTask /\ curPrio[owner[x]] <= curPrio[u]

(* A take that waited returns success exactly if its task is the owner,    *)
(* however give, timeout, suspension and deletion race: no task believes   *)
(* to hold a mutex it does not hold, none owns a mutex it will never give. *)
TakeIsTruthful ==
  [][\A t \in Task : TakeReturn(t) => (Succeeds(t) <=> owner[obj[t]] = t)]_allVars

Abstract == INSTANCE Lock
  WITH Client <- User, Locks <- Mutex, None <- NoTask, MaxDepth <- HoldMax,
       holder <- owner, depth <- hold, open <- valid,
       waiting <- [x \in Mutex |-> Range(Waiters(x))]

(* The mutex is a lock: one owner, handed over to a waiter with the last   *)
(* give, never lost and never taken past a waiter.                         *)
IsLock == Abstract!Spec
=============================================================================
