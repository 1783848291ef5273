----------------------------- MODULE Semaphore ------------------------------
(***************************************************************************)
(* semaphore.c: a counting semaphore used by the tasks of module Kernel    *)
(* and by interrupt handlers.  A function checks the validity of the       *)
(* semaphore, then enters its critical section: the labels "take" and      *)
(* "give" of call are the points in between.  A taker that waited reads    *)
(* its result in a critical section of its own, from label "wait".         *)
(*                                                                         *)
(* The specification implements module UnitPool.                           *)
(***************************************************************************)
EXTENDS Ipc

CONSTANTS
  Sem,       \* the semaphore
  MaxCount,  \* sem->max_count
  SemCalls   \* which semaphore functions each task calls

ASSUME SemAssumption ==
  /\ Sem \in Ipc
  /\ MaxCount \in Nat \ {0}
  /\ \A u \in User : SemCalls[u] \subseteq {"take", "give", "delete"}

VARIABLES
  count,   \* sem->current_count
  valid,   \* sem->ipc_base.is_valid
  ret      \* the result of the call that is decided in this step, if any:
           \* the value that yr_semaphore_take or _give returns

semVars == <<count, valid, ret>>
allVars == <<vars, ipcVars, semVars>>

Waiters == sched.lists[Sem]

(* max_count is reset by yr_semaphore_delete.                              *)
Limit == IF valid THEN MaxCount ELSE 0

(* An interrupt handler is no task.                                        *)
NoResult == [of |-> "none", to |-> NoTask, ok |-> FALSE]
Result ==
  {NoResult} \cup
  [of : {"take", "give"}, to : User \cup {NoTask}, ok : BOOLEAN]

(* The call of function f by t ends with YR_OK, or with an error.          *)
Answer(f, t, success) == ret' = [of |-> f, to |-> t, ok |-> success]
Silent == ret' = NoResult

SemInit ==
  /\ Init
  /\ call = [t \in Task |-> "none"]
  /\ isr = "off"
  /\ count \in 0 .. MaxCount
  /\ valid = TRUE
  /\ ret = NoResult

-----------------------------------------------------------------------------
(* Faulty variants for mutation tests. *)

IsrGiveCounts ==
  /\ Interrupt
  /\ valid
  /\ count < MaxCount
  /\ count' = count + 1
  /\ Answer("give", NoTask, TRUE)
  /\ UNCHANGED <<vars, call, valid, isr>>

IsrGiveUnlimited ==
  /\ Interrupt
  /\ valid
  /\ Waiters = <<>>
  /\ count' = count + 1
  /\ Answer("give", NoTask, TRUE)
  /\ UNCHANGED <<vars, isr, call, valid>>

SucceedsUnlessLate(t) == msg[t].notify # "TIMEOUT"

-----------------------------------------------------------------------------
(* The task functions *)

(* yr_semaphore_take and yr_semaphore_give up to the critical section.     *)
Enter(t, f) ==
  /\ In(t, "none")
  /\ f \in SemCalls[t]
  /\ valid
  /\ GotoCall(t, f)
  /\ Silent
  /\ UNCHANGED <<vars, isr, count, valid>>

(* yr_semaphore_take with wait_ticks n.                                    *)
Take(t, n) ==
  /\ In(t, "take")
  /\ \/ /\ count > 0
        /\ count' = count - 1
        /\ GotoCall(t, "none")
        /\ Answer("take", t, TRUE)
        /\ UNCHANGED vars
     \/ /\ count = 0
        /\ n = 0
        /\ GotoCall(t, "none")
        /\ Answer("take", t, FALSE)
        /\ UNCHANGED <<vars, count>>
     \/ /\ count = 0
        /\ n # 0
        /\ Block(Sem, t, n)
        /\ Goto(t, "switch")
        /\ GotoCall(t, "wait")
        /\ Silent
        /\ UNCHANGED count
  /\ UNCHANGED <<isr, valid>>

(* The end of a take that waited, and the result it returns.               *)
Succeeds(t) == msg[t].notify = "OK"

TakeReturn(t) ==
  /\ In(t, "wait")
  /\ GotoCall(t, "none")
  /\ Answer("take", t, Succeeds(t))
  /\ UNCHANGED <<vars, isr, count, valid>>

(* yr_semaphore_give *)
Give(t) ==
  /\ In(t, "give")
  /\ GotoCall(t, "none")
  /\ Answer("give", t, count < Limit)
  /\ \/ count >= Limit /\ UNCHANGED <<vars, count>>
     \/ /\ count < Limit
        /\ Waiters # <<>>
        /\ Resume(Sem)
        /\ Goto(t, IF ResumePreempts(Sem, t) THEN "switch" ELSE "app")
        /\ UNCHANGED <<current, initPrio, curPrio, mask, slice, holds,
                       prioIpc, tick, arg, idleDone, fault, count>>
     \/ /\ count < Limit
        /\ Waiters = <<>>
        /\ count' = count + 1
        /\ UNCHANGED vars
  /\ UNCHANGED <<valid, isr>>

(* yr_semaphore_delete does not check the validity.                        *)
DeleteSem(t) ==
  /\ In(t, "none")
  /\ "delete" \in SemCalls[t]
  /\ IF Waiters = <<>>
     THEN UNCHANGED <<sched, status, msg, timerVars, pc>>
     ELSE ResumeAll(Waiters) /\ Goto(t, "switch")
  /\ count' = 0
  /\ valid' = FALSE
  /\ Silent
  /\ prioIpc' = prioIpc \ {Sem}
  /\ UNCHANGED <<current, initPrio, curPrio, mask, slice, holds, tick, arg,
                 idleDone, fault, ipcVars>>

-----------------------------------------------------------------------------
(* The functions for interrupt handlers *)

(* yr_semaphore_take_from_isr *)
IsrTake ==
  /\ Interrupt
  /\ valid
  /\ Answer("take", NoTask, count > 0)
  /\ count' = IF count > 0 THEN count - 1 ELSE count
  /\ UNCHANGED <<vars, call, valid, isr>>

(* yr_semaphore_give_from_isr *)
IsrGive ==
  /\ Interrupt
  /\ valid
  /\ Answer("give", NoTask, count < MaxCount \/ Waiters # <<>>)
  /\ \/ /\ Waiters # <<>>
        /\ Resume(Sem)
        /\ isr' = IF ResumePreempts(Sem, current) THEN "switch" ELSE "off"
        /\ UNCHANGED <<current, initPrio, curPrio, mask, slice, holds,
                       prioIpc, tick, pc, arg, idleDone, fault, count>>
     \/ /\ Waiters = <<>>
        /\ count < MaxCount
        /\ count' = count + 1
        /\ UNCHANGED <<vars, isr>>
     \/ /\ Waiters = <<>>
        /\ count >= MaxCount
        /\ UNCHANGED <<vars, isr, count>>
  /\ UNCHANGED <<call, valid>>

-----------------------------------------------------------------------------
SemStep(t) ==
  \/ \E f \in {"take", "give"} : Enter(t, f)
  \/ \E n \in {Forever} \cup 0 .. MaxWait : Take(t, n)
  \/ TakeReturn(t)
  \/ Give(t)
  \/ DeleteSem(t)

SemNext ==
  \/ \E t \in User : SemStep(t)
  \/ IsrTake
  \/ IsrGive
  \/ (KernelStep \/ IsrSwitch) /\ Silent /\ UNCHANGED <<count, valid>>

SemSpec == SemInit /\ [][SemNext]_allVars

-----------------------------------------------------------------------------
(* Properties *)

SemTypeOK ==
  /\ TypeOK
  /\ prioIpc \subseteq Ipc
  /\ call \in [Task -> {"none", "take", "give", "wait"}]
  /\ isr \in {"off", "switch"}
  /\ count \in 0 .. MaxCount
  /\ valid \in BOOLEAN
  /\ ret \in Result

(* No task waits while there is a unit: a give hands its unit over instead *)
(* of counting it, and nobody waits without having found the count zero.   *)
NoIdleUnit == count > 0 => Waiters = <<>>

(* A task has an armed, expired or firing timer only while it is BLOCKED,  *)
(* and always while it sleeps: a give, a deletion of the semaphore, a      *)
(* timeout, and the suspension or deletion of the waiter stop the timer,   *)
(* so that a stale one never ends a later wait.                            *)
TimersMatchWaits ==
  \A t \in Task :
    LET timed == t \in Range(timerList) \cup Range(due) \cup {firing} IN
    /\ timed => status[t] = "BLOCKED"
    /\ status[t] = "BLOCKED" /\ msg[t].reason = "SLEEP" => timed

Alive == {t \in User : status[t] \notin {"INIT", "TERMINATED", "DELETED"}}

(* Takers that are on the way back from their wait.                        *)
Returning == {t \in Alive : call[t] = "wait" /\ t \notin Range(Waiters)}

Pool == INSTANCE UnitPool
  WITH Taker <- User, Outsider <- NoTask, avail <- count, alive <- Alive,
       waiting <- Range(Waiters), open <- valid,
       granted <- {t \in Returning : msg[t].notify = "OK"},
       refused <- {t \in Returning : msg[t].notify # "OK"}

(* Units are neither lost nor duplicated, and results are true: a take     *)
(* returns success exactly if it took a unit or was granted one, a give    *)
(* exactly if its unit went into the semaphore or to a waiter, however     *)
(* give, timeout, suspension and deletion race for a task.  Only the       *)
(* deletion of a task, or of the semaphore, makes a unit disappear.        *)
UnitsConserved == Pool!Spec
=============================================================================
