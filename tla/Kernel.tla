------------------------------- MODULE Kernel -------------------------------
(***************************************************************************)
(* Tasks, scheduler, system tick and idle task of yuan-rtos on one core.   *)
(*                                                                         *)
(* Every critical section of the C code (PRIMASK set) is one action.       *)
(* Between two critical sections the SysTick handler may run, and after it *)
(* another task.  A task executes only while it is the current task and no *)
(* interrupt handler is active.  An API function ends its critical section *)
(* before it calls yr_sched_switch, which has one of its own: the label    *)
(* pc[t] = "switch" is the point between the two.                          *)
(*                                                                         *)
(* Timers are kept as the number of ticks left (module Timer justifies     *)
(* this for the 32-bit tick counter).                                      *)
(***************************************************************************)
EXTENDS Integers, FiniteSets, Sequences, RunQueue

CONSTANTS
  User,         \* the application's tasks
  Idle,         \* yr_idle_task
  NoTask,       \* the null task pointer
  MaxPriority,  \* YR_TASK_MAX_PRIORITY
  SliceTicks,   \* init_ticks, the length of a time slice
  MaxSleep,     \* bound on the argument of yr_task_sleep_ticks
  BasePrio,     \* priority each task is created with
  Calls,        \* which API functions each task calls
  Defunct,      \* head of yr_task_defunct_list
  Ipc,          \* IPC objects, whose blocked lists may hold tasks
  NoIpc         \* the null IPC pointer

Task   == User \cup {Idle}
Prio   == 0 .. MaxPriority - 1
ListId == Prio \cup {Defunct} \cup Ipc

Api == {"start", "suspend", "delete", "exit", "sleep", "sleep0", "yield",
        "prio", "create"}

ASSUME TaskAssumption ==
  /\ Idle \notin User
  /\ NoTask \notin Task
ASSUME SizeAssumption ==
  /\ MaxPriority \in Nat \ {0}
  /\ SliceTicks \in Nat \ {0}
  /\ MaxSleep \in Nat
ASSUME ListAssumption ==
  /\ Defunct \notin Prio \cup Ipc
  /\ Ipc \cap Prio = {}
  /\ NoIpc \notin Prio \cup {Defunct} \cup Ipc
ASSUME WorkloadAssumption ==
  /\ BasePrio \in [Task -> Prio]
  /\ BasePrio[Idle] = MaxPriority - 1
  /\ \A u \in User : Calls[u] \subseteq Api

VARIABLES
  sched,      \* the lists of task nodes and the bitmap of ready priorities
  current,    \* yr_current_task
  status,     \* task->status
  initPrio,   \* task->init_priority
  curPrio,    \* task->current_priority
  mask,       \* the priority whose bit task->priority_mask is
  slice,      \* task->remaining_ticks
  holds,      \* task->hold_mutex_count
  msg,        \* task->msg_info: source, reason, notify
  prioIpc,    \* the IPC objects whose flag is YR_IPC_FLAG_PRIO
  timerList,  \* yr_timer_list: tasks whose timer is armed, in expiry order
  left,       \* timeout_ticks - yr_current_ticks of an armed timer
  tick,       \* where the SysTick handler is; "off" when it is not active
  due,        \* timeout_list of yr_timer_check
  firing,     \* the task whose timeout callback runs next
  pc,         \* where a task is in the kernel; "app" is its own code
  arg,        \* the task an interrupted yr_task_start works on
  idleDone,   \* idle has executed yr_task_cleanup_defunct
  fault       \* what went wrong beyond the code's control, or "none"

taskVars  == <<status, initPrio, curPrio, mask, slice, holds, msg>>
timerVars == <<timerList, left, due, firing>>
vars == <<sched, current, taskVars, timerVars, prioIpc, tick, pc, arg, idleDone,
          fault>>

Status == {"INIT", "READY", "RUNNING", "BLOCKED", "SUSPENDED", "TERMINATED",
           "DELETED"}
Stage  == {"off", "yield", "switch", "check", "fire", "timeout", "fireSwitch"}
Label  == {"app", "start", "switch"}
Fault  == {"none", "misdispatched", "relinked"}
SchedType == [lists : [ListId -> Seq(Task)], group : SUBSET Prio]
MsgType == [source : Ipc \cup {NoIpc},
            reason : {"NONE", "SLEEP", "IPC"},
            notify : {"NONE", "OK", "TIMEOUT", "DELETED"}]
NoMsg  == [source |-> NoIpc, reason |-> "NONE", notify |-> "NONE"]

-----------------------------------------------------------------------------
(* Initial state: yr_kernel_init has run and main() has created its tasks. *)

Init ==
  /\ sched = SchedInsert([lists |-> [l \in ListId |-> <<>>], group |-> {}],
                         Idle, MaxPriority - 1, MaxPriority - 1)
  /\ current = NoTask
  /\ status = [t \in Task |-> IF t = Idle THEN "READY" ELSE "INIT"]
  /\ initPrio = BasePrio
  /\ curPrio = BasePrio
  /\ mask = BasePrio
  /\ slice = [t \in Task |-> SliceTicks]
  /\ holds = [t \in Task |-> 0]
  /\ msg = [t \in Task |-> NoMsg]
  /\ prioIpc \in SUBSET Ipc
  /\ timerList = <<>>
  /\ left = [t \in Task |-> 0]
  /\ tick = "off"
  /\ due = <<>>
  /\ firing = NoTask
  /\ pc = [t \in Task |-> "app"]
  /\ arg = [t \in Task |-> NoTask]
  /\ idleDone = FALSE
  /\ fault = "none"

-----------------------------------------------------------------------------
(* Where a task is, and what stops the model *)

(* Task t executes: it is current and no interrupt handler is active.      *)
Executes(t) == current = t /\ tick = "off" /\ fault = "none"

(* Task t, in its own code, calls the API function f.                      *)
MayCall(t, f) == Executes(t) /\ pc[t] = "app" /\ f \in Calls[t]

Goto(t, label) == pc' = [pc EXCEPT ![t] = label]

(* The code has left the behaviour it defines: it treats a list head as a  *)
(* task, or inserts a node that is already in a list.                      *)
Crash(kind) ==
  /\ fault' = kind
  /\ UNCHANGED <<sched, current, taskVars, timerVars, tick, pc, arg,
                 idleDone>>

Misdispatch == ~CanDispatch(sched) /\ Crash("misdispatched")

(* priority_mask once the current priorities are prio: a priority that     *)
(* stays as it is leaves it alone.                                         *)
MaskFor(prio) ==
  [t \in Task |-> IF prio[t] = curPrio[t] THEN mask[t] ELSE prio[t]]

-----------------------------------------------------------------------------
(* Faulty variants of definitions below, for mutation tests: each breaks a *)
(* property that the original has.                                         *)

PreemptsLower(p, t) == p > curPrio[t]

StopTimerForgotten(t) == UNCHANGED timerVars

StartTimerForgotten(t, n) == UNCHANGED timerVars

DispatchKeepsRunning ==
  /\ CanDispatch(sched)
  /\ current' = Chosen(sched)
  /\ status' = [status EXCEPT ![current'] = "RUNNING"]

StartUnchecked(t, u) ==
  /\ MayCall(t, "start")
  /\ Goto(t, "start")
  /\ arg' = [arg EXCEPT ![t] = u]
  /\ UNCHANGED <<sched, current, taskVars, timerVars, tick, idleDone, fault>>

ChangePriorityInPlace(u, p) ==
  /\ curPrio' = [curPrio EXCEPT ![u] = p]
  /\ mask' = MaskFor(curPrio')
  /\ UNCHANGED sched

ReorderForgotten(s, u, prio) == s

ChargeSliceLate ==
  IF slice[current] = 0
  THEN slice' = [slice EXCEPT ![current] = SliceTicks] /\ tick' = "yield"
  ELSE slice' = [slice EXCEPT ![current] = @ - 1] /\ tick' = "check"

-----------------------------------------------------------------------------
(* Pieces shared by several operations *)

(* A task made ready at priority p is to run instead of t.                 *)
Preempts(p, t) == p < curPrio[t]

(* yr_timer_stop(&task->timer), whichever list the timer is in.            *)
StopTimer(t) ==
  /\ timerList' = Without(timerList, t)
  /\ due' = Without(due, t)
  /\ left' = [left EXCEPT ![t] = 0]
  /\ UNCHANGED firing

(* yr_timer_set_ticks and yr_timer_start.                                  *)
StartTimer(t, n) ==
  /\ left' = [left EXCEPT ![t] = n]
  /\ timerList' = InsertTimer(Without(timerList, t), t, left')
  /\ due' = Without(due, t)
  /\ UNCHANGED firing

(* The effect of yr_sched_switch: the head of the queue of the highest     *)
(* priority in the bitmap becomes current.  If it is current already, the  *)
(* code returns at once and leaves its status as it is.                    *)
Dispatch ==
  LET next == Chosen(sched) IN
  /\ CanDispatch(sched)
  /\ IF next = current THEN UNCHANGED <<current, status>>
     ELSE /\ current' = next
          /\ status' = [status EXCEPT
                          ![current] = IF @ = "RUNNING" THEN "READY" ELSE @,
                          ![next] = "RUNNING"]

-----------------------------------------------------------------------------
(* Task management *)

(* yr_task_start, critical section: the caller checked the status before.  *)
StartEffect(u) ==
  /\ status' = [status EXCEPT ![u] = "READY"]
  /\ IF status[u] = "INIT"
     THEN /\ curPrio' = [curPrio EXCEPT ![u] = initPrio[u]]
          /\ slice' = [slice EXCEPT ![u] = SliceTicks]
     ELSE UNCHANGED <<curPrio, slice>>
  /\ sched' = SchedInsert(sched, u, curPrio'[u], mask[u])
  /\ UNCHANGED <<initPrio, mask, holds, msg>>

(* main() starts a task before yr_kernel_start.                            *)
MainStart(u) ==
  /\ current = NoTask
  /\ status[u] = "INIT"
  /\ StartEffect(u)
  /\ UNCHANGED <<current, timerVars, tick, pc, arg, idleDone, fault>>

KernelStart ==
  /\ current = NoTask
  /\ CanDispatch(sched)
  /\ current' = Chosen(sched)
  /\ status' = [status EXCEPT ![current'] = "RUNNING"]
  /\ slice' = [slice EXCEPT ![current'] = SliceTicks]
  /\ UNCHANGED <<sched, initPrio, curPrio, mask, holds, msg, timerVars, tick,
                 pc, arg, idleDone, fault>>

(* yr_task_start up to its critical section: the status check.             *)
StartCheck(t, u) ==
  /\ MayCall(t, "start")
  /\ status[u] \in {"INIT", "SUSPENDED"}
  /\ Goto(t, "start")
  /\ arg' = [arg EXCEPT ![t] = u]
  /\ UNCHANGED <<sched, current, taskVars, timerVars, tick, idleDone, fault>>

(* yr_task_start from its critical section on.  Its early return for the   *)
(* current task is never taken: that task is neither INIT nor SUSPENDED    *)
(* when it calls (RunInv of module Kernel_proofs).                         *)
StartCommit(t) ==
  LET u == arg[t] IN
  /\ Executes(t)
  /\ pc[t] = "start"
  /\ ~Linked(sched.lists, u)
  /\ StartEffect(u)
  /\ Goto(t, IF Preempts(curPrio'[u], t) THEN "switch" ELSE "app")
  /\ arg' = [arg EXCEPT ![t] = NoTask]
  /\ UNCHANGED <<current, timerVars, tick, idleDone, fault>>

(* The task has been started, or deleted, since the check.  The code links *)
(* the linked node: both lists lose nodes, and nothing is said from here.  *)
StartRelinks(t) ==
  /\ Executes(t)
  /\ pc[t] = "start"
  /\ Linked(sched.lists, arg[t])
  /\ Crash("relinked")

(* yr_sched_switch called by a task at the end of an API function.         *)
TaskSwitch(t) ==
  /\ Executes(t)
  /\ pc[t] = "switch"
  /\ Dispatch
  /\ Goto(t, "app")
  /\ UNCHANGED <<sched, initPrio, curPrio, mask, slice, holds, msg, timerVars,
                 tick, arg, idleDone, fault>>

TaskMisdispatch(t) ==
  /\ Executes(t)
  /\ pc[t] = "switch"
  /\ Misdispatch

(* yr_task_sleep_ticks(n) with n # 0.                                      *)
Sleep(t, n) ==
  /\ MayCall(t, "sleep")
  /\ sched' = SchedRemove(sched, t, curPrio[t], mask[t])
  /\ status' = [status EXCEPT ![t] = "BLOCKED"]
  /\ msg' = [msg EXCEPT ![t] = [NoMsg EXCEPT !.reason = "SLEEP"]]
  /\ StartTimer(t, n)
  /\ Goto(t, "switch")
  /\ UNCHANGED <<current, initPrio, curPrio, mask, slice, holds, tick, arg,
                 idleDone, fault>>

(* yr_task_sleep_ticks(0) is a call of yr_sched_switch.                    *)
SleepZero(t) ==
  /\ MayCall(t, "sleep0")
  /\ Goto(t, "switch")
  /\ UNCHANGED <<sched, current, taskVars, timerVars, tick, arg, idleDone,
                 fault>>

(* yr_sched_yield by a task; alone in its queue it returns at once.        *)
Yield(t) ==
  /\ MayCall(t, "yield")
  /\ sched.lists[curPrio[t]] # <<t>>
  /\ sched' = Rotate(sched, t, curPrio[t])
  /\ Goto(t, "switch")
  /\ UNCHANGED <<current, taskVars, timerVars, tick, arg, idleDone, fault>>

(* yr_task_suspend(u).                                                     *)
Suspend(t, u) ==
  /\ MayCall(t, "suspend")
  /\ \/ /\ status[u] \in {"READY", "RUNNING"}
        /\ sched' = SchedRemove(sched, u, curPrio[u], mask[u])
        /\ UNCHANGED timerVars
     \/ /\ status[u] = "BLOCKED"
        /\ StopTimer(u)
        /\ sched' = [sched EXCEPT !.lists = Unlink(@, u)]
  /\ status' = [status EXCEPT ![u] = "SUSPENDED"]
  /\ Goto(t, IF u = t THEN "switch" ELSE "app")
  /\ UNCHANGED <<current, initPrio, curPrio, mask, slice, holds, msg, tick,
                 arg, idleDone, fault>>

(* __task_delete(u), for a task that is neither TERMINATED nor DELETED.    *)
DeleteEffect(u) ==
  LET removed == IF status[u] \in {"READY", "RUNNING"}
                 THEN SchedRemove(sched, u, curPrio[u], mask[u])
                 ELSE [sched EXCEPT !.lists = Unlink(@, u)]
  IN  /\ sched' = [removed EXCEPT !.lists = LinkLast(@, Defunct, u)]
      /\ StopTimer(u)
      /\ status' = [status EXCEPT ![u] = "TERMINATED"]
      /\ UNCHANGED <<current, initPrio, curPrio, mask, slice, holds, msg,
                     tick, arg, idleDone, fault>>

(* yr_task_delete(u).                                                      *)
Delete(t, u) ==
  /\ MayCall(t, "delete")
  /\ status[u] \notin {"TERMINATED", "DELETED"}
  /\ DeleteEffect(u)
  /\ Goto(t, IF u = t THEN "switch" ELSE "app")

(* The task's entry function returns into __task_exit.                     *)
Exit(t) ==
  /\ MayCall(t, "exit")
  /\ DeleteEffect(t)
  /\ Goto(t, "switch")

(* yr_task_cleanup_defunct, which idle calls once before its endless loop. *)
CleanupDefunct ==
  /\ Executes(Idle)
  /\ ~idleDone
  /\ idleDone' = TRUE
  /\ sched' = [sched EXCEPT !.lists[Defunct] = <<>>]
  /\ status' = [t \in Task |-> IF t \in Range(sched.lists[Defunct])
                               THEN "DELETED" ELSE status[t]]
  /\ UNCHANGED <<current, initPrio, curPrio, mask, slice, holds, msg,
                 timerVars, tick, pc, arg, fault>>

(* yr_task_create for a DELETED task; nothing else refers to it.           *)
Create(t, u) ==
  /\ MayCall(t, "create")
  /\ status[u] = "DELETED"
  /\ status' = [status EXCEPT ![u] = "INIT"]
  /\ initPrio' = [initPrio EXCEPT ![u] = BasePrio[u]]
  /\ curPrio' = [curPrio EXCEPT ![u] = BasePrio[u]]
  /\ mask' = [mask EXCEPT ![u] = BasePrio[u]]
  /\ slice' = [slice EXCEPT ![u] = SliceTicks]
  /\ holds' = [holds EXCEPT ![u] = 0]
  /\ msg' = [msg EXCEPT ![u] = NoMsg]
  /\ pc' = [pc EXCEPT ![u] = "app"]
  /\ arg' = [arg EXCEPT ![u] = NoTask]
  /\ UNCHANGED <<sched, current, timerVars, tick, idleDone, fault>>

(* yr_ipc_reorder_blocked_task, if u waits at an IPC object.               *)
Reordered(s, u, prio) ==
  LET i == msg[u].source IN
  IF msg[u].reason = "IPC" /\ i # NoIpc /\ i \in prioIpc
  THEN [s EXCEPT !.lists =
          LET rest == Unlink(@, u)
          IN  [rest EXCEPT ![i] = InsertByPriority(@, u, prio)]]
  ELSE s

(* The lists s after yr_task_ctrl_current(u, SET_CUR_PRIORITY, prio[u]):   *)
(* the new priority and its mask are in place before the task leaves its   *)
(* queue.                                                                  *)
Reprioritised(s, u, prio) ==
  CASE status[u] \in {"READY", "RUNNING"} ->
         SchedInsert(SchedRemove(s, u, prio[u], prio[u]), u, prio[u], prio[u])
    [] status[u] = "BLOCKED" -> Reordered(s, u, prio)
    [] OTHER -> s

ChangePriority(u, p) ==
  /\ curPrio' = [curPrio EXCEPT ![u] = p]
  /\ mask' = MaskFor(curPrio')
  /\ sched' = Reprioritised(sched, u, curPrio')

(* The value yr_task_ctrl_current leaves in *need_switch.                  *)
NeedsSwitch(u, p) ==
  \/ u = current /\ status[u] = "RUNNING" /\ curPrio[u] < p
  \/ status[u] = "READY" /\ p < curPrio'[current]

(* yr_task_set_priority(u, p).                                             *)
SetPriority(t, u, p) ==
  /\ MayCall(t, "prio")
  /\ initPrio' = [initPrio EXCEPT ![u] = p]
  /\ IF (holds[u] = 0 \/ p < curPrio[u]) /\ curPrio[u] # p
     THEN /\ ChangePriority(u, p)
          /\ Goto(t, IF NeedsSwitch(u, p) THEN "switch" ELSE "app")
     ELSE UNCHANGED <<curPrio, mask, sched, pc>>
  /\ UNCHANGED <<current, status, slice, holds, msg, timerVars, tick, arg,
                 idleDone, fault>>

-----------------------------------------------------------------------------
(* The SysTick handler, yr_tick_update                                     *)

ChargeSlice ==
  IF slice[current] = 1
  THEN slice' = [slice EXCEPT ![current] = SliceTicks] /\ tick' = "yield"
  ELSE slice' = [slice EXCEPT ![current] = @ - 1] /\ tick' = "check"

(* The first critical section: time advances, the slice is charged.        *)
(* (Before yr_kernel_start a tick only counts: no timer is armed.)         *)
TickBegin ==
  /\ tick = "off"
  /\ current # NoTask
  /\ fault = "none"
  /\ left' = [t \in Task |-> IF t \in Range(timerList) THEN left[t] - 1
                             ELSE left[t]]
  /\ IF status[current] = "RUNNING" THEN ChargeSlice
     ELSE UNCHANGED slice /\ tick' = "check"
  /\ UNCHANGED <<sched, current, status, initPrio, curPrio, mask, holds, msg,
                 timerList, due, firing, pc, arg, idleDone, fault>>

(* yr_sched_yield called by the handler.                                   *)
TickYield ==
  /\ tick = "yield"
  /\ IF sched.lists[curPrio[current]] = <<current>>
     THEN tick' = "check" /\ UNCHANGED sched
     ELSE /\ sched' = Rotate(sched, current, curPrio[current])
          /\ tick' = "switch"
  /\ UNCHANGED <<current, taskVars, timerVars, pc, arg, idleDone, fault>>

(* yr_sched_switch called by the handler: at the end of the slice, or after *)
(* a timeout callback.                                                     *)
TickSwitch ==
  /\ tick \in {"switch", "fireSwitch"}
  /\ fault = "none"
  /\ Dispatch
  /\ tick' = IF tick = "switch" THEN "check" ELSE "fire"
  /\ UNCHANGED <<sched, initPrio, curPrio, mask, slice, holds, msg, timerVars,
                 pc, arg, idleDone, fault>>

TickMisdispatch ==
  /\ tick \in {"switch", "fireSwitch"}
  /\ fault = "none"
  /\ Misdispatch

(* yr_timer_check, its critical section.                                   *)
TickCheck ==
  LET n == ExpiredCount(timerList, left) IN
  /\ tick = "check"
  /\ due' = SubSeq(timerList, 1, n)
  /\ timerList' = SubSeq(timerList, n + 1, Len(timerList))
  /\ tick' = "fire"
  /\ UNCHANGED <<sched, current, taskVars, left, firing, pc, arg, idleDone,
                 fault>>

(* yr_timer_check, its second loop: take the next timer off timeout_list.  *)
TickPop ==
  /\ tick = "fire"
  /\ due # <<>>
  /\ firing' = Head(due)
  /\ due' = Tail(due)
  /\ tick' = "timeout"
  /\ UNCHANGED <<sched, current, taskVars, timerList, left, pc, arg, idleDone,
                 fault>>

(* yr_timeout_default_func up to its call of yr_sched_switch.              *)
TickTimeout ==
  /\ tick = "timeout"
  /\ firing' = NoTask
  /\ IF status[firing] = "BLOCKED"
     THEN /\ status' = [status EXCEPT ![firing] = "READY"]
          /\ msg' = [msg EXCEPT ![firing] = [NoMsg EXCEPT !.notify = "TIMEOUT"]]
          /\ sched' = SchedInsert([sched EXCEPT !.lists = Unlink(@, firing)],
                                  firing, curPrio[firing], mask[firing])
          /\ tick' = IF Preempts(curPrio[firing], current) THEN "fireSwitch"
                     ELSE "fire"
     ELSE tick' = "fire" /\ UNCHANGED <<status, msg, sched>>
  /\ UNCHANGED <<current, initPrio, curPrio, mask, slice, holds, timerList,
                 left, due, pc, arg, idleDone, fault>>

TickEnd ==
  /\ tick = "fire"
  /\ due = <<>>
  /\ tick' = "off"
  /\ UNCHANGED <<sched, current, taskVars, timerVars, pc, arg, idleDone,
                 fault>>

-----------------------------------------------------------------------------
(* After undefined behaviour nothing more is said of the system.           *)
Halted == fault # "none" /\ UNCHANGED vars

TaskStep(t) ==
  \/ StartCommit(t)
  \/ StartRelinks(t)
  \/ TaskSwitch(t)
  \/ TaskMisdispatch(t)
  \/ \E n \in 1 .. MaxSleep : Sleep(t, n)
  \/ SleepZero(t)
  \/ Yield(t)
  \/ Exit(t)
  \/ \E u \in User :
       \/ StartCheck(t, u)
       \/ Suspend(t, u)
       \/ Delete(t, u)
       \/ Create(t, u)
       \/ \E p \in Prio : SetPriority(t, u, p)

TickStep ==
  \/ TickBegin
  \/ TickYield
  \/ TickSwitch
  \/ TickMisdispatch
  \/ TickCheck
  \/ TickPop
  \/ TickTimeout
  \/ TickEnd

(* None of these operations sets the flag of an IPC object.                *)
Next ==
  /\ \/ \E u \in User : MainStart(u)
     \/ KernelStart
     \/ \E t \in User : TaskStep(t)
     \/ CleanupDefunct
     \/ TickStep
     \/ Halted
  /\ UNCHANGED prioIpc

(* main() reaches yr_kernel_start, the SysTick interrupt keeps arriving    *)
(* and its handler finishes.                                               *)
TickFairness ==
  /\ WF_vars(KernelStart /\ UNCHANGED prioIpc)
  /\ WF_vars(TickStep /\ UNCHANGED prioIpc)

(* The handler returns before the next tick, so a task that is current     *)
(* inside a kernel function again and again gets to its next step there,   *)
(* and idle to its clean-up: strong fairness, since each tick interrupts   *)
(* the task.  Nothing is assumed of a task's own code.                     *)
KernelFairness ==
  /\ SF_vars(CleanupDefunct /\ UNCHANGED prioIpc)
  /\ \A t \in User : /\ SF_vars(StartCommit(t) /\ UNCHANGED prioIpc)
                     /\ SF_vars(TaskSwitch(t) /\ UNCHANGED prioIpc)

Spec == Init /\ [][Next]_vars

FairSpec == Spec /\ TickFairness /\ KernelFairness
-----------------------------------------------------------------------------
(* Properties *)

TypeOK ==
  /\ sched \in SchedType
  /\ current \in Task \cup {NoTask}
  /\ status \in [Task -> Status]
  /\ initPrio \in [Task -> Prio]
  /\ curPrio \in [Task -> Prio]
  /\ mask \in [Task -> Prio]
  /\ slice \in [Task -> 1 .. SliceTicks]
  /\ holds \in [Task -> Nat]
  /\ msg \in [Task -> MsgType]
  /\ timerList \in Seq(Task)
  /\ left \in [Task -> Int]
  /\ tick \in Stage
  /\ due \in Seq(Task)
  /\ firing \in Task \cup {NoTask}
  /\ pc \in [Task -> Label]
  /\ arg \in [Task -> Task \cup {NoTask}]
  /\ idleDone \in BOOLEAN
  /\ fault \in Fault

(* The list a task's status says its node is in, as a set of at most one.  *)
Home(t) ==
  CASE status[t] \in {"READY", "RUNNING"} -> {curPrio[t]}
    [] status[t] = "TERMINATED" -> {Defunct}
    [] status[t] = "BLOCKED" /\ msg[t].reason = "IPC" -> {msg[t].source}
    [] OTHER -> {}

(* Status and lists never disagree: at the end of every critical section a *)
(* READY or RUNNING task is in the ready queue of its current priority, a  *)
(* TERMINATED one in the defunct list, a task waiting at an IPC object in  *)
(* the object's list, any other task in none; and every list has a node    *)
(* only once.  (A start that would link a node again ends the model as     *)
(* "relinked": see NoFault.)                                               *)
NodesMatchStatus ==
  /\ \A t \in Task, l \in ListId :
       t \in Range(sched.lists[l]) <=> l \in Home(t)
  /\ \A l \in ListId : IsInjective(sched.lists[l])

(* No ready task is invisible to yr_find_first_set.                        *)
BitmapCovers == \A p \in Prio : sched.lists[p] # <<>> => p \in sched.group

(* yr_sched_remove_task clears the bit of a queue it empties: no bit is    *)
(* left behind for an empty queue.                                         *)
BitmapExact == \A p \in Prio : sched.lists[p] # <<>> <=> p \in sched.group

(* Between two kernel calls with no interrupt pending, the current task is *)
(* the first task of the highest priority that has a ready task: every     *)
(* operation that readies or blocks a task has requested the switch it     *)
(* makes necessary.                                                        *)
HighestRuns ==
  (tick = "off" /\ current # NoTask /\ pc[current] # "switch" /\ fault = "none")
    => \E p \in Prio : /\ sched.lists[p] # <<>> /\ Head(sched.lists[p]) = current
                      /\ \A q \in 0 .. p - 1 : sched.lists[q] = <<>>

(* Whatever the interleaving of API calls and ticks, the kernel never      *)
(* dispatches a list head as a task and never links a node twice.          *)
NoFault == fault = "none"

(* A task has an armed, expired or firing timer exactly as long as it is   *)
(* BLOCKED by a sleep: no suspend, delete or timeout leaves a timer behind *)
(* that would later ready the task, and no sleeper loses its timer.        *)
TimersMatchSleepers ==
  \A t \in Task :
    t \in Range(timerList) \cup Range(due) \cup {firing}
      <=> status[t] = "BLOCKED" /\ msg[t].reason = "SLEEP"

(* yr_timer_list is in expiry order after every insertion and removal, and *)
(* the handler leaves no expired timer in it: yr_timer_check, which stops  *)
(* at the first timer that has not expired, misses none.                   *)
NoMissedTimeout ==
  /\ \A i, j \in DOMAIN timerList :
       i < j => left[timerList[i]] <= left[timerList[j]]
  /\ tick = "off" => \A i \in DOMAIN timerList : left[timerList[i]] >= 1

(* At most the current task is RUNNING: a switch demotes the task it       *)
(* replaces, also when the tick interrupts yr_task_start or a sleep.       *)
OnlyCurrentRuns == \A t \in Task : status[t] = "RUNNING" => t = current

(* t is before u in queue q. *)
Ahead(q, t, u) == \E i, j \in DOMAIN q : i < j /\ q[i] = t /\ q[j] = u

(* Equal priorities are served first come, first served: a task that stays *)
(* in a ready queue is overtaken there only if it is the current task, at  *)
(* the end of its slice or in yr_sched_yield.                              *)
FifoWithinPriority ==
  [][\A p \in Prio : \A t, u \in Task :
       /\ Ahead(sched.lists[p], t, u)
       /\ {t, u} \subseteq Range(sched'.lists[p])
       => Ahead(sched'.lists[p], t, u) \/ t = current]_vars

(* A TERMINATED task can only become DELETED and a DELETED one only be     *)
(* created anew: no timeout, resumption or late start revives it.          *)
DeletionIsFinal ==
  [][\A t \in Task :
       /\ status[t] = "TERMINATED" => status'[t] \in {"TERMINATED", "DELETED"}
       /\ status[t] = "DELETED" => status'[t] \in {"DELETED", "INIT"}]_vars

(* yr_task_start acts on an INIT or SUSPENDED task only; task.c calls the  *)
(* function atomic, so that its check and its effect belong together.      *)
StartIsAtomic ==
  [][\A t \in User : StartCommit(t) \/ StartRelinks(t)
       => status[arg[t]] \in {"INIT", "SUSPENDED"}]_vars

(* A sleeping task is woken, suspended or deleted after finitely many      *)
(* ticks, whatever the other tasks do.                                     *)
SleeperWakes ==
  \A t \in User : status[t] = "BLOCKED" ~> status[t] # "BLOCKED"

InTopQueue(t) ==
  \E p \in Prio : /\ t \in Range(sched.lists[p])
                  /\ \A q \in 0 .. p - 1 : sched.lists[q] = <<>>

(* Round robin: a task in the highest ready queue gets the processor, or   *)
(* the queue stops being the highest, or the task leaves it.               *)
RoundRobin == \A t \in User : InTopQueue(t) ~> (current = t \/ ~InTopQueue(t))

(* Round robin, except while the current task is READY: one that was made  *)
(* ready between the two critical sections of the call that blocked it     *)
(* stays current, and its time slice is no longer charged.                 *)
RoundRobinUnlessOverlooked ==
  \A t \in User :
    InTopQueue(t) ~> \/ current = t
                     \/ ~InTopQueue(t)
                     \/ current # NoTask /\ status[current] = "READY"

(* Idle finally turns every TERMINATED task into a DELETED one.            *)
DefunctIsCleaned ==
  \A t \in User : status[t] = "TERMINATED" ~> status[t] = "DELETED"
=============================================================================
