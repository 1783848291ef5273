-------------------------------- MODULE Ipc ---------------------------------
(***************************************************************************)
(* What semaphores, mutexes and queues share: the operations of ipc.c on   *)
(* the blocked list of an IPC object, and the place of a task inside an    *)
(* IPC function.  Interrupts other than SysTick call the from_isr          *)
(* functions; they do not nest with each other or with SysTick.            *)
(***************************************************************************)
EXTENDS Kernel

CONSTANTS
  Forever,   \* YR_WAIT_FOREVER
  MaxWait    \* bound on any other wait_ticks

ASSUME WaitAssumption == MaxWait \in Nat /\ Forever \notin 0 .. MaxWait

VARIABLES
  call,   \* where a task is in an IPC function, "none" outside
  isr     \* "switch": an interrupt handler is to call yr_sched_switch

ipcVars == <<call, isr>>

(* The entry function of a task that is created anew starts from the top.  *)
Restarted == [t \in Task |-> IF status'[t] = "INIT" THEN "none" ELSE call[t]]

(* Task t executes step "at" of an IPC function.                           *)
In(t, at) == Executes(t) /\ isr = "off" /\ pc[t] = "app" /\ call[t] = at

(* A handler runs: no other one does.                                      *)
Interrupt == tick = "off" /\ isr = "off" /\ fault = "none"

GotoCall(t, at) == call' = [call EXCEPT ![t] = at]

-----------------------------------------------------------------------------
(* Faulty variants for mutation tests. *)

BlockStaysReady(s, i, t) == [s EXCEPT !.lists[i] = Append(@, t)]

ResumeKeepsTimer(u) == UNCHANGED timerVars

(* yr_ipc_block_task, the lists.                                           *)
BlockedIn(s, i, t) ==
  LET removed == SchedRemove(s, t, curPrio[t], mask[t])
  IN  [removed EXCEPT !.lists[i] = IF i \in prioIpc
                                   THEN InsertByPriority(@, t, curPrio)
                                   ELSE Append(@, t)]

(* A task waits at object i, from the lists s: its message,                *)
(* yr_ipc_block_task, and the timer of a wait bounded by n ticks.          *)
BlockFrom(s, i, t, n) ==
  /\ sched' = BlockedIn(s, i, t)
  /\ status' = [status EXCEPT ![t] = "BLOCKED"]
  /\ msg' = [msg EXCEPT ![t] = [source |-> i, reason |-> "IPC", notify |-> "NONE"]]
  /\ IF n = Forever THEN UNCHANGED timerVars ELSE StartTimer(t, n)
  /\ UNCHANGED <<current, initPrio, slice, holds, prioIpc, tick, arg,
                 idleDone, fault>>

Block(i, t, n) == BlockFrom(sched, i, t, n) /\ UNCHANGED <<curPrio, mask>>

(* The timer of a resumed task is stopped.                                 *)
StopWait(u) == StopTimer(u)

(* The first waiter of object i becomes ready, from the lists s; the       *)
(* result is that it was given what it waited for.                         *)
ResumeFrom(s, i) ==
  LET u == Head(s.lists[i]) IN
  /\ sched' = SchedInsert([s EXCEPT !.lists = Unlink(@, u)], u,
                           curPrio[u], mask[u])
  /\ status' = [status EXCEPT ![u] = "READY"]
  /\ msg' = [msg EXCEPT ![u] = [NoMsg EXCEPT !.notify = "OK"]]
  /\ StopWait(u)

Resume(i) == ResumeFrom(sched, i)

(* need_switch after Resume(i), called while t is current.                 *)
ResumePreempts(i, t) ==
  t # NoTask /\ Preempts(curPrio[Head(sched.lists[i])], t)

(* The lists after yr_ipc_resume_all has made the waiters q ready, in the  *)
(* order of q.                                                             *)
AllResumed(q) ==
  LET woken(p) == Kept(q, {u \in Task : curPrio[u] = p})
      rest(l)  == Kept(sched.lists[l], Task \ Range(q))
  IN  [lists |-> [l \in ListId |-> rest(l) \o
                                   IF l \in Prio THEN woken(l) ELSE <<>>],
       group |-> sched.group \cup {mask[u] : u \in Range(q)}]

(* Their status, message and timer.                                        *)
WakeAll(q) ==
  LET others(s) == Kept(s, Task \ Range(q))
  IN  /\ status' = [t \in Task |-> IF t \in Range(q) THEN "READY" ELSE status[t]]
      /\ msg' = [t \in Task |-> IF t \in Range(q)
                                THEN [NoMsg EXCEPT !.notify = "DELETED"] ELSE msg[t]]
      /\ timerList' = others(timerList)
      /\ due' = others(due)
      /\ left' = [t \in Task |-> IF t \in Range(q) THEN 0 ELSE left[t]]
      /\ UNCHANGED firing

ResumeAll(q) == sched' = AllResumed(q) /\ WakeAll(q)

-----------------------------------------------------------------------------
(* The kernel's steps beside IPC calls.  A task in the middle of an IPC    *)
(* function only takes the switch that belongs to it.                      *)
KernelStep ==
  /\ isr = "off"
  /\ \/ \E u \in User : MainStart(u)
     \/ KernelStart
     \/ \E t \in User : (pc[t] = "app" => call[t] = "none") /\ TaskStep(t)
     \/ CleanupDefunct
     \/ TickStep
     \/ Halted
  /\ call' = Restarted
  /\ UNCHANGED <<isr, prioIpc>>

(* yr_sched_switch at the end of a handler that saw need_switch.           *)
IsrSwitch ==
  /\ isr = "switch"
  /\ \/ /\ Dispatch
        /\ isr' = "off"
        /\ UNCHANGED <<sched, initPrio, curPrio, mask, slice, holds, msg,
                       timerVars, tick, pc, arg, idleDone, fault>>
     \/ Misdispatch /\ UNCHANGED isr
  /\ UNCHANGED <<call, prioIpc>>
-----------------------------------------------------------------------------
(* Properties *)

(* t is served in this step: it is given what it waits for at object i.    *)
Served(t, i) == t \in Range(sched.lists[i]) /\ msg'[t].notify = "OK"

(* With YR_IPC_FLAG_PRIO a waiter of the highest priority is served, also  *)
(* after priorities have changed while they waited; with YR_IPC_FLAG_FIFO  *)
(* the one that has waited longest.                                        *)
ServesBest ==
  [][\A i \in Ipc : \A t \in Range(sched.lists[i]) : Served(t, i) =>
       /\ i \in prioIpc => \A u \in Range(sched.lists[i]) : curPrio[t] <= curPrio[u]
       /\ i \notin prioIpc => t = Head(sched.lists[i])]_<<vars, ipcVars>>
=============================================================================
