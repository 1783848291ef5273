-------------------------- MODULE Semaphore_proofs --------------------------
(***************************************************************************)
(* Semaphores and the kernel together, for every set of tasks, every       *)
(* workload and every value of the other constants: no task waits while    *)
(* the semaphore has a unit, blocked lists and task states agree, units go *)
(* to the waiters in order, and the semaphore implements module UnitPool.  *)
(***************************************************************************)
EXTENDS Semaphore, Ipc_proofs

-----------------------------------------------------------------------------
(* The inductive invariant: the kernel's, the types, that the switch an    *)
(* interrupt handler asks for comes before anything else, and the property *)
(* itself.                                                                 *)

IpcType ==
  /\ prioIpc \subseteq Ipc
  /\ call \in [Task -> {"none", "take", "give", "wait"}]
  /\ isr \in {"off", "switch"}
  /\ isr = "switch" => tick = "off" /\ current \in Task

SemType ==
  /\ count \in 0 .. MaxCount
  /\ valid \in BOOLEAN

SemInv == Inv /\ IpcType /\ SemType /\ NoIdleUnit

LEMMA SemInvInit == SemInit => SemInv
<1> SUFFICES ASSUME SemInit PROVE SemInv
  OBVIOUS
<1>1. Inv /\ prioIpc \subseteq Ipc
  BY InvInit DEF SemInit, Init
<1>2. IpcType /\ SemType
  BY <1>1 DEF SemInit, IpcType, SemType
<1>3. Sem \in ListId /\ Sem \notin Prio
  BY SemAssumption, ConstantFacts, ListAssumption
<1>4. Waiters = <<>>
  <2> DEFINE p == MaxPriority - 1
  <2>1. p \in Prio /\ p \in ListId /\ Sem # p
    BY <1>3, ConstantFacts
  <2>2. sched.lists = LinkLast([l \in ListId |-> <<>>], p, Idle)
    BY DEF SemInit, Init, SchedInsert
  <2> HIDE DEF p
  <2> QED
    BY <1>3, <2>1, <2>2 DEF Waiters, LinkLast
<1> QED
  BY <1>1, <1>2, <1>4 DEF SemInv, NoIdleUnit

LEMMA SemInvStep == SemInv /\ [SemNext]_allVars => SemInv'
<1> SUFFICES ASSUME SemInv, [SemNext]_allVars PROVE SemInv'
  OBVIOUS
<1> USE DEF SemInv
<1>a. /\ IType /\ SchedInv /\ RunInv /\ OnlyCurrentRuns
      /\ status \in [Task -> Status] /\ curPrio \in [Task -> Prio]
  BY DEF Inv, RunInv, IType, TypeOK
<1>b. /\ User \subseteq Task /\ NoTask \notin Task /\ Sem \in Ipc /\ Sem \in ListId
      /\ MaxCount \in Nat
  BY ConstantFacts, SemAssumption
<1>c. /\ call \in [Task -> {"none", "take", "give", "wait"}]
      /\ isr \in {"off", "switch"} /\ prioIpc \subseteq Ipc
      /\ count \in 0 .. MaxCount /\ valid \in BOOLEAN
  BY DEF IpcType, SemType
<1>d. ASSUME NEW t \in User, NEW at \in {"none", "take", "give", "wait"}, GotoCall(t, at)
      PROVE  call' \in [Task -> {"none", "take", "give", "wait"}]
  BY <1>c, <1>d DEF GotoCall
<1>1. ASSUME NEW t \in User, NEW f \in {"take", "give"}, Enter(t, f) PROVE SemInv'
  <2>1. UNCHANGED vars /\ UNCHANGED <<isr, count, valid>> /\ GotoCall(t, f)
    BY <1>1 DEF Enter, semVars
  <2>2. Inv' /\ UNCHANGED <<prioIpc, tick, current, sched>>
    BY <2>1, FrameKeepsInv DEF vars
  <2> QED
    BY <2>1, <2>2, <1>c, <1>d DEF IpcType, SemType, NoIdleUnit, Waiters
<1>2. ASSUME NEW t \in User, NEW n \in {Forever} \cup 0 .. MaxWait, Take(t, n) PROVE SemInv'
  <2>1. In(t, "take") /\ UNCHANGED <<isr, valid>>
    BY <1>2 DEF Take
  <2>2. CASE UNCHANGED vars /\ GotoCall(t, "none") /\ ((count > 0 /\ count' = count - 1) \/ count' = count)
    <3>1. Inv' /\ UNCHANGED <<prioIpc, tick, current, sched>>
      BY <2>2, FrameKeepsInv DEF vars
    <3>2. count' \in 0 .. MaxCount /\ (count' > 0 => count > 0)
      BY <2>2, <1>b, <1>c
    <3> QED
      BY <2>1, <2>2, <3>1, <3>2, <1>c, <1>d DEF IpcType, SemType, NoIdleUnit, Waiters
  <2>3. CASE /\ count = 0 /\ Block(Sem, t, n) /\ Goto(t, "switch") /\ GotoCall(t, "wait")
             /\ count' = count
    <3>1. n # Forever => n \in Int
      OBVIOUS
    <3>3. UNCHANGED <<current, tick, prioIpc>>
      BY <2>3 DEF Block, BlockFrom
    <3>5. Inv'
      BY <2>1, <2>3, <3>1, <1>b, TaskBlocks
    <3>6. NoIdleUnit'
      BY <2>3 DEF NoIdleUnit
    <3> QED
      BY <2>1, <2>3, <3>3, <3>5, <3>6, <1>c, <1>d DEF IpcType, SemType
  <2> QED
    BY <1>2, <2>2, <2>3 DEF Take
<1>3. ASSUME NEW t \in User, TakeReturn(t) PROVE SemInv'
  <2>1. UNCHANGED vars /\ UNCHANGED <<isr, count, valid>> /\ GotoCall(t, "none")
    BY <1>3 DEF TakeReturn, semVars
  <2>2. Inv' /\ UNCHANGED <<prioIpc, tick, current, sched>>
    BY <2>1, FrameKeepsInv DEF vars
  <2> QED
    BY <2>1, <2>2, <1>c, <1>d DEF IpcType, SemType, NoIdleUnit, Waiters
<1>4. ASSUME NEW t \in User, Give(t) PROVE SemInv'
  <2>1. In(t, "give") /\ UNCHANGED <<isr, valid>> /\ GotoCall(t, "none")
    BY <1>4 DEF Give
  <2>2. CASE /\ UNCHANGED vars
             /\ count' = count \/ (count < Limit /\ Waiters = <<>> /\ count' = count + 1)
    <3>1. Inv' /\ UNCHANGED <<prioIpc, tick, current, sched>>
      BY <2>2, FrameKeepsInv DEF vars
    <3>2. Limit \in 0 .. MaxCount
      BY <1>b DEF Limit
    <3>3. count' \in 0 .. MaxCount /\ (count' > 0 => Waiters = <<>>)
      BY <2>2, <3>2, <1>b, <1>c DEF NoIdleUnit
    <3> QED
      BY <2>1, <3>1, <3>3, <1>c, <1>d DEF IpcType, SemType, NoIdleUnit, Waiters
  <2>3. CASE /\ Waiters # <<>> /\ Resume(Sem) /\ count' = count
             /\ Goto(t, IF ResumePreempts(Sem, t) THEN "switch" ELSE "app")
             /\ UNCHANGED <<current, initPrio, curPrio, mask, slice, holds, prioIpc, tick, arg,
                            idleDone, fault>>
    <3>1. PICK label \in {"app", "switch"} :
            label = IF ResumePreempts(Sem, t) THEN "switch" ELSE "app"
      OBVIOUS
    <3>2. Goto(t, label)
      BY <2>3, <3>1
    <3>3. Inv'
      BY <2>1, <2>3, <3>2, <1>b, TaskResumes DEF Waiters
    <3>4. count = 0
      BY <2>3, <1>b, <1>c DEF NoIdleUnit
    <3> QED
      BY <2>1, <2>3, <3>3, <3>4, <1>c, <1>d DEF IpcType, SemType, NoIdleUnit
  <2> QED
    BY <1>4, <2>2, <2>3 DEF Give
<1>5. ASSUME NEW t \in User, DeleteSem(t) PROVE SemInv'
  <2>1. /\ In(t, "none") /\ count' = 0 /\ valid' = FALSE /\ prioIpc' = prioIpc \ {Sem}
        /\ UNCHANGED <<current, initPrio, curPrio, mask, slice, holds, tick, arg, idleDone,
                       fault>>
        /\ UNCHANGED <<call, isr>> /\ UNCHANGED curPrio
    BY <1>5 DEF DeleteSem, ipcVars
  <2>2. Inv'
    <3>1. /\ Executes(t) /\ pc[t] = "app" /\ t \in Task
      BY <2>1, <1>b DEF In
    <3>2. CASE UNCHANGED <<sched, status, msg, timerVars, pc>>
      BY <2>1, <3>2
      DEF Inv, IType, TypeOK, SchedInv, Match, Home, RunInv, OnlyCurrentRuns, Ready,
          timerVars
    <3>3. CASE ResumeAll(sched.lists[Sem]) /\ Goto(t, "switch")
      <4>1. /\ SchedInv'
            /\ \A u \in Task : \/ status'[u] = status[u]
                               \/ status[u] = "BLOCKED" /\ status'[u] = "READY"
            /\ sched' \in SchedType /\ status' \in [Task -> Status]
            /\ msg' \in [Task -> MsgType]
            /\ timerList' \in Seq(Task) /\ due' \in Seq(Task) /\ left' \in [Task -> Int]
            /\ UNCHANGED firing
        BY <2>1, <3>3, <1>a, <1>b, ResumeAllKeeps
      <4>2. \A u \in Task : status'[u] = "RUNNING" => status[u] = "RUNNING"
        BY <4>1
      <4> QED
        BY <2>1, <3>1, <3>3, <4>1, <4>2, TaskKeepsInv
    <3> QED
      BY <1>5, <3>2, <3>3 DEF DeleteSem, Waiters
  <2>3. count' \in 0 .. MaxCount /\ ~(count' > 0)
    BY <2>1, <1>b
  <2>4. isr' = "off" /\ prioIpc' \subseteq Ipc /\ UNCHANGED <<call, isr>>
    BY <2>1, <1>c DEF In
  <2>5. valid' \in BOOLEAN
    BY <2>1, Zenon
  <2> QED
    BY <2>2, <2>3, <2>4, <2>5, <1>c DEF IpcType, SemType, NoIdleUnit
<1>6. ASSUME IsrTake PROVE SemInv'
  <2>1. /\ UNCHANGED vars /\ UNCHANGED <<call, valid, isr>>
        /\ count' = IF count > 0 THEN count - 1 ELSE count
    BY <1>6 DEF IsrTake
  <2>2. Inv' /\ UNCHANGED <<prioIpc, tick, current, sched>>
    BY <2>1, FrameKeepsInv DEF vars
  <2>3. count' \in 0 .. MaxCount /\ (count' > 0 => count > 0)
    BY <2>1, <1>b, <1>c
  <2> QED
    BY <2>1, <2>2, <2>3, <1>c DEF IpcType, SemType, NoIdleUnit, Waiters
<1>7. ASSUME IsrGive PROVE SemInv'
  <2>1. tick = "off" /\ UNCHANGED <<call, valid>>
    BY <1>7 DEF IsrGive, Interrupt
  <2>2. CASE /\ Waiters = <<>> /\ UNCHANGED vars /\ UNCHANGED isr
             /\ \/ count' = count
                \/ count < MaxCount /\ count' = count + 1
    <3>1. Inv' /\ UNCHANGED <<prioIpc, tick, current, sched>>
      BY <2>2, FrameKeepsInv DEF vars
    <3>2. count' \in 0 .. MaxCount
      BY <2>2, <1>b, <1>c
    <3> QED
      BY <2>1, <2>2, <3>1, <3>2, <1>c DEF IpcType, SemType, NoIdleUnit, Waiters
  <2>3. CASE /\ Waiters # <<>> /\ Resume(Sem)
             /\ isr' = IF ResumePreempts(Sem, current) THEN "switch" ELSE "off"
             /\ UNCHANGED <<current, initPrio, curPrio, mask, slice, holds, prioIpc, tick, pc,
                            arg, idleDone, fault, count>>
    <3>1. Inv'
      BY <2>1, <2>3, <1>b, HandlerResumes DEF Waiters
    <3>5. isr' = "switch" => current \in Task
      BY <2>3, <1>a DEF ResumePreempts, IType, TypeOK
    <3>6. count = 0
      BY <2>3, <1>b, <1>c DEF NoIdleUnit
    <3> QED
      BY <2>1, <2>3, <3>1, <3>5, <3>6, <1>c DEF IpcType, SemType, NoIdleUnit
  <2>4. \/ /\ Waiters # <<>> /\ Resume(Sem)
           /\ isr' = IF ResumePreempts(Sem, current) THEN "switch" ELSE "off"
           /\ UNCHANGED <<current, initPrio, curPrio, mask, slice, holds, prioIpc, tick, pc,
                          arg, idleDone, fault, count>>
        \/ /\ Waiters = <<>> /\ UNCHANGED vars /\ UNCHANGED isr
           /\ \/ count' = count
              \/ count < MaxCount /\ count' = count + 1
    BY <1>7 DEF IsrGive
  <2> QED
    BY <2>2, <2>3, <2>4
<1>8. ASSUME KernelStep, UNCHANGED <<count, valid>> PROVE SemInv'
  <2>1. /\ Next /\ call' = Restarted /\ isr = "off" /\ UNCHANGED <<isr, prioIpc>>
        /\ UNCHANGED <<count, valid>>
    BY <1>8, KernelStepIsNext DEF KernelStep
  <2>2. Inv'
    BY <2>1, InvStep
  <2>3. call' \in [Task -> {"none", "take", "give", "wait"}]
    BY <2>1, <1>c DEF Restarted
  <2>4. NoIdleUnit'
    BY <2>1, <2>2, <1>b, KernelKeepsEmpty DEF NoIdleUnit, Waiters
  <2> QED
    BY <2>1, <2>2, <2>3, <2>4, <1>c DEF IpcType, SemType
<1>9. ASSUME IsrSwitch, UNCHANGED <<count, valid>> PROVE SemInv'
  <2>1. /\ isr = "switch" /\ UNCHANGED <<call, prioIpc>> /\ UNCHANGED <<count, valid>>
        /\ tick = "off" /\ current \in Task
    BY <1>9 DEF IsrSwitch, IpcType
  <2>2. Inv'
    BY <1>9, <2>1, HandlerSwitches
  <2>3. CASE isr' = "off" /\ UNCHANGED <<sched, tick>>
    BY <2>1, <2>2, <2>3, <1>c DEF IpcType, SemType, NoIdleUnit, Waiters
  <2>4. CASE Misdispatch /\ UNCHANGED isr
    <3>1. UNCHANGED <<sched, current, tick>>
      BY <2>4 DEF Misdispatch, Crash
    <3> QED
      BY <2>1, <2>2, <2>4, <3>1, <1>c DEF IpcType, SemType, NoIdleUnit, Waiters
  <2> QED
    BY <1>9, <2>3, <2>4 DEF IsrSwitch
<1>10. ASSUME UNCHANGED allVars PROVE SemInv'
  <2>1. Inv'
    BY <1>10, FrameKeepsInv DEF allVars
  <2> QED
    BY <1>10, <2>1, <1>c
    DEF allVars, vars, ipcVars, semVars, IpcType, SemType, NoIdleUnit, Waiters
<1> QED
  BY <1>1, <1>2, <1>3, <1>4, <1>5, <1>6, <1>7, <1>8, <1>9, <1>10 DEF SemNext, SemStep

LEMMA SemInvHolds == SemSpec => []SemInv
BY SemInvInit, SemInvStep, PTL DEF SemSpec

LEMMA AnswerIsResult ==
  ASSUME NEW f \in {"take", "give"}, NEW t \in User \cup {NoTask}, NEW ok, Answer(f, t, ok),
         ok \in BOOLEAN
  PROVE  ret' \in Result
BY DEF Answer, Result

LEMMA ResultStep == ret \in Result /\ [SemNext]_allVars => (ret \in Result)'
<1> SUFFICES ASSUME ret \in Result, [SemNext]_allVars PROVE ret' \in Result
  OBVIOUS
<1>1. ASSUME Silent PROVE ret' \in Result
  BY <1>1 DEF Silent, Result
<1>2. ASSUME NEW t \in User, SemStep(t) PROVE ret' \in Result
  <2>1. ASSUME NEW n, Take(t, n) PROVE ret' \in Result
    BY <1>1, <2>1, AnswerIsResult DEF Take
  <2>2. ASSUME TakeReturn(t) PROVE ret' \in Result
    <3>1. Answer("take", t, Succeeds(t)) /\ Succeeds(t) \in BOOLEAN
      BY <2>2 DEF TakeReturn, Succeeds
    <3> QED
      BY <3>1, AnswerIsResult
  <2>3. ASSUME Give(t) PROVE ret' \in Result
    <3>1. Answer("give", t, count < Limit) /\ (count < Limit) \in BOOLEAN
      BY <2>3 DEF Give
    <3> QED
      BY <3>1, AnswerIsResult
  <2>4. ASSUME DeleteSem(t) \/ \E f \in {"take", "give"} : Enter(t, f) PROVE Silent
    BY <2>4 DEF DeleteSem, Enter
  <2> QED
    BY <1>1, <1>2, <2>1, <2>2, <2>3, <2>4 DEF SemStep
<1>3. ASSUME IsrTake PROVE ret' \in Result
  <2>1. Answer("take", NoTask, count > 0) /\ (count > 0) \in BOOLEAN
    BY <1>3 DEF IsrTake
  <2> QED
    BY <2>1, AnswerIsResult
<1>4. ASSUME IsrGive PROVE ret' \in Result
  <2>1. /\ Answer("give", NoTask, count < MaxCount \/ Waiters # <<>>)
        /\ (count < MaxCount \/ Waiters # <<>>) \in BOOLEAN
    BY <1>4 DEF IsrGive
  <2> QED
    BY <2>1, AnswerIsResult
<1>5. ASSUME UNCHANGED allVars PROVE ret' \in Result
  BY <1>5 DEF allVars, semVars
<1> QED
  BY <1>1, <1>2, <1>3, <1>4, <1>5 DEF SemNext
-----------------------------------------------------------------------------
(* The count stays within its limits and a task's place in a semaphore     *)
(* function is one the code has, whatever interrupts and tasks do.         *)
THEOREM SemTypeCorrect == SemSpec => []SemTypeOK
<1>1. SemInv /\ ret \in Result => SemTypeOK
  BY DEF SemInv, Inv, IType, IpcType, SemType, SemTypeOK
<1>2. SemInit => ret \in Result
  BY DEF SemInit, Result
<1>3. ret \in Result /\ [SemNext]_allVars => (ret \in Result)'
  BY ResultStep
<1> QED
  BY <1>1, <1>2, <1>3, SemInvHolds, PTL DEF SemSpec

(* A give hands its unit to a waiter instead of counting it, and nobody    *)
(* starts to wait while there is a unit; neither a handler between the     *)
(* check and the critical section of a take, nor a timeout, suspension or  *)
(* deletion of a waiter, nor an unmanaged start of a deleted task, leaves  *)
(* a task waiting beside a unit.                                           *)
THEOREM NoUnitBesideAWaiter == SemSpec => []NoIdleUnit
<1>1. SemInv => NoIdleUnit
  BY DEF SemInv
<1> QED
  BY <1>1, SemInvHolds, PTL

-----------------------------------------------------------------------------
(* The timers of an application in which one task starts and deletes the   *)
(* others (module Kernel_proofs).                                          *)

SemTimed == StartInv /\ TimerInv

(* Neither the tasks' places in the kernel nor their timers change.        *)
LEMMA FrameKeepsTimed ==
  ASSUME SemInv, SemTimed, UNCHANGED vars
  PROVE  SemTimed'
<1>1. /\ UNCHANGED <<status, msg, pc, arg, current>> /\ tick' = tick
      /\ UNCHANGED <<timerList, due, firing>>
  BY DEF vars, taskVars, timerVars
<1>2. StartInv'
  BY <1>1, StartFrame DEF SemInv, SemTimed, Startable
<1>3. TimerInv'
  BY <1>1, TimerFrame DEF SemTimed
<1> QED
  BY <1>2, <1>3 DEF SemTimed

(* A task that starts to wait gets a timer if its wait is bounded.         *)
LEMMA BlockKeepsTimed ==
  ASSUME SemInv, SemTimed, NEW t \in User, NEW n, In(t, "take"), Block(Sem, t, n),
         Goto(t, "switch")
  PROVE  SemTimed'
<1>1. /\ Executes(t) /\ pc[t] = "app" /\ tick = "off" /\ t \in Task /\ NoTask \notin Task
      /\ IType /\ status \in [Task -> Status] /\ msg \in [Task -> MsgType]
      /\ pc \in [Task -> Label] /\ User \subseteq Task
  BY ConstantFacts DEF In, Executes, SemInv, Inv, IType, TypeOK
<1>2. Ready(t)
  BY <1>1 DEF SemInv, Inv, RunInv, Executes
<1>3. /\ status' = [status EXCEPT ![t] = "BLOCKED"]
      /\ msg' = [msg EXCEPT ![t] = [source |-> Sem, reason |-> "IPC", notify |-> "NONE"]]
      /\ UNCHANGED <<current, arg>> /\ tick' = tick
      /\ pc' = [pc EXCEPT ![t] = "switch"]
      /\ UNCHANGED <<timerList, due, firing>> \/ StartTimer(t, n)
  BY DEF Block, BlockFrom, Goto, timerVars
<1>4. StartInv'
  <2>1. /\ \A u \in Task : Startable(u) => Startable(u)'
        /\ \A u \in User : pc'[u] = "start" => pc[u] = "start" /\ arg'[u] = arg[u]
        /\ current' # NoTask
    BY <1>1, <1>2, <1>3 DEF Ready, Startable, Executes
  <2> QED
    BY <2>1, StartFrame DEF SemInv, SemTimed
<1>5. /\ TimerLists'
      /\ \A u \in Task : u # t => (Timed(u)' <=> Timed(u))
  <2>1. CASE UNCHANGED <<timerList, due, firing>>
    BY <1>3, <2>1 DEF SemTimed, TimerInv, TimerLists, Timed
  <2>2. CASE StartTimer(t, n)
    <3>1. firing # t
      BY <1>1 DEF SemTimed, TimerInv, TimerLists
    <3> QED
      BY <1>1, <1>3, <2>2, <3>1, StartTimerLists DEF SemTimed, TimerInv
  <2> QED
    BY <1>3, <2>1, <2>2
<1>6. /\ status'[t] = "BLOCKED" /\ msg'[t].reason = "IPC"
      /\ \A u \in Task : u # t => status'[u] = status[u] /\ msg'[u] = msg[u]
  BY <1>1, <1>3
<1> QED
  BY <1>4, <1>5, <1>6 DEF SemTimed, TimerInv

(* The waiter that is given a unit loses its timer.                        *)
LEMMA ResumeKeepsTimed ==
  ASSUME SemInv, SemTimed, tick = "off", Waiters # <<>>, Resume(Sem),
         UNCHANGED <<current, curPrio, arg, tick>>,
         \A t \in User : pc'[t] = "start" => pc[t] = "start",
         current = NoTask => UNCHANGED pc
  PROVE  SemTimed'
<1> DEFINE u == Head(Waiters)
<1>1. /\ IType /\ SchedInv /\ status \in [Task -> Status] /\ msg \in [Task -> MsgType]
      /\ Sem \in Ipc /\ UNCHANGED curPrio /\ tick' = tick
  BY SemAssumption DEF SemInv, Inv, IType, TypeOK
<1>2. /\ u \in Task /\ status[u] = "BLOCKED"
      /\ status' = [status EXCEPT ![u] = "READY"]
  BY <1>1, ResumeKeeps DEF Waiters
<1>3. /\ msg' = [msg EXCEPT ![u] = [NoMsg EXCEPT !.notify = "OK"]]
      /\ StopTimer(u)
  BY DEF Resume, ResumeFrom, StopWait, Waiters
<1> HIDE DEF u
<1>4. \A t \in Task : t # u => msg'[t] = msg[t]
  BY <1>1, <1>3
<1>5. TimerInv'
  BY <1>1, <1>2, <1>3, <1>4, TimerStopped DEF SemTimed
<1>6. \A t \in Task : Startable(t) => Startable(t)'
  BY <1>1, <1>2 DEF Startable
<1>7. StartInv'
  BY <1>6, StartFrame DEF SemInv, SemTimed
<1> QED
  BY <1>5, <1>7 DEF SemTimed

(* So do all waiters when the semaphore is deleted.                        *)
LEMMA ResumeAllKeepsTimed ==
  ASSUME SemInv, SemTimed, NEW t \in User, In(t, "none"), ResumeAll(Waiters),
         Goto(t, "switch"), UNCHANGED <<current, curPrio, arg, tick>>
  PROVE  SemTimed'
<1> DEFINE R == Range(Waiters)
           others == Task \ R
<1>1. /\ IType /\ SchedInv /\ status \in [Task -> Status] /\ msg \in [Task -> MsgType]
      /\ pc \in [Task -> Label] /\ timerList \in Seq(Task) /\ due \in Seq(Task)
      /\ Sem \in Ipc /\ UNCHANGED curPrio /\ tick' = tick /\ tick = "off"
      /\ User \subseteq Task /\ current = t /\ NoTask \notin Task
  BY SemAssumption, ConstantFacts DEF SemInv, Inv, IType, TypeOK, In, Executes
<1>2. /\ status' = [x \in Task |-> IF x \in R THEN "READY" ELSE status[x]]
      /\ msg' = [x \in Task |-> IF x \in R THEN [NoMsg EXCEPT !.notify = "DELETED"]
                                ELSE msg[x]]
      /\ timerList' = Kept(timerList, others) /\ due' = Kept(due, others)
      /\ UNCHANGED firing
  BY DEF ResumeAll, WakeAll
<1>3. \A x \in Task : \/ status'[x] = status[x]
                      \/ status[x] = "BLOCKED" /\ status'[x] = "READY"
  BY <1>1, ResumeAllKeeps DEF Waiters
<1>4. StartInv'
  <2>1. \A x \in Task : Startable(x) => Startable(x)'
    BY <1>3 DEF Startable
  <2>2. \A x \in User : pc'[x] = "start" => pc[x] = "start"
    BY <1>1 DEF Goto
  <2> QED
    BY <1>1, <2>1, <2>2, StartFrame DEF SemInv, SemTimed
<1> HIDE DEF R
<1>5. /\ \A x : x \in Range(timerList') <=> x \in Range(timerList) /\ x \in Task \ R
      /\ IsInjective(timerList')
  BY <1>1, <1>2, KeptProperties DEF SemTimed, TimerInv, TimerLists
<1>6. /\ \A x : x \in Range(due') <=> x \in Range(due) /\ x \in Task \ R
      /\ IsInjective(due')
  BY <1>1, <1>2, KeptProperties DEF SemTimed, TimerInv, TimerLists
<1>7. due' = <<>>
  <2>1. due = <<>>
    BY <1>1 DEF SemTimed, TimerInv, TimerLists, FireStage
  <2>2. due' \in Seq(Task)
    BY <1>1, <1>2, KeptProperties
  <2>3. Range(due') = {}
    BY <1>6, <2>1 DEF Range
  <2>4. ASSUME due' # <<>> PROVE FALSE
    <3>1. 1 \in DOMAIN due'
      BY <2>2, <2>4, EmptySeq, LenProperties
    <3> QED
      BY <2>3, <3>1 DEF Range
  <2> QED
    BY <2>4
<1>8. firing = NoTask
  BY <1>1 DEF SemTimed, TimerInv, TimerLists
<1>9. TimerLists'
  BY <1>1, <1>2, <1>5, <1>6, <1>7, <1>8 DEF SemTimed, TimerInv, TimerLists
<1>10. \A x \in Task : IF x \in R THEN ~Timed(x)' ELSE (Timed(x)' <=> Timed(x))
  BY <1>1, <1>2, <1>5, <1>6, <1>8 DEF Timed
<1>11. \A x \in Task : IF x \in R THEN status'[x] = "READY"
                       ELSE status'[x] = status[x] /\ msg'[x] = msg[x]
  BY <1>2
<1>12. TimerInv'
  BY <1>9, <1>10, <1>11 DEF SemTimed, TimerInv
<1> QED
  BY <1>4, <1>12 DEF SemTimed

LEMMA SemTimedStep ==
  ASSUME SemInv, SemTimed, [SemNext]_allVars
  PROVE  SemTimed'
<1>a. /\ Inv /\ StartInv /\ TimerInv /\ pc \in [Task -> Label] /\ User \subseteq Task
      /\ NoTask \notin Task
  BY ConstantFacts DEF SemInv, Inv, IType, TypeOK, SemTimed
<1>1. ASSUME UNCHANGED vars PROVE SemTimed'
  BY <1>1, FrameKeepsTimed
<1>2. ASSUME NEW t \in User, NEW n \in {Forever} \cup 0 .. MaxWait, Take(t, n) PROVE SemTimed'
  BY <1>1, <1>2, BlockKeepsTimed DEF Take
<1>3. ASSUME NEW t \in User, Give(t) PROVE SemTimed'
  <2>1. CASE /\ Waiters # <<>> /\ Resume(Sem)
             /\ Goto(t, IF ResumePreempts(Sem, t) THEN "switch" ELSE "app")
             /\ UNCHANGED <<current, initPrio, curPrio, mask, slice, holds, prioIpc, tick, arg,
                            idleDone, fault>>
    <3>1. tick = "off" /\ current = t /\ t # NoTask
      BY <1>3, <1>a DEF Give, In, Executes
    <3>2. \A x \in User : pc'[x] = "start" => pc[x] = "start"
      BY <2>1, <1>a DEF Goto
    <3> QED
      BY <2>1, <3>1, <3>2, ResumeKeepsTimed
  <2> QED
    BY <1>1, <1>3, <2>1 DEF Give
<1>4. ASSUME NEW t \in User, DeleteSem(t) PROVE SemTimed'
  <2>1. In(t, "none") /\ UNCHANGED <<current, curPrio, arg, tick>>
    BY <1>4 DEF DeleteSem
  <2>2. CASE UNCHANGED <<sched, status, msg, timerVars, pc>>
    <3>1. /\ UNCHANGED <<status, msg, pc, arg, current>> /\ tick' = tick
          /\ UNCHANGED <<timerList, due, firing>>
      BY <2>1, <2>2 DEF timerVars
    <3>2. StartInv'
      BY <3>1, <1>a, StartFrame DEF Startable
    <3> QED
      BY <3>1, <3>2, <1>a, TimerFrame DEF SemTimed
  <2> QED
    BY <1>4, <2>1, <2>2, ResumeAllKeepsTimed DEF DeleteSem
<1>5. ASSUME IsrGive PROVE SemTimed'
  <2>1. CASE /\ Waiters # <<>> /\ Resume(Sem)
             /\ UNCHANGED <<current, initPrio, curPrio, mask, slice, holds, prioIpc, tick, pc,
                            arg, idleDone, fault, count>>
    <3>1. tick = "off"
      BY <1>5 DEF IsrGive, Interrupt
    <3> QED
      BY <2>1, <3>1, ResumeKeepsTimed
  <2> QED
    BY <1>1, <1>5, <2>1 DEF IsrGive
<1>6. ASSUME KernelStep PROVE SemTimed'
  BY <1>6, <1>a, KernelStepIsNext, ManagedStep, TimerStep DEF SemTimed, KernelStep
<1>7. ASSUME IsrSwitch PROVE SemTimed'
  <2>1. current \in Task /\ tick = "off"
    BY <1>7 DEF IsrSwitch, SemInv, IpcType
  <2>2. CASE /\ Dispatch
             /\ UNCHANGED <<sched, initPrio, curPrio, mask, slice, holds, msg, timerVars,
                            tick, pc, arg, idleDone, fault>>
    <3>1. /\ current' \in Task
          /\ \A u \in Task : Startable(u) => Startable(u)'
          /\ \A u \in Task : status'[u] = "BLOCKED" <=> status[u] = "BLOCKED"
      BY <2>1, <2>2, <1>a, DispatchTransition
    <3>2. UNCHANGED <<pc, arg, msg>> /\ tick' = tick /\ UNCHANGED <<timerList, due, firing>>
      BY <2>2 DEF timerVars
    <3>3. StartInv'
      BY <3>1, <3>2, <1>a, StartFrame
    <3>4. TimerInv'
      BY <3>1, <3>2, <1>a, TimerFrame
    <3> QED
      BY <3>3, <3>4 DEF SemTimed
  <2>3. CASE Misdispatch
    <3>1. /\ UNCHANGED <<status, msg, pc, arg, current>> /\ tick' = tick
          /\ UNCHANGED <<timerList, due, firing>>
      BY <2>3 DEF Misdispatch, Crash, taskVars, timerVars
    <3>2. StartInv'
      BY <3>1, <1>a, StartFrame DEF Startable
    <3> QED
      BY <3>1, <3>2, <1>a, TimerFrame DEF SemTimed
  <2> QED
    BY <1>7, <2>2, <2>3 DEF IsrSwitch
<1>8. ASSUME \/ \E t \in User : (\E f \in {"take", "give"} : Enter(t, f)) \/ TakeReturn(t)
             \/ IsrTake
             \/ UNCHANGED allVars
      PROVE  UNCHANGED vars
  BY <1>8 DEF Enter, TakeReturn, IsrTake, allVars
<1> QED
  BY <1>1, <1>2, <1>3, <1>4, <1>5, <1>6, <1>7, <1>8 DEF SemNext, SemStep

LEMMA SemTimedHolds == OneStarter /\ SemSpec => []SemTimed
<1>1. OneStarter /\ SemInit => SemTimed
  BY StartInvInit, TimerInvInit DEF SemInit, SemTimed
<1>2. SemInv /\ SemTimed /\ [SemNext]_allVars => SemTimed'
  BY SemTimedStep
<1> QED
  BY <1>1, <1>2, SemInvHolds, PTL DEF SemSpec

(* No give, deletion of the semaphore, timeout, suspension or deletion of  *)
(* a waiter leaves an armed, expired or firing timer with a task that is   *)
(* not BLOCKED, and every sleeping task has one.                           *)
THEOREM TimersMatchWaitsIfManaged == OneStarter /\ SemSpec => []TimersMatchWaits
<1>1. SemTimed => TimersMatchWaits
  <2> SUFFICES ASSUME TimerInv PROVE TimersMatchWaits
    BY DEF SemTimed
  <2>1. \A t \in Task : Timed(t) <=> t \in Range(timerList) \cup Range(due) \cup {firing}
    BY DEF Timed
  <2> QED
    BY <2>1 DEF TimerInv, TimersMatchWaits
<1> QED
  BY <1>1, SemTimedHolds, PTL
(* A waiter is in the blocked list of the semaphore exactly as long as its *)
(* status and message say that it waits there, every other task is in the  *)
(* list its status calls for, also while the semaphore is deleted under    *)
(* its waiters, and no task is linked twice.                               *)
THEOREM WaitersMatchStatus ==
  OneStarter /\ SemSpec => [](NodesMatchStatus /\ fault # "relinked")
<1>1. SemInv => NodesMatchStatus
  BY InvMatches DEF SemInv
<1>2. SemInit => fault # "relinked"
  BY DEF SemInit, Init
<1>3. SemInv /\ SemTimed /\ fault # "relinked" /\ [SemNext]_allVars => (fault # "relinked")'
  <2> SUFFICES ASSUME SemInv, SemTimed, fault # "relinked", [SemNext]_allVars
               PROVE  fault' # "relinked"
    OBVIOUS
  <2>1. CASE KernelStep
    <3>1. Next /\ Inv /\ StartInv
      BY <2>1, KernelStepIsNext DEF KernelStep, SemInv, SemTimed
    <3> QED
      BY <3>1, NoRelink, RelinkReports
  <2>2. CASE IsrSwitch
    BY <2>2 DEF IsrSwitch, Misdispatch, Crash
  <2>3. CASE \E t \in User : SemStep(t)
    BY <2>3 DEF SemStep, Enter, Take, TakeReturn, Give, DeleteSem, Block, BlockFrom, vars
  <2>4. CASE IsrTake \/ IsrGive \/ UNCHANGED allVars
    BY <2>4 DEF IsrTake, IsrGive, allVars, vars
  <2> QED
    BY <2>1, <2>2, <2>3, <2>4 DEF SemNext
<1>4. OneStarter /\ SemSpec => [](fault # "relinked")
  BY <1>2, <1>3, SemInvHolds, SemTimedHolds, PTL DEF SemSpec
<1> QED
  BY <1>1, <1>4, SemInvHolds, PTL

-----------------------------------------------------------------------------
(* The semaphore implements module UnitPool in such an application.  What  *)
(* the pool knows of a task is read off its status, message and place.     *)

Exists(t)  == status[t] \notin {"INIT", "TERMINATED", "DELETED"}
Returns(t) == Exists(t) /\ call[t] = "wait" /\ ~Waits(t, Sem)
Granted(t) == Returns(t) /\ Succeeds(t)
Refused(t) == Returns(t) /\ ~Succeeds(t)
Grants     == {t \in Returning : msg[t].notify = "OK"}
Refusals   == {t \in Returning : msg[t].notify # "OK"}

(* A task that waits has no answer yet; only a task inside a take waits.   *)
WaitInv ==
  \A t \in Task :
    /\ status[t] = "BLOCKED" => msg[t].notify = "NONE"
    /\ status[t] = "INIT" => call[t] = "none"
    /\ Waits(t, Sem) => t \in User /\ call[t] = "wait"

(* A step changes nothing the pool knows of task t.                        *)
Same(t) ==
  /\ Exists(t)' <=> Exists(t)
  /\ Waits(t, Sem)' <=> Waits(t, Sem)
  /\ Granted(t)' <=> Granted(t)
  /\ Refused(t)' <=> Refused(t)

LEMMA WaitersMap ==
  ASSUME SemInv, SemInv'
  PROVE  \A t : /\ t \in Range(Waiters) <=> t \in Task /\ Waits(t, Sem)
                /\ t \in Range(Waiters)' <=> t \in Task /\ Waits(t, Sem)'
<1>1. /\ Sem \in Ipc /\ Sem \in ListId /\ Sem \notin Prio /\ Sem # Defunct
      /\ IType /\ Match /\ curPrio' \in [Task -> Prio]
      /\ sched \in SchedType /\ sched' \in SchedType
  BY SemAssumption, ConstantFacts, ListAssumption DEF SemInv, Inv, SchedInv, IType, TypeOK
<1>2. Waiters \in Seq(Task) /\ Waiters' \in Seq(Task) /\ Waiters' = sched'.lists[Sem]
  BY <1>1 DEF SchedType, Waiters
<1>3. \A t : (t \in Range(Waiters) => t \in Task) /\ (t \in Range(Waiters)' => t \in Task)
  BY <1>2, ElementOfSeq, LenProperties DEF Range
<1>4. ASSUME NEW t \in Task PROVE t \in Range(Waiters) <=> Waits(t, Sem)
  BY <1>1, InBlockedList DEF InList, Waiters
<1>5. ASSUME NEW t \in Task PROVE t \in Range(Waiters)' <=> Waits(t, Sem)'
  <2>1. t \in Range(Waiters)' <=> Sem \in Home(t)'
    BY <1>1, <1>2 DEF SemInv, Inv, SchedInv, Match, InList
  <2>2. curPrio'[t] \in Prio
    BY <1>1
  <2> QED
    BY <1>1, <2>1, <2>2 DEF Home, Waits
<1> QED
  BY <1>3, <1>4, <1>5

LEMMA AliveMap ==
  ASSUME SemInv, SemInv'
  PROVE  \A t : /\ t \in Alive <=> t \in User /\ Exists(t)
                /\ t \in Alive' <=> t \in User /\ Exists(t)'
                /\ t \in Grants <=> t \in User /\ Granted(t)
                /\ t \in Grants' <=> t \in User /\ Granted(t)'
                /\ t \in Refusals <=> t \in User /\ Refused(t)
                /\ t \in Refusals' <=> t \in User /\ Refused(t)'
<1> TAKE t
<1>1. t \in Alive <=> t \in User /\ Exists(t)
  BY DEF Alive, Exists
<1>2. t \in Alive' <=> t \in User /\ Exists(t)'
  BY DEF Alive, Exists
<1>3. User \subseteq Task
  BY ConstantFacts
<1>4. t \in Returning <=> t \in User /\ Returns(t)
  BY <1>1, <1>3, WaitersMap DEF Returning, Returns
<1>5. t \in Returning' <=> t \in User /\ Returns(t)'
  <2>1. t \in Range(Waiters)' <=> t \in Task /\ Waits(t, Sem)'
    BY WaitersMap
  <2> QED
    BY <1>2, <1>3, <2>1 DEF Returning, Returns
<1>6. /\ t \in Grants <=> t \in User /\ Granted(t)
      /\ t \in Refusals <=> t \in User /\ Refused(t)
  BY <1>4 DEF Grants, Granted, Refusals, Refused, Succeeds
<1>7. /\ t \in Grants' <=> t \in User /\ Granted(t)'
      /\ t \in Refusals' <=> t \in User /\ Refused(t)'
  BY <1>5 DEF Grants, Granted, Refusals, Refused, Succeeds
<1> QED
  BY <1>1, <1>2, <1>6, <1>7

LEMMA OneElement ==
  ASSUME NEW T, NEW A, NEW B, NEW u, \A t : t \in A \/ t \in B => t \in T,
         \A t \in T : t # u => (t \in B <=> t \in A)
  PROVE  B = IF u \in B THEN A \cup {u} ELSE A \ {u}
OBVIOUS

(* A step that concerns one task at most.                                  *)
LEMMA OneTaskMap ==
  ASSUME SemInv, SemInv', NEW u \in User, \A t \in Task : t # u => Same(t)
  PROVE  /\ Range(Waiters)' = IF Waits(u, Sem)' THEN Range(Waiters) \cup {u}
                                               ELSE Range(Waiters) \ {u}
         /\ Alive' = IF Exists(u)' THEN Alive \cup {u} ELSE Alive \ {u}
         /\ Grants' = IF Granted(u)' THEN Grants \cup {u} ELSE Grants \ {u}
         /\ Refusals' = IF Refused(u)' THEN Refusals \cup {u} ELSE Refusals \ {u}
         /\ u \in Range(Waiters) <=> Waits(u, Sem)
         /\ u \in Alive <=> Exists(u)
         /\ u \in Grants <=> Granted(u)
         /\ u \in Refusals <=> Refused(u)
<1>1. User \subseteq Task
  BY ConstantFacts
<1>2. PICK A, B : A = Range(Waiters) /\ B = Range(Waiters)'
  OBVIOUS
<1>3. PICK C, D, E, F, G, H : /\ C = Alive /\ D = Alive' /\ E = Grants /\ F = Grants'
                              /\ G = Refusals /\ H = Refusals'
  OBVIOUS
<1>4. \A t : /\ t \in A <=> t \in Task /\ Waits(t, Sem)
             /\ t \in B <=> t \in Task /\ Waits(t, Sem)'
  BY ONLY SemInv, SemInv', <1>2, WaitersMap
<1>5. \A t : /\ t \in C <=> t \in User /\ Exists(t)
             /\ t \in D <=> t \in User /\ Exists(t)'
             /\ t \in E <=> t \in User /\ Granted(t)
             /\ t \in F <=> t \in User /\ Granted(t)'
             /\ t \in G <=> t \in User /\ Refused(t)
             /\ t \in H <=> t \in User /\ Refused(t)'
  BY ONLY SemInv, SemInv', <1>3, AliveMap
<1>6. \A t \in Task : t # u => /\ t \in B <=> t \in A
                               /\ t \in D <=> t \in C
                               /\ t \in F <=> t \in E
                               /\ t \in H <=> t \in G
  BY <1>1, <1>4, <1>5 DEF Same
<1>7. B = IF u \in B THEN A \cup {u} ELSE A \ {u}
  BY <1>4, <1>6, OneElement
<1>8. D = IF u \in D THEN C \cup {u} ELSE C \ {u}
  BY <1>1, <1>5, <1>6, OneElement
<1>9. F = IF u \in F THEN E \cup {u} ELSE E \ {u}
  BY <1>1, <1>5, <1>6, OneElement
<1>10. H = IF u \in H THEN G \cup {u} ELSE G \ {u}
  BY <1>1, <1>5, <1>6, OneElement
<1>11. /\ u \in B <=> Waits(u, Sem)'
       /\ u \in D <=> Exists(u)'
       /\ u \in F <=> Granted(u)'
       /\ u \in H <=> Refused(u)'
       /\ u \in A <=> Waits(u, Sem)
       /\ u \in C <=> Exists(u)
       /\ u \in E <=> Granted(u)
       /\ u \in G <=> Refused(u)
  BY <1>1, <1>4, <1>5
<1> QED
  BY ONLY <1>2, <1>3, <1>7, <1>8, <1>9, <1>10, <1>11

LEMMA NothingMap ==
  ASSUME SemInv, SemInv', \A t \in Task : Same(t)
  PROVE  UNCHANGED <<Range(Waiters), Grants, Refusals, Alive>>
<1>1. User \subseteq Task
  BY ConstantFacts
<1>2. PICK A, B : A = Range(Waiters) /\ B = Range(Waiters)'
  OBVIOUS
<1>3. PICK C, D, E, F, G, H : /\ C = Alive /\ D = Alive' /\ E = Grants /\ F = Grants'
                              /\ G = Refusals /\ H = Refusals'
  OBVIOUS
<1>4. \A t : /\ t \in A <=> t \in Task /\ Waits(t, Sem)
             /\ t \in B <=> t \in Task /\ Waits(t, Sem)'
  BY ONLY SemInv, SemInv', <1>2, WaitersMap
<1>5. \A t : /\ t \in C <=> t \in User /\ Exists(t)
             /\ t \in D <=> t \in User /\ Exists(t)'
             /\ t \in E <=> t \in User /\ Granted(t)
             /\ t \in F <=> t \in User /\ Granted(t)'
             /\ t \in G <=> t \in User /\ Refused(t)
             /\ t \in H <=> t \in User /\ Refused(t)'
  BY ONLY SemInv, SemInv', <1>3, AliveMap
<1>6. \A t : /\ t \in B <=> t \in A
             /\ t \in D <=> t \in C
             /\ t \in F <=> t \in E
             /\ t \in H <=> t \in G
  BY <1>1, <1>4, <1>5 DEF Same
<1>7. B = A /\ D = C /\ F = E /\ H = G
  BY ONLY <1>6
<1> QED
  BY ONLY <1>2, <1>3, <1>7

(* The steps of the pool, in these terms.                                  *)
LEMMA PoolUnchanged ==
  ASSUME SemInv, SemInv', \A t \in Task : Same(t), UNCHANGED <<count, valid>>
  PROVE  UNCHANGED Pool!poolVars
BY NothingMap DEF Pool!poolVars, Grants, Refusals

LEMMA PoolIdle ==
  ASSUME SemInv, SemInv', \A t \in Task : Same(t), UNCHANGED <<count, valid>>, Silent
  PROVE  [Pool!Next]_(Pool!vars)
<1>1. Pool!Otherwise
  BY PoolUnchanged DEF Pool!Otherwise, Pool!Silent, Pool!NoResult, Silent, NoResult
<1> QED
  BY <1>1 DEF Pool!Next

LEMMA PoolOneTask ==
  ASSUME SemInv, SemInv', NEW u \in User, \A t \in Task : t # u => Same(t),
         UNCHANGED <<count, valid>>, Silent,
         \/ Same(u)
         \/ Waits(u, Sem) /\ Exists(u)' /\ Refused(u)'
         \/ Exists(u) /\ ~Exists(u)' /\ ~Waits(u, Sem)'
         \/ ~Exists(u) /\ Exists(u)' /\ ~Waits(u, Sem)' /\ ~Returns(u)'
  PROVE  [Pool!Next]_(Pool!vars)
<1>1. /\ Range(Waiters)' = IF Waits(u, Sem)' THEN Range(Waiters) \cup {u}
                                            ELSE Range(Waiters) \ {u}
      /\ Alive' = IF Exists(u)' THEN Alive \cup {u} ELSE Alive \ {u}
      /\ Grants' = IF Granted(u)' THEN Grants \cup {u} ELSE Grants \ {u}
      /\ Refusals' = IF Refused(u)' THEN Refusals \cup {u} ELSE Refusals \ {u}
      /\ u \in Range(Waiters) <=> Waits(u, Sem)
      /\ u \in Alive <=> Exists(u)
      /\ u \in Grants <=> Granted(u)
      /\ u \in Refusals <=> Refused(u)
  BY OneTaskMap
<1>2. /\ Returns(u) => Exists(u) /\ ~Waits(u, Sem)
      /\ Granted(u) => Returns(u)
      /\ Refused(u) => Returns(u)
      /\ Waits(u, Sem) => Exists(u)
      /\ Returns(u)' => Exists(u)' /\ ~Waits(u, Sem)'
      /\ Granted(u)' => Returns(u)' /\ ~Refused(u)'
      /\ Refused(u)' => Returns(u)'
  BY DEF Returns, Granted, Refused, Exists, Waits
<1>3. Pool!Silent
  BY DEF Pool!Silent, Pool!NoResult, Silent, NoResult
<1>4. CASE Same(u)
  BY <1>4, PoolIdle
<1>5. CASE Waits(u, Sem) /\ Exists(u)' /\ Refused(u)'
  <2>1. Pool!Leave(u)
    BY <1>1, <1>2, <1>3, <1>5 DEF Pool!Leave, Grants, Refusals
  <2> QED
    BY <2>1 DEF Pool!Next
<1>6. CASE Exists(u) /\ ~Exists(u)' /\ ~Waits(u, Sem)'
  <2>1. Pool!Dies(u)
    BY <1>1, <1>2, <1>3, <1>6 DEF Pool!Dies, Grants, Refusals
  <2> QED
    BY <2>1 DEF Pool!Next
<1>7. CASE ~Exists(u) /\ Exists(u)' /\ ~Waits(u, Sem)' /\ ~Returns(u)'
  <2>1. Pool!Born(u)
    BY <1>1, <1>2, <1>3, <1>7 DEF Pool!Born, Grants, Refusals
  <2> QED
    BY <2>1 DEF Pool!Next
<1> QED
  BY <1>4, <1>5, <1>6, <1>7

(* The kernel's steps: a wait ends without a unit by a timeout or by the   *)
(* suspension of the waiter; a task is born when it is started, and dies   *)
(* when it is deleted.                                                     *)
LEMMA KernelKeepsWaits ==
  ASSUME SemInv, WaitInv, KernelStep
  PROVE  WaitInv'
<1>1. Inv /\ Next /\ Sem \in Ipc
  BY KernelStepIsNext, SemAssumption DEF SemInv
<1>2. \A t \in Task : call'[t] = IF status'[t] = "INIT" THEN "none" ELSE call[t]
  BY DEF KernelStep, Restarted
<1>3. ASSUME NEW t \in Task, status'[t] = "BLOCKED" PROVE msg'[t].notify = "NONE"
  <2>1. [NoMsg EXCEPT !.reason = "SLEEP"].notify = "NONE"
    BY DEF NoMsg
  <2> QED
    BY <1>1, <1>3, <2>1, BlockedBySleep DEF WaitInv
<1>4. ASSUME NEW t \in Task, Waits(t, Sem)' PROVE t \in User /\ call'[t] = "wait"
  <2>1. status'[t] = "BLOCKED"
    BY <1>4 DEF Waits
  <2>2. Waits(t, Sem)
    BY <1>1, <1>4, KernelBlocksNobody
  <2> QED
    BY <1>2, <2>1, <2>2 DEF WaitInv
<1> QED
  BY <1>2, <1>3, <1>4 DEF WaitInv

LEMMA KernelRefined ==
  ASSUME SemInv, SemInv', StartInv, WaitInv, KernelStep, UNCHANGED <<count, valid>>, Silent
  PROVE  [Pool!Next]_(Pool!vars)
<1> DEFINE Goal == [Pool!Next]_(Pool!vars)
<1>a. /\ Inv /\ IType /\ SchedInv
      /\ status \in [Task -> Status] /\ msg \in [Task -> MsgType]
      /\ User \subseteq Task /\ NoTask \notin Task
  BY ConstantFacts DEF SemInv, Inv, IType, TypeOK
<1>b. \A t \in Task : call'[t] = IF status'[t] = "INIT" THEN "none" ELSE call[t]
  BY DEF KernelStep, Restarted
<1>c. ASSUME \A t \in Task : Same(t) PROVE Goal
  BY <1>c, PoolIdle
<1>d. ASSUME NEW t \in Task, msg'[t] = msg[t],
             \/ status'[t] = status[t]
             \/ {status[t], status'[t]} \subseteq {"READY", "RUNNING"}
      PROVE  Same(t)
  BY <1>b, <1>d DEF Same, Exists, Returns, Granted, Refused, Succeeds, Waits
<1> HIDE DEF Goal
<1>e. ASSUME NEW u \in User, NEW s, status' = [status EXCEPT ![u] = s],
             \A t \in Task : t # u => msg'[t] = msg[t],
             \/ Same(u)
             \/ Waits(u, Sem) /\ Exists(u)' /\ Refused(u)'
             \/ Exists(u) /\ ~Exists(u)' /\ ~Waits(u, Sem)'
             \/ ~Exists(u) /\ Exists(u)' /\ ~Waits(u, Sem)' /\ ~Returns(u)'
      PROVE  Goal
  <2>1. \A t \in Task : t # u => Same(t)
    BY <1>a, <1>d, <1>e
  <2> QED
    BY <1>e, <2>1, PoolOneTask DEF Goal
<1>1. ASSUME NEW u \in User, StartEffect(u), Startable(u) PROVE Goal
  <2>1. /\ status' = [status EXCEPT ![u] = "READY"] /\ status'[u] = "READY"
        /\ UNCHANGED msg
    BY <1>1, <1>a DEF StartEffect
  <2>2. CASE status[u] = "INIT"
    <3>1. call'[u] = "none"
      BY <2>1, <2>2, <1>a, <1>b DEF WaitInv
    <3>2. ~Exists(u) /\ Exists(u)' /\ ~Waits(u, Sem)' /\ ~Returns(u)'
      BY <2>1, <2>2, <3>1 DEF Exists, Waits, Returns
    <3> QED
      BY <2>1, <3>2, <1>e
  <2>3. CASE status[u] = "SUSPENDED"
    <3>1. Same(u)
      BY <2>1, <2>3, <1>a, <1>b DEF Same, Exists, Waits, Returns, Granted, Refused, Succeeds
    <3> QED
      BY <2>1, <3>1, <1>e
  <2> QED
    BY <1>1, <2>2, <2>3 DEF Startable
<1>2. ASSUME UNCHANGED <<status, msg>> PROVE Goal
  BY <1>2, <1>c, <1>d
<1>3. ASSUME NEW u \in User, DeleteEffect(u), status[u] \notin {"TERMINATED", "DELETED"}
      PROVE  Goal
  <2>1. /\ status' = [status EXCEPT ![u] = "TERMINATED"] /\ status'[u] = "TERMINATED"
        /\ UNCHANGED msg
    BY <1>3, <1>a DEF DeleteEffect
  <2>2. \/ Exists(u) /\ ~Exists(u)' /\ ~Waits(u, Sem)'
        \/ Same(u)
    BY <1>3, <2>1 DEF Exists, Same, Waits, Returns, Granted, Refused
  <2> QED
    BY <2>1, <2>2, <1>e
<1>4. ASSUME Dispatch, current \in Task, UNCHANGED msg PROVE Goal
  <2>1. \A t \in Task : \/ status'[t] = status[t]
                        \/ {status[t], status'[t]} \subseteq {"READY", "RUNNING"}
    BY <1>4, <1>a, DispatchTransition
  <2> QED
    BY <1>4, <2>1, <1>c, <1>d
<1>5. ASSUME KernelStart PROVE Goal
  <2>1. /\ status' = [status EXCEPT ![current'] = "RUNNING"] /\ UNCHANGED msg
        /\ CanDispatch(sched) /\ current' = Chosen(sched)
    BY <1>5 DEF KernelStart
  <2>2. Ready(current') /\ current' \in Task
    BY <2>1, <1>a, ChosenIsReady
  <2> QED
    BY <2>1, <2>2, <1>a, <1>c, <1>d DEF Ready
<1>6. ASSUME NEW u \in User, NEW n \in 1 .. MaxSleep, Sleep(u, n), call[u] = "none"
      PROVE  Goal
  <2>1. /\ status' = [status EXCEPT ![u] = "BLOCKED"]
        /\ msg' = [msg EXCEPT ![u] = [NoMsg EXCEPT !.reason = "SLEEP"]]
    BY <1>6 DEF Sleep
  <2>2. Ready(u)
    BY <1>6, <1>a DEF Sleep, MayCall, Executes, Inv, RunInv
  <2>3. status'[u] = "BLOCKED" /\ msg'[u].reason = "SLEEP" /\ call'[u] = "none"
    BY <1>6, <2>1, <1>a, <1>b DEF NoMsg
  <2>4. Same(u)
    BY <1>6, <2>2, <2>3 DEF Same, Exists, Waits, Returns, Granted, Refused, Succeeds, Ready
  <2>5. \A t \in Task : t # u => msg'[t] = msg[t]
    BY <2>1, <1>a
  <2> QED
    BY <2>1, <2>4, <2>5, <1>e
<1>7. ASSUME NEW u \in User, NEW v \in User, Suspend(u, v) PROVE Goal
  <2>1. /\ status[v] \in {"READY", "RUNNING", "BLOCKED"}
        /\ status' = [status EXCEPT ![v] = "SUSPENDED"] /\ status'[v] = "SUSPENDED"
        /\ UNCHANGED msg
    BY <1>7, <1>a DEF Suspend
  <2>2. call'[v] = call[v]
    BY <2>1, <1>a, <1>b
  <2>3. CASE Waits(v, Sem)
    <3>1. Exists(v)' /\ Refused(v)'
      BY <2>1, <2>2, <2>3, <1>a DEF Waits, Exists, Returns, Refused, Succeeds, WaitInv
    <3> QED
      BY <2>1, <2>3, <3>1, <1>e
  <2>4. CASE ~Waits(v, Sem)
    <3>1. Same(v)
      BY <2>1, <2>2, <2>4 DEF Same, Waits, Exists, Returns, Granted, Refused, Succeeds
    <3> QED
      BY <2>1, <3>1, <1>e
  <2> QED
    BY <2>3, <2>4
<1>8. ASSUME NEW u \in User, NEW v \in User, Create(u, v) PROVE Goal
  <2>1. /\ status[v] = "DELETED"
        /\ status' = [status EXCEPT ![v] = "INIT"] /\ status'[v] = "INIT"
        /\ \A t \in Task : t # v => msg'[t] = msg[t]
    BY <1>8, <1>a DEF Create
  <2>2. Same(v)
    BY <2>1 DEF Same, Waits, Exists, Returns, Granted, Refused, Succeeds
  <2> QED
    BY <2>1, <2>2, <1>e
<1>9. ASSUME CleanupDefunct PROVE Goal
  <2>1. /\ UNCHANGED msg
        /\ \A t \in Task : status'[t] = IF InList(sched, t, Defunct)
                                        THEN "DELETED" ELSE status[t]
    BY <1>9 DEF CleanupDefunct, InList
  <2>2. \A t \in Task : InList(sched, t, Defunct) <=> status[t] = "TERMINATED"
    BY <1>a, InDefunctList DEF SchedInv
  <2>3. ASSUME NEW t \in Task, status[t] = "TERMINATED" PROVE Same(t)
    BY <2>1, <2>2, <2>3 DEF Same, Waits, Exists, Returns, Granted, Refused, Succeeds
  <2> QED
    BY <2>1, <2>2, <2>3, <1>c, <1>d
<1>10. ASSUME TickTimeout PROVE Goal
  <2>1. firing \in Task
    BY <1>10, <1>a DEF TickTimeout, IType
  <2>2. CASE status[firing] # "BLOCKED"
    BY <1>10, <2>2, <1>2 DEF TickTimeout
  <2>3. CASE status[firing] = "BLOCKED"
    <3>1. PICK u \in Task : u = firing
      BY <2>1
    <3>2. /\ status' = [status EXCEPT ![u] = "READY"]
          /\ msg' = [msg EXCEPT ![u] = [NoMsg EXCEPT !.notify = "TIMEOUT"]]
          /\ status[u] = "BLOCKED"
      BY <1>10, <2>3, <3>1 DEF TickTimeout
    <3>3. /\ status'[u] = "READY" /\ msg'[u].notify = "TIMEOUT" /\ msg[u].notify = "NONE"
          /\ \A t \in Task : t # u => msg'[t] = msg[t] /\ status'[t] = status[t]
      BY <3>2, <1>a DEF WaitInv, NoMsg
    <3>4. /\ call'[u] = call[u] /\ Exists(u) /\ Exists(u)'
          /\ Returns(u)' <=> call[u] = "wait"
          /\ ~Succeeds(u) /\ ~Succeeds(u)'
      BY <3>2, <3>3, <1>b DEF Waits, Returns, Succeeds, Exists
    <3>5. CASE Waits(u, Sem)
      <4>1. u \in User /\ call[u] = "wait"
        BY <3>5 DEF WaitInv
      <4>2. Refused(u)'
        BY <3>4, <4>1 DEF Refused
      <4> QED
        BY <3>2, <3>3, <3>4, <3>5, <4>1, <4>2, <1>e
    <3>6. CASE ~Waits(u, Sem)
      <4>1. ~Waits(u, Sem)'
        BY <3>3 DEF Waits
      <4>2. Same(u)
        BY <3>4, <3>6, <4>1 DEF Same, Returns, Granted, Refused
      <4> QED
        BY <3>3, <4>2, <1>c, <1>d
    <3> QED
      BY <3>5, <3>6
  <2> QED
    BY <2>2, <2>3
<1>11. ASSUME NEW u \in User, TaskStep(u), pc[u] = "app" => call[u] = "none" PROVE Goal
  <2>1. ASSUME StartCommit(u) PROVE Goal
    <3>1. Startable(arg[u]) /\ arg[u] \in User /\ StartEffect(arg[u])
      BY <2>1, <1>a DEF StartCommit, StartInv, IType
    <3>2. PICK v \in User : v = arg[u]
      BY <3>1
    <3> QED
      BY <3>1, <3>2, <1>1
  <2>2. ASSUME TaskSwitch(u) PROVE Goal
    BY <2>2, <1>4, <1>a DEF TaskSwitch, Executes
  <2>3. ASSUME Exit(u) PROVE Goal
    <3>1. Ready(u)
      BY <2>3, <1>a DEF Exit, MayCall, Executes, Inv, RunInv
    <3> QED
      BY <2>3, <3>1, <1>3 DEF Exit, Ready
  <2>4. ASSUME NEW v \in User, Delete(u, v) PROVE Goal
    BY <2>4, <1>3 DEF Delete
  <2>5. ASSUME StartRelinks(u) \/ TaskMisdispatch(u) PROVE Goal
    BY <2>5, <1>2 DEF StartRelinks, TaskMisdispatch, Misdispatch, Crash, taskVars
  <2>6. ASSUME SleepZero(u) \/ Yield(u) PROVE Goal
    BY <2>6, <1>2 DEF SleepZero, Yield, taskVars
  <2>7. ASSUME NEW v \in User, StartCheck(u, v) PROVE Goal
    BY <2>7, <1>2 DEF StartCheck, taskVars
  <2>8. ASSUME NEW v \in User, NEW p \in Prio, SetPriority(u, v, p) PROVE Goal
    BY <2>8, <1>2 DEF SetPriority
  <2>9. ASSUME NEW n \in 1 .. MaxSleep, Sleep(u, n) PROVE Goal
    BY <1>6, <1>11, <2>9 DEF Sleep, MayCall
  <2> QED
    BY <1>11, <1>7, <1>8, <2>1, <2>2, <2>3, <2>4, <2>5, <2>6, <2>7, <2>8, <2>9
    DEF TaskStep
<1>12. ASSUME TickStep PROVE Goal
  <2>1. ASSUME TickSwitch PROVE Goal
    BY <2>1, <1>4, <1>a DEF TickSwitch, IType
  <2>2. ASSUME TickBegin \/ TickYield \/ TickMisdispatch PROVE Goal
    BY <2>2, <1>2 DEF TickBegin, TickYield, TickMisdispatch, Misdispatch, Crash, taskVars
  <2>3. ASSUME TickCheck \/ TickPop \/ TickEnd PROVE Goal
    BY <2>3, <1>2 DEF TickCheck, TickPop, TickEnd, taskVars
  <2> QED
    BY <1>10, <1>12, <2>1, <2>2, <2>3 DEF TickStep
<1>13. ASSUME NEW u \in User, MainStart(u) PROVE Goal
  BY <1>13, <1>1 DEF MainStart, Startable
<1>14. ASSUME Halted PROVE Goal
  BY <1>14, <1>2 DEF Halted, vars, taskVars
<1> QED
  BY <1>5, <1>9, <1>11, <1>12, <1>13, <1>14 DEF KernelStep, Goal

(* The semaphore's own steps.                                              *)
LEMMA CallerIsReady ==
  ASSUME SemInv, NEW t \in User, NEW at, In(t, at)
  PROVE  t \in Task /\ Ready(t) /\ call[t] = at
BY ConstantFacts DEF In, Executes, SemInv, Inv, RunInv

LEMMA FirstWaiter ==
  ASSUME SemInv, Waiters # <<>>
  PROVE  Head(Waiters) \in Task /\ Waits(Head(Waiters), Sem)
<1>1. /\ Sem \in Ipc /\ Sem \in ListId /\ IType /\ Match /\ sched \in SchedType
  BY SemAssumption, ConstantFacts DEF SemInv, Inv, SchedInv, IType, TypeOK
<1>2. PICK q \in Seq(Task) : q = Waiters
  BY <1>1 DEF SchedType, Waiters
<1>3. Head(q) \in Task /\ Head(q) = q[1] /\ 1 \in DOMAIN q
  BY <1>2, HeadTailProperties, LenProperties, EmptySeq
<1>4. PICK u \in Task : u = Head(Waiters)
  BY <1>2, <1>3
<1>5. InList(sched, u, Sem)
  BY <1>2, <1>3, <1>4 DEF InList, Range, Waiters
<1>6. Waits(u, Sem)
  BY <1>1, <1>5, InBlockedList
<1> QED
  BY <1>4, <1>6

LEMMA CallSame ==
  ASSUME NEW t \in Task, msg'[t] = msg[t], status'[t] = status[t],
         call'[t] = call[t] \/ (call[t] # "wait" /\ call'[t] # "wait")
  PROVE  Same(t)
BY DEF Same, Exists, Returns, Granted, Refused, Succeeds, Waits

(* A task enters, or leaves without having waited.                         *)
LEMMA OnlyCall ==
  ASSUME SemInv, NEW t \in User, NEW at, In(t, at), at # "wait",
         NEW next, next # "wait", GotoCall(t, next), UNCHANGED vars
  PROVE  \A u \in Task : Same(u)
<1>1. UNCHANGED <<status, msg>> /\ call \in [Task -> {"none", "take", "give", "wait"}]
  BY DEF vars, taskVars, SemInv, IpcType
<1>2. t \in Task /\ call[t] = at
  BY CallerIsReady
<1>3. \A u \in Task : call'[u] = IF u = t THEN next ELSE call[u]
  BY <1>1, <1>2 DEF GotoCall
<1> QED
  BY <1>1, <1>2, <1>3, CallSame

LEMMA CallerMap == Pool!Caller = User \cup {NoTask}
BY DEF Pool!Caller

(* A waiter, already told apart from the giver, is granted a unit.         *)
LEMMA GrantRefined ==
  ASSUME SemInv, SemInv', WaitInv, valid = TRUE, Waiters # <<>>, Resume(Sem),
         \A t \in Task : call'[t] = call[t] \/ (Ready(t) /\ call[t] # "wait"
                                                         /\ call'[t] # "wait"),
         UNCHANGED curPrio, UNCHANGED <<count, valid>>,
         NEW c \in User \cup {NoTask}, Answer("give", c, TRUE)
  PROVE  [Pool!Next]_(Pool!vars)
<1>1. PICK u \in Task : u = Head(Waiters) /\ Waits(u, Sem)
  BY FirstWaiter
<1>2. /\ status' = [status EXCEPT ![u] = "READY"]
      /\ msg' = [msg EXCEPT ![u] = [NoMsg EXCEPT !.notify = "OK"]]
      /\ status \in [Task -> Status] /\ msg \in [Task -> MsgType]
  BY <1>1 DEF Resume, ResumeFrom, Waiters, SemInv, Inv, IType, TypeOK
<1>3. /\ status'[u] = "READY" /\ msg'[u].notify = "OK"
      /\ \A t \in Task : t # u => status'[t] = status[t] /\ msg'[t] = msg[t]
  BY <1>1, <1>2 DEF NoMsg
<1>4. u \in User /\ call[u] = "wait" /\ call'[u] = "wait" /\ status[u] = "BLOCKED"
  BY <1>1 DEF WaitInv, Waits, Ready
<1>5. \A t \in Task : t # u => Same(t)
  BY <1>3, CallSame
<1>6. /\ Exists(u) /\ Exists(u)' /\ Granted(u)' /\ ~Waits(u, Sem)'
      /\ ~Refused(u) /\ ~Refused(u)'
  BY <1>1, <1>3, <1>4 DEF Exists, Returns, Granted, Refused, Succeeds, Waits
<1>7. /\ Range(Waiters)' = Range(Waiters) \ {u}
      /\ Alive' = Alive /\ Grants' = Grants \cup {u} /\ Refusals' = Refusals
      /\ u \in Range(Waiters)
  <2>1. /\ Range(Waiters)' = IF Waits(u, Sem)' THEN Range(Waiters) \cup {u}
                                              ELSE Range(Waiters) \ {u}
        /\ Alive' = IF Exists(u)' THEN Alive \cup {u} ELSE Alive \ {u}
        /\ Grants' = IF Granted(u)' THEN Grants \cup {u} ELSE Grants \ {u}
        /\ Refusals' = IF Refused(u)' THEN Refusals \cup {u} ELSE Refusals \ {u}
        /\ u \in Range(Waiters) <=> Waits(u, Sem)
        /\ u \in Alive <=> Exists(u)
        /\ u \in Refusals <=> Refused(u)
    BY <1>4, <1>5, OneTaskMap
  <2> QED
    BY <1>1, <1>6, <2>1
<1>8. Pool!Give(c)
  BY <1>7 DEF Pool!Give, Grants, Refusals, Answer, Pool!Answer
<1> QED
  BY <1>8, CallerMap DEF Pool!Next

LEMMA GiveRefined ==
  ASSUME SemInv, SemInv', WaitInv, NEW t \in User, Give(t)
  PROVE  [Pool!Next]_(Pool!vars)
<1>1. /\ In(t, "give") /\ GotoCall(t, "none") /\ UNCHANGED valid
      /\ t \in Task /\ Ready(t) /\ call[t] = "give"
      /\ call \in [Task -> {"none", "take", "give", "wait"}]
  BY CallerIsReady DEF Give, SemInv, IpcType
<1>2. count \in 0 .. MaxCount /\ valid \in BOOLEAN /\ MaxCount \in Nat
  BY SemAssumption DEF SemInv, SemType
<1>3. count < Limit => valid = TRUE /\ count < MaxCount
  <2>1. CASE valid = TRUE
    BY <1>2, <2>1 DEF Limit
  <2>2. CASE valid = FALSE
    BY <1>2, <2>2 DEF Limit
  <2> QED
    BY <1>2, <2>1, <2>2, Zenon
<1>4. CASE count >= Limit /\ UNCHANGED <<vars, count>> /\ Answer("give", t, FALSE)
  <2>1. \A u \in Task : Same(u)
    BY <1>1, <1>4, OnlyCall
  <2>2. valid = TRUE => count = MaxCount
    BY <1>2, <1>4 DEF Limit
  <2>3. UNCHANGED Pool!poolVars
    BY <1>1, <1>4, <2>1, PoolUnchanged
  <2>4. Pool!GiveFails(t)
    BY <1>2, <1>4, <2>2, <2>3 DEF Pool!GiveFails, Answer, Pool!Answer
  <2> QED
    BY <2>4, CallerMap DEF Pool!Next
<1>5. CASE /\ count < Limit /\ Waiters # <<>> /\ Resume(Sem)
           /\ UNCHANGED <<current, initPrio, curPrio, mask, slice, holds, prioIpc, tick, arg,
                          idleDone, fault, count>>
           /\ Answer("give", t, TRUE)
  <2>1. \A u \in Task : call'[u] = call[u] \/ (Ready(u) /\ call[u] # "wait"
                                                       /\ call'[u] # "wait")
    BY <1>1 DEF GotoCall
  <2>2. UNCHANGED curPrio /\ UNCHANGED <<count, valid>>
    BY <1>1, <1>5
  <2> QED
    BY <1>3, <1>5, <2>1, <2>2, GrantRefined
<1>6. CASE /\ count < Limit /\ Waiters = <<>> /\ count' = count + 1 /\ UNCHANGED vars
           /\ Answer("give", t, TRUE)
  <2>1. \A u \in Task : Same(u)
    BY <1>1, <1>6, OnlyCall
  <2>2. UNCHANGED <<Range(Waiters), Grants, Refusals, Alive>>
    BY <2>1, NothingMap
  <2>3. Range(Waiters) = {}
    BY <1>6 DEF Range
  <2>4. Pool!Give(t)
    BY <1>1, <1>3, <1>6, <2>2, <2>3 DEF Pool!Give, Grants, Refusals, Answer, Pool!Answer
  <2> QED
    BY <2>4, CallerMap DEF Pool!Next
<1>7. /\ Answer("give", t, count < Limit)
      /\ Limit \in Nat /\ count \in Nat
  BY <1>2 DEF Give, Limit
<1>8. count < Limit => Answer("give", t, TRUE)
  BY <1>7 DEF Answer
<1>9. count >= Limit => Answer("give", t, FALSE)
  <2>1. count >= Limit => (count < Limit) = FALSE
    BY <1>7
  <2> QED
    BY <1>7, <2>1 DEF Answer
<1> QED
  BY <1>4, <1>5, <1>6, <1>8, <1>9 DEF Give

LEMMA TakeRefined ==
  ASSUME SemInv, SemInv', WaitInv, NEW t \in User, NEW n, Take(t, n)
  PROVE  [Pool!Next]_(Pool!vars)
<1>1. /\ In(t, "take") /\ UNCHANGED valid
      /\ t \in Task /\ Ready(t) /\ call[t] = "take"
      /\ call \in [Task -> {"none", "take", "give", "wait"}]
      /\ status \in [Task -> Status] /\ msg \in [Task -> MsgType]
  BY CallerIsReady DEF Take, SemInv, Inv, IType, TypeOK, IpcType
<1>2. CASE /\ count > 0 /\ count' = count - 1 /\ GotoCall(t, "none") /\ UNCHANGED vars
           /\ Answer("take", t, TRUE)
  <2>1. \A u \in Task : Same(u)
    BY <1>1, <1>2, OnlyCall
  <2>2. Pool!TakeNow(t)
    BY <1>1, <1>2, <2>1, NothingMap DEF Pool!TakeNow, Grants, Refusals, Answer, Pool!Answer
  <2> QED
    BY <2>2, CallerMap DEF Pool!Next
<1>3. CASE /\ count = 0 /\ GotoCall(t, "none") /\ UNCHANGED <<vars, count>>
           /\ Answer("take", t, FALSE)
  <2>1. \A u \in Task : Same(u)
    BY <1>1, <1>3, OnlyCall
  <2>2. UNCHANGED Pool!poolVars
    BY <1>1, <1>3, <2>1, PoolUnchanged
  <2>3. Pool!TakeFails(t)
    BY <1>3, <2>2 DEF Pool!TakeFails, Answer, Pool!Answer
  <2> QED
    BY <2>3, CallerMap DEF Pool!Next
<1>4. CASE count = 0 /\ Block(Sem, t, n) /\ GotoCall(t, "wait") /\ UNCHANGED count /\ Silent
  <2> DEFINE m == [source |-> Sem, reason |-> "IPC", notify |-> "NONE"]
  <2>1. /\ status' = [status EXCEPT ![t] = "BLOCKED"] /\ msg' = [msg EXCEPT ![t] = m]
        /\ call' = [call EXCEPT ![t] = "wait"]
    BY <1>4 DEF Block, BlockFrom, GotoCall
  <2>2. /\ status'[t] = "BLOCKED" /\ msg'[t] = m
        /\ \A u \in Task : u # t => /\ status'[u] = status[u] /\ msg'[u] = msg[u]
                                    /\ call'[u] = call[u]
    BY <1>1, <2>1
  <2>3. \A u \in Task : u # t => Same(u)
    BY <2>2, CallSame
  <2>4. /\ Exists(t) /\ ~Waits(t, Sem) /\ ~Granted(t) /\ ~Refused(t)
        /\ Exists(t)' /\ Waits(t, Sem)' /\ ~Granted(t)' /\ ~Refused(t)'
    BY <1>1, <2>2 DEF Exists, Waits, Returns, Granted, Refused, Ready
  <2>5. /\ Range(Waiters)' = Range(Waiters) \cup {t}
        /\ Alive' = Alive /\ Grants' = Grants /\ Refusals' = Refusals
        /\ t \in Alive /\ t \notin Range(Waiters) /\ t \notin Grants /\ t \notin Refusals
    <3>1. /\ Range(Waiters)' = IF Waits(t, Sem)' THEN Range(Waiters) \cup {t}
                                                ELSE Range(Waiters) \ {t}
          /\ Alive' = IF Exists(t)' THEN Alive \cup {t} ELSE Alive \ {t}
          /\ Grants' = IF Granted(t)' THEN Grants \cup {t} ELSE Grants \ {t}
          /\ Refusals' = IF Refused(t)' THEN Refusals \cup {t} ELSE Refusals \ {t}
          /\ t \in Range(Waiters) <=> Waits(t, Sem)
          /\ t \in Alive <=> Exists(t)
          /\ t \in Grants <=> Granted(t)
          /\ t \in Refusals <=> Refused(t)
      BY <2>3, OneTaskMap
    <3> QED
      BY <2>4, <3>1
  <2>6. Pool!Wait(t)
    BY <1>1, <1>4, <2>5
    DEF Pool!Wait, Grants, Refusals, Pool!Silent, Pool!NoResult, Silent, NoResult
  <2> QED
    BY <2>6 DEF Pool!Next
<1> QED
  BY <1>2, <1>3, <1>4 DEF Take

LEMMA ReturnRefined ==
  ASSUME SemInv, SemInv', WaitInv, NEW t \in User, TakeReturn(t)
  PROVE  [Pool!Next]_(Pool!vars)
<1>1. /\ GotoCall(t, "none") /\ UNCHANGED vars /\ UNCHANGED <<count, valid>>
      /\ t \in Task /\ Ready(t) /\ call[t] = "wait"
      /\ call \in [Task -> {"none", "take", "give", "wait"}]
      /\ UNCHANGED <<status, msg>>
  BY CallerIsReady DEF TakeReturn, semVars, SemInv, IpcType, vars, taskVars
<1>2. call'[t] = "none" /\ \A u \in Task : u # t => call'[u] = call[u]
  BY <1>1 DEF GotoCall
<1>3. \A u \in Task : u # t => Same(u)
  BY <1>1, <1>2, CallSame
<1>4. /\ Exists(t) /\ Exists(t)' /\ ~Waits(t, Sem) /\ ~Waits(t, Sem)'
      /\ Granted(t) <=> Succeeds(t)
      /\ Refused(t) <=> ~Succeeds(t)
      /\ ~Granted(t)' /\ ~Refused(t)'
  BY <1>1, <1>2 DEF Exists, Returns, Granted, Refused, Waits, Ready
<1>5. /\ Range(Waiters)' = IF Waits(t, Sem)' THEN Range(Waiters) \cup {t}
                                            ELSE Range(Waiters) \ {t}
      /\ Alive' = IF Exists(t)' THEN Alive \cup {t} ELSE Alive \ {t}
      /\ Grants' = IF Granted(t)' THEN Grants \cup {t} ELSE Grants \ {t}
      /\ Refusals' = IF Refused(t)' THEN Refusals \cup {t} ELSE Refusals \ {t}
      /\ t \in Range(Waiters) <=> Waits(t, Sem)
      /\ t \in Alive <=> Exists(t)
      /\ t \in Grants <=> Granted(t)
      /\ t \in Refusals <=> Refused(t)
  BY <1>3, OneTaskMap
<1>6. /\ Range(Waiters)' = Range(Waiters) /\ Alive' = Alive
      /\ Grants' = Grants \ {t} /\ Refusals' = Refusals \ {t}
  BY <1>4, <1>5
<1>7. Answer("take", t, Succeeds(t))
  BY DEF TakeReturn
<1>8. CASE Succeeds(t)
  <2>1. Answer("take", t, TRUE)
    BY <1>7, <1>8 DEF Answer, Succeeds
  <2>2. t \in Grants /\ Refusals' = Refusals
    BY <1>4, <1>5, <1>6, <1>8
  <2>3. Pool!Return(t)
    BY <1>1, <1>6, <2>1, <2>2 DEF Pool!Return, Grants, Refusals, Answer, Pool!Answer
  <2> QED
    BY <2>3 DEF Pool!Next
<1>9. CASE ~Succeeds(t)
  <2>1. Answer("take", t, FALSE)
    BY <1>7, <1>9 DEF Answer, Succeeds
  <2>2. t \in Refusals /\ Grants' = Grants
    BY <1>4, <1>5, <1>6, <1>9
  <2>3. Pool!Fail(t)
    BY <1>1, <1>6, <2>1, <2>2 DEF Pool!Fail, Grants, Refusals, Answer, Pool!Answer
  <2> QED
    BY <2>3 DEF Pool!Next
<1> QED
  BY <1>8, <1>9

(* Nobody waits any more, and who waited is refused.                       *)
LEMMA CloseMap ==
  ASSUME SemInv, SemInv',
         \A t \in Task : /\ Exists(t)' <=> Exists(t)
                         /\ Granted(t)' <=> Granted(t)
                         /\ Refused(t)' <=> Refused(t) \/ (t \in User /\ Waits(t, Sem))
                         /\ ~Waits(t, Sem)'
  PROVE  /\ Range(Waiters)' = {} /\ UNCHANGED <<Grants, Alive>>
         /\ Refusals' = Refusals \cup (User \cap Range(Waiters))
<1>1. User \subseteq Task
  BY ConstantFacts
<1>2. PICK A, B : A = Range(Waiters) /\ B = Range(Waiters)'
  OBVIOUS
<1>3. PICK C, D, E, F, G, H : /\ C = Alive /\ D = Alive' /\ E = Grants /\ F = Grants'
                              /\ G = Refusals /\ H = Refusals'
  OBVIOUS
<1>4. \A t : /\ t \in A <=> t \in Task /\ Waits(t, Sem)
             /\ t \in B <=> t \in Task /\ Waits(t, Sem)'
  BY ONLY SemInv, SemInv', <1>2, WaitersMap
<1>5. \A t : /\ t \in C <=> t \in User /\ Exists(t)
             /\ t \in D <=> t \in User /\ Exists(t)'
             /\ t \in E <=> t \in User /\ Granted(t)
             /\ t \in F <=> t \in User /\ Granted(t)'
             /\ t \in G <=> t \in User /\ Refused(t)
             /\ t \in H <=> t \in User /\ Refused(t)'
  BY ONLY SemInv, SemInv', <1>3, AliveMap
<1>6. \A t : /\ t \notin B
             /\ t \in D <=> t \in C
             /\ t \in F <=> t \in E
             /\ t \in H <=> t \in G \/ (t \in User /\ t \in A)
  BY <1>1, <1>4, <1>5
<1>7. B = {} /\ D = C /\ F = E /\ H = G \cup (User \cap A)
  BY ONLY <1>6
<1> QED
  BY ONLY <1>2, <1>3, <1>7

LEMMA DeleteRefined ==
  ASSUME SemInv, SemInv', WaitInv, NEW t \in User, DeleteSem(t)
  PROVE  [Pool!Next]_(Pool!vars)
<1> DEFINE R == Range(Waiters)
<1>1. /\ count' = 0 /\ valid' = FALSE /\ UNCHANGED call /\ Silent
      /\ status \in [Task -> Status] /\ msg \in [Task -> MsgType]
  BY DEF DeleteSem, ipcVars, SemInv, Inv, IType, TypeOK
<1>2. \A u \in Task : u \in R <=> Waits(u, Sem)
  BY WaitersMap
<1>3. /\ \A u \in Task : u \in R => status'[u] = "READY" /\ msg'[u].notify = "DELETED"
      /\ \A u \in Task : u \notin R => status'[u] = status[u] /\ msg'[u] = msg[u]
  <2>1. CASE Waiters = <<>> /\ UNCHANGED <<status, msg>>
    BY <2>1 DEF Range
  <2>2. CASE ResumeAll(Waiters)
    <3>1. /\ status' = [u \in Task |-> IF u \in R THEN "READY" ELSE status[u]]
          /\ msg' = [u \in Task |-> IF u \in R THEN [NoMsg EXCEPT !.notify = "DELETED"]
                                    ELSE msg[u]]
      BY <2>2 DEF ResumeAll, WakeAll
    <3> HIDE DEF R
    <3> QED
      BY <3>1 DEF NoMsg
  <2> QED
    BY <2>1, <2>2 DEF DeleteSem
<1> HIDE DEF R
<1>4. ASSUME NEW u \in Task
      PROVE  /\ Exists(u)' <=> Exists(u)
             /\ Granted(u)' <=> Granted(u)
             /\ Refused(u)' <=> Refused(u) \/ (u \in User /\ Waits(u, Sem))
             /\ ~Waits(u, Sem)'
  <2>1. CASE u \in R
    <3>1. /\ Waits(u, Sem) /\ status[u] = "BLOCKED" /\ call[u] = "wait" /\ u \in User
          /\ call'[u] = call[u]
      BY <1>1, <1>2, <2>1 DEF Waits, WaitInv
    <3> QED
      BY <1>3, <2>1, <3>1 DEF Exists, Returns, Granted, Refused, Succeeds, Waits
  <2>2. CASE u \notin R
    BY <1>1, <1>2, <1>3, <2>2 DEF Exists, Returns, Granted, Refused, Succeeds, Waits
  <2> QED
    BY <2>1, <2>2
<1>5. /\ Range(Waiters)' = {} /\ UNCHANGED <<Grants, Alive>>
      /\ Refusals' = Refusals \cup (User \cap Range(Waiters))
  BY <1>4, CloseMap
<1>6. User \cap Range(Waiters) = Range(Waiters)
  BY WaitersMap DEF WaitInv
<1>7. Pool!Close
  BY <1>1, <1>5, <1>6
  DEF Pool!Close, Grants, Refusals, Pool!Silent, Pool!NoResult, Silent, NoResult
<1> QED
  BY <1>7 DEF Pool!Next

LEMMA IsrTakeRefined ==
  ASSUME SemInv, SemInv', IsrTake
  PROVE  [Pool!Next]_(Pool!vars)
<1>1. /\ UNCHANGED <<call, valid>> /\ UNCHANGED vars /\ count \in 0 .. MaxCount
      /\ Answer("take", NoTask, count > 0) /\ MaxCount \in Nat
      /\ count' = IF count > 0 THEN count - 1 ELSE count
  BY SemAssumption DEF IsrTake, SemInv, SemType
<1>2. \A u \in Task : Same(u)
  BY <1>1, CallSame DEF vars, taskVars
<1>3. NoTask \in Pool!Caller
  BY CallerMap
<1>4. CASE count > 0
  <2>1. Answer("take", NoTask, TRUE)
    BY <1>1, <1>4 DEF Answer
  <2>2. Pool!TakeNow(NoTask)
    BY <1>1, <1>2, <1>4, <2>1, NothingMap
    DEF Pool!TakeNow, Grants, Refusals, Answer, Pool!Answer
  <2> QED
    BY <1>3, <2>2 DEF Pool!Next
<1>5. CASE ~(count > 0)
  <2>1. Answer("take", NoTask, FALSE) /\ count = 0 /\ count' = count
    <3>1. (count > 0) = FALSE /\ count = 0
      BY <1>1, <1>5
    <3> QED
      BY <1>1, <3>1
  <2>2. UNCHANGED Pool!poolVars
    BY <1>1, <1>2, <2>1, PoolUnchanged
  <2>3. Pool!TakeFails(NoTask)
    BY <2>1, <2>2 DEF Pool!TakeFails, Answer, Pool!Answer
  <2> QED
    BY <1>3, <2>3 DEF Pool!Next
<1> QED
  BY <1>4, <1>5

LEMMA IsrGiveRefined ==
  ASSUME SemInv, SemInv', WaitInv, IsrGive
  PROVE  [Pool!Next]_(Pool!vars)
<1>1. /\ UNCHANGED <<call, valid>> /\ valid = TRUE /\ count \in 0 .. MaxCount
      /\ Answer("give", NoTask, count < MaxCount \/ Waiters # <<>>) /\ MaxCount \in Nat
  BY SemAssumption DEF IsrGive, SemInv, SemType
<1>2. ASSUME UNCHANGED vars PROVE \A u \in Task : Same(u)
  BY <1>1, <1>2, CallSame DEF vars, taskVars
<1>3. NoTask \in Pool!Caller
  BY CallerMap
<1>4. CASE /\ Waiters # <<>> /\ Resume(Sem)
           /\ UNCHANGED <<current, initPrio, curPrio, mask, slice, holds, prioIpc, tick, pc,
                          arg, idleDone, fault, count>>
  <2>1. Answer("give", NoTask, TRUE)
    BY <1>1, <1>4 DEF Answer
  <2>2. UNCHANGED curPrio /\ UNCHANGED <<count, valid>>
    BY <1>1, <1>4
  <2>3. \A t \in Task : call'[t] = call[t]
    BY <1>1
  <2> QED
    BY <1>1, <1>4, <2>1, <2>2, <2>3, GrantRefined
<1>5. CASE Waiters = <<>> /\ count < MaxCount /\ count' = count + 1 /\ UNCHANGED vars
  <2>1. UNCHANGED <<Range(Waiters), Grants, Refusals, Alive>>
    BY <1>2, <1>5, NothingMap
  <2>2. Range(Waiters) = {}
    BY <1>5 DEF Range
  <2>3. Answer("give", NoTask, TRUE)
    BY <1>1, <1>5 DEF Answer
  <2>4. Pool!Give(NoTask)
    BY <1>1, <1>5, <2>1, <2>2, <2>3 DEF Pool!Give, Grants, Refusals, Answer, Pool!Answer
  <2> QED
    BY <1>3, <2>4 DEF Pool!Next
<1>6. CASE Waiters = <<>> /\ count >= MaxCount /\ count' = count /\ UNCHANGED vars
  <2>1. UNCHANGED Pool!poolVars
    BY <1>1, <1>2, <1>6, PoolUnchanged
  <2>2. Answer("give", NoTask, FALSE) /\ count = MaxCount
    <3>1. (count < MaxCount \/ Waiters # <<>>) = FALSE /\ count = MaxCount
      BY <1>1, <1>6
    <3> QED
      BY <1>1, <3>1
  <2>3. Pool!GiveFails(NoTask)
    BY <2>1, <2>2 DEF Pool!GiveFails, Answer, Pool!Answer
  <2> QED
    BY <1>3, <2>3 DEF Pool!Next
<1> QED
  BY <1>4, <1>5, <1>6 DEF IsrGive

LEMMA IsrSwitchRefined ==
  ASSUME SemInv, SemInv', WaitInv, IsrSwitch, UNCHANGED <<count, valid>>, Silent
  PROVE  [Pool!Next]_(Pool!vars)
<1>1. UNCHANGED call /\ current \in Task /\ Inv
  BY DEF IsrSwitch, SemInv, IpcType
<1>2. CASE Dispatch /\ UNCHANGED msg
  <2>1. \A t \in Task : \/ status'[t] = status[t]
                        \/ {status[t], status'[t]} \subseteq {"READY", "RUNNING"}
    BY <1>1, <1>2, DispatchTransition
  <2>2. \A t \in Task : Same(t)
    BY <1>1, <1>2, <2>1 DEF Same, Exists, Returns, Granted, Refused, Succeeds, Waits
  <2> QED
    BY <2>2, PoolIdle
<1>3. CASE UNCHANGED <<status, msg>>
  BY <1>1, <1>3, CallSame, PoolIdle
<1> QED
  BY <1>2, <1>3 DEF IsrSwitch, Misdispatch, Crash, taskVars

(* What the refinement rests on holds in every step.                       *)
LEMMA WaitFrame ==
  ASSUME WaitInv,
         \A t \in Task : status'[t] \in {"BLOCKED", "INIT"} =>
           status'[t] = status[t] /\ msg'[t] = msg[t] /\ call'[t] = call[t]
  PROVE  WaitInv'
<1>1. ASSUME NEW t \in Task, status'[t] = "BLOCKED" PROVE msg'[t].notify = "NONE"
  BY <1>1 DEF WaitInv
<1>2. ASSUME NEW t \in Task, status'[t] = "INIT" PROVE call'[t] = "none"
  BY <1>2 DEF WaitInv
<1>3. ASSUME NEW t \in Task, Waits(t, Sem)' PROVE t \in User /\ call'[t] = "wait"
  BY <1>3 DEF WaitInv, Waits
<1> QED
  BY <1>1, <1>2, <1>3 DEF WaitInv

LEMMA WaitInvStep ==
  ASSUME SemInv, WaitInv, [SemNext]_allVars
  PROVE  WaitInv'
<1>a. /\ status \in [Task -> Status] /\ msg \in [Task -> MsgType]
      /\ call \in [Task -> {"none", "take", "give", "wait"}] /\ IType /\ SchedInv
      /\ Sem \in Ipc
  BY SemAssumption DEF SemInv, Inv, IType, TypeOK, IpcType
<1>b. ASSUME NEW t \in User, NEW at, In(t, at), NEW next, GotoCall(t, next),
             \A u \in Task : status'[u] \in {"BLOCKED", "INIT"}
                               => status'[u] = status[u] /\ msg'[u] = msg[u]
      PROVE  WaitInv'
  <2>1. Ready(t)
    BY <1>b, CallerIsReady
  <2>2. \A u \in Task : u # t => call'[u] = call[u]
    BY <1>a, <1>b DEF GotoCall
  <2> QED
    BY <1>b, <2>1, <2>2, WaitFrame DEF Ready
<1>c. ASSUME Waiters # <<>>, Resume(Sem), UNCHANGED curPrio
      PROVE  \A u \in Task : status'[u] \in {"BLOCKED", "INIT"}
                               => status'[u] = status[u] /\ msg'[u] = msg[u]
  <2>1. PICK u \in Task : u = Head(Waiters)
    BY <1>c, FirstWaiter
  <2>2. /\ status' = [status EXCEPT ![u] = "READY"]
        /\ msg' = [msg EXCEPT ![u] = [NoMsg EXCEPT !.notify = "OK"]]
    BY <1>c, <2>1 DEF Resume, ResumeFrom, Waiters
  <2> QED
    BY <1>a, <2>2
<1>1. ASSUME NEW t \in User, NEW f \in {"take", "give"}, Enter(t, f) PROVE WaitInv'
  BY <1>1, <1>b DEF Enter, vars, taskVars
<1>2. ASSUME NEW t \in User, NEW n, Take(t, n) PROVE WaitInv'
  <2>1. In(t, "take")
    BY <1>2 DEF Take
  <2>2. CASE GotoCall(t, "none") /\ UNCHANGED vars
    BY <1>b, <2>1, <2>2 DEF vars, taskVars
  <2>3. CASE Block(Sem, t, n) /\ GotoCall(t, "wait")
    <3>1. /\ status' = [status EXCEPT ![t] = "BLOCKED"]
          /\ msg' = [msg EXCEPT ![t] = [source |-> Sem, reason |-> "IPC", notify |-> "NONE"]]
          /\ call' = [call EXCEPT ![t] = "wait"]
          /\ t \in Task
      BY <2>1, <2>3, CallerIsReady DEF Block, BlockFrom, GotoCall
    <3>2. /\ status'[t] = "BLOCKED" /\ msg'[t].notify = "NONE" /\ call'[t] = "wait"
          /\ \A u \in Task : u # t => /\ status'[u] = status[u] /\ msg'[u] = msg[u]
                                      /\ call'[u] = call[u]
      BY <1>a, <3>1
    <3> QED
      BY <3>1, <3>2 DEF WaitInv, Waits
  <2> QED
    BY <1>2, <2>2, <2>3 DEF Take
<1>3. ASSUME NEW t \in User, TakeReturn(t) PROVE WaitInv'
  BY <1>3, <1>b DEF TakeReturn, vars, taskVars
<1>4. ASSUME NEW t \in User, Give(t) PROVE WaitInv'
  <2>1. In(t, "give") /\ GotoCall(t, "none")
    BY <1>4 DEF Give
  <2>2. CASE UNCHANGED vars
    BY <1>b, <2>1, <2>2 DEF vars, taskVars
  <2>3. CASE Waiters # <<>> /\ Resume(Sem) /\ UNCHANGED curPrio
    BY <1>b, <1>c, <2>1, <2>3
  <2> QED
    BY <1>4, <2>2, <2>3 DEF Give
<1>5. ASSUME NEW t \in User, DeleteSem(t) PROVE WaitInv'
  <2>1. \A u \in Task : status'[u] \in {"BLOCKED", "INIT"}
                          => status'[u] = status[u] /\ msg'[u] = msg[u]
    <3>1. CASE UNCHANGED <<status, msg>>
      BY <3>1
    <3>2. CASE ResumeAll(Waiters)
      BY <3>2 DEF ResumeAll, WakeAll
    <3> QED
      BY <1>5, <3>1, <3>2 DEF DeleteSem
  <2>2. UNCHANGED call
    BY <1>5 DEF DeleteSem, ipcVars
  <2> QED
    BY <2>1, <2>2, WaitFrame
<1>6. ASSUME IsrGive PROVE WaitInv'
  <2>1. UNCHANGED call
    BY <1>6 DEF IsrGive
  <2>2. CASE UNCHANGED vars
    BY <2>1, <2>2, WaitFrame DEF vars, taskVars
  <2>3. CASE Waiters # <<>> /\ Resume(Sem) /\ UNCHANGED curPrio
    BY <1>c, <2>1, <2>3, WaitFrame
  <2> QED
    BY <1>6, <2>2, <2>3 DEF IsrGive
<1>7. ASSUME KernelStep PROVE WaitInv'
  BY <1>7, KernelKeepsWaits
<1>8. ASSUME IsrSwitch PROVE WaitInv'
  <2>1. UNCHANGED call /\ current \in Task /\ Inv
    BY <1>8 DEF IsrSwitch, SemInv, IpcType
  <2>2. CASE Dispatch /\ UNCHANGED msg
    <3>1. \A t \in Task : \/ status'[t] = status[t]
                          \/ {status[t], status'[t]} \subseteq {"READY", "RUNNING"}
      BY <2>1, <2>2, DispatchTransition
    <3> QED
      BY <2>1, <2>2, <3>1, WaitFrame
  <2>3. CASE UNCHANGED <<status, msg>>
    BY <2>1, <2>3, WaitFrame
  <2> QED
    BY <1>8, <2>2, <2>3 DEF IsrSwitch, Misdispatch, Crash, taskVars
<1>9. ASSUME IsrTake \/ UNCHANGED allVars PROVE WaitInv'
  BY <1>9, WaitFrame DEF IsrTake, allVars, vars, taskVars, ipcVars
<1> QED
  BY <1>1, <1>2, <1>3, <1>4, <1>5, <1>6, <1>7, <1>8, <1>9 DEF SemNext, SemStep

LEMMA PoolStep ==
  ASSUME SemInv, SemInv', StartInv, WaitInv, [SemNext]_allVars
  PROVE  [Pool!Next]_(Pool!vars)
<1>1. ASSUME NEW t \in User, NEW f \in {"take", "give"}, Enter(t, f)
      PROVE  [Pool!Next]_(Pool!vars)
  <2>1. /\ In(t, "none") /\ GotoCall(t, f) /\ UNCHANGED vars /\ UNCHANGED <<count, valid>>
        /\ Silent
    BY <1>1 DEF Enter
  <2>2. \A u \in Task : Same(u)
    BY <2>1, OnlyCall
  <2> QED
    BY <2>1, <2>2, PoolIdle
<1>2. ASSUME NEW t \in User, SemStep(t) PROVE [Pool!Next]_(Pool!vars)
  BY <1>1, <1>2, TakeRefined, ReturnRefined, GiveRefined, DeleteRefined DEF SemStep
<1>3. ASSUME IsrTake \/ IsrGive PROVE [Pool!Next]_(Pool!vars)
  BY <1>3, IsrTakeRefined, IsrGiveRefined
<1>4. ASSUME KernelStep \/ IsrSwitch, Silent, UNCHANGED <<count, valid>>
      PROVE  [Pool!Next]_(Pool!vars)
  BY <1>4, KernelRefined, IsrSwitchRefined
<1>5. ASSUME UNCHANGED allVars PROVE [Pool!Next]_(Pool!vars)
  <2>1. UNCHANGED <<status, msg, call>> /\ UNCHANGED <<count, valid>> /\ UNCHANGED ret
    BY <1>5 DEF allVars, vars, taskVars, ipcVars, semVars
  <2>2. UNCHANGED Pool!poolVars
    BY <2>1, CallSame, PoolUnchanged
  <2> QED
    BY <2>1, <2>2 DEF Pool!vars
<1> QED
  BY <1>2, <1>3, <1>4, <1>5 DEF SemNext

LEMMA PoolInit == SemInit => Pool!Init /\ WaitInv
<1> SUFFICES ASSUME SemInit PROVE Pool!Init /\ WaitInv
  OBVIOUS
<1>1. \A t \in Task : /\ status[t] = IF t = Idle THEN "READY" ELSE "INIT"
                      /\ call[t] = "none" /\ msg[t] = NoMsg
  BY DEF SemInit, Init
<1>2. SemInv /\ Idle \notin User /\ User \subseteq Task
  BY SemInvInit, ConstantFacts, TaskAssumption
<1>3. WaitInv
  BY <1>1 DEF WaitInv, Waits, NoMsg
<1>4. Alive = {}
  BY <1>1, <1>2 DEF Alive
<1>5. IType /\ Match /\ Sem \in Ipc /\ Sem \in ListId /\ sched \in SchedType
  BY <1>2, SemAssumption, ConstantFacts DEF SemInv, Inv, SchedInv, IType, TypeOK
<1>6. Range(Waiters) = {}
  <2>1. CASE Waiters = <<>>
    BY <2>1 DEF Range
  <2>2. CASE Waiters # <<>>
    BY <1>1, <1>2, <2>2, FirstWaiter DEF Waits
  <2> QED
    BY <2>1, <2>2
<1> QED
  BY <1>3, <1>4, <1>6 DEF Pool!Init, SemInit, Returning, Pool!NoResult, NoResult

(* Units are neither lost nor duplicated, and results are true: a take     *)
(* returns success exactly if it took a unit or was granted one, a give    *)
(* exactly if its unit went into the semaphore or to a waiter, however     *)
(* give, timeout, suspension and deletion race for a task.  Each step of   *)
(* tasks, kernel and handlers is a step of the pool or leaves it unchanged.*)
THEOREM SemaphoreIsUnitPool == OneStarter /\ SemSpec => UnitsConserved
<1>1. SemInv /\ WaitInv /\ [SemNext]_allVars => WaitInv'
  BY WaitInvStep
<1>2. SemInv /\ SemInv' /\ SemTimed /\ WaitInv /\ [SemNext]_allVars
        => [Pool!Next]_(Pool!vars)
  BY PoolStep DEF SemTimed
<1>3. SemInit => Pool!Init /\ WaitInv
  BY PoolInit
<1> QED
  BY <1>1, <1>2, <1>3, SemInvHolds, SemTimedHolds, PTL
  DEF SemSpec, UnitsConserved, Pool!Spec

-----------------------------------------------------------------------------
(* Who is served: lists with YR_IPC_FLAG_PRIO stay in order, and a give    *)
(* resumes the first waiter.                                               *)
BestInv == WaitInv /\ SortedLists

LEMMA BestSteps ==
  ASSUME SemInv, BestInv, [SemNext]_allVars
  PROVE  SortedLists' /\ ServesBestStep
<1> DEFINE Goal == SortedLists' /\ ServesBestStep
<1>a. Inv /\ prioIpc \subseteq Ipc /\ SortedLists /\ Sem \in Ipc
  BY SemAssumption DEF SemInv, IpcType, BestInv
<1>b. Untold
  BY DEF BestInv, WaitInv, Untold
<1>c. ASSUME UNCHANGED vars PROVE Goal
  <2>1. SortedLists' /\ UNCHANGED msg
    BY <1>a, <1>c DEF SortedLists, vars, taskVars
  <2>2. ServesBestStep
    BY <1>a, <1>b, <2>1, NobodyServed DEF Untold
  <2> QED
    BY <2>1, <2>2
<1>d. ASSUME Waiters # <<>>, Resume(Sem), UNCHANGED <<curPrio, prioIpc>> PROVE Goal
  <2>1. SortedLists'
    BY <1>a, <1>d, ResumeKeepsSorted DEF Waiters
  <2>2. ServesBestStep
    BY <1>a, <1>b, <1>d, FirstServed DEF Waiters, Resume, ResumeFrom
  <2> QED
    BY <2>1, <2>2
<1>1. ASSUME NEW t \in User, NEW n, Take(t, n) PROVE Goal
  <2>1. CASE UNCHANGED vars
    BY <1>c, <2>1
  <2>2. CASE Block(Sem, t, n)
    <3>1. t \in Task /\ Ready(t)
      BY <1>1, <1>a, CallerReady DEF Take
    <3>2. SortedLists'
      BY <1>a, <2>2, <3>1, BlockKeepsSorted
    <3>3. \A u \in Task : u # t => msg'[u] = msg[u]
      BY <1>a, <2>2 DEF Block, BlockFrom, Inv, IType, TypeOK
    <3>4. ServesBestStep
      BY <1>a, <1>b, <3>1, <3>3, NobodyServed DEF Untold, Ready
    <3> QED
      BY <3>2, <3>4
  <2> QED
    BY <1>1, <2>1, <2>2 DEF Take
<1>2. ASSUME NEW t \in User, Give(t) PROVE Goal
  BY <1>2, <1>c, <1>d DEF Give
<1>3. ASSUME NEW t \in User, DeleteSem(t) PROVE Goal
  <2>1. prioIpc' = prioIpc \ {Sem} /\ UNCHANGED curPrio
    BY <1>3 DEF DeleteSem
  <2>2. CASE UNCHANGED sched /\ UNCHANGED msg
    <3>1. SortedLists'
      BY <1>a, <2>1, <2>2 DEF SortedLists
    <3>2. ServesBestStep
      BY <1>a, <1>b, <2>2, NobodyServed DEF Untold
    <3> QED
      BY <3>1, <3>2
  <2>3. CASE ResumeAll(Waiters)
    <3>1. IType /\ ListsAgree(sched, curPrio) /\ curPrio \in [Task -> Prio]
      BY <1>a, SchedAgrees DEF Inv, IType, TypeOK
    <3>2. \A u \in Range(Waiters) : \E i \in {Sem} : Waits(u, i)
      BY <1>a, <3>1, BlockedNodes DEF Waiters
    <3>3. SortedLists'
      BY <1>a, <2>1, <2>3, <3>2, DeletionKeepsSorted
    <3>4. ServesBestStep
      BY <1>a, <1>b, <2>3, DeletionServesNobody DEF ResumeAll
    <3> QED
      BY <3>3, <3>4
  <2> QED
    BY <1>3, <2>2, <2>3 DEF DeleteSem
<1>4. ASSUME IsrGive PROVE Goal
  BY <1>4, <1>c, <1>d DEF IsrGive
<1>5. ASSUME KernelStep \/ IsrSwitch PROVE Goal
  BY <1>5, <1>a, <1>b, KernelStepKeepsSorted, KernelServesBest
<1> QED
  BY <1>c, <1>1, <1>2, <1>3, <1>4, <1>5
  DEF SemNext, SemStep, Enter, TakeReturn, IsrTake, allVars

(* The task a give serves: with YR_IPC_FLAG_PRIO none of the others has a  *)
(* higher priority, whatever yr_task_set_priority did while they waited;   *)
(* with YR_IPC_FLAG_FIFO it has waited longest.                            *)
THEOREM SemaphoreServesBest == SemSpec => ServesBest
<1>1. SemInit => BestInv
  BY PoolInit, SortedInit DEF SemInit, BestInv
<1>2. SemInv /\ BestInv /\ [SemNext]_allVars => BestInv'
  BY WaitInvStep, BestSteps DEF BestInv
<1>3. SemInv /\ BestInv /\ [SemNext]_allVars => [ServesBestStep]_<<vars, ipcVars>>
  BY BestSteps
<1>4. ServesBest <=> [][ServesBestStep]_<<vars, ipcVars>>
  BY PTL DEF ServesBest, ServesBestStep
<1> QED
  BY <1>1, <1>2, <1>3, <1>4, SemInvHolds, PTL DEF SemSpec
=============================================================================
