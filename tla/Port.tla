-------------------------------- MODULE Port --------------------------------
(***************************************************************************)
(* The Cortex-M3 port.  yr_sched_switch only asks for a switch: the        *)
(* context changes in the PendSV exception, which has the lowest priority, *)
(* so that handlers may ask again before it runs and while it runs.        *)
(*                                                                         *)
(* A step masked by PRIMASK is one action.  A handler is taken at any      *)
(* other point; handlers nest, and PendSV waits for all of them.  Which    *)
(* task the scheduler picks is left open.                                  *)
(*                                                                         *)
(* The specification implements module Processor.                          *)
(***************************************************************************)
EXTENDS Integers

CONSTANTS
  Task,      \* the tasks
  Main,      \* main(), before the first task runs
  NoTask,    \* the null pointer
  Lost,      \* where the context is at a stack pointer that was never set
  MaxWork,   \* bound on the steps of a task
  MaxNest    \* bound on nested handlers

ASSUME PortAssumption ==
  /\ Main \notin Task \cup {NoTask}
  /\ NoTask \notin Task
  /\ MaxWork \in Nat
  /\ Lost \notin 0 .. MaxWork
  /\ MaxNest \in Nat

VARIABLES
  current,     \* yr_current_task
  flag,        \* yr_switch_flag
  prevSlot,    \* the task whose sp yr_prev_task_sp_p names
  nextSlot,    \* the task whose sp yr_next_task_sp_p names
  pended,      \* PENDSVSET
  pendsv,      \* PendSV_Handler: "off", "entry" before cpsid, "exit" after msr
  depth,       \* active handlers other than PendSV
  cpu,         \* the context thread mode has: PSP and r4-r11
  saved,       \* the context each task->sp points to
  main,        \* how far main() has come
  first        \* the argument of yr_task_first_switch_to

slots == <<flag, prevSlot, nextSlot>>
vars  == <<current, slots, pended, pendsv, depth, cpu, saved, main, first>>

Position == 0 .. MaxWork \cup {Lost}
Context  == [owner : Task \cup {Main, NoTask}, at : Position]

(* yr_task_stack_init: the task begins at its entry function.              *)
Fresh(t) == [owner |-> t, at |-> 0]

(* What lies at a stack pointer that was never set: the frame of no task.  *)
NoFrame == [owner |-> NoTask, at |-> Lost]

Init ==
  /\ current = NoTask
  /\ flag = FALSE
  /\ prevSlot = NoTask
  /\ nextSlot = NoTask
  /\ pended = FALSE
  /\ pendsv = "off"
  /\ depth = 0
  /\ cpu = Fresh(Main)
  /\ saved = [t \in Task |-> Fresh(t)]
  /\ main = "init"
  /\ first = NoTask

(* No exception is active, and none is to be taken first.                  *)
ThreadMode == pendsv = "off" /\ depth = 0 /\ ~pended

Running == ThreadMode /\ cpu.owner # Main /\ cpu.at # Lost

(* The return to a context that does not exist.                            *)
Faulted == ThreadMode /\ cpu.at = Lost

-----------------------------------------------------------------------------
(* Faulty variants for mutation tests.                                     *)

ChooseForgotten(t) == current' = current

PrevOfLastRequest == current

ReturnClearsFlag ==
  /\ pendsv = "exit"
  /\ depth = 0
  /\ pendsv' = "off"
  /\ flag' = FALSE
  /\ UNCHANGED <<current, prevSlot, nextSlot, pended, depth, cpu, saved, main, first>>

-----------------------------------------------------------------------------
(* yr_sched_start makes t the current task ...                             *)
Chosen(t) == current' = t

SchedStart(t) ==
  /\ ThreadMode
  /\ main = "init"
  /\ main' = "starting"
  /\ Chosen(t)
  /\ first' = t
  /\ UNCHANGED <<slots, pended, pendsv, depth, cpu, saved>>

(* ... and SVC_Handler restores its context.  Interrupts are enabled in    *)
(* between.                                                                *)
SVC ==
  /\ ThreadMode
  /\ main = "starting"
  /\ main' = "tasks"
  /\ cpu' = saved[first]
  /\ UNCHANGED <<current, slots, pended, pendsv, depth, saved, first>>

(* A request that is still open keeps the task whose context is to be      *)
(* saved (task_reswitch).                                                  *)
PrevOfRequest == IF flag THEN prevSlot ELSE current

(* yr_sched_switch to another task, with yr_task_switch.                   *)
Request(t) ==
  /\ current \notin {NoTask, t}
  /\ current' = t
  /\ flag' = TRUE
  /\ prevSlot' = PrevOfRequest
  /\ nextSlot' = t
  /\ pended' = TRUE
  /\ UNCHANGED <<pendsv, depth, cpu, saved, main, first>>

TaskRequest(t) == Running /\ Request(t)

HandlerRequest(t) == depth > 0 /\ Request(t)

(* A handler is taken; it returns.                                         *)
HandlerEnter ==
  /\ ~Faulted
  /\ depth < MaxNest
  /\ depth' = depth + 1
  /\ UNCHANGED <<current, slots, pended, pendsv, cpu, saved, main, first>>

HandlerReturn ==
  /\ depth > 0
  /\ depth' = depth - 1
  /\ UNCHANGED <<current, slots, pended, pendsv, cpu, saved, main, first>>

(* PendSV is taken when no other exception is active.                      *)
PendSVEnter ==
  /\ pended
  /\ pendsv = "off"
  /\ depth = 0
  /\ pended' = FALSE
  /\ pendsv' = "entry"
  /\ UNCHANGED <<current, slots, depth, cpu, saved, main, first>>

(* What stmdb leaves at PSP.  main() runs on MSP; PSP is not set yet.      *)
Pushed == IF cpu.owner = Main THEN NoFrame ELSE cpu

(* The masked part of PendSV_Handler.                                      *)
PendSVSwap ==
  /\ pendsv = "entry"
  /\ depth = 0
  /\ pendsv' = "exit"
  /\ flag' = FALSE
  /\ \/ ~flag /\ UNCHANGED <<cpu, saved, main>>
     \/ /\ flag
        /\ saved' = IF prevSlot = NoTask THEN saved
                    ELSE [saved EXCEPT ![prevSlot] = Pushed]
        /\ cpu' = saved'[nextSlot]
        /\ main' = "tasks"
  /\ UNCHANGED <<current, prevSlot, nextSlot, pended, depth, first>>

PendSVReturn ==
  /\ pendsv = "exit"
  /\ depth = 0
  /\ pendsv' = "off"
  /\ UNCHANGED <<current, slots, pended, depth, cpu, saved, main, first>>

(* The task in thread mode executes.                                       *)
Work ==
  /\ Running
  /\ cpu.at < MaxWork
  /\ cpu' = [cpu EXCEPT !.at = @ + 1]
  /\ UNCHANGED <<current, slots, pended, pendsv, depth, saved, main, first>>

(* It calls yr_task_create for another one.                                *)
Create(t) ==
  /\ Running
  /\ t # cpu.owner
  /\ saved' = [saved EXCEPT ![t] = Fresh(t)]
  /\ UNCHANGED <<current, slots, pended, pendsv, depth, cpu, main, first>>

(* The default HardFault_Handler loops.                                    *)
Halted == Faulted /\ UNCHANGED vars

PendSV == PendSVEnter \/ PendSVSwap \/ PendSVReturn

Next ==
  \/ SVC
  \/ HandlerEnter
  \/ HandlerReturn
  \/ PendSVEnter
  \/ PendSVSwap
  \/ PendSVReturn
  \/ Work
  \/ Halted
  \/ \E t \in Task :
       SchedStart(t) \/ TaskRequest(t) \/ HandlerRequest(t) \/ Create(t)

Spec == Init /\ [][Next]_vars

(* Handlers return, also those that others interrupt, and leave time for   *)
(* what has a lower priority.                                              *)
Fairness ==
  /\ WF_vars(HandlerReturn)
  /\ SF_vars(depth = 1 /\ HandlerReturn)
  /\ SF_vars(PendSVEnter)
  /\ SF_vars(PendSVSwap)
  /\ SF_vars(PendSVReturn)
  /\ SF_vars(SVC)

FairSpec == Spec /\ Fairness

-----------------------------------------------------------------------------
(* Properties *)

PortTypeOK ==
  /\ current \in Task \cup {NoTask}
  /\ flag \in BOOLEAN
  /\ prevSlot \in Task \cup {NoTask}
  /\ nextSlot \in Task \cup {NoTask}
  /\ pended \in BOOLEAN
  /\ pendsv \in {"off", "entry", "exit"}
  /\ depth \in 0 .. MaxNest
  /\ cpu \in Context
  /\ saved \in [Task -> Context]
  /\ main \in {"init", "starting", "tasks"}
  /\ first \in Task \cup {NoTask}
  /\ main = "init" <=> current = NoTask
  /\ main = "init" <=> first = NoTask

(* The stack pointer of a task leads to a frame of that task, never to one *)
(* of another, however many switches are asked for before PendSV runs.     *)
(* The first task alone can get the stack pointer that was never set: when *)
(* a switch is served between yr_sched_start and the SVC that starts it.   *)
OwnFrames ==
  \A t \in Task :
    saved[t].owner = t \/ (t = first /\ saved[t] = NoFrame)

(* The task whose context the processor has; in place of the context that  *)
(* was lost it has what lies at the stack pointer of the first task.       *)
Holder == IF cpu.owner = NoTask THEN first ELSE cpu.owner

Refined == INSTANCE Processor
  WITH running <- Holder, wanted <- current,
       early <- (flag /\ cpu.owner = Main),
       at <- [t \in Task |-> IF Holder = t THEN cpu.at ELSE saved[t].at]

(* A task executes only while it is the current task, and continues where  *)
(* it left off; only the first task may be lost, by a switch between       *)
(* yr_sched_start and the SVC that starts it.                              *)
IsProcessor == Refined!Spec

(* The processor catches up with the scheduler: a request is not lost.     *)
SwitchHappens == (current # NoTask) ~> (Holder = current)
=============================================================================
