---------------------------- MODULE Port_proofs -----------------------------
(***************************************************************************)
(* Module Port for any number of tasks, steps and nested handlers: the     *)
(* stack pointers stay with their tasks, and the port implements module    *)
(* Processor.                                                              *)
(***************************************************************************)
EXTENDS Port, TLAPS

(* An open request will be served; it names the task whose context the     *)
(* processor has (or the first one) and the task that is now current.      *)
RequestOpen ==
  flag => /\ main # "init"
          /\ pended \/ pendsv = "entry"
          /\ nextSlot = current
          /\ prevSlot = IF cpu.owner = Main THEN first ELSE Holder

(* Without a request the processor has the context of the current task, or *)
(* main() is about to give it to it.                                       *)
RequestClosed ==
  ~flag => /\ main = "tasks" => Holder = current
           /\ main = "starting" => current = first

(* The context of main() is in use until the first task starts.            *)
MainLeaves == main = "tasks" <=> cpu.owner # Main

(* A context of no task is lost.                                           *)
OnlyLost == cpu.owner = NoTask => cpu = NoFrame

IInv ==
  /\ PortTypeOK
  /\ OwnFrames
  /\ RequestOpen
  /\ RequestClosed
  /\ MainLeaves
  /\ OnlyLost

(* Thread mode resumes only when no request is open.                       *)
LEMMA ThreadModeSettled ==
  ASSUME IInv, ThreadMode
  PROVE  ~flag
BY DEF IInv, RequestOpen, ThreadMode

(* A task that executes is the current one.                                *)
LEMMA RunningIsCurrent ==
  ASSUME IInv, Running
  PROVE  /\ ~flag
         /\ main = "tasks"
         /\ cpu.owner = current
         /\ current \in Task
<1>1. ~flag
  BY ThreadModeSettled DEF Running
<1>2. cpu.owner # NoTask
  BY DEF IInv, OnlyLost, Running, NoFrame
<1>3. main = "tasks" /\ cpu.owner = current
  BY <1>1, <1>2 DEF IInv, Running, MainLeaves, RequestClosed, Holder
<1>4. current \in Task
  BY <1>3 DEF IInv, PortTypeOK
<1> QED BY <1>1, <1>3, <1>4

(* When a switch is asked for, the slots name the right contexts.          *)
LEMMA RequestNames ==
  ASSUME IInv, current # NoTask
  PROVE  /\ main # "init"
         /\ PrevOfRequest = IF cpu.owner = Main THEN first ELSE Holder
         /\ PrevOfRequest \in Task
<1>1. main # "init" /\ first \in Task /\ current \in Task
  BY DEF IInv, PortTypeOK
<1>2. cpu.owner # Main => Holder \in Task
  BY <1>1 DEF IInv, PortTypeOK, Context, Holder
<1>3. CASE flag
  BY <1>1, <1>2, <1>3 DEF IInv, RequestOpen, PrevOfRequest
<1>4. CASE ~flag /\ cpu.owner = Main
  <2>1. main = "starting"
    BY <1>1, <1>4 DEF IInv, PortTypeOK, MainLeaves
  <2> QED BY <1>1, <1>4, <2>1 DEF IInv, RequestClosed, PrevOfRequest
<1>5. CASE ~flag /\ cpu.owner # Main
  BY <1>1, <1>2, <1>5 DEF IInv, MainLeaves, RequestClosed, PrevOfRequest
<1> QED BY <1>3, <1>4, <1>5

(* The slots when PendSV uses them.                                        *)
LEMMA SwapNames ==
  ASSUME IInv, flag
  PROVE  /\ prevSlot \in Task
         /\ prevSlot # NoTask
         /\ nextSlot \in Task
         /\ nextSlot = current
         /\ prevSlot = IF cpu.owner = Main THEN first ELSE Holder
         /\ Pushed \in Context
         /\ Pushed.owner = prevSlot \/ (prevSlot = first /\ Pushed = NoFrame)
<1>1. main # "init" /\ nextSlot = current
      /\ prevSlot = IF cpu.owner = Main THEN first ELSE Holder
  BY DEF IInv, RequestOpen
<1>2. first \in Task /\ current \in Task
  BY <1>1 DEF IInv, PortTypeOK
<1>3. cpu \in Context /\ cpu.owner \in Task \cup {Main, NoTask}
  BY DEF IInv, PortTypeOK, Context
<1>4. prevSlot \in Task /\ prevSlot # NoTask
  BY <1>1, <1>2, <1>3, PortAssumption DEF Holder
<1>5. CASE cpu.owner = Main
  <2>1. NoFrame \in Context
    BY DEF NoFrame, Context, Position
  <2> QED BY <1>1, <1>2, <1>4, <1>5, <2>1 DEF Pushed
<1>6. CASE cpu.owner = NoTask
  BY <1>1, <1>2, <1>3, <1>4, <1>6, PortAssumption DEF Pushed, Holder, IInv, OnlyLost
<1>7. CASE cpu.owner \in Task
  BY <1>1, <1>2, <1>3, <1>4, <1>7, PortAssumption DEF Pushed, Holder
<1> QED BY <1>1, <1>2, <1>3, <1>4, <1>5, <1>6, <1>7

-----------------------------------------------------------------------------
LEMMA InitIInv == Init => IInv
<1> SUFFICES ASSUME Init PROVE IInv
  OBVIOUS
<1>1. \A t \in Task \cup {Main} : Fresh(t) \in Context /\ Fresh(t).owner = t
  BY PortAssumption DEF Fresh, Context, Position
<1>2. PortTypeOK
  <2>1. cpu \in Context /\ saved \in [Task -> Context]
    BY <1>1 DEF Init
  <2>2. depth \in 0 .. MaxNest
    BY PortAssumption DEF Init
  <2> QED BY <2>1, <2>2 DEF Init, PortTypeOK
<1>3. OwnFrames
  BY <1>1 DEF Init, OwnFrames
<1>4. RequestOpen /\ RequestClosed /\ MainLeaves /\ OnlyLost
  BY <1>1, PortAssumption
     DEF Init, RequestOpen, RequestClosed, MainLeaves, OnlyLost
<1> QED BY <1>2, <1>3, <1>4 DEF IInv

LEMMA RequestPreserves ==
  ASSUME IInv, NEW t \in Task, Request(t)
  PROVE  IInv'
<1> USE DEF Request
<1>0. current # NoTask /\ t # NoTask
  BY PortAssumption
<1>1. PortTypeOK'
  BY <1>0, RequestNames DEF IInv, PortTypeOK
<1>2. OwnFrames'
  BY DEF IInv, OwnFrames
<1>3. RequestOpen'
  BY <1>0, RequestNames DEF RequestOpen, Holder
<1>4. RequestClosed' /\ MainLeaves' /\ OnlyLost'
  BY DEF IInv, RequestClosed, MainLeaves, OnlyLost
<1> QED BY <1>1, <1>2, <1>3, <1>4 DEF IInv

LEMMA SVCPreserves ==
  ASSUME IInv, SVC
  PROVE  IInv'
<1>1. ~flag /\ current = first /\ main = "starting"
  BY ThreadModeSettled DEF IInv, SVC, RequestClosed
<1>2. /\ first \in Task /\ saved[first] \in Context
      /\ saved[first].owner = first \/ saved[first] = NoFrame
  BY <1>1 DEF IInv, PortTypeOK, OwnFrames
<1>3. PortTypeOK'
  BY <1>1, <1>2 DEF IInv, PortTypeOK, SVC, slots
<1>4. OwnFrames' /\ RequestOpen'
  BY <1>1 DEF IInv, OwnFrames, RequestOpen, SVC, slots
<1>5. RequestClosed' /\ MainLeaves' /\ OnlyLost'
  BY <1>1, <1>2, PortAssumption
     DEF RequestClosed, MainLeaves, OnlyLost, Holder, NoFrame, SVC, slots
<1> QED BY <1>3, <1>4, <1>5 DEF IInv

LEMMA SwapPreserves ==
  ASSUME IInv, PendSVSwap
  PROVE  IInv'
<1>1. CASE ~flag
  BY <1>1 DEF IInv, PendSVSwap, PortTypeOK, OwnFrames, RequestOpen, RequestClosed,
              MainLeaves, OnlyLost, Holder
<1>2. CASE flag
  <2>1. /\ saved' = [saved EXCEPT ![prevSlot] = Pushed]
        /\ cpu' = saved'[nextSlot]
        /\ main' = "tasks"
        /\ flag' = FALSE
        /\ UNCHANGED <<current, prevSlot, nextSlot, pended, depth, first>>
        /\ pendsv' = "exit"
    BY <1>2, SwapNames DEF PendSVSwap
  <2>2. saved' \in [Task -> Context] /\ OwnFrames'
    BY <1>2, <2>1, SwapNames DEF IInv, PortTypeOK, OwnFrames
  <2>3. /\ cpu' \in Context /\ current \in Task
        /\ cpu'.owner = current \/ (current = first /\ cpu' = NoFrame)
    BY <1>2, <2>1, <2>2, SwapNames DEF OwnFrames
  <2>4. main # "init"
    BY <1>2 DEF IInv, RequestOpen
  <2>5. PortTypeOK'
    BY <2>1, <2>2, <2>3, <2>4 DEF IInv, PortTypeOK
  <2>6. RequestOpen' /\ RequestClosed' /\ MainLeaves' /\ OnlyLost'
    BY <2>1, <2>3, PortAssumption
       DEF RequestOpen, RequestClosed, MainLeaves, OnlyLost, Holder, NoFrame
  <2> QED BY <2>2, <2>5, <2>6 DEF IInv
<1> QED BY <1>1, <1>2

LEMMA WorkPreserves ==
  ASSUME IInv, Work
  PROVE  IInv'
<1>1. /\ cpu.at \in 0 .. MaxWork - 1 /\ cpu.owner \in Task \cup {Main, NoTask}
      /\ cpu \in Context
  BY PortAssumption DEF IInv, PortTypeOK, Work, Running, Context, Position
<1>a. cpu.owner # NoTask
  BY RunningIsCurrent, PortAssumption DEF Work
<1>2. cpu'.owner = cpu.owner /\ cpu' \in Context
  <2>1. cpu' = [cpu EXCEPT !.at = @ + 1] /\ cpu.at + 1 \in 0 .. MaxWork
    BY <1>1, PortAssumption DEF Work
  <2> QED BY <1>1, <2>1 DEF Context, Position
<1>3. PortTypeOK'
  BY <1>2 DEF IInv, PortTypeOK, Work, slots
<1>4. OwnFrames' /\ RequestOpen' /\ RequestClosed' /\ MainLeaves' /\ OnlyLost'
  BY <1>a, <1>2 DEF IInv, OwnFrames, RequestOpen, RequestClosed, MainLeaves, OnlyLost,
                    Holder, Work, slots
<1> QED BY <1>3, <1>4 DEF IInv

LEMMA CreatePreserves ==
  ASSUME IInv, NEW t \in Task, Create(t)
  PROVE  IInv'
<1>1. Fresh(t) \in Context /\ Fresh(t).owner = t
  BY PortAssumption DEF Fresh, Context, Position
<1>2. PortTypeOK' /\ OwnFrames'
  BY <1>1 DEF IInv, PortTypeOK, OwnFrames, Create, slots
<1>3. RequestOpen' /\ RequestClosed' /\ MainLeaves' /\ OnlyLost'
  BY DEF IInv, RequestOpen, RequestClosed, MainLeaves, OnlyLost, Holder, Create, slots
<1> QED BY <1>2, <1>3 DEF IInv

LEMMA StepIInv == IInv /\ [Next]_vars => IInv'
<1> SUFFICES ASSUME IInv, [Next]_vars PROVE IInv'
  OBVIOUS
<1> USE DEF IInv, PortTypeOK, OwnFrames, RequestOpen, RequestClosed, MainLeaves,
            OnlyLost, Holder
<1>1. CASE SVC
  BY <1>1, SVCPreserves
<1>2. CASE HandlerEnter
  BY <1>2, PortAssumption DEF HandlerEnter, slots
<1>3. CASE HandlerReturn
  BY <1>3, PortAssumption DEF HandlerReturn, slots
<1>4. CASE PendSVEnter
  BY <1>4 DEF PendSVEnter, slots
<1>5. CASE PendSVSwap
  BY <1>5, SwapPreserves
<1>6. CASE PendSVReturn
  BY <1>6 DEF PendSVReturn, slots
<1>7. CASE Work
  BY <1>7, WorkPreserves
<1>8. CASE Halted \/ UNCHANGED vars
  BY <1>8 DEF Halted, vars, slots
<1>9. ASSUME NEW t \in Task, SchedStart(t) PROVE IInv'
  <2>1. cpu.owner = Main /\ current = NoTask /\ ~flag
    BY <1>9 DEF SchedStart
  <2> QED BY <1>9, <2>1, PortAssumption DEF SchedStart, Chosen, slots
<1>10. ASSUME NEW t \in Task, TaskRequest(t) \/ HandlerRequest(t) PROVE IInv'
  BY <1>10, RequestPreserves DEF TaskRequest, HandlerRequest
<1>11. ASSUME NEW t \in Task, Create(t) PROVE IInv'
  BY <1>11, CreatePreserves
<1> QED BY <1>1, <1>2, <1>3, <1>4, <1>5, <1>6, <1>7, <1>8, <1>9, <1>10, <1>11 DEF Next

(* The invariant of the context switch holds in every reachable state.     *)
THEOREM SpecIInv == Spec => []IInv
BY InitIInv, StepIInv, PTL DEF Spec

(* The variables of the port keep their types.                             *)
THEOREM PortTypeCorrect == Spec => []PortTypeOK
<1>1. IInv => PortTypeOK
  BY DEF IInv
<1> QED BY <1>1, SpecIInv, PTL

(* However requests and handlers nest, each task's stack pointer leads to  *)
(* a frame of that task, except that of the first task after a switch has  *)
(* overtaken its start.                                                    *)
THEOREM FramesOwned == Spec => []OwnFrames
<1>1. IInv => OwnFrames
  BY DEF IInv
<1> QED BY <1>1, SpecIInv, PTL

-----------------------------------------------------------------------------
(* The steps of the port as steps of the processor.                        *)

At == [t \in Task |-> IF Holder = t THEN cpu.at ELSE saved[t].at]
Early == flag /\ cpu.owner = Main

LEMMA InitRefined == Init => Refined!Init
<1> SUFFICES ASSUME Init PROVE Refined!Init
  OBVIOUS
<1>1. cpu.owner = Main /\ cpu.owner \notin Task
  BY PortAssumption DEF Init, Fresh
<1>a. Holder = Main
  BY <1>1, PortAssumption DEF Init, Fresh, Holder
<1>2. At = [t \in Task |-> 0]
  BY <1>1, <1>a DEF Init, Fresh, At
<1>3. Early = FALSE
  BY DEF Init, Early
<1> QED BY <1>1, <1>a, <1>2, <1>3 DEF Init, Refined!Init, At, Early

LEMMA SVCRefined ==
  ASSUME IInv, SVC
  PROVE  Refined!Start
<1>1. ~flag /\ current = first /\ main = "starting" /\ cpu.owner = Main
  BY ThreadModeSettled DEF IInv, PortTypeOK, Context, SVC, RequestClosed, MainLeaves
<1>2. /\ first \in Task /\ current # NoTask
      /\ saved[first].owner = first \/ saved[first].owner = NoTask
  BY <1>1 DEF IInv, PortTypeOK, OwnFrames, NoFrame
<1>3. cpu' = saved[first] /\ UNCHANGED <<current, first, flag, saved>>
  BY DEF SVC, slots
<1>4. Holder = Main /\ Holder' = first
  BY <1>1, <1>2, <1>3, PortAssumption DEF Holder
<1>5. At' = At
  BY <1>1, <1>2, <1>3, <1>4, PortAssumption DEF At
<1>6. ~Early /\ ~Early'
  BY <1>1, <1>3 DEF Early
<1> QED BY <1>1, <1>2, <1>3, <1>4, <1>5, <1>6 DEF Refined!Start, At, Early

LEMMA RequestRefined ==
  ASSUME IInv, NEW t \in Task, Request(t)
  PROVE  Refined!Want(t)
<1>1. Holder' = Holder /\ At' = At
  BY DEF Request, Holder, At
<1>2. first \in Task /\ (cpu.owner = Main <=> Holder = Main)
  BY PortAssumption DEF IInv, PortTypeOK, Request, Holder
<1>3. Early' = (Holder = Main)
  BY <1>2 DEF Request, Early
<1> QED BY <1>1, <1>3 DEF Request, Refined!Want, At, Early

LEMMA EarlySwapRefined ==
  ASSUME IInv, PendSVSwap, flag, cpu.owner = Main
  PROVE  Refined!Start
<1>1. /\ prevSlot = first /\ first \in Task /\ nextSlot = current
      /\ current \in Task /\ current # NoTask /\ Pushed.at = Lost
  BY SwapNames, PortAssumption DEF Pushed, NoFrame
<1>2. /\ saved' = [saved EXCEPT ![first] = Pushed]
      /\ cpu' = saved'[current]
      /\ UNCHANGED <<current, first>>
      /\ ~flag'
  BY <1>1, SwapNames DEF PendSVSwap
<1>3. saved \in [Task -> Context]
  BY DEF IInv, PortTypeOK
<1>4. OwnFrames'
  BY SwapPreserves DEF IInv
<1>5. Holder = Main /\ Holder' = current
  BY <1>1, <1>2, <1>4, PortAssumption DEF OwnFrames, Holder, NoFrame
<1>6. At' = [At EXCEPT ![first] = Lost]
  <2>1. At' = [t \in Task |-> saved'[t].at]
    BY <1>1, <1>2, <1>5 DEF At
  <2>2. At = [t \in Task |-> saved[t].at]
    BY <1>5, PortAssumption DEF At
  <2> QED BY <1>1, <1>2, <1>3, <2>1, <2>2
<1>7. Early /\ ~Early'
  BY <1>2 DEF Early
<1> QED BY <1>1, <1>2, <1>5, <1>6, <1>7 DEF Refined!Start, At, Early

LEMMA SwapRefined ==
  ASSUME IInv, PendSVSwap, flag, cpu.owner # Main
  PROVE  Refined!Follow
<1>1. /\ prevSlot = Holder /\ Holder \in Task /\ nextSlot = current
      /\ current \in Task /\ current # NoTask /\ Pushed = cpu
  BY SwapNames, PortAssumption DEF Pushed
<1>2. /\ saved' = [saved EXCEPT ![Holder] = cpu]
      /\ cpu' = saved'[current]
      /\ UNCHANGED <<current, first>>
      /\ ~flag'
  BY <1>1, SwapNames DEF PendSVSwap
<1>3. saved \in [Task -> Context]
  BY DEF IInv, PortTypeOK
<1>4. OwnFrames'
  BY SwapPreserves DEF IInv
<1>5. Holder # Main /\ Holder' = current
  BY <1>1, <1>2, <1>4, PortAssumption DEF OwnFrames, Holder, NoFrame
<1>6. At' = At
  <2>1. At' = [t \in Task |-> saved'[t].at]
    BY <1>1, <1>2, <1>5 DEF At
  <2> QED BY <1>1, <1>2, <1>3, <2>1 DEF At
<1>7. ~Early /\ ~Early'
  BY <1>2 DEF Early
<1> QED BY <1>1, <1>2, <1>5, <1>6, <1>7 DEF Refined!Follow, At, Early

LEMMA WorkRefined ==
  ASSUME IInv, Work
  PROVE  Refined!Work
<1>1. ~flag /\ cpu.owner = current /\ current \in Task
  BY RunningIsCurrent DEF Work
<1>2. cpu \in Context /\ cpu.at \in 0 .. MaxWork - 1
  BY PortAssumption DEF IInv, PortTypeOK, Work, Running, Context, Position
<1>3. /\ cpu' = [cpu EXCEPT !.at = @ + 1]
      /\ UNCHANGED <<current, first, flag, saved>>
  BY DEF Work, slots
<1>4. cpu'.at = cpu.at + 1 /\ Holder = current /\ Holder' = current
  BY <1>1, <1>2, <1>3, PortAssumption DEF Context, Holder
<1>5. At' = [At EXCEPT ![current] = @ + 1] /\ At[current] = cpu.at
  BY <1>1, <1>3, <1>4 DEF At
<1>6. Early' = Early
  BY <1>1, <1>3 DEF Early
<1> QED BY <1>1, <1>2, <1>3, <1>4, <1>5, <1>6 DEF Refined!Work, At, Early

LEMMA CreateRefined ==
  ASSUME IInv, NEW t \in Task, Create(t)
  PROVE  Refined!Renew(t)
<1>1. cpu.owner = current /\ t # cpu.owner
  BY RunningIsCurrent DEF Create
<1>2. saved \in [Task -> Context]
  BY DEF IInv, PortTypeOK
<1>3. saved' = [saved EXCEPT ![t] = Fresh(t)] /\ UNCHANGED <<cpu, current, first, flag>>
  BY DEF Create, slots
<1>4. Holder = current /\ Holder' = current
  BY <1>1, <1>3, RunningIsCurrent, PortAssumption DEF Create, Holder
<1>5. At' = [At EXCEPT ![t] = 0]
  BY <1>1, <1>2, <1>3, <1>4 DEF At, Fresh
<1>6. Early' = Early
  BY <1>3 DEF Early
<1> QED BY <1>1, <1>3, <1>4, <1>5, <1>6 DEF Refined!Renew, At, Early

LEMMA StepRefined == IInv /\ [Next]_vars => [Refined!Next]_(Refined!vars)
<1> SUFFICES ASSUME IInv, [Next]_vars PROVE [Refined!Next]_(Refined!vars)
  OBVIOUS
<1>a. UNCHANGED <<cpu, current, first, flag, saved>> => UNCHANGED Refined!vars
  BY DEF Refined!vars, Holder
<1>1. CASE SVC
  BY <1>1, SVCRefined DEF Refined!Next
<1>2. CASE HandlerEnter \/ HandlerReturn \/ PendSVEnter \/ PendSVReturn
  BY <1>2, <1>a DEF HandlerEnter, HandlerReturn, PendSVEnter, PendSVReturn, slots
<1>3. CASE PendSVSwap
  <2>1. CASE ~flag
    <3>1. UNCHANGED <<cpu, current, first, saved>> /\ flag' = FALSE
      BY <1>3, <2>1 DEF PendSVSwap
    <3>2. flag = FALSE
      BY <2>1 DEF IInv, PortTypeOK
    <3> QED BY <3>1, <3>2, <1>a
  <2>2. CASE flag
    BY <1>3, <2>2, EarlySwapRefined, SwapRefined DEF Refined!Next
  <2> QED BY <2>1, <2>2
<1>4. CASE Work
  BY <1>4, WorkRefined DEF Refined!Next
<1>5. CASE Halted \/ UNCHANGED vars
  BY <1>5, <1>a DEF Halted, vars, slots
<1>6. ASSUME NEW t \in Task, SchedStart(t) PROVE Refined!Next
  <2>1. current = NoTask
    BY <1>6 DEF IInv, PortTypeOK, SchedStart
  <2>2. cpu.owner = Main /\ main = "init"
    BY <1>6 DEF IInv, PortTypeOK, MainLeaves, SchedStart
  <2>3. Holder = Main /\ Holder' = Main
    BY <1>6, <2>2, PortAssumption DEF SchedStart, Holder
  <2>4. Refined!Choose(t)
    BY <1>6, <2>1, <2>3, PortAssumption
       DEF SchedStart, Chosen, slots, Refined!Choose
  <2> QED BY <2>4 DEF Refined!Next
<1>7. ASSUME NEW t \in Task, TaskRequest(t) \/ HandlerRequest(t) PROVE Refined!Next
  BY <1>7, RequestRefined DEF TaskRequest, HandlerRequest, Refined!Next
<1>8. ASSUME NEW t \in Task, Create(t) PROVE Refined!Next
  BY <1>8, CreateRefined DEF Refined!Next
<1> QED BY <1>1, <1>2, <1>3, <1>4, <1>5, <1>6, <1>7, <1>8 DEF Next

(* The port implements the processor of the scheduler: a task runs only    *)
(* while it is current and continues where it was interrupted, except for  *)
(* the first one if a switch overtakes its start.                          *)
THEOREM PortIsProcessor == Spec => IsProcessor
BY InitRefined, StepRefined, SpecIInv, PTL DEF Spec, IsProcessor, Refined!Spec
=============================================================================
