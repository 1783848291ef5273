------------------------------- MODULE Queue --------------------------------
(***************************************************************************)
(* queue.c: a message queue between the tasks of module Kernel and         *)
(* interrupt handlers.  A function checks the validity of the queue, then  *)
(* enters its critical section: the labels "send", "receive", "reset" and  *)
(* "delete" of call are the points in between.  A task that waited looks   *)
(* at its message from label "sendWait" or "receiveWait", and tries again  *)
(* with what is left of its waiting time.                                  *)
(*                                                                         *)
(* The specification implements module Channel.                            *)
(***************************************************************************)
EXTENDS Ipc

CONSTANTS
  SendIpc,     \* queue->send_ipc
  ReceiveIpc,  \* queue->receive_ipc
  Capacity,    \* the capacity given to yr_queue_init
  Item,        \* the items that are sent
  NoItem,      \* what a slot holds before it is written
  QueueCalls   \* which queue functions each task calls

ASSUME QueueAssumption ==
  /\ {SendIpc, ReceiveIpc} \subseteq Ipc
  /\ SendIpc # ReceiveIpc
  /\ Capacity \in Nat \ {0}
  /\ NoItem \notin Item
  /\ \A u \in User : QueueCalls[u] \subseteq {"send", "receive", "reset", "delete"}

VARIABLES
  buffer,   \* the slots of queue->buffer
  head,     \* queue->head
  tail,     \* queue->tail
  items,    \* queue->item_count
  valid,    \* send_ipc.is_valid and receive_ipc.is_valid
  item,     \* the item a task is sending
  remain,   \* wait_ticks of a task's call
  since,    \* ticks since its start_ticks, or NotStarted
  budget,   \* ticks until its whole waiting time is over (no variable of
            \* the code)
  ret       \* the result of the send or receive that is decided in this
            \* step, if any, with the item it is about

ringVars  == <<buffer, head, tail, items>>
waitVars  == <<item, remain, since, budget>>
queueVars == <<ringVars, valid, waitVars, ret>>
allVars   == <<vars, ipcVars, queueVars>>

NotStarted == -1

Slots == 0 .. Capacity - 1

(* capacity is reset by yr_queue_delete.                                   *)
Room == IF valid THEN Capacity ELSE 0

(* Faulty variant for mutation tests.                                      *)
HasRoomForOneMore == items <= Room

HasRoom == items < Room

Senders   == sched.lists[SendIpc]
Receivers == sched.lists[ReceiveIpc]

(* An interrupt handler is no task.                                        *)
NoResult == [of |-> "none", to |-> NoTask, ok |-> FALSE, item |-> NoItem]
Result ==
  {NoResult} \cup
  [of : {"send", "receive"}, to : User \cup {NoTask}, ok : BOOLEAN,
   item : Item \cup {NoItem}]

(* The call of function f by t ends: with YR_OK for the item i, or with an *)
(* error.                                                                  *)
Done(f, t, i) == ret' = [of |-> f, to |-> t, ok |-> TRUE, item |-> i]
Failed(f, t)  == ret' = [of |-> f, to |-> t, ok |-> FALSE, item |-> NoItem]
Silent        == ret' = NoResult

QueueInit ==
  /\ Init
  /\ SendIpc \in prioIpc <=> ReceiveIpc \in prioIpc
  /\ call = [t \in Task |-> "none"]
  /\ isr = "off"
  /\ buffer = [k \in Slots |-> NoItem]
  /\ head = 0
  /\ tail = 0
  /\ items = 0
  /\ valid = TRUE
  /\ item = [t \in Task |-> NoItem]
  /\ remain = [t \in Task |-> 0]
  /\ since = [t \in Task |-> NotStarted]
  /\ budget = [t \in Task |-> 0]
  /\ ret = NoResult

-----------------------------------------------------------------------------
(* Faulty variants for mutation tests.                                     *)

ResetForgetsHead ==
  /\ tail' = 0
  /\ items' = 0
  /\ UNCHANGED <<buffer, head>>

IsrResumeForgotten(i) == UNCHANGED <<vars, isr>>

RecountTwice(t) ==
  IF remain[t] = Forever THEN UNCHANGED <<remain, since>>
  ELSE /\ remain' = [remain EXCEPT ![t] = @ - since[t]]
       /\ UNCHANGED since

-----------------------------------------------------------------------------
(* The ring buffer *)

(* A position at most Capacity beyond the end, around the end.             *)
Around(k) == IF k >= Capacity THEN k - Capacity ELSE k

Advance(k) == Around(k + 1)

(* __queue_write_item for a send by t.                                     *)
WriteItem(i, t) ==
  /\ Done("send", t, i)
  /\ buffer' = [buffer EXCEPT ![tail] = i]
  /\ tail' = Advance(tail)
  /\ items' = items + 1
  /\ UNCHANGED head

(* __queue_read_item for a receive by t, which gets the item at head.  The *)
(* slot keeps its bytes.                                                   *)
ReadItem(t) ==
  /\ Done("receive", t, buffer[head])
  /\ head' = Advance(head)
  /\ items' = items - 1
  /\ UNCHANGED <<buffer, tail>>

(* __queue_reset *)
ResetRing ==
  /\ head' = 0
  /\ tail' = 0
  /\ items' = 0
  /\ UNCHANGED buffer

-----------------------------------------------------------------------------
(* The task functions *)

(* The call of t ends.                                                     *)
Return(t) ==
  /\ GotoCall(t, "none")
  /\ item' = [item EXCEPT ![t] = NoItem]
  /\ remain' = [remain EXCEPT ![t] = 0]
  /\ since' = [since EXCEPT ![t] = NotStarted]
  /\ budget' = [budget EXCEPT ![t] = 0]

(* yr_queue_send(i, n), yr_queue_receive(n), yr_queue_reset and            *)
(* yr_queue_delete up to the critical section.                             *)
Enter(t, f, i, n) ==
  /\ In(t, "none")
  /\ f \in QueueCalls[t]
  /\ valid
  /\ GotoCall(t, f)
  /\ item' = [item EXCEPT ![t] = i]
  /\ remain' = [remain EXCEPT ![t] = n]
  /\ Silent
  /\ UNCHANGED <<vars, isr, ringVars, valid, since, budget>>

EnterSend(t, i, n) == Enter(t, "send", i, n)
EnterReceive(t, n) == Enter(t, "receive", NoItem, n)
EnterReset(t)      == Enter(t, "reset", NoItem, 0)
EnterDelete(t)     == Enter(t, "delete", NoItem, 0)

(* __queue_resume_one at the end of a send or receive: the first waiter of *)
(* object i, if any, is ready to try again.                                *)
ResumeOne(i, t) ==
  IF sched.lists[i] = <<>> THEN UNCHANGED vars
  ELSE /\ Resume(i)
       /\ Goto(t, IF ResumePreempts(i, t) THEN "switch" ELSE "app")
       /\ UNCHANGED <<current, initPrio, curPrio, mask, slice, holds, prioIpc,
                      tick, arg, idleDone, fault>>

(* The queue cannot serve t: its call of f returns an error, or waits at   *)
(* object i.                                                               *)
WaitOrFail(t, f, i, waits) ==
  /\ UNCHANGED ringVars
  /\ \/ /\ remain[t] = 0
        /\ Return(t)
        /\ Failed(f, t)
        /\ UNCHANGED vars
     \/ /\ remain[t] # 0
        /\ Block(i, t, remain[t])
        /\ Goto(t, "switch")
        /\ GotoCall(t, waits)
        /\ Silent
        /\ IF remain[t] = Forever \/ since[t] # NotStarted
           THEN UNCHANGED <<since, budget>>
           ELSE /\ since' = [since EXCEPT ![t] = 0]
                /\ budget' = [budget EXCEPT ![t] = remain[t]]
        /\ UNCHANGED <<item, remain>>

(* One round of the loop of yr_queue_send.                                 *)
Send(t) ==
  /\ In(t, "send")
  /\ \/ /\ HasRoom
        /\ WriteItem(item[t], t)
        /\ ResumeOne(ReceiveIpc, t)
        /\ Return(t)
     \/ /\ ~HasRoom
        /\ WaitOrFail(t, "send", SendIpc, "sendWait")
  /\ UNCHANGED <<isr, valid>>

(* One round of the loop of yr_queue_receive.                              *)
Receive(t) ==
  /\ In(t, "receive")
  /\ \/ /\ items > 0
        /\ ReadItem(t)
        /\ ResumeOne(SendIpc, t)
        /\ Return(t)
     \/ /\ items = 0
        /\ WaitOrFail(t, "receive", ReceiveIpc, "receiveWait")
  /\ UNCHANGED <<isr, valid>>

Notified(t) == msg[t].notify = "OK"

(* A task that was called finds its waiting time over.                     *)
TooLate(t) == remain[t] # Forever /\ since[t] >= remain[t]

(* The time that is left of the wait, counted from now.                    *)
Recount(t) ==
  IF remain[t] = Forever THEN UNCHANGED <<remain, since>>
  ELSE /\ remain' = [remain EXCEPT ![t] = @ - since[t]]
       /\ since' = [since EXCEPT ![t] = 0]

(* The end of a round that waited: an error, or another round.             *)
Woken(t) ==
  /\ \E f \in {"send", "receive"} :
       /\ In(t, IF f = "send" THEN "sendWait" ELSE "receiveWait")
       /\ \/ /\ ~Notified(t) \/ TooLate(t)
             /\ Return(t)
             /\ Failed(f, t)
          \/ /\ Notified(t)
             /\ ~TooLate(t)
             /\ Recount(t)
             /\ GotoCall(t, f)
             /\ Silent
             /\ UNCHANGED <<item, budget>>
  /\ UNCHANGED <<vars, isr, ringVars, valid>>

(* yr_queue_reset *)
Reset(t) ==
  /\ In(t, "reset")
  /\ Return(t)
  /\ Silent
  /\ IF Senders = <<>> /\ Receivers = <<>> THEN ResetRing
     ELSE UNCHANGED ringVars
  /\ UNCHANGED <<vars, isr, valid>>

(* yr_queue_delete *)
DeleteQueue(t) ==
  LET q == Senders \o Receivers IN
  /\ In(t, "delete")
  /\ ResumeAll(q)
  /\ Goto(t, IF q = <<>> THEN "app" ELSE "switch")
  /\ ResetRing
  /\ valid' = FALSE
  /\ prioIpc' = prioIpc \ {SendIpc, ReceiveIpc}
  /\ Return(t)
  /\ Silent
  /\ UNCHANGED <<current, initPrio, curPrio, mask, slice, holds, tick, arg,
                 idleDone, fault, isr>>

-----------------------------------------------------------------------------
(* The functions for interrupt handlers *)

IsrResumeOne(i) ==
  IF sched.lists[i] = <<>> THEN UNCHANGED <<vars, isr>>
  ELSE /\ Resume(i)
       /\ isr' = IF ResumePreempts(i, current) THEN "switch" ELSE "off"
       /\ UNCHANGED <<current, initPrio, curPrio, mask, slice, holds, prioIpc,
                      tick, pc, arg, idleDone, fault>>

(* yr_queue_send_from_isr *)
IsrSend(i) ==
  /\ Interrupt
  /\ valid
  /\ \/ /\ HasRoom
        /\ WriteItem(i, NoTask)
        /\ IsrResumeOne(ReceiveIpc)
     \/ /\ ~HasRoom
        /\ Failed("send", NoTask)
        /\ UNCHANGED <<vars, isr, ringVars>>
  /\ UNCHANGED <<call, valid, waitVars>>

(* yr_queue_receive_from_isr *)
IsrReceive ==
  /\ Interrupt
  /\ valid
  /\ \/ /\ items > 0
        /\ ReadItem(NoTask)
        /\ IsrResumeOne(SendIpc)
     \/ /\ items = 0
        /\ Failed("receive", NoTask)
        /\ UNCHANGED <<vars, isr, ringVars>>
  /\ UNCHANGED <<call, valid, waitVars>>

-----------------------------------------------------------------------------
QueueStep(t) ==
  \/ \E n \in {Forever} \cup 0 .. MaxWait :
       EnterReceive(t, n) \/ \E i \in Item : EnterSend(t, i, n)
  \/ EnterReset(t)
  \/ EnterDelete(t)
  \/ Send(t)
  \/ Receive(t)
  \/ Woken(t)
  \/ Reset(t)
  \/ DeleteQueue(t)

(* Ticks since the start of a wait are of no interest beyond the longest   *)
(* wait.  A task that is created anew starts without a call.               *)
Aged(t) ==
  LET ticks == IF tick = "off" /\ tick' # "off" THEN 1 ELSE 0 IN
  IF call'[t] = "none" THEN NotStarted
  ELSE IF since[t] = NotStarted THEN NotStarted
  ELSE Min({since[t] + ticks, MaxWait})

Spent(t) ==
  LET ticks == IF tick = "off" /\ tick' # "off" THEN 1 ELSE 0 IN
  IF call'[t] = "none" THEN 0 ELSE Max({budget[t] - ticks, 0})

QueueKernelStep ==
  /\ KernelStep \/ IsrSwitch
  /\ item' = [t \in Task |-> IF call'[t] = "none" THEN NoItem ELSE item[t]]
  /\ remain' = [t \in Task |-> IF call'[t] = "none" THEN 0 ELSE remain[t]]
  /\ since' = [t \in Task |-> Aged(t)]
  /\ budget' = [t \in Task |-> Spent(t)]
  /\ Silent
  /\ UNCHANGED <<ringVars, valid>>

QueueNext ==
  \/ QueueKernelStep
  \/ \E t \in User : QueueStep(t)
  \/ \E i \in Item : IsrSend(i)
  \/ IsrReceive

QueueSpec == QueueInit /\ [][QueueNext]_allVars

-----------------------------------------------------------------------------
(* Properties *)

QueueTypeOK ==
  /\ TypeOK
  /\ prioIpc \subseteq Ipc
  /\ call \in [Task -> {"none", "send", "receive", "reset", "delete", "sendWait",
                       "receiveWait"}]
  /\ isr \in {"off", "switch"}
  /\ buffer \in [Slots -> Item \cup {NoItem}]
  /\ head \in Slots
  /\ tail \in Slots
  /\ items \in 0 .. Capacity
  /\ valid \in BOOLEAN
  /\ item \in [Task -> Item \cup {NoItem}]
  /\ remain \in [Task -> {Forever} \cup 0 .. MaxWait]
  /\ since \in [Task -> {NotStarted} \cup 0 .. MaxWait]
  /\ budget \in [Task -> 0 .. MaxWait]
  /\ ret \in Result

(* The items from head on, around the end of the buffer.                   *)
Contents == [k \in 1 .. items |-> buffer[Around(head + k - 1)]]

(* The write position follows the last item, and no slot is read that was  *)
(* not written since it was last read.                                     *)
RingOK ==
  /\ tail = Around(head + items)
  /\ \A k \in 1 .. items : Contents[k] \in Item

(* Clients that are on the way back from their wait.                       *)
Back ==
  {t \in User : /\ call[t] \in {"sendWait", "receiveWait"}
                /\ t \notin Range(Senders) \cup Range(Receivers)}

Abstract == INSTANCE Channel
  WITH Client <- User, Outsider <- NoTask, contents <- Contents, open <- valid,
       senders <- Range(Senders), receivers <- Range(Receivers),
       called <- {t \in Back : Notified(t)},
       late <- {t \in Back : ~Notified(t)}

(* The queue is a bounded FIFO channel: items are neither lost, duplicated *)
(* nor reordered, a receive that returns success has the oldest item, a    *)
(* send that returns success has put its item in, an error leaves the      *)
(* queue as it is; and each item or slot that becomes available calls one  *)
(* of the tasks that wait for it, however tasks, handlers, timeouts, reset *)
(* and deletion interleave.                                                *)
IsChannel == Abstract!Spec

(* Tasks that are going to look for an item, or for a slot, before they    *)
(* wait again.                                                             *)
Coming(f, waits) == {t \in User : call[t] = f \/ (call[t] = waits /\ Notified(t))}

(* Tasks wait for items or slots that nobody is on the way to take.        *)
ReceiversStall ==
  Receivers # <<>> /\ items > Cardinality(Coming("receive", "receiveWait"))

SendersStall ==
  Senders # <<>> /\ Room - items > Cardinality(Coming("send", "sendWait"))

Stall == ReceiversStall \/ SendersStall

(* Task t gives up although it was called: the call is spent on it.        *)
GivesUp(t) == Woken(t) /\ Notified(t) /\ TooLate(t)

(* Tasks are left waiting beside an item or a slot only when a task that   *)
(* was called for it finds its own waiting time over; whoever else takes   *)
(* the item first has found it without waiting.                            *)
StallsOnlyByGivingUp ==
  [][Stall' => Stall \/ \E t \in User : GivesUp(t)]_allVars

(* A round of the loop never shortens the wait: an error for lack of time  *)
(* comes only after wait_ticks ticks from the first time the task blocked. *)
NeverEarly ==
  [][\A t \in User :
       /\ Woken(t)
       /\ call'[t] = "none"
       /\ msg[t].notify \in {"OK", "TIMEOUT"}
       => budget[t] = 0]_allVars
=============================================================================
