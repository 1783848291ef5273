---------------------------- MODULE Queue_proofs ----------------------------
(***************************************************************************)
(* A message queue, for any capacity, any items and any number of tasks    *)
(* and interrupt handlers: its ring buffer is a first-in first-out         *)
(* sequence (RInv), its state is of its type (QueueInv), it implements     *)
(* module Channel (WaitInv), it serves its waiters in order, it cuts no    *)
(* wait short (BudgetInv) and leaves nobody waiting beside what he waits   *)
(* for (StallInv).                                                         *)
(***************************************************************************)
EXTENDS Queue, Ipc_proofs, FiniteSetTheorems

RingType ==
  /\ buffer \in [Slots -> Item \cup {NoItem}]
  /\ head \in Slots
  /\ tail \in Slots
  /\ items \in 0 .. Capacity

(* A task that is about to send has an item to send.                       *)
Sending ==
  /\ call \in [Task -> {"none", "send", "receive", "reset", "delete", "sendWait",
                        "receiveWait"}]
  /\ item \in [Task -> Item \cup {NoItem}]
  /\ \A t \in Task : call[t] \in {"send", "sendWait"} => item[t] \in Item

RInv == RingType /\ Sending /\ RingOK

LEMMA RingInit == QueueInit => RInv
<1> SUFFICES ASSUME QueueInit PROVE RInv
  OBVIOUS
<1> USE QueueAssumption DEF QueueInit
<1>1. RingType
  BY DEF RingType, Slots
<1>2. Sending
  BY DEF Sending
<1>3. RingOK
  BY DEF RingOK, Around, Contents
<1> QED BY <1>1, <1>2, <1>3 DEF RInv

LEMMA SequenceOfLength ==
  ASSUME NEW S, NEW n \in Nat, NEW f \in [1 .. n -> S]
  PROVE  f \in Seq(S) /\ Len(f) = n
<1>1. f \in Seq(S)
  OBVIOUS
<1>2. Len(f) \in Nat /\ DOMAIN f = 1 .. Len(f) /\ DOMAIN f = 1 .. n
  BY <1>1, LenProperties
<1> QED BY <1>1, <1>2

LEMMA AppendIs ==
  ASSUME NEW S, NEW s \in Seq(S), NEW e \in S
  PROVE  Append(s, e) = [k \in 1 .. Len(s) + 1 |-> IF k <= Len(s) THEN s[k] ELSE e]
<1> DEFINE f == [k \in 1 .. Len(s) + 1 |-> IF k <= Len(s) THEN s[k] ELSE e]
<1>1. Len(s) + 1 \in Nat /\ f \in [1 .. Len(s) + 1 -> S]
  BY LenProperties
<1>2. f \in Seq(S) /\ Len(f) = Len(s) + 1
  BY <1>1, SequenceOfLength
<1>3. /\ Append(s, e) \in Seq(S)
      /\ Len(Append(s, e)) = Len(s) + 1
      /\ \A k \in 1 .. Len(s) : Append(s, e)[k] = s[k]
      /\ Append(s, e)[Len(s) + 1] = e
  BY AppendProperties
<1>4. \A k \in 1 .. Len(s) + 1 : f[k] = Append(s, e)[k]
  BY <1>3, LenProperties
<1> HIDE DEF f
<1>5. f = Append(s, e)
  BY <1>2, <1>3, <1>4, SeqEqual
<1> QED BY <1>5 DEF f

LEMMA TailIs ==
  ASSUME NEW S, NEW s \in Seq(S), s # <<>>
  PROVE  Tail(s) = [k \in 1 .. Len(s) - 1 |-> s[k + 1]]
<1> DEFINE f == [k \in 1 .. Len(s) - 1 |-> s[k + 1]]
<1>1. Len(s) - 1 \in Nat
  BY LenProperties, EmptySeq
<1>2. f \in [1 .. Len(s) - 1 -> S]
  BY <1>1, LenProperties
<1>3. f \in Seq(S) /\ Len(f) = Len(s) - 1
  BY <1>1, <1>2, SequenceOfLength
<1>4. /\ Tail(s) \in Seq(S)
      /\ Len(Tail(s)) = Len(s) - 1
      /\ \A k \in 1 .. Len(Tail(s)) : Tail(s)[k] = s[k + 1]
  BY HeadTailProperties
<1>5. \A k \in 1 .. Len(f) : f[k] = Tail(s)[k]
  BY <1>3, <1>4
<1> HIDE DEF f
<1>6. f = Tail(s)
  BY <1>3, <1>4, <1>5, SeqEqual
<1> QED BY <1>6 DEF f

LEMMA ContentsSeq ==
  ASSUME RingType, RingOK
  PROVE  Contents \in Seq(Item) /\ Len(Contents) = items
<1>1. items \in Nat
  BY QueueAssumption DEF RingType
<1>2. Contents \in [1 .. items -> Item]
  BY DEF Contents, RingOK
<1> QED BY <1>1, <1>2, SequenceOfLength

(* Writing appends an item.                                                *)
LEMMA WriteAppends ==
  ASSUME RingType, RingOK, items < Capacity, NEW i \in Item, NEW t,
         WriteItem(i, t)
  PROVE  /\ RingType'
         /\ RingOK'
         /\ Contents' = Append(Contents, i)
<1> USE QueueAssumption
<1>1. /\ buffer' = [buffer EXCEPT ![tail] = i]
      /\ tail' = Around(tail + 1)
      /\ items' = items + 1
      /\ head' = head
  BY DEF WriteItem, Advance
<1>2. RingType'
  BY <1>1 DEF RingType, Slots, Around
<1>3. tail = Around(head + items) /\ tail' = Around(head' + items')
  BY <1>1 DEF RingType, RingOK, Slots, Around
<1>4. \A k \in 1 .. items : Around(head + k - 1) \in Slots \ {tail}
  BY <1>3 DEF RingType, Slots, Around
<1>5. \A k \in 1 .. items : buffer'[Around(head + k - 1)] = buffer[Around(head + k - 1)]
  BY <1>1, <1>4 DEF RingType
<1>6. buffer'[Around(head + items)] = i
  BY <1>1, <1>3 DEF RingType
<1>7. Contents' = [k \in 1 .. items + 1 |-> buffer'[Around(head + k - 1)]]
  BY <1>1 DEF Contents, Around
<1>8. Contents' = [k \in 1 .. items + 1 |-> IF k <= items THEN Contents[k] ELSE i]
  <2>1. ASSUME NEW k \in 1 .. items + 1
        PROVE  buffer'[Around(head + k - 1)] = IF k <= items THEN Contents[k] ELSE i
    <3>1. CASE k \in 1 .. items
      BY <1>5, <3>1 DEF Contents, RingType
    <3>2. CASE k = items + 1
      <4>1. head + k - 1 = head + items /\ ~(k <= items)
        BY <3>2 DEF RingType, Slots
      <4> QED BY <1>6, <4>1
    <3> QED BY <3>1, <3>2 DEF RingType
  <2> QED BY <1>7, <2>1
<1>9. Contents \in Seq(Item) /\ Len(Contents) = items
  BY ContentsSeq
<1>10. Contents' = Append(Contents, i)
  BY <1>8, <1>9, AppendIs
<1>11. RingOK'
  BY <1>1, <1>3, <1>8 DEF RingOK, RingType
<1> QED BY <1>2, <1>10, <1>11

(* Reading takes the oldest item away.                                     *)
LEMMA ReadTakesFirst ==
  ASSUME RingType, RingOK, items > 0, NEW t, ReadItem(t)
  PROVE  /\ RingType'
         /\ RingOK'
         /\ Contents' = Tail(Contents) /\ Head(Contents) = buffer[head]
<1> USE QueueAssumption
<1>1. /\ head' = Around(head + 1)
      /\ items' = items - 1
      /\ buffer' = buffer
      /\ tail' = tail
  BY DEF ReadItem, Advance
<1>2. RingType'
  BY <1>1 DEF RingType, Slots, Around
<1>3. tail' = Around(head' + items')
  BY <1>1 DEF RingType, RingOK, Slots, Around
<1>4. \A k \in 1 .. items - 1 : Around(head' + k - 1) = Around(head + k)
  BY <1>1 DEF RingType, Slots, Around
<1>5. Contents' = [k \in 1 .. items - 1 |-> buffer[Around(head' + k - 1)]]
  BY <1>1 DEF Contents, Around
<1>6. Contents' = [k \in 1 .. items - 1 |-> Contents[k + 1]]
  <2>1. ASSUME NEW k \in 1 .. items - 1
        PROVE  buffer[Around(head' + k - 1)] = Contents[k + 1]
    <3>1. k + 1 \in 1 .. items /\ head + (k + 1) - 1 = head + k
      BY DEF RingType, Slots
    <3> QED BY <1>4, <3>1 DEF Contents
  <2> QED BY <1>5, <2>1
<1>7. Contents \in Seq(Item) /\ Len(Contents) = items
  BY ContentsSeq
<1>8. Contents' = Tail(Contents)
  <2>1. Contents # <<>>
    BY <1>7, EmptySeq DEF RingType
  <2> QED BY <1>6, <1>7, <2>1, TailIs
<1>9. RingOK'
  BY <1>1, <1>3, <1>6 DEF RingOK, RingType
<1>10. Head(Contents) = buffer[head]
  <2>1. Contents # <<>> /\ 1 \in 1 .. items /\ head + 1 - 1 = head /\ Around(head) = head
    BY <1>7, EmptySeq DEF RingType, Slots, Around
  <2>2. Contents[1] = buffer[head]
    BY <2>1 DEF Contents
  <2> QED BY <1>7, <2>1, <2>2, HeadTailProperties
<1> QED BY <1>2, <1>8, <1>9, <1>10

(* Resetting empties the ring.                                             *)
LEMMA ResetEmpties ==
  ASSUME RingType, ResetRing
  PROVE  RingType' /\ RingOK' /\ Contents' = <<>>
<1> USE QueueAssumption
<1>1. head' = 0 /\ tail' = 0 /\ items' = 0 /\ buffer' = buffer
  BY DEF ResetRing
<1>2. RingType'
  BY <1>1 DEF RingType, Slots
<1>3. Contents' = <<>>
  BY <1>1 DEF Contents
<1>4. RingOK'
  BY <1>1 DEF RingOK, Around
<1> QED BY <1>2, <1>3, <1>4

LEMMA RingUnchanged ==
  ASSUME RingType, RingOK, UNCHANGED ringVars
  PROVE  RingType' /\ RingOK' /\ Contents' = Contents
BY DEF RingType, RingOK, ringVars, Contents, Around, Slots

-----------------------------------------------------------------------------
(* What a step may do to the contents of the queue.                        *)
FifoStep ==
  \/ Contents' = Contents
  \/ Len(Contents) < Capacity /\ \E i \in Item : Contents' = Append(Contents, i)
  \/ Contents # <<>> /\ Contents' = Tail(Contents)
  \/ Contents' = <<>>

RingGood == RingType' /\ RingOK' /\ FifoStep

LEMMA GoodUnchanged ==
  ASSUME RInv, UNCHANGED ringVars
  PROVE  RingGood
BY RingUnchanged DEF RInv, RingGood, FifoStep

LEMMA GoodReset ==
  ASSUME RInv, ResetRing
  PROVE  RingGood
BY ResetEmpties DEF RInv, RingGood, FifoStep

LEMMA GoodWrite ==
  ASSUME RInv, HasRoom, NEW i \in Item, NEW t, WriteItem(i, t)
  PROVE  RingGood
<1>1. items < Capacity
  BY QueueAssumption DEF HasRoom, Room, RInv, RingType
<1>2. Len(Contents) < Capacity
  BY <1>1, ContentsSeq DEF RInv
<1> QED BY <1>1, <1>2, WriteAppends DEF RInv, RingGood, FifoStep

LEMMA GoodRead ==
  ASSUME RInv, items > 0, NEW t, ReadItem(t)
  PROVE  RingGood
<1>1. Contents # <<>>
  BY ContentsSeq, EmptySeq DEF RInv, RingType
<1> QED BY <1>1, ReadTakesFirst DEF RInv, RingGood, FifoStep

(* A step of a queue function keeps the item of a task that sends.         *)
LEMMA ReturnSending ==
  ASSUME Sending, NEW t \in Task, Return(t)
  PROVE  Sending'
BY DEF Sending, Return, GotoCall

LEMMA GotoSending ==
  ASSUME Sending, NEW t \in Task, item' = item,
         NEW c \in {"send", "receive", "sendWait", "receiveWait"}, GotoCall(t, c),
         c \in {"send", "sendWait"} => call[t] \in {"send", "sendWait"}
  PROVE  Sending'
BY DEF Sending, GotoCall

LEMMA EnterStep ==
  ASSUME RInv, NEW t \in User, NEW f, NEW i \in Item \cup {NoItem}, NEW n,
         Enter(t, f, i, n), f = "send" => i \in Item
  PROVE  Sending' /\ RingGood
<1>1. t \in Task /\ f \in {"send", "receive", "reset", "delete"}
  BY QueueAssumption DEF Enter, Task
<1>2. call' = [call EXCEPT ![t] = f] /\ item' = [item EXCEPT ![t] = i]
  BY DEF Enter, GotoCall
<1>3. Sending'
  BY <1>1, <1>2 DEF RInv, Sending
<1>4. RingGood
  BY GoodUnchanged DEF Enter
<1> QED BY <1>3, <1>4

LEMMA WaitOrFailStep ==
  ASSUME RInv, NEW t \in Task, NEW i, NEW c \in {"sendWait", "receiveWait"},
         c = "sendWait" => call[t] = "send", NEW f, WaitOrFail(t, f, i, c)
  PROVE  Sending' /\ RingGood
<1>1. RingGood
  BY GoodUnchanged DEF WaitOrFail
<1>2. CASE Return(t)
  BY <1>1, <1>2, ReturnSending DEF RInv
<1>3. CASE GotoCall(t, c) /\ item' = item
  BY <1>1, <1>3, GotoSending DEF RInv
<1> QED BY <1>1, <1>2, <1>3 DEF WaitOrFail

LEMMA QueueStepGood ==
  ASSUME RInv, NEW t \in User, QueueStep(t)
  PROVE  Sending' /\ RingGood
<1>0. t \in Task
  BY DEF Task
<1>1. ASSUME NEW n, NEW i \in Item, EnterSend(t, i, n) PROVE Sending' /\ RingGood
  BY <1>1, EnterStep DEF EnterSend
<1>2. ASSUME NEW n, EnterReceive(t, n) PROVE Sending' /\ RingGood
  BY <1>2, EnterStep DEF EnterReceive
<1>3. CASE EnterReset(t) \/ EnterDelete(t)
  BY <1>3, EnterStep DEF EnterReset, EnterDelete
<1>4. CASE Send(t)
  <2>1. call[t] = "send" /\ item[t] \in Item
    BY <1>0, <1>4 DEF Send, In, RInv, Sending
  <2>2. CASE HasRoom /\ WriteItem(item[t], t) /\ Return(t)
    BY <1>0, <2>1, <2>2, GoodWrite, ReturnSending DEF RInv
  <2>3. CASE WaitOrFail(t, "send", SendIpc, "sendWait")
    BY <1>0, <2>1, <2>3, WaitOrFailStep
  <2> QED BY <1>4, <2>2, <2>3 DEF Send
<1>5. CASE Receive(t)
  <2>1. CASE items > 0 /\ ReadItem(t) /\ Return(t)
    BY <1>0, <2>1, GoodRead, ReturnSending DEF RInv
  <2>2. CASE WaitOrFail(t, "receive", ReceiveIpc, "receiveWait")
    BY <1>0, <2>2, WaitOrFailStep
  <2> QED BY <1>5, <2>1, <2>2 DEF Receive
<1>6. CASE Woken(t)
  <2>1. UNCHANGED ringVars
    BY <1>6 DEF Woken
  <2>2. RingGood
    BY <2>1, GoodUnchanged
  <2>3. CASE Return(t)
    BY <1>0, <2>2, <2>3, ReturnSending DEF RInv
  <2>4. ASSUME NEW f \in {"send", "receive"}, GotoCall(t, f), item' = item,
               call[t] = IF f = "send" THEN "sendWait" ELSE "receiveWait"
        PROVE  Sending'
    BY <1>0, <2>4, GotoSending DEF RInv
  <2> QED BY <1>6, <2>2, <2>3, <2>4 DEF Woken, In
<1>7. CASE Reset(t)
  BY <1>0, <1>7, GoodReset, GoodUnchanged, ReturnSending DEF Reset, RInv
<1>8. CASE DeleteQueue(t)
  BY <1>0, <1>8, GoodReset, ReturnSending DEF DeleteQueue, RInv
<1> QED BY <1>1, <1>2, <1>3, <1>4, <1>5, <1>6, <1>7, <1>8 DEF QueueStep

LEMMA KernelStepGood ==
  ASSUME RInv, QueueKernelStep
  PROVE  Sending' /\ RingGood
<1>1. RingGood
  BY GoodUnchanged DEF QueueKernelStep
<1>2. call' = Restarted \/ call' = call
  BY DEF QueueKernelStep, KernelStep, IsrSwitch
<1>3. /\ call' \in [Task -> {"none", "send", "receive", "reset", "delete", "sendWait",
                            "receiveWait"}]
      /\ \A t \in Task : call'[t] \in {"none", call[t]}
  BY <1>2 DEF RInv, Sending, Restarted
<1>4. item' = [t \in Task |-> IF call'[t] = "none" THEN NoItem ELSE item[t]]
  BY DEF QueueKernelStep
<1>5. Sending'
  BY <1>3, <1>4 DEF RInv, Sending
<1> QED BY <1>1, <1>5

LEMMA IsrStepGood ==
  ASSUME RInv, IsrReceive \/ \E i \in Item : IsrSend(i)
  PROVE  Sending' /\ RingGood
<1>1. UNCHANGED <<call, item>>
  BY DEF IsrReceive, IsrSend, waitVars
<1>2. Sending'
  BY <1>1 DEF RInv, Sending
<1>3. RingGood
  BY GoodRead, GoodWrite, GoodUnchanged DEF IsrReceive, IsrSend
<1> QED BY <1>2, <1>3

LEMMA QueueStepRing == RInv /\ [QueueNext]_allVars => RInv' /\ FifoStep
<1> SUFFICES ASSUME RInv, [QueueNext]_allVars PROVE Sending' /\ RingGood
  BY DEF RInv, RingGood
<1>1. CASE QueueNext
  BY <1>1, KernelStepGood, QueueStepGood, IsrStepGood DEF QueueNext
<1>2. CASE UNCHANGED allVars
  <2>1. UNCHANGED ringVars /\ UNCHANGED <<call, item>>
    BY <1>2 DEF allVars, ipcVars, queueVars, waitVars
  <2> QED BY <2>1, GoodUnchanged DEF RInv, Sending
<1> QED BY <1>1, <1>2

(* The invariant of the ring buffer holds in every reachable state.        *)
THEOREM QueueRing == QueueSpec => []RInv
BY RingInit, QueueStepRing, PTL DEF QueueSpec

(* For any capacity, a slot is read only after it was written, and written *)
(* only after it was read, whichever tasks and handlers call.              *)
THEOREM RingCorrect == QueueSpec => []RingOK
<1>1. RInv => RingOK
  BY DEF RInv
<1> QED BY <1>1, QueueRing, PTL

(* Every step leaves the contents alone, appends one item to fewer than    *)
(* Capacity, takes the oldest away, or drops them all (reset, deletion).   *)
THEOREM FirstInFirstOut == QueueSpec => [][FifoStep]_allVars
<1>1. RInv /\ [QueueNext]_allVars => [FifoStep]_allVars
  BY QueueStepRing
<1> QED BY <1>1, QueueRing, PTL DEF QueueSpec

-----------------------------------------------------------------------------
(* The queue composed with the whole kernel.  A task that waited has       *)
(* counted its ticks from a start, unless it waits forever.                *)

QueueType ==
  /\ prioIpc \subseteq Ipc
  /\ isr \in {"off", "switch"}
  /\ isr = "switch" => tick = "off" /\ current \in Task
  /\ valid \in BOOLEAN

Times == {Forever} \cup 0 .. MaxWait

TimeType ==
  /\ remain \in [Task -> Times]
  /\ since \in [Task -> {NotStarted} \cup 0 .. MaxWait]
  /\ budget \in [Task -> 0 .. MaxWait]

Counting ==
  \A t \in Task : call[t] \in {"sendWait", "receiveWait"} /\ remain[t] # Forever
                    => since[t] # NotStarted

QueueInv == Inv /\ QueueType /\ TimeType /\ Counting /\ RInv

LEMMA QueueFacts ==
  /\ User \subseteq Task /\ NoTask \notin Task
  /\ SendIpc \in Ipc /\ ReceiveIpc \in Ipc /\ SendIpc # ReceiveIpc
  /\ MaxWait \in Nat /\ Forever \notin 0 .. MaxWait
  /\ 0 \in 0 .. MaxWait
BY ConstantFacts, QueueAssumption, WaitAssumption

LEMMA QueueInvInit == QueueInit => QueueInv
<1> SUFFICES ASSUME QueueInit PROVE QueueInv
  OBVIOUS
<1>1. Inv /\ prioIpc \subseteq Ipc
  BY InvInit DEF QueueInit, Init
<1>2. QueueType
  BY <1>1 DEF QueueInit, QueueType
<1>3. TimeType
  BY QueueFacts DEF QueueInit, TimeType, Times
<1>4. Counting
  BY DEF QueueInit, Counting
<1> QED
  BY <1>1, <1>2, <1>3, <1>4, RingInit DEF QueueInv

(* The kernel's part of a step of a queue function.                        *)
LEMMA ResumeOneKeeps ==
  ASSUME Inv, NEW t \in User, NEW at, In(t, at), NEW i \in Ipc, ResumeOne(i, t)
  PROVE  Inv' /\ UNCHANGED <<prioIpc, tick, current>>
<1>1. CASE sched.lists[i] = <<>> /\ UNCHANGED vars
  BY <1>1, FrameKeepsInv DEF vars
<1>2. CASE /\ sched.lists[i] # <<>> /\ Resume(i)
           /\ Goto(t, IF ResumePreempts(i, t) THEN "switch" ELSE "app")
           /\ UNCHANGED <<current, initPrio, curPrio, mask, slice, holds, prioIpc, tick,
                          arg, idleDone, fault>>
  <2>1. PICK label \in {"app", "switch"} :
          label = IF ResumePreempts(i, t) THEN "switch" ELSE "app"
    OBVIOUS
  <2>2. Goto(t, label)
    BY <1>2, <2>1
  <2> QED
    BY <1>2, <2>2, TaskResumes
<1> QED
  BY <1>1, <1>2 DEF ResumeOne

LEMMA WaitOrFailKeeps ==
  ASSUME Inv, TimeType, NEW t \in User, NEW at, In(t, at), NEW i \in Ipc, NEW c,
         NEW f, WaitOrFail(t, f, i, c)
  PROVE  Inv' /\ UNCHANGED <<prioIpc, tick, current>>
<1>1. CASE UNCHANGED vars
  BY <1>1, FrameKeepsInv DEF vars
<1>2. CASE Block(i, t, remain[t]) /\ Goto(t, "switch")
  <2>1. PICK n : n = remain[t]
    OBVIOUS
  <2>2. n # Forever => n \in Int
    BY <2>1, QueueFacts DEF TimeType, Times
  <2>3. Inv'
    BY <1>2, <2>1, <2>2, TaskBlocks
  <2> QED
    BY <1>2, <2>3 DEF Block, BlockFrom
<1> QED
  BY <1>1, <1>2 DEF WaitOrFail

LEMMA IsrResumeOneKeeps ==
  ASSUME Inv, Interrupt, NEW i \in Ipc, IsrResumeOne(i)
  PROVE  /\ Inv' /\ UNCHANGED <<prioIpc, tick, current>>
         /\ isr' \in {"off", "switch"}
         /\ isr' = "switch" => current \in Task
<1>1. CASE sched.lists[i] = <<>> /\ UNCHANGED vars /\ UNCHANGED isr
  BY <1>1, FrameKeepsInv DEF vars, Interrupt
<1>2. CASE /\ sched.lists[i] # <<>> /\ Resume(i)
           /\ isr' = IF ResumePreempts(i, current) THEN "switch" ELSE "off"
           /\ UNCHANGED <<current, initPrio, curPrio, mask, slice, holds, prioIpc, tick,
                          pc, arg, idleDone, fault>>
  <2>1. Inv'
    BY <1>2, HandlerResumes
  <2>2. isr' = "switch" => current \in Task
    BY <1>2 DEF ResumePreempts, Inv, IType, TypeOK
  <2> QED
    BY <1>2, <2>1, <2>2
<1> QED
  BY <1>1, <1>2 DEF IsrResumeOne

(* The waiters of a queue are those of two objects.                        *)
LEMMA BothLists ==
  ASSUME Inv
  PROVE  LET q == Senders \o Receivers IN
         /\ Senders \in Seq(Task) /\ Receivers \in Seq(Task)
         /\ q \in Seq(Task) /\ IsInjective(q)
         /\ \A t : t \in Range(q) <=> t \in Range(Senders) \/ t \in Range(Receivers)
         /\ \A t \in Range(q) : t \in Task /\ status[t] = "BLOCKED"
<1>1. ListsAgree(sched, curPrio) /\ curPrio \in [Task -> Prio] /\ IType
  BY SchedAgrees DEF Inv, IType, TypeOK
<1>2. /\ Senders \in Seq(Task) /\ IsInjective(Senders)
      /\ \A t \in Range(Senders) : t \in Task /\ Waits(t, SendIpc)
  BY <1>1, QueueFacts, BlockedNodes DEF Senders
<1>3. /\ Receivers \in Seq(Task) /\ IsInjective(Receivers)
      /\ \A t \in Range(Receivers) : t \in Task /\ Waits(t, ReceiveIpc)
  BY <1>1, QueueFacts, BlockedNodes DEF Receivers
<1>4. \A t \in Range(Senders) : t \notin Range(Receivers)
  BY <1>2, <1>3, QueueFacts DEF Waits
<1>5. PICK q : q = Senders \o Receivers
  OBVIOUS
<1>6. /\ q \in Seq(Task) /\ IsInjective(q)
      /\ \A t : t \in Range(q) <=> t \in Range(Senders) \/ t \in Range(Receivers)
  BY <1>2, <1>3, <1>4, <1>5, ConcatRange
<1>7. \A t \in Range(q) : t \in Task /\ status[t] = "BLOCKED"
  BY <1>2, <1>3, <1>6 DEF Waits
<1> QED
  BY <1>2, <1>3, <1>5, <1>6, <1>7

LEMMA DeleteQueueKeeps ==
  ASSUME Inv, NEW t \in User, DeleteQueue(t)
  PROVE  Inv' /\ UNCHANGED <<tick, current>>
<1>1. PICK q : q = Senders \o Receivers
  OBVIOUS
<1>2. /\ q \in Seq(Task) /\ IsInjective(q)
      /\ \A u \in Range(q) : u \in Task /\ status[u] = "BLOCKED"
  BY <1>1, BothLists
<1>3. /\ In(t, "delete") /\ ResumeAll(q)
      /\ Goto(t, IF q = <<>> THEN "app" ELSE "switch")
      /\ UNCHANGED <<current, initPrio, curPrio, mask, slice, holds, tick, arg,
                     idleDone, fault>>
  BY <1>1 DEF DeleteQueue
<1>4. PICK label \in {"app", "switch"} : label = IF q = <<>> THEN "app" ELSE "switch"
  OBVIOUS
<1>5. Executes(t) /\ pc[t] = "app" /\ Ready(t) /\ t \in Task
  BY <1>3, CallerReady
<1>6. IType /\ SchedInv /\ status \in [Task -> Status] /\ UNCHANGED curPrio
  BY <1>3 DEF Inv, IType, TypeOK
<1>7. \A u \in Range(q) : status[u] = "BLOCKED"
  BY <1>2
<1>8. /\ SchedInv'
      /\ \A u \in Task : \/ status'[u] = status[u]
                         \/ status[u] = "BLOCKED" /\ status'[u] = "READY"
      /\ sched' \in SchedType /\ status' \in [Task -> Status]
      /\ msg' \in [Task -> MsgType]
      /\ timerList' \in Seq(Task) /\ due' \in Seq(Task) /\ left' \in [Task -> Int]
      /\ UNCHANGED firing
  BY <1>2, <1>3, <1>6, <1>7, ResumeEachKeeps
<1>9. /\ \A u \in Task : status'[u] = "RUNNING" => status[u] = "RUNNING"
      /\ status'[t] = status[t]
  BY <1>5, <1>8 DEF Ready
<1>10. Goto(t, label)
  BY <1>3, <1>4
<1> QED
  BY <1>3, <1>5, <1>8, <1>9, <1>10, TaskKeepsInv

(* The times of the calls.                                                 *)
CallPlaces == {"none", "send", "receive", "reset", "delete", "sendWait", "receiveWait"}

TimeGood == TimeType' /\ Counting'

LEMMA TimesUnchanged ==
  ASSUME TimeType, Counting, UNCHANGED waitVars,
         \A t \in Task : call'[t] \in {"sendWait", "receiveWait"} => call'[t] = call[t]
  PROVE  TimeGood
BY DEF TimeGood, TimeType, Counting, waitVars

LEMMA ReturnTimes ==
  ASSUME TimeType, Counting, call \in [Task -> CallPlaces], NEW t \in Task, Return(t)
  PROVE  TimeGood
<1>1. /\ call' = [call EXCEPT ![t] = "none"]
      /\ remain' = [remain EXCEPT ![t] = 0]
      /\ since' = [since EXCEPT ![t] = NotStarted]
      /\ budget' = [budget EXCEPT ![t] = 0]
  BY DEF Return, GotoCall
<1>2. TimeType'
  BY <1>1, QueueFacts DEF TimeType, Times
<1>3. Counting'
  BY <1>1 DEF Counting, TimeType
<1> QED
  BY <1>2, <1>3 DEF TimeGood

LEMMA EnterTimes ==
  ASSUME TimeType, Counting, call \in [Task -> CallPlaces], NEW t \in Task,
         NEW f \in {"send", "receive", "reset", "delete"}, NEW i, NEW n \in Times,
         Enter(t, f, i, n)
  PROVE  TimeGood
<1>1. /\ call' = [call EXCEPT ![t] = f]
      /\ remain' = [remain EXCEPT ![t] = n]
      /\ UNCHANGED <<since, budget>>
  BY DEF Enter, GotoCall
<1>2. TimeType'
  BY <1>1 DEF TimeType
<1>3. Counting'
  BY <1>1 DEF Counting, TimeType
<1> QED
  BY <1>2, <1>3 DEF TimeGood

LEMMA WaitOrFailTimes ==
  ASSUME TimeType, Counting, call \in [Task -> CallPlaces], NEW t \in Task,
         NEW f, NEW i, NEW c, WaitOrFail(t, f, i, c)
  PROVE  TimeGood
<1>1. CASE Return(t)
  BY <1>1, ReturnTimes
<1>2. CASE /\ GotoCall(t, c) /\ UNCHANGED <<item, remain>>
           /\ IF remain[t] = Forever \/ since[t] # NotStarted
              THEN UNCHANGED <<since, budget>>
              ELSE /\ since' = [since EXCEPT ![t] = 0]
                   /\ budget' = [budget EXCEPT ![t] = remain[t]]
  <2>1. call' = [call EXCEPT ![t] = c] /\ remain' = remain
    BY <1>2 DEF GotoCall
  <2>2. TimeType'
    BY <1>2, QueueFacts DEF TimeType, Times
  <2>3. NotStarted # 0
    BY DEF NotStarted
  <2>4. \A u \in Task : u # t => since'[u] = since[u] /\ call'[u] = call[u]
    BY <1>2, <2>1 DEF TimeType
  <2>5. remain[t] # Forever => since'[t] # NotStarted
    BY <1>2, <2>3 DEF TimeType
  <2>6. Counting'
    BY <2>1, <2>4, <2>5 DEF Counting
  <2> QED
    BY <2>2, <2>6 DEF TimeGood
<1> QED
  BY <1>1, <1>2 DEF WaitOrFail

LEMMA WokenTimes ==
  ASSUME TimeType, Counting, call \in [Task -> CallPlaces], NEW t \in Task, Woken(t)
  PROVE  TimeGood
<1>1. CASE Return(t)
  BY <1>1, ReturnTimes
<1>2. ASSUME NEW f \in {"send", "receive"},
             call[t] = IF f = "send" THEN "sendWait" ELSE "receiveWait",
             ~TooLate(t), Recount(t), GotoCall(t, f), UNCHANGED <<item, budget>>
      PROVE  TimeGood
  <2>1. call' = [call EXCEPT ![t] = f]
    BY <1>2 DEF GotoCall
  <2>2. remain' \in [Task -> Times] /\ since' \in [Task -> {NotStarted} \cup 0 .. MaxWait]
    <3>1. CASE remain[t] = Forever
      BY <1>2, <3>1 DEF Recount, TimeType
    <3>2. CASE remain[t] # Forever
      <4>1. /\ remain' = [remain EXCEPT ![t] = remain[t] - since[t]]
            /\ since' = [since EXCEPT ![t] = 0]
        BY <1>2, <3>2 DEF Recount, TimeType
      <4>2. remain[t] \in 0 .. MaxWait /\ since[t] \in 0 .. MaxWait /\ since[t] < remain[t]
        BY <1>2, <3>2, QueueFacts DEF TimeType, Times, Counting, TooLate, NotStarted
      <4>3. remain[t] - since[t] \in 0 .. MaxWait
        BY <4>2, QueueFacts
      <4> QED
        BY <4>1, <4>3, QueueFacts DEF TimeType, Times
    <3> QED
      BY <3>1, <3>2
  <2>3. TimeType'
    BY <1>2, <2>2 DEF TimeType
  <2>4. \A u \in Task : u # t => /\ since'[u] = since[u] /\ remain'[u] = remain[u]
                                 /\ call'[u] = call[u]
    BY <1>2, <2>1 DEF Recount, TimeType
  <2>5. call'[t] \notin {"sendWait", "receiveWait"}
    BY <2>1
  <2>6. Counting'
    BY <2>4, <2>5 DEF Counting
  <2> QED
    BY <2>3, <2>6 DEF TimeGood
<1> QED
  BY <1>1, <1>2 DEF Woken, In

(* What Aged and Spent count stays within the bound.                       *)
LEMMA SmallerOfTwo ==
  ASSUME NEW m \in Nat, NEW n \in Nat
  PROVE  Min({m, n}) \in Nat /\ Min({m, n}) <= n
BY MinProperties

LEMMA LargerOfZero ==
  ASSUME NEW m \in Int
  PROVE  Max({m, 0}) = IF m >= 0 THEN m ELSE 0
<1>1. PICK k \in {m, 0} : \A y \in {m, 0} : k >= y
  <2>1. CASE m >= 0
    BY <2>1
  <2>2. CASE ~(m >= 0)
    BY <2>2
  <2> QED
    BY <2>1, <2>2
<1>2. Max({m, 0}) \in {m, 0} /\ \A y \in {m, 0} : Max({m, 0}) >= y
  BY <1>1 DEF Max
<1>3. PICK x : x = Max({m, 0})
  OBVIOUS
<1>4. x \in {m, 0} /\ x >= m /\ x >= 0
  BY <1>2, <1>3
<1> QED
  BY <1>3, <1>4

LEMMA KernelTimes ==
  ASSUME TimeType, Counting, call \in [Task -> CallPlaces], QueueKernelStep
  PROVE  TimeGood
<1>1. /\ remain' = [t \in Task |-> IF call'[t] = "none" THEN 0 ELSE remain[t]]
      /\ since' = [t \in Task |-> Aged(t)]
      /\ budget' = [t \in Task |-> Spent(t)]
      /\ call' = Restarted \/ call' = call
  BY DEF QueueKernelStep, KernelStep, IsrSwitch
<1>2. \A t \in Task : call'[t] \in {"none", call[t]}
  BY <1>1 DEF Restarted
<1>3. PICK n \in Nat : n = IF tick = "off" /\ tick' # "off" THEN 1 ELSE 0
  OBVIOUS
<1>4. ASSUME NEW t \in Task
      PROVE  /\ Aged(t) \in {NotStarted} \cup 0 .. MaxWait
             /\ call'[t] # "none" /\ since[t] # NotStarted => Aged(t) # NotStarted
  <2>1. CASE call'[t] = "none" \/ since[t] = NotStarted
    BY <2>1 DEF Aged
  <2>2. CASE ~(call'[t] = "none" \/ since[t] = NotStarted)
    <3>1. Aged(t) = Min({since[t] + n, MaxWait})
      BY <2>2, <1>3 DEF Aged
    <3>2. since[t] + n \in Nat /\ MaxWait \in Nat
      BY <2>2, QueueFacts DEF TimeType
    <3>3. Aged(t) \in Nat /\ Aged(t) <= MaxWait
      BY <3>1, <3>2, SmallerOfTwo
    <3> QED
      BY <2>2, <3>2, <3>3 DEF NotStarted
  <2> QED
    BY <2>1, <2>2
<1>5. ASSUME NEW t \in Task PROVE Spent(t) \in 0 .. MaxWait
  <2>1. budget[t] \in 0 .. MaxWait
    BY DEF TimeType
  <2>2. PICK m \in Int : m = budget[t] - n
    BY <2>1, QueueFacts
  <2>3. Spent(t) = IF call'[t] = "none" THEN 0 ELSE Max({m, 0})
    BY <2>2, <1>3 DEF Spent
  <2> QED
    BY <2>1, <2>2, <2>3, LargerOfZero, QueueFacts
<1>6. TimeType'
  BY <1>1, <1>4, <1>5, QueueFacts DEF TimeType, Times
<1>7. Counting'
  <2> SUFFICES ASSUME NEW t \in Task, call'[t] \in {"sendWait", "receiveWait"},
                      remain'[t] # Forever
               PROVE  since'[t] # NotStarted
    BY DEF Counting
  <2>1. call'[t] = call[t] /\ remain'[t] = remain[t] /\ call'[t] # "none"
    BY <1>1, <1>2
  <2>2. since[t] # NotStarted
    BY <2>1 DEF Counting
  <2> QED
    BY <1>1, <1>4, <2>1, <2>2
<1> QED
  BY <1>6, <1>7 DEF TimeGood

-----------------------------------------------------------------------------
LEMMA QueueInvStep == QueueInv /\ [QueueNext]_allVars => QueueInv'
<1> SUFFICES ASSUME QueueInv, [QueueNext]_allVars PROVE QueueInv'
  OBVIOUS
<1> USE QueueFacts
<1>a. Inv /\ QueueType /\ TimeType /\ Counting /\ RInv /\ call \in [Task -> CallPlaces]
  BY DEF QueueInv, RInv, Sending, CallPlaces
<1>b. RInv'
  BY <1>a, QueueStepRing
<1>c. ASSUME Inv', UNCHANGED <<prioIpc, tick, current, isr, valid>>, TimeGood
      PROVE  QueueInv'
  BY <1>a, <1>b, <1>c DEF QueueInv, QueueType, TimeGood
<1>d. ASSUME UNCHANGED vars PROVE Inv' /\ UNCHANGED <<prioIpc, tick, current>>
  BY <1>a, <1>d, FrameKeepsInv DEF vars
<1>1. ASSUME NEW t \in User, NEW n \in Times, NEW i, NEW f \in {"send", "receive", "reset", "delete"},
             Enter(t, f, i, n)
      PROVE  QueueInv'
  <2>1. UNCHANGED vars /\ UNCHANGED <<isr, valid>>
    BY <1>1 DEF Enter
  <2>2. TimeGood
    BY <1>1, <1>a, EnterTimes
  <2> QED
    BY <2>1, <2>2, <1>c, <1>d
<1>2. ASSUME NEW t \in User, Send(t) PROVE QueueInv'
  <2>1. In(t, "send") /\ UNCHANGED <<isr, valid>>
    BY <1>2 DEF Send
  <2>2. CASE ResumeOne(ReceiveIpc, t) /\ Return(t)
    BY <2>1, <2>2, <1>a, <1>c, ResumeOneKeeps, ReturnTimes
  <2>3. CASE WaitOrFail(t, "send", SendIpc, "sendWait")
    BY <2>1, <2>3, <1>a, <1>c, WaitOrFailKeeps, WaitOrFailTimes
  <2> QED
    BY <1>2, <2>2, <2>3 DEF Send
<1>3. ASSUME NEW t \in User, Receive(t) PROVE QueueInv'
  <2>1. In(t, "receive") /\ UNCHANGED <<isr, valid>>
    BY <1>3 DEF Receive
  <2>2. CASE ResumeOne(SendIpc, t) /\ Return(t)
    BY <2>1, <2>2, <1>a, <1>c, ResumeOneKeeps, ReturnTimes
  <2>3. CASE WaitOrFail(t, "receive", ReceiveIpc, "receiveWait")
    BY <2>1, <2>3, <1>a, <1>c, WaitOrFailKeeps, WaitOrFailTimes
  <2> QED
    BY <1>3, <2>2, <2>3 DEF Receive
<1>4. ASSUME NEW t \in User, Woken(t) PROVE QueueInv'
  <2>1. UNCHANGED vars /\ UNCHANGED <<isr, valid>>
    BY <1>4 DEF Woken
  <2>2. TimeGood
    BY <1>4, <1>a, WokenTimes
  <2> QED
    BY <2>1, <2>2, <1>c, <1>d
<1>5. ASSUME NEW t \in User, Reset(t) PROVE QueueInv'
  <2>1. UNCHANGED vars /\ UNCHANGED <<isr, valid>> /\ Return(t)
    BY <1>5 DEF Reset
  <2> QED
    BY <2>1, <1>a, <1>c, <1>d, ReturnTimes
<1>6. ASSUME NEW t \in User, DeleteQueue(t) PROVE QueueInv'
  <2>1. /\ Inv' /\ UNCHANGED <<tick, current>>
        /\ isr' = isr /\ valid' = FALSE /\ prioIpc' = prioIpc \ {SendIpc, ReceiveIpc}
        /\ Return(t)
    BY <1>6, <1>a, DeleteQueueKeeps DEF DeleteQueue
  <2>2. TimeGood
    BY <2>1, <1>a, ReturnTimes
  <2>3. valid' \in BOOLEAN
    BY <2>1, Zenon
  <2>4. prioIpc' \subseteq Ipc
    BY <2>1, <1>a DEF QueueType
  <2> QED
    BY <2>1, <2>2, <2>3, <2>4, <1>a, <1>b DEF QueueInv, QueueType, TimeGood
<1>7. ASSUME Interrupt, NEW i \in Ipc, IsrResumeOne(i), UNCHANGED <<call, valid, waitVars>>
      PROVE  QueueInv'
  <2>1. /\ Inv' /\ UNCHANGED <<prioIpc, tick, current>>
        /\ isr' \in {"off", "switch"}
        /\ isr' = "switch" => current \in Task
    BY <1>7, <1>a, IsrResumeOneKeeps
  <2>2. TimeGood
    BY <1>7, <1>a, TimesUnchanged
  <2>3. tick = "off"
    BY <1>7 DEF Interrupt
  <2> QED
    BY <1>7, <2>1, <2>2, <2>3, <1>a, <1>b DEF QueueInv, QueueType, TimeGood
<1>e. ASSUME UNCHANGED <<vars, isr>>, UNCHANGED <<call, valid, waitVars>> PROVE QueueInv'
  <2>1. UNCHANGED vars /\ UNCHANGED isr
    BY <1>e
  <2>2. Inv' /\ UNCHANGED <<prioIpc, tick, current>>
    BY <2>1, <1>d
  <2>3. TimeGood
    BY <1>e, <1>a, TimesUnchanged
  <2> QED
    BY <1>e, <2>1, <2>2, <2>3, <1>c
<1>8. ASSUME QueueKernelStep PROVE QueueInv'
  <2>1. TimeGood
    BY <1>8, <1>a, KernelTimes
  <2>2. /\ KernelStep \/ IsrSwitch
        /\ UNCHANGED valid
    BY <1>8 DEF QueueKernelStep
  <2>3. CASE KernelStep
    <3>1. Inv'
      BY <2>3, <1>a, InvStep, KernelStepIsNext
    <3>2. isr = "off" /\ UNCHANGED <<isr, prioIpc>>
      BY <2>3 DEF KernelStep
    <3> QED
      BY <2>1, <2>2, <3>1, <3>2, <1>a, <1>b DEF QueueInv, QueueType, TimeGood
  <2>4. CASE IsrSwitch
    <3>1. isr = "switch" /\ tick = "off" /\ current \in Task /\ UNCHANGED prioIpc
      BY <2>4, <1>a DEF IsrSwitch, QueueType
    <3>2. Inv'
      BY <2>4, <3>1, <1>a, HandlerSwitches
    <3>3. isr' = "off" \/ UNCHANGED <<isr, tick, current>>
      BY <2>4 DEF IsrSwitch, Misdispatch, Crash
    <3> QED
      BY <2>1, <2>2, <3>1, <3>2, <3>3, <1>a, <1>b DEF QueueInv, QueueType, TimeGood
  <2> QED
    BY <2>2, <2>3, <2>4
<1>9. ASSUME UNCHANGED allVars PROVE QueueInv'
  <2>1. UNCHANGED vars /\ UNCHANGED <<call, isr, valid, waitVars>>
    BY <1>9 DEF allVars, ipcVars, queueVars
  <2> QED
    BY <2>1, <1>a, <1>c, <1>d, TimesUnchanged
<1>10. ASSUME NEW t \in User, QueueStep(t) PROVE QueueInv'
  <2>1. 0 \in Times
    BY DEF Times
  <2> QED
    BY <1>1, <1>2, <1>3, <1>4, <1>5, <1>6, <1>10, <2>1
    DEF QueueStep, EnterSend, EnterReceive, EnterReset, EnterDelete, Times
<1>11. ASSUME IsrReceive \/ \E i \in Item : IsrSend(i) PROVE QueueInv'
  <2>1. Interrupt /\ UNCHANGED <<call, valid, waitVars>>
    BY <1>11 DEF IsrSend, IsrReceive
  <2>2. IsrResumeOne(SendIpc) \/ IsrResumeOne(ReceiveIpc) \/ UNCHANGED <<vars, isr>>
    BY <1>11 DEF IsrSend, IsrReceive
  <2> QED
    BY <1>7, <1>e, <2>1, <2>2
<1> QED
  BY <1>8, <1>9, <1>10, <1>11 DEF QueueNext

LEMMA QueueInvHolds == QueueSpec => []QueueInv
BY QueueInvInit, QueueInvStep, PTL DEF QueueSpec

(* A call ends with the item that it was about.                            *)
LEMMA DoneIsResult ==
  ASSUME NEW f \in {"send", "receive"}, NEW t \in User \cup {NoTask},
         NEW i \in Item \cup {NoItem}, Done(f, t, i)
  PROVE  ret' \in Result
BY DEF Done, Result

LEMMA FailedIsResult ==
  ASSUME NEW f \in {"send", "receive"}, NEW t \in User \cup {NoTask}, Failed(f, t)
  PROVE  ret' \in Result
BY DEF Failed, Result

LEMMA ResultStep == RInv /\ ret \in Result /\ [QueueNext]_allVars => (ret \in Result)'
<1> SUFFICES ASSUME RInv, ret \in Result, [QueueNext]_allVars PROVE ret' \in Result
  OBVIOUS
<1>a. ASSUME Silent PROVE ret' \in Result
  BY <1>a DEF Silent, Result
<1>b. ASSUME NEW t \in User \cup {NoTask}, ReadItem(t) PROVE ret' \in Result
  <2>1. buffer[head] \in Item \cup {NoItem}
    BY DEF RInv, RingType
  <2> QED
    BY <1>b, <2>1, DoneIsResult DEF ReadItem
<1>c. ASSUME NEW t \in User \cup {NoTask}, NEW i \in Item \cup {NoItem}, WriteItem(i, t)
      PROVE  ret' \in Result
  BY <1>c, DoneIsResult DEF WriteItem
<1>d. ASSUME NEW t \in User, NEW f \in {"send", "receive"}, NEW i, NEW c,
             WaitOrFail(t, f, i, c)
      PROVE  ret' \in Result
  BY <1>a, <1>d, FailedIsResult DEF WaitOrFail
<1>1. ASSUME NEW t \in User, Send(t) PROVE ret' \in Result
  <2>1. item[t] \in Item \cup {NoItem}
    BY QueueFacts DEF RInv, Sending
  <2> QED
    BY <1>1, <1>c, <1>d, <2>1 DEF Send
<1>2. ASSUME NEW t \in User, Receive(t) PROVE ret' \in Result
  BY <1>2, <1>b, <1>d DEF Receive
<1>3. ASSUME NEW t \in User, Woken(t) PROVE ret' \in Result
  BY <1>3, <1>a, FailedIsResult DEF Woken
<1>4. ASSUME NEW t \in User, NEW f, NEW i, NEW n,
             Reset(t) \/ DeleteQueue(t) \/ Enter(t, f, i, n)
      PROVE  ret' \in Result
  BY <1>4, <1>a DEF Reset, DeleteQueue, Enter
<1>5. ASSUME NEW t \in User, QueueStep(t) PROVE ret' \in Result
  BY <1>1, <1>2, <1>3, <1>4, <1>5
  DEF QueueStep, EnterSend, EnterReceive, EnterReset, EnterDelete
<1>6. ASSUME IsrReceive PROVE ret' \in Result
  BY <1>6, <1>b, FailedIsResult DEF IsrReceive
<1>7. ASSUME NEW i \in Item, IsrSend(i) PROVE ret' \in Result
  BY <1>7, <1>c, FailedIsResult DEF IsrSend
<1>8. ASSUME UNCHANGED allVars PROVE ret' \in Result
  BY <1>8 DEF allVars, queueVars
<1> QED
  BY <1>a, <1>5, <1>6, <1>7, <1>8 DEF QueueNext, QueueKernelStep

(* A queue's positions stay in its buffer and its count within its         *)
(* capacity, a task's place is one the code has, and no round of the loop  *)
(* counts a wait below zero, whatever tasks and handlers do.               *)
THEOREM QueueTypeCorrect == QueueSpec => []QueueTypeOK
<1>1. QueueInv /\ ret \in Result => QueueTypeOK
  BY DEF QueueInv, Inv, IType, QueueType, TimeType, Times, RInv, RingType, Sending,
         QueueTypeOK
<1>2. QueueInit => ret \in Result
  BY DEF QueueInit, Result
<1>3. QueueInv /\ ret \in Result /\ [QueueNext]_allVars => (ret \in Result)'
  BY ResultStep DEF QueueInv
<1> QED
  BY <1>1, <1>2, <1>3, QueueInvHolds, PTL DEF QueueSpec

-----------------------------------------------------------------------------
(* The queue implements module Channel.  What the channel knows of a task  *)
(* is read off its status, message and place.                              *)

Awake(t) == /\ call[t] \in {"sendWait", "receiveWait"}
            /\ ~Waits(t, SendIpc) /\ ~Waits(t, ReceiveIpc)

Called(t) == Awake(t) /\ Notified(t)
Late(t)   == Awake(t) /\ ~Notified(t)

Calling == {t \in Back : Notified(t)}
Lates   == {t \in Back : ~Notified(t)}

(* A task that waits has no answer yet; only a task inside a send or a     *)
(* receive waits.                                                          *)
Settled(t) ==
  /\ status[t] = "BLOCKED" => msg[t].notify = "NONE"
  /\ status[t] = "INIT" => call[t] = "none"
  /\ call[t] # "none" => t \in User
  /\ Waits(t, SendIpc) => call[t] = "sendWait"
  /\ Waits(t, ReceiveIpc) => call[t] = "receiveWait"

WaitInv == \A t \in Task : Settled(t)

(* A step changes nothing the channel knows of task t.                     *)
Same(t) ==
  /\ Waits(t, SendIpc)' <=> Waits(t, SendIpc)
  /\ Waits(t, ReceiveIpc)' <=> Waits(t, ReceiveIpc)
  /\ Called(t)' <=> Called(t)
  /\ Late(t)' <=> Late(t)

LEMMA Apart ==
  ASSUME WaitInv, NEW t \in Task
  PROVE  /\ Waits(t, SendIpc) => ~Waits(t, ReceiveIpc) /\ ~Called(t) /\ t \in User
         /\ Waits(t, ReceiveIpc) => ~Called(t) /\ t \in User
         /\ t \notin User => ~Called(t) /\ ~Late(t)
BY QueueFacts DEF WaitInv, Settled, Waits, Called, Late, Awake, Notified

LEMMA BackIs ==
  ASSUME Inv, Inv'
  PROVE  \A t : /\ t \in Back <=> t \in User /\ Awake(t)
                /\ t \in Back' <=> t \in User /\ Awake(t)'
<1>1. PICK A, B : A = Range(Senders) /\ B = Range(Senders)'
  OBVIOUS
<1>2. PICK C, D : C = Range(Receivers) /\ D = Range(Receivers)'
  OBVIOUS
<1>3. \A t : /\ t \in A <=> t \in Task /\ Waits(t, SendIpc)
             /\ t \in B <=> t \in Task /\ Waits(t, SendIpc)'
  BY ONLY Inv, Inv', QueueFacts, <1>1, WaitersAre DEF Senders
<1>4. \A t : /\ t \in C <=> t \in Task /\ Waits(t, ReceiveIpc)
             /\ t \in D <=> t \in Task /\ Waits(t, ReceiveIpc)'
  BY ONLY Inv, Inv', QueueFacts, <1>2, WaitersAre DEF Receivers
<1>5. ASSUME NEW t PROVE t \in Back <=> t \in User /\ Awake(t)
  <2>1. t \in Back <=> /\ t \in User /\ call[t] \in {"sendWait", "receiveWait"}
                       /\ t \notin A /\ t \notin C
    BY <1>1, <1>2 DEF Back
  <2> QED
    BY <2>1, <1>3, <1>4, QueueFacts DEF Awake
<1>6. ASSUME NEW t PROVE t \in Back' <=> t \in User /\ Awake(t)'
  <2>1. t \in Back' <=> /\ t \in User /\ call'[t] \in {"sendWait", "receiveWait"}
                        /\ t \notin B /\ t \notin D
    BY <1>1, <1>2 DEF Back
  <2> QED
    BY <2>1, <1>3, <1>4, QueueFacts DEF Awake
<1> QED
  BY <1>5, <1>6

LEMMA CallingIs ==
  ASSUME Inv, Inv'
  PROVE  \A t : /\ t \in Calling <=> t \in User /\ Called(t)
                /\ t \in Calling' <=> t \in User /\ Called(t)'
                /\ t \in Lates <=> t \in User /\ Late(t)
                /\ t \in Lates' <=> t \in User /\ Late(t)'
<1>1. \A t : /\ t \in Back <=> t \in User /\ Awake(t)
             /\ t \in Back' <=> t \in User /\ Awake(t)'
  BY BackIs
<1> QED
  BY <1>1 DEF Calling, Lates, Called, Late

LEMMA OneElement ==
  ASSUME NEW T, NEW A, NEW B, NEW u, \A t : t \in A \/ t \in B => t \in T,
         \A t \in T : t # u => (t \in B <=> t \in A)
  PROVE  B = IF u \in B THEN A \cup {u} ELSE A \ {u}
OBVIOUS

(* The waiters and the called, in a step that concerns one task at most.   *)
LEMMA OneWaiterMap ==
  ASSUME Inv, Inv', NEW i \in Ipc, NEW u \in Task,
         \A t \in Task : t # u => (Waits(t, i)' <=> Waits(t, i))
  PROVE  /\ Range(sched'.lists[i]) = IF Waits(u, i)' THEN Range(sched.lists[i]) \cup {u}
                                     ELSE Range(sched.lists[i]) \ {u}
         /\ u \in Range(sched.lists[i]) <=> Waits(u, i)
<1>1. PICK A, B : A = Range(sched.lists[i]) /\ B = Range(sched'.lists[i])
  OBVIOUS
<1>2. \A t : /\ t \in A <=> t \in Task /\ Waits(t, i)
             /\ t \in B <=> t \in Task /\ Waits(t, i)'
  BY ONLY Inv, Inv', i \in Ipc, <1>1, WaitersAre
<1>3. \A t \in Task : t # u => (t \in B <=> t \in A)
  BY <1>2
<1>4. B = IF u \in B THEN A \cup {u} ELSE A \ {u}
  BY <1>2, <1>3, OneElement
<1>5. /\ u \in B <=> Waits(u, i)'
      /\ u \in A <=> Waits(u, i)
  BY <1>2
<1> QED
  BY ONLY <1>1, <1>4, <1>5

LEMMA OneTaskMap ==
  ASSUME Inv, Inv', NEW u \in User, \A t \in Task : t # u => Same(t)
  PROVE  /\ Range(Senders)' = IF Waits(u, SendIpc)' THEN Range(Senders) \cup {u}
                              ELSE Range(Senders) \ {u}
         /\ Range(Receivers)' = IF Waits(u, ReceiveIpc)' THEN Range(Receivers) \cup {u}
                                ELSE Range(Receivers) \ {u}
         /\ Calling' = IF Called(u)' THEN Calling \cup {u} ELSE Calling \ {u}
         /\ Lates' = IF Late(u)' THEN Lates \cup {u} ELSE Lates \ {u}
         /\ u \in Range(Senders) <=> Waits(u, SendIpc)
         /\ u \in Range(Receivers) <=> Waits(u, ReceiveIpc)
         /\ u \in Calling <=> Called(u)
         /\ u \in Lates <=> Late(u)
<1>1. u \in Task
  BY QueueFacts
<1>2. /\ Range(Senders)' = IF Waits(u, SendIpc)' THEN Range(Senders) \cup {u}
                           ELSE Range(Senders) \ {u}
      /\ u \in Range(Senders) <=> Waits(u, SendIpc)
  <2>1. \A t \in Task : t # u => (Waits(t, SendIpc)' <=> Waits(t, SendIpc))
    BY DEF Same
  <2> QED
    BY <1>1, <2>1, QueueFacts, OneWaiterMap DEF Senders
<1>3. /\ Range(Receivers)' = IF Waits(u, ReceiveIpc)' THEN Range(Receivers) \cup {u}
                             ELSE Range(Receivers) \ {u}
      /\ u \in Range(Receivers) <=> Waits(u, ReceiveIpc)
  <2>1. \A t \in Task : t # u => (Waits(t, ReceiveIpc)' <=> Waits(t, ReceiveIpc))
    BY DEF Same
  <2> QED
    BY <1>1, <2>1, QueueFacts, OneWaiterMap DEF Receivers
<1>4. PICK E, F : E = Calling /\ F = Calling'
  OBVIOUS
<1>5. \A t : /\ t \in E <=> t \in User /\ Called(t)
             /\ t \in F <=> t \in User /\ Called(t)'
  BY ONLY Inv, Inv', <1>4, CallingIs
<1>6. \A t \in User : t # u => (t \in F <=> t \in E)
  BY <1>5, QueueFacts DEF Same
<1>7. F = IF u \in F THEN E \cup {u} ELSE E \ {u}
  BY <1>5, <1>6, OneElement
<1>8. /\ u \in F <=> Called(u)'
      /\ u \in E <=> Called(u)
  BY <1>5
<1>9. /\ Calling' = IF Called(u)' THEN Calling \cup {u} ELSE Calling \ {u}
      /\ u \in Calling <=> Called(u)
  BY ONLY <1>4, <1>7, <1>8
<1>10. PICK G, H : G = Lates /\ H = Lates'
  OBVIOUS
<1>11. \A t : /\ t \in G <=> t \in User /\ Late(t)
              /\ t \in H <=> t \in User /\ Late(t)'
  BY ONLY Inv, Inv', <1>10, CallingIs
<1>12. \A t \in User : t # u => (t \in H <=> t \in G)
  BY <1>11, QueueFacts DEF Same
<1>13. H = IF u \in H THEN G \cup {u} ELSE G \ {u}
  BY <1>11, <1>12, OneElement
<1>14. /\ u \in H <=> Late(u)'
       /\ u \in G <=> Late(u)
  BY <1>11
<1>15. /\ Lates' = IF Late(u)' THEN Lates \cup {u} ELSE Lates \ {u}
       /\ u \in Lates <=> Late(u)
  BY ONLY <1>10, <1>13, <1>14
<1> QED
  BY ONLY <1>2, <1>3, <1>9, <1>15

LEMMA NothingMap ==
  ASSUME Inv, Inv', \A t \in Task : Same(t)
  PROVE  UNCHANGED <<Range(Senders), Range(Receivers), Calling, Lates>>
<1>1. PICK A, B : A = Range(Senders) /\ B = Range(Senders)'
  OBVIOUS
<1>2. PICK C, D : C = Range(Receivers) /\ D = Range(Receivers)'
  OBVIOUS
<1>3. PICK E, F : E = Calling /\ F = Calling'
  OBVIOUS
<1>4. \A t : /\ t \in A <=> t \in Task /\ Waits(t, SendIpc)
             /\ t \in B <=> t \in Task /\ Waits(t, SendIpc)'
  BY ONLY Inv, Inv', QueueFacts, <1>1, WaitersAre DEF Senders
<1>5. \A t : /\ t \in C <=> t \in Task /\ Waits(t, ReceiveIpc)
             /\ t \in D <=> t \in Task /\ Waits(t, ReceiveIpc)'
  BY ONLY Inv, Inv', QueueFacts, <1>2, WaitersAre DEF Receivers
<1>6. PICK G, H : G = Lates /\ H = Lates'
  OBVIOUS
<1>7. \A t : /\ t \in E <=> t \in User /\ Called(t)
             /\ t \in F <=> t \in User /\ Called(t)'
             /\ t \in G <=> t \in User /\ Late(t)
             /\ t \in H <=> t \in User /\ Late(t)'
  BY ONLY Inv, Inv', <1>3, <1>6, CallingIs
<1>8. \A t : /\ (t \in B <=> t \in A) /\ (t \in D <=> t \in C)
             /\ (t \in F <=> t \in E) /\ (t \in H <=> t \in G)
  BY <1>4, <1>5, <1>7, QueueFacts DEF Same
<1>9. B = A /\ D = C /\ F = E /\ H = G
  BY ONLY <1>8
<1> QED
  BY ONLY <1>1, <1>2, <1>3, <1>6, <1>9

ChannelStep == [Abstract!Next]_(Abstract!vars)

LEMMA ChannelSame ==
  ASSUME Inv, Inv', \A t \in Task : Same(t), UNCHANGED <<Contents, valid>>
  PROVE  UNCHANGED Abstract!channelVars
BY NothingMap DEF Abstract!channelVars, Calling, Lates

LEMMA ChannelIdle ==
  ASSUME Inv, Inv', \A t \in Task : Same(t), UNCHANGED <<Contents, valid>>, Silent
  PROVE  ChannelStep
<1>1. Abstract!Otherwise
  BY ChannelSame DEF Abstract!Otherwise, Abstract!Silent, Abstract!NoResult, Silent, NoResult
<1> QED
  BY <1>1 DEF ChannelStep, Abstract!Next

(* A wait ends without a call.                                             *)
LEMMA ChannelLeave ==
  ASSUME Inv, Inv', NEW u \in User, \A t \in Task : t # u => Same(t),
         UNCHANGED <<Contents, valid>>, Silent,
         Waits(u, SendIpc) \/ Waits(u, ReceiveIpc), Late(u)'
  PROVE  ChannelStep
<1>1. /\ Range(Senders)' = IF Waits(u, SendIpc)' THEN Range(Senders) \cup {u}
                           ELSE Range(Senders) \ {u}
      /\ Range(Receivers)' = IF Waits(u, ReceiveIpc)' THEN Range(Receivers) \cup {u}
                             ELSE Range(Receivers) \ {u}
      /\ Calling' = IF Called(u)' THEN Calling \cup {u} ELSE Calling \ {u}
      /\ Lates' = IF Late(u)' THEN Lates \cup {u} ELSE Lates \ {u}
      /\ u \in Range(Senders) <=> Waits(u, SendIpc)
      /\ u \in Range(Receivers) <=> Waits(u, ReceiveIpc)
      /\ u \in Calling <=> Called(u)
  BY OneTaskMap
<1>2. ~Waits(u, SendIpc)' /\ ~Waits(u, ReceiveIpc)' /\ ~Called(u)' /\ ~Called(u)
  BY DEF Late, Awake, Called
<1>3. /\ Range(Senders)' = Range(Senders) \ {u}
      /\ Range(Receivers)' = Range(Receivers) \ {u}
      /\ Calling' = Calling /\ Lates' = Lates \cup {u}
      /\ u \in Range(Senders) \/ u \in Range(Receivers)
  BY <1>1, <1>2
<1>4. Abstract!Leave(u)
  BY <1>3 DEF Abstract!Leave, Abstract!Waiting, Calling, Lates, Abstract!Silent,
     Abstract!NoResult, Silent, NoResult
<1> QED
  BY <1>4 DEF ChannelStep, Abstract!Next

(* A client that was back from its wait is no longer.                      *)
LEMMA BackMap ==
  ASSUME Inv, Inv', NEW u \in User, \A t \in Task : t # u => Same(t), Awake(u),
         ~Awake(u)', ~Waits(u, SendIpc)', ~Waits(u, ReceiveIpc)'
  PROVE  /\ UNCHANGED <<Range(Senders), Range(Receivers)>>
         /\ Calling' = Calling \ {u} /\ Lates' = Lates \ {u}
         /\ u \in Calling \cup Lates
<1>1. /\ Range(Senders)' = IF Waits(u, SendIpc)' THEN Range(Senders) \cup {u}
                           ELSE Range(Senders) \ {u}
      /\ Range(Receivers)' = IF Waits(u, ReceiveIpc)' THEN Range(Receivers) \cup {u}
                             ELSE Range(Receivers) \ {u}
      /\ Calling' = IF Called(u)' THEN Calling \cup {u} ELSE Calling \ {u}
      /\ Lates' = IF Late(u)' THEN Lates \cup {u} ELSE Lates \ {u}
      /\ u \in Range(Senders) <=> Waits(u, SendIpc)
      /\ u \in Range(Receivers) <=> Waits(u, ReceiveIpc)
      /\ u \in Calling <=> Called(u)
      /\ u \in Lates <=> Late(u)
  BY OneTaskMap
<1>2. /\ ~Waits(u, SendIpc) /\ ~Waits(u, ReceiveIpc)
      /\ Called(u) \/ Late(u)
  BY DEF Late, Awake, Called
<1>3. ~Called(u)' /\ ~Late(u)'
  BY DEF Late, Called
<1> QED
  BY <1>1, <1>2, <1>3

LEMMA ChannelResumes ==
  ASSUME Inv, Inv', NEW u \in User, \A t \in Task : t # u => Same(t), Awake(u),
         ~Awake(u)', ~Waits(u, SendIpc)', ~Waits(u, ReceiveIpc)',
         UNCHANGED <<Contents, valid>>, Silent
  PROVE  ChannelStep
<1>1. Abstract!Resumes(u)
  BY BackMap DEF Abstract!Resumes, Calling, Lates, Abstract!Silent, Abstract!NoResult,
     Silent, NoResult
<1> QED
  BY <1>1 DEF ChannelStep, Abstract!Next

(* The kernel's steps: a timeout, the suspension or the deletion of a      *)
(* waiter ends its wait; a task that is created anew is no longer on the   *)
(* way back from one.                                                      *)
LEMMA KernelRefined ==
  ASSUME Inv, Inv', WaitInv, KernelStep, UNCHANGED <<Contents, valid>>, Silent
  PROVE  ChannelStep
<1>1. Inv /\ [Next]_vars /\ User \subseteq Task
  BY KernelStepIsNext, QueueFacts
<1>2. \A t \in Task : call'[t] = IF status'[t] = "INIT" THEN "none" ELSE call[t]
  BY DEF KernelStep, Restarted
<1>3. PICK u \in Task : \A t \in Task \ {u} : Undisturbed(t)
  BY KernelDisturbsOne
<1>4. \A t \in Task : /\ status[t] = "BLOCKED" => msg[t].notify = "NONE"
                      /\ status[t] = "INIT" => call[t] = "none"
                      /\ Waits(t, SendIpc) => call[t] = "sendWait"
                      /\ Waits(t, ReceiveIpc) => call[t] = "receiveWait"
                      /\ call[t] # "none" => t \in User
  BY DEF WaitInv, Settled
<1>5. ASSUME NEW t \in Task, status'[t] = "INIT" PROVE status[t] \in {"INIT", "DELETED"}
  BY <1>5, KernelCreatesDeleted
<1>6. ASSUME NEW t \in Task
      PROVE  /\ Waits(t, SendIpc)' => Waits(t, SendIpc)
             /\ Waits(t, ReceiveIpc)' => Waits(t, ReceiveIpc)
  BY <1>1, KernelBlocksNobody, QueueFacts
<1>7. ASSUME NEW t \in Task, call[t] = "none" PROVE Same(t)
  <2>1. call'[t] = "none"
    BY <1>2, <1>7
  <2> QED
    BY <1>4, <1>6, <1>7, <2>1 DEF Same, Called, Late, Awake
<1>8. ASSUME NEW t \in Task, status'[t] # "INIT", msg'[t] = msg[t],
             status'[t] = "BLOCKED" <=> status[t] = "BLOCKED"
      PROVE  Same(t)
  BY <1>2, <1>8 DEF Same, Called, Late, Awake, Waits, Notified
<1>9. ASSUME NEW w \in User, NEW v \in Task, Create(w, v) PROVE ChannelStep
  <2>1. /\ status[v] = "DELETED"
        /\ status' = [status EXCEPT ![v] = "INIT"] /\ msg' = [msg EXCEPT ![v] = NoMsg]
        /\ status \in [Task -> Status] /\ msg \in [Task -> MsgType]
    BY <1>9 DEF Create, Inv, IType, TypeOK
  <2>2. /\ status'[v] = "INIT" /\ call'[v] = "none"
        /\ \A t \in Task : t # v => status'[t] = status[t] /\ msg'[t] = msg[t]
    BY <2>1, <1>2
  <2>3. ASSUME NEW t \in Task, t # v PROVE Same(t)
    <3>1. CASE status[t] = "INIT"
      BY <1>4, <1>7, <3>1
    <3>2. CASE status[t] # "INIT"
      BY <1>8, <2>2, <2>3, <3>2
    <3> QED
      BY <3>1, <3>2
  <2>4. /\ ~Waits(v, SendIpc) /\ ~Waits(v, ReceiveIpc)
        /\ ~Waits(v, SendIpc)' /\ ~Waits(v, ReceiveIpc)' /\ ~Awake(v)'
    BY <2>1, <2>2 DEF Waits, Awake
  <2>5. CASE Awake(v)
    <3>1. v \in User
      BY <1>4, <2>5 DEF Awake
    <3> QED
      BY <2>3, <2>4, <2>5, <3>1, ChannelResumes
  <2>6. CASE ~Awake(v)
    <3>1. Same(v)
      BY <2>4, <2>6 DEF Same, Called, Late
    <3> QED
      BY <2>3, <3>1, ChannelIdle
  <2> QED
    BY <2>5, <2>6
<1>10. ASSUME \A t \in Task : status'[t] = "INIT" => status[t] = "INIT" PROVE ChannelStep
  <2>1. ASSUME NEW t \in Task, status'[t] = "INIT" PROVE Same(t)
    BY <1>4, <1>7, <1>10, <2>1
  <2>2. ASSUME NEW t \in Task, t # u PROVE Same(t)
    <3>1. msg'[t] = msg[t] /\ (status'[t] = "BLOCKED" <=> status[t] = "BLOCKED")
      BY <1>3, <2>2 DEF Undisturbed
    <3> QED
      BY <1>8, <2>1, <3>1
  <2>3. Told(u)
    BY KernelDisturbsOne
  <2>4. msg'[u].notify = "OK" => msg'[u] = msg[u]
    BY KernelServesNobody
  <2>5. CASE Same(u)
    BY <2>2, <2>5, ChannelIdle
  <2>6. CASE status'[u] = "INIT" \/ call[u] = "none"
    BY <1>7, <2>1, <2>5, <2>6
  <2>7. CASE /\ status'[u] # "INIT" /\ call[u] # "none"
             /\ Waits(u, SendIpc) \/ Waits(u, ReceiveIpc)
             /\ status'[u] # "BLOCKED"
    <3>1. u \in User /\ call'[u] = call[u] /\ call[u] \in {"sendWait", "receiveWait"}
      BY <1>2, <1>4, <2>7
    <3>2. status[u] = "BLOCKED" /\ msg[u].notify = "NONE"
      BY <1>4, <2>7 DEF Waits
    <3>3. Late(u)'
      BY <2>4, <2>7, <3>1, <3>2 DEF Late, Awake, Waits, Notified
    <3> QED
      BY <2>2, <2>7, <3>1, <3>3, ChannelLeave
  <2>8. CASE /\ status'[u] # "INIT" /\ call[u] # "none"
             /\ ~Waits(u, SendIpc) /\ ~Waits(u, ReceiveIpc)
    <3>1. call'[u] = call[u] /\ ~Waits(u, SendIpc)' /\ ~Waits(u, ReceiveIpc)'
      BY <1>2, <1>6, <2>8
    <3>2. Notified(u)' <=> Notified(u)
      <4>1. msg'[u] = msg[u] \/ status[u] = "BLOCKED"
        BY <2>3, <2>8 DEF Told
      <4> QED
        BY <1>4, <2>4, <4>1 DEF Notified
    <3> QED
      BY <2>5, <2>8, <3>1, <3>2 DEF Same, Called, Late, Awake
  <2>9. CASE /\ status'[u] = "BLOCKED" /\ call[u] # "none"
             /\ Waits(u, SendIpc) \/ Waits(u, ReceiveIpc)
    <3>1. status[u] = "BLOCKED"
      BY <2>9 DEF Waits
    <3>2. msg'[u] = msg[u]
      BY <2>3, <2>9 DEF Told
    <3> QED
      BY <1>8, <2>5, <2>9, <3>1, <3>2
  <2> QED
    BY <2>6, <2>7, <2>8, <2>9
<1> QED
  BY <1>5, <1>9, <1>10, KernelCreatesDeleted

LEMMA IsrSwitchRefined ==
  ASSUME Inv, Inv', IsrSwitch, current \in Task, UNCHANGED <<Contents, valid>>, Silent
  PROVE  ChannelStep
<1>1. UNCHANGED call
  BY DEF IsrSwitch
<1>2. CASE Dispatch /\ UNCHANGED msg
  <2>1. \A t \in Task : \/ status'[t] = status[t]
                        \/ {status[t], status'[t]} \subseteq {"READY", "RUNNING"}
    BY <1>2, DispatchTransition
  <2>2. \A t \in Task : Same(t)
    BY <1>1, <1>2, <2>1 DEF Same, Called, Late, Awake, Notified, Waits
  <2> QED
    BY <2>2, ChannelIdle
<1>3. CASE UNCHANGED <<status, msg>>
  <2>1. \A t \in Task : Same(t)
    BY <1>1, <1>3 DEF Same, Called, Late, Awake, Notified, Waits
  <2> QED
    BY <2>1, ChannelIdle
<1> QED
  BY <1>2, <1>3 DEF IsrSwitch, Misdispatch, Crash, taskVars

(* The queue's own steps.  A task that is not waiting may move about.      *)
Moves == \A t \in Task : \/ call'[t] = call[t]
                         \/ /\ call[t] \notin {"sendWait", "receiveWait"}
                            /\ call'[t] \notin {"sendWait", "receiveWait"}

LEMMA QuietSame ==
  ASSUME Moves, UNCHANGED <<status, msg>>
  PROVE  \A t \in Task : Same(t)
BY DEF Moves, Same, Waits, Called, Late, Awake, Notified

(* The first waiter of object i, if there is one, is called.               *)
LEMMA CallsFirst ==
  ASSUME Inv, Inv', WaitInv, Moves, NEW i \in {SendIpc, ReceiveIpc},
         \/ sched.lists[i] = <<>> /\ UNCHANGED <<status, msg>>
         \/ sched.lists[i] # <<>> /\ Resume(i)
  PROVE  /\ i = ReceiveIpc => Abstract!CallReceiver
         /\ i = SendIpc => Abstract!CallSender
         /\ Lates' = Lates
<1>1. i \in Ipc /\ SendIpc # ReceiveIpc
  BY QueueFacts
<1>2. CASE sched.lists[i] = <<>> /\ UNCHANGED <<status, msg>>
  <2>1. UNCHANGED <<Range(Senders), Range(Receivers), Calling, Lates>>
    BY <1>2, QuietSame, NothingMap
  <2>2. Range(sched.lists[i]) = {}
    BY <1>2 DEF Range
  <2> QED
    BY <1>1, <2>1, <2>2
    DEF Abstract!CallReceiver, Abstract!CallSender, Calling, Senders, Receivers
<1>3. CASE sched.lists[i] # <<>> /\ Resume(i)
  <2>1. PICK u \in Task : u = Head(sched.lists[i]) /\ Waits(u, i)
    BY <1>1, <1>3, FirstWaits
  <2>2. /\ status' = [status EXCEPT ![u] = "READY"]
        /\ msg' = [msg EXCEPT ![u] = [NoMsg EXCEPT !.notify = "OK"]]
        /\ status \in [Task -> Status] /\ msg \in [Task -> MsgType]
    BY <1>3, <2>1 DEF Resume, ResumeFrom, Inv, IType, TypeOK
  <2>3. /\ status'[u] = "READY" /\ msg'[u].notify = "OK"
        /\ \A t \in Task : t # u => status'[t] = status[t] /\ msg'[t] = msg[t]
    BY <2>1, <2>2 DEF NoMsg
  <2>4. u \in User /\ call[u] \in {"sendWait", "receiveWait"} /\ call'[u] = call[u]
    BY <2>1, Apart DEF WaitInv, Settled, Moves
  <2>5. \A t \in Task : t # u => Same(t)
    BY <2>3 DEF Moves, Same, Waits, Called, Late, Awake, Notified
  <2>6. /\ ~Waits(u, SendIpc)' /\ ~Waits(u, ReceiveIpc)' /\ Called(u)' /\ ~Late(u)'
        /\ ~Late(u)
    BY <2>1, <2>3, <2>4 DEF Waits, Called, Late, Awake, Notified
  <2>7. /\ Range(Senders)' = Range(Senders) \ {u}
        /\ Range(Receivers)' = Range(Receivers) \ {u}
        /\ Calling' = Calling \cup {u} /\ Lates' = Lates
        /\ u \in Range(Senders) <=> Waits(u, SendIpc)
        /\ u \in Range(Receivers) <=> Waits(u, ReceiveIpc)
    <3>1. /\ Range(Senders)' = IF Waits(u, SendIpc)' THEN Range(Senders) \cup {u}
                               ELSE Range(Senders) \ {u}
          /\ Range(Receivers)' = IF Waits(u, ReceiveIpc)' THEN Range(Receivers) \cup {u}
                                 ELSE Range(Receivers) \ {u}
          /\ Calling' = IF Called(u)' THEN Calling \cup {u} ELSE Calling \ {u}
          /\ Lates' = IF Late(u)' THEN Lates \cup {u} ELSE Lates \ {u}
          /\ u \in Range(Senders) <=> Waits(u, SendIpc)
          /\ u \in Range(Receivers) <=> Waits(u, ReceiveIpc)
          /\ u \in Lates <=> Late(u)
      BY <2>4, <2>5, OneTaskMap
    <3> QED
      BY <2>6, <3>1
  <2>8. CASE i = SendIpc
    <3>1. u \in Range(Senders) /\ u \notin Range(Receivers)
      BY <2>1, <2>7, <2>8, Apart
    <3>2. Abstract!CallSender
      BY <2>7, <3>1 DEF Abstract!CallSender, Calling
    <3> QED
      BY <1>1, <2>7, <2>8, <3>2
  <2>9. CASE i = ReceiveIpc
    <3>1. u \in Range(Receivers) /\ u \notin Range(Senders)
      BY <2>1, <2>7, <2>9, Apart
    <3>2. Abstract!CallReceiver
      BY <2>7, <3>1 DEF Abstract!CallReceiver, Calling
    <3> QED
      BY <1>1, <2>7, <2>9, <3>2
  <2> QED
    BY <2>8, <2>9
<1> QED
  BY <1>2, <1>3

LEMMA PutRefined ==
  ASSUME QueueInv, Inv', WaitInv, Moves, NEW i \in Item, HasRoom,
         NEW c \in User \cup {NoTask}, WriteItem(i, c),
         \/ Receivers = <<>> /\ UNCHANGED <<status, msg>>
         \/ Receivers # <<>> /\ Resume(ReceiveIpc),
         UNCHANGED valid
  PROVE  ChannelStep
<1>1. Inv /\ RingType /\ RingOK /\ valid \in BOOLEAN
  BY DEF QueueInv, RInv, QueueType
<1>2. items < Capacity /\ valid = TRUE
  <2>1. CASE valid = TRUE
    BY <2>1 DEF HasRoom, Room
  <2>2. CASE valid = FALSE
    <3>1. items < 0 /\ items \in 0 .. Capacity
      BY <1>1, <2>2 DEF HasRoom, Room, RingType
    <3> QED
      BY <3>1, QueueAssumption
  <2> QED
    BY <1>1, <2>1, <2>2, Zenon
<1>3. Contents' = Append(Contents, i) /\ Len(Contents) < Capacity
  BY <1>1, <1>2, WriteAppends, ContentsSeq
<1>4. Abstract!CallReceiver /\ Lates' = Lates
  BY <1>1, CallsFirst, QueueFacts DEF Receivers
<1>5. Abstract!Done("send", c, i)
  BY DEF Abstract!Done, WriteItem, Done
<1>6. Abstract!Put(c, i)
  BY <1>2, <1>3, <1>4, <1>5 DEF Abstract!Put, Lates
<1> QED
  BY <1>6 DEF ChannelStep, Abstract!Next, Abstract!Caller

LEMMA GetRefined ==
  ASSUME QueueInv, Inv', WaitInv, Moves, items > 0,
         NEW c \in User \cup {NoTask}, ReadItem(c),
         \/ Senders = <<>> /\ UNCHANGED <<status, msg>>
         \/ Senders # <<>> /\ Resume(SendIpc),
         UNCHANGED valid
  PROVE  ChannelStep
<1>1. Inv /\ RingType /\ RingOK
  BY DEF QueueInv, RInv
<1>2. Contents' = Tail(Contents) /\ Head(Contents) = buffer[head]
  BY <1>1, ReadTakesFirst
<1>3. Contents # <<>>
  BY <1>1, ContentsSeq, EmptySeq DEF RingType
<1>4. Abstract!CallSender /\ Lates' = Lates
  BY <1>1, CallsFirst, QueueFacts DEF Senders
<1>5. Abstract!Done("receive", c, Head(Contents))
  BY <1>2 DEF Abstract!Done, ReadItem, Done
<1>6. Abstract!Get(c)
  BY <1>2, <1>3, <1>4, <1>5 DEF Abstract!Get, Lates
<1> QED
  BY <1>6 DEF ChannelStep, Abstract!Next, Abstract!Caller

(* A caller that does not wait gets an error.                              *)
LEMMA FailRefined ==
  ASSUME QueueInv, Inv', NEW c \in User \cup {NoTask}, NEW f \in {"send", "receive"},
         Failed(f, c), \A u \in Task : Same(u), UNCHANGED ringVars, UNCHANGED valid,
         f = "send" => ~HasRoom,
         f = "receive" => items = 0
  PROVE  ChannelStep
<1>1. Inv /\ RingType /\ RingOK /\ valid \in BOOLEAN
  BY DEF QueueInv, RInv, QueueType
<1>2. UNCHANGED Abstract!channelVars
  BY <1>1, RingUnchanged, ChannelSame
<1>3. Len(Contents) = items /\ Contents \in Seq(Item) /\ items \in 0 .. Capacity
  BY <1>1, ContentsSeq DEF RingType
<1>4. Abstract!Failed(f, c)
  BY DEF Abstract!Failed, Failed
<1>5. CASE f = "send"
  <2>1. valid = TRUE => Len(Contents) = Capacity
    BY <1>3, <1>5, QueueAssumption DEF HasRoom, Room
  <2>2. Abstract!Full
    BY <2>1 DEF Abstract!Full, Calling, Lates
  <2>3. Abstract!SendFails(c)
    BY <1>2, <1>4, <1>5, <2>2 DEF Abstract!SendFails
  <2> QED
    BY <2>3 DEF ChannelStep, Abstract!Next, Abstract!Caller
<1>6. CASE f = "receive"
  <2>1. Contents = <<>>
    BY <1>3, <1>6, EmptySeq
  <2>2. Abstract!ReceiveFails(c)
    BY <1>2, <1>4, <1>6, <2>1 DEF Abstract!ReceiveFails
  <2> QED
    BY <2>2 DEF ChannelStep, Abstract!Next, Abstract!Caller
<1> QED
  BY <1>5, <1>6

(* A task starts to wait.                                                  *)
LEMMA BlockMap ==
  ASSUME QueueInv, Inv', WaitInv, NEW t \in User, NEW i \in {SendIpc, ReceiveIpc},
         NEW at, In(t, at), at \notin {"sendWait", "receiveWait"},
         NEW n, Block(i, t, n),
         GotoCall(t, IF i = SendIpc THEN "sendWait" ELSE "receiveWait")
  PROVE  /\ Calling' = Calling /\ Lates' = Lates
         /\ t \notin Range(Senders) \cup Range(Receivers) \cup Calling \cup Lates
         /\ i = SendIpc => /\ Range(Senders)' = Range(Senders) \cup {t}
                           /\ Range(Receivers)' = Range(Receivers)
         /\ i = ReceiveIpc => /\ Range(Senders)' = Range(Senders)
                              /\ Range(Receivers)' = Range(Receivers) \cup {t}
<1> DEFINE m == [source |-> i, reason |-> "IPC", notify |-> "NONE"]
           c == IF i = SendIpc THEN "sendWait" ELSE "receiveWait"
<1>1. /\ t \in Task /\ Ready(t) /\ call[t] = at /\ Inv
      /\ status \in [Task -> Status] /\ msg \in [Task -> MsgType]
      /\ call \in [Task -> CallPlaces]
  BY CallerReady DEF QueueInv, Inv, IType, TypeOK, RInv, Sending, CallPlaces
<1>2. /\ status' = [status EXCEPT ![t] = "BLOCKED"] /\ msg' = [msg EXCEPT ![t] = m]
      /\ call' = [call EXCEPT ![t] = c]
  BY DEF Block, BlockFrom, GotoCall
<1>3. m.source = i /\ m.reason = "IPC" /\ m.notify = "NONE"
  OBVIOUS
<1> HIDE DEF m, c
<1>4. /\ status'[t] = "BLOCKED" /\ msg'[t] = m
      /\ \A u \in Task : u # t => /\ status'[u] = status[u] /\ msg'[u] = msg[u]
                                  /\ call'[u] = call[u]
  BY <1>1, <1>2
<1>5. \A u \in Task : u # t => Same(u)
  BY <1>4 DEF Same, Waits, Called, Late, Awake, Notified
<1>6. /\ ~Waits(t, SendIpc) /\ ~Waits(t, ReceiveIpc) /\ ~Called(t) /\ ~Late(t)
      /\ Waits(t, SendIpc)' <=> i = SendIpc
      /\ Waits(t, ReceiveIpc)' <=> i = ReceiveIpc
      /\ ~Called(t)' /\ ~Late(t)'
  BY <1>1, <1>3, <1>4 DEF Waits, Called, Late, Awake, Notified, Ready
<1>7. /\ Range(Senders)' = IF Waits(t, SendIpc)' THEN Range(Senders) \cup {t}
                           ELSE Range(Senders) \ {t}
      /\ Range(Receivers)' = IF Waits(t, ReceiveIpc)' THEN Range(Receivers) \cup {t}
                             ELSE Range(Receivers) \ {t}
      /\ Calling' = IF Called(t)' THEN Calling \cup {t} ELSE Calling \ {t}
      /\ Lates' = IF Late(t)' THEN Lates \cup {t} ELSE Lates \ {t}
      /\ t \in Range(Senders) <=> Waits(t, SendIpc)
      /\ t \in Range(Receivers) <=> Waits(t, ReceiveIpc)
      /\ t \in Calling <=> Called(t)
      /\ t \in Lates <=> Late(t)
  BY <1>1, <1>5, OneTaskMap
<1> QED
  BY <1>6, <1>7, QueueFacts

LEMMA WaitOrFailRefined ==
  ASSUME QueueInv, Inv', WaitInv, NEW t \in User, NEW i \in {SendIpc, ReceiveIpc},
         NEW at, In(t, at), at \notin {"sendWait", "receiveWait"},
         NEW f, f = IF i = SendIpc THEN "send" ELSE "receive",
         WaitOrFail(t, f, i, IF i = SendIpc THEN "sendWait" ELSE "receiveWait"),
         UNCHANGED valid,
         i = SendIpc => ~HasRoom,
         i = ReceiveIpc => items = 0
  PROVE  ChannelStep
<1>1. /\ RingType /\ RingOK /\ Inv /\ valid \in BOOLEAN /\ UNCHANGED ringVars
      /\ t \in Task /\ call[t] = at /\ call \in [Task -> CallPlaces]
  BY CallerReady DEF QueueInv, RInv, QueueType, WaitOrFail, Sending, CallPlaces
<1>2. UNCHANGED <<Contents, valid>>
  BY <1>1, RingUnchanged
<1>3. CASE Return(t) /\ Failed(f, t) /\ UNCHANGED vars
  <2>1. call' = [call EXCEPT ![t] = "none"] /\ UNCHANGED <<status, msg>>
    BY <1>3 DEF Return, GotoCall, vars, taskVars
  <2>2. Moves
    BY <1>1, <2>1 DEF Moves
  <2>3. \A u \in Task : Same(u)
    BY <2>1, <2>2, QuietSame
  <2> QED
    BY <1>1, <1>3, <2>3, FailRefined, QueueFacts
<1>4. CASE /\ Block(i, t, remain[t]) /\ Silent
           /\ GotoCall(t, IF i = SendIpc THEN "sendWait" ELSE "receiveWait")
  <2>0. Abstract!Silent
    BY <1>4 DEF Abstract!Silent, Abstract!NoResult, Silent, NoResult
  <2>1. /\ Calling' = Calling /\ Lates' = Lates
        /\ t \notin Range(Senders) \cup Range(Receivers) \cup Calling \cup Lates
        /\ i = SendIpc => /\ Range(Senders)' = Range(Senders) \cup {t}
                          /\ Range(Receivers)' = Range(Receivers)
        /\ i = ReceiveIpc => /\ Range(Senders)' = Range(Senders)
                             /\ Range(Receivers)' = Range(Receivers) \cup {t}
    BY <1>4, BlockMap
  <2>2. Len(Contents) = items /\ Contents \in Seq(Item) /\ items \in 0 .. Capacity
    BY <1>1, ContentsSeq DEF RingType
  <2>3. CASE i = SendIpc
    <3>1. valid = TRUE => Len(Contents) = Capacity
      BY <2>2, <2>3, QueueAssumption DEF HasRoom, Room
    <3>2. Abstract!Full
      BY <3>1 DEF Abstract!Full, Calling, Lates
    <3>3. Abstract!WaitForSlot(t)
      BY <1>2, <2>0, <2>1, <2>3, <3>2
      DEF Abstract!WaitForSlot, Abstract!Waiting, Calling, Lates
    <3> QED
      BY <3>3 DEF ChannelStep, Abstract!Next
  <2>4. CASE i = ReceiveIpc
    <3>1. Contents = <<>>
      BY <2>2, <2>4, EmptySeq
    <3>2. Abstract!WaitForItem(t)
      BY <1>2, <2>0, <2>1, <2>4, <3>1
      DEF Abstract!WaitForItem, Abstract!Waiting, Calling, Lates
    <3> QED
      BY <3>2 DEF ChannelStep, Abstract!Next
  <2> QED
    BY <2>3, <2>4
<1> QED
  BY <1>3, <1>4 DEF WaitOrFail

LEMMA WokenRefined ==
  ASSUME QueueInv, Inv', WaitInv, NEW t \in User, Woken(t)
  PROVE  ChannelStep
<1>1. /\ RingType /\ RingOK /\ Inv /\ UNCHANGED <<ringVars, valid>>
      /\ UNCHANGED <<status, msg>> /\ call \in [Task -> CallPlaces]
  BY DEF QueueInv, RInv, Woken, vars, taskVars, Sending, CallPlaces
<1>2. PICK next \in {"none", "send", "receive"} : GotoCall(t, next)
  BY DEF Woken, Return
<1>3. PICK at \in {"sendWait", "receiveWait"} : In(t, at)
  BY DEF Woken
<1>4. t \in Task /\ Ready(t) /\ call[t] = at
  BY <1>1, <1>3, CallerReady
<1>5. UNCHANGED <<Contents, valid>>
  BY <1>1, RingUnchanged
<1>6. call'[t] = next /\ \A u \in Task : u # t => call'[u] = call[u]
  BY <1>1, <1>2, <1>4 DEF GotoCall
<1>7. \A u \in Task : u # t => Same(u)
  BY <1>1, <1>6 DEF Same, Waits, Called, Late, Awake, Notified
<1>8. /\ Awake(t) /\ ~Awake(t)'
      /\ ~Waits(t, SendIpc)' /\ ~Waits(t, ReceiveIpc)'
  BY <1>1, <1>4, <1>6 DEF Ready, Waits, Awake
<1>9. CASE \E f \in {"send", "receive"} : Failed(f, t)
  <2>1. \E f \in {"send", "receive"} : Abstract!Failed(f, t)
    BY <1>9 DEF Failed, Abstract!Failed
  <2>2. /\ UNCHANGED <<Range(Senders), Range(Receivers)>>
        /\ Calling' = Calling \ {t} /\ Lates' = Lates \ {t}
        /\ t \in Calling \cup Lates
    BY <1>1, <1>7, <1>8, BackMap
  <2>3. Abstract!GiveUp(t)
    BY <1>5, <2>1, <2>2 DEF Abstract!GiveUp, Calling, Lates
  <2> QED
    BY <2>3 DEF ChannelStep, Abstract!Next
<1>10. CASE Silent
  BY <1>1, <1>5, <1>7, <1>8, <1>10, ChannelResumes
<1> QED
  BY <1>9, <1>10 DEF Woken

LEMMA ResetRefined ==
  ASSUME QueueInv, Inv', WaitInv, NEW t \in User, Reset(t)
  PROVE  ChannelStep
<1>1. /\ RingType /\ RingOK /\ Inv /\ UNCHANGED <<status, msg>> /\ valid' = valid
      /\ call' = [call EXCEPT ![t] = "none"] /\ call \in [Task -> CallPlaces]
      /\ In(t, "reset") /\ Silent
  BY DEF QueueInv, RInv, Reset, vars, taskVars, Return, GotoCall, Sending, CallPlaces
<1>2. t \in Task /\ call[t] = "reset"
  BY <1>1, CallerReady
<1>3. Moves
  BY <1>1, <1>2 DEF Moves
<1>4. \A u \in Task : Same(u)
  BY <1>1, <1>3, QuietSame
<1>5. CASE UNCHANGED ringVars
  BY <1>1, <1>4, <1>5, RingUnchanged, ChannelIdle
<1>6. CASE Senders = <<>> /\ Receivers = <<>> /\ ResetRing
  <2>1. Range(Senders) = {} /\ Range(Receivers) = {}
    BY <1>6 DEF Range
  <2>2. UNCHANGED <<Range(Senders), Range(Receivers), Calling, Lates>>
    BY <1>1, <1>4, NothingMap
  <2>3. Contents' = <<>>
    BY <1>1, <1>6, ResetEmpties
  <2>4. Abstract!Reset
    BY <1>1, <2>1, <2>2, <2>3 DEF Abstract!Reset, Abstract!Waiting, Calling, Lates,
       Abstract!Silent, Abstract!NoResult, Silent, NoResult
  <2> QED
    BY <2>4 DEF ChannelStep, Abstract!Next
<1> QED
  BY <1>5, <1>6 DEF Reset

(* The deletion ends every wait; who has been called still looks again.    *)
LEMMA DeletionEndsWaits ==
  ASSUME Inv, WaitInv, NEW t \in User, DeleteQueue(t), NEW u \in Task
  PROVE  /\ ~Waits(u, SendIpc)' /\ ~Waits(u, ReceiveIpc)'
         /\ msg'[u] = msg[u] \/ (msg[u].notify # "OK" /\ msg'[u].notify # "OK")
         /\ status'[u] \in {"BLOCKED", "INIT"}
              => status'[u] = status[u] /\ msg'[u] = msg[u]
<1>1. PICK q : q = Senders \o Receivers
  OBVIOUS
<1>2. u \in Range(q) <=> u \in Range(Senders) \/ u \in Range(Receivers)
  BY <1>1, BothLists
<1>3. /\ u \in Range(Senders) <=> Waits(u, SendIpc)
      /\ u \in Range(Receivers) <=> Waits(u, ReceiveIpc)
  BY InBlockedList, QueueFacts DEF Inv, SchedInv, InList, Senders, Receivers
<1>4. /\ status' = [v \in Task |-> IF v \in Range(q) THEN "READY" ELSE status[v]]
      /\ msg' = [v \in Task |-> IF v \in Range(q) THEN [NoMsg EXCEPT !.notify = "DELETED"]
                                ELSE msg[v]]
  BY <1>1 DEF DeleteQueue, ResumeAll, WakeAll
<1>5. [NoMsg EXCEPT !.notify = "DELETED"].notify = "DELETED"
  BY DEF NoMsg
<1>6. CASE u \in Range(q)
  <2>1. status'[u] = "READY" /\ msg'[u].notify = "DELETED"
    BY <1>4, <1>5, <1>6
  <2>2. msg[u].notify = "NONE"
    BY <1>2, <1>3, <1>6 DEF WaitInv, Settled, Waits
  <2> QED
    BY <2>1, <2>2 DEF Waits
<1>7. CASE u \notin Range(q)
  <2>1. status'[u] = status[u] /\ msg'[u] = msg[u]
    BY <1>4, <1>7
  <2> QED
    BY <1>2, <1>3, <1>7, <2>1 DEF Waits
<1> QED
  BY <1>6, <1>7

LEMMA DeleteRefined ==
  ASSUME QueueInv, Inv', WaitInv, NEW t \in User, DeleteQueue(t)
  PROVE  ChannelStep
<1>1. /\ RingType /\ RingOK /\ Inv /\ valid' = FALSE /\ ResetRing /\ In(t, "delete")
      /\ call' = [call EXCEPT ![t] = "none"] /\ call \in [Task -> CallPlaces] /\ Silent
  BY DEF QueueInv, RInv, DeleteQueue, Return, GotoCall, Sending, CallPlaces
<1>2. t \in Task /\ call[t] = "delete"
  BY <1>1, CallerReady
<1>3. \A u \in Task : ~Waits(u, SendIpc)' /\ ~Waits(u, ReceiveIpc)'
  BY <1>1, DeletionEndsWaits
<1>4. ASSUME NEW u \in Task
      PROVE  /\ Called(u)' <=> Called(u)
             /\ Late(u)' <=> Late(u) \/ Waits(u, SendIpc) \/ Waits(u, ReceiveIpc)
  <2>1. msg'[u] = msg[u] \/ (msg[u].notify # "OK" /\ msg'[u].notify # "OK")
    BY <1>1, DeletionEndsWaits
  <2>2. /\ u # t => call'[u] = call[u]
        /\ u = t => call[u] = "delete" /\ call'[u] = "none"
    BY <1>1, <1>2
  <2>3. /\ Waits(u, SendIpc) => call[u] = "sendWait" /\ msg[u].notify # "OK"
        /\ Waits(u, ReceiveIpc) => call[u] = "receiveWait" /\ msg[u].notify # "OK"
    BY DEF WaitInv, Settled, Waits
  <2> QED
    BY <1>3, <2>1, <2>2, <2>3 DEF Called, Late, Awake, Notified
<1>5. PICK A, B, C, D : /\ A = Range(Senders) /\ B = Range(Senders)'
                        /\ C = Range(Receivers) /\ D = Range(Receivers)'
  OBVIOUS
<1>6. PICK E, F, G, H : E = Calling /\ F = Calling' /\ G = Lates /\ H = Lates'
  OBVIOUS
<1>7. \A v : /\ v \in A <=> v \in Task /\ Waits(v, SendIpc)
             /\ v \in B <=> v \in Task /\ Waits(v, SendIpc)'
  BY ONLY Inv', <1>1, <1>5, QueueFacts, WaitersAre DEF Senders
<1>8. \A v : /\ v \in C <=> v \in Task /\ Waits(v, ReceiveIpc)
             /\ v \in D <=> v \in Task /\ Waits(v, ReceiveIpc)'
  BY ONLY Inv', <1>1, <1>5, QueueFacts, WaitersAre DEF Receivers
<1>9. \A v : /\ v \in E <=> v \in User /\ Called(v)
             /\ v \in F <=> v \in User /\ Called(v)'
             /\ v \in G <=> v \in User /\ Late(v)
             /\ v \in H <=> v \in User /\ Late(v)'
  BY ONLY Inv', <1>1, <1>6, CallingIs
<1>10. B = {} /\ D = {}
  BY <1>3, <1>7, <1>8
<1>11. F = E /\ H = G \cup (A \cup C)
  <2>1. \A v \in Task : Waits(v, SendIpc) \/ Waits(v, ReceiveIpc) => v \in User
    BY DEF WaitInv, Settled
  <2>2. \A v : v \in F <=> v \in E
    BY <1>4, <1>9, QueueFacts
  <2>3. \A v : v \in H <=> v \in G \/ v \in A \/ v \in C
    BY <1>4, <1>7, <1>8, <1>9, <2>1, QueueFacts
  <2> QED
    BY ONLY <2>2, <2>3
<1>12. Contents' = <<>>
  BY <1>1, ResetEmpties
<1>13. Abstract!Silent
  BY <1>1 DEF Abstract!Silent, Abstract!NoResult, Silent, NoResult
<1>14. Abstract!Close
  BY <1>1, <1>5, <1>6, <1>10, <1>11, <1>12, <1>13
  DEF Abstract!Close, Abstract!Waiting, Calling, Lates
<1> QED
  BY <1>14 DEF ChannelStep, Abstract!Next

LEMMA QueueStepRefined ==
  ASSUME QueueInv, Inv', WaitInv, NEW t \in User, QueueStep(t)
  PROVE  ChannelStep
<1>a. /\ RingType /\ RingOK /\ Inv /\ call \in [Task -> CallPlaces]
      /\ item \in [Task -> Item \cup {NoItem}]
      /\ \A u \in Task : call[u] \in {"send", "sendWait"} => item[u] \in Item
  BY DEF QueueInv, RInv, Sending, CallPlaces
<1>b. ASSUME NEW at, In(t, at), at \notin {"sendWait", "receiveWait"},
             NEW next, next \notin {"sendWait", "receiveWait"}, GotoCall(t, next)
      PROVE  Moves
  <2>1. t \in Task /\ call[t] = at
    BY <1>a, <1>b, CallerReady
  <2> QED
    BY <1>a, <1>b, <2>1 DEF Moves, GotoCall
<1>1. ASSUME NEW f \in {"send", "receive", "reset", "delete"}, NEW i, NEW n, Enter(t, f, i, n)
      PROVE  ChannelStep
  <2>1. /\ In(t, "none") /\ GotoCall(t, f) /\ UNCHANGED <<status, msg>>
        /\ UNCHANGED ringVars /\ UNCHANGED valid /\ Silent
    BY <1>1 DEF Enter, vars, taskVars
  <2>2. Moves
    BY <1>b, <2>1
  <2>3. UNCHANGED <<Contents, valid>>
    BY <1>a, <2>1, RingUnchanged
  <2> QED
    BY <1>a, <2>1, <2>2, <2>3, QuietSame, ChannelIdle
<1>c. ASSUME NEW i \in {SendIpc, ReceiveIpc}, ResumeOne(i, t)
      PROVE  \/ sched.lists[i] = <<>> /\ UNCHANGED <<status, msg>>
             \/ sched.lists[i] # <<>> /\ Resume(i)
  BY <1>c DEF ResumeOne, vars, taskVars
<1>2. ASSUME Send(t) PROVE ChannelStep
  <2>1. In(t, "send") /\ UNCHANGED valid /\ t \in Task /\ call[t] = "send"
    BY <1>2, <1>a, CallerReady DEF Send
  <2>2. CASE HasRoom /\ WriteItem(item[t], t) /\ ResumeOne(ReceiveIpc, t) /\ Return(t)
    <3>1. PICK i \in Item : i = item[t]
      BY <1>a, <2>1
    <3>2. Moves
      BY <1>b, <2>1, <2>2 DEF Return
    <3>3. WriteItem(i, t) /\ HasRoom
      BY <2>2, <3>1
    <3>4. \/ Receivers = <<>> /\ UNCHANGED <<status, msg>>
          \/ Receivers # <<>> /\ Resume(ReceiveIpc)
      BY <1>c, <2>2 DEF Receivers
    <3> QED
      BY <2>1, <3>2, <3>3, <3>4, PutRefined
  <2>3. CASE ~HasRoom /\ WaitOrFail(t, "send", SendIpc, "sendWait")
    BY <2>1, <2>3, WaitOrFailRefined, QueueFacts
  <2> QED
    BY <1>2, <2>2, <2>3 DEF Send
<1>3. ASSUME Receive(t) PROVE ChannelStep
  <2>1. In(t, "receive") /\ UNCHANGED valid
    BY <1>3 DEF Receive
  <2>2. CASE items > 0 /\ ReadItem(t) /\ ResumeOne(SendIpc, t) /\ Return(t)
    <3>1. Moves
      BY <1>b, <2>1, <2>2 DEF Return
    <3>2. \/ Senders = <<>> /\ UNCHANGED <<status, msg>>
          \/ Senders # <<>> /\ Resume(SendIpc)
      BY <1>c, <2>2 DEF Senders
    <3> QED
      BY <2>1, <2>2, <3>1, <3>2, GetRefined
  <2>3. CASE items = 0 /\ WaitOrFail(t, "receive", ReceiveIpc, "receiveWait")
    BY <2>1, <2>3, WaitOrFailRefined, QueueFacts
  <2> QED
    BY <1>3, <2>2, <2>3 DEF Receive
<1> QED
  BY <1>1, <1>2, <1>3, WokenRefined, ResetRefined, DeleteRefined
  DEF QueueStep, EnterSend, EnterReceive, EnterReset, EnterDelete

LEMMA ChannelSteps ==
  ASSUME QueueInv, QueueInv', WaitInv, WaitInv', [QueueNext]_allVars
  PROVE  ChannelStep
<1>a. Inv /\ Inv' /\ RingType /\ RingOK
  BY DEF QueueInv, RInv
<1>b. ASSUME UNCHANGED call PROVE Moves
  BY <1>b DEF Moves
<1>c. ASSUME NEW i \in {SendIpc, ReceiveIpc}, IsrResumeOne(i)
      PROVE  \/ sched.lists[i] = <<>> /\ UNCHANGED <<status, msg>>
             \/ sched.lists[i] # <<>> /\ Resume(i)
  BY <1>c DEF IsrResumeOne, vars, taskVars
<1>1. ASSUME NEW t \in User, QueueStep(t) PROVE ChannelStep
  BY <1>1, <1>a, QueueStepRefined
<1>d. ASSUME UNCHANGED <<status, msg>>, UNCHANGED call PROVE \A u \in Task : Same(u)
  BY <1>b, <1>d, QuietSame
<1>2. ASSUME NEW i \in Item, IsrSend(i) PROVE ChannelStep
  <2>1. UNCHANGED valid /\ UNCHANGED call
    BY <1>2 DEF IsrSend
  <2>2. CASE HasRoom /\ WriteItem(i, NoTask) /\ IsrResumeOne(ReceiveIpc)
    <3>1. \/ Receivers = <<>> /\ UNCHANGED <<status, msg>>
          \/ Receivers # <<>> /\ Resume(ReceiveIpc)
      BY <1>c, <2>2 DEF Receivers
    <3> QED
      BY <1>a, <1>b, <2>1, <2>2, <3>1, PutRefined
  <2>3. CASE ~HasRoom /\ Failed("send", NoTask) /\ UNCHANGED <<vars, isr, ringVars>>
    <3>1. UNCHANGED ringVars /\ UNCHANGED <<status, msg>>
      BY <2>3 DEF vars, taskVars
    <3> QED
      BY <1>a, <1>d, <2>1, <2>3, <3>1, FailRefined
  <2> QED
    BY <1>2, <2>2, <2>3 DEF IsrSend
<1>3. ASSUME IsrReceive PROVE ChannelStep
  <2>1. UNCHANGED valid /\ UNCHANGED call
    BY <1>3 DEF IsrReceive
  <2>2. CASE items > 0 /\ ReadItem(NoTask) /\ IsrResumeOne(SendIpc)
    <3>1. \/ Senders = <<>> /\ UNCHANGED <<status, msg>>
          \/ Senders # <<>> /\ Resume(SendIpc)
      BY <1>c, <2>2 DEF Senders
    <3> QED
      BY <1>a, <1>b, <2>1, <2>2, <3>1, GetRefined
  <2>3. CASE items = 0 /\ Failed("receive", NoTask) /\ UNCHANGED <<vars, isr, ringVars>>
    <3>1. UNCHANGED ringVars /\ UNCHANGED <<status, msg>>
      BY <2>3 DEF vars, taskVars
    <3> QED
      BY <1>a, <1>d, <2>1, <2>3, <3>1, FailRefined
  <2> QED
    BY <1>3, <2>2, <2>3 DEF IsrReceive
<1>4. ASSUME QueueKernelStep PROVE ChannelStep
  <2>1. UNCHANGED ringVars /\ UNCHANGED valid /\ (KernelStep \/ IsrSwitch) /\ Silent
    BY <1>4 DEF QueueKernelStep
  <2>2. UNCHANGED <<Contents, valid>>
    BY <1>a, <2>1, RingUnchanged
  <2>3. IsrSwitch => current \in Task
    BY DEF IsrSwitch, QueueInv, QueueType
  <2> QED
    BY <1>a, <2>1, <2>2, <2>3, KernelRefined, IsrSwitchRefined
<1>5. ASSUME UNCHANGED allVars PROVE ChannelStep
  <2>1. /\ UNCHANGED ringVars /\ UNCHANGED valid /\ UNCHANGED call
        /\ UNCHANGED <<status, msg>> /\ ret' = ret
    BY <1>5 DEF allVars, vars, taskVars, ipcVars, queueVars
  <2>2. UNCHANGED <<Contents, valid>>
    BY <1>a, <2>1, RingUnchanged
  <2>3. UNCHANGED Abstract!vars
    BY <1>a, <1>d, <2>1, <2>2, ChannelSame DEF Abstract!vars
  <2> QED
    BY <2>3 DEF ChannelStep
<1> QED
  BY <1>1, <1>2, <1>3, <1>4, <1>5 DEF QueueNext

-----------------------------------------------------------------------------
(* What the refinement rests on holds in every step.                       *)
WaitKept(t) == status'[t] \in {"BLOCKED", "INIT"} =>
                    status'[t] = status[t] /\ msg'[t] = msg[t]

LEMMA SettledStays ==
  ASSUME NEW t, Settled(t), WaitKept(t),
         status'[t] \in {"BLOCKED", "INIT"} => call'[t] = call[t],
         call'[t] # "none" => t \in User
  PROVE  Settled(t)'
BY DEF WaitKept, Settled, Waits

LEMMA CallerSettles ==
  ASSUME QueueInv, WaitInv, NEW t \in User, NEW at, In(t, at), NEW next, GotoCall(t, next),
         \A u \in Task : WaitKept(u)
  PROVE  WaitInv'
<1>1. /\ Ready(t) /\ t \in Task /\ call' = [call EXCEPT ![t] = next]
      /\ call \in [Task -> CallPlaces]
  BY CallerReady DEF QueueInv, RInv, Sending, CallPlaces, GotoCall
<1>2. ASSUME NEW u \in Task PROVE Settled(u)'
  <2>1. Settled(u) /\ WaitKept(u)
    BY DEF WaitInv
  <2>2. u # t => call'[u] = call[u]
    BY <1>1
  <2>3. u = t => status'[u] \notin {"BLOCKED", "INIT"}
    BY <1>1, <2>1 DEF WaitKept, Ready
  <2> QED
    BY <2>1, <2>2, <2>3, SettledStays DEF Settled
<1> QED
  BY <1>2 DEF WaitInv

LEMMA ResumedIsReady ==
  ASSUME Inv, NEW i \in Ipc, sched.lists[i] # <<>>, Resume(i)
  PROVE  \A u \in Task : WaitKept(u)
<1>1. PICK u \in Task : u = Head(sched.lists[i])
  BY FirstWaits
<1>2. /\ status' = [status EXCEPT ![u] = "READY"]
      /\ msg' = [msg EXCEPT ![u] = [NoMsg EXCEPT !.notify = "OK"]]
      /\ status \in [Task -> Status] /\ msg \in [Task -> MsgType]
  BY <1>1 DEF Resume, ResumeFrom, Inv, IType, TypeOK
<1> QED
  BY <1>2 DEF WaitKept

LEMMA WaiterSettles ==
  ASSUME QueueInv, WaitInv, NEW t \in User, NEW i \in {SendIpc, ReceiveIpc},
         NEW at, In(t, at), NEW f,
         WaitOrFail(t, f, i, IF i = SendIpc THEN "sendWait" ELSE "receiveWait")
  PROVE  WaitInv'
<1>1. CASE Return(t) /\ UNCHANGED vars
  BY <1>1, CallerSettles DEF Return, WaitKept, vars, taskVars
<1>2. CASE /\ Block(i, t, remain[t])
           /\ GotoCall(t, IF i = SendIpc THEN "sendWait" ELSE "receiveWait")
  <2>1. PICK c : c = IF i = SendIpc THEN "sendWait" ELSE "receiveWait"
    OBVIOUS
  <2>2. PICK m : m = [source |-> i, reason |-> "IPC", notify |-> "NONE"]
    OBVIOUS
  <2>3. /\ status' = [status EXCEPT ![t] = "BLOCKED"] /\ msg' = [msg EXCEPT ![t] = m]
        /\ call' = [call EXCEPT ![t] = c]
    BY <1>2, <2>1, <2>2 DEF Block, BlockFrom, GotoCall
  <2>4. /\ status \in [Task -> Status] /\ msg \in [Task -> MsgType]
        /\ call \in [Task -> CallPlaces] /\ t \in Task
    BY QueueFacts DEF QueueInv, Inv, IType, TypeOK, RInv, Sending, CallPlaces
  <2>5. /\ status'[t] = "BLOCKED" /\ msg'[t] = m /\ call'[t] = c
        /\ \A u \in Task : u # t => /\ status'[u] = status[u] /\ msg'[u] = msg[u]
                                    /\ call'[u] = call[u]
    BY <2>3, <2>4
  <2>6. m.notify = "NONE" /\ m.source = i
    BY <2>2
  <2>7. Settled(t)'
    BY <2>1, <2>5, <2>6, QueueFacts DEF Settled, Waits
  <2>8. ASSUME NEW u \in Task, u # t PROVE Settled(u)'
    <3>1. Settled(u) /\ WaitKept(u) /\ call'[u] = call[u]
      BY <2>5, <2>8 DEF WaitInv, WaitKept
    <3> QED
      BY <3>1, SettledStays DEF Settled
  <2> QED
    BY <2>7, <2>8 DEF WaitInv
<1> QED
  BY <1>1, <1>2 DEF WaitOrFail

LEMMA KernelSettles ==
  ASSUME Inv, WaitInv, KernelStep
  PROVE  WaitInv'
<1>1. Next /\ SendIpc \in Ipc /\ ReceiveIpc \in Ipc
  BY KernelStepIsNext, QueueFacts
<1>2. \A t \in Task : call'[t] = IF status'[t] = "INIT" THEN "none" ELSE call[t]
  BY DEF KernelStep, Restarted
<1>3. [NoMsg EXCEPT !.reason = "SLEEP"].notify = "NONE"
  BY DEF NoMsg
<1>4. ASSUME NEW t \in Task PROVE Settled(t)'
  <2>1. Settled(t)
    BY DEF WaitInv
  <2>2. status'[t] = "BLOCKED" => msg'[t].notify = "NONE"
    BY <1>1, <1>3, <2>1, BlockedBySleep DEF Settled
  <2>3. /\ Waits(t, SendIpc)' => Waits(t, SendIpc)
        /\ Waits(t, ReceiveIpc)' => Waits(t, ReceiveIpc)
    BY <1>1, KernelBlocksNobody
  <2>4. /\ Waits(t, SendIpc)' => status'[t] = "BLOCKED"
        /\ Waits(t, ReceiveIpc)' => status'[t] = "BLOCKED"
    BY DEF Waits
  <2> QED
    BY <1>2, <2>1, <2>2, <2>3, <2>4 DEF Settled
<1> QED
  BY <1>4 DEF WaitInv

LEMMA WaitInvStep ==
  ASSUME QueueInv, WaitInv, [QueueNext]_allVars
  PROVE  WaitInv'
<1>a. Inv /\ SendIpc \in Ipc /\ ReceiveIpc \in Ipc
  BY QueueFacts DEF QueueInv
<1>b. ASSUME UNCHANGED <<status, msg>> PROVE \A u \in Task : WaitKept(u)
  BY <1>b DEF WaitKept
<1>c. ASSUME UNCHANGED call, \A u \in Task : WaitKept(u) PROVE WaitInv'
  <2>1. ASSUME NEW u \in Task PROVE Settled(u)'
    BY <1>c, SettledStays DEF WaitInv, Settled
  <2> QED
    BY <2>1 DEF WaitInv
<1>d. ASSUME NEW t \in User, NEW i \in {SendIpc, ReceiveIpc}, ResumeOne(i, t)
      PROVE  \A u \in Task : WaitKept(u)
  BY <1>d, <1>a, <1>b, ResumedIsReady DEF ResumeOne, vars, taskVars
<1>1. ASSUME NEW t \in User, NEW f, NEW i, NEW n, Enter(t, f, i, n) PROVE WaitInv'
  BY <1>1, <1>b, CallerSettles DEF Enter, vars, taskVars
<1>2. ASSUME NEW t \in User, Send(t) PROVE WaitInv'
  <2>1. In(t, "send")
    BY <1>2 DEF Send
  <2>2. CASE ResumeOne(ReceiveIpc, t) /\ Return(t)
    BY <2>1, <2>2, <1>d, CallerSettles DEF Return
  <2>3. CASE WaitOrFail(t, "send", SendIpc, "sendWait")
    BY <2>1, <2>3, WaiterSettles
  <2> QED
    BY <1>2, <2>2, <2>3 DEF Send
<1>3. ASSUME NEW t \in User, Receive(t) PROVE WaitInv'
  <2>1. In(t, "receive")
    BY <1>3 DEF Receive
  <2>2. CASE ResumeOne(SendIpc, t) /\ Return(t)
    BY <2>1, <2>2, <1>d, CallerSettles DEF Return
  <2>3. CASE WaitOrFail(t, "receive", ReceiveIpc, "receiveWait")
    BY <2>1, <2>3, WaiterSettles, QueueFacts
  <2> QED
    BY <1>3, <2>2, <2>3 DEF Receive
<1>4. ASSUME NEW t \in User, Woken(t) PROVE WaitInv'
  <2>1. PICK at : In(t, at)
    BY <1>4 DEF Woken
  <2>2. PICK next : GotoCall(t, next)
    BY <1>4 DEF Woken, Return
  <2> QED
    BY <1>4, <1>b, <2>1, <2>2, CallerSettles DEF Woken, vars, taskVars
<1>5. ASSUME NEW t \in User, Reset(t) PROVE WaitInv'
  BY <1>5, <1>b, CallerSettles DEF Reset, Return, vars, taskVars
<1>6. ASSUME NEW t \in User, DeleteQueue(t) PROVE WaitInv'
  <2>1. In(t, "delete") /\ GotoCall(t, "none")
    BY <1>6 DEF DeleteQueue, Return
  <2>2. \A u \in Task : WaitKept(u)
    BY <1>6, <1>a, DeletionEndsWaits DEF WaitKept
  <2> QED
    BY <2>1, <2>2, CallerSettles
<1>7. ASSUME NEW i \in {SendIpc, ReceiveIpc}, IsrResumeOne(i), UNCHANGED call PROVE WaitInv'
  BY <1>7, <1>a, <1>b, <1>c, ResumedIsReady DEF IsrResumeOne, vars, taskVars
<1>8. ASSUME KernelStep PROVE WaitInv'
  BY <1>8, <1>a, KernelSettles
<1>9. ASSUME IsrSwitch PROVE WaitInv'
  <2>1. UNCHANGED call /\ current \in Task
    BY <1>9 DEF IsrSwitch, QueueInv, QueueType
  <2>2. CASE Dispatch /\ UNCHANGED msg
    <3>1. \A t \in Task : \/ status'[t] = status[t]
                          \/ {status[t], status'[t]} \subseteq {"READY", "RUNNING"}
      BY <1>a, <2>1, <2>2, DispatchTransition
    <3> QED
      BY <1>c, <2>1, <2>2, <3>1 DEF WaitKept
  <2>3. CASE UNCHANGED <<status, msg>>
    BY <1>b, <1>c, <2>1, <2>3
  <2> QED
    BY <1>9, <2>2, <2>3 DEF IsrSwitch, Misdispatch, Crash, taskVars
<1>10. ASSUME UNCHANGED allVars PROVE WaitInv'
  BY <1>10, <1>b, <1>c DEF allVars, vars, taskVars, ipcVars
<1>11. ASSUME NEW t \in User, QueueStep(t) PROVE WaitInv'
  BY <1>1, <1>2, <1>3, <1>4, <1>5, <1>6, <1>11
  DEF QueueStep, EnterSend, EnterReceive, EnterReset, EnterDelete
<1>12. ASSUME IsrReceive \/ \E i \in Item : IsrSend(i) PROVE WaitInv'
  <2>1. UNCHANGED call
    BY <1>12 DEF IsrSend, IsrReceive
  <2>2. IsrResumeOne(SendIpc) \/ IsrResumeOne(ReceiveIpc) \/ UNCHANGED <<status, msg>>
    BY <1>12 DEF IsrSend, IsrReceive, vars, taskVars
  <2> QED
    BY <1>7, <1>b, <1>c, <2>1, <2>2
<1> QED
  BY <1>8, <1>9, <1>10, <1>11, <1>12 DEF QueueNext, QueueKernelStep

LEMMA ChannelInit == QueueInit => Abstract!Init /\ WaitInv
<1> SUFFICES ASSUME QueueInit PROVE Abstract!Init /\ WaitInv
  OBVIOUS
<1>1. \A t \in Task : /\ status[t] = IF t = Idle THEN "READY" ELSE "INIT"
                      /\ call[t] = "none"
  BY DEF QueueInit, Init
<1>2. Inv /\ RingType /\ RingOK /\ User \subseteq Task
  BY QueueInvInit, QueueFacts DEF QueueInv, RInv
<1>3. WaitInv
  BY <1>1 DEF WaitInv, Settled, Waits
<1>4. ASSUME NEW i \in Ipc PROVE sched.lists[i] = <<>>
  BY <1>1, <1>2, FirstWaits DEF Waits
<1>5. Senders = <<>> /\ Receivers = <<>>
  BY <1>4, QueueFacts DEF Senders, Receivers
<1>6. Range(Senders) = {} /\ Range(Receivers) = {}
  BY <1>5 DEF Range
<1>7. Calling = {} /\ Lates = {}
  BY <1>1, <1>2 DEF Calling, Lates, Back
<1>8. Contents = <<>>
  <2>1. items = 0 /\ Contents \in Seq(Item) /\ Len(Contents) = items
    BY <1>2, ContentsSeq DEF QueueInit
  <2> QED
    BY <2>1, EmptySeq
<1> QED
  BY <1>3, <1>6, <1>7, <1>8
  DEF Abstract!Init, Calling, Lates, QueueInit, NoResult, Abstract!NoResult

(* The queue is a bounded first-in first-out channel: no item is lost,     *)
(* duplicated or reordered, a send or receive reports success exactly when *)
(* it has put its item in or has got the oldest one, a task waits only     *)
(* after it has found no slot or no item, and every item and every slot    *)
(* calls a task that waits for it, however sends, receives, timeouts,      *)
(* handlers, reset and deletion interleave.                                *)
THEOREM QueueIsChannel == QueueSpec => IsChannel
<1>1. QueueInv /\ WaitInv /\ [QueueNext]_allVars => WaitInv'
  BY WaitInvStep
<1>2. QueueInv /\ QueueInv' /\ WaitInv /\ WaitInv' /\ [QueueNext]_allVars
        => [Abstract!Next]_(Abstract!vars)
  BY ChannelSteps DEF ChannelStep
<1>3. QueueInit => Abstract!Init /\ WaitInv
  BY ChannelInit
<1> QED
  BY <1>1, <1>2, <1>3, QueueInvHolds, PTL DEF QueueSpec, IsChannel, Abstract!Spec

-----------------------------------------------------------------------------
(* Who is called: lists with YR_IPC_FLAG_PRIO stay in order, and the first *)
(* waiter is resumed.                                                      *)
BestInv == WaitInv /\ SortedLists

LEMMA BestSteps ==
  ASSUME QueueInv, BestInv, [QueueNext]_allVars
  PROVE  SortedLists' /\ ServesBestStep
<1> DEFINE Goal == SortedLists' /\ ServesBestStep
<1>a. Inv /\ prioIpc \subseteq Ipc /\ SortedLists /\ SendIpc \in Ipc /\ ReceiveIpc \in Ipc
  BY QueueFacts DEF QueueInv, QueueType, BestInv
<1>b. Untold
  BY DEF BestInv, WaitInv, Settled, Untold
<1>c. ASSUME UNCHANGED vars PROVE Goal
  <2>1. SortedLists' /\ UNCHANGED msg
    BY <1>a, <1>c DEF SortedLists, vars, taskVars
  <2>2. ServesBestStep
    BY <1>a, <1>b, <2>1, NobodyServed DEF Untold
  <2> QED
    BY <2>1, <2>2
<1>d. ASSUME NEW i \in Ipc, sched.lists[i] # <<>>, Resume(i), UNCHANGED <<curPrio, prioIpc>>
      PROVE  Goal
  <2>1. SortedLists'
    BY <1>a, <1>d, ResumeKeepsSorted
  <2>2. ServesBestStep
    BY <1>a, <1>b, <1>d, FirstServed DEF Resume, ResumeFrom
  <2> QED
    BY <2>1, <2>2
<1>e. ASSUME NEW t \in User, NEW i \in Ipc, NEW f, NEW c, NEW at,
             In(t, at), WaitOrFail(t, f, i, c)
      PROVE  Goal
  <2>1. CASE UNCHANGED vars
    BY <1>c, <2>1
  <2>2. CASE Block(i, t, remain[t])
    <3>1. t \in Task /\ Ready(t)
      BY <1>e, <1>a, CallerReady
    <3>2. SortedLists'
      BY <1>a, <1>e, <2>2, <3>1, BlockKeepsSorted
    <3>3. \A u \in Task : u # t => msg'[u] = msg[u]
      BY <1>a, <2>2 DEF Block, BlockFrom, Inv, IType, TypeOK
    <3>4. ServesBestStep
      BY <1>a, <1>b, <3>1, <3>3, NobodyServed DEF Untold, Ready
    <3> QED
      BY <3>2, <3>4
  <2> QED
    BY <1>e, <2>1, <2>2 DEF WaitOrFail
<1>1. ASSUME NEW t \in User, NEW i \in Ipc, ResumeOne(i, t) PROVE Goal
  BY <1>1, <1>c, <1>d DEF ResumeOne
<1>2. ASSUME NEW i \in Ipc, IsrResumeOne(i) PROVE Goal
  BY <1>2, <1>c, <1>d DEF IsrResumeOne
<1>3. ASSUME NEW t \in User, Send(t) \/ Receive(t) PROVE Goal
  BY <1>3, <1>a, <1>e, <1>1 DEF Send, Receive
<1>4. ASSUME NEW t \in User, DeleteQueue(t) PROVE Goal
  <2>1. PICK q : q = Senders \o Receivers
    OBVIOUS
  <2>2. ResumeAll(q) /\ prioIpc' = prioIpc \ {SendIpc, ReceiveIpc} /\ UNCHANGED curPrio
    BY <1>4, <2>1 DEF DeleteQueue
  <2>3. \A u : u \in Range(q) <=> u \in Range(Senders) \/ u \in Range(Receivers)
    BY <1>a, <2>1, BothLists
  <2>4. IType /\ ListsAgree(sched, curPrio) /\ curPrio \in [Task -> Prio]
    BY <1>a, SchedAgrees DEF Inv, IType, TypeOK
  <2>5. /\ \A u \in Range(Senders) : Waits(u, SendIpc)
        /\ \A u \in Range(Receivers) : Waits(u, ReceiveIpc)
    BY <1>a, <2>4, BlockedNodes DEF Senders, Receivers
  <2>6. \A u \in Range(q) : \E i \in {SendIpc, ReceiveIpc} : Waits(u, i)
    BY <2>3, <2>5
  <2>7. SortedLists'
    BY <1>a, <2>2, <2>6, DeletionKeepsSorted
  <2>8. ServesBestStep
    BY <1>a, <1>b, <2>2, DeletionServesNobody DEF ResumeAll
  <2> QED
    BY <2>7, <2>8
<1>5. ASSUME KernelStep \/ IsrSwitch PROVE Goal
  BY <1>5, <1>a, <1>b, KernelStepKeepsSorted, KernelServesBest
<1>6. ASSUME NEW t \in User, QueueStep(t) PROVE Goal
  BY <1>c, <1>3, <1>4, <1>6
  DEF QueueStep, EnterSend, EnterReceive, EnterReset, EnterDelete, Enter, Woken, Reset
<1>7. ASSUME IsrReceive \/ \E i \in Item : IsrSend(i) PROVE Goal
  <2>1. IsrResumeOne(SendIpc) \/ IsrResumeOne(ReceiveIpc) \/ UNCHANGED vars
    BY <1>7 DEF IsrSend, IsrReceive
  <2> QED
    BY <1>a, <1>c, <1>2, <2>1
<1> QED
  BY <1>c, <1>5, <1>6, <1>7 DEF QueueNext, QueueKernelStep, allVars

(* The task an item or a slot calls: with YR_IPC_FLAG_PRIO none of the     *)
(* other waiters has a higher priority; with YR_IPC_FLAG_FIFO it has       *)
(* waited longest.                                                         *)
THEOREM QueueServesBest == QueueSpec => ServesBest
<1>1. QueueInit => BestInv
  BY ChannelInit, SortedInit DEF QueueInit, BestInv
<1>2. QueueInv /\ BestInv /\ [QueueNext]_allVars => BestInv'
  BY WaitInvStep, BestSteps DEF BestInv
<1>3. QueueInv /\ BestInv /\ [QueueNext]_allVars => [ServesBestStep]_<<vars, ipcVars>>
  BY BestSteps
<1>4. ServesBest <=> [][ServesBestStep]_<<vars, ipcVars>>
  BY PTL DEF ServesBest, ServesBestStep
<1> QED
  BY <1>1, <1>2, <1>3, <1>4, QueueInvHolds, PTL DEF QueueSpec

-----------------------------------------------------------------------------
(* A wait is not cut short.                                                *)

(* The timer of task t after a step of n ticks: nothing has armed it, a    *)
(* tick has counted it down, and only an expired one is due.               *)
Drains(t, n) ==
  /\ t \in Range(timerList') => t \in Range(timerList) /\ left'[t] = left[t] - n
  /\ t \in Range(due') => t \in Range(due) \/ (t \in Range(timerList) /\ left[t] <= 0)
  /\ t = firing' => t = firing \/ t \in Range(due)

TimersOK ==
  /\ IsInjective(timerList)
  /\ tick # "timeout" => firing \notin Task
  /\ tick = "off" => \A t \in Task : t \notin Range(due)

Ticks == IF tick = "off" /\ tick' # "off" THEN 1 ELSE 0

LEMMA FrameDrains ==
  ASSUME IType, TimersOK, UNCHANGED timerVars, tick' = "timeout" <=> tick = "timeout",
         tick' = "off" => tick = "off" \/ due = <<>>
  PROVE  TimersOK' /\ \A t \in Task : Drains(t, 0)
<1>1. left \in [Task -> Int]
  BY DEF IType, TypeOK
<1>2. \A t \in Task : left[t] - 0 = left[t]
  BY <1>1
<1>3. timerList' = timerList /\ left' = left /\ due' = due /\ firing' = firing
  BY DEF timerVars
<1>4. due = <<>> => \A t : t \notin Range(due)
  BY DEF Range
<1>5. PICK d : d = due'
  OBVIOUS
<1> QED
  BY <1>2, <1>3, <1>4, <1>5 DEF TimersOK, Drains, IsInjective

LEMMA StopDrains ==
  ASSUME IType, TimersOK, NEW u \in Task, StopTimer(u), UNCHANGED tick
  PROVE  TimersOK' /\ \A t \in Task : Drains(t, 0)
<1>1. timerList \in Seq(Task) /\ due \in Seq(Task) /\ left \in [Task -> Int]
  BY DEF IType, TypeOK
<1>2. PICK r, d : r = timerList' /\ d = due'
  OBVIOUS
<1>3. r = Without(timerList, u) /\ d = Without(due, u)
  BY <1>2 DEF StopTimer
<1>4. /\ IsInjective(r) /\ u \notin Range(r)
      /\ \A t : t # u => (t \in Range(r) <=> t \in Range(timerList))
  BY <1>1, <1>3, WithoutProperties DEF TimersOK
<1>5. \A t : t # u => (t \in Range(d) <=> t \in Range(due))
  BY <1>1, <1>3, WithoutProperties
<1>6. u \in Range(d) => u \in Range(due)
  <2>1. u \notin Range(due) => d = due
    BY <1>1, <1>3, WithoutProperties
  <2> QED
    BY <2>1
<1>7. \A t \in Task : t # u => left'[t] = left[t] - 0
  BY <1>1 DEF StopTimer
<1>8. firing' = firing
  BY DEF StopTimer
<1>9. TimersOK'
  BY <1>2, <1>4, <1>5, <1>6, <1>8 DEF TimersOK, IsInjective
<1> QED
  BY <1>2, <1>4, <1>5, <1>6, <1>7, <1>8, <1>9 DEF Drains

LEMMA StartDrains ==
  ASSUME IType, TimersOK, NEW u \in Task, NEW n \in Int, StartTimer(u, n), UNCHANGED tick
  PROVE  /\ TimersOK'
         /\ \A t \in Task : t # u => Drains(t, 0)
         /\ left'[u] = n /\ UNCHANGED firing
         /\ u \in Range(due') => u \in Range(due)
<1>1. timerList \in Seq(Task) /\ due \in Seq(Task) /\ left \in [Task -> Int]
  BY DEF IType, TypeOK
<1>2. PICK s, d, f : s = timerList' /\ d = due' /\ f = left'
  OBVIOUS
<1>3. PICK r : r = Without(timerList, u)
  OBVIOUS
<1>4. /\ s = InsertTimer(r, u, f) /\ d = Without(due, u) /\ f = [left EXCEPT ![u] = n]
      /\ firing' = firing
  BY <1>2, <1>3 DEF StartTimer
<1>5. /\ r \in Seq(Task) /\ IsInjective(r) /\ u \notin Range(r)
      /\ \A t : t # u => (t \in Range(r) <=> t \in Range(timerList))
  BY <1>1, <1>3, WithoutProperties DEF TimersOK
<1>6. IsInjective(s) /\ \A t : t \in Range(s) <=> t \in Range(r) \/ t = u
  <2> DEFINE places == {i \in DOMAIN r : f[r[i]] > f[u]}
  <2>1. s = InsertBefore(r, u, places) /\ places \in SUBSET DOMAIN r
    BY <1>4 DEF InsertTimer
  <2> HIDE DEF places
  <2> QED
    BY <1>5, <2>1, InsertBeforeProperties
<1>7. \A t : t # u => (t \in Range(d) <=> t \in Range(due))
  BY <1>1, <1>4, WithoutProperties
<1>8. u \in Range(d) => u \in Range(due)
  <2>1. u \notin Range(due) => d = due
    BY <1>1, <1>4, WithoutProperties
  <2> QED
    BY <2>1
<1>9. \A t \in Task : t # u => f[t] = left[t] - 0
  BY <1>1, <1>4
<1>10. f[u] = n
  BY <1>1, <1>4
<1>11. TimersOK'
  BY <1>2, <1>4, <1>6, <1>7, <1>8 DEF TimersOK, IsInjective
<1>12. \A t \in Task : t # u => Drains(t, 0)
  BY <1>2, <1>4, <1>5, <1>6, <1>7, <1>9 DEF Drains
<1> QED
  BY <1>2, <1>4, <1>8, <1>10, <1>11, <1>12

LEMMA WakeDrains ==
  ASSUME IType, TimersOK, NEW q, WakeAll(q), UNCHANGED tick
  PROVE  TimersOK' /\ \A t \in Task : Drains(t, 0)
<1>1. timerList \in Seq(Task) /\ due \in Seq(Task) /\ left \in [Task -> Int]
  BY DEF IType, TypeOK
<1>2. PICK r, d : r = timerList' /\ d = due'
  OBVIOUS
<1>3. PICK T : T = Task \ Range(q)
  OBVIOUS
<1>4. r = Kept(timerList, T) /\ d = Kept(due, T) /\ firing' = firing
  BY <1>2, <1>3 DEF WakeAll
<1>5. IsInjective(r) /\ \A t : t \in Range(r) <=> t \in Range(timerList) /\ t \in T
  BY <1>1, <1>4, KeptProperties DEF TimersOK
<1>6. \A t : t \in Range(d) <=> t \in Range(due) /\ t \in T
  BY <1>1, <1>4, KeptProperties
<1>7. \A t \in Task : t \in T => left'[t] = left[t] - 0
  BY <1>1, <1>3 DEF WakeAll
<1>8. TimersOK'
  BY <1>2, <1>4, <1>5, <1>6 DEF TimersOK, IsInjective
<1> QED
  BY <1>2, <1>4, <1>5, <1>6, <1>7, <1>8 DEF Drains

(* yr_timer_check takes only expired timers off the list.                  *)
LEMMA CheckDrains ==
  ASSUME IType, TimersOK, TickCheck
  PROVE  TimersOK' /\ \A t \in Task : Drains(t, 0)
<1>1. timerList \in Seq(Task) /\ left \in [Task -> Int] /\ IsInjective(timerList)
  BY DEF IType, TypeOK, TimersOK
<1>2. PICK p, r : p = due' /\ r = timerList'
  OBVIOUS
<1>3. PICK n : n = ExpiredCount(timerList, left)
  OBVIOUS
<1>4. Cut(timerList, n, p, r) /\ n \in 0 .. Len(timerList)
  BY <1>1, <1>2, <1>3, ExpiredRange DEF TickCheck, Cut
<1>5. /\ IsInjective(r)
      /\ \A t : t \in Range(timerList) <=> t \in Range(p) \/ t \in Range(r)
  BY ONLY <1>1, <1>4, CutProperties
<1>6. ASSUME NEW t \in Range(p) PROVE left[t] <= 0
  <2>1. DOMAIN p = 1 .. n /\ \A j \in 1 .. n : p[j] = timerList[j]
    BY ONLY <1>1, <1>4, CutPlaces
  <2>2. PICK j \in 1 .. n : t = timerList[j]
    BY <2>1 DEF Range
  <2>3. Len(timerList) \in Nat /\ DOMAIN timerList = 1 .. Len(timerList)
    BY <1>1, LenProperties
  <2>4. j \in DOMAIN timerList /\ j \in Nat
    BY <1>4, <2>3
  <2> DEFINE pending == {i \in DOMAIN timerList : left[timerList[i]] > 0}
  <2>5. j \notin pending
    <3>1. n = IF pending = {} THEN Len(timerList) ELSE Min(pending) - 1
      BY <1>3 DEF ExpiredCount
    <3>2. pending \in SUBSET Nat
      BY <2>3
    <3> HIDE DEF pending
    <3>3. CASE pending # {}
      <4>1. Min(pending) \in Nat /\ \A k \in pending : Min(pending) <= k
        BY <3>2, <3>3, MinProperties
      <4> QED
        BY <3>1, <3>3, <4>1, <2>4
    <3> QED
      BY <3>3
  <2>6. timerList[j] \in Task
    BY <1>1, <2>3, <2>4, ElementOfSeq
  <2>7. left[timerList[j]] \in Int /\ ~(left[timerList[j]] > 0)
    BY <1>1, <2>4, <2>5, <2>6
  <2> QED
    BY <2>2, <2>7
<1>7. /\ left' = left /\ firing' = firing /\ tick = "check" /\ tick' = "fire"
      /\ \A t \in Task : left[t] - 0 = left[t]
  BY <1>1 DEF TickCheck
<1>8. TimersOK'
  BY <1>2, <1>5, <1>7 DEF TimersOK, IsInjective
<1>9. ASSUME NEW t \in Task PROVE Drains(t, 0)
  BY <1>2, <1>5, <1>6, <1>7 DEF Drains
<1> QED
  BY <1>8, <1>9

LEMMA KernelDrains ==
  ASSUME IType, TimersOK, KernelStep
  PROVE  TimersOK' /\ \A t \in Task : call[t] # "none" => Drains(t, Ticks)
<1> DEFINE Goal == TimersOK' /\ \A t \in Task : call[t] # "none" => Drains(t, Ticks)
<1> SUFFICES Goal
  OBVIOUS
<1>a. User \subseteq Task /\ IType
  BY ConstantFacts
<1>b. tick' = tick \/ tick # "off" => Ticks = 0
  BY DEF Ticks
<1>1. ASSUME UNCHANGED timerVars, tick' = tick \/ tick # "off",
             tick' = "timeout" <=> tick = "timeout", tick' = "off" => tick = "off" \/ due = <<>>
      PROVE  Goal
  BY <1>b, <1>1, FrameDrains
<1>2. ASSUME NEW u \in Task, StopTimer(u), UNCHANGED tick PROVE Goal
  BY <1>b, <1>2, StopDrains
<1> HIDE DEF Goal
<1>3. ASSUME NEW u \in User, (pc[u] = "app" => call[u] = "none"), TaskStep(u) PROVE Goal
  <2>1. ASSUME NEW n \in 1 .. MaxSleep, Sleep(u, n) PROVE Goal
    <3>1. call[u] = "none" /\ StartTimer(u, n) /\ UNCHANGED tick /\ n \in Int
      BY <1>3, <2>1, SizeAssumption DEF Sleep, MayCall
    <3>2. TimersOK' /\ \A t \in Task : t # u => Drains(t, 0)
      BY <3>1, <1>a, StartDrains
    <3> QED
      BY <3>1, <3>2, <1>b DEF Goal
  <2>2. ASSUME NEW v \in User, DeleteEffect(v) PROVE Goal
    BY <2>2, <1>2, <1>a DEF DeleteEffect
  <2>3. ASSUME NEW v \in User, Suspend(u, v) PROVE Goal
    BY <2>3, <1>1, <1>2, <1>a DEF Suspend
  <2>4. ASSUME StartCommit(u) \/ TaskSwitch(u) \/ SleepZero(u) \/ Yield(u) PROVE Goal
    BY <2>4, <1>1 DEF StartCommit, TaskSwitch, SleepZero, Yield
  <2>5. ASSUME StartRelinks(u) \/ TaskMisdispatch(u) PROVE Goal
    BY <2>5, <1>1 DEF StartRelinks, TaskMisdispatch, Misdispatch, Crash
  <2>6. ASSUME NEW v \in User,
               StartCheck(u, v) \/ Create(u, v) \/ \E p \in Prio : SetPriority(u, v, p)
        PROVE  Goal
    BY <2>6, <1>1 DEF StartCheck, Create, SetPriority
  <2> QED
    BY <1>3, <2>1, <2>2, <2>3, <2>4, <2>5, <2>6 DEF TaskStep, Exit, Delete
<1>4. ASSUME TickBegin PROVE Goal
  <2>1. /\ tick = "off" /\ tick' \notin {"off", "timeout"}
        /\ UNCHANGED <<timerList, due, firing>>
        /\ left' = [t \in Task |-> IF t \in Range(timerList) THEN left[t] - 1 ELSE left[t]]
    BY <1>4 DEF TickBegin, ChargeSlice
  <2>2. Ticks = 1
    BY <2>1 DEF Ticks
  <2> QED
    BY <2>1, <2>2 DEF Goal, TimersOK, Drains, IsInjective
<1>5. ASSUME TickCheck PROVE Goal
  <2>1. Ticks = 0
    BY <1>5, <1>b DEF TickCheck
  <2> QED
    BY <2>1, <1>5, <1>a, CheckDrains DEF Goal
<1>6. ASSUME TickPop PROVE Goal
  <2>1. /\ tick = "fire" /\ tick' = "timeout" /\ due # <<>>
        /\ firing' = Head(due) /\ due' = Tail(due) /\ UNCHANGED <<timerList, left>>
    BY <1>6 DEF TickPop
  <2>2. due \in Seq(Task) /\ left \in [Task -> Int]
    BY DEF IType, TypeOK
  <2>3. PICK d : d = due'
    OBVIOUS
  <2>4. Head(due) \in Range(due) /\ \A t : t \in Range(d) => t \in Range(due)
    <3>1. Len(due) \in Nat \ {0} /\ DOMAIN due = 1 .. Len(due) /\ Head(due) = due[1]
      BY <2>1, <2>2, EmptySeq, LenProperties, HeadTailProperties
    <3>2. DOMAIN d = 1 .. Len(due) - 1 /\ \A j \in 1 .. Len(due) - 1 : d[j] = due[j + 1]
      BY <2>1, <2>2, <2>3, LenProperties, HeadTailProperties
    <3> QED
      BY <3>1, <3>2 DEF Range
  <2>5. Ticks = 0 /\ TimersOK'
    BY <2>1 DEF Ticks, TimersOK, IsInjective
  <2>6. \A t \in Task : Drains(t, 0)
    BY <2>1, <2>2, <2>3, <2>4 DEF Drains
  <2> QED
    BY <2>5, <2>6 DEF Goal
<1>7. ASSUME TickTimeout PROVE Goal
  <2>1. /\ tick = "timeout" /\ firing' = NoTask /\ UNCHANGED <<timerList, left, due>>
        /\ left \in [Task -> Int] /\ tick' # "off"
    BY <1>7 DEF TickTimeout, IType, TypeOK
  <2>2. Ticks = 0 /\ TimersOK' /\ \A t \in Task : Drains(t, 0)
    BY <2>1, ConstantFacts DEF Ticks, TimersOK, IsInjective, Drains
  <2> QED
    BY <2>2 DEF Goal
<1>8. ASSUME TickYield \/ TickSwitch \/ TickEnd PROVE Goal
  BY <1>8, <1>1 DEF TickYield, TickSwitch, TickEnd
<1>9. ASSUME TickMisdispatch \/ Halted PROVE Goal
  BY <1>9, <1>1 DEF TickMisdispatch, Misdispatch, Crash, Halted, vars
<1>10. ASSUME (\E u \in User : MainStart(u)) \/ KernelStart \/ CleanupDefunct PROVE Goal
  BY <1>10, <1>1 DEF MainStart, KernelStart, CleanupDefunct
<1> QED
  BY <1>3, <1>4, <1>5, <1>6, <1>7, <1>8, <1>9, <1>10 DEF KernelStep, TickStep

(* Only a timer that fires tells a task of a timeout.                      *)
LEMMA KernelTimesOut ==
  ASSUME IType, KernelStep, NEW t \in Task, msg'[t].notify = "TIMEOUT"
  PROVE  msg[t].notify = "TIMEOUT" \/ t = firing
<1> DEFINE Goal == msg[t].notify = "TIMEOUT" \/ t = firing
<1> SUFFICES Goal
  OBVIOUS
<1>1. msg \in [Task -> MsgType]
  BY DEF IType, TypeOK
<1>2. NoMsg.notify = "NONE" /\ [NoMsg EXCEPT !.reason = "SLEEP"].notify = "NONE"
  BY DEF NoMsg
<1>3. ASSUME UNCHANGED msg PROVE Goal
  BY <1>3
<1>4. ASSUME NEW u, NEW m, m.notify = "NONE", msg' = [msg EXCEPT ![u] = m] PROVE Goal
  BY <1>1, <1>4
<1> HIDE DEF Goal
<1>5. ASSUME NEW u \in User, TaskStep(u) PROVE Goal
  <2>1. ASSUME NEW n \in 1 .. MaxSleep, Sleep(u, n) PROVE Goal
    BY <2>1, <1>2, <1>4 DEF Sleep
  <2>2. ASSUME NEW v \in User, Create(u, v) PROVE Goal
    BY <2>2, <1>2, <1>4 DEF Create
  <2>3. ASSUME NEW v \in User, \/ StartCheck(u, v) \/ Suspend(u, v) \/ DeleteEffect(v)
                               \/ \E p \in Prio : SetPriority(u, v, p)
        PROVE  Goal
    BY <2>3, <1>3 DEF StartCheck, Suspend, DeleteEffect, SetPriority, taskVars
  <2>4. ASSUME \/ StartCommit(u) \/ StartRelinks(u) \/ TaskSwitch(u) \/ TaskMisdispatch(u)
               \/ SleepZero(u) \/ Yield(u)
        PROVE  Goal
    BY <2>4, <1>3 DEF StartCommit, StartEffect, StartRelinks, TaskSwitch, TaskMisdispatch,
       Misdispatch, Crash, SleepZero, Yield, taskVars
  <2> QED
    BY <1>5, <2>1, <2>2, <2>3, <2>4 DEF TaskStep, Exit, Delete
<1>6. ASSUME TickTimeout PROVE Goal
  BY <1>1, <1>6 DEF TickTimeout, Goal
<1>7. ASSUME TickBegin \/ TickYield \/ TickSwitch \/ TickMisdispatch PROVE Goal
  BY <1>7, <1>3 DEF TickBegin, TickYield, TickSwitch, TickMisdispatch, Misdispatch, Crash, taskVars
<1>8. ASSUME TickCheck \/ TickPop \/ TickEnd PROVE Goal
  BY <1>8, <1>3 DEF TickCheck, TickPop, TickEnd, taskVars
<1>9. ASSUME (\E u \in User : MainStart(u)) \/ KernelStart \/ CleanupDefunct \/ Halted
      PROVE  Goal
  BY <1>9, <1>3 DEF MainStart, StartEffect, KernelStart, CleanupDefunct, Halted, vars, taskVars
<1> QED
  BY <1>5, <1>6, <1>7, <1>8, <1>9 DEF KernelStep, TickStep

-----------------------------------------------------------------------------
(* What is left of the time a task asked for: none, unless the task is in  *)
(* a send or a receive; then the loop has not yet counted that time off    *)
(* its remaining wait, and a timer of the task runs at least that long.    *)
Pending(t) ==
  /\ call[t] # "none"
  /\ remain[t] # Forever
  /\ since[t] # NotStarted
  /\ budget[t] + since[t] <= remain[t]
  /\ t \in Range(timerList) => budget[t] <= left[t]
  /\ t \notin Range(due)
  /\ t # firing
  /\ msg[t].notify # "TIMEOUT"

Budgeted(t) == budget[t] = 0 \/ Pending(t)

BudgetInv == TimersOK /\ \A t \in Task : Budgeted(t)

(* A step of n ticks counts them off the budget and on since.              *)
Counts(t, n) ==
  /\ call'[t] # "none"
  /\ budget'[t] = budget[t] - n
  /\ remain'[t] = remain[t]
  /\ since[t] # NotStarted => since'[t] # NotStarted /\ since'[t] <= since[t] + n

LEMMA StaysBudgeted ==
  ASSUME IType, TimeType, TimeType', NEW t \in Task, NEW n \in {0, 1}, Budgeted(t),
         call[t] # "none" => Drains(t, n),
         msg'[t].notify = "TIMEOUT" => msg[t].notify = "TIMEOUT" \/ t = firing,
         budget'[t] = 0 \/ Counts(t, n)
  PROVE  Budgeted(t)'
<1>0. /\ MaxWait \in Nat /\ Forever \notin 0 .. MaxWait /\ left[t] \in Int
      /\ budget[t] \in 0 .. MaxWait /\ budget'[t] \in 0 .. MaxWait
      /\ remain[t] \in Times
      /\ since[t] \in {NotStarted} \cup 0 .. MaxWait /\ since'[t] \in {NotStarted} \cup 0 .. MaxWait
  BY QueueFacts DEF IType, TypeOK, TimeType
<1>1. CASE budget'[t] = 0
  BY <1>1 DEF Budgeted
<1>2. CASE budget'[t] # 0
  <2>1. Counts(t, n) /\ budget[t] # 0
    BY <1>0, <1>2 DEF Counts
  <2>2. Pending(t) /\ Drains(t, n)
    BY <2>1 DEF Budgeted, Pending
  <2>3. remain[t] \in 0 .. MaxWait /\ since[t] \in 0 .. MaxWait
    BY <1>0, <2>2 DEF Pending, Times
  <2>4. since'[t] \in 0 .. MaxWait /\ since'[t] <= since[t] + n
    BY <1>0, <2>1, <2>2 DEF Counts, Pending
  <2>5. budget'[t] + since'[t] <= remain'[t]
    BY <1>0, <2>1, <2>2, <2>3, <2>4 DEF Counts, Pending
  <2>6. /\ t \in Range(timerList') => budget'[t] <= left'[t]
        /\ t \notin Range(due') /\ t # firing'
    BY <1>0, <2>1, <2>2 DEF Counts, Pending, Drains
  <2>7. since'[t] # NotStarted /\ remain'[t] # Forever /\ call'[t] # "none"
    BY <2>1, <2>2 DEF Counts, Pending
  <2>8. msg'[t].notify # "TIMEOUT"
    BY <2>2 DEF Pending
  <2>9. PICK q, d : q = timerList' /\ d = due'
    OBVIOUS
  <2>10. (t \in Range(q) => budget'[t] <= left'[t]) /\ t \notin Range(d)
    BY <2>6, <2>9
  <2> QED
    BY <2>5, <2>6, <2>7, <2>8, <2>9, <2>10 DEF Budgeted, Pending
<1> QED
  BY <1>1, <1>2

LEMMA BudgetInit == QueueInit => BudgetInv
<1> SUFFICES ASSUME QueueInit PROVE BudgetInv
  OBVIOUS
<1>1. TimersOK
  BY ConstantFacts DEF QueueInit, Init, TimersOK, IsInjective, Range
<1> QED
  BY <1>1 DEF QueueInit, BudgetInv, Budgeted

(* The kernel's step and the tick.                                         *)
LEMMA KernelBudgets ==
  ASSUME IType, TimeType, TimeType', BudgetInv, QueueKernelStep
  PROVE  BudgetInv'
<1>1. /\ remain' = [t \in Task |-> IF call'[t] = "none" THEN 0 ELSE remain[t]]
      /\ since' = [t \in Task |-> Aged(t)]
      /\ budget' = [t \in Task |-> Spent(t)]
  BY DEF QueueKernelStep
<1>2. /\ TimersOK'
      /\ \A t \in Task :
           /\ call[t] # "none" => Drains(t, Ticks)
           /\ msg'[t].notify = "TIMEOUT" => msg[t].notify = "TIMEOUT" \/ t = firing
  <2>1. CASE KernelStep
    BY <2>1, KernelDrains, KernelTimesOut DEF BudgetInv
  <2>2. CASE IsrSwitch
    <3>1. UNCHANGED <<timerVars, msg, tick>>
      BY <2>2 DEF IsrSwitch, Misdispatch, Crash, taskVars
    <3>2. Ticks = 0
      BY <3>1 DEF Ticks
    <3> QED
      BY <3>1, <3>2, FrameDrains DEF BudgetInv
  <2> QED
    BY <2>1, <2>2 DEF QueueKernelStep
<1>3. ASSUME NEW t \in Task PROVE budget'[t] = 0 \/ Counts(t, Ticks)
  <2>1. PICK n \in {0, 1} : n = Ticks /\ n = IF tick = "off" /\ tick' # "off" THEN 1 ELSE 0
    BY DEF Ticks
  <2>2. /\ MaxWait \in Nat /\ budget[t] \in 0 .. MaxWait /\ budget[t] - n \in Int
        /\ since[t] \in {NotStarted} \cup 0 .. MaxWait /\ since'[t] \in {NotStarted} \cup 0 .. MaxWait
    BY QueueFacts DEF TimeType
  <2>3. PICK m \in Int : m = budget[t] - n
    BY <2>2
  <2>4. Spent(t) = IF call'[t] = "none" THEN 0 ELSE Max({m, 0})
    BY <2>1, <2>3 DEF Spent
  <2>5. budget'[t] = 0 \/ (budget'[t] = m /\ call'[t] # "none")
    BY <1>1, <2>4, LargerOfZero
  <2>6. ASSUME call'[t] # "none", since[t] # NotStarted
        PROVE  since'[t] # NotStarted /\ since'[t] <= since[t] + n
    <3>1. since'[t] = Min({since[t] + n, MaxWait})
      BY <1>1, <2>1, <2>6 DEF Aged
    <3>2. since[t] + n \in Nat
      BY <2>2, <2>6
    <3>3. since'[t] \in Nat /\ since'[t] <= since[t] + n
      BY <2>2, <3>1, <3>2, SmallerOfTwo
    <3> QED
      BY <3>3 DEF NotStarted
  <2>7. call'[t] # "none" => remain'[t] = remain[t]
    BY <1>1
  <2> QED
    BY <2>1, <2>3, <2>5, <2>6, <2>7 DEF Counts
<1>4. Ticks \in {0, 1}
  BY DEF Ticks
<1>5. ASSUME NEW t \in Task PROVE Budgeted(t)'
  BY <1>2, <1>3, <1>4, StaysBudgeted DEF BudgetInv
<1> QED
  BY <1>2, <1>5 DEF BudgetInv

(* A step of no ticks has nothing to do with the wait of task t: neither   *)
(* the kernel's part of it nor the rest.                                   *)
Calm(t) ==
  /\ Drains(t, 0)
  /\ msg'[t].notify = "TIMEOUT" => msg[t].notify = "TIMEOUT"

Untouched(t) ==
  /\ Calm(t)
  /\ call'[t] = call[t]
  /\ remain'[t] = remain[t]
  /\ since'[t] = since[t]
  /\ budget'[t] = budget[t]

LEMMA UntouchedStays ==
  ASSUME IType, TimeType, TimeType', NEW t \in Task, Budgeted(t), Untouched(t)
  PROVE  Budgeted(t)'
<1>1. budget[t] \in 0 .. MaxWait /\ since[t] \in {NotStarted} \cup 0 .. MaxWait /\ MaxWait \in Nat
  BY QueueFacts DEF TimeType
<1>2. CASE budget[t] = 0
  BY <1>2 DEF Budgeted, Untouched
<1>3. CASE budget[t] # 0
  <2>1. call[t] # "none"
    BY <1>3 DEF Budgeted, Pending
  <2>2. Counts(t, 0)
    BY <1>1, <2>1 DEF Counts, NotStarted, Untouched
  <2> QED
    BY <2>2, StaysBudgeted DEF Untouched, Calm
<1> QED
  BY <1>2, <1>3

(* A queue function of task u: the other tasks keep their budgets.         *)
LEMMA CallBudgets ==
  ASSUME IType, TimeType, TimeType', BudgetInv, NEW u \in Task, TimersOK',
         \A t \in Task : t # u => Untouched(t),
         Budgeted(u)'
  PROVE  BudgetInv'
<1>1. ASSUME NEW t \in Task, t # u PROVE Budgeted(t)'
  BY <1>1, UntouchedStays DEF BudgetInv
<1> QED
  BY <1>1 DEF BudgetInv

LEMMA ReturnBudget ==
  ASSUME TimeType, call \in [Task -> CallPlaces], NEW u \in Task, Return(u)
  PROVE  /\ Budgeted(u)'
         /\ \A t \in Task : t # u /\ Calm(t) => Untouched(t)
<1>1. /\ call' = [call EXCEPT ![u] = "none"]
      /\ remain' = [remain EXCEPT ![u] = 0]
      /\ since' = [since EXCEPT ![u] = NotStarted]
      /\ budget' = [budget EXCEPT ![u] = 0]
  BY DEF Return, GotoCall
<1>2. budget'[u] = 0
  BY <1>1 DEF TimeType
<1>3. \A t \in Task : t # u => /\ call'[t] = call[t] /\ remain'[t] = remain[t]
                             /\ since'[t] = since[t] /\ budget'[t] = budget[t]
  BY <1>1 DEF TimeType
<1> QED
  BY <1>2, <1>3 DEF Budgeted, Untouched

LEMMA ResumeCalm ==
  ASSUME Inv, TimersOK, NEW i \in Ipc, sched.lists[i] # <<>>, Resume(i), UNCHANGED tick
  PROVE  TimersOK' /\ \A t \in Task : Calm(t)
<1>1. PICK u : u = Head(sched.lists[i])
  OBVIOUS
<1>2. u \in Task
  BY <1>1, FirstWaits
<1>3. StopTimer(u) /\ msg' = [msg EXCEPT ![u] = [NoMsg EXCEPT !.notify = "OK"]]
  BY <1>1 DEF Resume, ResumeFrom, StopWait
<1>4. [NoMsg EXCEPT !.notify = "OK"].notify = "OK" /\ msg \in [Task -> MsgType] /\ IType
  BY DEF NoMsg, Inv, IType, TypeOK
<1>5. \A t \in Task : msg'[t].notify = "TIMEOUT" => msg[t].notify = "TIMEOUT"
  BY <1>3, <1>4
<1>6. TimersOK' /\ \A t \in Task : Drains(t, 0)
  BY <1>2, <1>3, <1>4, StopDrains
<1> QED
  BY <1>5, <1>6 DEF Calm

LEMMA VarsCalm ==
  ASSUME IType, TimersOK, UNCHANGED vars
  PROVE  TimersOK' /\ \A t \in Task : Calm(t)
<1>1. UNCHANGED <<timerVars, tick, msg>>
  BY DEF vars, taskVars
<1>2. TimersOK' /\ \A t \in Task : Drains(t, 0)
  BY <1>1, FrameDrains
<1> QED
  BY <1>1, <1>2 DEF Calm

(* The caller blocks, with the whole of its time or what is left of it.    *)
LEMMA WaitBudget ==
  ASSUME Inv, TimeType, TimeType', call \in [Task -> CallPlaces], BudgetInv,
         NEW u \in User, NEW at, In(u, at), NEW i \in Ipc,
         NEW c \in {"sendWait", "receiveWait"}, NEW f, WaitOrFail(u, f, i, c)
  PROVE  BudgetInv'
<1>a. u \in Task /\ tick = "off" /\ IType /\ TimersOK
  BY QueueFacts DEF In, Executes, Inv, BudgetInv
<1>1. CASE Return(u) /\ UNCHANGED vars
  BY <1>a, <1>1, VarsCalm, ReturnBudget, CallBudgets
<1>2. CASE /\ remain[u] # 0
           /\ Block(i, u, remain[u])
           /\ GotoCall(u, c)
           /\ IF remain[u] = Forever \/ since[u] # NotStarted
              THEN UNCHANGED <<since, budget>>
              ELSE /\ since' = [since EXCEPT ![u] = 0]
                   /\ budget' = [budget EXCEPT ![u] = remain[u]]
           /\ UNCHANGED <<item, remain>>
  <2>1. /\ call' = [call EXCEPT ![u] = c] /\ remain' = remain
        /\ msg' = [msg EXCEPT ![u] = [source |-> i, reason |-> "IPC", notify |-> "NONE"]]
        /\ IF remain[u] = Forever THEN UNCHANGED timerVars ELSE StartTimer(u, remain[u])
        /\ UNCHANGED tick
    BY <1>2 DEF GotoCall, Block, BlockFrom
  <2>2. msg \in [Task -> MsgType]
    BY <1>a DEF IType, TypeOK
  <2>3. msg'[u].notify = "NONE" /\ \A t \in Task : t # u => msg'[t] = msg[t]
    BY <1>a, <2>1, <2>2
  <2>4. /\ MaxWait \in Nat /\ Forever \notin 0 .. MaxWait
        /\ remain[u] \in Times /\ budget[u] \in 0 .. MaxWait
        /\ since[u] \in {NotStarted} \cup 0 .. MaxWait
    BY <1>a, QueueFacts DEF TimeType
  <2>5. \A t \in Task : t # u => /\ call'[t] = call[t] /\ remain'[t] = remain[t]
                               /\ since'[t] = since[t] /\ budget'[t] = budget[t]
    BY <1>2, <2>1 DEF TimeType
  <2>6. CASE remain[u] = Forever
    <3>1. budget[u] = 0
      BY <1>a, <2>6 DEF BudgetInv, Budgeted, Pending
    <3>2. Budgeted(u)'
      BY <1>2, <2>6, <3>1 DEF Budgeted
    <3>3. TimersOK' /\ \A t \in Task : Drains(t, 0)
      BY <1>a, <2>1, <2>6, FrameDrains
    <3>4. \A t \in Task : t # u => Untouched(t)
      BY <2>3, <2>5, <3>3 DEF Untouched, Calm
    <3> QED
      BY <1>a, <3>2, <3>3, <3>4, CallBudgets
  <2>7. CASE remain[u] # Forever
    <3>1. remain[u] \in 0 .. MaxWait /\ StartTimer(u, remain[u])
      BY <2>1, <2>4, <2>7 DEF Times
    <3>2. PICK n \in Int : n = remain[u]
      BY <2>4, <3>1
    <3>3. /\ TimersOK'
          /\ \A t \in Task : t # u => Drains(t, 0)
          /\ left'[u] = n /\ UNCHANGED firing
          /\ u \in Range(due') => u \in Range(due)
      BY <1>a, <2>1, <3>1, <3>2, StartDrains
    <3>4. u # firing' /\ u \notin Range(due')
      BY <1>a, <3>3 DEF TimersOK
    <3>5. /\ since'[u] # NotStarted
          /\ \/ budget'[u] = 0
             \/ budget'[u] + since'[u] <= remain[u] /\ budget'[u] <= remain[u]
      <4>1. CASE since[u] = NotStarted
        <5>1. since'[u] = 0 /\ budget'[u] = remain[u]
          BY <1>2, <1>a, <2>7, <4>1 DEF TimeType
        <5> QED
          BY <2>4, <3>1, <5>1 DEF NotStarted
      <4>2. CASE since[u] # NotStarted
        <5>1. since'[u] = since[u] /\ budget'[u] = budget[u]
          BY <1>2, <4>2
        <5>2. budget[u] = 0 \/ budget[u] + since[u] <= remain[u]
          BY <1>a DEF BudgetInv, Budgeted, Pending
        <5>3. budget[u] + since[u] <= remain[u] => budget[u] <= remain[u]
          BY <2>4, <3>1, <4>2
        <5> QED
          BY <2>4, <3>1, <4>2, <5>1, <5>2, <5>3
      <4> QED
        BY <4>1, <4>2
    <3>6. call'[u] # "none"
      BY <1>a, <2>1
    <3>7. PICK d : d = due'
      OBVIOUS
    <3>8. Budgeted(u)'
      BY <2>1, <2>3, <2>7, <3>2, <3>3, <3>4, <3>5, <3>6, <3>7 DEF Budgeted, Pending
    <3>9. \A t \in Task : t # u => Untouched(t)
      BY <2>3, <2>5, <3>3 DEF Untouched, Calm
    <3> QED
      BY <1>a, <3>3, <3>8, <3>9, CallBudgets
  <2> QED
    BY <2>6, <2>7
<1> QED
  BY <1>1, <1>2 DEF WaitOrFail

LEMMA FunctionBudgets ==
  ASSUME Inv, TimeType, TimeType', Counting, call \in [Task -> CallPlaces], BudgetInv,
         NEW u \in User, QueueStep(u)
  PROVE  BudgetInv'
<1>a. u \in Task /\ IType /\ TimersOK
  BY QueueFacts DEF Inv, BudgetInv
<1>1. ASSUME Return(u), TimersOK', \A t \in Task : Calm(t) PROVE BudgetInv'
  BY <1>a, <1>1, ReturnBudget, CallBudgets
<1>2. ASSUME NEW f, NEW i, NEW n, Enter(u, f, i, n) PROVE BudgetInv'
  <2>1. UNCHANGED vars /\ TimersOK' /\ \A t \in Task : Calm(t)
    BY <1>2, <1>a, VarsCalm DEF Enter
  <2>2. call[u] = "none" /\ call' = [call EXCEPT ![u] = f] /\ UNCHANGED <<since, budget>>
        /\ remain' = [remain EXCEPT ![u] = n]
    BY <1>2 DEF Enter, In, GotoCall
  <2>3. Budgeted(u)'
    BY <1>a, <2>2 DEF BudgetInv, Budgeted, Pending
  <2>4. \A t \in Task : t # u => Untouched(t)
    BY <2>1, <2>2 DEF Untouched, TimeType
  <2> QED
    BY <1>a, <2>1, <2>3, <2>4, CallBudgets
<1>3. ASSUME NEW i \in Ipc, NEW at, In(u, at), ResumeOne(i, u), Return(u) PROVE BudgetInv'
  <2>1. CASE UNCHANGED vars
    BY <1>1, <1>3, <1>a, <2>1, VarsCalm
  <2>2. CASE sched.lists[i] # <<>> /\ Resume(i) /\ UNCHANGED tick
    BY <1>1, <1>3, <1>a, <2>2, ResumeCalm
  <2> QED
    BY <1>3, <2>1, <2>2 DEF ResumeOne
<1>4. CASE Send(u)
  BY <1>3, <1>4, WaitBudget, QueueFacts DEF Send
<1>5. CASE Receive(u)
  BY <1>3, <1>5, WaitBudget, QueueFacts DEF Receive
<1>6. CASE Reset(u)
  BY <1>1, <1>6, <1>a, VarsCalm DEF Reset
<1>7. CASE Woken(u)
  <2>1. UNCHANGED vars /\ TimersOK' /\ \A t \in Task : Calm(t)
    BY <1>7, <1>a, VarsCalm DEF Woken
  <2>2. ASSUME NEW f \in {"send", "receive"},
               call[u] = IF f = "send" THEN "sendWait" ELSE "receiveWait",
               ~TooLate(u), Recount(u), GotoCall(u, f), UNCHANGED budget
        PROVE  BudgetInv'
    <3>1. call' = [call EXCEPT ![u] = f]
      BY <2>2 DEF GotoCall
    <3>2. \A t \in Task : t # u => Untouched(t)
      BY <2>1, <2>2, <3>1 DEF Untouched, Recount, TimeType
    <3>3. ASSUME budget[u] = 0 PROVE Budgeted(u)'
      BY <1>a, <2>2, <3>3 DEF Budgeted
    <3>4. ASSUME budget[u] # 0 PROVE Budgeted(u)'
      <4>1. Pending(u)
        BY <1>a, <3>4 DEF BudgetInv, Budgeted
      <4>2. /\ remain'[u] = remain[u] - since[u] /\ since'[u] = 0
            /\ remain[u] \in 0 .. MaxWait /\ since[u] \in 0 .. MaxWait
            /\ budget[u] \in 0 .. MaxWait /\ since[u] < remain[u]
            /\ MaxWait \in Nat /\ Forever \notin 0 .. MaxWait
        BY <1>a, <2>2, <4>1, QueueFacts DEF Recount, TimeType, Times, Pending, TooLate, NotStarted
      <4>3. remain[u] - since[u] \in 0 .. MaxWait
        BY <4>2
      <4>4. /\ remain'[u] # Forever /\ since'[u] # NotStarted
            /\ budget'[u] + since'[u] <= remain'[u] /\ budget'[u] = budget[u]
        BY <2>2, <4>1, <4>2, <4>3 DEF Pending, NotStarted
      <4>5. call'[u] # "none"
        BY <1>a, <3>1
      <4>6. UNCHANGED <<timerList, left, due, firing, msg>>
        BY <2>1 DEF vars, timerVars, taskVars
      <4>7. Pending(u)'
        BY <4>1, <4>4, <4>5, <4>6 DEF Pending
      <4> QED
        BY <4>7 DEF Budgeted
    <3>5. Budgeted(u)'
      BY <3>3, <3>4
    <3> QED
      BY <1>a, <2>1, <3>2, <3>5, CallBudgets
  <2>3. CASE Return(u)
    BY <1>1, <2>1, <2>3
  <2> QED
    BY <1>7, <2>2, <2>3 DEF Woken, In
<1>8. CASE DeleteQueue(u)
  <2>1. PICK q : q = Senders \o Receivers
    OBVIOUS
  <2>2. WakeAll(q) /\ UNCHANGED tick /\ Return(u)
    BY <1>8, <2>1 DEF DeleteQueue, ResumeAll
  <2>3. TimersOK' /\ \A t \in Task : Drains(t, 0)
    BY <1>a, <2>2, WakeDrains
  <2>4. [NoMsg EXCEPT !.notify = "DELETED"].notify = "DELETED"
    BY DEF NoMsg
  <2>5. \A t \in Task : msg'[t].notify = "TIMEOUT" => msg[t].notify = "TIMEOUT"
    BY <2>2, <2>4 DEF WakeAll
  <2> QED
    BY <1>1, <2>2, <2>3, <2>5 DEF Calm
<1> QED
  BY <1>2, <1>4, <1>5, <1>6, <1>7, <1>8
  DEF QueueStep, EnterSend, EnterReceive, EnterReset, EnterDelete

LEMMA BudgetStep == QueueInv /\ QueueInv' /\ BudgetInv /\ [QueueNext]_allVars => BudgetInv'
<1> SUFFICES ASSUME QueueInv, QueueInv', BudgetInv, [QueueNext]_allVars PROVE BudgetInv'
  OBVIOUS
<1>a. /\ Inv /\ IType /\ TimeType /\ TimeType' /\ Counting /\ TimersOK
      /\ call \in [Task -> CallPlaces]
  BY DEF QueueInv, Inv, RInv, Sending, CallPlaces, BudgetInv
<1>1. ASSUME TimersOK', \A t \in Task : Calm(t), UNCHANGED <<call, waitVars>> PROVE BudgetInv'
  <2>1. \A t \in Task : Untouched(t)
    BY <1>1 DEF Untouched, waitVars
  <2>2. ASSUME NEW t \in Task PROVE Budgeted(t)'
    BY <1>a, <2>1, UntouchedStays DEF BudgetInv
  <2> QED
    BY <1>1, <2>2 DEF BudgetInv
<1>2. ASSUME Interrupt, NEW i \in Ipc, IsrResumeOne(i), UNCHANGED <<call, waitVars>>
      PROVE  BudgetInv'
  <2>1. CASE UNCHANGED vars
    BY <1>1, <1>2, <1>a, <2>1, VarsCalm
  <2>2. CASE sched.lists[i] # <<>> /\ Resume(i) /\ UNCHANGED tick
    BY <1>1, <1>2, <1>a, <2>2, ResumeCalm
  <2> QED
    BY <1>2, <2>1, <2>2 DEF IsrResumeOne
<1>3. CASE QueueKernelStep
  BY <1>3, <1>a, KernelBudgets
<1>4. ASSUME NEW u \in User, QueueStep(u) PROVE BudgetInv'
  BY <1>4, <1>a, FunctionBudgets
<1>5. CASE UNCHANGED allVars
  BY <1>1, <1>5, <1>a, VarsCalm DEF allVars, ipcVars, queueVars
<1>6. CASE IsrReceive \/ \E i \in Item : IsrSend(i)
  <2>1. Interrupt /\ UNCHANGED <<call, waitVars>>
    BY <1>6 DEF IsrSend, IsrReceive
  <2>2. IsrResumeOne(SendIpc) \/ IsrResumeOne(ReceiveIpc) \/ UNCHANGED vars
    BY <1>6 DEF IsrSend, IsrReceive
  <2> QED
    BY <1>1, <1>2, <1>a, <2>1, <2>2, VarsCalm, QueueFacts
<1> QED
  BY <1>3, <1>4, <1>5, <1>6 DEF QueueNext

PatientStep ==
  \A t \in User :
    /\ Woken(t)
    /\ call'[t] = "none"
    /\ msg[t].notify \in {"OK", "TIMEOUT"}
    => budget[t] = 0

LEMMA BudgetsArePatient == QueueInv /\ BudgetInv => PatientStep
<1> SUFFICES ASSUME QueueInv, BudgetInv, NEW t \in User, Woken(t), call'[t] = "none",
                    msg[t].notify \in {"OK", "TIMEOUT"}, budget[t] # 0
             PROVE  FALSE
  BY DEF PatientStep
<1>1. t \in Task /\ Pending(t)
  BY QueueFacts DEF BudgetInv, Budgeted
<1>2. msg[t].notify = "OK"
  BY <1>1 DEF Pending
<1>3. call \in [Task -> CallPlaces]
  BY DEF QueueInv, RInv, Sending, CallPlaces
<1>4. \A f \in {"send", "receive"} : GotoCall(t, f) => call'[t] # "none"
  BY <1>1, <1>3 DEF GotoCall
<1>5. TooLate(t)
  BY <1>2, <1>4 DEF Woken, Notified
<1>6. /\ MaxWait \in Nat /\ Forever \notin 0 .. MaxWait /\ budget[t] \in 0 .. MaxWait
      /\ remain[t] \in 0 .. MaxWait /\ since[t] \in 0 .. MaxWait
  BY <1>1, QueueFacts DEF QueueInv, TimeType, Times, Pending
<1> QED
  BY <1>1, <1>5, <1>6 DEF Pending, TooLate

(* No round of the loop shortens the wait: whatever wake-ups, resets and   *)
(* other tasks come in between, a send or a receive fails for lack of time *)
(* only when all the ticks it was given have passed since it first blocked.*)
THEOREM QueueNeverEarly == QueueSpec => NeverEarly
<1>1. QueueInv /\ BudgetInv => [PatientStep]_allVars
  BY BudgetsArePatient
<1>2. NeverEarly <=> [][PatientStep]_allVars
  BY PTL DEF NeverEarly, PatientStep
<1> QED
  BY <1>1, <1>2, BudgetInit, BudgetStep, QueueInvHolds, PTL DEF QueueSpec

-----------------------------------------------------------------------------
(* Nobody is left waiting beside an item or a slot.  A task that was       *)
(* called and is then created anew would take its call with it, and a      *)
(* number of tasks on the way is only defined for finitely many.           *)

ToSend    == Coming("send", "sendWait")
ToReceive == Coming("receive", "receiveWait")
Sends(t)    == call[t] = "send" \/ (call[t] = "sendWait" /\ Notified(t))
Receives(t) == call[t] = "receive" \/ (call[t] = "receiveWait" /\ Notified(t))
LEMMA ComingAre ==
  \A t : /\ t \in ToSend <=> t \in User /\ Sends(t)
         /\ t \in ToReceive <=> t \in User /\ Receives(t)
         /\ t \in ToSend' <=> t \in User /\ Sends(t)'
         /\ t \in ToReceive' <=> t \in User /\ Receives(t)'
<1> TAKE t
<1>1. /\ t \in ToSend <=> t \in User /\ Sends(t)
      /\ t \in ToReceive <=> t \in User /\ Receives(t)
  BY DEF ToSend, ToReceive, Coming, Sends, Receives
<1>2. /\ t \in ToSend' <=> t \in User /\ Sends(t)'
      /\ t \in ToReceive' <=> t \in User /\ Receives(t)'
  BY DEF ToSend, ToReceive, Coming, Sends, Receives
<1> QED
  BY <1>1, <1>2
(* There are m things for the tasks of A, then n for those of B: nobody    *)
(* but u has left.  If there are too many, there were before.              *)
LEMMA TooManyBefore ==
  ASSUME IsFiniteSet(User), NEW A \in SUBSET User, NEW B \in SUBSET User, NEW u,
         \A t \in User : t # u /\ t \in A => t \in B,
         NEW m \in Int, NEW n \in Int,
         \/ n <= m /\ (u \in A => u \in B)
         \/ n < m
         \/ n <= m + 1 /\ u \notin A /\ u \in B
         \/ n <= 0,
         n > Cardinality(B)
  PROVE  m > Cardinality(A)
<1>1. IsFiniteSet(A) /\ IsFiniteSet(B)
  BY FS_Subset
<1>2. Cardinality(A) \in Nat /\ Cardinality(B) \in Nat
  BY <1>1, FS_CardinalityType
<1>3. IsFiniteSet(B \ {u}) /\ A \ {u} \in SUBSET (B \ {u})
  BY <1>1, FS_RemoveElement
<1>4. Cardinality(A \ {u}) <= Cardinality(B \ {u})
  BY <1>3, FS_Subset
<1>5. /\ Cardinality(A \ {u}) = IF u \in A THEN Cardinality(A) - 1 ELSE Cardinality(A)
      /\ Cardinality(B \ {u}) = IF u \in B THEN Cardinality(B) - 1 ELSE Cardinality(B)
  BY <1>1, FS_RemoveElement
<1> QED
  BY <1>2, <1>4, <1>5
LEMMA NoReceiverStalls ==
  ASSUME IsFiniteSet(User), items \in Int, items' \in Int, NEW u,
         Receivers' # <<>> => Receivers # <<>>,
         \A t \in User : t # u /\ Receives(t) => Receives(t)',
         \/ items' <= items /\ (u \in User /\ Receives(u) => Receives(u)')
         \/ items' < items
         \/ items' <= items + 1 /\ u \in User /\ ~Receives(u) /\ Receives(u)'
         \/ items' <= 0
         \/ Receivers' = <<>>
  PROVE  ReceiversStall' => ReceiversStall
<1> SUFFICES ASSUME ReceiversStall' PROVE ReceiversStall
  OBVIOUS
<1>1. PICK A, B : A = ToReceive /\ B = ToReceive'
  OBVIOUS
<1>2. PICK m \in Int, n \in Int : m = items /\ n = items'
  OBVIOUS
<1>3. /\ A \in SUBSET User /\ B \in SUBSET User
      /\ \A t : t \in A <=> t \in User /\ Receives(t)
      /\ \A t : t \in B <=> t \in User /\ Receives(t)'
  BY <1>1, ComingAre
<1>4. Receivers' # <<>> /\ n > Cardinality(B)
  BY <1>1, <1>2 DEF ReceiversStall, ToReceive
<1>5. \A t \in User : t # u /\ t \in A => t \in B
  BY <1>3
<1>6. \/ n <= m /\ (u \in A => u \in B)
      \/ n < m
      \/ n <= m + 1 /\ u \notin A /\ u \in B
      \/ n <= 0
  BY <1>2, <1>3, <1>4
<1>7. IsFiniteSet(User) /\ m \in Int /\ n \in Int
  OBVIOUS
<1>8. m > Cardinality(A)
  BY ONLY <1>3, <1>4, <1>5, <1>6, <1>7, TooManyBefore
<1> QED
  BY <1>1, <1>2, <1>4, <1>8 DEF ReceiversStall, ToReceive
LEMMA NoSenderStalls ==
  ASSUME IsFiniteSet(User), Room - items \in Int, Room' - items' \in Int, NEW u,
         Senders' # <<>> => Senders # <<>>,
         \A t \in User : t # u /\ Sends(t) => Sends(t)',
         \/ Room' - items' <= Room - items /\ (u \in User /\ Sends(u) => Sends(u)')
         \/ Room' - items' < Room - items
         \/ Room' - items' <= Room - items + 1 /\ u \in User /\ ~Sends(u) /\ Sends(u)'
         \/ Room' - items' <= 0
         \/ Senders' = <<>>
  PROVE  SendersStall' => SendersStall
<1> SUFFICES ASSUME SendersStall' PROVE SendersStall
  OBVIOUS
<1>1. PICK A, B : A = ToSend /\ B = ToSend'
  OBVIOUS
<1>2. PICK m \in Int, n \in Int : m = Room - items /\ n = Room' - items'
  OBVIOUS
<1>3. /\ A \in SUBSET User /\ B \in SUBSET User
      /\ \A t : t \in A <=> t \in User /\ Sends(t)
      /\ \A t : t \in B <=> t \in User /\ Sends(t)'
  BY <1>1, ComingAre
<1>4. Senders' # <<>> /\ n > Cardinality(B)
  BY <1>1, <1>2 DEF SendersStall, ToSend
<1>5. \A t \in User : t # u /\ t \in A => t \in B
  BY <1>3
<1>6. \/ n <= m /\ (u \in A => u \in B)
      \/ n < m
      \/ n <= m + 1 /\ u \notin A /\ u \in B
      \/ n <= 0
  BY <1>2, <1>3, <1>4
<1>7. IsFiniteSet(User) /\ m \in Int /\ n \in Int
  OBVIOUS
<1>8. m > Cardinality(A)
  BY ONLY <1>3, <1>4, <1>5, <1>6, <1>7, TooManyBefore
<1> QED
  BY <1>1, <1>2, <1>4, <1>8 DEF SendersStall, ToSend
LEMMA SomebodyWaited ==
  ASSUME Inv, Inv', NEW i \in Ipc, \A t \in Task : Waits(t, i)' => Waits(t, i),
         sched'.lists[i] # <<>>
  PROVE  sched.lists[i] # <<>>
<1>1. \A t : /\ t \in Range(sched.lists[i]) <=> t \in Task /\ Waits(t, i)
             /\ t \in Range(sched'.lists[i]) <=> t \in Task /\ Waits(t, i)'
  BY WaitersAre
<1>2. PICK q, r : q = sched'.lists[i] /\ r = sched.lists[i]
  OBVIOUS
<1>3. sched' \in SchedType /\ i \in ListId
  BY DEF Inv, IType, TypeOK, ListId
<1>4. q \in Seq(Task) /\ q # <<>>
  BY <1>2, <1>3 DEF SchedType
<1>5. q[1] \in Range(q)
  BY <1>4, EmptySeq, LenProperties DEF Range
<1>6. q[1] \in Range(r)
  BY <1>1, <1>2, <1>5
<1>7. r # <<>>
  BY <1>6 DEF Range
<1> QED
  BY <1>2, <1>7
LEMMA NobodyElseWaits ==
  ASSUME Inv, Inv', \A t \in Task : \A i \in {SendIpc, ReceiveIpc} :
                      Waits(t, i)' => Waits(t, i)
  PROVE  /\ Receivers' # <<>> => Receivers # <<>>
         /\ Senders' # <<>> => Senders # <<>>
<1>1. /\ sched'.lists[SendIpc] # <<>> => sched.lists[SendIpc] # <<>>
      /\ sched'.lists[ReceiveIpc] # <<>> => sched.lists[ReceiveIpc] # <<>>
  BY SomebodyWaited, QueueFacts
<1> QED
  BY <1>1 DEF Receivers, Senders
(* Nobody on the way has gone, and the ring is the same.                   *)
LEMMA NothingTaken ==
  ASSUME IsFiniteSet(User), Inv, Inv', RingType, UNCHANGED <<items, valid>>,
         \A t \in Task : \A i \in {SendIpc, ReceiveIpc} : Waits(t, i)' => Waits(t, i),
         \A t \in User : (Sends(t) => Sends(t)') /\ (Receives(t) => Receives(t)')
  PROVE  Stall' => Stall
<1>1. items \in Int /\ Room \in Int /\ items' = items /\ Room' = Room
  BY QueueAssumption DEF RingType, Room
<1>2. /\ items' \in Int /\ items' <= items
      /\ Room - items \in Int /\ Room' - items' \in Int /\ Room' - items' <= Room - items
  BY <1>1
<1>3. PICK u : u \notin User
  BY NoSetContainsEverything
<1>4. ReceiversStall' => ReceiversStall
  BY <1>1, <1>2, <1>3, NoReceiverStalls, NobodyElseWaits
<1>5. SendersStall' => SendersStall
  BY <1>2, <1>3, NoSenderStalls, NobodyElseWaits
<1> QED
  BY <1>4, <1>5 DEF Stall

(* A task is called, or nobody is there to be called: the answer comes     *)
(* from object i, and whoever was called before still is.                  *)
LEMMA CalledInTurn ==
  ASSUME Inv, WaitInv, NEW i \in {SendIpc, ReceiveIpc},
         \/ sched.lists[i] = <<>> /\ UNCHANGED <<status, msg>>
         \/ sched.lists[i] # <<>> /\ Resume(i)
  PROVE  /\ \A v \in Task : \A j \in {SendIpc, ReceiveIpc} : Waits(v, j)' => Waits(v, j)
         /\ \A v \in Task : Notified(v) => Notified(v)'
         /\ sched.lists[i] = <<>> \/ \E u \in User : /\ Waits(u, i)
                                                     /\ ~Notified(u)
                                                     /\ Notified(u)'
<1>1. i \in Ipc
  BY QueueFacts
<1>2. CASE sched.lists[i] = <<>> /\ UNCHANGED <<status, msg>>
  BY <1>2 DEF Waits, Notified
<1>3. CASE sched.lists[i] # <<>> /\ Resume(i)
  <2>1. PICK u \in Task : u = Head(sched.lists[i]) /\ Waits(u, i)
    BY <1>1, <1>3, FirstWaits
  <2>2. /\ status' = [status EXCEPT ![u] = "READY"]
        /\ msg' = [msg EXCEPT ![u] = [NoMsg EXCEPT !.notify = "OK"]]
        /\ status \in [Task -> Status] /\ msg \in [Task -> MsgType]
    BY <1>3, <2>1 DEF Resume, ResumeFrom, Inv, IType, TypeOK
  <2>3. /\ status'[u] = "READY" /\ msg'[u].notify = "OK"
        /\ \A t \in Task : t # u => status'[t] = status[t] /\ msg'[t] = msg[t]
    BY <2>1, <2>2 DEF NoMsg
  <2>4. u \in User /\ msg[u].notify = "NONE"
    BY <2>1, Apart DEF WaitInv, Settled, Waits
  <2>5. \A v \in Task : \A j \in {SendIpc, ReceiveIpc} : Waits(v, j)' => Waits(v, j)
    BY <2>3 DEF Waits
  <2>6. \A v \in Task : Notified(v) => Notified(v)'
    BY <2>3 DEF Notified
  <2>7. ~Notified(u) /\ Notified(u)'
    BY <2>3, <2>4 DEF Notified
  <2> QED
    BY <2>1, <2>4, <2>5, <2>6, <2>7
<1> QED
  BY <1>2, <1>3

(* Task t, which has not waited, is done; no other task moves.             *)
Finishes(t) ==
  /\ \A v \in Task : v # t => call'[v] = call[v]
  /\ t \in Task => call[t] \in {"send", "receive", "reset", "delete"}

LEMMA StillComing ==
  ASSUME NEW t, Finishes(t), \A v \in Task : Notified(v) => Notified(v)'
  PROVE  \A v \in User : v # t => (Sends(v) => Sends(v)') /\ (Receives(v) => Receives(v)')
BY QueueFacts DEF Finishes, Sends, Receives, Notified

LEMMA PutStallsNobody ==
  ASSUME IsFiniteSet(User), QueueInv, Inv', WaitInv, NEW t, Finishes(t),
         t \in Task => call[t] = "send",
         NEW i, NEW c, WriteItem(i, c), UNCHANGED valid,
         \/ Receivers = <<>> /\ UNCHANGED <<status, msg>>
         \/ Receivers # <<>> /\ Resume(ReceiveIpc)
  PROVE  Stall' => Stall
<1>1. /\ Inv /\ items \in Int /\ items' = items + 1 /\ Room \in Int /\ Room' = Room
  BY QueueAssumption DEF QueueInv, RInv, RingType, Room, WriteItem
<1>2. /\ items' \in Int /\ Room - items \in Int /\ Room' - items' \in Int
      /\ items' <= items + 1 /\ Room' - items' < Room - items
  BY <1>1
<1>3. /\ \A v \in Task : \A j \in {SendIpc, ReceiveIpc} : Waits(v, j)' => Waits(v, j)
      /\ \A v \in Task : Notified(v) => Notified(v)'
      /\ Receivers = <<>> \/ \E u \in User : /\ Waits(u, ReceiveIpc)
                                             /\ ~Notified(u)
                                             /\ Notified(u)'
  BY <1>1, CalledInTurn DEF Receivers
<1>4. \A v \in User : v # t => (Sends(v) => Sends(v)') /\ (Receives(v) => Receives(v)')
  BY <1>3, StillComing
<1>5. \A v \in User : Receives(v) => Receives(v)'
  BY <1>4, QueueFacts DEF Receives
<1>6. (Receivers' # <<>> => Receivers # <<>>) /\ (Senders' # <<>> => Senders # <<>>)
  BY <1>1, <1>3, NobodyElseWaits
<1>7. SendersStall' => SendersStall
  BY <1>2, <1>4, <1>6, NoSenderStalls
<1>8. CASE Receivers = <<>>
  BY <1>1, <1>2, <1>5, <1>6, <1>7, <1>8, NoReceiverStalls DEF Stall
<1>9. ASSUME NEW u \in User, Waits(u, ReceiveIpc), ~Notified(u), Notified(u)'
      PROVE  Stall' => Stall
  <2>1. u \in Task /\ call[u] = "receiveWait" /\ call'[u] = "receiveWait"
    BY <1>9, QueueFacts DEF WaitInv, Settled, Finishes
  <2>2. ~Receives(u) /\ Receives(u)'
    BY <1>9, <2>1 DEF Receives
  <2>3. ReceiversStall' => ReceiversStall
    BY <1>1, <1>2, <1>5, <1>6, <2>2, NoReceiverStalls
  <2> QED
    BY <1>7, <2>3 DEF Stall
<1> QED
  BY <1>3, <1>8, <1>9

LEMMA GetStallsNobody ==
  ASSUME IsFiniteSet(User), QueueInv, Inv', WaitInv, NEW t, Finishes(t),
         t \in Task => call[t] = "receive",
         NEW c, ReadItem(c), UNCHANGED valid,
         \/ Senders = <<>> /\ UNCHANGED <<status, msg>>
         \/ Senders # <<>> /\ Resume(SendIpc)
  PROVE  Stall' => Stall
<1>1. /\ Inv /\ items \in Int /\ items' = items - 1 /\ Room \in Int /\ Room' = Room
  BY QueueAssumption DEF QueueInv, RInv, RingType, Room, ReadItem
<1>2. /\ items' \in Int /\ Room - items \in Int /\ Room' - items' \in Int
      /\ items' < items /\ Room' - items' <= Room - items + 1
  BY <1>1
<1>3. /\ \A v \in Task : \A j \in {SendIpc, ReceiveIpc} : Waits(v, j)' => Waits(v, j)
      /\ \A v \in Task : Notified(v) => Notified(v)'
      /\ Senders = <<>> \/ \E u \in User : /\ Waits(u, SendIpc)
                                           /\ ~Notified(u)
                                           /\ Notified(u)'
  BY <1>1, CalledInTurn DEF Senders
<1>4. \A v \in User : v # t => (Sends(v) => Sends(v)') /\ (Receives(v) => Receives(v)')
  BY <1>3, StillComing
<1>5. \A v \in User : Sends(v) => Sends(v)'
  BY <1>4, QueueFacts DEF Sends
<1>6. (Receivers' # <<>> => Receivers # <<>>) /\ (Senders' # <<>> => Senders # <<>>)
  BY <1>1, <1>3, NobodyElseWaits
<1>7. ReceiversStall' => ReceiversStall
  BY <1>1, <1>2, <1>4, <1>6, NoReceiverStalls
<1>8. CASE Senders = <<>>
  BY <1>2, <1>5, <1>6, <1>7, <1>8, NoSenderStalls DEF Stall
<1>9. ASSUME NEW u \in User, Waits(u, SendIpc), ~Notified(u), Notified(u)'
      PROVE  Stall' => Stall
  <2>1. u \in Task /\ call[u] = "sendWait" /\ call'[u] = "sendWait"
    BY <1>9, QueueFacts DEF WaitInv, Settled, Finishes
  <2>2. ~Sends(u) /\ Sends(u)'
    BY <1>9, <2>1 DEF Sends
  <2>3. SendersStall' => SendersStall
    BY <1>2, <1>5, <1>6, <2>2, NoSenderStalls
  <2> QED
    BY <1>7, <2>3 DEF Stall
<1> QED
  BY <1>3, <1>8, <1>9

LEMMA KernelStallsNobody ==
  ASSUME IsFiniteSet(User), NoRecreation, QueueInv, WaitInv, Inv', QueueKernelStep
  PROVE  Stall' => Stall
<1>1. Inv /\ RingType /\ UNCHANGED <<items, valid>>
  BY DEF QueueInv, RInv, QueueKernelStep, ringVars
<1>2. ASSUME \A t \in Task : \A i \in {SendIpc, ReceiveIpc} : Waits(t, i)' => Waits(t, i),
             \A t \in Task : call[t] # "none" =>
               call'[t] = call[t] /\ (Notified(t) => Notified(t)')
      PROVE  Stall' => Stall
  <2>1. \A t \in User : (Sends(t) => Sends(t)') /\ (Receives(t) => Receives(t)')
    BY <1>2, QueueFacts DEF Sends, Receives
  <2> QED
    BY <1>1, <1>2, <2>1, NothingTaken
<1>3. CASE KernelStep
  <2>1. ASSUME NEW t \in Task, NEW i \in {SendIpc, ReceiveIpc}, Waits(t, i)'
        PROVE  Waits(t, i)
    <3>1. [Next]_vars /\ i \in Ipc
      BY <1>3, KernelStepIsNext, QueueFacts
    <3> QED
      BY <1>1, <2>1, <3>1, KernelBlocksNobody
  <2>2. ASSUME NEW t \in Task, call[t] # "none"
        PROVE  call'[t] = call[t] /\ (Notified(t) => Notified(t)')
    <3>1. status'[t] # "INIT"
      BY <1>1, <1>3, <2>2, KernelCreatesNobody DEF WaitInv, Settled
    <3>2. call'[t] = call[t]
      BY <1>3, <3>1 DEF KernelStep, Restarted
    <3>3. Told(t)
      BY <1>1, <1>3, KernelDisturbsOne
    <3>4. msg'[t] = msg[t] \/ status[t] = "BLOCKED"
      BY <2>2, <3>1, <3>3 DEF Told
    <3>5. Notified(t) => Notified(t)'
      BY <3>4 DEF Notified, WaitInv, Settled
    <3> QED
      BY <3>2, <3>5
  <2> QED
    BY <1>2, <2>1, <2>2
<1>4. CASE IsrSwitch
  <2>1. UNCHANGED call /\ UNCHANGED msg
    BY <1>4 DEF IsrSwitch, Misdispatch, Crash, taskVars
  <2>2. \A t \in Task : \/ status'[t] = status[t]
                        \/ {status[t], status'[t]} \subseteq {"READY", "RUNNING"}
    <3>1. CASE Dispatch
      <4>1. current \in Task
        BY <1>4 DEF IsrSwitch, QueueInv, QueueType
      <4> QED
        BY <1>1, <3>1, <4>1, DispatchTransition
    <3>2. CASE Misdispatch
      BY <3>2 DEF Misdispatch, Crash, taskVars
    <3> QED
      BY <1>4, <3>1, <3>2 DEF IsrSwitch
  <2> QED
    BY <1>2, <2>1, <2>2 DEF Waits, Notified
<1> QED
  BY <1>3, <1>4 DEF QueueKernelStep

LEMMA WaitStallsNobody ==
  ASSUME IsFiniteSet(User), QueueInv, Inv', WaitInv, NEW t \in User,
         NEW i \in {SendIpc, ReceiveIpc}, NEW at, In(t, at),
         i = SendIpc => at = "send" /\ ~HasRoom,
         i = ReceiveIpc => at = "receive" /\ items = 0,
         NEW f, NEW c, WaitOrFail(t, f, i, c), UNCHANGED valid
  PROVE  Stall' => Stall
<1>1. /\ Inv /\ items \in Int /\ items' = items /\ Room \in Int /\ Room' = Room
  BY QueueAssumption DEF QueueInv, RInv, RingType, Room, WaitOrFail, ringVars
<1>2. /\ items' \in Int /\ Room - items \in Int /\ Room' - items' \in Int
      /\ items' <= items /\ Room' - items' <= Room - items
  BY <1>1
<1>3. t \in Task /\ call[t] = at /\ call \in [Task -> CallPlaces] /\ SendIpc # ReceiveIpc
  BY <1>1, CallerReady, QueueFacts DEF QueueInv, RInv, Sending, CallPlaces
<1>4. \A v \in Task : v # t => call'[v] = call[v]
  BY <1>3 DEF WaitOrFail, Return, GotoCall
<1>5. \A v \in Task : v # t => status'[v] = status[v] /\ msg'[v] = msg[v]
  BY <1>1 DEF WaitOrFail, Block, BlockFrom, vars, taskVars, Inv, IType, TypeOK
<1>6. \A j \in {SendIpc, ReceiveIpc} : j # i => (Waits(t, j)' => Waits(t, j))
  <2>1. CASE UNCHANGED vars
    BY <2>1 DEF Waits, vars, taskVars
  <2>2. CASE Block(i, t, remain[t])
    <3>1. msg' = [msg EXCEPT ![t] = [source |-> i, reason |-> "IPC", notify |-> "NONE"]]
      BY <2>2 DEF Block, BlockFrom
    <3>2. msg \in [Task -> MsgType]
      BY <1>1 DEF Inv, IType, TypeOK
    <3>3. msg'[t].source = i
      BY <1>3, <3>1, <3>2
    <3> QED
      BY <3>3 DEF Waits
  <2> QED
    BY <2>1, <2>2 DEF WaitOrFail
<1>7. \A j \in {SendIpc, ReceiveIpc} : j # i =>
        \A v \in Task : Waits(v, j)' => Waits(v, j)
  BY <1>5, <1>6 DEF Waits
<1>8. ASSUME NEW j \in {SendIpc, ReceiveIpc}, j # i
      PROVE  sched'.lists[j] # <<>> => sched.lists[j] # <<>>
  BY <1>1, <1>7, <1>8, QueueFacts, SomebodyWaited
<1>9. /\ \A v \in User : v # t /\ Sends(v) => Sends(v)'
      /\ \A v \in User : v # t /\ Receives(v) => Receives(v)'
  BY <1>4, <1>5, QueueFacts DEF Sends, Receives, Notified
<1>10. CASE i = SendIpc
  <2>1. ~Receives(t) /\ Room' - items' <= 0
    BY <1>1, <1>3, <1>10 DEF Receives, HasRoom
  <2>2. Receivers' # <<>> => Receivers # <<>>
    BY <1>3, <1>8, <1>10 DEF Receivers
  <2>3. ReceiversStall' => ReceiversStall
    BY <1>1, <1>2, <1>9, <2>1, <2>2, NoReceiverStalls
  <2>4. ~SendersStall'
    <3>1. ToSend' \subseteq User
      BY ComingAre
    <3>2. Cardinality(ToSend') \in Nat
      BY <3>1, FS_Subset, FS_CardinalityType
    <3> QED
      BY <1>2, <2>1, <3>2 DEF SendersStall, ToSend
  <2> QED
    BY <2>3, <2>4 DEF Stall
<1>11. CASE i = ReceiveIpc
  <2>1. ~Sends(t) /\ items' <= 0
    BY <1>1, <1>3, <1>11 DEF Sends
  <2>2. Senders' # <<>> => Senders # <<>>
    BY <1>3, <1>8, <1>11 DEF Senders
  <2>3. SendersStall' => SendersStall
    BY <1>1, <1>2, <1>9, <2>1, <2>2, NoSenderStalls
  <2>4. ~ReceiversStall'
    <3>1. ToReceive' \subseteq User
      BY ComingAre
    <3>2. Cardinality(ToReceive') \in Nat
      BY <3>1, FS_Subset, FS_CardinalityType
    <3> QED
      BY <1>2, <2>1, <3>2 DEF ReceiversStall, ToReceive
  <2> QED
    BY <2>3, <2>4 DEF Stall
<1> QED
  BY <1>10, <1>11

LEMMA WokenStallsNobody ==
  ASSUME IsFiniteSet(User), QueueInv, Inv', NEW t \in User, Woken(t), ~GivesUp(t)
  PROVE  Stall' => Stall
<1>1. /\ Inv /\ RingType /\ UNCHANGED <<items, valid>> /\ UNCHANGED <<status, msg>>
      /\ call \in [Task -> CallPlaces]
  BY DEF QueueInv, RInv, Woken, ringVars, vars, taskVars, Sending, CallPlaces
<1>2. PICK f \in {"send", "receive"} :
        /\ In(t, IF f = "send" THEN "sendWait" ELSE "receiveWait")
        /\ \/ ~Notified(t) /\ GotoCall(t, "none")
           \/ GotoCall(t, f)
  BY DEF Woken, GivesUp, Return
<1>3. t \in Task /\ call[t] = IF f = "send" THEN "sendWait" ELSE "receiveWait"
  BY <1>1, <1>2, CallerReady
<1>4. \A v \in Task : v # t => call'[v] = call[v]
  BY <1>1, <1>2 DEF GotoCall
<1>5. \A v \in User : v # t => (Sends(v) => Sends(v)') /\ (Receives(v) => Receives(v)')
  BY <1>1, <1>4, QueueFacts DEF Sends, Receives, Notified
<1>6. ~Notified(t) \/ call'[t] = f
  BY <1>1, <1>2, <1>3 DEF GotoCall
<1>7. (Sends(t) => Sends(t)') /\ (Receives(t) => Receives(t)')
  BY <1>3, <1>6 DEF Sends, Receives
<1>8. \A v \in Task : \A i \in {SendIpc, ReceiveIpc} : Waits(v, i)' => Waits(v, i)
  BY <1>1 DEF Waits
<1> QED
  BY <1>1, <1>5, <1>7, <1>8, NothingTaken

LEMMA EnteringStallsNobody ==
  ASSUME IsFiniteSet(User), QueueInv, Inv', NEW t \in User, NEW f, NEW i, NEW n,
         Enter(t, f, i, n)
  PROVE  Stall' => Stall
<1>1. /\ Inv /\ RingType /\ UNCHANGED <<items, valid>> /\ UNCHANGED <<status, msg>>
      /\ call \in [Task -> CallPlaces] /\ call' = [call EXCEPT ![t] = f] /\ In(t, "none")
  BY DEF QueueInv, RInv, Enter, ringVars, vars, taskVars, Sending, CallPlaces, GotoCall
<1>2. t \in Task /\ call[t] = "none"
  BY <1>1, CallerReady
<1>3. \A v \in User : (Sends(v) => Sends(v)') /\ (Receives(v) => Receives(v)')
  BY <1>1, <1>2, QueueFacts DEF Sends, Receives, Notified
<1>4. \A v \in Task : \A j \in {SendIpc, ReceiveIpc} : Waits(v, j)' => Waits(v, j)
  BY <1>1 DEF Waits
<1> QED
  BY <1>1, <1>3, <1>4, NothingTaken

LEMMA ResetStallsNobody ==
  ASSUME IsFiniteSet(User), QueueInv, Inv', NEW t \in User, Reset(t)
  PROVE  Stall' => Stall
<1>1. /\ Inv /\ RingType /\ valid' = valid /\ UNCHANGED <<sched, status, msg>>
      /\ call \in [Task -> CallPlaces] /\ call' = [call EXCEPT ![t] = "none"]
      /\ In(t, "reset")
  BY DEF QueueInv, RInv, Reset, Return, vars, taskVars, Sending, CallPlaces, GotoCall
<1>2. t \in Task /\ call[t] = "reset"
  BY <1>1, CallerReady
<1>3. CASE Senders = <<>> /\ Receivers = <<>>
  BY <1>1, <1>3 DEF Stall, SendersStall, ReceiversStall, Senders, Receivers
<1>4. CASE UNCHANGED ringVars
  <2>1. \A v \in User : (Sends(v) => Sends(v)') /\ (Receives(v) => Receives(v)')
    BY <1>1, <1>2, QueueFacts DEF Sends, Receives, Notified
  <2>2. \A v \in Task : \A j \in {SendIpc, ReceiveIpc} : Waits(v, j)' => Waits(v, j)
    BY <1>1 DEF Waits
  <2>3. UNCHANGED <<items, valid>>
    BY <1>1, <1>4 DEF ringVars
  <2> QED
    BY <1>1, <2>1, <2>2, <2>3, NothingTaken
<1> QED
  BY <1>3, <1>4 DEF Reset

LEMMA DeletionStallsNobody ==
  ASSUME QueueInv, Inv', WaitInv, NEW t \in User, DeleteQueue(t)
  PROVE  ~Stall'
<1>1. Inv
  BY DEF QueueInv
<1>2. \A v \in Task : ~Waits(v, SendIpc)' /\ ~Waits(v, ReceiveIpc)'
  BY <1>1, DeletionEndsWaits
<1>3. ASSUME NEW i \in {SendIpc, ReceiveIpc} PROVE sched'.lists[i] = <<>>
  <2>1. PICK q : q = sched'.lists[i]
    OBVIOUS
  <2>2. \A v : v \notin Range(q)
    BY <1>1, <1>2, <2>1, QueueFacts, WaitersAre
  <2>3. sched' \in SchedType /\ i \in ListId
    BY QueueFacts DEF Inv, IType, TypeOK, ListId
  <2>4. q \in Seq(Task)
    BY <2>1, <2>3 DEF SchedType
  <2>5. q = <<>>
    <3>1. q # <<>> => q[1] \in Range(q)
      BY <2>4, EmptySeq, LenProperties DEF Range
    <3> QED
      BY <2>2, <3>1
  <2> QED
    BY <2>1, <2>5
<1>4. Senders' = <<>> /\ Receivers' = <<>>
  BY <1>3 DEF Senders, Receivers
<1> QED
  BY <1>4 DEF Stall, SendersStall, ReceiversStall

StallStep == Stall' => Stall \/ \E t \in User : GivesUp(t)

LEMMA StallSteps ==
  ASSUME IsFiniteSet(User), NoRecreation, QueueInv, QueueInv', WaitInv,
         [QueueNext]_allVars
  PROVE  StallStep
<1>a. /\ Inv /\ Inv' /\ RingType /\ call \in [Task -> CallPlaces]
  BY DEF QueueInv, RInv, Sending, CallPlaces
<1>b. ASSUME NEW t \in User, NEW at \in {"send", "receive", "reset", "delete"}, In(t, at),
             GotoCall(t, "none")
      PROVE  Finishes(t) /\ call[t] = at
  BY <1>a, <1>b, CallerReady DEF Finishes, GotoCall
<1>c. ASSUME UNCHANGED call PROVE \E t : t \notin Task /\ Finishes(t)
  BY <1>c, NoSetContainsEverything DEF Finishes
<1>1. ASSUME NEW t \in User, Send(t) PROVE Stall' => Stall
  <2>1. CASE WriteItem(item[t], t) /\ ResumeOne(ReceiveIpc, t) /\ Return(t)
    <3>1. Finishes(t) /\ call[t] = "send" /\ UNCHANGED valid
      BY <1>b, <1>1, <2>1 DEF Send, Return
    <3>2. \/ Receivers = <<>> /\ UNCHANGED <<status, msg>>
          \/ Receivers # <<>> /\ Resume(ReceiveIpc)
      BY <2>1 DEF ResumeOne, Receivers, vars, taskVars
    <3> QED
      BY <1>a, <2>1, <3>1, <3>2, PutStallsNobody
  <2>2. CASE ~HasRoom /\ WaitOrFail(t, "send", SendIpc, "sendWait")
    <3>1. In(t, "send") /\ UNCHANGED valid /\ SendIpc # ReceiveIpc
      BY <1>1, QueueFacts DEF Send
    <3> QED
      BY <1>a, <2>2, <3>1, WaitStallsNobody
  <2> QED
    BY <1>1, <2>1, <2>2 DEF Send
<1>2. ASSUME NEW t \in User, Receive(t) PROVE Stall' => Stall
  <2>1. CASE ReadItem(t) /\ ResumeOne(SendIpc, t) /\ Return(t)
    <3>1. Finishes(t) /\ call[t] = "receive" /\ UNCHANGED valid
      BY <1>b, <1>2, <2>1 DEF Receive, Return
    <3>2. \/ Senders = <<>> /\ UNCHANGED <<status, msg>>
          \/ Senders # <<>> /\ Resume(SendIpc)
      BY <2>1 DEF ResumeOne, Senders, vars, taskVars
    <3> QED
      BY <1>a, <2>1, <3>1, <3>2, GetStallsNobody
  <2>2. CASE items = 0 /\ WaitOrFail(t, "receive", ReceiveIpc, "receiveWait")
    <3>1. In(t, "receive") /\ UNCHANGED valid /\ SendIpc # ReceiveIpc
      BY <1>2, QueueFacts DEF Receive
    <3> QED
      BY <1>a, <2>2, <3>1, WaitStallsNobody
  <2> QED
    BY <1>2, <2>1, <2>2 DEF Receive
<1>3. ASSUME NEW t \in User, QueueStep(t) PROVE StallStep
  <2>1. CASE Send(t) \/ Receive(t)
    BY <1>1, <1>2, <2>1 DEF StallStep
  <2>2. CASE Woken(t)
    BY <1>a, <2>2, WokenStallsNobody DEF StallStep
  <2>3. ASSUME NEW f, NEW i, NEW n, Enter(t, f, i, n) PROVE StallStep
    BY <1>a, <2>3, EnteringStallsNobody DEF StallStep
  <2>4. CASE Reset(t) \/ DeleteQueue(t)
    BY <1>a, <2>4, ResetStallsNobody, DeletionStallsNobody DEF StallStep
  <2> QED
    BY <1>3, <2>1, <2>2, <2>3, <2>4
    DEF QueueStep, EnterSend, EnterReceive, EnterReset, EnterDelete
<1>d. ASSUME UNCHANGED vars, UNCHANGED <<call, ringVars, valid>> PROVE StallStep
  BY <1>d DEF vars, taskVars, ringVars, StallStep, Stall, SendersStall, ReceiversStall,
     Senders, Receivers, Room, Coming, Notified
<1>4. ASSUME NEW i \in Item, IsrSend(i) PROVE StallStep
  <2>1. PICK t : t \notin Task /\ Finishes(t)
    BY <1>c, <1>4 DEF IsrSend
  <2>2. CASE WriteItem(i, NoTask) /\ IsrResumeOne(ReceiveIpc) /\ UNCHANGED valid
    <3>1. \/ Receivers = <<>> /\ UNCHANGED <<status, msg>>
          \/ Receivers # <<>> /\ Resume(ReceiveIpc)
      BY <2>2 DEF IsrResumeOne, Receivers, vars, taskVars
    <3> QED
      BY <1>a, <2>1, <2>2, <3>1, PutStallsNobody DEF StallStep
  <2>3. CASE UNCHANGED <<vars, isr, ringVars>> /\ UNCHANGED <<call, valid>>
    BY <2>3, <1>d
  <2> QED
    BY <1>4, <2>2, <2>3 DEF IsrSend
<1>5. CASE IsrReceive
  <2>1. PICK t : t \notin Task /\ Finishes(t)
    BY <1>c, <1>5 DEF IsrReceive
  <2>2. CASE ReadItem(NoTask) /\ IsrResumeOne(SendIpc) /\ UNCHANGED valid
    <3>1. \/ Senders = <<>> /\ UNCHANGED <<status, msg>>
          \/ Senders # <<>> /\ Resume(SendIpc)
      BY <2>2 DEF IsrResumeOne, Senders, vars, taskVars
    <3> QED
      BY <1>a, <2>1, <2>2, <3>1, GetStallsNobody DEF StallStep
  <2>3. CASE UNCHANGED <<vars, isr, ringVars>> /\ UNCHANGED <<call, valid>>
    BY <2>3, <1>d
  <2> QED
    BY <1>5, <2>2, <2>3 DEF IsrReceive
<1>6. CASE QueueKernelStep
  BY <1>a, <1>6, KernelStallsNobody DEF StallStep
<1>7. CASE UNCHANGED allVars
  BY <1>7, <1>d DEF allVars, ipcVars, queueVars
<1> QED
  BY <1>3, <1>4, <1>5, <1>6, <1>7 DEF QueueNext

StallInv == WaitInv /\ NoRecreation /\ IsFiniteSet(User)

(* Tasks are left waiting beside an item or a free slot only when a task   *)
(* that was called for it finds its own waiting time over                  *)
(* (StallsOnlyByGivingUp), if no task is created anew and there are only   *)
(* finitely many.                                                          *)
THEOREM QueueStallsOnlyByGivingUp ==
  NoRecreation /\ IsFiniteSet(User) /\ QueueSpec => StallsOnlyByGivingUp
<1>1. NoRecreation /\ IsFiniteSet(User) /\ QueueInit => StallInv
  BY ChannelInit DEF StallInv
<1>2. QueueInv /\ StallInv /\ [QueueNext]_allVars => StallInv'
  BY WaitInvStep DEF StallInv, NoRecreation
<1>3. QueueInv /\ QueueInv' /\ StallInv /\ [QueueNext]_allVars => StallStep
  BY StallSteps DEF StallInv
<1>4. QueueSpec => []QueueInv
  BY QueueInvHolds
<1> QED
  BY <1>1, <1>2, <1>3, <1>4, PTL DEF QueueSpec, StallsOnlyByGivingUp, StallStep
=============================================================================
