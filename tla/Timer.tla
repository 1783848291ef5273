------------------------------- MODULE Timer --------------------------------
(***************************************************************************)
(* timer.c: the tick counter, the sorted timer list and the tick handler's *)
(* walk over it, with a counter that wraps around and lists of pointers.   *)
(* A task that sleeps periodically (yr_task_sleep_until) is one of its     *)
(* callers.  The specification implements module Countdown.                *)
(*                                                                         *)
(* Each critical section is one action, except that yr_timer_check moves   *)
(* one timer per step: no other action is enabled in between.              *)
(***************************************************************************)
EXTENDS Integers, Sequences, FiniteSets, YrList

CONSTANTS
  Timer,       \* the timers
  Periodic,    \* those that belong to tasks calling yr_task_sleep_until
  ListHead,    \* yr_timer_list
  DueHead,     \* timeout_list, on the stack of yr_timer_check
  NoTimer,
  HalfRange,   \* half the number of values of yr_uint32_t: 2^31
  MaxTicks,    \* bound on timer->init_ticks, below HalfRange
  MaxDelay     \* bound on the ticks that arrive while a task is between
               \* the two critical sections of yr_task_sleep_until

ASSUME TimerAssumption ==
  /\ IsFiniteSet(Timer)
  /\ Periodic \subseteq Timer
  /\ ListHead # DueHead
  /\ {ListHead, DueHead, NoTimer} \cap Timer = {}
  /\ HalfRange \in Nat \ {0, 1}
  /\ MaxTicks \in 0 .. HalfRange - 1
  /\ MaxDelay \in 0 .. HalfRange - 1

Range32 == 2 * HalfRange
Word == 0 .. Range32 - 1
Node == Timer \cup {ListHead, DueHead}

(* The cast (yr_int32_t)x of an unsigned difference.                       *)
Signed(x) == LET u == x % Range32 IN IF u < HalfRange THEN u ELSE u - Range32

VARIABLES
  heap,       \* the pointers of all list nodes
  now,        \* yr_current_ticks
  timeout,    \* timer->timeout_ticks
  stage,      \* where the tick handler is, "off" outside
  firing,     \* the timer whose callback runs
  target,     \* *pre_ticks of a periodic task
  rest        \* its sleep_ticks between the two critical sections, or 0

handlerVars == <<stage, firing>>
taskVars    == <<target, rest>>
vars == <<heap, now, timeout, handlerVars, taskVars>>

Init ==
  /\ heap = [next |-> [n \in Node |-> n], prev |-> [n \in Node |-> n]]
  /\ now \in Word
  /\ timeout = [t \in Timer |-> 0]
  /\ stage = "off"
  /\ firing = NoTimer
  /\ target = [t \in Periodic |-> now]
  /\ rest = [t \in Periodic |-> 0]

(* Tasks call while no handler runs, callbacks while theirs does.          *)
Open == stage \in {"off", "callback"}

(* Timers in some order.                                                   *)
Orders == UNION {{q \in [1 .. n -> Timer] : IsInjective(q)} : n \in 0 .. Cardinality(Timer)}

(* The pointers lead from a head through the nodes of q back to the head.  *)
LeadThrough(h, head, q) ==
  \A i \in 0 .. Len(q) :
    h.next[IF i = 0 THEN head ELSE q[i]] = IF i = Len(q) THEN head ELSE q[i + 1]

(* The timers that are met on the way from a head until it comes again.    *)
Items(h, head) == CHOOSE q \in Orders : LeadThrough(h, head, q)

-----------------------------------------------------------------------------
(* Faulty variants for mutation tests: absolute tick values are compared.  *)
LaterUnsigned(x, y) == x > y

UntilReadUnsigned(t, inc) ==
  LET next == (target[t] + inc) % Range32 IN
  /\ stage = "off" /\ rest[t] = 0 /\ heap.next[t] = t
  /\ target' = [target EXCEPT ![t] = next]
  /\ rest' = [rest EXCEPT ![t] = IF next <= now THEN 0 ELSE (next - now) % Range32]
  /\ UNCHANGED <<heap, now, timeout, handlerVars>>

(* Expiry time x comes after expiry time y.                                *)
Later(x, y) == Signed(x - y) > 0

Expired(x) == Signed(now - x) >= 0

(* yr_timer_start: the timer leaves its list and enters yr_timer_list      *)
(* before the first timer that expires later.                              *)
Start(t, ticks) ==
  LET x       == (now + ticks) % Range32
      removed == ListDeleteSelf(heap, t)
      nodes   == Items(removed, ListHead)
      later   == {i \in DOMAIN nodes : Later(timeout[nodes[i]], x)}
      place   == IF later = {} THEN ListHead ELSE nodes[Min(later)]
  IN  /\ timeout' = [timeout EXCEPT ![t] = x]
      /\ heap' = ListInsertBefore(removed, place, t)

(* yr_timer_set_ticks and, later, yr_timer_start: n is timer->init_ticks.  *)
StartTimer(t, n) ==
  /\ Open
  /\ Start(t, n)
  /\ UNCHANGED <<now, handlerVars, taskVars>>

StopTimer(t) ==
  /\ Open
  /\ heap' = ListDeleteSelf(heap, t)
  /\ UNCHANGED <<now, timeout, handlerVars, taskVars>>

(* yr_task_sleep_until up to its first yr_irq_enable.                      *)
UntilRead(t, inc) ==
  LET next == (target[t] + inc) % Range32 IN
  /\ stage = "off"
  /\ rest[t] = 0
  /\ heap.next[t] = t
  /\ target' = [target EXCEPT ![t] = next]
  /\ rest' = [rest EXCEPT ![t] = IF Signed(next - now) <= 0 THEN 0
                                 ELSE (next - now) % Range32]
  /\ UNCHANGED <<heap, now, timeout, handlerVars>>

(* Its yr_task_sleep_ticks, which takes the difference computed before.    *)
UntilSleep(t) ==
  /\ stage = "off"
  /\ rest[t] # 0
  /\ Start(t, rest[t])
  /\ rest' = [rest EXCEPT ![t] = 0]
  /\ UNCHANGED <<now, handlerVars, target>>

-----------------------------------------------------------------------------
(* yr_tick_update as far as timers are concerned, and yr_timer_check       *)

(* Bounds on time: a periodic task is not held up between its two critical *)
(* sections for more than MaxDelay ticks, and calls again before its last  *)
(* target is so old that the signed difference would change its sign.      *)
InTime(t) ==
  IF rest[t] # 0 THEN Signed(now + rest[t] - target[t]) < MaxDelay
  ELSE heap.next[t] # t \/ Signed(now - target[t]) < HalfRange - 1

Tick ==
  /\ stage = "off"
  /\ \A t \in Periodic : InTime(t)
  /\ now' = (now + 1) % Range32
  /\ stage' = "check"
  /\ heap' = ListInit(heap, DueHead)
  /\ UNCHANGED <<timeout, firing, taskVars>>

First == heap.next[ListHead]

Expire ==
  /\ stage = "check"
  /\ ~ListIsEmpty(heap, ListHead)
  /\ Expired(timeout[First])
  /\ heap' = ListInsertBefore(ListDeleteSelf(heap, First), DueHead, First)
  /\ UNCHANGED <<now, timeout, handlerVars, taskVars>>

AllExpired ==
  /\ stage = "check"
  /\ ~ListIsEmpty(heap, ListHead) => ~Expired(timeout[First])
  /\ stage' = "fire"
  /\ UNCHANGED <<heap, now, timeout, firing, taskVars>>

Call ==
  /\ stage = "fire"
  /\ ~ListIsEmpty(heap, DueHead)
  /\ firing' = heap.next[DueHead]
  /\ heap' = ListDeleteSelf(heap, heap.next[DueHead])
  /\ stage' = "callback"
  /\ UNCHANGED <<now, timeout, taskVars>>

Return ==
  /\ stage = "callback"
  /\ firing' = NoTimer
  /\ stage' = "fire"
  /\ UNCHANGED <<heap, now, timeout, taskVars>>

TickEnd ==
  /\ stage = "fire"
  /\ ListIsEmpty(heap, DueHead)
  /\ stage' = "off"
  /\ UNCHANGED <<heap, now, timeout, firing, taskVars>>

Next ==
  \/ \E t \in Timer \ Periodic :
       \/ \E n \in 0 .. MaxTicks : StartTimer(t, n)
       \/ StopTimer(t)
  \/ \E t \in Periodic : UntilSleep(t) \/ \E inc \in 0 .. MaxTicks : UntilRead(t, inc)
  \/ Tick
  \/ Expire
  \/ AllExpired
  \/ Call
  \/ Return
  \/ TickEnd

Spec == Init /\ [][Next]_vars

-----------------------------------------------------------------------------
(* Properties *)

Armed == Range(Items(heap, ListHead))
Due   == Range(Items(heap, DueHead))

Left ==
  LET armed == Armed
  IN  [t \in Timer |-> IF t \in armed THEN Signed(timeout[t] - now) ELSE 0]

Abstract == INSTANCE Countdown
  WITH armed <- Items(heap, ListHead), due <- Items(heap, DueHead), left <- Left

(* The tick counter may wrap around: every timer is called at the tick it  *)
(* is meant for, in the order of expiry, as module Countdown says.         *)
CountsDown == Abstract!Spec

(* The lists survive every sequence of starts, stops, callbacks that stop  *)
(* other expired timers, and ticks: all pointers come in pairs, and a      *)
(* timer is in yr_timer_list, in timeout_list, or points to itself.        *)
ListsIntact ==
  /\ WellLinked(heap)
  /\ Armed \cap Due = {}
  /\ {t \in Timer : heap.next[t] # t} = Armed \cup Due

(* yr_task_sleep_until computes its sleep from a tick count that may be    *)
(* old when the timer is started.  The task then wakes as many ticks late  *)
(* as have passed in between, but it is never past the call early.         *)
NeverEarly ==
  \A t \in Periodic :
    IF t \in Armed THEN Signed(timeout[t] - target[t]) \in 0 .. MaxDelay
    ELSE rest[t] = 0 => Signed(now - target[t]) >= 0
=============================================================================
