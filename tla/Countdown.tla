----------------------------- MODULE Countdown ------------------------------
(***************************************************************************)
(* What timer.c promises, and what module Kernel assumes of it: a timer    *)
(* armed with n ticks counts down and expires at the n-th tick (one armed  *)
(* with 0 at the next tick); the timers that expire at the same tick are   *)
(* called in the order in which they were armed; a timer stopped in time   *)
(* is not called, even if a callback of the same tick stops it.            *)
(***************************************************************************)
EXTENDS Integers, Sequences, RunQueue

CONSTANTS Timer, MaxTicks, NoTimer

VARIABLES
  armed,   \* timers that count down, the next one to expire first
  left,    \* ticks left of an armed timer, 0 for any other
  due,     \* expired timers whose callback is still to be called
  firing,  \* the timer whose callback runs
  stage    \* "off", or the part of the tick handler that runs

vars == <<armed, left, due, firing, stage>>

Init ==
  /\ armed = <<>>
  /\ left = [t \in Timer |-> 0]
  /\ due = <<>>
  /\ firing = NoTimer
  /\ stage = "off"

(* Timers are started and stopped by tasks, and by callbacks.              *)
Open == stage \in {"off", "callback"}

Arm(t, n) ==
  /\ Open
  /\ UNCHANGED <<firing, stage>>
  /\ left' = [left EXCEPT ![t] = n]
  /\ armed' = InsertTimer(Without(armed, t), t, left')
  /\ due' = Without(due, t)

Disarm(t) ==
  /\ Open
  /\ UNCHANGED <<firing, stage>>
  /\ armed' = Without(armed, t)
  /\ due' = Without(due, t)
  /\ left' = [left EXCEPT ![t] = 0]

Tick ==
  /\ stage = "off"
  /\ left' = [t \in Timer |-> IF t \in Range(armed) THEN left[t] - 1 ELSE 0]
  /\ stage' = "check"
  /\ UNCHANGED <<armed, due, firing>>

Expire ==
  /\ stage = "check"
  /\ armed # <<>>
  /\ left[Head(armed)] <= 0
  /\ armed' = Tail(armed)
  /\ due' = Append(due, Head(armed))
  /\ left' = [left EXCEPT ![Head(armed)] = 0]
  /\ UNCHANGED <<firing, stage>>

AllExpired ==
  /\ stage = "check"
  /\ \A i \in DOMAIN armed : left[armed[i]] > 0
  /\ stage' = "fire"
  /\ UNCHANGED <<armed, left, due, firing>>

Call ==
  /\ stage = "fire"
  /\ due # <<>>
  /\ firing' = Head(due)
  /\ due' = Tail(due)
  /\ stage' = "callback"
  /\ UNCHANGED <<armed, left>>

Return ==
  /\ stage = "callback"
  /\ firing' = NoTimer
  /\ stage' = "fire"
  /\ UNCHANGED <<armed, left, due>>

TickEnd ==
  /\ stage = "fire"
  /\ due = <<>>
  /\ stage' = "off"
  /\ UNCHANGED <<armed, left, due, firing>>

Next ==
  \/ \E t \in Timer : Disarm(t) \/ \E n \in 0 .. MaxTicks : Arm(t, n)
  \/ Tick
  \/ Expire
  \/ AllExpired
  \/ Call
  \/ Return
  \/ TickEnd

Spec == Init /\ [][Next]_vars
=============================================================================
