------------------------------ MODULE UnitPool -------------------------------
(***************************************************************************)
(* What a counting semaphore promises: a pool of at most MaxCount units,   *)
(* and to its callers results that tell the truth.  A take returns success *)
(* exactly if the caller gets a unit of its own; it fails at once only     *)
(* while the pool is empty, and after a wait only if the wait was ended    *)
(* before a unit was granted.  A give returns success exactly if it adds a *)
(* unit, which goes to a waiter if there is one; it fails only if the pool *)
(* is full or closed.  Nothing but the deletion of its task keeps a taker  *)
(* that has been granted a unit from returning with it.                    *)
(***************************************************************************)
EXTENDS Naturals, FiniteSets

CONSTANTS
  Taker,     \* callers that may wait
  Outsider,  \* the caller that may not: an interrupt handler
  MaxCount

VARIABLES
  avail,     \* units in the pool
  waiting,   \* takers that wait
  granted,   \* takers that have been granted a unit and have not returned
  refused,   \* takers whose wait ended without one and that have not returned
  alive,     \* takers whose task exists
  open,      \* the pool has not been closed
  ret        \* the result that a call has got in the last step, if any

poolVars == <<avail, waiting, granted, refused, alive, open>>
vars == <<poolVars, ret>>

Caller == Taker \cup {Outsider}

NoResult == [of |-> "none", to |-> Outsider, ok |-> FALSE]

Answer(f, c, success) == ret' = [of |-> f, to |-> c, ok |-> success]
Silent == ret' = NoResult

Init ==
  /\ avail \in 0 .. MaxCount
  /\ waiting = {}
  /\ granted = {}
  /\ refused = {}
  /\ alive = {}
  /\ open = TRUE
  /\ ret = NoResult

TakeNow(c) ==
  /\ Answer("take", c, TRUE)
  /\ avail > 0
  /\ avail' = avail - 1
  /\ UNCHANGED <<waiting, granted, refused, alive, open>>

TakeFails(c) ==
  /\ Answer("take", c, FALSE)
  /\ avail = 0
  /\ UNCHANGED poolVars

(* Also when the pool has been closed since the taker looked.              *)
Wait(t) ==
  /\ Silent
  /\ avail = 0
  /\ t \in alive \ (waiting \cup granted \cup refused)
  /\ waiting' = waiting \cup {t}
  /\ UNCHANGED <<avail, granted, refused, alive, open>>

Give(c) ==
  /\ Answer("give", c, TRUE)
  /\ open
  /\ IF waiting = {}
     THEN /\ avail < MaxCount
          /\ avail' = avail + 1
          /\ UNCHANGED <<waiting, granted>>
     ELSE \E t \in waiting : /\ waiting' = waiting \ {t}
                             /\ granted' = granted \cup {t}
                             /\ UNCHANGED avail
  /\ UNCHANGED <<refused, alive, open>>

GiveFails(c) ==
  /\ Answer("give", c, FALSE)
  /\ open => avail = MaxCount
  /\ UNCHANGED poolVars

(* A timeout, or the suspension of the task, ends a wait without a unit.   *)
Leave(t) ==
  /\ Silent
  /\ t \in waiting
  /\ waiting' = waiting \ {t}
  /\ refused' = refused \cup {t}
  /\ UNCHANGED <<avail, granted, alive, open>>

(* Only the taker itself ends a granted take, and it has the unit.         *)
Return(t) ==
  /\ Answer("take", t, TRUE)
  /\ t \in granted
  /\ granted' = granted \ {t}
  /\ UNCHANGED <<avail, waiting, refused, alive, open>>

Fail(t) ==
  /\ Answer("take", t, FALSE)
  /\ t \in refused
  /\ refused' = refused \ {t}
  /\ UNCHANGED <<avail, waiting, granted, alive, open>>

(* The units in the pool go, and nobody waits for one any more.            *)
Close ==
  /\ Silent
  /\ avail' = 0
  /\ waiting' = {}
  /\ refused' = refused \cup waiting
  /\ open' = FALSE
  /\ UNCHANGED <<granted, alive>>

Born(t) ==
  /\ Silent
  /\ t \notin alive
  /\ alive' = alive \cup {t}
  /\ UNCHANGED <<avail, waiting, granted, refused, open>>

(* A task that is deleted takes a unit it has been granted with it.        *)
Dies(t) ==
  /\ Silent
  /\ t \in alive
  /\ alive' = alive \ {t}
  /\ waiting' = waiting \ {t}
  /\ granted' = granted \ {t}
  /\ refused' = refused \ {t}
  /\ UNCHANGED <<avail, open>>

(* Something else happens, and the last result is no longer news.          *)
Otherwise == Silent /\ UNCHANGED poolVars

Next ==
  \/ Otherwise
  \/ \E c \in Caller : TakeNow(c) \/ TakeFails(c) \/ Give(c) \/ GiveFails(c)
  \/ \E t \in Taker :
       Wait(t) \/ Leave(t) \/ Return(t) \/ Fail(t) \/ Born(t) \/ Dies(t)
  \/ Close

Spec == Init /\ [][Next]_vars
=============================================================================
