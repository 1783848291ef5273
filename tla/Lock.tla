-------------------------------- MODULE Lock --------------------------------
(***************************************************************************)
(* What a mutex promises: it has at most one holder, who may take it       *)
(* again, and who keeps it until it has given it as often as it took it,   *)
(* or until the lock is closed.  A client that finds it held may wait; the *)
(* holder hands the lock over to one that waits, so that no client gets it *)
(* past the waiting ones.                                                  *)
(***************************************************************************)
EXTENDS Naturals

CONSTANTS Client, Locks, None, MaxDepth

VARIABLES
  holder,    \* the client that holds a lock, or None
  depth,     \* how often it has taken it
  waiting,   \* the clients that wait for a lock
  open       \* the locks that have not been closed

vars == <<holder, depth, waiting, open>>

Init ==
  /\ holder = [x \in Locks |-> None]
  /\ depth = [x \in Locks |-> 0]
  /\ waiting = [x \in Locks |-> {}]
  /\ open = Locks

Held(x, c, n) ==
  /\ holder' = [holder EXCEPT ![x] = c]
  /\ depth' = [depth EXCEPT ![x] = n]

(* Also by a client that looked before the lock was closed.                *)
Grab(c, x) ==
  /\ holder[x] = None
  /\ waiting[x] = {}
  /\ Held(x, c, 1)
  /\ UNCHANGED <<waiting, open>>

TakeAgain(c, x) ==
  /\ holder[x] = c
  /\ depth[x] < MaxDepth
  /\ Held(x, c, depth[x] + 1)
  /\ UNCHANGED <<waiting, open>>

Wait(c, x) ==
  /\ holder[x] \notin {None, c}
  /\ waiting' = [waiting EXCEPT ![x] = @ \cup {c}]
  /\ UNCHANGED <<holder, depth, open>>

(* A timeout, or the suspension or deletion of the task, ends a wait.      *)
Leave(c, x) ==
  /\ c \in waiting[x]
  /\ waiting' = [waiting EXCEPT ![x] = @ \ {c}]
  /\ UNCHANGED <<holder, depth, open>>

Give(c, x) ==
  /\ x \in open
  /\ holder[x] = c
  /\ \/ /\ depth[x] > 1
        /\ Held(x, c, depth[x] - 1)
        /\ UNCHANGED waiting
     \/ /\ depth[x] = 1
        /\ waiting[x] = {}
        /\ Held(x, None, 0)
        /\ UNCHANGED waiting
     \/ /\ depth[x] = 1
        /\ \E d \in waiting[x] :
             /\ Held(x, d, 1)
             /\ waiting' = [waiting EXCEPT ![x] = @ \ {d}]
  /\ UNCHANGED open

Close(x) ==
  /\ Held(x, None, 0)
  /\ waiting' = [waiting EXCEPT ![x] = {}]
  /\ open' = open \ {x}

Next ==
  \E x \in Locks :
    \/ Close(x)
    \/ \E c \in Client :
         Grab(c, x) \/ TakeAgain(c, x) \/ Wait(c, x) \/ Leave(c, x) \/ Give(c, x)

Spec == Init /\ [][Next]_vars
=============================================================================
