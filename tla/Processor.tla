----------------------------- MODULE Processor ------------------------------
(***************************************************************************)
(* What the port promises the scheduler: one processor, on which a task    *)
(* runs only while it is the one the scheduler wants, and continues where  *)
(* it was interrupted.  The task that main() is about to start is the only *)
(* one that may be lost, and only when another is wanted before it starts. *)
(***************************************************************************)
EXTENDS Naturals

CONSTANTS Task, Main, NoTask, Lost, MaxWork

VARIABLES
  running,   \* whose context the processor has
  wanted,    \* the task the scheduler has chosen
  first,     \* the task main() starts
  early,     \* another task was wanted before the first one started
  at         \* how far each task has come

vars == <<running, wanted, first, early, at>>

Init ==
  /\ running = Main
  /\ wanted = NoTask
  /\ first = NoTask
  /\ early = FALSE
  /\ at = [t \in Task |-> 0]

(* main() chooses the first task, and starts it.                           *)
Choose(t) ==
  /\ wanted = NoTask
  /\ wanted' = t
  /\ first' = t
  /\ UNCHANGED <<running, early, at>>

Start ==
  /\ running = Main
  /\ wanted # NoTask
  /\ running' = wanted
  /\ early' = FALSE
  /\ at' = IF early THEN [at EXCEPT ![first] = Lost] ELSE at
  /\ UNCHANGED <<wanted, first>>

(* The scheduler changes its mind; the processor follows later.            *)
Want(t) ==
  /\ wanted \notin {NoTask, t}
  /\ wanted' = t
  /\ early' = (running = Main)
  /\ UNCHANGED <<running, first, at>>

Follow ==
  /\ running # Main
  /\ running' = wanted
  /\ UNCHANGED <<wanted, first, early, at>>

(* The task that runs is the one that is wanted.                           *)
Work ==
  /\ running = wanted
  /\ at[running] \in 0 .. MaxWork - 1
  /\ at' = [at EXCEPT ![running] = @ + 1]
  /\ UNCHANGED <<running, wanted, first, early>>

(* A task that does not run is created anew.                               *)
Renew(t) ==
  /\ running = wanted
  /\ t # running
  /\ at' = [at EXCEPT ![t] = 0]
  /\ UNCHANGED <<running, wanted, first, early>>

Next ==
  \/ Start
  \/ Follow
  \/ Work
  \/ \E t \in Task : Choose(t) \/ Want(t) \/ Renew(t)

Spec == Init /\ [][Next]_vars
=============================================================================
