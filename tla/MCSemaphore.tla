---------------------------- MODULE MCSemaphore -----------------------------
(* Workloads on one semaphore for the model checker.                       *)
EXTENDS Semaphore

CONSTANTS m, a, b, idle

(* A manager above two workers that take and give.                         *)
Prio3 == (m :> 0) @@ (a :> 1) @@ (b :> 1) @@ (idle :> 2)
Managed == (m :> {"sleep", "suspend", "start", "delete", "prio"})
        @@ (a :> {}) @@ (b :> {})
Workers == (m :> {"delete", "give"}) @@ (a :> {"take"}) @@ (b :> {"take", "give"})

(* What the manager does while the semaphore serves first come, first      *)
(* served: it sleeps, suspends and starts the workers, deletes one of them *)
(* and the semaphore.                                                      *)
Races ==
  /\ initPrio' = initPrio
  /\ call'[m] # "give"
  /\ status'[m] \notin {"SUSPENDED", "TERMINATED"}
  /\ status'[b] # "TERMINATED"

(* And while it serves by priority: it gives, gives the workers any        *)
(* priority and itself that of its creation or the workers', and they take *)
(* and wait for ever.                                                      *)
Changes ==
  /\ initPrio'[m] < 2
  /\ \A t \in User : status'[t] \notin {"SUSPENDED", "TERMINATED"}
  /\ timerList' = <<>>
  /\ valid'
  /\ call'[b] # "give"

(* Action constraint: one workload for each flag.                          *)
Workload == IF prioIpc = {} THEN Races ELSE Changes
=============================================================================
