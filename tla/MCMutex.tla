------------------------------ MODULE MCMutex -------------------------------
(* Workloads on mutexes for the model checker.                             *)
EXTENDS Mutex

CONSTANTS m, a, b, idle, X, Y

Prio3 == (m :> 0) @@ (a :> 1) @@ (b :> 1) @@ (idle :> 2)
OneSleeps == (m :> {"sleep"}) @@ (a :> {}) @@ (b :> {})

Lock(x) == {"take", "give"} \X {x}

(* Three tasks contend for X, of which one sleeps and may delete X; one    *)
(* takes Y as well, in any order with X.                                   *)
Nested == (m :> Lock(X) \cup {<<"delete", X>>})
       @@ (a :> Lock(X) \cup Lock(Y))
       @@ (b :> Lock(X))

(* Three tasks contend for one mutex; one sleeps (OneSleeps), or nobody    *)
(* would ever be above an owner.                                           *)
Contention == [u \in User |-> Lock(X)]

(* The mutexes serve their waiters by priority.                            *)
PrioInit == MutexInit /\ prioIpc = Mutex

PrioSpec == PrioInit /\ [][MutexNext]_allVars

(* Action constraint: main() starts all tasks before it starts the kernel. *)
AllStarted == KernelStart => \A u \in User : status[u] # "INIT"
=============================================================================
