------------------------------ MODULE MCQueue -------------------------------
(* A workload on one message queue for the model checker.                  *)
EXTENDS Queue

CONSTANTS a, b, idle, x, y

Peers == (a :> 0) @@ (b :> 0) @@ (idle :> 1)
NoCalls == [u \in User |-> {}]
All == [u \in User |-> {"send", "receive", "reset", "delete"}]

(* Two tasks of equal priority; the queue is first come, first served.     *)
FifoInit == QueueInit /\ prioIpc = {}

FifoSpec == FifoInit /\ [][QueueNext]_allVars

(* Action constraint: main() starts both before it starts the kernel.      *)
(* Tasks send x, handlers send y.                                          *)
Workload ==
  /\ KernelStart => \A u \in User : status[u] # "INIT"
  /\ \A u \in User : item'[u] # y
  /\ ~IsrSend(x)

Symmetry == Permutations({a, b})
=============================================================================
