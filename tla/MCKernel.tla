------------------------------ MODULE MCKernel ------------------------------
(* Workloads for the model checker: which tasks there are, the priority    *)
(* each is created with, and which API functions each calls.               *)
EXTENDS Kernel

CONSTANTS m, a, b, idle

(* One manager above two workers of equal priority.                        *)
Prio3 == (m :> 0) @@ (a :> 1) @@ (b :> 1) @@ (idle :> 2)
Managed == (m :> {"start", "suspend", "delete", "create", "sleep"})
        @@ (a :> {"sleep", "yield", "exit"})
        @@ (b :> {"sleep", "sleep0"})

(* Tasks that start, suspend and delete each other and change each other's *)
(* priority, while nobody coordinates them.                                *)
Unmanaged == (m :> {"sleep"})
          @@ (a :> {"start", "prio"})
          @@ (b :> {"start", "suspend", "delete"})

(* Two peers, one of which manages the other, and both sleep.              *)
Peers == (a :> 1) @@ (b :> 1) @@ (idle :> 2)
PeersSleep == (a :> {"start", "suspend", "delete", "sleep"})
           @@ (b :> {"sleep", "yield"})

(* One task that may sleep before it ends.                                 *)
Alone == (a :> 1) @@ (idle :> 2)
Exiting == (a :> {"sleep", "exit"})
=============================================================================
