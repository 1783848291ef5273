------------------------------- MODULE YrList -------------------------------
(***************************************************************************)
(* The intrusive circular doubly linked lists of list.c.  A heap gives the *)
(* two pointers of every node; list heads are nodes like the others.  The  *)
(* functions store through the pointers they read, one assignment after    *)
(* the other, so that they do what the code does on broken lists as well.  *)
(***************************************************************************)
EXTENDS Naturals, FiniteSets, SequencesExt

Heaps(Node) == [next : [Node -> Node], prev : [Node -> Node]]

ListInit(h, n) == [next |-> [h.next EXCEPT ![n] = n],
                   prev |-> [h.prev EXCEPT ![n] = n]]

ListIsEmpty(h, l) == h.next[l] = l

ListInsertBefore(h, l, n) ==
  LET p == h.prev[l]
  IN  [next |-> [h.next EXCEPT ![n] = l, ![p] = n],
       prev |-> [h.prev EXCEPT ![n] = p, ![l] = n]]

(* Faulty variant for mutation tests: the node keeps its old pointers.     *)
ListDeleteDangling(h, n) ==
  [next |-> [h.next EXCEPT ![h.prev[n]] = h.next[n]],
   prev |-> [h.prev EXCEPT ![h.next[n]] = h.prev[n]]]

(* The first store changes no pointer that the second one reads.           *)
ListDeleteSelf(h, n) ==
  ListInit([next |-> [h.next EXCEPT ![h.prev[n]] = h.next[n]],
            prev |-> [h.prev EXCEPT ![h.next[n]] = h.prev[n]]], n)

(* Every pointer has its counterpart: no node is linked from two places.   *)
WellLinked(h) ==
  \A n \in DOMAIN h.next : h.prev[h.next[n]] = n /\ h.next[h.prev[n]] = n
=============================================================================
