------------------------------ MODULE RunQueue ------------------------------
(***************************************************************************)
(* The scheduler's data structures as values, and the operations of        *)
(* scheduler.c, ipc.c and timer.c on them.                                 *)
(*                                                                         *)
(* Every task control block carries one node (yr_task_t.list_node) that    *)
(* links it into at most one of the kernel's circular lists: a ready       *)
(* queue, the defunct list, or the blocked list of an IPC object.  "lists" *)
(* maps the head of each of these lists to the sequence of tasks reached   *)
(* from head.next on.  A scheduler state is the record                     *)
(*     [lists |-> ..., group |-> the set of the bits of                    *)
(*                               yr_thread_ready_priority_group]           *)
(* Module YrList models the pointers these sequences stand for.            *)
(***************************************************************************)
EXTENDS Naturals, Sequences, SequencesExt

(* yr_list_delete_self on one list.  It is the community RemoveFirst,      *)
(* written with CHOOSE in place of a LAMBDA so that the provers can use it. *)
Without(s, t) ==
  IF t \in Range(s) THEN RemoveAt(s, CHOOSE i \in DOMAIN s : s[i] = t) ELSE s

(* The elements of q that are in S, in the order of q: SelectSeq, written  *)
(* by rank instead of with a LAMBDA for the same reason.                   *)
Kept(q, S) ==
  LET chosen == {i \in DOMAIN q : q[i] \in S}
      rank(i) == Cardinality({j \in chosen : j <= i})
  IN  [k \in 1 .. Cardinality(chosen) |->
         q[CHOOSE i \in chosen : rank(i) = k]]

(* Faulty variants of definitions below, for mutation tests: each breaks a *)
(* property that the original has.                                         *)
UnlinkForgotten(lists, t) == lists

LinkFirst(lists, l, t) == [lists EXCEPT ![l] = <<t>> \o @]

InsertTimerLast(q, t, left) == Append(q, t)

(* yr_list_delete_self(&task->list_node): whichever list holds the node    *)
(* loses it; the node of a task in no list points to itself, and the       *)
(* deletion changes nothing.                                               *)
Unlink(lists, t) == [l \in DOMAIN lists |-> Without(lists[l], t)]

(* yr_list_insert_before(head, &task->list_node): the task becomes last.   *)
LinkLast(lists, l, t) == [lists EXCEPT ![l] = Append(@, t)]

(* The node is an element of some list: inserting it again would leave the *)
(* old neighbours pointing to it.                                          *)
Linked(lists, t) == \E l \in DOMAIN lists : t \in Range(lists[l])

(* p is task->current_priority, and m the priority whose bit is            *)
(* task->priority_mask.                                                    *)
SchedInsert(s, t, p, m) ==
  [lists |-> LinkLast(s.lists, p, t), group |-> s.group \cup {m}]

(* Faulty variants for mutation tests.                                     *)
RemoveKeepsBit(s, t, p, m) == [s EXCEPT !.lists = Unlink(@, t)]

RemoveClearsBit(s, t, p, m) ==
  [lists |-> Unlink(s.lists, t), group |-> s.group \ {m}]

RotateHead(s, t, p) ==
  LET head == Head(s.lists[p])
  IN  [s EXCEPT !.lists = LinkLast(Unlink(@, head), p, head)]

(* p is task->current_priority at the time of the call, which need not be  *)
(* the queue that holds the task.                                          *)
SchedRemove(s, t, p, m) ==
  LET rest == Unlink(s.lists, t)
  IN  [lists |-> rest,
       group |-> IF rest[p] = <<>> THEN s.group \ {m} ELSE s.group]

(* The two list operations of yr_sched_yield. *)
Rotate(s, t, p) == [s EXCEPT !.lists = LinkLast(Unlink(@, t), p, t)]

(* yr_find_first_set, the two assertions that follow it, and the entry it  *)
(* selects.  The list head of an empty queue is no task.                   *)
Top(s)         == Min(s.group)
CanDispatch(s) == s.group # {} /\ s.lists[Top(s)] # <<>>
Chosen(s)      == Head(s.lists[Top(s)])

(* Insert t into q before the first of the given places; last if none.     *)
InsertBefore(q, t, places) ==
  IF places = {} THEN Append(q, t) ELSE InsertAt(q, Min(places), t)

(* yr_ipc_insert_blocked_task on a list kept in priority order.            *)
InsertByPriority(q, t, prio) ==
  InsertBefore(q, t, {i \in DOMAIN q : prio[t] < prio[q[i]]})

(* yr_timer_start: before the first timer that expires strictly later.     *)
InsertTimer(q, t, left) ==
  InsertBefore(q, t, {i \in DOMAIN q : left[q[i]] > left[t]})

(* yr_timer_check: how many timers the first loop moves to timeout_list.   *)
(* It stops at the first timer that has not expired.                       *)
ExpiredCount(q, left) ==
  LET pending == {i \in DOMAIN q : left[q[i]] > 0}
  IN  IF pending = {} THEN Len(q) ELSE Min(pending) - 1
=============================================================================
