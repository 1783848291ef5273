------------------------------- MODULE Channel ------------------------------
(***************************************************************************)
(* What a message queue promises: a bounded first-in first-out channel.    *)
(* A send that returns success has put its item in, a receive that returns *)
(* success has taken the oldest item out; an error leaves the channel as   *)
(* it is.  A client waits, or fails at once, only when it has found the    *)
(* channel full or empty.  Every item that is put in calls one of the      *)
(* waiting receivers, every item that is taken out one of the waiting      *)
(* senders; who has been called looks again, and may be too late.          *)
(***************************************************************************)
EXTENDS Naturals, Sequences

CONSTANTS
  Client,    \* callers that may wait
  Outsider,  \* the caller that may not: an interrupt handler
  Item, NoItem, Capacity

VARIABLES
  contents,    \* the items, oldest first
  senders,     \* clients that wait for a free slot
  receivers,   \* clients that wait for an item
  called,      \* clients that waited and have been called
  late,        \* clients whose wait has ended without a call
  open,        \* the channel has not been closed
  ret          \* the result that a call has got in the last step, if any

channelVars == <<contents, senders, receivers, called, late, open>>
vars == <<channelVars, ret>>

Caller == Client \cup {Outsider}

NoResult == [of |-> "none", to |-> Outsider, ok |-> FALSE, item |-> NoItem]

Done(f, c, i) == ret' = [of |-> f, to |-> c, ok |-> TRUE, item |-> i]
Failed(f, c)  == ret' = [of |-> f, to |-> c, ok |-> FALSE, item |-> NoItem]
Silent        == ret' = NoResult

Init ==
  /\ contents = <<>>
  /\ senders = {}
  /\ receivers = {}
  /\ called = {}
  /\ late = {}
  /\ open = TRUE
  /\ ret = NoResult

Waiting == senders \cup receivers

Full == open => Len(contents) = Capacity

(* One of the waiting clients, if there is one, is called.                 *)
CallReceiver ==
  /\ UNCHANGED senders
  /\ IF receivers = {} THEN UNCHANGED <<receivers, called>>
     ELSE \E c \in receivers : /\ receivers' = receivers \ {c}
                               /\ called' = called \cup {c}

CallSender ==
  /\ UNCHANGED receivers
  /\ IF senders = {} THEN UNCHANGED <<senders, called>>
     ELSE \E c \in senders : /\ senders' = senders \ {c}
                             /\ called' = called \cup {c}

Put(c, i) ==
  /\ Done("send", c, i)
  /\ open
  /\ Len(contents) < Capacity
  /\ contents' = Append(contents, i)
  /\ CallReceiver
  /\ UNCHANGED <<late, open>>

Get(c) ==
  /\ contents # <<>>
  /\ Done("receive", c, Head(contents))
  /\ contents' = Tail(contents)
  /\ CallSender
  /\ UNCHANGED <<late, open>>

(* Also when the channel has been closed since the client looked.          *)
WaitForSlot(c) ==
  /\ Silent
  /\ Full
  /\ c \notin Waiting \cup called \cup late
  /\ senders' = senders \cup {c}
  /\ UNCHANGED <<contents, receivers, called, late, open>>

WaitForItem(c) ==
  /\ Silent
  /\ contents = <<>>
  /\ c \notin Waiting \cup called \cup late
  /\ receivers' = receivers \cup {c}
  /\ UNCHANGED <<contents, senders, called, late, open>>

(* A caller that does not wait finds the channel full, or empty.           *)
SendFails(c) ==
  /\ Failed("send", c)
  /\ Full
  /\ UNCHANGED channelVars

ReceiveFails(c) ==
  /\ Failed("receive", c)
  /\ contents = <<>>
  /\ UNCHANGED channelVars

(* A timeout, or the suspension of the task, ends a wait without a call.   *)
Leave(c) ==
  /\ Silent
  /\ c \in Waiting
  /\ senders' = senders \ {c}
  /\ receivers' = receivers \ {c}
  /\ late' = late \cup {c}
  /\ UNCHANGED <<contents, called, open>>

(* A client that waited in vain gets an error; also one that has been      *)
(* called, if its time is up.                                              *)
GiveUp(c) ==
  /\ \E f \in {"send", "receive"} : Failed(f, c)
  /\ c \in called \cup late
  /\ called' = called \ {c}
  /\ late' = late \ {c}
  /\ UNCHANGED <<contents, senders, receivers, open>>

(* A client that has been called looks again.  The task of a client may    *)
(* also have been deleted and created anew.                                *)
Resumes(c) ==
  /\ Silent
  /\ c \in called \cup late
  /\ called' = called \ {c}
  /\ late' = late \ {c}
  /\ UNCHANGED <<contents, senders, receivers, open>>

(* The items are dropped; nobody may be waiting.                           *)
Reset ==
  /\ Silent
  /\ Waiting = {}
  /\ contents' = <<>>
  /\ UNCHANGED <<senders, receivers, called, late, open>>

Close ==
  /\ Silent
  /\ contents' = <<>>
  /\ senders' = {}
  /\ receivers' = {}
  /\ late' = late \cup Waiting
  /\ open' = FALSE
  /\ UNCHANGED called

(* Something else happens, and the last result is no longer news.          *)
Otherwise == Silent /\ UNCHANGED channelVars

Next ==
  \/ Otherwise
  \/ \E c \in Caller : Get(c) \/ SendFails(c) \/ ReceiveFails(c)
  \/ \E c \in Caller, i \in Item : Put(c, i)
  \/ \E c \in Client : \/ WaitForSlot(c)
                       \/ WaitForItem(c)
                       \/ Leave(c)
                       \/ GiveUp(c)
                       \/ Resumes(c)
  \/ Reset
  \/ Close

Spec == Init /\ [][Next]_vars
=============================================================================
