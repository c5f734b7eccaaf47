-------------------------------- MODULE Fifo --------------------------------
(***************************************************************************)
(* What a queue promises: values come out in the order in which they went  *)
(* in, each once, to one context, and no more than bound are inside.  The  *)
(* context gets the value only from a queue that delivers.                 *)
(***************************************************************************)
EXTENDS Naturals, Sequences

CONSTANTS Context, Value, None

VARIABLES items, out, bound, delivers
vars == <<items, out, bound, delivers>>

Init ==
  /\ items = <<>>
  /\ out = [c \in Context |-> None]
  /\ bound \in Nat
  /\ delivers \in BOOLEAN

Put(v) ==
  /\ Len(items) < bound
  /\ items' = Append(items, v)
  /\ UNCHANGED <<out, bound, delivers>>

Take(c) ==
  /\ items # <<>>
  /\ out' = IF delivers THEN [out EXCEPT ![c] = Head(items)] ELSE out
  /\ items' = Tail(items)
  /\ UNCHANGED <<bound, delivers>>

(* The caller forgets what it got. *)
Drop(c) == out' = [out EXCEPT ![c] = None] /\ UNCHANGED <<items, bound, delivers>>

Next ==
  \/ \E v \in Value : Put(v)
  \/ \E c \in Context : Take(c) \/ Drop(c)

Spec == Init /\ [][Next]_vars
=============================================================================
