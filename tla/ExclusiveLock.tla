--------------------------- MODULE ExclusiveLock ---------------------------
(***************************************************************************)
(* What a mutex promises: at most one context holds it, and only a context *)
(* that asked for it gets it.                                              *)
(***************************************************************************)
CONSTANTS Context, None

VARIABLES holder, wants
vars == <<holder, wants>>

Init == holder = None /\ wants = {}

Request(c) ==
  /\ c \notin wants \cup {holder}
  /\ wants' = wants \cup {c}
  /\ UNCHANGED holder

Grant(c) ==
  /\ c \in wants
  /\ holder = None
  /\ holder' = c
  /\ wants' = wants \ {c}

(* try_lock() gives up. *)
Refuse(c) ==
  /\ c \in wants
  /\ holder # None
  /\ wants' = wants \ {c}
  /\ UNCHANGED holder

Release(c) ==
  /\ holder = c
  /\ holder' = None
  /\ UNCHANGED wants

Next == \E c \in Context : Request(c) \/ Grant(c) \/ Refuse(c) \/ Release(c)

Spec == Init /\ [][Next]_vars

(* try_lock_until() also gives up a lock that is free. *)
Expire(c) ==
  /\ c \in wants
  /\ wants' = wants \ {c}
  /\ UNCHANGED holder
TimedSpec == Init /\ [][Next \/ \E c \in Context : Expire(c)]_vars
=============================================================================
