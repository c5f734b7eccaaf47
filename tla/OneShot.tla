------------------------------ MODULE OneShot ------------------------------
(***************************************************************************)
(* What promises and futures promise together: the result of a shared      *)
(* state is set once, and whoever asks for it sees that result.            *)
(***************************************************************************)
CONSTANTS Context, State, Result, None

VARIABLES
  result,  \* the result of each shared state
  seen     \* what each context was told last
vars == <<result, seen>>

Init == result = [s \in State |-> None] /\ seen = [c \in Context |-> None]

Set(s, r) == result[s] = None /\ result' = [result EXCEPT ![s] = r] /\ UNCHANGED seen

Get(c, s) == result[s] # None /\ seen' = [seen EXCEPT ![c] = result[s]] /\ UNCHANGED result

Forget(c) == seen' = [seen EXCEPT ![c] = None] /\ UNCHANGED result

Next ==
  \/ \E s \in State, r \in Result : Set(s, r)
  \/ \E c \in Context : Forget(c) \/ \E s \in State : Get(c, s)

Spec == Init /\ [][Next]_vars
=============================================================================
