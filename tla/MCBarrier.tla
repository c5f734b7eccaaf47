----------------------------- MODULE MCBarrier -----------------------------
(* Instances of Barrier for TLC. *)
EXTENDS Barrier

CONSTANTS f1, f2, m1, lock

MCMutexOf == [k \in Cond |-> lock]
MCParty == {{}, {f1, f2}, {f1, f2, m1}}
=============================================================================
