------------------------------ MODULE KeyedLock ------------------------------
(***************************************************************************)
(* What sluglock.Locker promises its callers: "With runs fn while holding  *)
(* the lock for key, releasing it afterward".  No entry, no waiter count,  *)
(* no connection: a client asks for a key, is granted it when nobody holds *)
(* it, and gives it back when fn has returned; it may withdraw before.     *)
(***************************************************************************)
CONSTANTS
    Proc,   \* the callers: one request handler each
    Key     \* the lock keys: slugs, and the "__bootstrap__" sentinel

VARIABLES
    phase,  \* phase[p]: "out", "asking" or "in" (running fn)
    want    \* want[p]: the key of p's last call of With

vars == <<phase, want>>

TypeOK ==
    /\ phase \in [Proc -> {"out", "asking", "in"}]
    /\ want \in [Proc -> Key]

Init ==
    /\ phase = [p \in Proc |-> "out"]
    /\ want \in [Proc -> Key]

Ask(p, k) ==
    /\ phase[p] = "out"
    /\ phase' = [phase EXCEPT ![p] = "asking"]
    /\ want' = [want EXCEPT ![p] = k]

Grant(p) ==
    /\ phase[p] = "asking"
    /\ \A q \in Proc : phase[q] = "in" => want[q] # want[p]
    /\ phase' = [phase EXCEPT ![p] = "in"]
    /\ UNCHANGED want

GiveBack(p) ==
    /\ phase[p] = "in"
    /\ phase' = [phase EXCEPT ![p] = "out"]
    /\ UNCHANGED want

\* With returns ctx.Err() without having run fn.
Withdraw(p) ==
    /\ phase[p] = "asking"
    /\ phase' = [phase EXCEPT ![p] = "out"]
    /\ UNCHANGED want

Next ==
    \E p \in Proc : (\E k \in Key : Ask(p, k)) \/ Grant(p) \/ GiveBack(p) \/ Withdraw(p)

Spec == Init /\ [][Next]_vars
==============================================================================
