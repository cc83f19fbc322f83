-------------------------------- MODULE MCLocks --------------------------------
(* The two implementations of sluglock.Locker, one per behaviour.             *)
(* In memory: three goroutines over two keys: a holder, a waiter and a        *)
(* newcomer on one key, or another key beside it.  An entry per goroutine     *)
(* suffices: each entry in use has a user.                                    *)
(* In the database: two callers in one instance and one in another; two of    *)
(* three keys share a hash; pools of two and of one connection.               *)
EXTENDS SlugLock, AdvisoryLock

CONSTANTS p1, p2, p3, k1, k2, k3

MCAppOf  == [c \in {p1, p2, p3} |-> IF c = p3 THEN "b" ELSE "a"]
MCHashOf == [k \in {k1, k2, k3} |-> IF k = k1 THEN 1 ELSE 2]
KeysOf(c) == IF c = p1 THEN {k1} ELSE IF c = p2 THEN {k1, k2} ELSE {k1, k3}

VARIABLE deployed

allVars == <<vars, advisoryVars, deployed>>

MCInit == Init /\ AdvisoryInit /\ deployed \in {"memory", "database"}
          /\ wanted = [c \in Caller |-> k1]
          /\ key = [p \in Proc |-> CHOOSE k \in Key : TRUE]

MCNext ==
    \/ deployed = "memory" /\ Next /\ UNCHANGED <<advisoryVars, deployed>>
    \/ deployed = "database" /\ AdvisoryNext /\ \A c \in Caller : wanted'[c] \in KeysOf(c)
       /\ UNCHANGED <<vars, deployed>>

MCSpec == MCInit /\ [][MCNext]_allVars /\ Fairness /\ AdvisoryFairness
===============================================================================
