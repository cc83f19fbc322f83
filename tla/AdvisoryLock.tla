------------------------------ MODULE AdvisoryLock ------------------------------
(***************************************************************************)
(* The lock of a deployment with a database: advisoryLocker of             *)
(* internal/storage/postgres and of internal/storage/mysql.                *)
(*                                                                         *)
(* The lock is one of the database's, held by a session, so it excludes    *)
(* callers in different instances of the program.  A caller takes a        *)
(* connection of its instance's lock pool, waits on it for the lock, runs  *)
(* fn, which takes connections of the query pool, and gives both back.     *)
(* Waits end when the caller's context does; sessions end when the         *)
(* connection does, which the database notices later.                      *)
(*                                                                         *)
(* MySQL waits in rounds of a second (GET_LOCK(?, 1)) and PostgreSQL once; *)
(* a round that gives nothing changes nothing.                             *)
(***************************************************************************)
EXTENDS Integers, FiniteSets

CONSTANTS
    Caller,     \* requests, of all instances
    AppOf,      \* caller -> the instance it runs in
    LockKey,    \* keys of With
    HashOf,     \* key -> advisoryKey or advisoryName: two keys may share one
    LockConns,  \* size of an instance's lock pool
    QueryConns, \* size of its query pool
    NoSession   \* a lock nobody holds

VARIABLES
    at,       \* where each caller is in With
    wanted,   \* With's key argument
    session,  \* database lock -> the caller whose session holds it, or NoSession
    gone      \* callers whose closed session the database has not noticed

advisoryVars == <<at, wanted, session, gone>>

Lock == {HashOf[k] : k \in LockKey}

ASSUME HashAssumption == HashOf \in [LockKey -> Lock]
ASSUME SessionAssumption == NoSession \notin Caller

AdvisoryTypeOK ==
    /\ at \in [Caller -> {"idle", "conn", "wait", "fn", "query", "done"}]
    /\ wanted \in [Caller -> LockKey]
    /\ session \in [Lock -> Caller \cup {NoSession}]
    /\ gone \subseteq Caller
    /\ \A c \in Caller : at[c] \in {"fn", "query", "done"} =>
          session[HashOf[wanted[c]]] = c /\ c \notin gone

AdvisoryInit ==
    /\ at = [c \in Caller |-> "idle"]
    /\ wanted \in [Caller -> LockKey]
    /\ session = [i \in Lock |-> NoSession]
    /\ gone = {}

\* Connections of an instance that are out.
Peers(c) == {d \in Caller : AppOf[d] = AppOf[c]}
LockConnsOut(c)  == {d \in Peers(c) : at[d] \in {"wait", "fn", "query", "done"}}
QueryConnsOut(c) == {d \in Peers(c) : at[d] = "query"}

Move(c, place) == at' = [at EXCEPT ![c] = place]

\* A caller whose earlier session is still to end stands for a new request: it
\* waits for that end, so that a session has one name.
CallAdvisory(c, k) ==
    /\ at[c] = "idle" /\ c \notin gone
    /\ Move(c, "conn") /\ wanted' = [wanted EXCEPT ![c] = k]
    /\ UNCHANGED <<session, gone>>

\* pool.Acquire, db.Conn.
TakeLockConn(c) ==
    /\ at[c] = "conn"
    /\ Cardinality(LockConnsOut(c)) < LockConns
    /\ Move(c, "wait")
    /\ UNCHANGED <<wanted, session, gone>>

LockOf(c) == HashOf[wanted[c]]

\* (Mutant: a round that ended without the lock counts as one that got it.)
NobodyHolds(i) == TRUE

LockIsFree(i) == session[i] = NoSession

\* pg_advisory_lock returns; GET_LOCK returns 1.
TakeLock(c) ==
    /\ at[c] = "wait" /\ LockIsFree(LockOf(c))
    /\ session' = [session EXCEPT ![LockOf(c)] = c]
    /\ Move(c, "fn")
    /\ UNCHANGED <<wanted, gone>>

\* (Mutant: queries take the connections of the lock pool.)
SharedConnFree(c) == Cardinality(LockConnsOut(c)) + Cardinality(QueryConnsOut(c)) < LockConns

QueryConnFree(c) == Cardinality(QueryConnsOut(c)) < QueryConns

\* fn reads and writes the stores.
TakeQueryConn(c) ==
    /\ at[c] = "fn" /\ QueryConnFree(c)
    /\ Move(c, "query")
    /\ UNCHANGED <<wanted, session, gone>>

FnReturns(c) ==
    /\ at[c] = "query"
    /\ Move(c, "done")
    /\ UNCHANGED <<wanted, session, gone>>

\* The deferred unlock, on the session that locked, with a context of its own.
Unlock(c) ==
    /\ at[c] = "done"
    /\ session' = [i \in Lock |-> IF session[i] = c THEN NoSession ELSE session[i]]
    /\ Move(c, "idle")
    /\ UNCHANGED <<wanted, gone>>

\* The context ends during a wait.  The driver closes the connection, and the
\* database may have granted the lock in the same moment.
GiveUp(c) ==
    /\ at[c] \in {"conn", "wait"}
    /\ Move(c, "idle")
    /\ \/ UNCHANGED <<session, gone>>
       \/ /\ at[c] = "wait" /\ LockIsFree(LockOf(c))
          /\ session' = [session EXCEPT ![LockOf(c)] = c]
          /\ gone' = gone \cup {c}
    /\ UNCHANGED wanted

\* The caller's process is killed; the others of the process die in steps of
\* their own.
Die(c) ==
    /\ at[c] # "idle"
    /\ Move(c, "idle")
    /\ gone' = IF at[c] = "conn" THEN gone ELSE gone \cup {c}
    /\ UNCHANGED <<wanted, session>>

\* The database notices.
SessionEnds(c) ==
    /\ c \in gone
    /\ gone' = gone \ {c}
    /\ session' = [i \in Lock |-> IF session[i] = c THEN NoSession ELSE session[i]]
    /\ UNCHANGED <<at, wanted>>

AdvanceInDatabase(c) ==
    TakeLockConn(c) \/ TakeLock(c) \/ TakeQueryConn(c) \/ FnReturns(c) \/ Unlock(c)

AdvisoryNext ==
    \E c \in Caller :
        \/ \E k \in LockKey : CallAdvisory(c, k)
        \/ AdvanceInDatabase(c)
        \/ GiveUp(c) \/ Die(c) \/ SessionEnds(c)

\* Pools and the database serve those who wait in turn (strong fairness); fn
\* ends, and so does a session that was closed.  Nothing makes a context end or
\* a process die.
AdvisoryFairness ==
    \A c \in Caller : SF_advisoryVars(AdvanceInDatabase(c)) /\ WF_advisoryVars(SessionEnds(c))

-------------------------------------------------------------------------------
\* "Per-slug serialization holds across app instances" (advisorylock.go): as a
\* refinement, every behaviour of the pools, sessions and crashes is one of the
\* plain keyed lock; a caller that gives up or dies withdraws.
PhaseAt(place) == IF place \in {"conn", "wait"} THEN "asking"
                  ELSE IF place \in {"fn", "query"} THEN "in" ELSE "out"

AdvisoryPhase == [c \in Caller |-> PhaseAt(at[c])]

KeyedPromise == INSTANCE KeyedLock
                    WITH Proc <- Caller, Key <- LockKey, phase <- AdvisoryPhase, want <- wanted

AdvisoryImplementsLocker == KeyedPromise!Spec

\* Two callers whose keys share a hash merely take turns, and are not both inside.
HashExcludes ==
    \A c, d \in Caller :
        AdvisoryPhase[c] = "in" /\ AdvisoryPhase[d] = "in" /\ LockOf(c) = LockOf(d) => c = d

\* Who waits for the lock gets it, unless it gives up or dies: requests that
\* fill the lock pool still find connections for their queries
\* (postgres.go:46-52, "a deadlock (observed)").
LockIsServed == \A c \in Caller : at[c] = "conn" ~> at[c] \in {"query", "idle"}
===============================================================================
