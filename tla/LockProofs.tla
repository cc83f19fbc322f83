----------------------------- MODULE LockProofs -----------------------------
(***************************************************************************)
(* The two lockers.  SlugLock, for any finite number of goroutines, any    *)
(* keys and any supply of entry objects; AdvisoryLock, for any callers,    *)
(* instances, keys and pool sizes: the database's lock excludes callers of *)
(* all instances, through crashes and cancelled waits.  Both implement the *)
(* plain keyed lock.                                                       *)
(***************************************************************************)
EXTENDS SlugLock, AdvisoryLock, FiniteSetTheorems, TLAPS

\* The users of an entry are finitely many: there are finitely many goroutines.
LEMMA UsersFinite == \A e : IsFiniteSet(Users(e)) /\ Cardinality(Users(e)) \in Nat
  BY ProcAssumption, FS_Subset, FS_CardinalityType DEF Users

\* A goroutine that has an entry is inside With.
LEMMA UserIsInWith ==
    ASSUME IInv, NEW p \in Proc, ref[p] # NoEntry
    PROVE  InWith(p) /\ locks[key[p]] = ref[p] /\ ref[p] \in Entry
  BY DEF IInv, TypeOK, OneEntryPerKey

\* The invariant holds when the process starts.
LEMMA InitIInv == Init => IInv
  BY EntryAssumption, ProcAssumption
  DEF Init, IInv, TypeOK, OneEntryPerKey, MapBoundedByRequests, DistinctEntries,
      WaitersCountUsers, MutexHeldInFn, InWith, Unreachable, Users

\* Calling With changes no entry.
LEMMA WithKeeps ==
    ASSUME IInv, NEW p \in Proc, NEW k \in Key, With(p, k)
    PROVE  IInv'
  BY DEF With, IInv, TypeOK, OneEntryPerKey, MapBoundedByRequests,
         DistinctEntries, WaitersCountUsers, MutexHeldInFn, InWith,
         Unreachable, Users

\* One more goroutine on the entry of its key.
LEMMA AcquireExistingKeeps ==
    ASSUME IInv, NEW p \in Proc, AcquireExisting(p)
    PROVE  IInv'
  <1>0. PICK e \in Entry : e = locks[key[p]]
    BY DEF AcquireExisting, IInv, TypeOK
  <1>1. /\ key[p] \in Key /\ locks[key[p]] = e /\ ref[p] = NoEntry /\ ~InWith(p)
        /\ ref' = [ref EXCEPT ![p] = e]
        /\ pc' = [pc EXCEPT ![p] = "lock"]
        /\ waiters' = [waiters EXCEPT ![e] = waiters[e] + 1]
        /\ UNCHANGED <<key, locks, mu>>
    BY <1>0 DEF AcquireExisting, Take, IInv, TypeOK, OneEntryPerKey, InWith
  <1>2. TypeOK'
    BY <1>1 DEF IInv, TypeOK
  <1>3. OneEntryPerKey'
    BY <1>1, EntryAssumption DEF IInv, TypeOK, OneEntryPerKey, InWith
  <1>4. MapBoundedByRequests'
    BY <1>1 DEF IInv, TypeOK, MapBoundedByRequests, InWith
  <1>5. DistinctEntries'
    BY <1>1 DEF IInv, DistinctEntries
  <1>6. Users(e)' = Users(e) \cup {p} /\ p \notin Users(e)
    BY <1>1, EntryAssumption DEF Users, IInv, TypeOK
  <1>7. \A f \in Entry \ {e} : Users(f)' = Users(f)
    BY <1>1, EntryAssumption DEF Users, IInv, TypeOK
  <1>8. WaitersCountUsers'
    <2>1. waiters[e] = Cardinality(Users(e)) /\ waiters[e] \in Int
      BY <1>1, EntryAssumption DEF IInv, TypeOK, WaitersCountUsers
    <2>2. Cardinality(Users(e)') = Cardinality(Users(e)) + 1
      BY <1>6, UsersFinite, FS_AddElement
    <2>3. SUFFICES ASSUME NEW k \in Key, NEW f \in Entry, f = locks[k]
                   PROVE  waiters'[f] = Cardinality(Users(f)')
      BY <1>1 DEF WaitersCountUsers, IInv, TypeOK
    <2>4. CASE f = e
      BY <2>1, <2>2, <2>4, <1>1 DEF IInv, TypeOK
    <2>5. CASE f # e
      BY <2>3, <2>5, <1>1, <1>7, EntryAssumption DEF IInv, TypeOK, WaitersCountUsers
    <2>6. QED  BY <2>4, <2>5
  <1>9. MutexHeldInFn'
    BY <1>1, EntryAssumption DEF IInv, TypeOK, MutexHeldInFn, Unreachable, Users, OneEntryPerKey, InWith
  <1>10. QED  BY <1>2, <1>3, <1>4, <1>5, <1>8, <1>9 DEF IInv

\* The first goroutine on a key makes its entry.
LEMMA AcquireFreshKeeps ==
    ASSUME IInv, NEW p \in Proc, AcquireFresh(p)
    PROVE  IInv'
  <1>1. PICK e \in Entry :
           /\ Unreachable(e)
           /\ locks' = [locks EXCEPT ![key[p]] = e]
           /\ mu' = [mu EXCEPT ![e] = NoProc]
           /\ Take(p, e, 1)
    BY DEF AcquireFresh
  <1>2. /\ key[p] \in Key /\ ref[p] = NoEntry /\ ~InWith(p)
        /\ locks[key[p]] = NoEntry /\ e # NoEntry
        /\ \A q \in Proc : ref[q] # e
        /\ \A k \in Key : locks[k] # e
        /\ ref' = [ref EXCEPT ![p] = e]
        /\ pc' = [pc EXCEPT ![p] = "lock"]
        /\ waiters' = [waiters EXCEPT ![e] = 1]
        /\ UNCHANGED key
    BY <1>1, EntryAssumption
    DEF AcquireFresh, Take, IInv, TypeOK, OneEntryPerKey, InWith, Unreachable, Users
  <1>3. TypeOK'
    BY <1>1, <1>2 DEF IInv, TypeOK
  <1>4. OneEntryPerKey'
    BY <1>1, <1>2, EntryAssumption DEF IInv, TypeOK, OneEntryPerKey, InWith
  <1>5. MapBoundedByRequests'
    BY <1>1, <1>2 DEF IInv, TypeOK, MapBoundedByRequests, InWith
  <1>6. DistinctEntries'
    BY <1>1, <1>2 DEF IInv, TypeOK, DistinctEntries
  <1>7. Users(e)' = {p} /\ \A f \in Entry \ {e} : Users(f)' = Users(f)
    BY <1>1, <1>2, EntryAssumption DEF Users, IInv, TypeOK
  <1>8. WaitersCountUsers'
    <2>1. Cardinality(Users(e)') = 1
      BY <1>7, FS_Singleton
    <2>2. SUFFICES ASSUME NEW k \in Key, NEW f \in Entry, f = locks'[k]
                   PROVE  waiters'[f] = Cardinality(Users(f)')
      BY <1>3 DEF WaitersCountUsers, TypeOK
    <2>3. CASE k = key[p]
      BY <2>1, <2>2, <2>3, <1>1, <1>2 DEF IInv, TypeOK
    <2>4. CASE k # key[p]
      BY <2>2, <2>4, <1>1, <1>2, <1>7, EntryAssumption DEF IInv, TypeOK, WaitersCountUsers
    <2>5. QED  BY <2>3, <2>4
  <1>9. MutexHeldInFn'
    BY <1>1, <1>2, EntryAssumption, ProcAssumption
    DEF IInv, TypeOK, MutexHeldInFn, Unreachable, Users, OneEntryPerKey, InWith
  <1>10. QED  BY <1>3, <1>4, <1>5, <1>6, <1>8, <1>9 DEF IInv

\* Taking the entry's mutex changes only who holds it.
LEMMA LockEntryKeeps ==
    ASSUME IInv, NEW p \in Proc, LockEntry(p)
    PROVE  IInv'
  <1>1. ref[p] \in Entry /\ InWith(p)
    BY UserIsInWith, EntryAssumption DEF LockEntry, IInv, TypeOK, OneEntryPerKey, InWith
  <1>2. TypeOK' /\ OneEntryPerKey' /\ MapBoundedByRequests' /\ DistinctEntries'
    BY <1>1 DEF LockEntry, IInv, TypeOK, OneEntryPerKey, MapBoundedByRequests,
                DistinctEntries, InWith
  <1>3. WaitersCountUsers'
    BY DEF LockEntry, IInv, WaitersCountUsers, Users
  <1>4. MutexHeldInFn'
    BY <1>1, ProcAssumption DEF LockEntry, IInv, TypeOK, MutexHeldInFn, Unreachable, Users
  <1>5. QED  BY <1>2, <1>3, <1>4 DEF IInv

\* Giving it back leaves it free: nobody else was in fn with that entry.
LEMMA UnlockEntryKeeps ==
    ASSUME IInv, NEW p \in Proc, UnlockEntry(p)
    PROVE  IInv'
  <1>1. ref[p] \in Entry /\ InWith(p)
    BY UserIsInWith, EntryAssumption DEF UnlockEntry, IInv, TypeOK, OneEntryPerKey, InWith
  <1>2. TypeOK' /\ OneEntryPerKey' /\ MapBoundedByRequests' /\ DistinctEntries'
    BY <1>1 DEF UnlockEntry, IInv, TypeOK, OneEntryPerKey, MapBoundedByRequests,
                DistinctEntries, InWith
  <1>3. WaitersCountUsers'
    BY DEF UnlockEntry, IInv, WaitersCountUsers, Users
  <1>4. MutexHeldInFn'
    BY <1>1, ProcAssumption DEF UnlockEntry, IInv, TypeOK, MutexHeldInFn, Unreachable, Users
  <1>5. QED  BY <1>2, <1>3, <1>4 DEF IInv

\* The count reaches zero exactly when the last user leaves, so the key is
\* deleted exactly then.
LEMMA ReleaseKeeps ==
    ASSUME IInv, NEW p \in Proc, Release(p)
    PROVE  IInv'
  <1>0. PICK e \in Entry : e = ref[p]
    BY EntryAssumption DEF Release, IInv, TypeOK, OneEntryPerKey, InWith
  <1> DEFINE left == waiters[e] - 1
  <1>1. /\ ref[p] = e /\ e # NoEntry /\ key[p] \in Key /\ pc[p] = "release"
        /\ locks[key[p]] = e
        /\ \A k \in Key : locks[k] = e => k = key[p]
        /\ waiters' = [waiters EXCEPT ![e] = left]
        /\ locks' = IF left = 0 THEN [locks EXCEPT ![key[p]] = NoEntry] ELSE locks
        /\ ref' = [ref EXCEPT ![p] = NoEntry]
        /\ pc' = [pc EXCEPT ![p] = "idle"]
        /\ UNCHANGED <<mu, key>>
    BY <1>0, EntryAssumption
    DEF Release, IInv, TypeOK, OneEntryPerKey, DistinctEntries, InWith
  <1>2. Users(e)' = Users(e) \ {p} /\ p \in Users(e)
    BY <1>1 DEF Users, IInv, TypeOK
  <1>3. \A f \in Entry \ {e} : Users(f)' = Users(f)
    BY <1>1, EntryAssumption DEF Users, IInv, TypeOK
  <1>4. left = Cardinality(Users(e)')
    <2>1. waiters[e] = Cardinality(Users(e))
      BY <1>1 DEF IInv, WaitersCountUsers
    <2>2. Cardinality(Users(e)') = Cardinality(Users(e)) - 1
      BY <1>2, UsersFinite, FS_RemoveElement
    <2>3. QED  BY <2>1, <2>2
  <1>5. left = 0 <=> Users(e)' = {}
    <2>1. IsFiniteSet(Users(e)')
      BY <1>2, UsersFinite, FS_RemoveElement
    <2>2. QED  BY <2>1, <1>4, FS_EmptySet
  <1>6. \A q \in Proc \ {p} : InWith(q)' <=> InWith(q)
    BY <1>1 DEF InWith, IInv, TypeOK
  <1>7. \A q \in Proc \ {p} : InWith(q) /\ key[q] = key[p] => left # 0
    BY <1>1, <1>2, <1>5 DEF Users, IInv, OneEntryPerKey
  <1>8. TypeOK'
    <2>1. left \in Nat
      BY <1>2, <1>4, UsersFinite, FS_RemoveElement, FS_CardinalityType
    <2>2. QED  BY <2>1, <1>1 DEF IInv, TypeOK
  <1>9. OneEntryPerKey'
    BY <1>1, <1>6, <1>7 DEF IInv, TypeOK, OneEntryPerKey, InWith
  <1>10. MapBoundedByRequests'
    <2>1. SUFFICES ASSUME NEW k \in Key, locks'[k] # NoEntry
                   PROVE  \E q \in Proc : InWith(q)' /\ ref'[q] = locks'[k] /\ key'[q] = k
      BY DEF MapBoundedByRequests
    <2>2. locks'[k] = locks[k] /\ locks[k] # NoEntry
      BY <2>1, <1>1 DEF IInv, TypeOK
    <2>3. CASE k # key[p]
      BY <2>2, <2>3, <1>1, <1>6 DEF IInv, TypeOK, MapBoundedByRequests
    <2>4. CASE k = key[p]
      <3>1. left # 0
        BY <2>1, <2>4, <1>1 DEF IInv, TypeOK
      <3>2. PICK q \in Proc \ {p} : ref[q] = e
        BY <3>1, <1>2, <1>5 DEF Users
      <3>3. InWith(q) /\ locks[key[q]] = e /\ key[q] \in Key
        BY <3>2, <1>1 DEF IInv, TypeOK, OneEntryPerKey
      <3>4. key[q] = k /\ ref'[q] = locks'[k] /\ key'[q] = k
        BY <3>2, <3>3, <2>2, <2>4, <1>1 DEF IInv, TypeOK
      <3>5. QED  BY <3>3, <3>4, <1>6
    <2>5. QED  BY <2>3, <2>4
  <1>11. DistinctEntries'
    BY <1>1 DEF IInv, TypeOK, DistinctEntries
  <1>12. WaitersCountUsers'
    <2>1. SUFFICES ASSUME NEW k \in Key, NEW f \in Entry, f = locks'[k]
                   PROVE  waiters'[f] = Cardinality(Users(f)')
      BY <1>8 DEF WaitersCountUsers, TypeOK
    <2>2. locks[k] = f
      BY <2>1, <1>1, EntryAssumption DEF IInv, TypeOK
    <2>3. CASE f = e
      BY <2>2, <2>3, <1>1, <1>4 DEF IInv, TypeOK
    <2>4. CASE f # e
      BY <2>2, <2>4, <1>1, <1>3, EntryAssumption DEF IInv, TypeOK, WaitersCountUsers
    <2>5. QED  BY <2>3, <2>4
  <1>13. MutexHeldInFn'
    BY <1>1, EntryAssumption DEF IInv, TypeOK, MutexHeldInFn, Unreachable, Users
  <1>14. QED  BY <1>8, <1>9, <1>10, <1>11, <1>12, <1>13 DEF IInv

-----------------------------------------------------------------------------
LEMMA StepKeepsIInv == IInv /\ [Next]_vars => IInv'
  <1> SUFFICES ASSUME IInv, [Next]_vars PROVE IInv'
    OBVIOUS
  <1>1. ASSUME NEW p \in Proc, NEW k \in Key, With(p, k) PROVE IInv'
    BY <1>1, WithKeeps
  <1>2. ASSUME NEW p \in Proc, AcquireExisting(p) PROVE IInv'
    BY <1>2, AcquireExistingKeeps
  <1>3. ASSUME NEW p \in Proc, AcquireFresh(p) PROVE IInv'
    BY <1>3, AcquireFreshKeeps
  <1>4. ASSUME NEW p \in Proc, LockEntry(p) PROVE IInv'
    BY <1>4, LockEntryKeeps
  <1>5. ASSUME NEW p \in Proc, UnlockEntry(p) PROVE IInv'
    BY <1>5, UnlockEntryKeeps
  <1>6. ASSUME NEW p \in Proc, Release(p) PROVE IInv'
    BY <1>6, ReleaseKeeps
  <1>7. CASE UNCHANGED vars
    BY <1>7 DEF vars, IInv, TypeOK, OneEntryPerKey, MapBoundedByRequests,
                DistinctEntries, WaitersCountUsers, MutexHeldInFn, InWith,
                Unreachable, Users
  <1>8. QED  BY <1>1, <1>2, <1>3, <1>4, <1>5, <1>6, <1>7 DEF Next

\* The inductive invariant of the keyed mutex (sluglock.go:38-75): entries,
\* counts and mutexes agree with where the goroutines are.
THEOREM LockInvariant == Spec => []IInv
  <1>1. QED  BY InitIInv, StepKeepsIInv, PTL DEF Spec

\* Every variable keeps its type.
THEOREM TypeCorrect == Spec => []TypeOK
  <1>1. IInv => TypeOK
    BY DEF IInv
  <1>2. QED  BY <1>1, LockInvariant, PTL

\* Two goroutines in fn with one key share the entry of that key, and its mutex
\* names only one of them.
LEMMA IInvExcludes == IInv => MutualExclusion
  <1> SUFFICES ASSUME IInv, NEW p \in Proc, NEW q \in Proc,
                      pc[p] = "fn", pc[q] = "fn", key[p] = key[q]
               PROVE  p = q
    BY DEF MutualExclusion
  <1>1. ref[p] = ref[q] /\ ref[p] \in Entry /\ ~Unreachable(ref[p])
    BY EntryAssumption DEF IInv, TypeOK, OneEntryPerKey, InWith, Unreachable, Users
  <1>2. mu[ref[p]] = p /\ mu[ref[p]] = q
    BY <1>1 DEF IInv, MutexHeldInFn
  <1>3. QED  BY <1>2

\* At most one fn per key, however entries are created and reclaimed
\* (sluglock.go: "serializes work per key").
THEOREM LockExcludes == Spec => []MutualExclusion
  <1>1. QED  BY IInvExcludes, LockInvariant, PTL

\* Two callers with one slug never work on two entries, however the reclamation
\* of one and the arrival of the other interleave (sluglock.go:66-75).
THEOREM EntriesAreUnique == Spec => []OneEntryPerKey
  <1>1. IInv => OneEntryPerKey
    BY DEF IInv
  <1>2. QED  BY <1>1, LockInvariant, PTL

\* The count that decides the reclamation is the number of users.
THEOREM CountsAreExact == Spec => []WaitersCountUsers
  <1>1. IInv => WaitersCountUsers
    BY DEF IInv
  <1>2. QED  BY <1>1, LockInvariant, PTL

\* The map never outgrows the requests in flight (sluglock.go: "keeping the map
\* bounded to in-flight keys").
THEOREM MapStaysBounded == Spec => []MapBoundedByRequests
  <1>1. IInv => MapBoundedByRequests
    BY DEF IInv
  <1>2. QED  BY <1>1, LockInvariant, PTL

-----------------------------------------------------------------------------
\* Where a goroutine is, as the interface sees it.
LEMMA PhaseAfter ==
    ASSUME TypeOK, NEW p \in Proc, NEW c, pc' = [pc EXCEPT ![p] = c]
    PROVE  phaseOf' = [phaseOf EXCEPT ![p] = PhaseOf(c)]
  BY DEF phaseOf, TypeOK

\* Every step of the entries is a step of the plain keyed lock, or none at all.
LEMMA StepRefines == IInv /\ IInv' /\ [Next]_vars => [Promise!Next]_(Promise!vars)
  <1> SUFFICES ASSUME IInv, IInv', [Next]_vars
               PROVE  Promise!Next \/ UNCHANGED <<phaseOf, key>>
    BY DEF Promise!vars
  <1>0. TypeOK
    BY DEF IInv
  <1>1. ASSUME NEW p \in Proc, NEW k \in Key, With(p, k)
        PROVE  Promise!Ask(p, k)
    BY <1>0, <1>1, PhaseAfter DEF With, Promise!Ask, phaseOf, PhaseOf
  <1>2. ASSUME NEW p \in Proc, AcquireExisting(p)
        PROVE  UNCHANGED <<phaseOf, key>>
    BY <1>0, <1>2 DEF AcquireExisting, Take, phaseOf, PhaseOf, TypeOK
  <1>3. ASSUME NEW p \in Proc, AcquireFresh(p)
        PROVE  UNCHANGED <<phaseOf, key>>
    BY <1>0, <1>3 DEF AcquireFresh, Take, phaseOf, PhaseOf, TypeOK
  <1>4. ASSUME NEW p \in Proc, LockEntry(p)
        PROVE  Promise!Grant(p)
    <2>1. phaseOf[p] = "asking" /\ pc'[p] = "fn" /\ UNCHANGED key
      BY <1>0, <1>4 DEF LockEntry, phaseOf, PhaseOf, TypeOK
    <2>2. ASSUME NEW q \in Proc, phaseOf[q] = "in" PROVE key[q] # key[p]
      <3>1. pc[q] = "fn" /\ q # p
        BY <2>1, <2>2 DEF phaseOf, PhaseOf
      <3>2. pc'[q] = "fn"
        BY <3>1, <1>0, <1>4 DEF LockEntry, TypeOK
      <3>3. MutualExclusion'
        <4>1. IInv' => MutualExclusion'
          BY IInvExcludes, PTL
        <4>2. QED  BY <4>1
      <3>4. QED  BY <2>1, <3>1, <3>2, <3>3 DEF MutualExclusion
    <2>3. phaseOf' = [phaseOf EXCEPT ![p] = "in"]
      BY <1>0, <1>4, PhaseAfter DEF LockEntry, PhaseOf
    <2>4. QED  BY <2>1, <2>2, <2>3 DEF Promise!Grant
  <1>5. ASSUME NEW p \in Proc, UnlockEntry(p)
        PROVE  Promise!GiveBack(p)
    BY <1>0, <1>5, PhaseAfter DEF UnlockEntry, Promise!GiveBack, phaseOf, PhaseOf, TypeOK
  <1>6. ASSUME NEW p \in Proc, Release(p)
        PROVE  UNCHANGED <<phaseOf, key>>
    BY <1>0, <1>6 DEF Release, phaseOf, PhaseOf, TypeOK
  <1>7. CASE UNCHANGED vars
    BY <1>7 DEF vars, phaseOf
  <1>8. QED
    BY <1>1, <1>2, <1>3, <1>4, <1>5, <1>6, <1>7 DEF Next, Promise!Next

\* Memory implements the Locker interface: callers may rely on KeyedLock alone.
THEOREM MemoryImplementsLocker == Spec => ImplementsLocker
  <1>1. Init => Promise!Init
    BY DEF Init, Promise!Init, phaseOf, PhaseOf
  <1>2. QED
    BY <1>1, StepRefines, LockInvariant, PTL DEF Spec, ImplementsLocker, Promise!Spec

-------------------------------------------------------------------------------
(* The lock of the database.                                                 *)

AdvisorySpec == AdvisoryInit /\ [][AdvisoryNext]_advisoryVars

\* A closed session is that of a caller that is outside, so a session that is
\* inside is never ended under its caller.
GoneAreOutside == \A c \in gone : at[c] = "idle"

AdvisoryInv == AdvisoryTypeOK /\ GoneAreOutside

\* Initially nobody is inside.
LEMMA AdvisoryInitInv == AdvisoryInit => AdvisoryInv
  BY DEF AdvisoryInit, AdvisoryInv, AdvisoryTypeOK, GoneAreOutside

\* A lock is taken when no session holds it and given back by who holds it.
LEMMA AdvisoryStepInv ==
    ASSUME AdvisoryInv, [AdvisoryNext]_advisoryVars
    PROVE  AdvisoryInv'
  <1> USE HashAssumption, SessionAssumption DEF AdvisoryInv, AdvisoryTypeOK, GoneAreOutside
  <1>1. ASSUME NEW c \in Caller, NEW k \in LockKey, CallAdvisory(c, k) PROVE AdvisoryInv'
    BY <1>1 DEF CallAdvisory, Move
  <1>2. ASSUME NEW c \in Caller, TakeLockConn(c) PROVE AdvisoryInv'
    BY <1>2 DEF TakeLockConn, Move
  <1>3. ASSUME NEW c \in Caller, TakeLock(c) PROVE AdvisoryInv'
    BY <1>3 DEF TakeLock, LockIsFree, LockOf, Move
  <1>4. ASSUME NEW c \in Caller, TakeQueryConn(c) PROVE AdvisoryInv'
    BY <1>4 DEF TakeQueryConn, Move
  <1>5. ASSUME NEW c \in Caller, FnReturns(c) PROVE AdvisoryInv'
    BY <1>5 DEF FnReturns, Move
  <1>6. ASSUME NEW c \in Caller, Unlock(c) PROVE AdvisoryInv'
    BY <1>6 DEF Unlock, Move
  <1>7. ASSUME NEW c \in Caller, GiveUp(c) PROVE AdvisoryInv'
    BY <1>7 DEF GiveUp, LockIsFree, LockOf, Move
  <1>8. ASSUME NEW c \in Caller, Die(c) PROVE AdvisoryInv'
    BY <1>8 DEF Die, Move
  <1>9. ASSUME NEW c \in Caller, SessionEnds(c) PROVE AdvisoryInv'
    BY <1>9 DEF SessionEnds
  <1>10. CASE UNCHANGED advisoryVars
    BY <1>10 DEF advisoryVars
  <1>11. QED
    BY <1>1, <1>2, <1>3, <1>4, <1>5, <1>6, <1>7, <1>8, <1>9, <1>10
       DEF AdvisoryNext, AdvanceInDatabase

\* Who is inside holds the session of the lock, and a session has one holder.
LEMMA AdvisoryInvExcludes == AdvisoryInv => HashExcludes
  BY DEF AdvisoryInv, AdvisoryTypeOK, HashExcludes, AdvisoryPhase, PhaseAt, LockOf

\* The type invariant of the advisory lock, whatever the sizes of its pools.
THEOREM AdvisoryTypes == AdvisorySpec => []AdvisoryTypeOK
  <1>1. AdvisoryInv => AdvisoryTypeOK
    BY DEF AdvisoryInv
  <1>2. AdvisoryInv /\ [AdvisoryNext]_advisoryVars => AdvisoryInv'
    BY AdvisoryStepInv
  <1>3. QED  BY <1>1, <1>2, AdvisoryInitInv, PTL DEF AdvisorySpec

\* Across instances, crashes, and waits that end, at most one caller runs fn
\* under one lock of the database.
THEOREM AdvisoryExcludes == AdvisorySpec => []HashExcludes
  <1>1. AdvisoryInv /\ [AdvisoryNext]_advisoryVars => AdvisoryInv'
    BY AdvisoryStepInv
  <1>2. QED  BY <1>1, AdvisoryInitInv, AdvisoryInvExcludes, PTL DEF AdvisorySpec

LEMMA AdvisoryPhaseAfter ==
    ASSUME AdvisoryTypeOK, NEW c \in Caller, NEW place,
           at' = [at EXCEPT ![c] = place]
    PROVE  AdvisoryPhase' = [AdvisoryPhase EXCEPT ![c] = PhaseAt(place)]
  BY DEF AdvisoryPhase, AdvisoryTypeOK

\* Every step is a step of the plain keyed lock, or none at all.
LEMMA AdvisoryStepRefines ==
    ASSUME AdvisoryInv, AdvisoryInv',
           [AdvisoryNext]_advisoryVars
    PROVE  [KeyedPromise!Next]_(KeyedPromise!vars)
  <1> SUFFICES KeyedPromise!Next \/ UNCHANGED <<AdvisoryPhase, wanted>>
    BY DEF KeyedPromise!vars
  <1>0. AdvisoryTypeOK
    BY DEF AdvisoryInv
  <1>1. ASSUME NEW c \in Caller, NEW k \in LockKey, CallAdvisory(c, k)
        PROVE  KeyedPromise!Ask(c, k)
    BY <1>0, <1>1, AdvisoryPhaseAfter
       DEF CallAdvisory, Move, KeyedPromise!Ask, AdvisoryPhase, PhaseAt
  <1>2. ASSUME NEW c \in Caller, TakeLockConn(c) \/ TakeQueryConn(c) \/ Unlock(c)
        PROVE  UNCHANGED <<AdvisoryPhase, wanted>>
    BY <1>0, <1>2
       DEF TakeLockConn, TakeQueryConn, Unlock, Move, AdvisoryPhase, PhaseAt, AdvisoryTypeOK
  <1>3. ASSUME NEW c \in Caller, TakeLock(c)
        PROVE  KeyedPromise!Grant(c)
    <2>1. at[c] = "wait" /\ at' = [at EXCEPT ![c] = "fn"] /\ UNCHANGED wanted
      BY <1>3 DEF TakeLock, Move
    <2>2. AdvisoryPhase[c] = "asking" /\ AdvisoryPhase' = [AdvisoryPhase EXCEPT ![c] = "in"]
      BY <1>0, <2>1, AdvisoryPhaseAfter DEF AdvisoryPhase, PhaseAt
    <2>3. ASSUME NEW d \in Caller, AdvisoryPhase[d] = "in" PROVE wanted[d] # wanted[c]
      <3>1. at[d] \in {"fn", "query"}
        BY <2>3 DEF AdvisoryPhase, PhaseAt
      <3>2. session[HashOf[wanted[d]]] = d
        BY <1>0, <3>1 DEF AdvisoryTypeOK
      <3>3. session[HashOf[wanted[c]]] = NoSession
        BY <1>3 DEF TakeLock, LockIsFree, LockOf
      <3>4. QED  BY <3>2, <3>3, SessionAssumption
    <2>4. QED  BY <2>1, <2>2, <2>3 DEF KeyedPromise!Grant
  <1>4. ASSUME NEW c \in Caller, FnReturns(c)
        PROVE  KeyedPromise!GiveBack(c)
    <2>1. at[c] = "query" /\ at' = [at EXCEPT ![c] = "done"] /\ UNCHANGED wanted
      BY <1>4 DEF FnReturns, Move
    <2>2. AdvisoryPhase[c] = "in" /\ AdvisoryPhase' = [AdvisoryPhase EXCEPT ![c] = "out"]
      BY <1>0, <2>1, AdvisoryPhaseAfter DEF AdvisoryPhase, PhaseAt
    <2>3. QED  BY <2>1, <2>2 DEF KeyedPromise!GiveBack
  <1>5. ASSUME NEW c \in Caller, GiveUp(c)
        PROVE  KeyedPromise!Withdraw(c)
    <2>1. at[c] \in {"conn", "wait"} /\ at' = [at EXCEPT ![c] = "idle"] /\ UNCHANGED wanted
      BY <1>5 DEF GiveUp, Move
    <2>2. AdvisoryPhase[c] = "asking" /\ AdvisoryPhase' = [AdvisoryPhase EXCEPT ![c] = "out"]
      BY <1>0, <2>1, AdvisoryPhaseAfter DEF AdvisoryPhase, PhaseAt
    <2>3. QED  BY <2>1, <2>2 DEF KeyedPromise!Withdraw
  <1>6. ASSUME NEW c \in Caller, Die(c)
        PROVE  KeyedPromise!Withdraw(c) \/ KeyedPromise!GiveBack(c)
               \/ UNCHANGED <<AdvisoryPhase, wanted>>
    <2>1. at' = [at EXCEPT ![c] = "idle"] /\ UNCHANGED wanted
      BY <1>6 DEF Die, Move
    <2>0. PhaseAt("idle") = "out"
      BY DEF PhaseAt
    <2>2. AdvisoryPhase' = [AdvisoryPhase EXCEPT ![c] = "out"]
      BY <1>0, <2>0, <2>1, AdvisoryPhaseAfter
    <2>3. AdvisoryPhase[c] \in {"asking", "in", "out"}
      BY DEF AdvisoryPhase, PhaseAt
    <2>4. CASE AdvisoryPhase[c] = "out"
      BY <2>1, <2>2, <2>4 DEF AdvisoryPhase, PhaseAt
    <2>5. QED
      BY <2>1, <2>2, <2>3, <2>4 DEF KeyedPromise!Withdraw, KeyedPromise!GiveBack
  <1>7. ASSUME NEW c \in Caller, SessionEnds(c)
        PROVE  UNCHANGED <<AdvisoryPhase, wanted>>
    BY <1>7 DEF SessionEnds, AdvisoryPhase, PhaseAt
  <1>8. CASE UNCHANGED advisoryVars
    BY <1>8 DEF advisoryVars, AdvisoryPhase, PhaseAt
  <1>9. QED
    BY <1>1, <1>2, <1>3, <1>4, <1>5, <1>6, <1>7, <1>8
       DEF AdvisoryNext, AdvanceInDatabase, KeyedPromise!Next

\* The database implements the Locker interface too: a service may be given
\* either lock.
THEOREM DatabaseImplementsLocker == AdvisorySpec => AdvisoryImplementsLocker
  <1>1. AdvisoryInit => KeyedPromise!Init
    BY DEF AdvisoryInit, KeyedPromise!Init, AdvisoryPhase, PhaseAt
  <1>2. AdvisoryInv /\ [AdvisoryNext]_advisoryVars => AdvisoryInv'
    BY AdvisoryStepInv
  <1>3. AdvisoryInv /\ AdvisoryInv' /\ [AdvisoryNext]_advisoryVars
            => [KeyedPromise!Next]_(KeyedPromise!vars)
    BY AdvisoryStepRefines
  <1>4. QED
    BY <1>1, <1>2, <1>3, AdvisoryInitInv, PTL
       DEF AdvisorySpec, AdvisoryImplementsLocker, KeyedPromise!Spec
===============================================================================
