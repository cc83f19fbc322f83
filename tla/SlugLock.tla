------------------------------- MODULE SlugLock -------------------------------
(***************************************************************************)
(* The in-process keyed mutex of internal/platform/sluglock/sluglock.go.   *)
(*                                                                         *)
(* Every write of a document, of its comments, grants and assets runs in   *)
(* Memory.With(ctx, slug, fn).  The difficulty is reclamation: an entry of *)
(* the map is created on first use and deleted when nobody uses it, and    *)
(* two callers that ended up with two entry objects for one slug would     *)
(* both be inside.                                                         *)
(*                                                                         *)
(* Atomicity: m.mu guards locks and the waiter counts and is never held    *)
(* across another lock operation, so Acquire and Release are one step      *)
(* each.  e.mu.Lock blocks, so it is a step of its own.                    *)
(***************************************************************************)
EXTENDS Integers, FiniteSets

CONSTANTS
    Proc,     \* goroutines that call With
    Key,      \* lock keys
    Entry,    \* identities of *entry objects (heap cells)
    NoEntry,  \* a nil *entry
    NoProc    \* an unlocked entry.mu

ASSUME ProcAssumption == IsFiniteSet(Proc) /\ NoProc \notin Proc
ASSUME EntryAssumption == NoEntry \notin Entry

VARIABLES
    locks,    \* Memory.locks: key -> entry, NoEntry when the key is absent
    waiters,  \* entry.waiters
    mu,       \* entry.mu: the goroutine that holds it
    pc,       \* where each goroutine is in With
    key,      \* With's key argument
    ref       \* With's local e

vars == <<locks, waiters, mu, pc, key, ref>>

TypeOK ==
    /\ locks \in [Key -> Entry \cup {NoEntry}]
    /\ waiters \in [Entry -> Nat]
    /\ mu \in [Entry -> Proc \cup {NoProc}]
    /\ pc \in [Proc -> {"idle", "acquire", "lock", "fn", "release"}]
    /\ key \in [Proc -> Key]
    /\ ref \in [Proc -> Entry \cup {NoEntry}]

Init ==
    /\ locks = [k \in Key |-> NoEntry]
    /\ waiters = [e \in Entry |-> 0]
    /\ mu = [e \in Entry |-> NoProc]
    /\ pc = [p \in Proc |-> "idle"]
    /\ key \in [Proc -> Key]
    /\ ref = [p \in Proc |-> NoEntry]

\* Users(e): the goroutines that have e in their local variable.
Users(e) == {p \in Proc : ref[p] = e}

\* An entry object nobody can reach: what &entry{} may return.
Unreachable(e) == Users(e) = {} /\ \A k \in Key : locks[k] # e

-------------------------------------------------------------------------------
\* With is called with a context that is not cancelled yet; with a cancelled
\* one it returns ctx.Err() and nothing changes.
With(p, k) ==
    /\ pc[p] = "idle"
    /\ pc' = [pc EXCEPT ![p] = "acquire"]
    /\ key' = [key EXCEPT ![p] = k]
    /\ UNCHANGED <<locks, waiters, mu, ref>>

\* e is handed to p, and p is counted before m.mu is released.
Take(p, e, count) ==
    /\ waiters' = [waiters EXCEPT ![e] = count]
    /\ ref' = [ref EXCEPT ![p] = e]
    /\ pc' = [pc EXCEPT ![p] = "lock"]
    /\ UNCHANGED key

AcquireExisting(p) ==
    /\ pc[p] = "acquire"
    /\ locks[key[p]] # NoEntry
    /\ Take(p, locks[key[p]], waiters[locks[key[p]]] + 1)
    /\ UNCHANGED <<locks, mu>>

\* (Mutant: the first user is not counted.)
AcquireFreshUncounted(p) ==
    /\ pc[p] = "acquire"
    /\ locks[key[p]] = NoEntry
    /\ \E e \in Entry :
          /\ Unreachable(e)
          /\ locks' = [locks EXCEPT ![key[p]] = e]
          /\ mu' = [mu EXCEPT ![e] = NoProc]
          /\ Take(p, e, 0)

AcquireFresh(p) ==
    /\ pc[p] = "acquire"
    /\ locks[key[p]] = NoEntry
    /\ \E e \in Entry :
          /\ Unreachable(e)
          /\ locks' = [locks EXCEPT ![key[p]] = e]
          /\ mu' = [mu EXCEPT ![e] = NoProc]
          /\ Take(p, e, 1)

\* (Mutant: the entry's mutex is not taken.)
LockNothing(p) ==
    /\ pc[p] = "lock"
    /\ pc' = [pc EXCEPT ![p] = "fn"]
    /\ UNCHANGED <<locks, waiters, mu, key, ref>>

LockEntry(p) ==
    /\ pc[p] = "lock"
    /\ mu[ref[p]] = NoProc
    /\ mu' = [mu EXCEPT ![ref[p]] = p]
    /\ pc' = [pc EXCEPT ![p] = "fn"]
    /\ UNCHANGED <<locks, waiters, key, ref>>

\* (Mutant: a panic in fn skips the unlock.)
UnlockSkipped(p) ==
    /\ pc[p] = "fn"
    /\ pc' = [pc EXCEPT ![p] = "release"]
    /\ UNCHANGED <<locks, waiters, mu, key, ref>>

\* fn has returned or panicked: the deferred calls run last-in first-out,
\* so entry.mu is unlocked first.
UnlockEntry(p) ==
    /\ pc[p] = "fn"
    /\ mu' = [mu EXCEPT ![ref[p]] = NoProc]
    /\ pc' = [pc EXCEPT ![p] = "release"]
    /\ UNCHANGED <<locks, waiters, key, ref>>

\* (Mutants: the entry is deleted while others wait on it, or never.)
ReleaseAlways(p) ==
    /\ pc[p] = "release"
    /\ waiters' = [waiters EXCEPT ![ref[p]] = @ - 1]
    /\ locks' = [locks EXCEPT ![key[p]] = NoEntry]
    /\ ref' = [ref EXCEPT ![p] = NoEntry]
    /\ pc' = [pc EXCEPT ![p] = "idle"]
    /\ UNCHANGED <<mu, key>>

ReleaseNever(p) ==
    /\ pc[p] = "release"
    /\ waiters' = [waiters EXCEPT ![ref[p]] = @ - 1]
    /\ ref' = [ref EXCEPT ![p] = NoEntry]
    /\ pc' = [pc EXCEPT ![p] = "idle"]
    /\ UNCHANGED <<locks, mu, key>>

\* release deletes by key, not by entry.
Release(p) ==
    /\ pc[p] = "release"
    /\ LET left == waiters[ref[p]] - 1
       IN  /\ waiters' = [waiters EXCEPT ![ref[p]] = left]
           /\ locks' = IF left = 0 THEN [locks EXCEPT ![key[p]] = NoEntry]
                                   ELSE locks
    /\ ref' = [ref EXCEPT ![p] = NoEntry]
    /\ pc' = [pc EXCEPT ![p] = "idle"]
    /\ UNCHANGED <<mu, key>>

Next ==
    \E p \in Proc :
        \/ \E k \in Key : With(p, k)
        \/ AcquireExisting(p)
        \/ AcquireFresh(p)
        \/ LockEntry(p)
        \/ UnlockEntry(p)
        \/ Release(p)

Spec == Init /\ [][Next]_vars

Advance(p) ==
    AcquireExisting(p) \/ AcquireFresh(p) \/ LockEntry(p) \/ UnlockEntry(p) \/ Release(p)

\* A goroutine that can run is scheduled, and fn returns.  sync.Mutex hands a
\* contended lock to its longest waiter in starvation mode, so a waiter that
\* again and again finds the mutex free gets it: fairness is strong, which
\* matters to LockEntry alone, the only step others can disable.
Fairness == \A p \in Proc : SF_vars(Advance(p))

FairSpec == Spec /\ Fairness

-------------------------------------------------------------------------------
InWith(p) == pc[p] \in {"lock", "fn", "release"}

\* At most one fn runs per key (sluglock.go: "Locker serializes work per
\* key").  Breaks if an entry is deleted while someone still waits on it.
MutualExclusion ==
    \A p, q \in Proc :
        pc[p] = "fn" /\ pc[q] = "fn" /\ key[p] = key[q] => p = q

\* All the goroutines inside With for one key use the entry the map holds for
\* that key, and no other key's.
OneEntryPerKey ==
    \A p \in Proc :
        IF InWith(p) THEN ref[p] # NoEntry /\ locks[key[p]] = ref[p]
                     ELSE ref[p] = NoEntry

\* An entry of the map is used by somebody: the map is bounded by the requests
\* in flight (the comment on entry: without the count it would grow with every
\* slug ever seen).
MapBoundedByRequests ==
    \A k \in Key : locks[k] # NoEntry =>
        \E p \in Proc : InWith(p) /\ ref[p] = locks[k] /\ key[p] = k

\* Two keys never share an entry.
DistinctEntries ==
    \A k, l \in Key : locks[k] # NoEntry /\ locks[k] = locks[l] => k = l

\* The count of an entry the map holds is the number of its users.
WaitersCountUsers ==
    \A k \in Key : locks[k] # NoEntry =>
        waiters[locks[k]] = Cardinality(Users(locks[k]))

\* entry.mu is held exactly by the goroutine that is in fn with that entry.
MutexHeldInFn ==
    \A e \in Entry : ~Unreachable(e) =>
        \A p \in Proc : mu[e] = p <=> (pc[p] = "fn" /\ ref[p] = e)

\* The inductive invariant: mutual exclusion follows because two users of one
\* key use one entry, whose mutex names one of them.
IInv ==
    /\ TypeOK
    /\ OneEntryPerKey
    /\ MapBoundedByRequests
    /\ DistinctEntries
    /\ WaitersCountUsers
    /\ MutexHeldInFn

\* A caller that entered With gets to run fn.
NoStarvation == \A p \in Proc : pc[p] = "acquire" ~> pc[p] = "fn"

\* The promise of the Locker interface.
PhaseOf(c) == IF c \in {"acquire", "lock"} THEN "asking"
              ELSE IF c = "fn" THEN "in" ELSE "out"

phaseOf == [p \in Proc |-> PhaseOf(pc[p])]

Promise == INSTANCE KeyedLock WITH phase <- phaseOf, want <- key

\* Memory implements Locker: every behaviour of the entries, counts and mutexes
\* is a behaviour of the plain keyed lock.
ImplementsLocker == Promise!Spec
===============================================================================
