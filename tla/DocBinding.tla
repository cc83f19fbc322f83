------------------------------- MODULE DocBinding -------------------------------
(***************************************************************************)
(* The cache of octo-server's answers about one document's binding:         *)
(* internal/service/docbinding.go.  Probes of several requests run at once; *)
(* each looks into the cache, asks octo-server without a lock, and files    *)
(* the answer, a hidden one too, for ttl from the moment it files it.       *)
(***************************************************************************)
EXTENDS Integers

CONSTANTS
    Token,    \* users' octo tokens, each with its entry for the document
    Prober,    \* requests that ask
    Info,     \* octo-server's answers; "none" is its hidden 404
    Ttl,      \* cache lifetime
    Timeout,  \* how long a probe may take, of the HTTP client's timeout
    MaxClock  \* bound: the last instant

ASSUME LifetimeAssumption == Ttl \in Nat \ {0} /\ Timeout \in Nat /\ "none" \in Info

VARIABLES
    clock,
    visible,  \* token -> what octo-server answers now
    cache,    \* token -> [info, expires]
    probe,    \* probe -> what it is doing: [at, token, info, since]
    answer,   \* history: the last answer bestCred was given
    held      \* history: token -> answer -> the last instant octo-server gave it

bindingVars == <<clock, visible, cache, probe, answer, held>>

NoProbe == [at |-> "idle", info |-> "none", since |-> 0]
NoEntry == [info |-> "none", expires |-> 0]

BindingInit ==
    /\ clock = 1
    /\ visible \in [Token -> Info]
    /\ cache = [t \in Token |-> NoEntry]
    /\ probe = [q \in Prober |-> NoProbe]
    /\ answer = [info |-> "none", at |-> 0]
    /\ held = [t \in Token |-> [i \in Info |-> IF visible[t] = i THEN 1 ELSE -1]]

\* Time passes while no probe has taken too long.
ClockTick ==
    /\ clock < MaxClock
    /\ \A q \in Prober : probe[q].at # "idle" => clock < probe[q].since + Timeout
    /\ clock' = clock + 1
    /\ held' = [t \in Token |-> [held[t] EXCEPT ![visible[t]] = clock + 1]]
    /\ UNCHANGED <<visible, cache, probe, answer>>

\* octo-server changes its mind: the binding, or the membership, changes.
Rebind(t, info) ==
    /\ visible[t] # info
    /\ visible' = [visible EXCEPT ![t] = info]
    /\ held' = [held EXCEPT ![t][info] = clock]
    /\ UNCHANGED <<clock, cache, probe, answer>>

\* (Mutant: an entry is good for as long as it is there.)
CacheHitAnyAge(t) == cache[t].expires > 0

\* cacheGet: now is before expires.
CacheHit(t) == clock < cache[t].expires

\* Resolve: a hit is the answer, a miss makes a fetch.
Resolve(q, t) ==
    /\ probe[q].at = "idle"
    /\ IF CacheHit(t)
       THEN /\ answer' = [info |-> cache[t].info, at |-> clock, token |-> t]
            /\ UNCHANGED probe
       ELSE /\ probe' = [probe EXCEPT ![q] = [at |-> "fetch", info |-> "none", since |-> clock,
                                              token |-> t]]
            /\ UNCHANGED answer
    /\ UNCHANGED <<clock, visible, cache, held>>

\* Fetch: octo-server answers, or fails and bestCred goes on without.
Fetch(q) ==
    /\ probe[q].at = "fetch"
    /\ \/ probe' = [probe EXCEPT ![q].at = "put", ![q].info = visible[probe[q].token]]
       \/ probe' = [probe EXCEPT ![q] = NoProbe]
    /\ UNCHANGED <<clock, visible, cache, answer, held>>

\* cachePut, and the answer.
CachePut(q) ==
    /\ probe[q].at = "put"
    /\ LET t == probe[q].token
       IN  /\ cache' = [cache EXCEPT ![t] = [info |-> probe[q].info, expires |-> clock + Ttl]]
           /\ answer' = [info |-> probe[q].info, at |-> clock, token |-> t]
    /\ probe' = [probe EXCEPT ![q] = NoProbe]
    /\ UNCHANGED <<clock, visible, held>>

BindingNext ==
    \/ ClockTick
    \/ \E t \in Token, info \in Info : Rebind(t, info)
    \/ \E q \in Prober : Fetch(q) \/ CachePut(q) \/ \E t \in Token : Resolve(q, t)

\* "The TTL bounds staleness" (docbinding.go:99-101): what bestCred is told about
\* a token octo-server said of that token no longer ago than a probe and the
\* lifetime of an entry, though probes overtake each other and file late.
AnswersAreRecent ==
    [][answer' # answer =>
         held[answer'.token][answer'.info] + Ttl + Timeout > clock]_bindingVars
===============================================================================
