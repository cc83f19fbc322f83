--------------------------------- MODULE MCDoc ---------------------------------
\* Small instances of the document life cycle.  A mix is what the clients of one
\* behaviour ask for: it is chosen initially.
EXTENDS DocProperties, TLC

CONSTANTS p1, p2, e1, e2, e3, alice, bob, s1, s2

Symmetry == Permutations(Proc)

Ask1(op, text, v) ==
    [op |-> op, html |-> text, version |-> v, user |-> FALSE, uid |-> alice,
     space |-> NoSpace, mount |-> Absent]

Mounted(r) == [r EXCEPT !.mount = "group"]

OfUser(r, u, s) ==
    [r EXCEPT !.user = TRUE, !.uid = u, !.space = s, !.mount = "space"]

\* Two publishers, explicit versions, replacements and removals.
VersionRequests ==
    {Ask1("publish", {e1}, 0), Ask1("publish", {e2}, 0), Ask1("publish", {e1}, 2),
     Ask1("replace", {e2}, 0), Ask1("remove", {}, 0)}

\* Explicit versions only.
ExplicitRequests ==
    {Ask1("publish", {e1}, 0), Ask1("publish", {e2}, 1), Ask1("publish", {e2}, 3)}

\* Drafts saved, promoted and removed.
DraftRequests ==
    {Ask1("draft", {e1}, 0), Ask1("draft", {e2}, 0), Ask1("promote", {}, 0),
     Ask1("publish", {e3}, 0), Ask1("remove", {}, 0)}

\* Users and bots of two spaces on one slug.
IdentityRequests ==
    {OfUser(Ask1("publish", {e1}, 0), alice, s1),
     OfUser(Ask1("draft", {e1}, 0), bob, s2),
     Ask1("promote", {}, 0), Ask1("remove", {}, 0),
     Mounted(Ask1("publish", {e1}, 0)),
     [Ask1("draft", {e1}, 0) EXCEPT !.uid = bob]}

\* Comments and uploads around a removal.
RemoveRequests ==
    {Ask1("draft", {e1}, 0), Ask1("publish", {e1}, 0), Ask1("comment", {}, 0),
     Ask1("upload", {}, 0), Ask1("remove", {}, 0)}

\* What registration needs.
RegisterRequests ==
    {OfUser(Ask1("publish", {e1}, 0), alice, s1), Mounted(Ask1("publish", {e1}, 0)),
     Ask1("remove", {}, 0)}

-------------------------------------------------------------------------------
VARIABLE mix

Mix(requests, versions, edits) ==
    [requests |-> requests, versions |-> versions, edits |-> edits]

SafetyMixes ==
    { Mix(VersionRequests, 3, {e1, e2}), Mix(DraftRequests, 2, {e1, e2, e3}),
      Mix(IdentityRequests, 2, {e1}), Mix(RemoveRequests, 2, {e1}) }
LiveMixes == { Mix(RegisterRequests, 2, {e1}) }
ExplicitMixes == { Mix(ExplicitRequests, 3, {e1, e2}) }
RemoveMixes == { Mix(RemoveRequests, 2, {e1}) }

CONSTANT Mixes

MCRequests == UNION {m.requests : m \in Mixes}

MCInit ==
    /\ Init
    /\ mix \in Mixes
    /\ \A v \in Version : blobs[v] \subseteq mix.edits

MCNext ==
    /\ \E p \in Proc :
          \/ Ask(p) /\ in'[p] \in mix.requests
          \/ Step(p) /\ target'[p] <= mix.versions
          \/ Fail(p)
    /\ UNCHANGED mix

MCSpec == MCInit /\ [][MCNext]_<<vars, mix>>

MCFairSpec == MCSpec /\ Fairness
===============================================================================
