-------------------------------- MODULE MCGrants --------------------------------
(* Instances of Grants, with Access over them, and of DocBinding.  A mix is   *)
(* what happens in one behaviour: it is chosen initially.                     *)
EXTENDS Access, DocBinding, TLC

CONSTANTS p1, p2, Mixes

VARIABLE mix

allVars == <<grantVars, bindingVars, mix>>

Mix(procs, kinds, roles, n, events, carried) ==
    [procs |-> procs, kinds |-> kinds, roles |-> roles, ops |-> n, faults |-> 0,
     events |-> events, carried |-> carried, binding |-> FALSE]

Only(u, label) == [Nobody EXCEPT ![u] = label]

\* What an old document's metadata may carry.
MCLegacy == {Nobody, Only("u", "writer"), [Only("u", "bad") EXCEPT !["v"] = "admin"],
             [Only("u", "reader") EXCEPT !["v"] = "commenter", !["a"] = "writer"]}

\* Two requests at once about one user; all kinds after each other; codes and
\* grants at once; a registration with failing inserts; the cache of bindings.
GrantMixes ==
    { Mix({p1, p2}, {"add", "remove", "reconcile"}, {"reader", "writer"}, 3,
          {"register", "promote"}, {Nobody, Only("u", "writer")}),
      [Mix({p1}, {"add", "remove", "reconcile", "share"}, {"commenter", "admin"}, 3,
           {"register", "promote", "unmount"}, MCLegacy) EXCEPT !.faults = 1],
      Mix({p1, p2}, {"add", "share", "unshare"}, {"reader"}, 3, {}, {Nobody}),
      [Mix({}, {}, {}, 0, {}, {Nobody}) EXCEPT !.binding = TRUE] }

\* A grant, a registration and its reconciliation.
GapMixes == { Mix({p1, p2}, {"add", "reconcile"}, {"reader"}, 2, {"register"}, {Nobody}) }

MCInit ==
    /\ Init /\ BindingInit /\ mix \in Mixes
    /\ grants \in mix.carried
    /\ mix.binding => registration = "no"
    /\ ~mix.binding => \A t \in Token : visible[t] = "none"
    /\ "register" \notin mix.events /\ ~mix.binding => registration # "no"

Made(r) ==
    /\ r.op \in mix.kinds
    /\ "user" \in DOMAIN r => r.user \in {"u", "a"}
    /\ "role" \in DOMAIN r => r.role \in mix.roles

MCGrantStep ==
    \/ \E p \in mix.procs :
          \/ Locked(p) /\ faults' <= mix.faults
          \/ ops < mix.ops /\ \E r \in Requests : Made(r) /\ Begin(p, r)
    \/ "register" \in mix.events /\ Register
    \/ "unmount" \in mix.events /\ Unmount
    \/ "promote" \in mix.events /\ Promote("u")

MCNext ==
    \/ ~mix.binding /\ MCGrantStep /\ UNCHANGED <<bindingVars, mix>>
    \/ mix.binding /\ BindingNext /\ UNCHANGED <<grantVars, mix>>

MCSpec == MCInit /\ [][MCNext]_allVars
===============================================================================
