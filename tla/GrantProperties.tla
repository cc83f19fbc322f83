---------------------------- MODULE GrantProperties ----------------------------
(***************************************************************************)
(* What grants promise, over Grants: what a request was told it did is in   *)
(* force until another request, or docs-backend, changes it.                *)
(***************************************************************************)
EXTENDS Grants

\* A user whose grant was revoked has none, in the table that decides now or in
\* the metadata that decides after an unmount (grants.go:318-326, 196-206).  A
\* promotion by docs-backend may come at any time.
RevokedStaysOut(u) ==
    last[u].role = NoRole => grants[u] = NoRole /\ (Registered => member[u] \in {NoRole, "admin"})

\* A grant that was acknowledged is the one in force: on a registered document
\* in doc_member, else in the metadata (grants.go:188-192, "silently dropping
\* the requested grant").
GrantIsInForce(u) ==
    last[u].role \in Grantable =>
        IF last[u].registered THEN Registered => member[u] \in {last[u].role, "admin"}
        ELSE registration \in {"unwired", "no"} => grants[u] = last[u].role

\* The metadata holds nothing older about that user, which an unmount would
\* bring back (grants.go:220-227).
NoStaleFallback(u) == last[u].role # "unset" => grants[u] \in {NoRole, last[u].role}

\* What the last successful request about a user said of that user holds until
\* the next one, whatever runs in between: a reconciliation that had read the
\* metadata before, an AddGrant that found the role unchanged, a share code
\* written to the same metadata row.  The same holds of the share code.
LastAnswerHolds ==
    /\ \A u \in User : RevokedStaysOut(u) /\ GrantIsInForce(u) /\ NoStaleFallback(u)
    /\ code = lastCode

\* No grant request takes an admin's row away or lowers it, even when
\* docs-backend promotes the user between two of its statements
\* (doc_member_mirror.go: "a concurrent backfill can promote a row").
AdminIsKept ==
    [][\A u \in User : member[u] = "admin" => member'[u] = "admin"]_grantVars

\* A grant leaves the metadata of a registered document, other than by a request
\* about that user, only when the user has a row (grants.go:482-486: "a DB error
\* retains the entry for retry").
ReconcileLosesNothing ==
    [][\A p \in Proc, u \in User :
         /\ req[p].op = "reconcile" /\ pc[p] = "put" /\ pc'[p] = "idle"
         /\ grants[u] \in Grantable /\ grants'[u] = NoRole
         => member[u] # NoRole]_grantVars

\* What the comments on GrantReconciler and ReconcileMetaGrantsToDocMember say:
\* a grant issued while the document was unregistered does not evaporate once
\* the document is registered and reconciled (doc.go:38-41, grants.go:473-478).
GapGrantsSurvive ==
    migrated /\ Registered /\ (\A p \in Proc : pc[p] = "idle") =>
        \A u \in User : last[u].role \in Grantable => member[u] # NoRole
===============================================================================
