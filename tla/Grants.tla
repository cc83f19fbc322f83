--------------------------------- MODULE Grants ---------------------------------
(***************************************************************************)
(* The access grants of one document: internal/service/grants.go, the share *)
(* code of capability.go, and doc_member_mirror.go.                         *)
(*                                                                          *)
(* A grant has two homes: doc_member, a table of docs-backend, once the     *)
(* document is registered there, and the grants map in the document's own   *)
(* metadata before that.  Registration, and the promotion of a member to    *)
(* admin, are done by docs-backend at any moment and without our lock.      *)
(*                                                                          *)
(* Atomicity: one step per SQL transaction and per read or write of the     *)
(* metadata row; a request's reads before it takes the lock are one step.   *)
(***************************************************************************)
EXTENDS Integers, FiniteSets

CONSTANTS
    User,       \* uids
    Creator,    \* the document's creator_uid
    Proc,       \* requests in flight
    NoProc,     \* nobody holds the slug's lock
    Asked,      \* roles that are asked for
    Legacy,     \* grants maps an old document may carry
    MaxOps,     \* bound: requests
    MaxFaults   \* bound: store calls that fail

\* Labels of roles; a label nobody knows stands for a malformed entry too.
Grantable == {"reader", "commenter", "writer"}
Unknown == "bad"
NoRole == "none"
Label == Grantable \cup {"admin", Unknown}
NoCode == 0
NoReq == [op |-> "none"]

ASSUME UserAssumption == Creator \in User /\ NoProc \notin Proc
ASSUME BoundAssumption == MaxOps \in Nat /\ MaxFaults \in Nat
ASSUME RoleAssumption ==
    Asked \subseteq Label /\ Legacy \subseteq [User -> Label \cup {NoRole}]

VARIABLES
    grants,       \* user -> label in meta.grants
    code,         \* the share code in force
    registration, \* "unwired" (no mirror), "no", "yes", "gone" (soft-deleted)
    member,       \* user -> label of its doc_member row
    holder,       \* who is inside the slug's lock
    pc, req,
    seen,         \* the metadata a locked section has read: [grants, code]
    todo,         \* reconcile: entries it has not looked at
    consumed,     \* reconcile: entries it will clear
    ops, faults,
    last,         \* history: what the last request about a user that succeeded did
    lastCode,     \* history: the same for the share code
    migrated      \* history: a reconciliation saw the registration and had no error

meta     == <<grants, code>>
locals   == <<pc, req, seen, todo, consumed>>
history  == <<last, lastCode, migrated>>
grantVars == <<meta, registration, member, holder, locals, ops, faults, history>>

\* Nothing is known of what the user was last granted.
Unset == [role |-> "unset", registered |-> FALSE]
Nobody == [u \in User |-> NoRole]

GrantsTypeOK ==
    /\ grants \in [User -> Label \cup {NoRole}] /\ member \in [User -> Label \cup {NoRole}]
    /\ code \in 0 .. MaxOps /\ lastCode \in 0 .. MaxOps
    /\ registration \in {"unwired", "no", "yes", "gone"}
    /\ holder \in Proc \cup {NoProc}
    /\ pc \in [Proc -> {"idle", "wait", "probe", "upsert", "delete", "insert", "read", "put"}]
    /\ ops \in 0 .. MaxOps /\ faults \in 0 .. MaxFaults
    /\ \A p \in Proc : holder = p <=> pc[p] \notin {"idle", "wait"}
    /\ \A p \in Proc : todo[p] \subseteq User /\ consumed[p] \subseteq User

-------------------------------------------------------------------------------
(* doc_member (MySQLDocMemberMirror).                                      *)

\* DocIDBySlug finds the document.
Registered == registration = "yes"

\* UpsertDirectGrant: an admin row is kept.
UpsertDirectGrant(u, role) ==
    member' = [member EXCEPT ![u] = IF @ = "admin" THEN @ ELSE role]

\* InsertDirectGrantIfAbsent: a row that is there is kept.
InsertDirectGrantIfAbsent(u, role) ==
    member' = [member EXCEPT ![u] = IF @ = NoRole THEN role ELSE @]

\* (Mutant: the row is deleted whatever it has become.)
DeleteMatchesAny(u) == TRUE

\* DeleteGrant's WHERE: an admin row is not deleted.
DeleteMatches(u) == member[u] # "admin"

-------------------------------------------------------------------------------
Init ==
    /\ grants \in Legacy
    /\ code = NoCode
    /\ registration \in {"unwired", "no", "yes"}
    /\ IF registration = "yes"
       THEN member \in [User -> {NoRole, "reader"}] /\ member[Creator] = NoRole
       ELSE member = Nobody
    /\ holder = NoProc
    /\ pc = [p \in Proc |-> "idle"] /\ req = [p \in Proc |-> NoReq]
    /\ seen = [p \in Proc |-> [grants |-> Nobody, code |-> NoCode]]
    /\ todo = [p \in Proc |-> {}] /\ consumed = [p \in Proc |-> {}]
    /\ ops = 0 /\ faults = 0
    /\ last = [u \in User |-> Unset] /\ lastCode = NoCode /\ migrated = FALSE

(* docs-backend.                                                           *)

\* It registers the document, with or without a row for the owner.
Register ==
    /\ registration = "no"
    /\ registration' = "yes"
    /\ \E role \in {NoRole, "admin"} : member' = [member EXCEPT ![Creator] = role]
    /\ UNCHANGED <<meta, holder, locals, ops, faults, history>>

\* It soft-deletes it, and does not bring it back.
Unmount ==
    /\ registration = "yes"
    /\ registration' = "gone"
    /\ UNCHANGED <<meta, member, holder, locals, ops, faults, history>>

\* It promotes a user (the owner backfill).
Promote(u) ==
    /\ Registered /\ member[u] # "admin"
    /\ member' = [member EXCEPT ![u] = "admin"]
    /\ UNCHANGED <<meta, registration, holder, locals, ops, faults, history>>

-------------------------------------------------------------------------------
(* Requests: what they check and read before they wait for the lock.       *)

\* AddGrant's validation of the role.
RoleAccepted(role) == role \in Grantable

\* addGrantToDocMember chooses the home of the grant before it has the lock.
AddHome == IF Registered THEN "member" ELSE "meta"

\* ErrGrantProtected: nobody revokes the creator; AddGrant checks it with a mirror.
CreatorProtected(r) == r.op = "remove" \/ (r.op = "add" /\ registration # "unwired")

Accepted(r) ==
    /\ CreatorProtected(r) => r.user # Creator
    /\ r.op = "add" => RoleAccepted(r.role)
    /\ r.op = "reconcile" => registration # "unwired"

AddGrants == [op : {"add"}, user : User, role : Asked, home : {"member", "meta"}]
RemoveGrants == [op : {"remove"}, user : User]
Requests == AddGrants \cup RemoveGrants
            \cup {[op |-> "reconcile"], [op |-> "share", code |-> ops + 1], [op |-> "unshare"]}

Begin(p, r) ==
    /\ pc[p] = "idle" /\ ops < MaxOps
    /\ r.op = "add" => r.home = AddHome
    /\ ops' = ops + 1
    /\ IF Accepted(r) THEN pc' = [pc EXCEPT ![p] = "wait"] /\ req' = [req EXCEPT ![p] = r]
                      ELSE UNCHANGED <<pc, req>>
    /\ UNCHANGED <<meta, registration, member, holder, seen, todo, consumed, faults, history>>

-------------------------------------------------------------------------------
(* Inside the lock.                                                        *)

Free == holder = NoProc

FirstStep(r) ==
    IF r.op = "remove" \/ (r.op = "add" /\ r.home = "member") THEN "probe" ELSE "read"

Acquire(p) ==
    /\ pc[p] = "wait" /\ Free
    /\ holder' = p
    /\ pc' = [pc EXCEPT ![p] = FirstStep(req[p])]
    /\ UNCHANGED <<meta, registration, member, req, seen, todo, consumed, ops, faults, history>>

Goto(p, step) == pc' = [pc EXCEPT ![p] = step] /\ UNCHANGED <<holder, req, seen, todo, consumed>>

\* The section ends, and the request with it.
Leave(p) ==
    /\ holder' = NoProc
    /\ pc' = [pc EXCEPT ![p] = "idle"]
    /\ req' = [req EXCEPT ![p] = NoReq]
    /\ seen' = [seen EXCEPT ![p] = [grants |-> Nobody, code |-> NoCode]]
    /\ todo' = [todo EXCEPT ![p] = {}] /\ consumed' = [consumed EXCEPT ![p] = {}]

\* What the request has achieved when it succeeds.
Done(r) ==
    /\ last' = CASE r.op = "add" ->
                      [last EXCEPT ![r.user] = [role |-> r.role, registered |-> r.home = "member"]]
                 [] r.op = "remove" ->
                      [last EXCEPT ![r.user] = [role |-> NoRole, registered |-> FALSE]]
                 [] OTHER -> last
    /\ lastCode' = CASE r.op = "share" -> r.code [] r.op = "unshare" -> NoCode [] OTHER -> lastCode

Succeed(p) == Leave(p) /\ Done(req[p])
Fail(p)    == Leave(p) /\ UNCHANGED <<last, lastCode>>
Continue(p, step) == Goto(p, step) /\ UNCHANGED <<last, lastCode>>

\* addGrantToDocMember writes unless the row already has the role.
AfterProbe(r, role) == IF role = r.role THEN "read" ELSE "upsert"

\* RoleByDocUID under the lock; for RemoveGrant also DocIDBySlug.
Probe(p) ==
    /\ pc[p] = "probe"
    /\ LET r    == req[p]
           role == IF r.op = "remove" /\ ~Registered THEN NoRole ELSE member[r.user]
       IN  IF role = "admin" THEN Fail(p)
           ELSE Continue(p, IF r.op = "add" THEN AfterProbe(r, role)
                            ELSE IF role = NoRole THEN "read" ELSE "delete")
    /\ UNCHANGED <<meta, registration, member, ops, faults, migrated>>

\* The row is written; the metadata is still to be swept.
Upsert(p) ==
    /\ pc[p] = "upsert"
    /\ UpsertDirectGrant(req[p].user, req[p].role)
    /\ last' = [last EXCEPT ![req[p].user] = Unset]
    /\ Goto(p, "read")
    /\ UNCHANGED <<meta, registration, ops, faults, lastCode, migrated>>

\* ErrDocMemberAdminGuard, or the row is deleted.
Delete(p) ==
    /\ pc[p] = "delete"
    /\ LET u == req[p].user
       IN  IF DeleteMatches(u)
           THEN /\ member' = [member EXCEPT ![u] = NoRole]
                /\ last' = [last EXCEPT ![u] = Unset]
                /\ Goto(p, "read")
                /\ UNCHANGED lastCode
           ELSE Fail(p) /\ UNCHANGED member
    /\ UNCHANGED <<meta, registration, ops, faults, migrated>>

\* (Mutant: RemoveGrant is content with the row of a registered document.)
NothingToSweepIfDeleted(r) == (r.op = "remove" /\ Registered) \/ grants[r.user] = NoRole

\* removeGrantFromMetaLocked: the metadata has no entry of the user.
NothingToSweep(r) == grants[r.user] = NoRole

\* Sections that end without a write: a sweep, RevokeCode without a code, and
\* ReconcileMetaGrantsToDocMember of an unregistered document or of no entries.
Entries(g) == {u \in User : g[u] # NoRole}
NothingToDo(p) ==
    LET r == req[p]
    IN  \/ (r.op = "remove" \/ (r.op = "add" /\ r.home = "member")) /\ NothingToSweep(r)
        \/ r.op = "unshare" /\ code = NoCode
        \/ /\ r.op = "reconcile" /\ consumed[p] = {}
           /\ (~Registered \/ Entries(grants) \ {Creator} = {})

Read(p) ==
    /\ pc[p] = "read"
    /\ IF NothingToDo(p)
       THEN /\ Succeed(p)
            /\ migrated' = (migrated \/ (req[p].op = "reconcile" /\ Registered))
       ELSE /\ seen' = [seen EXCEPT ![p] = [grants |-> grants, code |-> code]]
            /\ IF req[p].op = "reconcile" /\ consumed[p] = {}
               THEN /\ pc' = [pc EXCEPT ![p] = "insert"]
                    /\ todo' = [todo EXCEPT ![p] = Entries(grants) \ {Creator}]
               ELSE /\ pc' = [pc EXCEPT ![p] = "put"]
                    /\ UNCHANGED todo
            /\ UNCHANGED <<holder, req, consumed, last, lastCode, migrated>>
    /\ UNCHANGED <<meta, registration, member, ops, faults>>

\* (Mutant: the entry is cleared though its insert failed.)
ConsumedAlways(u, failed) == {u}

\* reconcile: one entry becomes a row, is dropped, or stays for the next time
\* because the insert failed.
ConsumedBy(u, failed) == IF failed THEN {} ELSE {u}

InsertEntry(p, u, failed) ==
    LET label == seen[p].grants[u]
        rest  == todo[p] \ {u}
        done  == consumed[p] \cup ConsumedBy(u, failed)
    IN  /\ failed => label \in Grantable /\ faults < MaxFaults
        /\ faults' = IF failed THEN faults + 1 ELSE faults
        /\ IF label \in Grantable /\ ~failed
           THEN InsertDirectGrantIfAbsent(u, label) ELSE UNCHANGED member
        /\ IF rest = {} /\ done = {} THEN Leave(p)
           ELSE /\ todo' = [todo EXCEPT ![p] = rest]
                /\ consumed' = [consumed EXCEPT ![p] = done]
                /\ pc' = [pc EXCEPT ![p] = IF rest = {} THEN "read" ELSE "insert"]
                /\ UNCHANGED <<holder, req, seen>>

Insert(p) ==
    /\ pc[p] = "insert"
    /\ \E u \in todo[p], failed \in BOOLEAN : InsertEntry(p, u, failed)
    /\ UNCHANGED <<meta, registration, ops, history>>

\* The metadata the section writes back: all of what it read, but its change.
Without(g, S) == [u \in User |-> IF u \in S THEN NoRole ELSE g[u]]
Edited(p) ==
    LET r == req[p]
        s == seen[p]
    IN  CASE r.op = "add" /\ r.home = "meta" -> [s EXCEPT !.grants[r.user] = r.role]
          [] r.op = "remove" \/ (r.op = "add" /\ r.home = "member")
                                    -> [s EXCEPT !.grants = Without(s.grants, {r.user})]
          [] r.op = "reconcile"     -> [s EXCEPT !.grants = Without(s.grants, consumed[p])]
          [] r.op = "share"         -> [s EXCEPT !.code = r.code]
          [] r.op = "unshare"       -> [s EXCEPT !.code = NoCode]

Put(p) ==
    /\ pc[p] = "put"
    /\ grants' = Edited(p).grants /\ code' = Edited(p).code
    /\ Succeed(p)
    /\ migrated' = (migrated \/ (/\ req[p].op = "reconcile"
                                 /\ Entries(grants') \subseteq {Creator}))
    /\ UNCHANGED <<registration, member, ops, faults>>

\* A call to a store fails: what was done stays done, the rest is not.
StoreFails(p) ==
    /\ pc[p] \in {"probe", "upsert", "delete", "read", "put"}
    /\ faults < MaxFaults
    /\ faults' = faults + 1
    /\ Fail(p)
    /\ UNCHANGED <<meta, registration, member, ops, migrated>>

-------------------------------------------------------------------------------
Locked(p) ==
    \/ Acquire(p) \/ Probe(p) \/ Upsert(p) \/ Delete(p) \/ Read(p) \/ Insert(p) \/ Put(p)
    \/ StoreFails(p)

Backend == Register \/ Unmount \/ \E u \in User : Promote(u)

Next ==
    \/ \E p \in Proc : Locked(p) \/ \E r \in Requests : Begin(p, r)
    \/ Backend

Spec == Init /\ [][Next]_grantVars
===============================================================================
