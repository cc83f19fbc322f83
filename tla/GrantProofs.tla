------------------------------ MODULE GrantProofs ------------------------------
(***************************************************************************)
(* Theorems about Grants and Access: the last answer about a user is in      *)
(* force, and every gate decides as the grants say, for any number of users  *)
(* and requests, with docs-backend registering, unmounting and promoting at  *)
(* any moment and any store call failing.  And about DocBinding: the         *)
(* lifetime of an entry bounds how stale an answer can be, for any number of *)
(* tokens and probes, any lifetime and any timeout.                          *)
(***************************************************************************)
EXTENDS Access, DocBinding, TLAPS

\* What is known of a request.
Request(r) ==
    /\ r.op \in {"none", "add", "remove", "reconcile", "share", "unshare"}
    /\ r.op \in {"add", "remove"} => r.user \in User
    /\ r.op = "add" => r.role \in Label /\ r.home \in {"member", "meta"}
    /\ r.op = "share" => r.code \in 0 .. MaxOps

Answer == [role : Label \cup {NoRole, "unset"}, registered : BOOLEAN]

Types ==
    /\ GrantsTypeOK
    /\ req = [p \in Proc |-> req[p]] /\ \A p \in Proc : Request(req[p])
    /\ seen \in [Proc -> [grants : [User -> Label \cup {NoRole}], code : 0 .. MaxOps]]
    /\ todo \in [Proc -> SUBSET User] /\ consumed \in [Proc -> SUBSET User]
    /\ last \in [User -> Answer]

Sweeps(r) == r.op = "remove" \/ (r.op = "add" /\ r.home = "member")

\* A request is one that passed the checks, and is at a step of its operation.
Places ==
    \A p \in Proc :
        /\ pc[p] # "idle" => req[p].op # "none"
        /\ req[p].op \in {"add", "remove"} => req[p].user # Creator \/ registration = "unwired"
        /\ req[p].op = "add" => req[p].role \in Grantable
        /\ pc[p] = "probe" => Sweeps(req[p])
        /\ pc[p] = "upsert" => req[p].op = "add" /\ req[p].home = "member"
        /\ pc[p] = "delete" => req[p].op = "remove"
        /\ pc[p] = "insert" => req[p].op = "reconcile"
        /\ consumed[p] # {} => req[p].op = "reconcile" /\ pc[p] \in {"insert", "read", "put"}
        /\ pc[p] = "put" /\ req[p].op = "reconcile" => consumed[p] # {}

\* Rows are written once the document has been registered.
Rows ==
    /\ registration \in {"unwired", "no"} => member = Nobody
    /\ \A p \in Proc :
          (\/ req[p].op = "add" /\ req[p].home = "member"
           \/ pc[p] \in {"delete", "insert"}
           \/ consumed[p] # {}) => registration \in {"yes", "gone"}

\* What a locked section has read is what is stored.
Fresh ==
    \A p \in Proc : pc[p] \in {"insert", "put"} => seen[p] = [grants |-> grants, code |-> code]

\* Before the metadata is swept, the row is as it was asked for.
RowIsRight(p) ==
    LET r == req[p]
    IN  pc[p] \in {"read", "put"} /\ Registered =>
            /\ r.op = "add" /\ r.home = "member" => member[r.user] \in {r.role, "admin"}
            /\ r.op = "remove" => member[r.user] \in {NoRole, "admin"}

\* What reconciliation is about to clear from the metadata has its row.
Covered ==
    \A p \in Proc : \A u \in consumed[p] : grants[u] \in Grantable => member[u] # NoRole

Answers ==
    /\ LastAnswerHolds
    /\ registration # "unwired" => last[Creator].role = "unset"
    /\ \A u \in User : last[u].registered => registration \in {"yes", "gone"}

-------------------------------------------------------------------------------
LEMMA RequestsTyped ==
    ASSUME ops \in 0 .. MaxOps, ops < MaxOps, NEW r \in Requests
    PROVE  Request(r) /\ r.op # "none"
  <1>1. CASE r \in AddGrants
    BY <1>1, RoleAssumption DEF AddGrants, Request
  <1>2. CASE r \in RemoveGrants
    BY <1>2 DEF RemoveGrants, Request
  <1>3. CASE r = [op |-> "reconcile"] \/ r = [op |-> "unshare"]
    BY <1>3 DEF Request
  <1>4. CASE r = [op |-> "share", code |-> ops + 1]
    BY <1>4, BoundAssumption DEF Request
  <1> QED BY <1>1, <1>2, <1>3, <1>4 DEF Requests

LEMMA TypesInit == Init => Types
  <1> SUFFICES ASSUME Init PROVE Types
    OBVIOUS
  <1> USE UserAssumption, RoleAssumption, BoundAssumption DEF Init, Types, GrantsTypeOK, Nobody, NoCode
  <1>1. member \in [User -> Label \cup {NoRole}]
    BY DEF Label, Grantable
  <1>2. grants \in [User -> Label \cup {NoRole}]
    OBVIOUS
  <1>3. req = [p \in Proc |-> req[p]] /\ \A p \in Proc : Request(req[p])
    BY DEF Request, NoReq
  <1>4. seen \in [Proc -> [grants : [User -> Label \cup {NoRole}], code : 0 .. MaxOps]]
    OBVIOUS
  <1>5. last \in [User -> Answer]
    BY DEF Answer, Unset
  <1> QED BY <1>1, <1>2, <1>3, <1>4, <1>5

LEMMA TypesStep ==
    ASSUME Types, Places, [Next]_grantVars
    PROVE  Types'
  <1> USE UserAssumption, RoleAssumption, BoundAssumption
      DEF Types, GrantsTypeOK, meta, locals, history, NoCode
  <1>l. ASSUME NEW p \in Proc, Leave(p), pc[p] \notin {"idle", "wait"}
        PROVE  /\ holder' \in Proc \cup {NoProc}
               /\ pc' \in [Proc -> {"idle", "wait", "probe", "upsert", "delete", "insert", "read", "put"}]
               /\ \A q \in Proc : (holder' = q) <=> (pc'[q] \notin {"idle", "wait"})
               /\ req' = [q \in Proc |-> req'[q]] /\ \A q \in Proc : Request(req'[q])
               /\ seen' \in [Proc -> [grants : [User -> Label \cup {NoRole}], code : 0 .. MaxOps]]
               /\ todo' \in [Proc -> SUBSET User] /\ consumed' \in [Proc -> SUBSET User]
    <2>1. [grants |-> Nobody, code |-> NoCode] \in [grants : [User -> Label \cup {NoRole}], code : 0 .. MaxOps]
      BY DEF Nobody
    <2>2. Request(NoReq)
      BY DEF Request, NoReq
    <2> QED BY <1>l, <2>1, <2>2 DEF Leave
  <1>u. Unset \in Answer
    BY DEF Unset, Answer
  <1>d. ASSUME NEW p \in Proc, Done(req[p])
        PROVE  last' \in [User -> Answer] /\ lastCode' \in 0 .. MaxOps
    <2>1. req[p].op = "add" => [role |-> req[p].role, registered |-> req[p].home = "member"] \in Answer
      BY DEF Request, Answer
    <2>2. [role |-> NoRole, registered |-> FALSE] \in Answer
      BY DEF Answer
    <2>3. last' \in [User -> Answer]
      <3>1. CASE req[p].op = "add"
        BY <1>d, <2>1, <3>1 DEF Done
      <3>2. CASE req[p].op = "remove"
        BY <1>d, <2>2, <3>2 DEF Done
      <3>3. CASE req[p].op \notin {"add", "remove"}
        BY <1>d, <3>3 DEF Done
      <3> QED BY <3>1, <3>2, <3>3
    <2>4. lastCode' \in 0 .. MaxOps
      BY <1>d DEF Done, Request
    <2> QED BY <2>3, <2>4
  <1>1. ASSUME NEW p \in Proc, NEW r \in Requests, Begin(p, r) PROVE Types'
    <2>1. Request(r)
      BY <1>1, RequestsTyped DEF Begin
    <2>2. pc' \in [Proc -> {"idle", "wait", "probe", "upsert", "delete", "insert", "read", "put"}]
      BY <1>1 DEF Begin
    <2>3. \A q \in Proc : (holder' = q) <=> (pc'[q] \notin {"idle", "wait"})
      BY <1>1 DEF Begin
    <2>4. req' = [q \in Proc |-> req'[q]] /\ \A q \in Proc : Request(req'[q])
      <3>1. CASE req' = req
        BY <3>1
      <3>2. CASE req' = [req EXCEPT ![p] = r]
        BY <2>1, <3>2
      <3> QED BY <1>1, <3>1, <3>2 DEF Begin
    <2>5. ops' \in 0 .. MaxOps
      BY <1>1 DEF Begin
    <2>6. UNCHANGED <<meta, registration, member, holder, seen, todo, consumed, faults, history>>
      BY <1>1 DEF Begin
    <2>7. GrantsTypeOK'
      BY <2>2, <2>3, <2>5, <2>6
    <2> QED BY <2>4, <2>6, <2>7
  <1>2. ASSUME NEW p \in Proc, Acquire(p) PROVE Types'
    BY <1>2 DEF Acquire, Free, FirstStep
  <1>3. ASSUME NEW p \in Proc, Probe(p) PROVE Types'
    <2>1. /\ UNCHANGED <<meta, registration, member, ops, faults, last, lastCode>> /\ pc[p] = "probe"
          /\ Leave(p) \/ \E step \in {"read", "upsert", "delete"} : Goto(p, step)
      BY <1>3 DEF Probe, Fail, Continue, AfterProbe
    <2>2. CASE Leave(p)
      BY <2>1, <2>2, <1>l
    <2>3. ASSUME NEW step \in {"read", "upsert", "delete"}, Goto(p, step) PROVE Types'
      BY <2>1, <2>3 DEF Goto
    <2> QED BY <2>1, <2>2, <2>3
  <1>4. ASSUME NEW p \in Proc, Upsert(p) PROVE Types'
    <2>1. req[p].role \in Label /\ req[p].user \in User
      BY <1>4 DEF Upsert, Places, Request
    <2>2. member' \in [User -> Label \cup {NoRole}]
      BY <1>4, <2>1 DEF Upsert, UpsertDirectGrant
    <2>3. last' \in [User -> Answer]
      BY <1>4, <2>1, <1>u DEF Upsert
    <2> QED BY <1>4, <2>2, <2>3 DEF Upsert, Goto
  <1>5. ASSUME NEW p \in Proc, Delete(p) PROVE Types'
    <2>1. UNCHANGED <<meta, registration, ops, faults, lastCode>>
      BY <1>5 DEF Delete, Fail
    <2>2. member' \in [User -> Label \cup {NoRole}]
      BY <1>5 DEF Delete
    <2>3. last' \in [User -> Answer]
      BY <1>5, <1>u DEF Delete, Fail
    <2>4. CASE Leave(p)
      BY <1>5, <1>l, <2>1, <2>2, <2>3, <2>4 DEF Delete
    <2>5. CASE Goto(p, "read")
      BY <1>5, <2>1, <2>2, <2>3, <2>5 DEF Delete, Goto
    <2> QED BY <1>5, <2>4, <2>5 DEF Delete, Fail
  <1>6. ASSUME NEW p \in Proc, Read(p) PROVE Types'
    <2>1. UNCHANGED <<meta, registration, member, ops, faults>> /\ pc[p] = "read"
      BY <1>6 DEF Read
    <2>2. CASE Succeed(p)
      BY <1>l, <1>d, <2>1, <2>2 DEF Succeed
    <2>3. CASE ~NothingToDo(p)
      <3>1. /\ UNCHANGED <<holder, req, consumed, last, lastCode>>
            /\ seen' = [seen EXCEPT ![p] = [grants |-> grants, code |-> code]]
        BY <1>6, <2>3 DEF Read
      <3>2. pc' \in [Proc -> {"idle", "wait", "probe", "upsert", "delete", "insert", "read", "put"}]
        BY <1>6, <2>3 DEF Read
      <3>3. \A q \in Proc : (holder' = q) <=> (pc'[q] \notin {"idle", "wait"})
        BY <1>6, <2>1, <2>3, <3>1 DEF Read
      <3>4. todo' \in [Proc -> SUBSET User]
        <4>1. Entries(grants) \ {Creator} \in SUBSET User
          BY DEF Entries
        <4>2. todo' = todo \/ todo' = [todo EXCEPT ![p] = Entries(grants) \ {Creator}]
          BY <1>6, <2>3 DEF Read
        <4> QED BY <4>1, <4>2
      <3> QED BY <2>1, <3>1, <3>2, <3>3, <3>4
    <2> QED BY <1>6, <2>2, <2>3 DEF Read
  <1>7. ASSUME NEW p \in Proc, Insert(p) PROVE Types'
    <2>1. UNCHANGED <<meta, registration, ops, history>> /\ pc[p] = "insert"
      BY <1>7 DEF Insert
    <2>2. PICK u \in todo[p], failed \in BOOLEAN : InsertEntry(p, u, failed)
      BY <1>7 DEF Insert
    <2>3. faults' \in 0 .. MaxFaults
      BY <2>2 DEF InsertEntry
    <2>4. member' \in [User -> Label \cup {NoRole}]
      <3>1. u \in User /\ (member' = member \/ member' = [member EXCEPT ![u] = IF @ = NoRole THEN seen[p].grants[u] ELSE @])
        BY <2>2 DEF InsertEntry, InsertDirectGrantIfAbsent
      <3>2. seen[p].grants[u] \in Label \cup {NoRole}
        BY <3>1
      <3> QED BY <3>1, <3>2
    <2>5. CASE Leave(p)
      BY <1>l, <2>1, <2>3, <2>4, <2>5
    <2>6. CASE ~Leave(p)
      <3> DEFINE done == consumed[p] \cup ConsumedBy(u, failed)
                 step == IF todo[p] \ {u} = {} THEN "read" ELSE "insert"
      <3>1. done \in SUBSET User
        BY <2>2 DEF ConsumedBy
      <3>2. /\ todo' = [todo EXCEPT ![p] = todo[p] \ {u}] /\ consumed' = [consumed EXCEPT ![p] = done]
            /\ pc' = [pc EXCEPT ![p] = step] /\ UNCHANGED <<holder, req, seen>>
        BY <2>2, <2>6 DEF InsertEntry
      <3>3. step \in {"read", "insert"}
        OBVIOUS
      <3> HIDE DEF done, step
      <3> QED BY <2>1, <2>3, <2>4, <3>1, <3>2, <3>3
    <2> QED BY <2>5, <2>6
  <1>8. ASSUME NEW p \in Proc, Put(p) PROVE Types'
    <2>1. grants' \in [User -> Label \cup {NoRole}] /\ code' \in 0 .. MaxOps
      <3>1. seen[p].grants \in [User -> Label \cup {NoRole}] /\ seen[p].code \in 0 .. MaxOps
        OBVIOUS
      <3>2. Request(req[p]) /\ req[p].op # "none"
        BY <1>8 DEF Put, Places
      <3> QED BY <1>8, <3>1, <3>2 DEF Put, Edited, Without, Request
    <2>2. UNCHANGED <<registration, member, ops, faults>> /\ pc[p] = "put"
      BY <1>8 DEF Put
    <2> QED BY <1>8, <1>l, <1>d, <2>1, <2>2 DEF Put, Succeed
  <1>9. ASSUME NEW p \in Proc, StoreFails(p) PROVE Types'
    BY <1>9, <1>l DEF StoreFails, Fail
  <1>10. CASE Backend
    <2>1. member' \in [User -> Label \cup {NoRole}]
      BY <1>10 DEF Backend, Register, Unmount, Promote, Label
    <2> QED BY <1>10, <2>1 DEF Backend, Register, Unmount, Promote
  <1>11. CASE UNCHANGED grantVars
    BY <1>11 DEF grantVars
  <1> QED
    BY <1>1, <1>2, <1>3, <1>4, <1>5, <1>6, <1>7, <1>8, <1>9, <1>10, <1>11 DEF Next, Locked

-------------------------------------------------------------------------------
\* What the steps have in common: a request that leaves, and one that goes on.
LEMMA LeavingForgets ==
    ASSUME Types, NEW p \in Proc, Leave(p)
    PROVE  /\ pc'[p] = "idle" /\ req'[p] = NoReq /\ consumed'[p] = {}
           /\ \A q \in Proc \ {p} : /\ pc'[q] = pc[q] /\ req'[q] = req[q]
                                    /\ seen'[q] = seen[q] /\ consumed'[q] = consumed[q]
  BY DEF Types, GrantsTypeOK, Leave

LEMMA GoingOn ==
    ASSUME Types, NEW p \in Proc, NEW step, Goto(p, step)
    PROVE  /\ pc'[p] = step /\ \A q \in Proc \ {p} : pc'[q] = pc[q]
           /\ UNCHANGED <<holder, req, seen, todo, consumed>>
  BY DEF Types, GrantsTypeOK, Goto

\* Nobody else is inside the lock.
LEMMA OneInside ==
    ASSUME Types, NEW p \in Proc, NEW q \in Proc \ {p}, pc[p] \notin {"idle", "wait"}
    PROVE  pc[q] \in {"idle", "wait"}
  BY DEF Types, GrantsTypeOK

LEMMA ProbeSplit ==
    ASSUME Types, Places, NEW p \in Proc, Probe(p)
    PROVE  /\ pc[p] = "probe" /\ Sweeps(req[p])
           /\ UNCHANGED <<meta, registration, member, ops, faults, history>>
           /\ \/ Leave(p)
              \/ /\ Goto(p, "read")
                 /\ req[p].op = "add" => member[req[p].user] = req[p].role
                 /\ req[p].op = "remove" => ~Registered \/ member[req[p].user] = NoRole
              \/ Goto(p, "upsert") /\ req[p].op = "add"
              \/ Goto(p, "delete") /\ req[p].op = "remove" /\ Registered
  BY DEF Probe, Fail, Continue, AfterProbe, Places, Sweeps, Types, history

LEMMA PlacesInit == Init => Places
  BY DEF Init, Places, NoReq

LEMMA PlacesStep ==
    ASSUME Types, Places, [Next]_grantVars
    PROVE  Places'
  <1> USE DEF Places, Sweeps
  <1>1. ASSUME NEW p \in Proc, NEW r \in Requests, Begin(p, r) PROVE Places'
    <2>1. r.op # "none"
      BY <1>1, RequestsTyped DEF Begin, Types, GrantsTypeOK
    <2>2. CASE UNCHANGED <<pc, req>>
      BY <1>1, <2>2 DEF Begin
    <2>3. CASE /\ Accepted(r)
               /\ pc' = [pc EXCEPT ![p] = "wait"] /\ req' = [req EXCEPT ![p] = r]
      <3>1. /\ req'[p] = r /\ pc'[p] = "wait" /\ consumed'[p] = consumed[p]
            /\ \A q \in Proc \ {p} : /\ req'[q] = req[q] /\ pc'[q] = pc[q]
                                     /\ consumed'[q] = consumed[q]
        BY <1>1, <2>3 DEF Begin, Types, GrantsTypeOK
      <3>2. consumed[p] = {}
        BY <1>1 DEF Begin
      <3>3. /\ r.op \in {"add", "remove"} => r.user # Creator \/ registration = "unwired"
            /\ r.op = "add" => r.role \in Grantable
            /\ registration' = registration
        BY <1>1, <2>3 DEF Begin, Accepted, CreatorProtected, RoleAccepted
      <3> QED BY <2>1, <3>1, <3>2, <3>3
    <2> QED BY <1>1, <2>2, <2>3 DEF Begin
  <1>2. ASSUME NEW p \in Proc, Acquire(p) PROVE Places'
    BY <1>2 DEF Acquire, FirstStep, Types, GrantsTypeOK
  <1>3. ASSUME NEW p \in Proc, Probe(p) PROVE Places'
    BY <1>3, ProbeSplit, LeavingForgets, GoingOn DEF NoReq
  <1>4. ASSUME NEW p \in Proc, Upsert(p) PROVE Places'
    BY <1>4, GoingOn DEF Upsert
  <1>5. ASSUME NEW p \in Proc, Delete(p) PROVE Places'
    BY <1>5, LeavingForgets, GoingOn DEF Delete, Fail, NoReq
  <1>6. ASSUME NEW p \in Proc, Read(p) PROVE Places'
    BY <1>6, LeavingForgets DEF Read, Succeed, NoReq, Types, GrantsTypeOK
  <1>7. ASSUME NEW p \in Proc, Insert(p) PROVE Places'
    <2>1. registration' = registration /\ pc[p] = "insert" /\ req[p].op = "reconcile"
      BY <1>7 DEF Insert
    <2>2. CASE Leave(p)
      BY <2>1, <2>2, LeavingForgets DEF NoReq
    <2>3. CASE ~Leave(p)
      <3>1. /\ UNCHANGED req /\ pc'[p] \in {"insert", "read"}
            /\ \A q \in Proc \ {p} : pc'[q] = pc[q] /\ consumed'[q] = consumed[q]
        BY <1>7, <2>3 DEF Insert, InsertEntry, Types, GrantsTypeOK
      <3> QED BY <2>1, <3>1
    <2> QED BY <2>2, <2>3
  <1>8. ASSUME NEW p \in Proc, Put(p) \/ StoreFails(p) PROVE Places'
    BY <1>8, LeavingForgets DEF Put, StoreFails, Succeed, Fail, NoReq
  <1>9. CASE Backend
    BY <1>9 DEF Backend, Register, Unmount, Promote, locals
  <1>10. CASE UNCHANGED grantVars
    BY <1>10 DEF grantVars, locals
  <1> QED
    BY <1>1, <1>2, <1>3, <1>4, <1>5, <1>6, <1>7, <1>8, <1>9, <1>10 DEF Next, Locked

LEMMA RowsInit == Init => Rows
  BY DEF Init, Rows, NoReq

LEMMA RowsStep ==
    ASSUME Types, Places, Rows, [Next]_grantVars
    PROVE  Rows'
  <1> USE DEF Rows, Registered
  <1>1. ASSUME NEW p \in Proc, NEW r \in Requests, Begin(p, r) PROVE Rows'
    BY <1>1 DEF Begin, AddHome, Types, GrantsTypeOK
  <1>2. ASSUME NEW p \in Proc, Acquire(p) PROVE Rows'
    BY <1>2 DEF Acquire, FirstStep, Types, GrantsTypeOK
  <1>3. ASSUME NEW p \in Proc, Probe(p) PROVE Rows'
    BY <1>3, ProbeSplit, LeavingForgets, GoingOn DEF NoReq
  <1>4. ASSUME NEW p \in Proc, Upsert(p) PROVE Rows'
    BY <1>4, GoingOn DEF Upsert, Places
  <1>5. ASSUME NEW p \in Proc, Delete(p) PROVE Rows'
    BY <1>5, LeavingForgets, GoingOn DEF Delete, Fail, NoReq
  <1>6. ASSUME NEW p \in Proc, Read(p) PROVE Rows'
    BY <1>6, LeavingForgets DEF Read, Succeed, NothingToDo, NoReq, Types, GrantsTypeOK
  <1>7. ASSUME NEW p \in Proc, Insert(p) PROVE Rows'
    BY <1>7, LeavingForgets DEF Insert, InsertEntry, NoReq, Types, GrantsTypeOK
  <1>8. ASSUME NEW p \in Proc, Put(p) \/ StoreFails(p) PROVE Rows'
    BY <1>8, LeavingForgets DEF Put, StoreFails, Succeed, Fail, NoReq
  <1>9. CASE Backend
    BY <1>9 DEF Backend, Register, Unmount, Promote, locals
  <1>10. CASE UNCHANGED grantVars
    BY <1>10 DEF grantVars, locals
  <1> QED
    BY <1>1, <1>2, <1>3, <1>4, <1>5, <1>6, <1>7, <1>8, <1>9, <1>10 DEF Next, Locked

LEMMA FreshInit == Init => Fresh
  BY DEF Init, Fresh

LEMMA FreshStep ==
    ASSUME Types, Fresh, [Next]_grantVars
    PROVE  Fresh'
  <1> USE DEF Fresh, meta
  <1>1. ASSUME NEW p \in Proc, NEW r \in Requests, Begin(p, r) PROVE Fresh'
    BY <1>1 DEF Begin, Types, GrantsTypeOK
  <1>2. ASSUME NEW p \in Proc, Acquire(p) PROVE Fresh'
    BY <1>2 DEF Acquire, FirstStep, Types, GrantsTypeOK
  <1>3. ASSUME NEW p \in Proc, Probe(p) PROVE Fresh'
    <2>1. UNCHANGED meta /\ (Leave(p) \/ \E step \in {"read", "upsert", "delete"} : Goto(p, step))
      BY <1>3 DEF Probe, Fail, Continue, AfterProbe
    <2> QED BY <2>1, LeavingForgets, GoingOn
  <1>4. ASSUME NEW p \in Proc, Upsert(p) PROVE Fresh'
    BY <1>4, GoingOn DEF Upsert
  <1>5. ASSUME NEW p \in Proc, Delete(p) PROVE Fresh'
    BY <1>5, LeavingForgets, GoingOn DEF Delete, Fail
  <1>6. ASSUME NEW p \in Proc, Read(p) PROVE Fresh'
    BY <1>6, LeavingForgets DEF Read, Succeed, Types, GrantsTypeOK
  <1>7. ASSUME NEW p \in Proc, Insert(p) PROVE Fresh'
    BY <1>7, LeavingForgets DEF Insert, InsertEntry, Types, GrantsTypeOK
  <1>8. ASSUME NEW p \in Proc, Put(p) PROVE Fresh'
    BY <1>8, LeavingForgets, OneInside DEF Put, Succeed
  <1>9. ASSUME NEW p \in Proc, StoreFails(p) PROVE Fresh'
    BY <1>9, LeavingForgets DEF StoreFails, Fail
  <1>10. CASE Backend
    BY <1>10 DEF Backend, Register, Unmount, Promote, locals
  <1>11. CASE UNCHANGED grantVars
    BY <1>11 DEF grantVars, locals
  <1> QED
    BY <1>1, <1>2, <1>3, <1>4, <1>5, <1>6, <1>7, <1>8, <1>9, <1>10, <1>11 DEF Next, Locked

RowsAreRight == \A p \in Proc : RowIsRight(p)

LEMMA RowsAreRightInit == Init => RowsAreRight
  BY DEF Init, RowsAreRight, RowIsRight

LEMMA RowsAreRightStep ==
    ASSUME Types, Places, Rows, RowsAreRight, [Next]_grantVars
    PROVE  RowsAreRight'
  <1> USE DEF RowsAreRight, RowIsRight, Registered
  <1>1. ASSUME NEW p \in Proc, NEW r \in Requests, Begin(p, r) PROVE RowsAreRight'
    <2>1. /\ pc'[p] \in {"idle", "wait"}
          /\ \A q \in Proc \ {p} : pc'[q] = pc[q] /\ req'[q] = req[q]
      BY <1>1 DEF Begin, Types, GrantsTypeOK
    <2>2. UNCHANGED <<registration, member>>
      BY <1>1 DEF Begin
    <2> QED BY <2>1, <2>2
  <1>2. ASSUME NEW p \in Proc, Acquire(p) PROVE RowsAreRight'
    \* A section begins with the metadata only when the table is not its home.
    BY <1>2 DEF Acquire, FirstStep, Types, GrantsTypeOK
  <1>3. ASSUME NEW p \in Proc, Probe(p) PROVE RowsAreRight'
    BY <1>3, ProbeSplit, LeavingForgets, GoingOn, OneInside DEF NoReq
  <1>4. ASSUME NEW p \in Proc, Upsert(p) PROVE RowsAreRight'
    <2>1. req[p].op = "add" /\ req[p].user \in User
      BY <1>4 DEF Upsert, Places, Types, Request
    <2>2. member'[req[p].user] \in {req[p].role, "admin"}
      BY <1>4, <2>1 DEF Upsert, UpsertDirectGrant, Types, GrantsTypeOK
    <2> QED BY <1>4, <2>1, <2>2, GoingOn, OneInside DEF Upsert
  <1>5. ASSUME NEW p \in Proc, Delete(p) PROVE RowsAreRight'
    <2>1. req[p].op = "remove" /\ req[p].user \in User
      BY <1>5 DEF Delete, Places, Types, Request
    <2>2. Goto(p, "read") => member'[req[p].user] = NoRole
      BY <1>5, <2>1 DEF Delete, Fail, Leave, Goto, Types, GrantsTypeOK
    <2> QED BY <1>5, <2>1, <2>2, GoingOn, LeavingForgets, OneInside DEF Delete, Fail, NoReq
  <1>6. ASSUME NEW p \in Proc, Read(p) PROVE RowsAreRight'
    BY <1>6, LeavingForgets DEF Read, Succeed, Types, GrantsTypeOK
  <1>7. ASSUME NEW p \in Proc, Insert(p) PROVE RowsAreRight'
    <2>1. pc[p] = "insert" /\ req[p].op = "reconcile"
      BY <1>7 DEF Insert, Places
    <2>2. Leave(p) \/ (req' = req /\ \A q \in Proc \ {p} : pc'[q] = pc[q])
      BY <1>7 DEF Insert, InsertEntry, Types, GrantsTypeOK
    <2>3. \A q \in Proc \ {p} : pc'[q] = pc[q] /\ pc[q] \in {"idle", "wait"}
      BY <2>1, <2>2, LeavingForgets, OneInside
    <2>4. pc'[p] = "idle" \/ req'[p].op = "reconcile"
      BY <2>1, <2>2, LeavingForgets
    <2> QED BY <2>3, <2>4
  <1>8. ASSUME NEW p \in Proc, Put(p) \/ StoreFails(p) PROVE RowsAreRight'
    BY <1>8, LeavingForgets DEF Put, StoreFails, Succeed, Fail
  <1>9. CASE Backend
    \* Registration finds no rows, and fills in the creator's only.
    BY <1>9 DEF Backend, Register, Unmount, Promote, locals, Rows, Places, Types, GrantsTypeOK, Request, Nobody
  <1>10. CASE UNCHANGED grantVars
    BY <1>10 DEF grantVars, locals
  <1> QED
    BY <1>1, <1>2, <1>3, <1>4, <1>5, <1>6, <1>7, <1>8, <1>9, <1>10 DEF Next, Locked

LEMMA CoveredInit == Init => Covered
  BY DEF Init, Covered

LEMMA CoveredStep ==
    ASSUME Types, Places, Rows, Fresh, Covered, [Next]_grantVars
    PROVE  Covered'
  <1> USE DEF Covered, meta
  <1>1. ASSUME NEW p \in Proc, NEW r \in Requests, Begin(p, r) PROVE Covered'
    BY <1>1 DEF Begin
  <1>2. ASSUME NEW p \in Proc, Acquire(p) PROVE Covered'
    BY <1>2 DEF Acquire
  <1>3. ASSUME NEW p \in Proc, Probe(p) PROVE Covered'
    BY <1>3, ProbeSplit, LeavingForgets, GoingOn
  <1>4. ASSUME NEW p \in Proc, Upsert(p) \/ Delete(p) PROVE Covered'
    <2>1. \A q \in Proc : consumed[q] = {}
      BY <1>4, OneInside DEF Upsert, Delete, Places
    <2>2. \A q \in Proc : consumed'[q] = {}
      BY <1>4, <2>1, GoingOn, LeavingForgets DEF Upsert, Delete, Fail
    <2> QED BY <2>2
  <1>6. ASSUME NEW p \in Proc, Read(p) PROVE Covered'
    BY <1>6, LeavingForgets DEF Read, Succeed
  <1>7. ASSUME NEW p \in Proc, Insert(p) PROVE Covered'
    <2>1. PICK u \in todo[p], failed \in BOOLEAN : InsertEntry(p, u, failed)
      BY <1>7 DEF Insert
    <2>2. u \in User /\ seen[p].grants = grants /\ pc[p] = "insert" /\ UNCHANGED grants
      BY <1>7, <2>1 DEF Insert, Fresh, Types, GrantsTypeOK
    <2>3. \A v \in User : member[v] # NoRole => member'[v] # NoRole
      BY <2>1 DEF InsertEntry, InsertDirectGrantIfAbsent, Types, GrantsTypeOK
    <2>4. ~failed /\ grants[u] \in Grantable => member'[u] # NoRole
      BY <2>1, <2>2 DEF InsertEntry, InsertDirectGrantIfAbsent, Types, GrantsTypeOK, Grantable, NoRole
    <2>5. \A q \in Proc \ {p} : consumed[q] = {} /\ consumed'[q] = consumed[q]
      BY <2>1, <2>2, OneInside, LeavingForgets DEF InsertEntry, Places, Types
    <2>6. consumed'[p] \subseteq consumed[p] \cup ConsumedBy(u, failed)
      BY <2>1, LeavingForgets DEF InsertEntry, Types
    <2>7. consumed[p] \subseteq User
      BY DEF Types
    <2> QED BY <2>2, <2>3, <2>4, <2>5, <2>6, <2>7 DEF ConsumedBy
  <1>8. ASSUME NEW p \in Proc, Put(p) PROVE Covered'
    <2>1. \A q \in Proc \ {p} : consumed[q] = {}
      BY <1>8, OneInside DEF Put, Places
    <2> QED BY <1>8, <2>1, LeavingForgets DEF Put, Succeed
  <1>9. ASSUME NEW p \in Proc, StoreFails(p) PROVE Covered'
    BY <1>9, LeavingForgets DEF StoreFails, Fail
  <1>10. CASE Backend
    <2>1. (\E q \in Proc : consumed[q] # {}) => registration \in {"yes", "gone"}
      BY DEF Rows
    <2>2. registration \in {"yes", "gone"} => \A u \in User : member[u] # NoRole => member'[u] # NoRole
      BY <1>10 DEF Backend, Register, Unmount, Promote, Types, GrantsTypeOK, NoRole
    <2>3. UNCHANGED <<grants, consumed>> /\ \A q \in Proc : consumed[q] \subseteq User
      BY <1>10 DEF Backend, Register, Unmount, Promote, locals, Types
    <2> QED BY <2>1, <2>2, <2>3
  <1>11. CASE UNCHANGED grantVars
    BY <1>11 DEF grantVars, locals
  <1> QED
    BY <1>1, <1>2, <1>3, <1>4, <1>6, <1>7, <1>8, <1>9, <1>10, <1>11 DEF Next, Locked

-------------------------------------------------------------------------------
(* What the last answer about a user said is in force.                     *)

LEMMA AnswersInit == Init => Answers
  BY UserAssumption DEF Init, Answers, LastAnswerHolds, RevokedStaysOut, GrantIsInForce, NoStaleFallback, Unset, NoRole, Grantable, NoCode

LEMMA AnswersStep ==
    ASSUME Types, Places, Rows, Fresh, RowsAreRight, Answers, [Next]_grantVars
    PROVE  Answers'
  <1> USE DEF Answers, LastAnswerHolds, RevokedStaysOut, GrantIsInForce, NoStaleFallback, Registered, meta
  <1>a. ASSUME UNCHANGED <<grants, code, registration, member, last, lastCode>> PROVE Answers'
    BY <1>a
  <1>1. ASSUME NEW p \in Proc, NEW r \in Requests, Begin(p, r) PROVE Answers'
    BY <1>1, <1>a DEF Begin, history
  <1>2. ASSUME NEW p \in Proc, Acquire(p) PROVE Answers'
    BY <1>2, <1>a DEF Acquire, history
  <1>3. ASSUME NEW p \in Proc, Probe(p) PROVE Answers'
    BY <1>3, <1>a, ProbeSplit DEF history
  <1>b. ASSUME NEW u \in User, UNCHANGED <<grants, code, registration, lastCode>>, last' = [last EXCEPT ![u] = Unset],
               \A v \in User \ {u} : member'[v] = member[v]
        PROVE  Answers'
    <2>1. last'[u].role = "unset" /\ ~last'[u].registered /\ \A v \in User \ {u} : last'[v] = last[v]
      BY <1>b DEF Unset, Types
    <2>2. registration' # "unwired" => last'[Creator].role = "unset"
      BY <1>b, <2>1, UserAssumption
    <2> QED BY <1>b, <2>1, <2>2 DEF Grantable, NoRole
  <1>c. ASSUME NEW u \in User, u # Creator \/ registration = "unwired", UNCHANGED <<registration, member>>, code' = lastCode',
               \A v \in User \ {u} : last'[v] = last[v] /\ grants'[v] = grants[v],
               last'[u].role \in Grantable \cup {NoRole}, grants'[u] \in {NoRole, last'[u].role},
               Registered /\ last'[u].role = NoRole => member[u] \in {NoRole, "admin"},
               last'[u].registered =>
                    registration \in {"yes", "gone"} /\ (Registered => member[u] \in {last'[u].role, "admin"}),
               ~last'[u].registered /\ registration \in {"unwired", "no"} => grants'[u] = last'[u].role
        PROVE  Answers'
    <2>1. registration' # "unwired" => last'[Creator].role = "unset"
      BY <1>c, UserAssumption
    <2>2. \A v \in User : RevokedStaysOut(v)' /\ GrantIsInForce(v)' /\ NoStaleFallback(v)'
      <3> SUFFICES ASSUME NEW v \in User
                   PROVE  RevokedStaysOut(v)' /\ GrantIsInForce(v)' /\ NoStaleFallback(v)'
        OBVIOUS
      <3>1. CASE v = u
        BY <1>c, <3>1 DEF Grantable, NoRole
      <3>2. CASE v # u
        BY <1>c, <3>2
      <3> QED BY <3>1, <3>2
    <2>3. \A v \in User : last'[v].registered => registration' \in {"yes", "gone"}
      BY <1>c
    <2> QED BY <1>c, <2>1, <2>2, <2>3
  <1>4. ASSUME NEW p \in Proc, Upsert(p) PROVE Answers'
    <2>1. req[p].user \in User
      BY <1>4 DEF Upsert, Places, Types, Request
    <2> DEFINE u == req[p].user
    <2>2. /\ u \in User /\ UNCHANGED <<grants, code, registration, lastCode>>
          /\ last' = [last EXCEPT ![u] = Unset]
          /\ \A v \in User \ {u} : member'[v] = member[v]
      BY <1>4, <2>1 DEF Upsert, UpsertDirectGrant, Types, GrantsTypeOK
    <2> HIDE DEF u
    <2> QED BY <2>2, <1>b
  <1>5. ASSUME NEW p \in Proc, Delete(p) PROVE Answers'
    <2>1. req[p].user \in User
      BY <1>5 DEF Delete, Places, Types, Request
    <2>2. CASE DeleteMatches(req[p].user)
      BY <1>5, <2>1, <2>2, <1>b DEF Delete, Types, GrantsTypeOK
    <2>3. CASE ~DeleteMatches(req[p].user)
      BY <1>5, <2>3, <1>a DEF Delete, Fail
    <2> QED BY <2>2, <2>3
  <1>6. ASSUME NEW p \in Proc, Insert(p) PROVE Answers'
    <2>1. PICK u \in todo[p], failed \in BOOLEAN : InsertEntry(p, u, failed)
      BY <1>6 DEF Insert
    <2>2. u \in User /\ seen[p].grants = grants /\ UNCHANGED <<grants, code, registration, last, lastCode>>
      BY <1>6, <2>1 DEF Insert, Fresh, Types, GrantsTypeOK, history
    <2>3. registration \notin {"no", "unwired"}
      BY <1>6 DEF Insert, Rows
    <2>4. \A v \in User : member'[v] = member[v] \/ (v = u /\ member[u] = NoRole /\ grants[u] \in Grantable)
      BY <2>1, <2>2 DEF InsertEntry, InsertDirectGrantIfAbsent, Types, GrantsTypeOK
    <2>5. member[u] = NoRole /\ grants[u] \in Grantable /\ Registered =>
             last[u].role # NoRole /\ ~(last[u].role \in Grantable /\ last[u].registered)
      BY <2>2 DEF Grantable, NoRole
    <2> QED BY <2>2, <2>3, <2>4, <2>5
  <1>7. ASSUME NEW p \in Proc, Read(p) PROVE Answers'
    <2>1. UNCHANGED <<grants, code, registration, member>> /\ pc[p] = "read"
      BY <1>7 DEF Read
    <2>2. CASE ~NothingToDo(p)
      BY <1>7, <2>1, <2>2, <1>a DEF Read
    <2>3. CASE NothingToDo(p)
      <3>1. Done(req[p]) /\ Request(req[p])
        BY <1>7, <2>3 DEF Read, Succeed, Types
      <3>2. CASE req[p].op \in {"remove", "add"}
        <4> DEFINE u == req[p].user
        <4>1. u \in User /\ (u # Creator \/ registration = "unwired") /\ lastCode' = lastCode
          BY <3>1, <3>2 DEF Places, Request, Done
        <4>2. Sweeps(req[p]) /\ grants[u] = NoRole
          BY <2>3, <3>2 DEF NothingToDo, NothingToSweep, Sweeps
        <4>3. \A v \in User \ {u} : last'[v] = last[v]
          BY <3>1, <3>2 DEF Done, Types
        <4>4. CASE req[p].op = "remove"
          <5>1. last'[u].role = NoRole /\ ~last'[u].registered
            BY <3>1, <4>1, <4>4 DEF Done, Types
          <5>2. Registered => member[u] \in {NoRole, "admin"}
            BY <2>1, <4>4 DEF RowsAreRight, RowIsRight
          <5> QED BY <2>1, <4>1, <4>2, <4>3, <5>1, <5>2, <1>c
        <4>5. CASE req[p].op = "add"
          <5>1. last'[u].role = req[p].role /\ last'[u].registered
            BY <3>1, <4>1, <4>2, <4>5 DEF Done, Types, Sweeps
          <5>2. Registered => member[u] \in {req[p].role, "admin"}
            BY <2>1, <4>2, <4>5 DEF RowsAreRight, RowIsRight, Sweeps
          <5>3. req[p].role \in Grantable
            BY <4>5 DEF Places
          <5>4. registration \in {"yes", "gone"} /\ req[p].role # NoRole
            BY <4>2, <4>5, <5>3 DEF Rows, Sweeps, Grantable, NoRole
          <5> QED BY <2>1, <4>1, <4>2, <4>3, <5>1, <5>2, <5>3, <5>4, <1>c
        <4> QED BY <3>2, <4>4, <4>5
      <3>3. CASE req[p].op \notin {"remove", "add"}
        <4>1. last' = last
          BY <3>1, <3>3 DEF Done
        <4>2. code = lastCode'
          BY <2>3, <3>1, <3>3 DEF Done, NothingToDo, NoCode
        <4> QED BY <2>1, <4>1, <4>2
      <3> QED BY <3>2, <3>3
    <2> QED BY <2>2, <2>3
  <1>8. ASSUME NEW p \in Proc, Put(p) PROVE Answers'
    <2>1. /\ UNCHANGED <<registration, member>> /\ pc[p] = "put"
          /\ Done(req[p]) /\ Request(req[p]) /\ req[p].op # "none"
          /\ grants' = Edited(p).grants /\ code' = Edited(p).code
      BY <1>8 DEF Put, Succeed, Types, Places
    <2>2. seen[p] = [grants |-> grants, code |-> code]
      BY <2>1 DEF Fresh
    <2>3. CASE req[p].op \in {"remove", "add"}
      <3> DEFINE u == req[p].user
      <3>1. u \in User /\ (u # Creator \/ registration = "unwired") /\ lastCode' = lastCode /\ code' = code
        BY <2>1, <2>2, <2>3 DEF Places, Request, Done, Edited
      <3>2. \A v \in User \ {u} : last'[v] = last[v]
        BY <2>1, <2>3 DEF Done, Types
      <3>3. CASE req[p].op = "remove"
        <4>1. last'[u].role = NoRole /\ ~last'[u].registered
          BY <2>1, <3>1, <3>3 DEF Done, Types
        <4>2. Registered => member[u] \in {NoRole, "admin"}
          BY <2>1, <3>3 DEF RowsAreRight, RowIsRight
        <4>3. grants'[u] = NoRole /\ \A v \in User \ {u} : grants'[v] = grants[v]
          BY <2>1, <2>2, <3>1, <3>3 DEF Edited, Without
        <4> QED BY <2>1, <3>1, <3>2, <4>1, <4>2, <4>3, <1>c
      <3>4. CASE req[p].op = "add" /\ req[p].home = "member"
        <4>1. last'[u].role = req[p].role /\ last'[u].registered
          BY <2>1, <3>1, <3>4 DEF Done, Types
        <4>2. Registered => member[u] \in {req[p].role, "admin"}
          BY <2>1, <3>4 DEF RowsAreRight, RowIsRight
        <4>3. grants'[u] = NoRole /\ \A v \in User \ {u} : grants'[v] = grants[v]
          BY <2>1, <2>2, <3>1, <3>4 DEF Edited, Without
        <4>4. req[p].role \in Grantable
          BY <3>4 DEF Places
        <4>5. registration \in {"yes", "gone"} /\ req[p].role # NoRole
          BY <3>4, <4>4 DEF Rows, Grantable, NoRole
        <4> QED BY <2>1, <3>1, <3>2, <4>1, <4>2, <4>3, <4>4, <4>5, <1>c
      <3>5. CASE req[p].op = "add" /\ req[p].home = "meta"
        <4>1. last'[u].role = req[p].role /\ ~last'[u].registered
          BY <2>1, <3>1, <3>5 DEF Done, Types
        <4>2. grants'[u] = req[p].role /\ \A v \in User \ {u} : grants'[v] = grants[v]
          BY <2>1, <2>2, <3>1, <3>5 DEF Edited, Types, GrantsTypeOK
        <4>3. req[p].role \in Grantable /\ req[p].role # NoRole
          BY <3>5 DEF Places, Grantable, NoRole
        <4> QED BY <2>1, <3>1, <3>2, <4>1, <4>2, <4>3, <1>c
      <3> QED BY <2>1, <2>3, <3>3, <3>4, <3>5 DEF Request
    <2>4. CASE req[p].op = "reconcile"
      <3>1. UNCHANGED <<code, last, lastCode>>
        BY <2>1, <2>2, <2>4 DEF Edited, Done
      <3>2. registration \notin {"no", "unwired"}
        BY <2>1, <2>4 DEF Places, Rows
      <3>3. \A v \in User : grants'[v] \in {grants[v], NoRole}
        BY <2>1, <2>2, <2>4 DEF Edited, Without
      <3> QED BY <2>1, <3>1, <3>2, <3>3
    <2>5. CASE req[p].op \in {"share", "unshare"}
      <3>1. UNCHANGED <<grants, last>> /\ code' = lastCode'
        BY <2>1, <2>2, <2>5 DEF Edited, Done
      <3> QED BY <2>1, <3>1
    <2> QED BY <2>1, <2>3, <2>4, <2>5 DEF Request
  <1>9. ASSUME NEW p \in Proc, StoreFails(p) PROVE Answers'
    BY <1>9, <1>a DEF StoreFails, Fail
  <1>10. CASE Register
    <2>1. \A u \in User \ {Creator} : member'[u] = NoRole
      BY <1>10 DEF Register, Rows, Types, GrantsTypeOK, Nobody
    <2>2. \A u \in User : last[u].role \in Grantable => ~last[u].registered
      BY <1>10 DEF Register
    <2> QED BY <1>10, <2>1, <2>2 DEF Register, history, Grantable, NoRole
  <1>11. ASSUME NEW u \in User, Unmount \/ Promote(u) PROVE Answers'
    BY <1>11 DEF Unmount, Promote, history, Types, GrantsTypeOK
  <1>12. CASE UNCHANGED grantVars
    BY <1>12, <1>a DEF grantVars, history
  <1> QED
    BY <1>1, <1>2, <1>3, <1>4, <1>5, <1>6, <1>7, <1>8, <1>9, <1>10, <1>11, <1>12, UserAssumption
    DEF Next, Locked, Backend

-------------------------------------------------------------------------------
(* Theorems.                                                               *)

IInv == Types /\ Places /\ Rows /\ Fresh /\ RowsAreRight /\ Covered /\ Answers

\* The inductive invariant: a locked section has read what is stored, the row is as
\* asked before the metadata is swept, what is about to be cleared has its row
\* (grants.go, addGrantToDocMember, RemoveGrant, ReconcileMetaGrantsToDocMember).
THEOREM GrantInvariant == Spec => []IInv
  <1>1. Init => IInv
    BY TypesInit, PlacesInit, RowsInit, FreshInit, RowsAreRightInit, CoveredInit, AnswersInit DEF IInv
  <1>2. IInv /\ [Next]_grantVars => IInv'
    BY TypesStep, PlacesStep, RowsStep, FreshStep, RowsAreRightStep, CoveredStep, AnswersStep DEF IInv
  <1> QED BY <1>1, <1>2, PTL DEF Spec

\* Every variable keeps its type, and one request at a time is inside the lock.
THEOREM GrantTypes == Spec => []GrantsTypeOK
  <1>1. IInv => GrantsTypeOK
    BY DEF IInv, Types
  <1> QED BY <1>1, GrantInvariant, PTL

\* A revocation, a grant and a share code that were answered with success are in
\* force until the next request about them, however requests, reconciliations and
\* docs-backend interleave (grants.go:188-227, 318-326).
THEOREM LastAnswerIsInForce == Spec => []LastAnswerHolds
  <1>1. IInv => LastAnswerHolds
    BY DEF IInv, Answers
  <1> QED BY <1>1, GrantInvariant, PTL

\* No request takes an admin's row or lowers it, not even one promoted between the
\* probe and the write (doc_member_mirror.go, UpsertDirectGrant and DeleteGrant).
THEOREM AdminsStay == Spec => AdminIsKept
  <1>1. IInv /\ [Next]_grantVars => [\A u \in User : member[u] = "admin" => member'[u] = "admin"]_grantVars
    <2> SUFFICES ASSUME IInv, Next, NEW u \in User, member[u] = "admin"
                 PROVE  member'[u] = "admin"
      OBVIOUS
    <2> USE DEF IInv, Types, GrantsTypeOK
    <2>1. ASSUME NEW p \in Proc, Locked(p) PROVE member'[u] = "admin"
      <3>1. CASE Acquire(p) \/ Probe(p) \/ Read(p) \/ Put(p) \/ StoreFails(p)
        BY <3>1 DEF Acquire, Probe, Read, Put, StoreFails
      <3>2. CASE Upsert(p)
        BY <3>2 DEF Upsert, UpsertDirectGrant
      <3>3. CASE Delete(p)
        BY <3>3 DEF Delete, DeleteMatches
      <3>4. CASE Insert(p)
        BY <3>4 DEF Insert, InsertEntry, InsertDirectGrantIfAbsent, NoRole
      <3> QED BY <2>1, <3>1, <3>2, <3>3, <3>4 DEF Locked
    <2>2. ASSUME NEW p \in Proc, NEW r \in Requests, Begin(p, r) PROVE member'[u] = "admin"
      BY <2>2 DEF Begin
    <2>3. CASE Backend
      BY <2>3 DEF Backend, Register, Unmount, Promote, Rows, Nobody, NoRole
    <2> QED BY <2>1, <2>2, <2>3 DEF Next
  <1> QED BY <1>1, GrantInvariant, PTL DEF Spec, AdminIsKept

\* Reconciliation clears from the metadata only grants that have become a row: what
\* failed to be inserted stays (grants.go:482-486).
THEOREM ReconciliationIsLossless == Spec => ReconcileLosesNothing
  <1>1. IInv /\ [Next]_grantVars =>
          [\A p \in Proc, u \in User :
             /\ req[p].op = "reconcile" /\ pc[p] = "put" /\ pc'[p] = "idle"
             /\ grants[u] \in Grantable /\ grants'[u] = NoRole
             => member[u] # NoRole]_grantVars
    <2> SUFFICES ASSUME IInv, Next, NEW p \in Proc, NEW u \in User,
                        req[p].op = "reconcile", pc[p] = "put", pc'[p] = "idle",
                        grants[u] \in Grantable, grants'[u] = NoRole
                 PROVE  member[u] # NoRole
      OBVIOUS
    <2> USE DEF IInv, Types, GrantsTypeOK
    <2>1. grants' # grants
      BY DEF Grantable, NoRole
    <2>2. PICK q \in Proc : Put(q)
      BY <2>1 DEF Next, Locked, Begin, Backend, Acquire, Probe, Upsert, Delete, Read, Insert, StoreFails, Register, Unmount, Promote, meta
    <2>3. q = p
      BY <2>2 DEF Put
    <2>4. u \in consumed[p]
      BY <2>2, <2>3 DEF Put, Edited, Without, Fresh, Grantable, NoRole
    <2> QED BY <2>4 DEF Covered
  <1> QED BY <1>1, GrantInvariant, PTL DEF Spec, ReconcileLosesNothing

-------------------------------------------------------------------------------
(* The gates.                                                              *)

\* What the gate of a session gives, tier by tier: what its own row or its owner's
\* entry of the metadata gives, a code, and what octo-server says.
LEMMA RoleCapabilities ==
    ASSUME NEW label
    PROVE  /\ CapabilityForDocRole(label) \in CapNone .. CapManage
           /\ CapabilityForDocRole(label) >= CapManage <=> label = "admin"
           /\ CapabilityForDocRole(label) >= CapEdit <=> label \in {"writer", "admin"}
           /\ CapabilityForDocRole(label) >= CapComment <=> label \in {"commenter", "writer", "admin"}
           /\ CapabilityForDocRole(label) >= CapRead <=> label \in {"reader", "commenter", "writer", "admin"}
  BY DEF CapabilityForDocRole, CapNone, CapRead, CapComment, CapEdit, CapManage

LEMMA GrantCapabilities ==
    ASSUME NEW label
    PROVE  /\ CapabilityForGrantRole(label) \in CapNone .. CapEdit
           /\ CapabilityForGrantRole(label) >= CapEdit <=> label = "writer"
           /\ CapabilityForGrantRole(label) >= CapComment <=> label \in {"commenter", "writer"}
           /\ CapabilityForGrantRole(label) >= CapRead <=> label \in {"reader", "commenter", "writer"}
  BY DEF CapabilityForGrantRole, CapabilityForDocRole, Grantable, CapNone, CapRead, CapComment, CapEdit, CapManage

LEMMA CredentialCapability ==
    ASSUME NEW c
    PROVE  CapabilityFor(credCandidates(c)) =
             IF code # NoCode /\ code \in {c.bearer, c.cookie, c.query} THEN CapRead ELSE CapNone
  BY DEF CapabilityFor, credCandidates

LEMMA SessionsTyped ==
    ASSUME NEW s \in Sessions, s # NoSession
    PROVE  /\ s.login \in User /\ s.owner \in User \cup {NoUser}
           /\ selfUID(s) = s.login /\ selfUID(s) # NoUser
           /\ ownerUID(s) \in User /\ ownerUID(s) # NoUser
           /\ ownerUID(s) = IF s.owner # NoUser THEN s.owner ELSE s.login
  <1>1. CASE s \in [login : User, owner : User \cup {NoUser}, super : {FALSE}]
    BY <1>1, NoUserAssumption DEF selfUID, ownerUID
  <1>2. CASE s \in [login : User, owner : {NoUser}, super : {TRUE}]
    BY <1>2, NoUserAssumption DEF selfUID, ownerUID
  <1> QED BY <1>1, <1>2 DEF Sessions

\* The session of an author deserves everything, any other session no managing but
\* by its own admin row or octo-server's word.
LEMMA AuthorsDeserveAll ==
    ASSUME GrantsTypeOK, NEW c \in Presented, NEW s \in Sessions, NEW b \in Bindings,
           NEW cap \in CapRead .. CapManage, IsAuthor(s)
    PROVE  bestCred(c, s, b) >= cap /\ Deserves(c, s, b, cap)
  <1>1. s # NoSession
    BY UserAssumption, NoUserAssumption
       DEF IsAuthor, NoSession, selfUID, ownerUID, RoleBySlugUID, NoRole
  <1>2. bestCred(c, s, b) >= cap
    BY DEF bestCred, CapManage, CapRead
  <1>3. s.super \/ Creator \in {s.login, s.owner} \/ (Registered /\ member[ownerUID(s)] = "admin")
    BY <1>1, SessionsTyped DEF IsAuthor, RoleBySlugUID, NoRole
  <1> QED BY <1>1, <1>2, <1>3 DEF Deserves

\* A session of nobody is judged by its code alone.
LEMMA StrangersByCode ==
    ASSUME GrantsTypeOK, NEW c \in Presented, NEW b \in Bindings, NEW cap \in CapRead .. CapManage
    PROVE  bestCred(c, NoSession, b) >= cap <=> Deserves(c, NoSession, b, cap)
  <1> DEFINE coded == code # NoCode /\ code \in {c.bearer, c.cookie, c.query}
  <1>1. ~IsAuthor(NoSession)
    BY UserAssumption, NoUserAssumption
       DEF IsAuthor, NoSession, selfUID, ownerUID, RoleBySlugUID, NoRole
  <1>2. /\ RoleBySlugUID(selfUID(NoSession)) = NoRole /\ GrantRole(ownerUID(NoSession)) = NoRole
        /\ FallbackAllowed(NoSession)
    BY DEF NoSession, selfUID, ownerUID, RoleBySlugUID, GrantRole, FallbackAllowed
  <1>3. CapabilityForDocRole(NoRole) = CapNone /\ CapabilityForGrantRole(NoRole) = CapNone
    BY DEF CapabilityForDocRole, CapabilityForGrantRole, Grantable, NoRole
  <1>4. bestCred(c, NoSession, b) = IF coded THEN CapRead ELSE CapNone
    BY <1>1, <1>2, <1>3, CredentialCapability
       DEF bestCred, Stronger, AskMeta, CapNone, CapRead, CapEdit
  <1>5. Deserves(c, NoSession, b, cap) <=> (cap <= CapRead /\ coded)
    <2>1. ~NoSession.super /\ Creator \notin {NoSession.login, NoSession.owner}
      BY UserAssumption, NoUserAssumption DEF NoSession
    <2>2. GrantOf(NoSession) = "none"
      BY DEF GrantOf, NoRole
    <2> QED BY <2>1, <2>2 DEF Deserves
  <1> QED BY <1>4, <1>5 DEF CapNone, CapRead, CapManage

\* What its row (or its entry of the metadata) gives a session of a user.
Granted(s) ==
    IF Registered THEN CapabilityForDocRole(member[s.login])
    ELSE CapabilityForGrantRole(grants[ownerUID(s)])

LEMMA MemberCapability ==
    ASSUME GrantsTypeOK, NEW c \in Presented, NEW s \in Sessions, NEW b \in Bindings,
           s # NoSession, ~IsAuthor(s)
    PROVE  bestCred(c, s, b) =
             Stronger(Stronger(CapabilityFor(credCandidates(c)), Granted(s)), BindingCap(b))
  <1> DEFINE creds == CapabilityFor(credCandidates(c))
  <1>1. creds \in {CapNone, CapRead}
    BY CredentialCapability
  <1>2. RoleBySlugUID(selfUID(s)) = (IF Registered THEN member[s.login] ELSE NoRole)
    BY SessionsTyped DEF RoleBySlugUID
  <1>3. (FallbackAllowed(s) <=> ~Registered) /\ GrantRole(ownerUID(s)) = grants[ownerUID(s)]
    BY SessionsTyped DEF FallbackAllowed, GrantRole
  <1>4. CapabilityForDocRole(NoRole) = CapNone
    BY DEF CapabilityForDocRole, NoRole
  <1>5. bestCred(c, s, b) =
          LET rowed == Stronger(creds, IF Registered THEN Granted(s) ELSE CapNone)
          IN  Stronger(IF AskMeta(rowed) /\ ~Registered THEN Stronger(rowed, Granted(s)) ELSE rowed,
                       BindingCap(b))
    BY <1>2, <1>3, <1>4 DEF bestCred, Granted
  <1> HIDE DEF creds
  <1>6. CASE Registered
    BY <1>5, <1>6 DEF creds
  <1>7. CASE ~Registered
    <2>1. Stronger(creds, CapNone) = creds /\ AskMeta(creds)
      BY <1>1 DEF Stronger, AskMeta, CapNone, CapRead, CapEdit
    <2> QED BY <1>5, <1>7, <2>1 DEF creds
  <1> QED BY <1>6, <1>7

\* Of any other session, that of a member or of an invited user, the strongest of
\* the row (or the entry of the metadata), the code and the binding counts.
LEMMA MembersByStrongest ==
    ASSUME GrantsTypeOK, NEW c \in Presented, NEW s \in Sessions, NEW b \in Bindings,
           NEW cap \in CapRead .. CapManage, s # NoSession, ~IsAuthor(s)
    PROVE  bestCred(c, s, b) >= cap <=> Deserves(c, s, b, cap)
  <1> DEFINE coded   == code # NoCode /\ code \in {c.bearer, c.cookie, c.query}
             granted == IF Registered THEN CapabilityForDocRole(member[s.login])
                        ELSE CapabilityForGrantRole(grants[ownerUID(s)])
             creds   == CapabilityFor(credCandidates(c))
  <1>1. ~s.super /\ Creator \notin {s.login, s.owner} /\ (Registered => member[ownerUID(s)] # "admin")
    BY SessionsTyped, UserAssumption, NoUserAssumption DEF IsAuthor, RoleBySlugUID
  <1>2. granted \in CapNone .. CapManage /\ creds = (IF coded THEN CapRead ELSE CapNone)
    BY RoleCapabilities, GrantCapabilities, CredentialCapability DEF CapNone, CapEdit, CapManage
  <1>3. BindingCap(b) = IF b = "creator" THEN CapManage ELSE IF b = "visible" THEN CapRead ELSE CapNone
    BY DEF BindingCap, Bindings
  <1>4. bestCred(c, s, b) = Stronger(Stronger(creds, granted), BindingCap(b))
    BY MemberCapability DEF Granted
  <1>5. bestCred(c, s, b) >= cap <=> (granted >= cap \/ (coded /\ cap <= CapRead) \/ BindingCap(b) >= cap)
    BY <1>2, <1>3, <1>4 DEF Stronger, CapNone, CapRead, CapManage
  <1>6. CASE Registered
    <2>1. GrantOf(s) = member[s.login]
      BY <1>6 DEF GrantOf
    <2>2. Deserves(c, s, b, cap) <=>
            \/ member[s.login] = "admin" \/ b = "creator"
            \/ cap <= CapEdit /\ member[s.login] = "writer"
            \/ cap <= CapComment /\ member[s.login] = "commenter"
            \/ cap <= CapRead /\ (member[s.login] = "reader" \/ b = "visible" \/ coded)
      BY <1>1, <1>6, <2>1 DEF Deserves
    <2> QED BY <1>3, <1>5, <1>6, <2>2, RoleCapabilities DEF CapNone, CapRead, CapComment, CapEdit, CapManage
  <1>7. CASE ~Registered
    <2>1. GrantOf(s) = grants[ownerUID(s)]
      BY <1>7 DEF GrantOf
    <2>2. Deserves(c, s, b, cap) <=>
            \/ b = "creator"
            \/ cap <= CapEdit /\ grants[ownerUID(s)] = "writer"
            \/ cap <= CapComment /\ grants[ownerUID(s)] = "commenter"
            \/ cap <= CapRead /\ (grants[ownerUID(s)] = "reader" \/ b = "visible" \/ coded)
      BY <1>1, <1>7, <2>1 DEF Deserves
    <2> QED BY <1>3, <1>5, <1>7, <2>2, GrantCapabilities DEF CapNone, CapRead, CapComment, CapEdit, CapManage
  <1> QED BY <1>6, <1>7

LEMMA StrongestStep == GrantsTypeOK => CapabilityIsStrongest
  <1> SUFFICES ASSUME GrantsTypeOK, NEW c \in Presented, NEW s \in Sessions, NEW b \in Bindings,
                      NEW cap \in CapRead .. CapManage
               PROVE  bestCred(c, s, b) >= cap <=> Deserves(c, s, b, cap)
    BY DEF CapabilityIsStrongest
  <1> QED BY AuthorsDeserveAll, StrangersByCode, MembersByStrongest

\* The panel and the gate read the same label of a user.
LEMMA PanelStep == GrantsTypeOK => PanelShowsAccess
  <1> SUFFICES ASSUME GrantsTypeOK, NEW u \in User \ {Creator},
                      ListGrants[u] \in Grantable \cup {NoRole} \/ Registered
               PROVE  bestCred(Nothing, [NoSession EXCEPT !.login = u], "none")
                        = CapabilityForDocRole(ListGrants[u])
    BY DEF PanelShowsAccess
  <1> DEFINE s == [NoSession EXCEPT !.login = u]
  <1>1. /\ s \in [login : User, owner : User \cup {NoUser}, super : {FALSE}]
        /\ s.login = u /\ s.owner = NoUser /\ s.super = FALSE
    BY DEF NoSession
  <1>2. s \in Sessions /\ s # NoSession /\ selfUID(s) = u /\ ownerUID(s) = u /\ u # NoUser
    BY <1>1, NoUserAssumption DEF Sessions, NoSession, selfUID, ownerUID
  <1> HIDE DEF s
  <1>3. Nothing \in Presented /\ "none" \in Bindings
    BY DEF Presented, Bindings
  <1>4. member[u] \in Label \cup {NoRole} /\ grants[u] \in Label \cup {NoRole}
    BY DEF GrantsTypeOK
  <1>5. CASE IsAuthor(s)
    <2>1. Registered /\ member[u] = "admin"
      BY <1>1, <1>2, <1>5 DEF IsAuthor, RoleBySlugUID, NoRole
    <2>2. ListGrants[u] = "admin"
      BY <2>1 DEF ListGrants, Label
    <2>3. CapabilityForDocRole("admin") = CapManage
      BY DEF CapabilityForDocRole
    <2> QED BY <1>5, <2>2, <2>3 DEF bestCred, s
  <1>6. CASE ~IsAuthor(s)
    <2>1. CapabilityFor(credCandidates(Nothing)) = CapNone /\ BindingCap("none") = CapNone
      BY <1>3, CredentialCapability DEF Nothing, BindingCap
    <2>2. Granted(s) \in CapNone .. CapManage
      BY RoleCapabilities, GrantCapabilities DEF Granted, CapNone, CapEdit, CapManage
    <2>3. bestCred(Nothing, s, "none") = Granted(s)
      BY <1>2, <1>3, <1>6, <2>1, <2>2, MemberCapability DEF Stronger, CapNone, CapManage
    <2>4. CASE Registered
      <3>1. ListGrants[u] = member[u]
        BY <1>4, <2>4 DEF ListGrants
      <3> QED BY <1>1, <2>3, <2>4, <3>1 DEF Granted, s
    <2>5. CASE ~Registered
      <3>1. ListGrants[u] = grants[u] /\ grants[u] \in Grantable \cup {NoRole}
        BY <2>5 DEF ListGrants
      <3>2. CapabilityForGrantRole(grants[u]) = CapabilityForDocRole(grants[u])
        BY <3>1 DEF CapabilityForGrantRole, CapabilityForDocRole, NoRole
      <3> QED BY <1>2, <2>3, <2>5, <3>1, <3>2 DEF Granted, s
    <2> QED BY <2>4, <2>5
  <1> QED BY <1>5, <1>6

\* Whatever the state of doc_member and of the metadata, a request gets what its
\* strongest credential gives and nothing more, and the members panel shows it
\* (capability.go:199-213, grants.go ListGrants).
THEOREM AccessFollowsGrants == Spec => []AccessIsAsGranted
  <1>1. GrantsTypeOK => AccessIsAsGranted
    BY StrongestStep, PanelStep DEF AccessIsAsGranted
  <1> QED BY <1>1, GrantTypes, PTL

\* Without a session, a code in force opens the page; as the code of the link, it is
\* first moved to the cookie.
LEMMA GateOfStranger ==
    ASSUME GrantsTypeOK, code = lastCode, NEW c, NEW old \in Nat, NEW link \in Nat,
           c.bearer = NoCode, c.cookie = old, c.query = link
    PROVE  LET g == docHTMLGate(c, NoSession, "none", CapRead)
               inForce(n) == n # NoCode /\ n = lastCode
           IN  IF inForce(link) THEN g = [answer |-> "redirect", cookie |-> link]
               ELSE IF inForce(old) THEN g = [answer |-> "page", cookie |-> old]
               ELSE g = [answer |-> "notFound", cookie |-> old]
  <1> DEFINE inForce(n) == n # NoCode /\ n = lastCode
  <1>2. /\ CapabilityFor(credCandidates(c)) = IF inForce(link) \/ inForce(old) THEN CapRead ELSE CapNone
        /\ CapabilityFor({c.query}) = IF inForce(link) THEN CapRead ELSE CapNone
    BY DEF CapabilityFor, credCandidates
  <1>3. ~IsAuthor(NoSession)
    BY UserAssumption, NoUserAssumption
       DEF IsAuthor, NoSession, selfUID, ownerUID, RoleBySlugUID, NoRole
  <1>4. /\ RoleBySlugUID(selfUID(NoSession)) = NoRole /\ GrantRole(ownerUID(NoSession)) = NoRole
        /\ FallbackAllowed(NoSession)
    BY DEF NoSession, selfUID, ownerUID, RoleBySlugUID, GrantRole, FallbackAllowed
  <1>5. CapabilityForDocRole(NoRole) = CapNone /\ CapabilityForGrantRole(NoRole) = CapNone
    BY DEF CapabilityForDocRole, CapabilityForGrantRole, Grantable, NoRole
  <1>6. bestCred(c, NoSession, "none") = CapabilityFor(credCandidates(c))
    BY <1>2, <1>3, <1>4, <1>5 DEF bestCred, Stronger, AskMeta, CapNone, CapRead, CapEdit
  <1>7. /\ requireDocCapability(c, NoSession, "none", CapRead) <=> (inForce(link) \/ inForce(old))
        /\ CapabilityFor({c.query}) >= CapRead <=> inForce(link)
    BY <1>2, <1>6 DEF requireDocCapability, CapNone, CapRead
  <1> QED BY <1>7 DEF docHTMLGate

\* The link of the code in force leads through one redirect to the page, whatever
\* cookie the browser holds; an older link does not (capability.go, docHTMLGate).
THEOREM LinksLead == Spec => []LinkLeadsToPage
  <1>1. GrantsTypeOK /\ LastAnswerHolds => LinkLeadsToPage
    <2> SUFFICES ASSUME GrantsTypeOK, LastAnswerHolds, NEW stale \in 0 .. MaxOps, NEW link \in 1 .. MaxOps
                 PROVE  LET first == docHTMLGate([Nothing EXCEPT !.cookie = stale, !.query = link],
                                                 NoSession, "none", CapRead)
                            then  == docHTMLGate([Nothing EXCEPT !.cookie = first.cookie],
                                                 NoSession, "none", CapRead)
                        IN  IF link = lastCode THEN first.answer = "redirect" /\ then.answer = "page"
                            ELSE (first.answer = "page") = (stale # NoCode /\ stale = lastCode)
      BY DEF LinkLeadsToPage
    <2> DEFINE first == docHTMLGate([Nothing EXCEPT !.cookie = stale, !.query = link],
                                    NoSession, "none", CapRead)
               then  == docHTMLGate([Nothing EXCEPT !.cookie = first.cookie],
                                    NoSession, "none", CapRead)
    <2>1. code = lastCode /\ stale \in Nat /\ link \in Nat /\ link # NoCode
      BY BoundAssumption DEF LastAnswerHolds, NoCode
    <2>2. first = IF link = lastCode THEN [answer |-> "redirect", cookie |-> link]
                  ELSE IF stale # NoCode /\ stale = lastCode THEN [answer |-> "page", cookie |-> stale]
                  ELSE [answer |-> "notFound", cookie |-> stale]
      <3> DEFINE c == [Nothing EXCEPT !.cookie = stale, !.query = link]
      <3>1. c.bearer = NoCode /\ c.cookie = stale /\ c.query = link
        BY DEF Nothing
      <3> HIDE DEF c
      <3>2. docHTMLGate(c, NoSession, "none", CapRead) =
              IF link = lastCode THEN [answer |-> "redirect", cookie |-> link]
              ELSE IF stale # NoCode /\ stale = lastCode THEN [answer |-> "page", cookie |-> stale]
              ELSE [answer |-> "notFound", cookie |-> stale]
        BY <2>1, <3>1, GateOfStranger
      <3> QED BY <3>2 DEF c
    <2> HIDE DEF first
    <2>3. ASSUME link = lastCode PROVE then.answer = "page"
      <3>1. first.cookie = link
        BY <2>2, <2>3
      <3> DEFINE c == [Nothing EXCEPT !.cookie = link]
      <3>2. c.bearer = NoCode /\ c.cookie = link /\ c.query = NoCode
        BY DEF Nothing
      <3> HIDE DEF c
      <3>3. docHTMLGate(c, NoSession, "none", CapRead) = [answer |-> "page", cookie |-> link]
        BY <2>1, <2>3, <3>2, GateOfStranger DEF NoCode
      <3> QED BY <3>1, <3>3 DEF c
    <2>4. link = lastCode => first.answer = "redirect"
      BY <2>2
    <2>5. link # lastCode => ((first.answer = "page") = (stale # NoCode /\ stale = lastCode))
      BY <2>2
    <2> QED BY <2>3, <2>4, <2>5 DEF first
  <1> QED BY <1>1, GrantTypes, LastAnswerIsInForce, PTL

-------------------------------------------------------------------------------
(* Where a document is registered, as a cache remembers it.                  *)

Answering == [at : {"fetch", "put"}, info : Info, since : Nat, token : Token]

BindingTypes ==
    /\ clock \in Nat
    /\ visible \in [Token -> Info]
    /\ cache \in [Token -> [info : Info, expires : Nat]]
    /\ probe \in [Prober -> {NoProbe} \cup Answering]
    /\ held \in [Token -> [Info -> Int]]

\* What octo-server says it says now, and nothing it said later.
Current ==
    /\ \A t \in Token : held[t][visible[t]] = clock
    /\ \A t \in Token, i \in Info : held[t][i] <= clock

\* A probe is younger than its timeout, and what it brings was said since it began.
Probes ==
    \A q \in Prober : probe[q].at # "idle" =>
        /\ probe[q].since <= clock /\ clock <= probe[q].since + Timeout
        /\ probe[q].at = "put" => held[probe[q].token][probe[q].info] >= probe[q].since

\* An entry ends a lifetime and a probe after octo-server last said it.
CachedEntries ==
    \A t \in Token : cache[t].expires > 0 =>
        held[t][cache[t].info] + Ttl + Timeout >= cache[t].expires

BInv == BindingTypes /\ Current /\ Probes /\ CachedEntries

LEMMA BInvInit == BindingInit => BInv
  <1> SUFFICES ASSUME BindingInit PROVE BInv
    OBVIOUS
  <1> USE LifetimeAssumption DEF BindingInit, NoProbe, NoEntry
  <1>1. BindingTypes
    BY DEF BindingTypes
  <1>2. Current
    <2>1. \A t \in Token : visible[t] \in Info
      OBVIOUS
    <2>2. \A t \in Token, i \in Info : held[t][i] = IF visible[t] = i THEN 1 ELSE -1
      OBVIOUS
    <2> QED BY <2>1, <2>2 DEF Current
  <1>3. Probes
    BY DEF Probes
  <1>4. CachedEntries
    BY DEF CachedEntries
  <1> QED BY <1>1, <1>2, <1>3, <1>4 DEF BInv

\* What octo-server said is forgotten only for what it said later.
LEMMA HeldGrows ==
    ASSUME BInv, ClockTick \/ \E t \in Token, info \in Info : Rebind(t, info)
    PROVE  /\ \A t \in Token, i \in Info : held'[t][i] >= held[t][i]
           /\ held' \in [Token -> [Info -> Int]] /\ clock' \in Nat /\ visible' \in [Token -> Info]
           /\ Current' /\ UNCHANGED <<cache, probe>>
           /\ clock' = clock \/ (clock' = clock + 1
                                 /\ \A q \in Prober : probe[q].at # "idle" => clock < probe[q].since + Timeout)
  <1> USE DEF BInv, BindingTypes, Current
  <1>1. CASE ClockTick
    BY <1>1 DEF ClockTick
  <1>2. ASSUME NEW t \in Token, NEW info \in Info, Rebind(t, info)
        PROVE  /\ \A u \in Token, i \in Info : held'[u][i] >= held[u][i]
               /\ held' \in [Token -> [Info -> Int]] /\ visible' \in [Token -> Info]
               /\ Current' /\ UNCHANGED <<cache, probe, clock>>
    BY <1>2 DEF Rebind
  <1> QED BY <1>1, <1>2

LEMMA BInvStep == BInv /\ [BindingNext]_bindingVars => BInv'
  <1> SUFFICES ASSUME BInv, [BindingNext]_bindingVars PROVE BInv'
    OBVIOUS
  <1> USE LifetimeAssumption DEF BInv, BindingTypes, Current, Probes, CachedEntries
  <1>1. CASE ClockTick \/ \E t \in Token, info \in Info : Rebind(t, info)
    <2>1. BindingTypes' /\ Current'
      BY <1>1, HeldGrows
    <2>3. CachedEntries'
      <3> SUFFICES ASSUME NEW t \in Token, cache'[t].expires > 0
                   PROVE  held'[t][cache'[t].info] + Ttl + Timeout >= cache'[t].expires
        BY DEF CachedEntries
      <3>1. cache'[t] = cache[t] /\ cache[t].info \in Info /\ cache[t].expires \in Nat
        BY <1>1, HeldGrows
      <3>2. held'[t][cache[t].info] >= held[t][cache[t].info]
        BY <1>1, <3>1, HeldGrows
      <3>3. held[t][cache[t].info] \in Int /\ held'[t][cache[t].info] \in Int
        BY <1>1, <3>1, HeldGrows
      <3> QED BY <3>1, <3>2, <3>3
    <2>2. Probes'
      <3> SUFFICES ASSUME NEW q \in Prober, probe[q].at # "idle"
                   PROVE  /\ probe[q].since <= clock' /\ clock' <= probe[q].since + Timeout
                          /\ probe[q].at = "put" => held'[probe[q].token][probe[q].info] >= probe[q].since
        BY <1>1, HeldGrows DEF Probes
      <3>1. probe[q].token \in Token /\ probe[q].info \in Info /\ probe[q].since \in Nat
        BY DEF NoProbe, Answering
      <3>2. /\ held'[probe[q].token][probe[q].info] >= held[probe[q].token][probe[q].info]
            /\ held[probe[q].token][probe[q].info] \in Int /\ held'[probe[q].token][probe[q].info] \in Int
        BY <1>1, <3>1, HeldGrows
      <3>3. probe[q].since <= clock' /\ clock' <= probe[q].since + Timeout
        <4>1. clock' = clock \/ (clock' = clock + 1 /\ clock < probe[q].since + Timeout)
          BY <1>1, HeldGrows
        <4>2. probe[q].since <= clock /\ clock <= probe[q].since + Timeout
          OBVIOUS
        <4> QED BY <3>1, <4>1, <4>2
      <3> QED BY <3>1, <3>2, <3>3
    <2> QED BY <2>1, <2>2, <2>3
  <1>2. ASSUME NEW q \in Prober, NEW t \in Token, Resolve(q, t) PROVE BInv'
    <2>1. CASE UNCHANGED probe
      BY <1>2, <2>1 DEF Resolve
    <2>2. CASE ~UNCHANGED probe
      <3> DEFINE new == [at |-> "fetch", info |-> "none", since |-> clock, token |-> t]
      <3>1. probe' = [probe EXCEPT ![q] = new] /\ UNCHANGED <<clock, visible, cache, held>>
        BY <1>2, <2>2 DEF Resolve
      <3>2. new \in Answering /\ new.at = "fetch" /\ new.since = clock
        BY DEF Answering
      <3> HIDE DEF new
      <3> QED BY <3>1, <3>2
    <2> QED BY <2>1, <2>2
  <1>3. ASSUME NEW q \in Prober, Fetch(q) PROVE BInv'
    <2>1. probe[q] \in Answering /\ probe[q].at = "fetch"
      BY <1>3 DEF Fetch, NoProbe
    <2>2. UNCHANGED <<clock, visible, cache, held>>
      BY <1>3 DEF Fetch
    <2>3. CASE probe' = [probe EXCEPT ![q] = NoProbe]
      BY <2>2, <2>3 DEF NoProbe
    <2>4. CASE probe' = [probe EXCEPT ![q].at = "put", ![q].info = visible[probe[q].token]]
      <3>1. /\ probe'[q] \in Answering /\ probe'[q].at = "put" /\ probe'[q].since = probe[q].since
            /\ probe'[q].token = probe[q].token /\ probe'[q].info = visible[probe[q].token]
        BY <2>1, <2>4 DEF Answering
      <3>2. \A r \in Prober \ {q} : probe'[r] = probe[r]
        BY <2>4
      <3>3. probe' \in [Prober -> {NoProbe} \cup Answering]
        BY <2>4, <3>1, <3>2
      <3>4. probe[q].token \in Token
        BY <2>1 DEF Answering
      <3> QED BY <2>1, <2>2, <3>1, <3>2, <3>3, <3>4
    <2> QED BY <1>3, <2>3, <2>4 DEF Fetch
  <1>4. ASSUME NEW q \in Prober, CachePut(q) PROVE BInv'
    <2> DEFINE t == probe[q].token
    <2>1. probe[q] \in Answering /\ probe[q].at = "put"
      BY <1>4 DEF CachePut, NoProbe
    <2>2. t \in Token /\ probe[q].info \in Info /\ probe[q].since \in Nat
      BY <2>1 DEF Answering
    <2>3. /\ cache' = [cache EXCEPT ![t] = [info |-> probe[q].info, expires |-> clock + Ttl]]
          /\ probe' = [probe EXCEPT ![q] = NoProbe] /\ UNCHANGED <<clock, visible, held>>
      BY <1>4 DEF CachePut
    <2>4. held[t][probe[q].info] + Timeout >= clock
      BY <2>1, <2>2
    <2>5. BindingTypes'
      BY <2>2, <2>3
    <2>6. Probes'
      BY <2>3 DEF NoProbe
    <2>7. cache'[t].info = probe[q].info /\ cache'[t].expires = clock + Ttl
      BY <2>2, <2>3
    <2>8. \A u \in Token \ {t} : cache'[u] = cache[u]
      BY <2>3
    <2> HIDE DEF t
    <2>9. CachedEntries'
      <3> SUFFICES ASSUME NEW u \in Token, cache'[u].expires > 0
                   PROVE  held[u][cache'[u].info] + Ttl + Timeout >= cache'[u].expires
        BY <2>3 DEF CachedEntries
      <3>1. CASE u = t
        <4>1. held[t][probe[q].info] \in Int
          BY <2>2
        <4> QED BY <2>4, <2>7, <3>1, <4>1
      <3>2. CASE u # t
        BY <2>8, <3>2
      <3> QED BY <3>1, <3>2
    <2> QED BY <2>3, <2>5, <2>6, <2>9
  <1>5. CASE UNCHANGED bindingVars
    BY <1>5 DEF bindingVars
  <1> QED BY <1>1, <1>2, <1>3, <1>4, <1>5 DEF BindingNext

\* An answer is no older than the lifetime of an entry and the timeout of a probe
\* (docbinding.go:99-101, "The TTL bounds staleness").
THEOREM StalenessIsBounded == BindingInit /\ [][BindingNext]_bindingVars => AnswersAreRecent
  <1>1. BInv /\ [BindingNext]_bindingVars =>
          [answer' # answer =>
             held[answer'.token][answer'.info] + Ttl + Timeout > clock]_bindingVars
    <2> SUFFICES ASSUME BInv, BindingNext, answer' # answer
                 PROVE  held[answer'.token][answer'.info] + Ttl + Timeout > clock
      OBVIOUS
    <2> USE LifetimeAssumption DEF BInv, BindingTypes, Current, Probes, CachedEntries
    <2>1. ASSUME NEW q \in Prober, NEW t \in Token, Resolve(q, t)
          PROVE  held[answer'.token][answer'.info] + Ttl + Timeout > clock
      <3>1. clock < cache[t].expires /\ answer'.token = t /\ answer'.info = cache[t].info
        BY <2>1 DEF Resolve, CacheHit
      <3> QED BY <3>1
    <2>2. ASSUME NEW q \in Prober, CachePut(q)
          PROVE  held[answer'.token][answer'.info] + Ttl + Timeout > clock
      <3>1. answer'.token = probe[q].token /\ answer'.info = probe[q].info
        BY <2>2 DEF CachePut
      <3>2. probe[q] \in Answering /\ probe[q].at = "put"
        BY <2>2 DEF CachePut, NoProbe
      <3>3. probe[q].token \in Token /\ probe[q].info \in Info /\ probe[q].since \in Nat
        BY <3>2 DEF Answering
      <3>4. held[probe[q].token][probe[q].info] \in Int
        BY <3>3
      <3>5. held[probe[q].token][probe[q].info] + Timeout >= clock
        BY <3>2, <3>3, <3>4
      <3>6. clock \in Nat
        OBVIOUS
      <3> HIDE DEF BInv, BindingTypes, Current, Probes, CachedEntries
      <3> QED BY <3>1, <3>4, <3>5, <3>6
    <2>3. ASSUME ClockTick \/ (\E t \in Token, info \in Info : Rebind(t, info)) \/ (\E q \in Prober : Fetch(q))
          PROVE  FALSE
      BY <2>3 DEF ClockTick, Rebind, Fetch
    <2> QED BY <2>1, <2>2, <2>3 DEF BindingNext
  <1> QED BY <1>1, BInvInit, BInvStep, PTL DEF AnswersAreRecent
===============================================================================
