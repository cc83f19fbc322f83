------------------------------ MODULE DocProofs ------------------------------
(***************************************************************************)
(* Proofs about DocLifecycle, for any requests, users, spaces, texts, any  *)
(* bound on versions and any number of registration attempts.              *)
(*                                                                         *)
(* Ground is inductive alone; each of the other invariants is inductive    *)
(* next to it.  An action touches the stores only inside the critical      *)
(* section, so what an invariant says of the other requests is vacuous     *)
(* (OthersOutside) and only the request that moves has to be looked at.    *)
(***************************************************************************)
EXTENDS DocProperties, FiniteSetTheorems, WellFoundedInduction, TLAPS

\* A bounded non-empty set of naturals has a greatest element: the one with the
\* fewest elements above it.
LEMMA Greatest ==
    ASSUME NEW S, NEW n \in Nat, S \subseteq 0 .. n, S # {}
    PROVE  \E m \in S : \A v \in S : v =< m
  <1> DEFINE Above(v) == {w \in S : v < w}
             T == {Above(v) : v \in S}
  <1>1. IsFiniteSet(S)
    <2>1. IsFiniteSet(0 .. n)
      BY FS_Interval
    <2>2. QED  BY <2>1, FS_Subset
  <1>2. T \subseteq FiniteSubsetsOf(S) /\ T # {}
    <2>1. \A v \in S : Above(v) \in SUBSET S
      OBVIOUS
    <2>2. \A U \in SUBSET S : IsFiniteSet(U)
      BY <1>1, FS_Subset
    <2>3. QED  BY <2>1, <2>2 DEF FiniteSubsetsOf
  <1>3. PICK x \in T : \A y \in T : <<y, x>> \notin StrictSubsetOrdering(S)
    BY <1>2, FS_StrictSubsetOrderingWellFounded, WFMin
  <1>4. PICK m \in S : x = Above(m)
    OBVIOUS
  <1>5. ASSUME NEW v \in S, ~(v =< m) PROVE FALSE
    <2>1. v \in Int /\ m \in Int /\ m < v /\ \A w \in S : w \in Int
      BY <1>5
    <2>2. Above(v) \subseteq Above(m) /\ v \in Above(m) /\ v \notin Above(v)
      <3>1. \A w \in S : v < w => m < w
        BY <2>1
      <3>2. ~(v < v) /\ m < v
        BY <2>1
      <3>3. QED  BY ONLY <3>1, <3>2, v \in S
    <2>3. <<Above(v), Above(m)>> \in StrictSubsetOrdering(S)
      BY <2>2 DEF StrictSubsetOrdering
    <2>4. QED  BY <2>3, <1>3, <1>4
  <1>6. QED  BY <1>5

\* Latest is the greatest stored version, or 0.
LEMMA LatestIsGreatest ==
    /\ Latest \in Stored \cup {0}
    /\ \A v \in Stored : v =< Latest
  <1>1. Stored \cup {0} \subseteq 0 .. MaxVersion
    BY VersionAssumption DEF Stored, Version
  <1>2. PICK m \in Stored \cup {0} : \A v \in Stored \cup {0} : v =< m
    BY <1>1, Greatest, VersionAssumption
  <1>3. QED  BY <1>2 DEF Latest

\* The version after it holds no text.
LEMMA NextVersionIsFree == Latest + 1 \notin Stored
  BY LatestIsGreatest DEF Stored, Version

-------------------------------------------------------------------------------
\* What Goto changes.
LEMMA GotoEffect ==
    ASSUME TypeOK, NEW p \in Proc, NEW step \in Steps, Goto(p, step)
    PROVE  /\ pc' = [pc EXCEPT ![p] = step] /\ pc' \in [Proc -> Steps]
           /\ in' \in [Proc -> RequestType]
           /\ target' \in [Proc -> Version \cup {0}]
           /\ tries' \in [Proc -> 0 .. (Attempts - 1)]
           /\ \A q \in Proc : q # p \/ step # "idle" =>
                 in'[q] = in[q] /\ target'[q] = target[q] /\ tries'[q] = tries[q]
  <1>1. NoInput \in RequestType
    BY DEF NoInput, RequestType, Op, NoHtml, Mount
  <1>2. 0 \in 0 .. (Attempts - 1)
    BY VersionAssumption
  <1>3. CASE step # "idle"
    BY <1>3 DEF Goto, TypeOK
  <1>4. CASE step = "idle"
    BY <1>1, <1>2, <1>4 DEF Goto, TypeOK
  <1>5. QED  BY <1>3, <1>4

\* Nobody else is inside the critical section of a request that is in it, and
\* nobody at all when the lock is free.
LEMMA OthersOutside ==
    ASSUME Ground, NEW p \in Proc, holder = NoProc \/ pc[p] \in Inside
    PROVE  \A q \in Proc : q # p => pc[q] \notin Inside
  BY ProcAssumption DEF Ground

\* The input with the identity on record is an input.
LEMMA RestoreType ==
    ASSUME TypeOK, NEW r \in RequestType, NEW unset \in {"", Absent}
    PROVE  /\ restore(r, unset) \in RequestType
           /\ restore(r, unset).op = r.op
           /\ restore(r, unset).html = r.html
           /\ restore(r, unset).version = r.version
  <1>1. restoreLegacyMount(r.mount, meta.mount) \in Mount \cup {Absent}
    BY DEF TypeOK, MetaType, RequestType, restoreLegacyMount, Mount, Absent
  <1>2. /\ r.mount \in Mount \cup {Absent} /\ unset \in Mount \cup {Absent}
        /\ meta.mount \in Mount \cup {Absent} /\ meta.space \in Space \cup {NoSpace}
        /\ meta.creator \in Uid \cup {NoUid} /\ r.uid \in Uid \cup {NoUid}
    BY DEF TypeOK, MetaType, RequestType, Mount
  <1>3. CASE ~meta.stored
    <2>1. restore(r, unset) = [r EXCEPT !.mount = IF r.mount = Absent THEN unset ELSE r.mount]
      BY <1>3 DEF restore
    <2>2. QED  BY <1>2, <2>1 DEF RequestType
  <1>4. CASE meta.stored /\ meta.user
    <2>1. restore(r, unset) = [r EXCEPT !.user = TRUE, !.space = meta.space,
                                 !.mount = meta.mount, !.uid = meta.creator]
      BY <1>4 DEF restore
    <2>2. QED  BY <1>2, <2>1 DEF RequestType
  <1>5. CASE meta.stored /\ ~meta.user
    <2> QED  BY <1>1, <1>2, <1>5 DEF restore, RequestType
  <1>6. QED  BY <1>3, <1>4, <1>5

LEMMA ExistingInputType ==
    ASSUME TypeOK, NEW r \in RequestType, NEW text \in SUBSET Edit
    PROVE  /\ existingPublishInput(r, text) \in RequestType
           /\ existingPublishInput(r, text).op = r.op
           /\ existingPublishInput(r, text).html = text
           /\ existingPublishInput(r, text).version = r.version
  BY DEF existingPublishInput, TypeOK, MetaType, RequestType

-------------------------------------------------------------------------------
\* Ground holds in the initial states.
LEMMA InitGround == Init => Ground
  <1> SUFFICES ASSUME Init PROVE Ground
    OBVIOUS
  <1>1. NoInput \in RequestType /\ 0 \in 0 .. (Attempts - 1)
    BY VersionAssumption DEF NoInput, RequestType, Op, NoHtml, Mount
  <1>2. meta \in MetaType
    <2>1. NoMeta \in MetaType
      BY DEF NoMeta, MetaType, Mount
    <2>2. [NoMeta EXCEPT !.stored = TRUE, !.versions = {1} \cap Version] \in MetaType
      BY DEF NoMeta, MetaType, Mount
    <2>3. QED  BY <2>1, <2>2 DEF Init
  <1>3. blobs \in [Version -> SUBSET Edit]
    BY DEF Init, NoHtml
  <1>4. TypeOK
    BY <1>1, <1>2, <1>3 DEF Init, TypeOK, NoHtml, Steps
  <1>5. QED  BY <1>4, ProcAssumption DEF Init, Ground, Inside, Publishing

\* Ground after a step of p: the other requests stay where they are, and p has
\* the lock when it is inside.
LEMMA GroundFrom ==
    ASSUME Ground, NEW p \in Proc, TypeOK',
           \A q \in Proc : q # p => /\ pc'[q] = pc[q] /\ target'[q] = target[q]
                                    /\ holder' = q <=> holder = q,
           pc'[p] \in Inside <=> holder' = p,
           pc'[p] \in Publishing \cup {"register", "confirm"} => target'[p] \in Version
    PROVE  Ground'
  BY DEF Ground

\* A step of the request p that ends its critical section or stays outside.
LEMMA GotoGround ==
    ASSUME Ground, NEW p \in Proc, NEW step \in Steps \ Inside, Goto(p, step), TypeOK',
           \/ holder' = NoProc /\ (pc[p] \in Inside \/ holder = NoProc)
           \/ holder' = holder /\ pc[p] \notin Inside,
           step \in {"register", "confirm"} => target[p] \in Version
    PROVE  Ground'
  <1>1. /\ pc' = [pc EXCEPT ![p] = step]
        /\ \A q \in Proc : q # p \/ step # "idle" => target'[q] = target[q]
    BY GotoEffect DEF Ground
  <1>2. pc'[p] = step /\ \A q \in Proc : q # p => pc'[q] = pc[q]
    BY <1>1 DEF Ground, TypeOK
  <1>3. \A q \in Proc : q # p => (holder' = q <=> holder = q)
    BY ProcAssumption DEF Ground
  <1>4. step \notin Inside /\ holder' # p
    BY ProcAssumption DEF Ground
  <1>5. step \in Publishing \cup {"register", "confirm"} => target'[p] \in Version
    BY <1>1 DEF Publishing, Inside
  <1>6. QED  BY <1>1, <1>2, <1>3, <1>4, <1>5, GroundFrom

\* A step from one store write of the critical section to the next.
LEMMA InsideGround ==
    ASSUME Ground, NEW p \in Proc, NEW step \in Inside, Goto(p, step), TypeOK',
           pc[p] \in Inside, holder' = holder,
           step \in Publishing => pc[p] \in Publishing
    PROVE  Ground'
  <1>1. step \in Steps /\ step # "idle"
    BY DEF Inside, Steps
  <1>2. /\ pc' = [pc EXCEPT ![p] = step]
        /\ \A q \in Proc : target'[q] = target[q]
    BY <1>1, GotoEffect DEF Ground
  <1>3. pc'[p] = step /\ \A q \in Proc : q # p => pc'[q] = pc[q]
    BY <1>2 DEF Ground, TypeOK
  <1>4. step \notin {"register", "confirm"}
    BY DEF Inside
  <1>5. holder' = p
    BY DEF Ground
  <1>6. step \in Publishing => target'[p] \in Version
    BY <1>2 DEF Ground
  <1>7. QED  BY <1>2, <1>3, <1>4, <1>5, <1>6, GroundFrom
\* A request that enters the critical section with a well-typed input.
LEMMA EnterGround ==
    ASSUME Ground, NEW p \in Proc, NEW r \in RequestType, NEW step \in Inside,
           holder = NoProc, Enter(p, r, step), target' \in [Proc -> Version \cup {0}],
           \A q \in Proc : q # p => target'[q] = target[q],
           step \in Publishing => target'[p] \in Version,
           UNCHANGED <<stores, backend, tries, history>>
    PROVE  Ground'
  <1>1. /\ pc' = [pc EXCEPT ![p] = step] /\ pc' \in [Proc -> Steps] /\ holder' = p
        /\ in' \in [Proc -> RequestType]
    BY DEF Enter, Ground, TypeOK, Inside, Steps
  <1>2. TypeOK'
    BY <1>1 DEF Ground, TypeOK, stores, history
  <1>3. pc'[p] = step /\ \A q \in Proc : q # p => pc'[q] = pc[q]
    BY <1>1 DEF Ground, TypeOK
  <1>4. \A q \in Proc : q # p => (holder' = q <=> holder = q)
    BY <1>1, ProcAssumption
  <1>5. step \notin {"register", "confirm"}
    BY DEF Inside
  <1>6. QED  BY <1>1, <1>2, <1>3, <1>4, <1>5, GroundFrom

LEMMA EnterPublishGround ==
    ASSUME Ground, NEW p \in Proc, NEW r \in RequestType, NEW explicit,
           holder = NoProc, EnterPublish(p, r, explicit)
    PROVE  Ground'
  <1>1. restore(r, "") \in RequestType /\ "putDoc" \in Inside
    BY RestoreType DEF Ground, Inside
  <1>2. target' \in [Proc -> Version \cup {0}] /\ target'[p] \in Version
        /\ \A q \in Proc : q # p => target'[q] = target[q]
    BY DEF EnterPublish, Ground, TypeOK
  <1>3. QED  BY <1>1, <1>2, EnterGround DEF EnterPublish

\* The requests that enter.
LEMMA EntryGround ==
    ASSUME Ground, NEW p \in Proc,
           \/ Publish(p) \/ ReplaceElement(p) \/ Promote(p) \/ SaveDraft(p) \/ Remove(p)
    PROVE  Ground'
  <1>1. in[p] \in RequestType
    BY DEF Ground, TypeOK
  <1>2. CASE Publish(p)
    BY <1>1, <1>2, EnterPublishGround DEF Publish, Locked
  <1>3. CASE ReplaceElement(p)
    <2> DEFINE base == resolveReadVersion(in[p].version)
               text == blobs[base] \cup in[p].html
    <2>1. text \in SUBSET Edit
      BY <1>1, <1>3 DEF ReplaceElement, Stored, Ground, TypeOK, RequestType
    <2>2. existingPublishInput(in[p], text) \in RequestType
      BY <1>1, <2>1, ExistingInputType DEF Ground
    <2>3. QED  BY <1>3, <2>2, EnterPublishGround DEF ReplaceElement, Locked
  <1>4. CASE Promote(p)
    <2>1. existingPublishInput(in[p], draft) \in RequestType
      BY <1>1, ExistingInputType DEF Ground, TypeOK
    <2>2. QED  BY <1>4, <2>1, EnterPublishGround DEF Promote, Locked
  <1>5. CASE SaveDraft(p)
    <2>1. restore(in[p], Absent) \in RequestType /\ "putDraft" \in Inside \ Publishing
      BY <1>1, RestoreType DEF Ground, Inside, Publishing
    <2>2. QED  BY <1>5, <2>1, EnterGround DEF SaveDraft, Locked, Ground, TypeOK
  <1>6. CASE Remove(p)
    <2>1. [in[p] EXCEPT !.user = meta.user] \in RequestType
      BY <1>1 DEF Ground, TypeOK, MetaType, RequestType
    <2>2. "deleteDoc" \in Inside \ Publishing
      BY DEF Inside, Publishing
    <2>3. QED  BY <1>6, <2>1, <2>2, EnterGround DEF Remove, Locked, Ground, TypeOK
  <1>7. QED  BY <1>2, <1>3, <1>4, <1>5, <1>6

\* The steps that come before the lock, or hold it for themselves only.
LEMMA OutsideGround ==
    ASSUME Ground, NEW p \in Proc,
           \/ Ask(p) \/ Comment(p) \/ Upload(p)
           \/ Register(p) \/ Confirm(p) \/ Unregister(p) \/ Fail(p)
    PROVE  Ground'
  <1> "idle" \in Steps \ Inside /\ "confirm" \in Steps \ Inside
    BY DEF Steps, Inside
  <1>0. TypeOK
    BY DEF Ground
  <1>1. CASE Ask(p)
    <2>1. TypeOK'
      BY <1>1, RequestAssumption DEF Ask, Ground, TypeOK, Steps, stores, history
    <2>2. QED
      BY <1>1, <2>1, GroundFrom DEF Ask, Ground, TypeOK, Inside, Publishing
  <1>2. CASE Comment(p)
    <2>1. TypeOK'
      BY <1>2, <1>0, GotoEffect DEF Comment, TypeOK, history
    <2>2. QED  BY <1>2, <2>1, GotoGround DEF Comment, Locked
  <1>3. CASE Upload(p)
    <2>1. TypeOK'
      BY <1>3, <1>0, GotoEffect DEF Upload, TypeOK, history
    <2>2. QED  BY <1>3, <2>1, GotoGround DEF Upload, Locked
  <1>4. CASE Register(p)
    <2>1. CASE \E step \in {"idle", "confirm"} : Goto(p, step)
      <3>1. TypeOK'
        BY <1>4, <2>1, <1>0, GotoEffect DEF Register, TypeOK, stores, RequestType
      <3>2. pc[p] \notin Inside /\ target[p] \in Version
        BY <1>4 DEF Register, Inside, Ground
      <3>3. QED  BY <1>4, <2>1, <3>1, <3>2, GotoGround DEF Register
    <2>2. CASE tries[p] + 1 < Attempts /\ tries' = [tries EXCEPT ![p] = tries[p] + 1]
               /\ UNCHANGED <<pc, in, target>>
      <3>1. tries' \in [Proc -> 0 .. (Attempts - 1)]
        BY <2>2, VersionAssumption DEF Ground, TypeOK
      <3>2. TypeOK'
        BY <1>4, <2>2, <3>1 DEF Register, Ground, TypeOK, stores, RequestType
      <3>3. QED  BY <1>4, <2>2, <3>2 DEF Register, Ground
    <2>3. QED  BY <1>4, <2>1, <2>2 DEF Register, Retry
  <1>5. CASE Confirm(p)
    <2>1. meta' \in MetaType
      BY <1>5 DEF Confirm, Ground, TypeOK, MetaType
    <2>2. TypeOK'
      BY <1>5, <2>1, <1>0, GotoEffect DEF Confirm, TypeOK, history
    <2>3. QED  BY <1>5, <2>2, GotoGround DEF Confirm
  <1>6. CASE Unregister(p)
    <2>1. TypeOK'
      BY <1>6, <1>0, GotoEffect DEF Unregister, TypeOK, stores, history
    <2>2. QED  BY <1>6, <2>1, GotoGround DEF Unregister, Inside
  <1>7. CASE Fail(p)
    <2>1. TypeOK'
      BY <1>7, <1>0, GotoEffect DEF Fail, TypeOK, stores, history
    <2>2. \/ holder' = NoProc /\ pc[p] \in Inside
          \/ holder' = holder /\ pc[p] \notin Inside
      BY <1>7 DEF Fail, Ground
    <2>3. QED  BY <1>7, <2>1, <2>2, GotoGround DEF Fail
  <1>8. QED  BY <1>1, <1>2, <1>3, <1>4, <1>5, <1>6, <1>7
\* The metadata that the writers make is metadata.
LEMMA MetaWritten ==
    ASSUME Ground, NEW p \in Proc
    PROVE  /\ upsertMeta(p) => meta' \in MetaType
           /\ setDraftMeta(p) => meta' \in MetaType
  <1>1. /\ meta \in MetaType /\ in[p] \in RequestType
        /\ in[p].mount \in Mount \cup {Absent} /\ in[p].space \in Space \cup {NoSpace}
        /\ in[p].user \in BOOLEAN /\ in[p].uid \in Uid \cup {NoUid}
    BY DEF Ground, TypeOK, RequestType
  <1>2. creatorAfter(in[p].uid) \in Uid \cup {NoUid}
    BY <1>1 DEF creatorAfter, MetaType
  <1>3. ASSUME upsertMeta(p) PROVE meta' \in MetaType
    <2>1. target[p] \in Version
      BY <1>3 DEF upsertMeta, Ground, Publishing
    <2> DEFINE versions == meta.versions \cup {target[p]}
               creator == creatorAfter(in[p].uid)
               mount == IF in[p].mount = Absent THEN meta.mount ELSE in[p].mount
               user == meta.user \/ in[p].user
               space == IF in[p].user THEN in[p].space ELSE meta.space
               state == IF in[p].user THEN "pending" ELSE meta.state
               regVersion == IF in[p].user THEN target[p] ELSE meta.regVersion
    <2>2. mount \in Mount \cup {Absent} /\ space \in Space \cup {NoSpace}
      BY <1>1 DEF MetaType
    <2>3. versions \in SUBSET Version /\ regVersion \in Version \cup {0}
      BY <1>1, <2>1 DEF MetaType
    <2>4. state \in {"", "local_only", "pending", "registered"} /\ user \in BOOLEAN
      BY <1>1 DEF MetaType
    <2>5. meta' = [meta EXCEPT !.stored = TRUE, !.versions = versions,
                     !.creator = creator, !.mount = mount, !.user = user,
                     !.space = space, !.state = state, !.regVersion = regVersion]
      BY <1>3 DEF upsertMeta
    <2>6. meta \in MetaType /\ creator \in Uid \cup {NoUid}
      BY <1>1, <1>2
    <2> HIDE DEF versions, creator, mount, user, space, state, regVersion
    <2>7. meta' = [stored |-> TRUE, versions |-> versions, creator |-> creator, user |-> user,
                   space |-> space, mount |-> mount, marked |-> meta.marked, state |-> state,
                   docID |-> meta.docID, regVersion |-> regVersion]
      BY <2>5, <2>6 DEF MetaType
    <2>8. meta.marked \in BOOLEAN /\ meta.docID \in BOOLEAN
      BY <2>6 DEF MetaType
    <2>9. QED  BY <2>2, <2>3, <2>4, <2>6, <2>7, <2>8 DEF MetaType
  <1>4. ASSUME setDraftMeta(p) PROVE meta' \in MetaType
    <2> DEFINE creator == creatorAfter(in[p].uid)
               state == IF in[p].user /\ ~meta.stored THEN "local_only" ELSE meta.state
               mount == IF in[p].mount = Absent THEN meta.mount ELSE in[p].mount
               space == IF in[p].user THEN in[p].space ELSE meta.space
               user == meta.user \/ in[p].user
    <2>1. state \in {"", "local_only", "pending", "registered"}
      BY <1>1 DEF MetaType
    <2>2. mount \in Mount \cup {Absent} /\ space \in Space \cup {NoSpace}
          /\ user \in BOOLEAN
      BY <1>1 DEF MetaType
    <2>3. meta' = [meta EXCEPT !.stored = TRUE, !.marked = TRUE,
                     !.creator = creator, !.mount = mount,
                     !.user = user, !.space = space, !.state = state]
      BY <1>4 DEF setDraftMeta
    <2>4. meta \in MetaType /\ creator \in Uid \cup {NoUid}
      BY <1>1, <1>2
    <2> HIDE DEF creator, state, mount, space, user
    <2>5. meta' = [stored |-> TRUE, versions |-> meta.versions, creator |-> creator,
                   user |-> user, space |-> space, mount |-> mount, marked |-> TRUE,
                   state |-> state, docID |-> meta.docID, regVersion |-> meta.regVersion]
      BY <2>3, <2>4 DEF MetaType
    <2>6. /\ meta.versions \in SUBSET Version /\ meta.docID \in BOOLEAN
          /\ meta.regVersion \in Version \cup {0}
      BY <2>4 DEF MetaType
    <2>7. QED  BY <2>1, <2>2, <2>4, <2>5, <2>6 DEF MetaType
  <1>5. QED  BY <1>3, <1>4

\* The store writes of a publish.
LEMMA PublishGround ==
    ASSUME Ground, NEW p \in Proc,
           \/ PutDoc(p) \/ upsertMeta(p) \/ PublishMerge(p)
           \/ DeleteDraft(p) \/ clearDraftMeta(p)
    PROVE  Ground'
  <1> "upsertMeta" \in Inside /\ "merge" \in Inside /\ "deleteDraft" \in Inside
      /\ "clearMark" \in Inside /\ Inside \subseteq Steps
      /\ "idle" \in Steps \ Inside /\ "register" \in Steps \ Inside
    BY DEF Steps, Inside
  <1>0. TypeOK /\ in[p] \in RequestType /\ in[p].html \in SUBSET Edit
    BY DEF Ground, TypeOK, RequestType
  <1>1. pc[p] \in Inside /\ pc[p] \in Publishing /\ target[p] \in Version
    BY DEF PutDoc, upsertMeta, PublishMerge, DeleteDraft, clearDraftMeta,
           Ground, Inside, Publishing
  <1>2. CASE PutDoc(p)
    <2>1. acked' \in SUBSET (Version \X SUBSET Edit)
      BY <1>2 DEF PutDoc, Ground, TypeOK
    <2>2. TypeOK'
      BY <1>0, <1>2, <2>1, GotoEffect DEF PutDoc, TypeOK
    <2>3. QED  BY <1>1, <1>2, <2>2, InsideGround DEF PutDoc
  <1>3. CASE upsertMeta(p)
    <2>1. TypeOK'
      BY <1>0, <1>1, <1>3, MetaWritten, GotoEffect DEF upsertMeta, TypeOK
    <2>2. QED  BY <1>1, <1>3, <2>1, InsideGround DEF upsertMeta
  <1>4. ASSUME Commit(p), meta' \in MetaType,
               UNCHANGED <<blobs, draft, rows, backend, committed, attempted>>,
               comments' \in BOOLEAN
        PROVE  Ground'
    <2>1. \E step \in {"idle", "register"} : Leave(p, step)
      BY <1>4 DEF Commit
    <2>2. acked' \in SUBSET (Version \X SUBSET Edit)
      <3>1. <<target[p], in[p].html>> \in Version \X SUBSET Edit
        BY <1>0, <1>1
      <3>2. QED  BY <1>0, <1>4, <3>1 DEF Commit, TypeOK
    <2>3. TypeOK'
      BY <1>0, <1>4, <2>1, <2>2, GotoEffect DEF Leave, TypeOK
    <2>4. QED  BY <1>1, <2>1, <2>3, GotoGround DEF Leave
  <1>5. CASE PublishMerge(p)
    <2>1. CASE in[p].op = "promote"
      <3>1. TypeOK'
        BY <1>0, <1>5, <2>1, GotoEffect DEF PublishMerge, TypeOK
      <3>2. QED  BY <1>1, <1>5, <2>1, <3>1, InsideGround DEF PublishMerge
    <2>2. CASE in[p].op # "promote"
      BY <1>0, <1>4, <1>5, <2>2 DEF PublishMerge, TypeOK
    <2>3. QED  BY <2>1, <2>2
  <1>6. CASE DeleteDraft(p)
    <2>1. TypeOK'
      BY <1>0, <1>6, GotoEffect DEF DeleteDraft, TypeOK, history, NoHtml
    <2>2. QED  BY <1>1, <1>6, <2>1, InsideGround DEF DeleteDraft, Publishing
  <1>7. CASE clearDraftMeta(p)
    <2>1. meta' \in MetaType
      BY <1>0, <1>7 DEF clearDraftMeta, TypeOK, MetaType
    <2>2. QED  BY <1>0, <1>4, <1>7, <2>1 DEF clearDraftMeta, TypeOK
  <1>8. QED  BY <1>2, <1>3, <1>5, <1>6, <1>7

\* The store writes of a draft and of a removal.
LEMMA DraftAndRemovalGround ==
    ASSUME Ground, NEW p \in Proc,
           \/ PutDraft(p) \/ setDraftMeta(p)
           \/ deleteDoc(p) \/ deleteRows(p) \/ deleteMeta(p) \/ wipe(p)
    PROVE  Ground'
  <1> "setDraftMeta" \in Inside \ Publishing /\ "deleteRows" \in Inside \ Publishing
      /\ "deleteMeta" \in Inside \ Publishing /\ "wipe" \in Inside \ Publishing
      /\ Inside \subseteq Steps
      /\ "idle" \in Steps \ Inside /\ "unregister" \in Steps \ Inside
    BY DEF Steps, Inside, Publishing
  <1>0. TypeOK /\ in[p] \in RequestType /\ in[p].html \in SUBSET Edit
    BY DEF Ground, TypeOK, RequestType
  <1>1. pc[p] \in Inside
    BY DEF PutDraft, setDraftMeta, deleteDoc, deleteRows, deleteMeta, wipe, Inside
  <1>2. CASE PutDraft(p)
    <2>1. TypeOK'
      BY <1>0, <1>2, GotoEffect DEF PutDraft, TypeOK, history
    <2>2. QED  BY <1>1, <1>2, <2>1, InsideGround DEF PutDraft
  <1>3. CASE setDraftMeta(p)
    <2>1. TypeOK'
      BY <1>0, <1>3, MetaWritten, GotoEffect DEF setDraftMeta, Leave, TypeOK, history
    <2>2. QED  BY <1>1, <1>3, <2>1, GotoGround DEF setDraftMeta, Leave
  <1>4. CASE deleteDoc(p)
    <2>1. blobs' \in [Version -> SUBSET Edit] /\ draft' \in SUBSET Edit
      BY <1>0, <1>4 DEF deleteDoc, TypeOK, NoHtml
    <2>2. CASE Goto(p, "deleteRows") /\ holder' = holder
      <3>1. TypeOK'
        BY <1>0, <1>4, <2>1, <2>2, GotoEffect DEF deleteDoc, TypeOK
      <3>2. QED  BY <1>1, <2>2, <3>1, InsideGround
    <2>3. CASE Leave(p, "idle")
      <3>1. TypeOK'
        BY <1>0, <1>4, <2>1, <2>3, GotoEffect DEF deleteDoc, Leave, TypeOK
      <3>2. QED  BY <1>1, <2>3, <3>1, GotoGround DEF Leave
    <2>4. QED  BY <1>4, <2>2, <2>3 DEF deleteDoc
  <1>5. CASE deleteRows(p)
    <2>1. rows' \in SUBSET Asset
      BY <1>0, <1>5 DEF deleteRows, TypeOK
    <2>2. CASE Goto(p, "deleteMeta") /\ holder' = holder
      <3>1. TypeOK'
        BY <1>0, <1>5, <2>1, <2>2, GotoEffect DEF deleteRows, TypeOK, history
      <3>2. QED  BY <1>1, <2>2, <3>1, InsideGround
    <2>3. CASE Leave(p, "idle")
      <3>1. TypeOK'
        BY <1>0, <1>5, <2>1, <2>3, GotoEffect DEF deleteRows, Leave, TypeOK, history
      <3>2. QED  BY <1>1, <2>3, <3>1, GotoGround DEF Leave
    <2>4. QED  BY <1>5, <2>2, <2>3 DEF deleteRows
  <1>6. CASE deleteMeta(p)
    <2>1. NoMeta \in MetaType
      BY DEF NoMeta, MetaType, Mount
    <2>2. TypeOK'
      BY <1>0, <1>6, <2>1, GotoEffect DEF deleteMeta, TypeOK
    <2>3. QED  BY <1>1, <1>6, <2>2, InsideGround DEF deleteMeta
  <1>7. CASE wipe(p)
    <2>1. \E step \in {"idle", "unregister"} : Leave(p, step)
      BY <1>7 DEF wipe
    <2>2. TypeOK'
      BY <1>0, <1>7, <2>1, GotoEffect DEF wipe, Leave, TypeOK, history
    <2>3. QED  BY <1>1, <2>1, <2>2, GotoGround DEF Leave
  <1>8. QED  BY <1>2, <1>3, <1>4, <1>5, <1>6, <1>7

LEMMA StepGround == Ground /\ [Next]_vars => Ground'
  <1> SUFFICES ASSUME Ground, [Next]_vars PROVE Ground'
    OBVIOUS
  <1>1. CASE UNCHANGED vars
    BY <1>1 DEF vars, stores, history, Ground, TypeOK
  <1>2. ASSUME NEW p \in Proc, Ask(p) \/ Step(p) \/ Fail(p) PROVE Ground'
    BY <1>2, EntryGround, OutsideGround, PublishGround, DraftAndRemovalGround DEF Step
  <1>3. QED  BY <1>1, <1>2 DEF Next

\* A request is in the critical section exactly while it holds the lock, and
\* knows its version once it publishes.
THEOREM GroundInvariant == Spec => []Ground
  <1>1. QED  BY InitGround, StepGround, PTL DEF Spec

\* Every variable keeps its type.
THEOREM TypeCorrect == Spec => []TypeOK
  <1>1. Ground => TypeOK
    BY DEF Ground
  <1>2. QED  BY <1>1, GroundInvariant, PTL
-------------------------------------------------------------------------------
\* A step of p moves p only.
LEMMA OthersStay ==
    ASSUME Ground, NEW p \in Proc, Ask(p) \/ Step(p) \/ Fail(p)
    PROVE  \A q \in Proc : q # p =>
              pc'[q] = pc[q] /\ in'[q] = in[q] /\ target'[q] = target[q]
  <1> USE DEF Ground
  <1>0. /\ "idle" \in Steps /\ "register" \in Steps /\ "confirm" \in Steps
        /\ "unregister" \in Steps /\ Inside \subseteq Steps
        /\ {"upsertMeta", "merge", "deleteDraft", "clearMark", "setDraftMeta",
            "deleteRows", "deleteMeta", "wipe"} \subseteq Inside
    BY DEF Steps, Inside
  <1>1. ASSUME NEW step \in Steps, Goto(p, step)
        PROVE  \A q \in Proc : q # p =>
                  pc'[q] = pc[q] /\ in'[q] = in[q] /\ target'[q] = target[q]
    BY <1>1, GotoEffect DEF TypeOK
  <1>2. CASE Ask(p)
    BY <1>2 DEF Ask, TypeOK
  <1>3. CASE Publish(p) \/ ReplaceElement(p) \/ Promote(p) \/ SaveDraft(p) \/ Remove(p)
    BY <1>3 DEF Publish, ReplaceElement, Promote, SaveDraft, Remove, EnterPublish,
                Enter, TypeOK
  <1>4. CASE Comment(p) \/ Upload(p) \/ Confirm(p) \/ Unregister(p) \/ Fail(p)
    BY <1>0, <1>1, <1>4 DEF Comment, Upload, Confirm, Unregister, Fail
  <1>5. CASE PutDoc(p) \/ upsertMeta(p) \/ PublishMerge(p) \/ DeleteDraft(p) \/ clearDraftMeta(p)
    BY <1>0, <1>1, <1>5 DEF PutDoc, upsertMeta, PublishMerge, DeleteDraft,
                            clearDraftMeta, Commit, Leave
  <1>6. CASE PutDraft(p) \/ setDraftMeta(p) \/ deleteDoc(p) \/ deleteRows(p)
             \/ deleteMeta(p) \/ wipe(p)
    BY <1>0, <1>1, <1>6 DEF PutDraft, setDraftMeta, deleteDoc, deleteRows,
                            deleteMeta, wipe, Leave
  <1>7. CASE Register(p)
    BY <1>0, <1>1, <1>7 DEF Register, Retry
  <1>8. QED  BY <1>2, <1>3, <1>4, <1>5, <1>6, <1>7 DEF Step

\* Where p goes with Goto, and that its variables stay unless it ends there.
LEMMA GotoSelf ==
    ASSUME Ground, NEW p \in Proc, NEW step \in Steps, Goto(p, step)
    PROVE  /\ pc'[p] = step
           /\ step # "idle" => in'[p] = in[p] /\ target'[p] = target[p]
  BY GotoEffect DEF Ground, TypeOK

\* The steps that leave document, draft, metadata and history alone end outside
\* the critical section; Confirm is the only other step that does not hold the
\* lock.
LEMMA QuietStep ==
    ASSUME Ground, NEW p \in Proc,
           \/ Ask(p) \/ Comment(p) \/ Upload(p)
           \/ Register(p) \/ Confirm(p) \/ Unregister(p) \/ Fail(p)
    PROVE  /\ pc'[p] \in {"idle", "queued", "register", "confirm"}
           /\ UNCHANGED <<blobs, draft, acked, committed>>
           /\ Confirm(p) \/ meta' = meta
           /\ Confirm(p) => pc'[p] = "idle" /\ holder = NoProc
           /\ Upload(p) => holder = NoProc
           /\ Upload(p) \/ rows' = rows
  <1>0. {"idle", "confirm"} \subseteq Steps
    BY DEF Steps
  <1>1. Confirm(p) => pc'[p] = "idle" /\ holder = NoProc
    BY <1>0, GotoSelf DEF Confirm
  <1>2. Upload(p) => holder = NoProc
    BY DEF Upload, Locked
  <1>3. /\ pc'[p] \in {"idle", "queued", "register", "confirm"}
        /\ UNCHANGED <<blobs, draft, acked, committed>>
        /\ Confirm(p) \/ meta' = meta
        /\ Upload(p) \/ rows' = rows
    <2>1. CASE Ask(p)
      BY <2>1 DEF Ask, stores, history, Ground, TypeOK
    <2>2. CASE Comment(p)
      BY <1>0, <2>2, GotoSelf DEF Comment, history
    <2>3. CASE Upload(p)
      BY <1>0, <2>3, GotoSelf DEF Upload, history
    <2>4. CASE Unregister(p)
      BY <1>0, <2>4, GotoSelf DEF Unregister, stores, history
    <2>5. CASE Fail(p)
      BY <1>0, <2>5, GotoSelf DEF Fail, stores, history
    <2>6. CASE Register(p)
      <3>1. pc'[p] \in {"idle", "register", "confirm"}
        BY <1>0, <2>6, GotoSelf DEF Register, Retry
      <3>2. QED  BY <2>6, <3>1 DEF Register, stores
    <2>7. CASE Confirm(p)
      BY <1>1, <2>7 DEF Confirm, history
    <2>8. QED  BY <2>1, <2>2, <2>3, <2>4, <2>5, <2>6, <2>7
  <1>4. QED  BY <1>1, <1>2, <1>3

\* A step that writes is made by the only request inside, so that another
\* request inside sees no write.
LEMMA OnlyTheHolderWrites ==
    ASSUME Ground, NEW p \in Proc, Ask(p) \/ Step(p) \/ Fail(p),
           NEW q \in Proc, q # p, pc[q] \in Inside
    PROVE  UNCHANGED <<meta, blobs, draft, rows, acked, committed>>
  <1>1. ~Locked(p, in[p].op) /\ pc[p] \notin Inside /\ holder # NoProc
    BY OthersOutside, ProcAssumption DEF Locked, Ground
  <1>2. CASE \/ Ask(p) \/ Comment(p) \/ Upload(p)
             \/ Register(p) \/ Confirm(p) \/ Unregister(p) \/ Fail(p)
    BY <1>1, <1>2, QuietStep
  <1>3. CASE Publish(p) \/ ReplaceElement(p) \/ Promote(p) \/ SaveDraft(p) \/ Remove(p)
    BY <1>1, <1>3 DEF Publish, ReplaceElement, Promote, SaveDraft, Remove, Locked
  <1>4. CASE \/ PutDoc(p) \/ upsertMeta(p) \/ PublishMerge(p)
             \/ DeleteDraft(p) \/ clearDraftMeta(p)
             \/ PutDraft(p) \/ setDraftMeta(p)
             \/ deleteDoc(p) \/ deleteRows(p) \/ deleteMeta(p) \/ wipe(p)
    BY <1>1, <1>4 DEF PutDoc, upsertMeta, PublishMerge, DeleteDraft, clearDraftMeta,
           PutDraft, setDraftMeta, deleteDoc, deleteRows, deleteMeta, wipe, Inside
  <1>5. QED  BY <1>2, <1>3, <1>4 DEF Step
\* Where a step inside the critical section leads, and that the request keeps
\* its variables on the way.
LEMMA Course ==
    ASSUME Ground, NEW p \in Proc
    PROVE  /\ PutDoc(p) => pc'[p] = "upsertMeta" /\ in'[p] = in[p] /\ target'[p] = target[p]
           /\ upsertMeta(p) => pc'[p] = "merge" /\ in'[p] = in[p] /\ target'[p] = target[p]
           /\ PublishMerge(p) =>
                 \/ pc'[p] = "deleteDraft" /\ in'[p] = in[p] /\ target'[p] = target[p]
                 \/ pc'[p] = "register" /\ in'[p] = in[p]
                 \/ pc'[p] = "idle"
           /\ DeleteDraft(p) => pc'[p] = "clearMark" /\ in'[p] = in[p] /\ target'[p] = target[p]
           /\ clearDraftMeta(p) =>
                 \/ pc'[p] = "register" /\ in'[p] = in[p]
                 \/ pc'[p] = "idle"
           /\ PutDraft(p) => pc'[p] = "setDraftMeta" /\ in'[p] = in[p]
           /\ setDraftMeta(p) => pc'[p] = "idle"
           /\ deleteDoc(p) => pc'[p] \in {"deleteRows", "idle"}
           /\ deleteRows(p) => pc'[p] \in {"deleteMeta", "idle"}
           /\ deleteMeta(p) => pc'[p] = "wipe"
           /\ wipe(p) => pc'[p] \in {"idle", "unregister"}
  <1>0. {"idle", "upsertMeta", "merge", "deleteDraft", "clearMark", "register",
         "setDraftMeta", "deleteRows", "deleteMeta", "wipe", "unregister"} \subseteq Steps
    BY DEF Steps
  <1>1. Commit(p) => (pc'[p] = "register" /\ in'[p] = in[p]) \/ pc'[p] = "idle"
    BY <1>0, GotoSelf DEF Commit, Leave
  <1>2. QED
    BY <1>0, <1>1, GotoSelf DEF PutDoc, upsertMeta, PublishMerge, DeleteDraft,
           clearDraftMeta, PutDraft, setDraftMeta, deleteDoc, deleteRows, deleteMeta,
           wipe, Leave

\* Where a request enters.
LEMMA Entry ==
    ASSUME Ground, NEW p \in Proc
    PROVE  /\ Publish(p) \/ ReplaceElement(p) \/ Promote(p) => pc'[p] = "putDoc"
           /\ SaveDraft(p) => pc'[p] = "putDraft"
           /\ Remove(p) => pc'[p] = "deleteDoc"
           /\ Publish(p) \/ ReplaceElement(p) \/ Promote(p) \/ SaveDraft(p) \/ Remove(p)
                 => UNCHANGED <<stores, history>>
  BY DEF Publish, ReplaceElement, Promote, SaveDraft, Remove, EnterPublish, Enter,
         Ground, TypeOK

-------------------------------------------------------------------------------
LEMMA InitPurge == Init => Purge
  BY DEF Init, Purge, PurgeOf

LEMMA StepPurge == Ground /\ Purge /\ [Next]_vars => Purge'
  <1> SUFFICES ASSUME Ground, Purge, [Next]_vars PROVE Purge'
    OBVIOUS
  <1>1. CASE UNCHANGED vars
    BY <1>1 DEF vars, stores, Purge, PurgeOf, Stored
  <1>2. ASSUME NEW p \in Proc, Ask(p) \/ Step(p) \/ Fail(p) PROVE Purge'
    <2>1. ASSUME NEW q \in Proc, q # p PROVE PurgeOf(q)'
      <3>1. pc'[q] = pc[q]
        BY <1>2, <2>1, OthersStay
      <3>2. pc[q] \in Inside => UNCHANGED <<meta, blobs, draft, rows>>
        BY <1>2, <2>1, OnlyTheHolderWrites
      <3>3. QED  BY <3>1, <3>2 DEF Purge, PurgeOf, Stored, Inside
    <2>2. PurgeOf(p)'
      <3>1. CASE \/ Ask(p) \/ Comment(p) \/ Upload(p)
                 \/ Register(p) \/ Confirm(p) \/ Unregister(p) \/ Fail(p)
        BY <3>1, QuietStep DEF PurgeOf
      <3>2. CASE Publish(p) \/ ReplaceElement(p) \/ Promote(p) \/ SaveDraft(p) \/ Remove(p)
        BY <3>2, Entry DEF PurgeOf
      <3>3. CASE \/ PutDoc(p) \/ upsertMeta(p) \/ PublishMerge(p) \/ DeleteDraft(p)
                 \/ clearDraftMeta(p) \/ PutDraft(p) \/ setDraftMeta(p) \/ wipe(p)
        BY <3>3, Course DEF PurgeOf
      <3>4. CASE deleteDoc(p)
        <4>1. CASE pc'[p] = "idle"
          BY <4>1 DEF PurgeOf
        <4>2. CASE pc'[p] = "deleteRows"
          <5>1. blobs' = [v \in Version |-> NoHtml] /\ draft' = NoHtml
            BY <3>4, <4>2, GotoSelf DEF deleteDoc, Leave, Steps
          <5>2. QED  BY <4>2, <5>1 DEF PurgeOf, Stored
        <4>3. QED  BY <3>4, <4>1, <4>2, Course
      <3>5. CASE deleteRows(p)
        <4>1. CASE pc'[p] = "idle"
          BY <4>1 DEF PurgeOf
        <4>2. CASE pc'[p] = "deleteMeta"
          <5>1. rows' = {}
            BY <3>5, <4>2, GotoSelf DEF deleteRows, Leave, Steps
          <5>2. QED  BY <3>5, <4>2, <5>1 DEF deleteRows, Purge, PurgeOf, Stored
        <4>3. QED  BY <3>5, <4>1, <4>2, Course
      <3>6. CASE deleteMeta(p)
        BY <3>6, Course DEF deleteMeta, Purge, PurgeOf, Stored
      <3>7. QED  BY <1>2, <3>1, <3>2, <3>3, <3>4, <3>5, <3>6 DEF Step
    <2>3. QED  BY <2>1, <2>2 DEF Purge
  <1>3. QED  BY <1>1, <1>2 DEF Next

\* A step that takes the document off the record is the last but one of a removal.
LEMMA OnlyDeleteMetaForgets ==
    ASSUME Ground, NEW p \in Proc, Ask(p) \/ Step(p) \/ Fail(p),
           meta.stored, ~meta'.stored
    PROVE  deleteMeta(p)
  <1>0. meta \in MetaType
    BY DEF Ground, TypeOK
  <1>1. CASE \/ Ask(p) \/ Comment(p) \/ Upload(p)
             \/ Register(p) \/ Unregister(p) \/ Fail(p)
    <2>1. meta' = meta
      BY <1>1 DEF Ask, Comment, Upload, Register, Unregister, Fail, stores
    <2>2. QED  BY <2>1
  <1>2. CASE Publish(p) \/ ReplaceElement(p) \/ Promote(p) \/ SaveDraft(p) \/ Remove(p)
    BY <1>2, Entry DEF stores
  <1>3. CASE upsertMeta(p) \/ clearDraftMeta(p) \/ setDraftMeta(p) \/ Confirm(p)
    <2>1. meta'.stored
      BY <1>0, <1>3 DEF upsertMeta, clearDraftMeta, setDraftMeta, Confirm, MetaType
    <2>2. QED  BY <2>1
  <1>4. CASE \/ PutDoc(p) \/ PublishMerge(p) \/ DeleteDraft(p) \/ PutDraft(p)
             \/ deleteDoc(p) \/ deleteRows(p) \/ wipe(p)
    <2>1. meta' = meta
      BY <1>4 DEF PutDoc, PublishMerge, DeleteDraft, PutDraft, deleteDoc, deleteRows, wipe
    <2>2. QED  BY <2>1
  <1>5. QED  BY <1>1, <1>2, <1>3, <1>4 DEF Step

\* A document goes off the record only when its versions, its draft and its asset
\* rows are gone (doc.go:1044-1061), however many removals failed half-way before
\* and whatever other requests do meanwhile.
THEOREM RemovalIsComplete == Spec => MetadataGoesLast
  <1>1. Ground /\ Purge /\ [Next]_vars =>
          [meta.stored /\ ~meta'.stored =>
             Stored = {} /\ draft = NoHtml /\ rows = {}]_vars
    <2> SUFFICES ASSUME Ground, Purge, Next, meta.stored, ~meta'.stored
                 PROVE  Stored = {} /\ draft = NoHtml /\ rows = {}
      OBVIOUS
    <2>1. PICK p \in Proc : Ask(p) \/ Step(p) \/ Fail(p)
      BY DEF Next
    <2>2. pc[p] = "deleteMeta"
      BY <2>1, OnlyDeleteMetaForgets DEF deleteMeta
    <2>3. QED  BY <2>2 DEF Purge, PurgeOf
  <1>2. QED
    BY <1>1, InitPurge, StepPurge, GroundInvariant, PTL DEF Spec, MetadataGoesLast
-------------------------------------------------------------------------------
\* restoreMountContext puts the identity on record into the input, and Admits
\* lets no user request in on another kind of document.
LEMMA RestoreIdentity ==
    ASSUME TypeOK, NEW r \in RequestType, NEW unset, Admits(r), meta.stored
    PROVE  /\ restore(r, unset).user = meta.user
           /\ meta.user => /\ restore(r, unset).space = meta.space
                           /\ restore(r, unset).mount = meta.mount
  <1>1. r.user \in BOOLEAN /\ meta.user \in BOOLEAN
    BY DEF RequestType, TypeOK, MetaType
  <1>2. CASE meta.user
    BY <1>1, <1>2 DEF restore, RequestType
  <1>3. CASE ~meta.user
    <2>1. ~r.user
      BY <1>3 DEF Admits
    <2>2. QED  BY <1>1, <1>3, <2>1 DEF restore, RequestType
  <1>4. QED  BY <1>1, <1>2, <1>3

LEMMA InitIdentity == Init => Identity
  BY DEF Init, Identity, IdentityOf

LEMMA StepIdentity == Ground /\ Identity /\ [Next]_vars => Identity'
  <1> SUFFICES ASSUME Ground, Identity, [Next]_vars PROVE Identity'
    OBVIOUS
  <1>1. CASE UNCHANGED vars
    BY <1>1 DEF vars, stores, Identity, IdentityOf
  <1>2. ASSUME NEW p \in Proc, Ask(p) \/ Step(p) \/ Fail(p) PROVE Identity'
    <2>1. ASSUME NEW q \in Proc, q # p PROVE IdentityOf(q)'
      <3>1. pc'[q] = pc[q] /\ in'[q] = in[q]
        BY <1>2, <2>1, OthersStay
      <3>2. pc[q] \in Inside => meta' = meta
        BY <1>2, <2>1, OnlyTheHolderWrites
      <3>3. QED  BY <3>1, <3>2 DEF Identity, IdentityOf, Inside
    <2>2. IdentityOf(p)'
      <3>0. in[p] \in RequestType /\ TypeOK
        BY DEF Ground, TypeOK
      <3>1. CASE \/ Ask(p) \/ Comment(p) \/ Upload(p)
                 \/ Register(p) \/ Confirm(p) \/ Unregister(p) \/ Fail(p)
        BY <3>1, QuietStep DEF IdentityOf
      <3>2. ASSUME NEW r \in RequestType, NEW unset, Admits(r),
                   meta' = meta, in'[p] = restore(r, unset)
            PROVE  IdentityOf(p)'
        BY <3>0, <3>2, RestoreIdentity DEF IdentityOf
      <3>3. ASSUME NEW r \in RequestType, NEW explicit, EnterPublish(p, r, explicit)
            PROVE  IdentityOf(p)'
        BY <3>2, <3>3 DEF EnterPublish, Enter, Ground, TypeOK, stores
      <3>4. CASE Publish(p)
        BY <3>0, <3>3, <3>4 DEF Publish
      <3>5. CASE ReplaceElement(p)
        <4> DEFINE text == blobs[resolveReadVersion(in[p].version)] \cup in[p].html
        <4>1. text \in SUBSET Edit
          BY <3>0, <3>5 DEF ReplaceElement, Stored, TypeOK, RequestType
        <4>2. existingPublishInput(in[p], text) \in RequestType
          BY <3>0, <4>1, ExistingInputType
        <4>3. QED  BY <3>3, <3>5, <4>2 DEF ReplaceElement
      <3>6. CASE Promote(p)
        <4>1. existingPublishInput(in[p], draft) \in RequestType
          BY <3>0, ExistingInputType DEF TypeOK
        <4>2. QED  BY <3>3, <3>6, <4>1 DEF Promote
      <3>7. CASE SaveDraft(p)
        BY <3>0, <3>2, <3>7 DEF SaveDraft, Enter, TypeOK, stores
      <3>8. CASE Remove(p)
        BY <3>8, Entry DEF IdentityOf
      <3>9. CASE PutDoc(p) \/ PutDraft(p)
        BY <3>9, Course DEF PutDoc, PutDraft, Identity, IdentityOf
      <3>10. CASE \/ upsertMeta(p) \/ PublishMerge(p) \/ DeleteDraft(p) \/ clearDraftMeta(p)
                  \/ setDraftMeta(p) \/ deleteDoc(p) \/ deleteRows(p) \/ deleteMeta(p)
                  \/ wipe(p)
        BY <3>10, Course DEF IdentityOf
      <3>11. QED
        BY <1>2, <3>1, <3>4, <3>5, <3>6, <3>7, <3>8, <3>9, <3>10 DEF Step
    <2>3. QED  BY <2>1, <2>2 DEF Identity
  <1>3. QED  BY <1>1, <1>2 DEF Next

\* A step on a document that stays keeps its identity.
LEMMA IdentityStep ==
    ASSUME Ground, Identity, [Next]_vars, meta.stored, meta'.stored
    PROVE  /\ meta.creator # NoUid => meta'.creator = meta.creator
           /\ meta.user => /\ meta'.user
                           /\ meta'.space = meta.space
                           /\ meta'.mount = meta.mount
           /\ ~meta.user => ~meta'.user
  <1>0. meta \in MetaType
    BY DEF Ground, TypeOK
  <1>1. CASE meta' = meta
    BY <1>1
  <1>2. ASSUME NEW p \in Proc, upsertMeta(p) \/ setDraftMeta(p)
        PROVE  /\ meta.creator # NoUid => meta'.creator = meta.creator
               /\ meta.user => /\ meta'.user
                               /\ meta'.space = meta.space
                               /\ meta'.mount = meta.mount
               /\ ~meta.user => ~meta'.user
    <2>1. /\ in[p].user = meta.user
          /\ meta.user => in[p].space = meta.space /\ in[p].mount = meta.mount
      BY <1>2 DEF upsertMeta, setDraftMeta, Identity, IdentityOf
    <2>2. /\ meta'.creator = creatorAfter(in[p].uid)
          /\ meta'.mount = IF in[p].mount = Absent THEN meta.mount ELSE in[p].mount
          /\ meta'.user = (meta.user \/ in[p].user)
          /\ meta'.space = IF in[p].user THEN in[p].space ELSE meta.space
      <3>1. CASE upsertMeta(p)
        BY <1>0, <3>1 DEF upsertMeta, MetaType
      <3>2. CASE setDraftMeta(p)
        BY <1>0, <3>2 DEF setDraftMeta, MetaType
      <3>3. QED  BY <1>2, <3>1, <3>2
    <2>3. meta.user => in[p].user /\ meta'.user /\ meta'.space = meta.space
      BY <2>1, <2>2
    <2>4. meta.user => meta'.mount = meta.mount
      BY <2>1, <2>2
    <2>5. meta.creator # NoUid => meta'.creator = meta.creator
      BY <2>2 DEF creatorAfter
    <2>6. ~meta.user => ~meta'.user
      BY <2>1, <2>2
    <2>7. QED  BY <2>3, <2>4, <2>5, <2>6
  <1>3. ASSUME NEW p \in Proc, clearDraftMeta(p) \/ Confirm(p)
        PROVE  /\ meta'.creator = meta.creator /\ meta'.user = meta.user
               /\ meta'.space = meta.space /\ meta'.mount = meta.mount
    BY <1>0, <1>3 DEF clearDraftMeta, Confirm, MetaType
  <1>4. ASSUME NEW p \in Proc, deleteMeta(p)
        PROVE  FALSE
    BY <1>4 DEF deleteMeta, NoMeta
  <1>5. ASSUME NEW p \in Proc, Ask(p) \/ Step(p) \/ Fail(p),
               ~(upsertMeta(p) \/ setDraftMeta(p) \/ clearDraftMeta(p) \/ Confirm(p)
                 \/ deleteMeta(p))
        PROVE  meta' = meta
    <2>1. CASE \/ Ask(p) \/ Comment(p) \/ Upload(p)
               \/ Register(p) \/ Confirm(p) \/ Unregister(p) \/ Fail(p)
      BY <1>5, <2>1, QuietStep
    <2>2. CASE Publish(p) \/ ReplaceElement(p) \/ Promote(p) \/ SaveDraft(p) \/ Remove(p)
      BY <2>2, Entry DEF stores
    <2>3. CASE PutDoc(p) \/ PublishMerge(p) \/ DeleteDraft(p) \/ PutDraft(p)
               \/ deleteDoc(p) \/ deleteRows(p) \/ wipe(p)
      BY <2>3 DEF PutDoc, PublishMerge, DeleteDraft, PutDraft, deleteDoc, deleteRows, wipe
    <2>4. QED  BY <1>5, <2>1, <2>2, <2>3 DEF Step
  <1>6. QED  BY <1>1, <1>2, <1>3, <1>4, <1>5 DEF Next, vars, stores

\* Creator, kind, space and mount are settled for as long as the document
\* exists (doc.go:360-473, upsertMeta, setDraftMeta).
THEOREM IdentityIsKept == Spec => IdentityKept
  <1>1. Ground /\ Identity /\ [Next]_vars =>
           [meta.stored /\ meta'.stored =>
             /\ meta.creator # NoUid => meta'.creator = meta.creator
             /\ meta.user <=> meta'.user
             /\ meta.user => meta'.space = meta.space /\ meta'.mount = meta.mount]_vars
    <2>1. ASSUME Ground, Identity, [Next]_vars, meta.stored, meta'.stored
          PROVE  meta.user <=> meta'.user
      BY <2>1, IdentityStep
    <2>2. QED  BY <2>1, IdentityStep
  <1>2. QED
    BY <1>1, InitIdentity, StepIdentity, GroundInvariant, PTL DEF Spec, IdentityKept
-------------------------------------------------------------------------------
LEMMA InitRegistration == Init => Registration
  <1>1. Init => meta.state = ""
    <2>1. NoMeta.state = ""
      BY DEF NoMeta
    <2>2. [NoMeta EXCEPT !.stored = TRUE, !.versions = {1} \cap Version].state = ""
      BY DEF NoMeta
    <2>3. QED  BY <2>1, <2>2 DEF Init
  <1>2. Init => \A p \in Proc : pc[p] = "idle"
    BY DEF Init
  <1>3. Init => ~attempted
    BY DEF Init
  <1>4. QED
    BY <1>1, <1>2, <1>3 DEF Registration, RegistrationOf, RegistrationIsCurrent, OnRecord

\* The parts of Registration that speak of no single request.
Records ==
    /\ RegistrationIsCurrent
    /\ OnRecord => meta.stored /\ meta.user
    /\ meta.state = "pending" => meta.regVersion = committed
    /\ attempted => OnRecord

\* The other requests keep their part, as long as no step takes a registration
\* off the record.
LEMMA OthersRegistration ==
    ASSUME Ground, Registration, NEW p \in Proc, Ask(p) \/ Step(p) \/ Fail(p),
           OnRecord => OnRecord', attempted => attempted'
    PROVE  \A q \in Proc : q # p => RegistrationOf(q)'
  <1> SUFFICES ASSUME NEW q \in Proc, q # p PROVE RegistrationOf(q)'
    OBVIOUS
  <1>1. pc'[q] = pc[q] /\ in'[q] = in[q]
    BY OthersStay
  <1>2. pc[q] \in Inside => meta' = meta
    BY OnlyTheHolderWrites
  <1>3. QED  BY <1>1, <1>2 DEF Registration, RegistrationOf, Removable, Inside

\* The steps that touch neither the metadata nor what has been attempted.
LEMMA RegistrationApart ==
    ASSUME Ground, Registration, NEW p \in Proc,
           \/ Ask(p) \/ Comment(p) \/ Upload(p) \/ Unregister(p) \/ Fail(p)
           \/ Publish(p) \/ ReplaceElement(p) \/ Promote(p) \/ SaveDraft(p) \/ Remove(p)
           \/ PutDoc(p) \/ PublishMerge(p) \/ DeleteDraft(p) \/ PutDraft(p)
           \/ deleteDoc(p) \/ deleteRows(p) \/ wipe(p)
    PROVE  /\ Records' /\ (OnRecord => OnRecord') /\ (attempted => attempted')
           /\ RegistrationOf(p)'
  <1>1. meta' = meta /\ UNCHANGED <<committed, attempted>>
    <2>1. CASE Ask(p) \/ Comment(p) \/ Upload(p) \/ Unregister(p) \/ Fail(p)
      BY <2>1 DEF Ask, Comment, Upload, Unregister, Fail, stores, history
    <2>2. CASE Publish(p) \/ ReplaceElement(p) \/ Promote(p) \/ SaveDraft(p) \/ Remove(p)
      BY <2>2, Entry DEF stores, history
    <2>3. CASE \/ PutDoc(p) \/ PublishMerge(p) \/ DeleteDraft(p) \/ PutDraft(p)
               \/ deleteDoc(p) \/ deleteRows(p) \/ wipe(p)
      BY <2>3 DEF PutDoc, PublishMerge, DeleteDraft, PutDraft, deleteDoc, deleteRows,
                  wipe, history, Commit
    <2>4. QED  BY <2>1, <2>2, <2>3
  <1>2. Records' /\ (OnRecord' <=> OnRecord) /\ (Removable' <=> Removable)
    BY <1>1 DEF Registration, Records, RegistrationIsCurrent, OnRecord, Removable
  <1>3. RegistrationOf(p)'
    <2>1. CASE Ask(p)
      BY <2>1 DEF Ask, Ground, TypeOK, RegistrationOf
    <2>2. CASE Comment(p) \/ Upload(p) \/ Unregister(p) \/ Fail(p)
      <3>1. pc'[p] = "idle"
        BY <2>2, GotoSelf DEF Comment, Upload, Unregister, Fail, Steps
      <3>2. QED  BY <3>1 DEF RegistrationOf
    <2>3. CASE Publish(p) \/ ReplaceElement(p) \/ Promote(p) \/ SaveDraft(p)
      BY <2>3, Entry DEF RegistrationOf
    <2>4. CASE Remove(p)
      BY <1>2, <2>4, Entry DEF Remove, RegistrationOf
    <2>5. CASE PutDoc(p) \/ PutDraft(p) \/ wipe(p)
      BY <2>5, Course DEF RegistrationOf
    <2>6. CASE PublishMerge(p) \/ DeleteDraft(p)
      BY <1>2, <2>6, Course DEF PublishMerge, DeleteDraft, Registration, RegistrationOf
    <2>7. CASE deleteDoc(p) \/ deleteRows(p)
      BY <1>2, <2>7, Course DEF deleteDoc, deleteRows, Registration, RegistrationOf
    <2>8. QED  BY <2>1, <2>2, <2>3, <2>4, <2>5, <2>6, <2>7
  <1>4. QED  BY <1>1, <1>2, <1>3

\* A publish of a user document makes it pending for its version, a
\* confirmation of that version registers it, a removal meets no document on
\* record.
LEMMA RegistrationWritten ==
    ASSUME Ground, Identity, Registration, NEW p \in Proc,
           \/ Register(p) \/ Confirm(p) \/ upsertMeta(p) \/ setDraftMeta(p)
           \/ clearDraftMeta(p) \/ deleteMeta(p)
    PROVE  /\ Records' /\ (OnRecord => OnRecord') /\ (attempted => attempted')
           /\ RegistrationOf(p)'
  <1>0. /\ meta \in MetaType /\ in[p] \in RequestType /\ attempted \in BOOLEAN
    BY DEF Ground, TypeOK
  <1>1. CASE Register(p)
    <2>1. meta' = meta /\ committed' = committed /\ attempted' = (attempted \/ in[p].user)
      BY <1>1 DEF Register, stores
    <2>2. in[p].user => OnRecord
      BY <1>1 DEF Register, Registration, RegistrationOf
    <2>3. \/ pc'[p] = "idle"
          \/ pc'[p] = "confirm" /\ in'[p] = in[p] /\ in[p].user
          \/ pc'[p] = "register" /\ in'[p] = in[p]
      BY <1>1, GotoSelf DEF Register, Retry, Steps
    <2>4. RegistrationOf(p)'
      BY <2>1, <2>2, <2>3 DEF RegistrationOf, OnRecord
    <2>5. QED
      BY <2>1, <2>2, <2>4 DEF Registration, Records, RegistrationIsCurrent, OnRecord
  <1>2. CASE Confirm(p)
    <2>1. RegistrationOf(p)'
      BY <1>2, QuietStep DEF RegistrationOf
    <2>2. attempted /\ UNCHANGED <<committed, attempted>>
      BY <1>2 DEF Confirm, history, Registration, RegistrationOf
    <2>3. CASE meta' = meta
      BY <2>1, <2>2, <2>3 DEF Registration, Records, RegistrationIsCurrent, OnRecord
    <2>4. CASE meta' # meta
      <3>1. /\ Awaited(p)
            /\ meta'.state = "registered" /\ meta'.regVersion = meta.regVersion
            /\ meta'.stored = meta.stored /\ meta'.user = meta.user
        BY <1>0, <1>2, <2>4 DEF Confirm, Awaited, MetaType
      <3>2. QED
        BY <2>1, <2>2, <3>1
        DEF Awaited, Registration, Records, RegistrationIsCurrent, OnRecord
    <2>5. QED  BY <2>3, <2>4
  <1>3. CASE upsertMeta(p)
    <2>1. /\ meta'.stored
          /\ meta'.user = (meta.user \/ in[p].user)
          /\ meta'.state = IF in[p].user THEN "pending" ELSE meta.state
          /\ meta'.regVersion = IF in[p].user THEN target[p] ELSE meta.regVersion
          /\ committed' = target[p] /\ attempted' = attempted
      BY <1>0, <1>3 DEF upsertMeta, MetaType
    <2>2. OnRecord => in[p].user
      BY <1>3 DEF upsertMeta, Registration, Identity, IdentityOf
    <2>3. RegistrationOf(p)'
      BY <1>3, <2>1, Course DEF RegistrationOf, OnRecord
    <2>4. Records' /\ (OnRecord => OnRecord')
      BY <1>0, <2>1, <2>2 DEF Registration, Records, RegistrationIsCurrent, OnRecord
    <2>5. QED  BY <2>1, <2>3, <2>4
  <1>4. CASE setDraftMeta(p) \/ clearDraftMeta(p)
    <2>1. /\ meta.stored => meta'.stored
          /\ meta.user => meta'.user
          /\ OnRecord => meta'.state = meta.state
          /\ ~OnRecord => meta'.state \in {meta.state, "local_only"}
          /\ meta'.regVersion = meta.regVersion
          /\ UNCHANGED <<committed, attempted>>
      <3>1. CASE setDraftMeta(p)
        <4>1. OnRecord => meta.stored
          BY DEF Registration
        <4>2. /\ meta'.stored /\ meta'.user = (meta.user \/ in[p].user)
              /\ meta'.state = IF in[p].user /\ ~meta.stored THEN "local_only" ELSE meta.state
              /\ meta'.regVersion = meta.regVersion
              /\ UNCHANGED <<committed, attempted>>
          BY <1>0, <3>1 DEF setDraftMeta, MetaType, history
        <4>3. QED  BY <4>1, <4>2
      <3>2. CASE clearDraftMeta(p)
        BY <1>0, <3>2 DEF clearDraftMeta, MetaType, Commit
      <3>3. QED  BY <1>4, <3>1, <3>2
    <2>2. Records' /\ (OnRecord => OnRecord')
      BY <2>1 DEF Registration, Records, RegistrationIsCurrent, OnRecord
    <2>3. RegistrationOf(p)'
      BY <1>4, <2>2, Course DEF clearDraftMeta, Registration, RegistrationOf
    <2>4. QED  BY <2>1, <2>2, <2>3
  <1>5. CASE deleteMeta(p)
    <2>1. ~OnRecord /\ ~attempted
      BY <1>5 DEF deleteMeta, Registration, RegistrationOf, Removable, OnRecord
    <2>2. meta' = NoMeta /\ ~attempted'
      BY <1>5 DEF deleteMeta
    <2>3. QED
      BY <1>5, <2>1, <2>2, Course
      DEF Records, RegistrationOf, RegistrationIsCurrent, OnRecord, NoMeta
  <1>6. QED  BY <1>1, <1>2, <1>3, <1>4, <1>5

LEMMA StepRegistration == Ground /\ Identity /\ Registration /\ [Next]_vars => Registration'
  <1> SUFFICES ASSUME Ground, Identity, Registration, [Next]_vars PROVE Registration'
    OBVIOUS
  <1>1. CASE UNCHANGED vars
    BY <1>1 DEF vars, stores, history, Registration, RegistrationOf, RegistrationIsCurrent,
                OnRecord, Removable
  <1>2. ASSUME NEW p \in Proc, Ask(p) \/ Step(p) \/ Fail(p) PROVE Registration'
    <2>1. /\ Records' /\ (OnRecord => OnRecord') /\ (attempted => attempted')
          /\ RegistrationOf(p)'
      BY <1>2, RegistrationApart, RegistrationWritten DEF Step
    <2>2. \A q \in Proc : q # p => RegistrationOf(q)'
      BY <1>2, <2>1, OthersRegistration
    <2>3. QED  BY <2>1, <2>2 DEF Registration, Records
  <1>3. QED  BY <1>1, <1>2 DEF Next

LEMMA RegistrationInvariant == Spec => [](Ground /\ Identity /\ Registration)
  <1>1. QED
    BY InitIdentity, StepIdentity, InitRegistration, StepRegistration, GroundInvariant,
       PTL DEF Spec

\* A document is recorded as registered for the version published last only
\* (doc.go:1074-1104): a late confirmation finds another version pending.
THEOREM RegistrationStaysCurrent == Spec => []RegistrationIsCurrent
  <1>1. Registration => RegistrationIsCurrent
    BY DEF Registration
  <1>2. QED  BY <1>1, RegistrationInvariant, PTL

\* No removal runs on a user document whose registration was attempted
\* (doc.go:1022-1044).
THEOREM RemovalIsTwoSided == Spec => []NoOneSidedDelete
  <1>1. Registration => NoOneSidedDelete
    BY DEF Registration, RegistrationOf, NoOneSidedDelete, Removable, OnRecord
  <1>2. QED  BY <1>1, RegistrationInvariant, PTL
-------------------------------------------------------------------------------
LEMMA InitTexts == Init => Texts
  BY DEF Init, Texts, TextOf, AckedVersionsKept, Publishing

\* The acknowledged publishes are on record and stored.
Acked == AckedVersionsKept /\ \A a \in acked : a[2] # NoHtml

\* Nothing acknowledged, stored or on record has changed.
LEMMA AckedStay ==
    ASSUME Texts, UNCHANGED <<blobs, acked>>, meta.versions \subseteq meta'.versions
    PROVE  Acked'
  BY DEF Texts, Acked, AckedVersionsKept

\* A publish enters with a text, and its version is free unless it was named.
LEMMA EnterPublishText ==
    ASSUME Ground, NEW p \in Proc, NEW r \in RequestType, NEW explicit \in Version \cup {0},
           EnterPublish(p, r, explicit), r.html # NoHtml,
           explicit > 0 => r.op = "publish" /\ r.version = explicit
    PROVE  TextOf(p)'
  <1>1. /\ pc'[p] = "putDoc" /\ in'[p] = restore(r, "") /\ UNCHANGED <<blobs, acked>>
        /\ target'[p] = resolveVersion(explicit) /\ target'[p] \in Version
    BY DEF EnterPublish, Enter, Ground, TypeOK, stores, history
  <1>2. in'[p].html = r.html /\ in'[p].op = r.op /\ in'[p].version = r.version
    <2>1. TypeOK /\ "" \in {"", Absent}
      BY DEF Ground
    <2>2. QED  BY <1>1, <2>1, RestoreType
  <1>3. ASSUME Resolved(p)' PROVE blobs'[target'[p]] = NoHtml
    <2>1. ~(explicit > 0)
      BY <1>2, <1>3 DEF Resolved, Version
    <2>2. target'[p] = Latest + 1
      BY <1>1, <2>1 DEF resolveVersion
    <2>3. blobs[Latest + 1] = NoHtml
      BY <1>1, <2>2, NextVersionIsFree DEF Stored
    <2>4. QED  BY <1>1, <2>2, <2>3
  <1>4. QED  BY <1>1, <1>2, <1>3 DEF TextOf, Publishing

\* The entries into the critical section.
LEMMA EntryText ==
    ASSUME Ground, Texts, NEW p \in Proc,
           \/ Publish(p) \/ ReplaceElement(p) \/ Promote(p) \/ SaveDraft(p) \/ Remove(p)
    PROVE  TextOf(p)'
  <1>0. /\ in[p] \in RequestType /\ in[p] \in Request /\ draft \in SUBSET Edit
        /\ in[p].version \in Version \cup {0}
    BY DEF Ground, TypeOK, RequestType, Texts, TextOf, Publish, ReplaceElement, Promote,
           SaveDraft, Remove, Locked
  <1>1. CASE Publish(p)
    <2>1. in[p].html # NoHtml /\ in[p].op = "publish"
      BY <1>0, <1>1, RequestAssumption DEF Publish, Locked
    <2>2. QED  BY <1>0, <1>1, <2>1, EnterPublishText DEF Publish
  <1>2. CASE ReplaceElement(p)
    <2> DEFINE base == resolveReadVersion(in[p].version)
               text == blobs[base] \cup in[p].html
    <2>1. text \in SUBSET Edit /\ text # NoHtml
      BY <1>0, <1>2 DEF ReplaceElement, Stored, Ground, TypeOK, RequestType, NoHtml
    <2>2. /\ existingPublishInput(in[p], text) \in RequestType
          /\ existingPublishInput(in[p], text).html = text
      BY <1>0, <2>1, ExistingInputType DEF Ground
    <2>3. EnterPublish(p, existingPublishInput(in[p], text), 0)
      BY <1>2 DEF ReplaceElement
    <2> HIDE DEF text
    <2>4. 0 \in Version \cup {0} /\ ~(0 > 0)
      OBVIOUS
    <2>5. QED  BY <2>1, <2>2, <2>3, <2>4, EnterPublishText
  <1>3. CASE Promote(p)
    <2>1. /\ existingPublishInput(in[p], draft) \in RequestType
          /\ existingPublishInput(in[p], draft).html = draft
      BY <1>0, ExistingInputType DEF Ground
    <2>2. EnterPublish(p, existingPublishInput(in[p], draft), 0) /\ draft # NoHtml
      BY <1>3 DEF Promote
    <2>3. QED  BY <2>1, <2>2, EnterPublishText
  <1>4. CASE SaveDraft(p)
    <2>1. in[p].html # NoHtml
      BY <1>0, <1>4, RequestAssumption DEF SaveDraft, Locked
    <2>2. restore(in[p], Absent).html = in[p].html
      BY <1>0, RestoreType DEF Ground
    <2>3. in'[p] = restore(in[p], Absent)
      BY <1>4 DEF SaveDraft, Enter, Ground, TypeOK
    <2>4. QED  BY <1>4, <2>1, <2>2, <2>3, Entry DEF TextOf, Publishing
  <1>5. CASE Remove(p)
    BY <1>5, Entry DEF TextOf, Publishing
  <1>6. QED  BY <1>1, <1>2, <1>3, <1>4, <1>5

\* The publish under way takes its place among the acknowledged ones.
LEMMA CommitText ==
    ASSUME Texts, NEW p \in Proc, Commit(p), blobs' = blobs,
           meta.versions \subseteq meta'.versions,
           pc[p] \in Publishing \ {"putDoc", "upsertMeta"}
    PROVE  Acked'
  <1>1. /\ blobs[target[p]] = in[p].html /\ in[p].html # NoHtml
        /\ target[p] \in meta.versions
    BY DEF Texts, TextOf, Publishing
  <1>2. acked' = acked \cup {<<target[p], in[p].html>>}
    BY DEF Commit
  <1>3. QED  BY <1>1, <1>2 DEF Texts, Acked, AckedVersionsKept

\* The store writes.
LEMMA WriteText ==
    ASSUME Ground, Texts, NEW p \in Proc,
           \/ PutDoc(p) \/ upsertMeta(p) \/ PublishMerge(p) \/ DeleteDraft(p)
           \/ clearDraftMeta(p) \/ PutDraft(p) \/ setDraftMeta(p)
           \/ deleteDoc(p) \/ deleteRows(p) \/ deleteMeta(p) \/ wipe(p)
    PROVE  Acked' /\ TextOf(p)'
  <1>0. /\ meta \in MetaType /\ in[p] \in RequestType /\ blobs \in [Version -> SUBSET Edit]
        /\ in[p].version \in Version \cup {0} /\ TextOf(p)
    BY DEF Ground, TypeOK, RequestType, Texts
  <1>1. CASE PutDoc(p)
    <2>1. /\ target[p] \in Version
          /\ blobs' = [blobs EXCEPT ![target[p]] = in[p].html] /\ meta' = meta
      BY <1>1 DEF PutDoc, Ground, Publishing
    <2>2. \A a \in acked' : a \in acked /\ a[1] # target[p]
      <3>1. CASE in[p].op = "publish" /\ in[p].version > 0
        BY <1>1, <3>1 DEF PutDoc
      <3>2. CASE ~(in[p].op = "publish" /\ in[p].version > 0)
        <4>1. Resolved(p)
          BY <1>0, <3>2 DEF Resolved, Version
        <4>2. blobs[target[p]] = NoHtml /\ acked' = acked
          BY <1>0, <1>1, <3>2, <4>1 DEF PutDoc, TextOf
        <4>3. QED  BY <4>2 DEF Texts, AckedVersionsKept
      <3>3. QED  BY <3>1, <3>2
    <2>3. \A a \in acked' : blobs'[a[1]] = blobs[a[1]]
      BY <1>0, <2>1, <2>2
    <2>4. Acked'
      BY <2>1, <2>2, <2>3 DEF Texts, Acked, AckedVersionsKept
    <2>5. pc'[p] = "upsertMeta" /\ in'[p] = in[p] /\ target'[p] = target[p]
      BY <1>1, Course
    <2>6. in[p].html # NoHtml
      BY <1>0, <1>1 DEF PutDoc, TextOf, Publishing
    <2>7. QED  BY <1>0, <2>1, <2>4, <2>5, <2>6 DEF TextOf, Publishing
  <1>2. CASE upsertMeta(p)
    <2>1. /\ meta'.versions = meta.versions \cup {target[p]}
          /\ UNCHANGED <<blobs, acked>>
      BY <1>0, <1>2 DEF upsertMeta, MetaType
    <2>2. pc'[p] = "merge" /\ in'[p] = in[p] /\ target'[p] = target[p]
      BY <1>2, Course
    <2>3. in[p].html # NoHtml /\ blobs[target[p]] = in[p].html
      BY <1>0, <1>2 DEF upsertMeta, TextOf, Publishing
    <2>4. QED  BY <2>1, <2>2, <2>3, AckedStay DEF TextOf, Publishing
  <1>3. CASE PublishMerge(p)
    <2>1. meta' = meta /\ blobs' = blobs
      BY <1>3 DEF PublishMerge
    <2>2. Acked'
      BY <1>3, <2>1, AckedStay, CommitText DEF PublishMerge, Publishing
    <2>3. TextOf(p)'
      BY <1>0, <1>3, <2>1, Course DEF PublishMerge, TextOf, Publishing
    <2>4. QED  BY <2>2, <2>3
  <1>4. CASE DeleteDraft(p)
    <2>1. UNCHANGED <<meta, blobs, acked>>
      BY <1>4 DEF DeleteDraft, history
    <2>2. QED
      BY <1>0, <1>4, <2>1, AckedStay, Course DEF DeleteDraft, TextOf, Publishing
  <1>5. CASE clearDraftMeta(p)
    <2>1. meta'.versions = meta.versions /\ blobs' = blobs
      BY <1>0, <1>5 DEF clearDraftMeta, MetaType
    <2>2. Acked'
      BY <1>5, <2>1, CommitText DEF clearDraftMeta, Publishing
    <2>3. TextOf(p)'
      BY <1>5, Course DEF TextOf, Publishing
    <2>4. QED  BY <2>2, <2>3
  <1>6. CASE PutDraft(p)
    BY <1>6, AckedStay, Course DEF PutDraft, history, TextOf, Publishing
  <1>7. CASE setDraftMeta(p)
    <2>1. meta'.versions = meta.versions /\ UNCHANGED <<blobs, acked>>
      BY <1>0, <1>7 DEF setDraftMeta, MetaType, history
    <2>2. QED  BY <1>7, <2>1, AckedStay, Course DEF TextOf, Publishing
  <1>8. CASE deleteDoc(p)
    <2>1. acked' = {}
      BY <1>8 DEF deleteDoc
    <2>2. QED
      BY <1>8, <2>1, Course DEF Acked, AckedVersionsKept, TextOf, Publishing
  <1>9. CASE deleteRows(p) \/ deleteMeta(p) \/ wipe(p)
    <2>1. acked' = {}
      BY <1>0, <1>9 DEF deleteRows, deleteMeta, wipe, history, TextOf
    <2>2. QED
      BY <1>9, <2>1, Course DEF Acked, AckedVersionsKept, TextOf, Publishing
  <1>10. QED
    BY <1>1, <1>2, <1>3, <1>4, <1>5, <1>6, <1>7, <1>8, <1>9

LEMMA StepTexts == Ground /\ Texts /\ [Next]_vars => Texts'
  <1> SUFFICES ASSUME Ground, Texts, [Next]_vars PROVE Texts'
    OBVIOUS
  <1>1. CASE UNCHANGED vars
    BY <1>1 DEF vars, stores, history, Texts, TextOf, AckedVersionsKept, Resolved
  <1>2. ASSUME NEW p \in Proc, Ask(p) \/ Step(p) \/ Fail(p) PROVE Texts'
    <2>1. ASSUME NEW q \in Proc, q # p PROVE TextOf(q)'
      <3>1. pc'[q] = pc[q] /\ in'[q] = in[q] /\ target'[q] = target[q]
        BY <1>2, <2>1, OthersStay
      <3>2. pc[q] \in Inside => UNCHANGED <<meta, blobs, acked>>
        BY <1>2, <2>1, OnlyTheHolderWrites
      <3>3. TextOf(q)
        BY DEF Texts
      <3>4. QED  BY <3>1, <3>2, <3>3 DEF TextOf, Inside, Publishing, Resolved
    <2>2. Acked' /\ TextOf(p)'
      <3>1. CASE \/ Ask(p) \/ Comment(p) \/ Upload(p)
                 \/ Register(p) \/ Confirm(p) \/ Unregister(p) \/ Fail(p)
        <4>1. meta'.versions = meta.versions
          BY <3>1, QuietStep DEF Confirm, Ground, TypeOK, MetaType
        <4>2. pc'[p] = "queued" => in'[p] \in Request
          <5>1. ASSUME ~Ask(p) PROVE pc'[p] # "queued"
            BY <3>1, <5>1, GotoSelf DEF Comment, Upload, Register, Retry, Confirm,
               Unregister, Fail, Steps
          <5>2. CASE Ask(p)
            BY <5>2 DEF Ask, Ground, TypeOK
          <5>3. QED  BY <5>1, <5>2
        <4>3. QED  BY <3>1, <4>1, <4>2, QuietStep, AckedStay DEF TextOf, Publishing
      <3>2. CASE Publish(p) \/ ReplaceElement(p) \/ Promote(p) \/ SaveDraft(p) \/ Remove(p)
        BY <3>2, Entry, EntryText, AckedStay DEF stores, history
      <3>3. CASE \/ PutDoc(p) \/ upsertMeta(p) \/ PublishMerge(p) \/ DeleteDraft(p)
                 \/ clearDraftMeta(p) \/ PutDraft(p) \/ setDraftMeta(p)
                 \/ deleteDoc(p) \/ deleteRows(p) \/ deleteMeta(p) \/ wipe(p)
        BY <3>3, WriteText
      <3>4. QED  BY <1>2, <3>1, <3>2, <3>3 DEF Step
    <2>3. QED  BY <2>1, <2>2 DEF Texts, Acked
  <1>3. QED  BY <1>1, <1>2 DEF Next

LEMMA TextsInvariant == Spec => [](Ground /\ Texts)
  <1>1. QED  BY InitTexts, StepTexts, GroundInvariant, PTL DEF Spec

\* What was answered with 200 stays stored and on record until it is replaced
\* by name or removed (doc.go:207-277, publishLocked).
THEOREM AcknowledgedPublishesStay == Spec => []AckedVersionsKept
  <1>1. Texts => AckedVersionsKept
    BY DEF Texts
  <1>2. QED  BY <1>1, TextsInvariant, PTL

\* A resolved version overwrites nothing, not even what a publish that failed
\* half-way has left behind (doc.go:1321-1336).
THEOREM ResolvedVersionIsFresh == Spec => AutoVersionIsFresh
  <1>1. Texts =>
           [\A p \in Proc :
              /\ pc[p] = "putDoc" /\ pc'[p] = "upsertMeta"
              /\ in[p].op = "publish" => in[p].version = 0
              => blobs[target[p]] = NoHtml]_vars
    BY DEF Texts, TextOf, Resolved
  <1>2. QED  BY <1>1, TextsInvariant, PTL DEF AutoVersionIsFresh
-------------------------------------------------------------------------------
LEMMA InitSources == Init => Sources
  BY DEF Init, Sources, SourceOf, Publishing

\* Where a publish takes its text from.
LEMMA EntrySource ==
    ASSUME Ground, NEW p \in Proc,
           \/ Publish(p) \/ ReplaceElement(p) \/ Promote(p) \/ SaveDraft(p) \/ Remove(p)
    PROVE  SourceOf(p)'
  <1>0. in[p] \in RequestType /\ draft \in SUBSET Edit /\ TypeOK
    BY DEF Ground, TypeOK
  <1>1. ASSUME NEW r \in RequestType, NEW explicit, EnterPublish(p, r, explicit)
        PROVE  /\ pc'[p] = "putDoc" /\ UNCHANGED <<blobs, draft>>
               /\ in'[p].op = r.op /\ in'[p].html = r.html /\ in'[p].version = r.version
    BY <1>0, <1>1, RestoreType DEF EnterPublish, Enter, TypeOK, stores
  <1>2. CASE Publish(p)
    <2>1. in[p].op = "publish" /\ EnterPublish(p, in[p], in[p].version)
      BY <1>2 DEF Publish, Locked
    <2>2. pc'[p] = "putDoc" /\ in'[p].op = "publish"
      BY <1>0, <1>1, <2>1
    <2>3. QED  BY <2>2 DEF SourceOf
  <1>3. CASE ReplaceElement(p)
    <2> DEFINE base == resolveReadVersion(in[p].version)
               text == blobs[base] \cup in[p].html
               r == existingPublishInput(in[p], text)
    <2>1. in[p].op = "replace" /\ text \in SUBSET Edit /\ EnterPublish(p, r, 0)
      BY <1>0, <1>3 DEF ReplaceElement, Locked, Stored, TypeOK, RequestType
    <2>2. r \in RequestType /\ r.op = "replace" /\ r.html = text /\ r.version = in[p].version
      BY <1>0, <2>1, ExistingInputType
    <2> HIDE DEF r
    <2>3. /\ pc'[p] = "putDoc" /\ UNCHANGED <<blobs, draft>>
          /\ in'[p].op = "replace" /\ in'[p].html = text /\ in'[p].version = in[p].version
      BY <1>1, <2>1, <2>2
    <2>4. in[p].version = 0 => base = Latest
      BY DEF resolveReadVersion
    <2>5. Latest' = Latest
      BY <2>3 DEF Latest, Stored
    <2>6. QED  BY <2>3, <2>4, <2>5 DEF SourceOf
  <1>4. CASE Promote(p)
    <2> DEFINE r == existingPublishInput(in[p], draft)
    <2>1. in[p].op = "promote" /\ EnterPublish(p, r, 0)
      BY <1>4 DEF Promote, Locked
    <2>2. r \in RequestType /\ r.op = "promote" /\ r.html = draft
      BY <1>0, <2>1, ExistingInputType
    <2> HIDE DEF r
    <2>3. pc'[p] = "putDoc" /\ draft' = draft /\ in'[p].op = "promote" /\ in'[p].html = draft
      BY <1>1, <2>1, <2>2
    <2>4. QED  BY <2>3 DEF SourceOf
  <1>5. CASE SaveDraft(p) \/ Remove(p)
    BY <1>5, Entry DEF SourceOf, Publishing
  <1>6. QED  BY <1>2, <1>3, <1>4, <1>5

LEMMA StepSources == Ground /\ Sources /\ [Next]_vars => Sources'
  <1> SUFFICES ASSUME Ground, Sources, [Next]_vars PROVE Sources'
    OBVIOUS
  <1>1. CASE UNCHANGED vars
    BY <1>1 DEF vars, stores, Sources, SourceOf, Stored, Latest
  <1>2. ASSUME NEW p \in Proc, Ask(p) \/ Step(p) \/ Fail(p) PROVE Sources'
    <2>1. ASSUME NEW q \in Proc, q # p PROVE SourceOf(q)'
      <3>1. pc'[q] = pc[q] /\ in'[q] = in[q]
        BY <1>2, <2>1, OthersStay
      <3>2. pc[q] \in Inside => UNCHANGED <<blobs, draft>>
        BY <1>2, <2>1, OnlyTheHolderWrites
      <3>3. pc[q] \in Inside => Stored' = Stored /\ Latest' = Latest
        BY <3>2 DEF Stored, Latest
      <3>4. QED  BY <3>1, <3>2, <3>3 DEF Sources, SourceOf, Inside, Publishing
    <2>2. SourceOf(p)'
      <3>0. SourceOf(p)
        BY DEF Sources
      <3>1. CASE \/ Ask(p) \/ Comment(p) \/ Upload(p)
                 \/ Register(p) \/ Confirm(p) \/ Unregister(p) \/ Fail(p)
        BY <3>1, QuietStep DEF SourceOf, Publishing
      <3>2. CASE Publish(p) \/ ReplaceElement(p) \/ Promote(p) \/ SaveDraft(p) \/ Remove(p)
        BY <3>2, EntrySource
      <3>3. CASE PutDoc(p) \/ upsertMeta(p)
        BY <3>0, <3>3, Course DEF PutDoc, upsertMeta, SourceOf, Publishing
      <3>4. CASE PublishMerge(p)
        <4>1. CASE in[p].op = "promote"
          BY <3>0, <3>4, <4>1, Course DEF PublishMerge, SourceOf, Publishing
        <4>2. CASE in[p].op # "promote"
          <5>1. pc'[p] \in {"idle", "register"}
            BY <3>4, <4>2, GotoSelf DEF PublishMerge, Commit, Leave, Steps
          <5>2. QED  BY <5>1 DEF SourceOf, Publishing
        <4>3. QED  BY <4>1, <4>2
      <3>5. CASE \/ DeleteDraft(p) \/ clearDraftMeta(p) \/ PutDraft(p) \/ setDraftMeta(p)
                 \/ deleteDoc(p) \/ deleteRows(p) \/ deleteMeta(p) \/ wipe(p)
        BY <3>5, Course DEF SourceOf, Publishing
      <3>6. QED  BY <1>2, <3>1, <3>2, <3>3, <3>4, <3>5 DEF Step
    <2>3. QED  BY <2>1, <2>2 DEF Sources
  <1>3. QED  BY <1>1, <1>2 DEF Next

LEMMA SourcesInvariant == Spec => [](Ground /\ Texts /\ Sources)
  <1>1. QED  BY InitSources, StepSources, TextsInvariant, PTL DEF Spec

\* A step that empties the draft slot is the clean-up of the promotion that has
\* published this draft, or part of a removal.
LEMMA DraftStep ==
    ASSUME Ground, Texts, Sources, [Next]_vars, draft # NoHtml, draft' = NoHtml
    PROVE  \/ \E v \in meta.versions : blobs[v] = draft
           \/ \E p \in Proc : pc[p] = "deleteDoc"
  <1>1. PICK p \in Proc : Ask(p) \/ Step(p) \/ Fail(p)
    BY DEF Next, vars, stores
  <1>2. CASE \/ Ask(p) \/ Comment(p) \/ Upload(p)
             \/ Register(p) \/ Confirm(p) \/ Unregister(p) \/ Fail(p)
    BY <1>2, QuietStep
  <1>3. CASE Publish(p) \/ ReplaceElement(p) \/ Promote(p) \/ SaveDraft(p) \/ Remove(p)
    BY <1>3, Entry DEF stores
  <1>4. CASE PutDraft(p)
    BY <1>4 DEF PutDraft, Texts, TextOf
  <1>5. CASE DeleteDraft(p)
    BY <1>5 DEF DeleteDraft, Texts, TextOf, Sources, SourceOf, Publishing
  <1>6. CASE deleteDoc(p)
    BY <1>6 DEF deleteDoc
  <1>7. CASE \/ PutDoc(p) \/ upsertMeta(p) \/ PublishMerge(p) \/ clearDraftMeta(p)
             \/ setDraftMeta(p) \/ deleteRows(p) \/ deleteMeta(p) \/ wipe(p)
    BY <1>7 DEF PutDoc, upsertMeta, PublishMerge, clearDraftMeta, setDraftMeta, deleteRows,
                deleteMeta, wipe
  <1>8. QED  BY <1>1, <1>2, <1>3, <1>4, <1>5, <1>6, <1>7 DEF Step

\* No draft is dropped that was not published (doc.go:857-884).
THEOREM DraftIsKept == Spec => DraftKept
  <1>1. Ground /\ Texts /\ Sources /\ [Next]_vars =>
           [draft # NoHtml /\ draft' = NoHtml =>
              \/ \E v \in meta.versions : blobs[v] = draft
              \/ \E p \in Proc : pc[p] = "deleteDoc"]_vars
    BY DraftStep
  <1>2. QED  BY <1>1, SourcesInvariant, PTL DEF Spec, DraftKept

\* A step that stores a replacement stores the text it has been given.
LEMMA ReplaceStep ==
    ASSUME Ground, Sources, [Next]_vars, NEW p \in Proc,
           pc[p] = "putDoc", pc'[p] = "upsertMeta",
           in[p].op = "replace", in[p].version = 0, Stored # {}
    PROVE  blobs[Latest] \subseteq blobs'[target[p]]
  <1>1. PICK q \in Proc : Ask(q) \/ Step(q) \/ Fail(q)
    BY DEF Next, vars
  <1>2. q = p
    BY <1>1, OthersStay
  <1>3. PutDoc(p)
    <2>1. ~(Ask(p) \/ Comment(p) \/ Upload(p)
            \/ Register(p) \/ Confirm(p) \/ Unregister(p) \/ Fail(p))
      BY QuietStep
    <2>2. ~(Publish(p) \/ ReplaceElement(p) \/ Promote(p) \/ SaveDraft(p) \/ Remove(p))
      BY Entry
    <2>3. QED
      BY <1>1, <1>2, <2>1, <2>2 DEF Step, upsertMeta, PublishMerge, DeleteDraft,
         clearDraftMeta, PutDraft, setDraftMeta, deleteDoc, deleteRows, deleteMeta, wipe
  <1>4. blobs' = [blobs EXCEPT ![target[p]] = in[p].html] /\ target[p] \in Version
    BY <1>3 DEF PutDoc, Ground, Publishing
  <1>5. blobs[Latest] \subseteq in[p].html
    BY DEF Sources, SourceOf
  <1>6. QED  BY <1>4, <1>5 DEF Ground, TypeOK

\* A replacement in the latest version contains everything that was published
\* before it (doc.go:524-617: base read and version chosen under one lock).
THEOREM ReplacementLosesNothing == Spec => NoLostUpdate
  <1>1. Ground /\ Sources /\ [Next]_vars =>
           [\A p \in Proc :
              /\ pc[p] = "putDoc" /\ pc'[p] = "upsertMeta"
              /\ in[p].op = "replace" /\ in[p].version = 0
              /\ Stored # {}
              => blobs[Latest] \subseteq blobs'[target[p]]]_vars
    BY ReplaceStep
  <1>2. QED  BY <1>1, SourcesInvariant, PTL DEF Spec, NoLostUpdate
===============================================================================
