----------------------------- MODULE DocLifecycle -----------------------------
(***************************************************************************)
(* The life of one document slug: internal/service/doc.go.                 *)
(*                                                                         *)
(* Publish, ReplaceElement, SaveDraft, Promote and Remove run under the    *)
(* per-slug lock; each writes the blob store, the metadata store and the   *)
(* comment store one after the other, with no transaction around them.     *)
(* Registration in docs-backend runs after the lock is released and takes  *)
(* it again to record the outcome.                                         *)
(*                                                                         *)
(* Atomicity: one step per store write.  Reads are made under the lock and *)
(* every writer of these records holds it, so they belong to the step of   *)
(* the write that follows.  Between two writes the request may fail (a     *)
(* store error, a cancelled context) or its server may crash: Fail.  The   *)
(* lock is the promise that SlugLock implements: holder.                   *)
(*                                                                         *)
(* Document text is a non-empty set of edits, so that a text that builds   *)
(* on another one contains it.                                             *)
(***************************************************************************)
EXTENDS Integers, FiniteSets

CONSTANTS
    Proc,        \* HTTP requests in flight
    Uid,         \* users a document can belong to
    Space,       \* spaces
    Edit,        \* identities of pieces of text
    Asset,       \* asset hashes
    MaxVersion,  \* bound on version numbers
    Request,     \* the requests clients make
    Attempts,    \* docsBackendRegisterAttempts
    NoProc       \* the lock is free

NoUid   == "no uid"
NoSpace == "no space"
Absent  == "absent"                      \* the mount_type key is not there
Mount   == {"", "space", "group"}        \* normalized mount types
Version == 1 .. MaxVersion
NoHtml  == {}                            \* no object: PutDoc never stores ""

Op == {"publish", "replace", "draft", "promote", "remove", "comment", "upload"}

\* version: an explicit version, 0 to take the next one; for replace, the
\* base_version, 0 for the latest.
RequestType ==
    [op: Op, html: SUBSET Edit, version: Version \cup {0}, user: BOOLEAN,
     uid: Uid \cup {NoUid}, space: Space \cup {NoSpace},
     mount: Mount \cup {Absent}]

\* The variables of a request that is not running.
NoInput == [op |-> "publish", html |-> NoHtml, version |-> 0, user |-> FALSE,
            uid |-> NoUid, space |-> NoSpace, mount |-> Absent]

ASSUME ProcAssumption == NoProc \notin Proc
ASSUME VersionAssumption == MaxVersion \in Nat /\ Attempts \in Nat \ {0}
ASSUME NameAssumption == NoUid \notin Uid /\ NoSpace \notin Space
\* PublishAuthorized and SaveDraftWithProvenance: a user request has a space
\* and the mount "space", only a publish names a version; "" is not text.
ASSUME RequestAssumption ==
    /\ Request \subseteq RequestType
    /\ \A r \in Request :
          /\ r.uid # NoUid
          /\ IF r.user THEN r.space \in Space /\ r.mount = "space"
                       ELSE r.space = NoSpace
          /\ r.op \in {"publish", "replace", "draft"} => r.html # NoHtml
          /\ r.op \notin {"publish", "replace"} => r.version = 0

VARIABLES
    meta,      \* MetadataStore: the DocMeta of the slug
    blobs,     \* BlobStore: the text of every version
    draft,     \* BlobStore: the draft slot
    rows,      \* MetadataStore: hashes of the asset rows of the slug
    comments,  \* MetadataStore: the slug has a comment log
    backend,   \* docs-backend: the slug has a row there
    holder,    \* the request inside the per-slug lock
    pc,        \* where each request is
    in,        \* its PublishInput
    target,    \* its resolved version
    tries,     \* its registration attempts
    acked,     \* history: the publishes answered 200, as <<version, text>>
    committed, \* history: the version of the last upsertMeta
    attempted  \* history: a user registration was attempted for this meta

stores  == <<meta, blobs, draft, rows, comments>>
history == <<acked, committed, attempted>>
vars    == <<stores, backend, holder, pc, in, target, tries, history>>

MetaType ==
    [stored: BOOLEAN, versions: SUBSET Version, creator: Uid \cup {NoUid},
     user: BOOLEAN, space: Space \cup {NoSpace}, mount: Mount \cup {Absent},
     marked: BOOLEAN, state: {"", "local_only", "pending", "registered"},
     docID: BOOLEAN, regVersion: Version \cup {0}]

\* What the nil-safe accessors of DocMeta return for a slug without metadata.
NoMeta ==
    [stored |-> FALSE, versions |-> {}, creator |-> NoUid, user |-> FALSE,
     space |-> NoSpace, mount |-> Absent, marked |-> FALSE, state |-> "",
     docID |-> FALSE, regVersion |-> 0]

Steps == {"idle", "queued", "putDoc", "upsertMeta", "merge", "deleteDraft",
          "clearMark", "register", "confirm", "putDraft", "setDraftMeta",
          "deleteDoc", "deleteRows", "deleteMeta", "wipe", "unregister"}

\* The steps made inside lock.With.
Inside == {"putDoc", "upsertMeta", "merge", "deleteDraft", "clearMark",
           "putDraft", "setDraftMeta", "deleteDoc", "deleteRows",
           "deleteMeta", "wipe"}

TypeOK ==
    /\ meta \in MetaType
    /\ blobs \in [Version -> SUBSET Edit]
    /\ draft \in SUBSET Edit
    /\ rows \in SUBSET Asset
    /\ comments \in BOOLEAN
    /\ backend \in BOOLEAN
    /\ holder \in Proc \cup {NoProc}
    /\ pc \in [Proc -> Steps]
    /\ in \in [Proc -> RequestType]
    /\ target \in [Proc -> Version \cup {0}]
    /\ tries \in [Proc -> 0 .. (Attempts - 1)]
    /\ acked \in SUBSET (Version \X SUBSET Edit)
    /\ committed \in Version \cup {0}
    /\ attempted \in BOOLEAN

Stored == {v \in Version : blobs[v] # NoHtml}

\* max over blobs.ListVersions, 0 when there is none.
Latest == CHOOSE n \in Stored \cup {0} : \A v \in Stored : v =< n

\* A slug nobody wrote, or a document from before creators and mounts.
Init ==
    /\ meta \in {NoMeta,
                 [NoMeta EXCEPT !.stored = TRUE, !.versions = {1} \cap Version]}
    /\ \E text \in SUBSET Edit \ {NoHtml} :
          blobs = [v \in Version |-> IF v \in meta.versions THEN text ELSE NoHtml]
    /\ draft = NoHtml /\ rows = {} /\ comments = FALSE /\ backend = FALSE
    /\ holder = NoProc
    /\ pc = [p \in Proc |-> "idle"]
    /\ in = [p \in Proc |-> NoInput]
    /\ target = [p \in Proc |-> 0]
    /\ tries = [p \in Proc |-> 0]
    /\ acked = {} /\ committed = 0 /\ attempted = FALSE

-------------------------------------------------------------------------------
\* slugExists
slugExists == meta.stored \/ Stored # {} \/ draft # NoHtml

\* A publish or a draft for a user document must fit the identity on record;
\* a user request cannot take over another kind of document.  (A stored user
\* document always has its mount.)
Admits(r) ==
    IF ~meta.stored THEN r.user => ~slugExists
    ELSE IF ~meta.user THEN ~r.user
    ELSE /\ meta.creator # NoUid
         /\ r.space \in {NoSpace, meta.space}
         /\ r.mount \in {Absent, "", meta.mount}

\* restoreLegacyMount: a document that no user owns may be moved, and keeps its
\* mount when the request names none.
restoreLegacyMount(asked, kept) ==
    IF asked \notin {Absent, ""} THEN asked
    ELSE IF kept \notin {Absent, ""} \/ asked = Absent THEN kept ELSE ""

\* (Mutant: the space on record is not restored.)
restoreWithoutSpace(r, unset) ==
    IF meta.stored /\ meta.user
    THEN [r EXCEPT !.user = TRUE, !.mount = meta.mount, !.uid = meta.creator]
    ELSE [r EXCEPT !.mount = IF r.mount = Absent THEN unset ELSE r.mount]

\* restoreMountContext and prepareDraftProvenance: the input with the identity
\* on record; unset is the mount of a new document when the request has none.
restore(r, unset) ==
    IF ~meta.stored
    THEN [r EXCEPT !.mount = IF r.mount = Absent THEN unset ELSE r.mount]
    ELSE IF meta.user
    THEN [r EXCEPT !.user = TRUE, !.space = meta.space, !.mount = meta.mount,
                   !.uid = meta.creator]
    ELSE [r EXCEPT !.mount = restoreLegacyMount(r.mount, meta.mount),
                   !.uid = IF meta.creator = NoUid THEN r.uid ELSE meta.creator]

\* existingPublishInput: Promote and ReplaceElement publish as the document.
existingPublishInput(r, text) ==
    [r EXCEPT !.html = text, !.user = meta.user, !.space = meta.space,
              !.mount = meta.mount, !.uid = meta.creator]

\* (Mutant: the next version counts the metadata.)
resolveVersionFromMeta(explicit) ==
    IF explicit > 0 THEN explicit
    ELSE 1 + CHOOSE n \in meta.versions \cup {0} : \A v \in meta.versions : v =< n

resolveVersion(explicit) == IF explicit > 0 THEN explicit ELSE Latest + 1

resolveReadVersion(explicit) == IF explicit > 0 THEN explicit ELSE Latest

\* The request p goes to step; its variables end with it.
Goto(p, step) ==
    /\ pc' = [pc EXCEPT ![p] = step]
    /\ IF step # "idle" THEN UNCHANGED <<in, target, tries>>
       ELSE /\ in' = [in EXCEPT ![p] = NoInput]
            /\ target' = [target EXCEPT ![p] = 0]
            /\ tries' = [tries EXCEPT ![p] = 0]

\* (Mutant: afterPublished runs inside lock.With.)
LeaveLate(p, step) ==
    /\ holder' = IF step = "idle" THEN NoProc ELSE holder
    /\ Goto(p, step)

\* The same inside the critical section, which ends with it.
Leave(p, step) == holder' = NoProc /\ Goto(p, step)

\* The gates in front of the handlers read the metadata before the lock is
\* taken: comments and uploads need a document.
Ask(p) ==
    /\ pc[p] = "idle"
    /\ \E r \in Request :
          /\ r.op \in {"comment", "upload"} => meta.stored
          /\ in' = [in EXCEPT ![p] = r]
    /\ pc' = [pc EXCEPT ![p] = "queued"]
    /\ UNCHANGED <<stores, backend, holder, target, tries, history>>

\* (Mutant: the lock is not taken.)
Unlocked(p, op) == pc[p] = "queued" /\ in[p].op = op

\* lock.With: nobody else is inside the slug's critical section.
Locked(p, op) == pc[p] = "queued" /\ in[p].op = op /\ holder = NoProc

\* The request p enters with input r and continues at step.
Enter(p, r, step) ==
    /\ holder' = p
    /\ in' = [in EXCEPT ![p] = r]
    /\ pc' = [pc EXCEPT ![p] = step]

\* publishLocked up to the first write.
EnterPublish(p, r, explicit) ==
    /\ Admits(r)
    /\ resolveVersion(explicit) \in Version
    /\ target' = [target EXCEPT ![p] = resolveVersion(explicit)]
    /\ Enter(p, restore(r, ""), "putDoc")
    /\ UNCHANGED <<stores, backend, tries, history>>

Publish(p) ==
    /\ Locked(p, "publish")
    /\ EnterPublish(p, in[p], in[p].version)

\* The base is read and the new version chosen under one lock.
ReplaceElement(p) ==
    /\ Locked(p, "replace")
    /\ meta.stored
    /\ LET base == resolveReadVersion(in[p].version)
       IN  /\ base \in Stored
           /\ EnterPublish(p, existingPublishInput(in[p], blobs[base] \cup in[p].html), 0)

Promote(p) ==
    /\ Locked(p, "promote")
    /\ meta.stored
    /\ draft # NoHtml
    /\ EnterPublish(p, existingPublishInput(in[p], draft), 0)

SaveDraft(p) ==
    /\ Locked(p, "draft")
    /\ Admits(in[p])
    /\ Enter(p, restore(in[p], Absent), "putDraft")
    /\ UNCHANGED <<stores, backend, target, tries, history>>

\* (Mutant: an unconfirmed registration does not count.)
RemovableUnconfirmed == meta.user => ~meta.docID

\* A user document is removed locally only when it was never registered.
Removable == meta.user => meta.state = "local_only" /\ ~meta.docID

Remove(p) ==
    /\ Locked(p, "remove")
    /\ Removable
    /\ Enter(p, [in[p] EXCEPT !.user = meta.user], "deleteDoc")
    /\ UNCHANGED <<stores, backend, target, tries, history>>

\* CommentService.mutate and AssetService.Put, as far as Remove is concerned:
\* neither looks at the metadata again.
Comment(p) ==
    /\ Locked(p, "comment")
    /\ comments' = TRUE
    /\ Goto(p, "idle")
    /\ UNCHANGED <<meta, blobs, draft, rows, backend, holder, history>>

Upload(p) ==
    /\ Locked(p, "upload")
    /\ \E a \in Asset : rows' = rows \cup {a}
    /\ Goto(p, "idle")
    /\ UNCHANGED <<meta, blobs, draft, comments, backend, holder, history>>

-------------------------------------------------------------------------------
\* The store writes of publishLocked.
PutDoc(p) ==
    /\ pc[p] = "putDoc"
    /\ Goto(p, "upsertMeta")
    /\ blobs' = [blobs EXCEPT ![target[p]] = in[p].html]
    /\ acked' = IF in[p].op = "publish" /\ in[p].version > 0
                THEN {a \in acked : a[1] # target[p]} ELSE acked
    /\ UNCHANGED <<meta, draft, rows, comments, backend, holder, committed, attempted>>

\* The creator is stamped on first create only.
creatorAfter(uid) == IF meta.creator = NoUid THEN uid ELSE meta.creator

upsertMeta(p) ==
    /\ pc[p] = "upsertMeta"
    /\ Goto(p, "merge")
    /\ meta' =
         [meta EXCEPT
            !.stored = TRUE,
            !.versions = meta.versions \cup {target[p]},
            !.creator = creatorAfter(in[p].uid),
            !.mount = IF in[p].mount = Absent THEN meta.mount ELSE in[p].mount,
            !.user = meta.user \/ in[p].user,
            !.space = IF in[p].user THEN in[p].space ELSE meta.space,
            !.state = IF in[p].user THEN "pending" ELSE meta.state,
            !.regVersion = IF in[p].user THEN target[p] ELSE meta.regVersion]
    /\ committed' = target[p]
    /\ UNCHANGED <<blobs, draft, rows, comments, backend, holder, acked, attempted>>

\* fn has returned without error: the lock is free, the publish is answered,
\* and afterPublished registers a mounted document.
Commit(p) ==
    /\ acked' = acked \cup {<<target[p], in[p].html>>}
    /\ Leave(p, IF in[p].mount \in {Absent, ""} THEN "idle" ELSE "register")

\* PublishMergeWithMigrationsLocked; the request may bring local comments.
PublishMerge(p) ==
    /\ pc[p] = "merge"
    /\ comments' \in {comments, TRUE}
    /\ IF in[p].op = "promote" THEN Goto(p, "deleteDraft") /\ UNCHANGED <<holder, acked>>
                               ELSE Commit(p)
    /\ UNCHANGED <<meta, blobs, draft, rows, backend, committed, attempted>>

\* The clean-up of Promote is best effort.
DeleteDraft(p) ==
    /\ pc[p] = "deleteDraft"
    /\ Goto(p, "clearMark")
    /\ draft' \in {draft, NoHtml}
    /\ UNCHANGED <<meta, blobs, rows, comments, backend, holder, history>>

clearDraftMeta(p) ==
    /\ pc[p] = "clearMark"
    /\ meta' \in {meta, [meta EXCEPT !.marked = FALSE]}
    /\ Commit(p)
    /\ UNCHANGED <<blobs, draft, rows, comments, backend, committed, attempted>>

-------------------------------------------------------------------------------
\* The store writes of SaveDraft.
PutDraft(p) ==
    /\ pc[p] = "putDraft"
    /\ Goto(p, "setDraftMeta")
    /\ draft' = in[p].html
    /\ UNCHANGED <<meta, blobs, rows, comments, backend, holder, history>>

setDraftMeta(p) ==
    /\ pc[p] = "setDraftMeta"
    /\ Leave(p, "idle")
    /\ meta' =
         [meta EXCEPT
            !.stored = TRUE,
            !.marked = TRUE,
            !.creator = creatorAfter(in[p].uid),
            !.mount = IF in[p].mount = Absent THEN meta.mount ELSE in[p].mount,
            !.user = meta.user \/ in[p].user,
            !.space = IF in[p].user THEN in[p].space ELSE meta.space,
            !.state = IF in[p].user /\ ~meta.stored THEN "local_only" ELSE meta.state]
    /\ UNCHANGED <<blobs, draft, rows, comments, backend, history>>

-------------------------------------------------------------------------------
\* The store writes of Remove.  DeleteDoc removes versions, draft and asset
\* bytes batch by batch: when it fails, some are left.
deleteDoc(p) ==
    /\ pc[p] = "deleteDoc"
    /\ \/ /\ Goto(p, "deleteRows")
          /\ blobs' = [v \in Version |-> NoHtml]
          /\ draft' = NoHtml
          /\ UNCHANGED holder
       \/ /\ Leave(p, "idle")
          /\ \E left \in SUBSET Version :
                blobs' = [v \in Version |-> IF v \in left THEN blobs[v] ELSE NoHtml]
          /\ draft' \in {draft, NoHtml}
    /\ acked' = {}
    /\ UNCHANGED <<meta, rows, comments, backend, committed, attempted>>

\* (Mutant: a row that cannot be deleted is passed over.)
deleteRowsTolerant(p) ==
    /\ pc[p] = "deleteRows"
    /\ Goto(p, "deleteMeta")
    /\ rows' \in SUBSET rows
    /\ UNCHANGED <<meta, blobs, draft, comments, backend, holder, history>>

\* Row by row: the first deletion that fails ends the removal.
deleteRows(p) ==
    /\ pc[p] = "deleteRows"
    /\ \/ /\ Goto(p, "deleteMeta")
          /\ rows' = {}
          /\ UNCHANGED holder
       \/ /\ Leave(p, "idle")
          /\ rows' \in SUBSET rows
    /\ UNCHANGED <<meta, blobs, draft, comments, backend, history>>

deleteMeta(p) ==
    /\ pc[p] = "deleteMeta"
    /\ Goto(p, "wipe")
    /\ meta' = NoMeta
    /\ committed' = 0 /\ attempted' = FALSE
    /\ UNCHANGED <<blobs, draft, rows, comments, backend, holder, acked>>

\* WipeLocked, then afterRemoved for a document that no user owns.
wipe(p) ==
    /\ pc[p] = "wipe"
    /\ Leave(p, IF in[p].user THEN "idle" ELSE "unregister")
    /\ comments' = FALSE
    /\ UNCHANGED <<meta, blobs, draft, rows, backend, history>>

-------------------------------------------------------------------------------
\* (Mutant: the comparison is off by one.)
RetryOnceMore(p) ==
    IF tries[p] < Attempts
    THEN /\ tries' = [tries EXCEPT ![p] = tries[p] + 1]
         /\ UNCHANGED <<pc, in, target>>
    ELSE Goto(p, "idle")

\* (Mutant: the attempts are not counted.)
RetryForever(p) == UNCHANGED <<pc, in, target, tries>>

\* After a failed attempt: the last one ends the request.
Retry(p) ==
    IF tries[p] + 1 < Attempts
    THEN /\ tries' = [tries EXCEPT ![p] = tries[p] + 1]
         /\ UNCHANGED <<pc, in, target>>
    ELSE Goto(p, "idle")

\* One attempt to register.  docs-backend upserts by slug; an attempt that
\* fails or times out may have been applied.
Register(p) ==
    /\ pc[p] = "register"
    /\ attempted' = (attempted \/ in[p].user)
    /\ \/ /\ backend' = TRUE
          /\ Goto(p, IF in[p].user THEN "confirm" ELSE "idle")
       \/ /\ backend' \in {backend, TRUE}
          /\ Retry(p)
    /\ UNCHANGED <<stores, holder, acked, committed>>

\* (Mutant: the version is not compared.)
AwaitedAnyVersion(p) == meta.state = "pending"

\* The registration of p is still the one on record.
Awaited(p) == meta.state = "pending" /\ meta.regVersion = target[p]

\* setDocsBackendRegistrationState, under the lock again.
Confirm(p) ==
    /\ pc[p] = "confirm"
    /\ Goto(p, "idle")
    /\ holder = NoProc
    /\ meta' = IF meta.stored /\ Awaited(p)
               THEN [meta EXCEPT !.state = "registered", !.docID = TRUE,
                                 !.regVersion = target[p]]
               ELSE meta
    /\ UNCHANGED <<blobs, draft, rows, comments, backend, holder, history>>

\* The goroutine of afterRemoved; a failed delete is only logged.
Unregister(p) ==
    /\ pc[p] = "unregister"
    /\ Goto(p, "idle")
    /\ backend' \in {backend, FALSE}
    /\ UNCHANGED <<stores, holder, history>>

\* The request is refused, a store call fails, or the server crashes: the lock
\* is released and nothing is undone.
Fail(p) ==
    /\ pc[p] # "idle"
    /\ Goto(p, "idle")
    /\ holder' = IF holder = p THEN NoProc ELSE holder
    /\ UNCHANGED <<stores, backend, history>>

Step(p) ==
    \/ Publish(p) \/ ReplaceElement(p) \/ Promote(p) \/ SaveDraft(p)
    \/ Remove(p) \/ Comment(p) \/ Upload(p)
    \/ PutDoc(p) \/ upsertMeta(p) \/ PublishMerge(p)
    \/ DeleteDraft(p) \/ clearDraftMeta(p)
    \/ PutDraft(p) \/ setDraftMeta(p)
    \/ deleteDoc(p) \/ deleteRows(p) \/ deleteMeta(p) \/ wipe(p)
    \/ Register(p) \/ Confirm(p) \/ Unregister(p)

Next == \E p \in Proc : Ask(p) \/ Step(p) \/ Fail(p)

Spec == Init /\ [][Next]_vars
===============================================================================
