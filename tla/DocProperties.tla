---------------------------- MODULE DocProperties ----------------------------
(***************************************************************************)
(* What a document's life promises: safety, action and liveness            *)
(* properties of DocLifecycle, and the invariants the proofs rest on.      *)
(***************************************************************************)
EXTENDS DocLifecycle

\* A publish that was answered 200 is on record and its text is stored, until
\* the document is removed or a publish names that very version (Publish:
\* "version resolution, the immutable blob write, the version-list bump, and
\* the comment merge must be atomic, or two concurrent publishes ... clobber
\* each other").
AckedVersionsKept ==
    \A a \in acked : blobs[a[1]] = a[2] /\ a[1] \in meta.versions

\* A version number that was resolved, not asked for, is used once: not even
\* the text left behind by a publish that failed half-way is overwritten
\* (resolveVersion counts blobs, not metadata).
AutoVersionIsFresh ==
    [][\A p \in Proc :
         /\ pc[p] = "putDoc" /\ pc'[p] = "upsertMeta"
         /\ in[p].op = "publish" => in[p].version = 0
         => blobs[target[p]] = NoHtml]_vars

\* Replacing an element of the latest version loses nothing that was published
\* before it (ReplaceElement: "it cannot lose an update").
NoLostUpdate ==
    [][\A p \in Proc :
         /\ pc[p] = "putDoc" /\ pc'[p] = "upsertMeta"
         /\ in[p].op = "replace" /\ in[p].version = 0
         /\ Stored # {}
         => blobs[Latest] \subseteq blobs'[target[p]]]_vars

\* A draft leaves its slot only as the text of a published version, or because
\* the document is removed (Promote clears the draft it has published, not one
\* saved meanwhile).
DraftKept ==
    [][draft # NoHtml /\ draft' = NoHtml =>
         \/ \E v \in meta.versions : blobs[v] = draft
         \/ \E p \in Proc : pc[p] = "deleteDoc"]_vars

\* While a document exists its creator is never reassigned and it keeps its kind,
\* and a user-owned document its space and mount (README.md: "Mount/Space
\* provenance is immutable for user-owned documents", "Bot/legacy provenance
\* cannot be converted to user provenance").
IdentityKept ==
    [][meta.stored /\ meta'.stored =>
         /\ meta.creator # NoUid => meta'.creator = meta.creator
         /\ meta.user <=> meta'.user
         /\ meta.user => meta'.space = meta.space /\ meta'.mount = meta.mount]_vars

\* A user document whose registration was attempted is never removed here: the
\* outcome may be ambiguous (README.md: "Once a publish attempts registration,
\* failures remain fail-closed").
NoOneSidedDelete ==
    \A p \in Proc : pc[p] \in {"deleteDoc", "deleteRows", "deleteMeta"}
                        => ~(meta.user /\ attempted)

\* A document is recorded as registered only for the version published last; a
\* late confirmation of an older one changes nothing.
RegistrationIsCurrent ==
    meta.state = "registered" => meta.regVersion = committed /\ attempted

\* A document goes off the record only when no version, draft or asset row is left
\* to resurface under its slug: a removal that fails, at any deletion and however
\* often, leaves what it left to a document that can be removed again (doc.go:1044-1061;
\* docs/ASSETS.md: "so none orphan when a slug is removed or reused").
MetadataGoesLast ==
    [][meta.stored /\ ~meta'.stored =>
         Stored = {} /\ draft = NoHtml /\ rows = {}]_vars

\* The claim of README.md ("Every publish is an immutable version") and of
\* docs/ARCHITECTURE.md ("immutable HTML blob"): the text of a version never
\* changes as long as it exists.
VersionsImmutable ==
    [][\A v \in Version : blobs[v] # NoHtml => blobs'[v] \in {blobs[v], NoHtml}]_vars

\* The claim of RemoveAuthorized (doc.go: "purge them too, or they'd orphan and
\* resurface if the slug is later reused"): a slug without a document and
\* without anybody at work on it has no asset rows.
NoOrphanRows == ~meta.stored /\ holder = NoProc => rows = {}

-------------------------------------------------------------------------------
\* The steps of publishLocked and of the clean-up of Promote.
Publishing == {"putDoc", "upsertMeta", "merge", "deleteDraft", "clearMark"}

\* The version was resolved, not asked for.
Resolved(p) == in[p].op = "publish" => in[p].version = 0

\* A request is inside the critical section exactly while it holds the lock,
\* and knows the version it publishes.
Ground ==
    /\ TypeOK
    /\ \A p \in Proc : pc[p] \in Inside <=> holder = p
    /\ \A p \in Proc : pc[p] \in Publishing \cup {"register", "confirm"}
                         => target[p] \in Version

\* What is stored while a request publishes: nothing under a version it has
\* resolved and not written yet, its text under the one it has written.  A
\* request that waits for the lock is one that clients make.
TextOf(p) ==
    /\ pc[p] = "queued" => in[p] \in Request
    /\ pc[p] \in Publishing \cup {"putDraft"} => in[p].html # NoHtml
    /\ pc[p] = "putDoc" /\ Resolved(p) => blobs[target[p]] = NoHtml
    /\ pc[p] \in Publishing \ {"putDoc"} => blobs[target[p]] = in[p].html
    /\ pc[p] \in Publishing \ {"putDoc", "upsertMeta"} => target[p] \in meta.versions
    /\ pc[p] \in {"deleteRows", "deleteMeta", "wipe"} => acked = {}

Texts ==
    /\ AckedVersionsKept
    /\ \A a \in acked : a[2] # NoHtml
    /\ \A p \in Proc : TextOf(p)

\* The text that Promote publishes is the draft, the one ReplaceElement
\* publishes contains the latest version.
SourceOf(p) ==
    /\ pc[p] \in Publishing \ {"clearMark"} /\ in[p].op = "promote" => in[p].html = draft
    /\ pc[p] = "deleteDraft" => in[p].op = "promote"
    /\ pc[p] = "putDoc" /\ in[p].op = "replace" /\ in[p].version = 0 /\ Stored # {}
          => blobs[Latest] \subseteq in[p].html

Sources == \A p \in Proc : SourceOf(p)

\* A request that is about to write the metadata brings the identity on record.
IdentityOf(p) ==
    pc[p] \in {"putDoc", "upsertMeta", "putDraft", "setDraftMeta"} /\ meta.stored =>
       /\ in[p].user = meta.user
       /\ meta.user => in[p].space = meta.space /\ in[p].mount = meta.mount

Identity == \A p \in Proc : IdentityOf(p)

\* A registration, attempted or about to be, is on record as pending or
\* registered, and such a document is not removed.
OnRecord == meta.state \in {"pending", "registered"}

RegistrationOf(p) ==
    /\ pc[p] = "confirm" => in[p].user /\ attempted
    /\ pc[p] \in {"merge", "deleteDraft", "clearMark", "register"} /\ in[p].user => OnRecord
    /\ pc[p] \in {"deleteDoc", "deleteRows", "deleteMeta"} => Removable

Registration ==
    /\ RegistrationIsCurrent
    /\ OnRecord => meta.stored /\ meta.user
    /\ meta.state = "pending" => meta.regVersion = committed
    /\ attempted => OnRecord
    /\ \A p \in Proc : RegistrationOf(p)

\* What Remove has purged stays purged until it is done.
PurgeOf(p) ==
    /\ pc[p] \in {"deleteRows", "deleteMeta", "wipe"} => Stored = {} /\ draft = NoHtml
    /\ pc[p] \in {"deleteMeta", "wipe"} => rows = {}
    /\ pc[p] = "wipe" => meta = NoMeta

Purge == \A p \in Proc : PurgeOf(p)

-------------------------------------------------------------------------------
\* Requests are scheduled, stores answer, and the lock is granted to everyone
\* who keeps asking for it (SlugLock: NoStarvation).
Fairness == \A p \in Proc : WF_vars(Step(p)) /\ SF_vars(Confirm(p))

FairSpec == Spec /\ Fairness

\* Nobody keeps the slug's lock: no path inside it waits for the lock itself
\* (publishLocked: "never re-acquires the lock").
LockIsReleased == \A p \in Proc : holder = p ~> holder # p

\* Registration ends, by its bounded retries or by the record of its outcome
\* (docs/ARCHITECTURE.md: "bounded idempotent retries").
RegistrationEnds == \A p \in Proc : pc[p] = "register" ~> pc[p] = "idle"
===============================================================================
