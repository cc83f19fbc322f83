# A model of octo-docs-html

octo-docs-html publishes self-contained HTML documents under a slug, keeps every
published version, lets reviewers comment on them, stores their media assets,
shares them by grants and links, and registers them in an external service
(docs-backend).  It is a stateless Go server over a metadata store (PostgreSQL or
MySQL) and a blob store (S3).  No transaction spans the two: correctness rests on
one lock per slug and on the order of the writes inside it.

The TLA+ modules here model that core: the lock in both its implementations, the
comment log with its operations and its re-anchoring at publish time, the life of
a document from draft to removal, the assets and their garbage collector, the
grants with the gate that reads them, and the stamper that gives the elements of a
text the identities comments are anchored to.  TLC checks them on small
instances; TLAPS proves the safety properties of the locks, the comments, the document
life cycle, the collector, the grants and the binding cache, and the agreement of the
readers of an open tag, for every value of the constants.
Paths below are relative to `src/`.

## 1. Inventory

| Component | State | Operations | Interacts with |
|---|---|---|---|
| Per-slug lock, in process: `internal/platform/sluglock` | map slug -> entry (mutex, waiter count) | `With(ctx, slug, fn)` | every service |
| Per-slug lock, database: `internal/storage/{postgres,mysql}` | session advisory locks, a lock pool and a query pool | `With` | the same, across instances |
| Comment log: `internal/core/{events,fold,ops,types}.go` | a list of comments, each a list of events | `EventEID`, `DedupEvents`, `AppendEvents`, `FoldComment`, the eight `op...` | comment service |
| Reconciliation: `internal/core/reconcile.go` | none (pure) | `ReconcileComments` | `opPublishMerge` |
| Comment service: `internal/service/comment.go`, `transport/httpx/handlers_{comments,agent}.go` | the comment list of a slug | create, reply, react, re-anchor, delete, wipe, agent answer, publish merge | lock, metadata store, document service |
| Document service: `internal/service/doc.go` | versions and draft (blob store), `DocMeta` (metadata store) | Publish, ReplaceElement, SaveDraft, Promote, Remove, reads | lock, stores, comment service, registration, stamper |
| Registration: `internal/service/doc.go`, `internal/service/docsbackend` | registration state in `DocMeta`, a row in docs-backend | register with retries, confirm, unregister | lock, docs-backend, grants |
| Assets: `internal/service/asset.go` | asset bytes, asset rows | Put, Get, Delete, signed reads | lock, `Remove`, collector |
| Asset collector: `internal/service/gc.go` | none | scan references, delete | lock, texts, drafts |
| Grants, member mirror: `internal/service/{grants,doc_member_mirror}.go` | `meta.grants`, `doc_member` rows | add, remove, reconcile, list | lock, docs-backend |
| Access: `internal/service/capability.go`, `transport/httpx/capability.go` | the share code in `DocMeta` | decide per request, generate, revoke | grants, binding |
| Binding cache: `internal/service/docbinding.go`; identity cache: `internal/service/octoidentity` | answers with a lifetime | resolve | octo-server |
| Artifact stamping: `internal/core/{stamp,cyrb53,render}.go` | none (pure) | stamp, index, replace an element | document service |
| Sign-in, bootstrap: `internal/service/auth.go`, `transport/httpx/*_mw.go` | tokens, sessions | bootstrap, token checks | lock `__bootstrap__` |
| Event webhook: `internal/service/eventwebhook` | none | fire and forget | comment service |
| Stores: `internal/storage` | SQL rows, S3 objects | single calls | every service |
| HTTP server, pages, export, overlay, commands, configuration | none of their own | routing, rendering | all |

The behaviours that are hard:

* **Concurrency.**  Handlers of one slug run at once.  What is read before the
  lock (the version a mutation is stamped with, the access gate, whether the
  document is registered, the references the collector scans) may be stale
  inside it.
* **Partial failure.**  Publish is blob, then metadata, then comments; removal
  is blobs, asset rows, metadata, comments; an asset is bytes, then row; a grant
  is row, then metadata.  Each call may fail and nothing is rolled back; the
  process may die in between.
* **External parties.**  Registration happens after the lock is released, with
  bounded retries, against a service whose answer may be lost.  docs-backend
  registers, deletes and promotes members without our lock; octo-server's
  answers are cached.
* **A log that is deduplicated.**  Event ids are derived from content, so two
  different events may share one; readers fold "as of" any version.
* **Reclamation.**  The lock's map entries are created and deleted while others
  are about to lock them; database sessions outlive the processes that opened
  them; the collector deletes while authors write.
* **Text that comes back.**  A served text is published again.  Several
  hand-written readers walk each tag, and identities are taken out and put in
  next to quotes and slashes.

What makes each component correct is stated by the properties in section 4; the
hazards in `PROJECT.json` list the places where one could bite, including those
no property covers, with the reason.

## 2. Modules

| Module | Models | Uses |
|---|---|---|
| `KeyedLock` | what a `Locker` promises: at most one `fn` per key | |
| `SlugLock` | `sluglock.Memory`, with entries, counts and mutexes | refines `KeyedLock` |
| `AdvisoryLock` | `advisoryLocker` of both databases, with pools and sessions | refines `KeyedLock` |
| `Subsequences` | the loop that keeps some elements of a sequence | |
| `Reconcile` | `core/reconcile.go` as operators | |
| `CommentLog` | `core/events.go`, `fold.go`, `ops.go` as operators | `Reconcile`, `Subsequences` |
| `CommentService` | handlers, `mutate`, `applyOp`, the comment part of a publish | `CommentLog` |
| `CommentProperties` | the properties of comments | `CommentService` |
| `DocLifecycle` | `service/doc.go`: publish, replace, draft, promote, remove, register | |
| `DocProperties` | its properties, fairness and proof invariants | `DocLifecycle` |
| `AssetGC` | `service/asset.go`, `gc.go`, with its properties | |
| `Grants` | `service/grants.go`, `doc_member_mirror.go`, the share code | |
| `GrantProperties` | the properties of grants | `Grants` |
| `Access` | `bestCred`, the gates and `ListGrants` as operators over `Grants`, with their properties | `GrantProperties` |
| `DocBinding` | the cache of `service/docbinding.go`, with its property | |
| `OpenTag` | the readers and writers of one open tag's attributes | `Subsequences` |
| `Stamp` | the scan of a text, identities, the index, element replacement | `OpenTag` |
| `Artifacts` | a text from its author over publishes and replacements | `Stamp` |
| `ArtifactProperties` | the properties of stamping | `Artifacts` |
| `Recursion` | induction, recursion over numbers, subsequences and loops in lockstep, as lemmas | TLAPS |
| `LockProofs` | the theorems about both locks | `SlugLock`, `AdvisoryLock` |
| `CommentProofs` | lemmas about the operators of the log, for logs of any length, and the theorems about comments | `CommentProperties`, `Recursion` |
| `DocProofs`, `AssetProofs` | the theorems about documents and assets | `DocProperties`, `AssetGC` |
| `GrantProofs` | the theorems about grants, access and the binding cache | `Access`, `DocBinding` |
| `TagProofs` | the theorems about the readers and the writers of an open tag, and that every version has such tags | `ArtifactProperties`, `Recursion` |
| `ArtifactProofs` | the theorems about stamping, publishing and editing whole documents | `TagProofs` |
| `MCLocks`, `MCComments`, `MCDoc`, `MCAssets`, `MCGrants`, `MCStamp` | instances for TLC | |

Operators marked *Mutant* (or *A bug*) in a model are never used by its
specification: each is a plausible slip in one definition (a dropped guard, a lock
not taken, an uncounted user).  Substituting it makes the property that
`PROJECT.json` names fail, which shows that the property depends on that line of
the code.

### SlugLock (`internal/platform/sluglock/sluglock.go`)

`locks` is `Memory.locks`, `waiters` and `mu` the fields of an entry, `ref` the
local `e` of `With`, `pc` the place in `With`.  `acquire` and `release` run under
`m.mu`, which is never held across another lock operation, so each is one step
(`AcquireExisting` or `AcquireFresh`; `Release`).  `e.mu.Lock()` may block and is
a step of its own (`LockEntry`); so are the deferred unlock (`UnlockEntry`) and
the deferred release after it.  `AcquireFresh` returns any entry that no one can
reach, including one reclaimed earlier: the garbage collector may hand out the
same memory again.  `With` on a context that is already cancelled returns before
it touches anything and is left out.

### AdvisoryLock (`internal/storage/{postgres,mysql}/advisorylock.go`)

`at` is the place of a caller in `With`: asking its instance's lock pool for a
connection (`conn`), waiting on it for the lock (`wait`), in `fn` and there with a
connection of the query pool (`query`), about to unlock (`done`).  `session` is
the database's: which caller's session holds a lock, that is, a hash of keys
(`advisoryKey`, `advisoryName`).  `GiveUp` is a wait whose context ends, at which
moment the database may just have granted the lock; `Die` is the death of the
caller's process.  In both cases the connection is closed and the database ends
the session in a step of its own (`SessionEnds`, `gone`).  MySQL's rounds of one
second and PostgreSQL's single wait are the same here.

### CommentLog and Reconcile (`internal/core`)

Pure code, written as operators over sequences of records.  A comment is an id,
the version it was created in and its events; an event keeps what the fold and
the deduplication read.  Texts, times, authors' names and page positions are left
out.  An event id is the record of the fields the code concatenates into it, with
the draw for the ids that are unique by a counter: the number of the request that drew
it and which of its draws it is.  Two events share an id here exactly when they share it
in the code.  `SnapshotAt` is the fold at a version, `opPublishMerge` the
merge of local comments followed by reconciliation.

Deduplication drops repeated ids and the fold drops deleted replies with one loop,
`Subsequence` (which the stamper uses as well, for the characters of a tag and the tags
of a text).  Events in the store are stamped (`StampedEvent`); those of a local
comment are stamped by this same code or not at all (`ArrivingEvent`).  The code's
`DedupEvents` also keeps events without an id apart from each other: under
`CommentTypesHold` there are none in the store.

A reply posted to a comment, a reaction to a reply, a verdict and the events an
agent sends are all events of the host comment, as in the code.  The one-time
migration of comments stored before events existed is not modelled.

### CommentService

`handle...` actions accept a request: they resolve the version it stamps from
what is published at that moment, before the lock, which is what
`resolveMutationVersion` does.  `Enter` takes the lock and reads the list; `Write`
applies the operation, stores the list and leaves.  `EnterPublish` and
`PutVersion` are the part of a publish that the comments see: the version is
resolved under the lock and is published before the list is read.  `Fail` is a
store error, a cancelled request or a crash at any point.  `acked` is a history
variable: the events a client was told were stored.

### DocLifecycle (`internal/service/doc.go`)

One slug.  `meta` is its `DocMeta`, `blobs` and `draft` its objects, `rows` its
asset rows, `comments` whether it has a log, `backend` whether docs-backend has a
row for it.  `holder` is the lock, by the promise that `SlugLock` implements.

A request is `Ask`ed, waits (`queued`) and enters with its checks: `Publish`,
`ReplaceElement`, `Promote` and `SaveDraft` compare the identity it brings with
the one on record (`Admits`) and take over what is recorded (`restore`,
`existingPublishInput`); `Remove` needs a document that was never registered
(`Removable`).  Then come the writes, one action each, in the order of the code:

    publish   PutDoc, upsertMeta, PublishMerge [, DeleteDraft, clearDraftMeta]
    draft     PutDraft, setDraftMeta
    remove    deleteDoc, deleteRows, deleteMeta, wipe [, Unregister]
    register  Register (each attempt), Confirm

Reads belong to the step of the write that follows, which is sound because they
are made under the lock and every writer of these records holds it.  `Fail` may
end a request between any two writes, for a store error, a cancelled context or
a crash; the lock is released and nothing is undone.  `deleteDoc` and `deleteRows`
may themselves fail half-way and leave any subset of the objects and of the asset
rows.  An attempt to register may fail and still have been applied.

The text of a document is a non-empty set of edits, so that "replacing an element
of this text" is a union and an update that was lost is visible as a missing
edit.  A store starts empty or with a document from before creators and mounts
existed.

### AssetGC (`internal/service/asset.go`, `gc.go`)

`blob` and `row` are the two halves of an asset, `published` and `draft` what the
texts of a slug name: not the texts, but the places where an address stands in
them (its offset in a run of hex digits and the run's length), because `scanInto`
reads only some windows of a long run.  An upload or a deletion holds the slug's
lock over its two writes.  `gcAssets`, `ListMeta`, `ScanVersions`, `ScanDraft`
are the lock-free first phase, one step per read; `gcSlug`, `NextDoomed`,
`DeleteBlob`, `DeleteRow` the second, under the lock of one slug after the other.
Documents change at any moment in between unless their slug is locked.  `Fail`
ends a request or the whole pass between any two writes.  `settled`, `stale` and
`torn` are histories: what was named, what was due since the pass began, and
which assets a failed deletion has torn.

### Grants, Access, DocBinding

`Grants` is one document.  `grants` and `code` are one metadata row, read and
written whole; `member` is the `doc_member` table, which the transactions of the
mirror change atomically (`UpsertDirectGrant`, `InsertDirectGrantIfAbsent`,
`DeleteGrant`).  `Begin` is the part of a handler before the lock: validation and,
for `AddGrant`, the lookup that chooses the grant's home (the creator is refused only
where a mirror is wired, for a removal always).  Then the request waits
and goes through the steps of its section: `Probe`, `Upsert` or `Delete`, `Read`,
`Insert` per entry for a reconciliation, `Put`.  docs-backend acts between any
two of them (`Register`, `Unmount`, `Promote`), and any store call may fail
(`StoreFails`).  `last` and `lastCode` are histories of what clients were told.

`Access` evaluates `bestCred`, the gate of a page and `ListGrants` over the state
of `Grants`: for every session (a user, a bot of an owner, a super user of any login), the
credentials a browser or client may present, and every answer of octo-server.
Its properties compare them with a table of who deserves what, written without
reference to the order in which the code tries its tiers.

`DocBinding` is the cache in front of octo-server: probes look, ask without a
lock and file what they were told, each for `Ttl` from the moment it files.

### OpenTag, Stamp, Artifacts (`internal/core/stamp.go`)

`OpenTag` is the attribute text of one tag, a sequence of characters; a word the
code looks for is one character.  Each reader of the code is a table of states
(`Tokenizer` for `attrAwareOpenTagEnd`, `SlashTable` for
`terminalSelfCloseSlash`, `WalkTable` for the attribute walkers).  `Stamp` is a
text as a sequence of pieces (tags, text, comment marks): `scanOpenTags` with
raw text, comments, foreign content and its integration points; `Harvest`,
`aidFor`, the pinned identity of a replacement, `stampAids`; `ElementByAID` and
`Replaced`.  An identity is the tuple of what `cyrb53` hashes, so the hash is
injective.  `Artifacts` is the life of one text: an author writes it, it is
published, the served text is published again, an element is replaced by its
identity with the checks of `ReplaceElementAuthorized`.

## 3. Instances and bounds

A *mix* is what the clients of one behaviour ask for.  It is chosen in the initial
state, so that one run covers several small worlds without their product.

* **Locks** (`MCLocks`).  In memory three goroutines, two keys, three entries:
  reclamation goes wrong, if at all, with a holder, a waiter and a newcomer on one
  key; the second key shows that entries are not mixed up, and every entry in use
  has a user, so an entry per goroutine is enough.  In the database two callers in
  one instance and one in another; two of three keys share a hash; a lock pool of
  two and a query pool of one, so that holders queue for queries.
* **Comments** (`MCComments`).  Five mixes: two handlers at once on every kind of
  operation that overlaps (3 requests); one handler through the kinds in any order
  (4); reactions of two users (5); anchors over documents that keep, move, rename,
  double or lose their artifact (3 and 4).  Two versions give an older and a newer
  reader and a version chosen too early.  Numbers `999999` and `1000000` are those
  of the code (the version a deletion of "latest" is stamped with, and
  `VersionLatest`).
* **Documents** (`MCDoc`).  Two requests in flight at a time, any number one after
  the other, two or three version numbers, two registration attempts; mixes of
  publishers with explicit versions, of drafts, of identities, and of comments and
  uploads around a removal (two assets, so that a deletion of rows stops between
  them).  Two requests are every pair of overlapping operations.  A publish beyond
  `MaxVersion` is not taken, which is the only bound on numbers.  Symmetry of the
  two requests is used in the runs without liveness.
* **Assets** (`MCAssets`).  Two slugs, one address, uploaded under one of them and
  named by both; one client beside the collector; a grace period of one and a clock
  of two instants, so that an asset is within it or past it; a run of hex digits
  of the longest length that is read window by window, with the address at its
  end.  Passes, uploads and publishes repeat without bound.
* **Grants** (`MCGrants`).  Three users (the creator, one the requests are about,
  one who only has an old entry), two requests at once or one after the other,
  three in all (`MaxOps`), one failing store call, old metadata with valid,
  unknown and admin entries; one mix runs the binding cache with two probes, a
  lifetime and a timeout of two and six instants.
* **Stamping** (`MCStamp`).  Every text of up to five pieces from eight small
  alphabets (two of one tag character by character, elements in elements, marked
  elements and headings, foreign content, MathML, raw text and comments, and an
  element that is never closed, so that what replaces it decides on the namespace
  of the element after it), every tag of up to seven characters, one replacement by
  one of three fragments.

Deadlock is checked for locks, documents and assets.  `CHECK_DEADLOCK FALSE` is
set for comments, grants and stamping, where a behaviour ends when its requests,
or the text's length, are used up.

Inputs the stamping instance leaves out (`IsDocument`): a tag with a name that
begins with `=`, one that ends where a value is expected, one that closes itself
right after an identity that follows an unquoted value, one whose first attribute is an
identity with the next attribute glued to it (taken out of
`<img data-odoc-aid="x"alt>`, it would leave `<imgalt>`), and one with the name of
the identity inside a value or another name.  The readers of the code disagree about
such tags; the documents say nothing of them.

## 4. What the runs show

| Run | Question and result |
|---|---|
| `keyed_lock` | In memory: with entries created and reclaimed at any moment, at most one goroutine is in `fn` per key, the map holds only entries somebody uses, every caller of `With` gets to run.  In the database: sessions that outlive their process, cancelled waits and hashes that collide never let two callers in, and who waits is served although pools are small.  Both implement `KeyedLock`. |
| `comments_history` | No event that was acknowledged is lost under two handlers, failures, wipes and publishes; ids stay unique although a publish may carry local comments that are known, or carry one twice; readers of earlier versions see no change of content; what is deleted stays deleted; a publish changes nothing but anchors, and no visible anchor points at an artifact that is missing or of another tag, nor stays on one that is doubled; reacting to a reply flips the reaction every time. |
| `comments_toggle` | **Violated**: reacting to a *comment* does not.  See section 7. |
| `doc_safety` | Publishes with and without a number, replacements, drafts, promotions and removals of users and bots, overlapping and failing: acknowledged versions stay, a minted number never overwrites a text (not even one left over by a failed publish), a replacement of the latest version keeps all of it, a draft leaves its slot only as a published text or by a removal, a document goes off the record only when versions, draft and asset rows are gone, whatever removals failed before, identity and kind stay as first recorded, a document is on record as registered for its last version only, and no removal runs once registration was attempted. |
| `doc_live` | The slug's lock is always released and every registration ends, though attempts fail. |
| `doc_immutable` | **Violated**: a version named explicitly is overwritten. |
| `doc_orphans` | **Violated**: an upload can outlive a removal. |
| `assets_gc` | Whatever is published, drafted, promoted, uploaded, deleted and removed during a pass: the collector deletes nothing that its own slug names at that moment or that any version has named since the pass began; a pass that goes through has collected all that was due; what the registry lists can be fetched, unless a deletion of it failed half-way. |
| `grants` | What the last successful request said of a user, or of the share code, is in force until the next; admins are never lowered; reconciliation loses nothing; in every state of the two homes of grants the gate gives each request what its strongest credential deserves, the panel shows what the gate decides, a link leads to the page whatever older cookie there is; the binding cache is stale for its lifetime and one probe at most. |
| `grants_gap` | **Violated**: a grant that waited for the lock through a registration is lost. |
| `stamp` | The readers of a tag agree on its names and on whether it closes; the index of a version is what the page bears; publishing what was served changes nothing; stamping changes no tag into another element and no attribute; a replacement changes the element it names and, where what stands outside is read as before, nothing else. |
| `stamp_replace` | **Violated**: an image replaced by one with an unquoted source before its closing slash gets another source. |

### Fairness

`SlugLock` assumes strong fairness of each goroutine inside `With`: the Go
scheduler runs what can run, `fn` returns, and `sync.Mutex` hands the lock to its
longest waiter once that one has waited for a millisecond (starvation mode), so a
waiter is not overtaken for ever.

`AdvisoryLock` assumes strong fairness of each caller's steps, because both
databases queue the waiters of a lock and both pools those of a connection, and
weak fairness of `SessionEnds`: the database notices a closed connection.
Nothing is assumed of `GiveUp` and `Die`.

`DocLifecycle` assumes weak fairness of each request's steps (stores answer or
fail; the code sets timeouts on docs-backend) and strong fairness of `Confirm`,
which waits for the lock: this is what `NoStarvation` and `LockIsServed` give.
Nothing is assumed of `Ask`, and nothing of `Fail`.

## 5. What is proved

All theorems hold for any number of processes, keys, slugs, users, versions and
texts.  Assumptions on the constants are those declared in the modules and
evaluated by TLC:

* `SlugLock`: `Proc` is finite and does not contain `NoProc`; `NoEntry` is not an
  entry.
* `AdvisoryLock`: every key has a hash; `NoSession` is not a caller.
* `DocLifecycle`: `MaxVersion` is a natural number, `Attempts` a positive one,
  the "nobody" values are distinct from real ones, and requests are those a
  handler can build (`RequestAssumption`: a user's request has a space and the
  mount `space`; only a publish or a replacement names a version; the texts are
  not empty).
* `AssetGC`: the collector is not a client; an address lies within the run of hex
  digits it is a part of; width, grace and clock are natural numbers.
* `Reconcile`, `CommentService`: the words the records are filled with are strings
  (`WordsAssumption`; the provers are not told that a literal is one); the version
  "delete at latest" is stamped with lies above every version and below
  `VersionLatest`; local comments are well formed and do not have an id the server
  or an event number the server will draw, and no reply in them has the id of its comment
  (`LocalsAssumption`: ids are made of the time and a random number on both sides); a
  stamped document's tags are in lower case, as `harvest` writes them.
* `Access`: nobody is not a user.
* `Grants`: the creator is a user; roles asked for and carried by old metadata are
  labels, the unknown one included.
* `DocBinding`: the lifetime is positive, the timeout a natural number.
* `Artifacts`: an author writes pieces whose tags' names end at a space or a slash
  (`WritingAssumption`; anything else would belong to the name, `probeOpenTagName`), and so
  does a client in a fragment (`FragmentAssumption`).

**The in-process lock** (`LockProofs`).  The inductive invariant `IInv` says
that a goroutine's `ref` is the entry its key maps to, that distinct keys have
distinct entries, that `waiters` is the number of users and that an entry's mutex
is held exactly by the one in `fn`.  Mutual exclusion alone is not inductive: it
needs that an entry in use is never deleted, hence exact counts, hence
cardinalities (`FS_AddElement`, `FS_RemoveElement`).  In the refinement of
`KeyedLock`, acquiring is a stutter and locking the entry is the grant.

**The database lock** (`LockProofs`).  Whoever is inside holds the session
of its lock, and a session the database still has to end belongs to a caller that
is outside; so the end of a session never frees a lock under a holder.  Giving up
and dying are withdrawals of the abstract lock.

**Loops** (`Recursion`).  The library's induction rules take a predicate as a
parameter, which the installed provers cannot instantiate.  Stated with a *set* of
numbers they can be used (`Induct`, `InductUpTo`, from the well-foundedness of `<`),
and so can the statement that a recursion whose steps stay in a set defines a
function (`Iterates`).  `Lockstep` compares two loops: their steps bear ids, those with
an id that matters are matched one to one and in the same order, and a relation of the
two values that every matched pair and every unmatched step keeps holds at the end.  All
proofs about folds over a log, and those about readers of a text, rest on these.

**Comments** (`CommentProofs`).  First the pure part, for logs of any length:
`Subsequence` returns the elements at the places it is given, in their order
(`SubsequencePicks`); deduplication therefore keeps exactly the ids of a log
(`DedupKeepsIDs`); sorting by version is a permutation of the deduplicated log,
stable and ordered (`OrderedLog`, over `PlacesAreTaken`, a count of the places); the
fold is defined and its result is a snapshot (`ReplayLoop`); every operation returns
a list that has every comment of the old one at the same place with every event
id it had, and only comments that are new (`ApplyContinues`).  `UniqueIds` and
`NoAckedEventLost` are then conjuncts of `CommentInv`, which adds

1. `CommentTypes`: the list is well formed and every event in it is stamped;
2. `ListIsFresh`: who is about to store holds the lock and what it read is what is
   stored, without which a request would write back a list that lacks the events of
   another;
3. `IdsAreFresh`: ids and event numbers that were drawn by a request under way, or are
   still to be drawn, are not in the list nor among the local comments of a publish that
   waits, since a request draws before it waits for the lock and a publish may overtake it;
4. `RepliesApart`: no reply has the id of its comment, without which a reaction meant for
   the one would reach the other.

`DeletionIsForGood` is an action property over the same invariant: whether a
reader sees a deletion depends on the ids in the log alone, because the id of a
deletion tells its version (`DeletionShows`), and no operation but a wipe loses an id.

The other four compare what a reader saw before a write with what he sees after it, that
is, the folds of two different logs.  `Lockstep` does it: the ids that matter are those a
reader of the version is shown, and what appending, deduplication and sorting do to their
order is known from the lemmas above.

* `PublishingIsNonDestructive`: the logs differ by a re-anchoring of the published
  version and by duplicates.  Compaction keeps the fold as it is (`CompactionIsInvisible`
  and its lemmas); the re-anchoring has a fresh number, so it is matched by nothing.
* `PublishedAnchorsResolve`: the anchor seen after the publish is the one
  `reconcileAnchor` returned, or the old one when it returned none; `RequestsInRange`
  (a version that was resolved is finite) makes the new event visible.
* `ReactingToRepliesToggles`: a reaction to a reply has a fresh number, hence is the
  last event of its version and applied to the state its handler read.
* `PastIsStable`: an event of a later version is not shown, but a *reaction* made again in
  a later version takes the place of the earlier one (finding 1's mechanism), so the two
  folds are not equal.  The relation that is kept is `SameContent`: equal but for
  reactions, with replies alike one by one; a fold of alike values stays alike.

**The document** (`DocProofs`).  The invariant is built in layers, each
inductive next to the ones before it:

1. `Ground`: types; a request is at a step inside the critical section exactly
   while it is the holder; it knows its version once it publishes.  All other
   layers use it in the form "whoever writes is the holder, so everybody else is
   outside".
2. `Purge`: what a removal has deleted so far is still deleted.  `MetadataGoesLast`
   follows, since no step but `deleteMeta` takes a document off the record.
3. `Identity`: a request about to write metadata carries the recorded identity.
4. `Texts`: under the version a request has resolved there is nothing before its
   write and its own text after it; this carries `AckedVersionsKept`.
5. `Sources`: what is promoted is the draft, what replaces contains the latest
   version.
6. `Registration`: an attempted registration is on record as pending or
   registered, for the version committed last.

The lemmas the last step of each argument rests on are that a bounded set of
numbers has a greatest element (`Greatest`, by well-foundedness) and hence that
one more than the latest version is free (`NextVersionIsFree`).

**The collector** (`AssetProofs`).  After types and `Locks` (whoever writes about
an asset is inside its slug's lock): `Safe`, what the collector is about to delete
is neither in what it has scanned nor named by its own slug, which stays true
because that slug is locked; `Scanning`, a place that a version has named since the
pass began is still to be read or its address is found; `Due`, an asset that is due
has no row or its turn is to come; `Stored`, bytes are there before the row.
`Scanning` is where the order of the reads matters: a version outlives a promotion,
so reading it at any time finds what it named, while a draft alone would not.  That
every window of a short run is read is the lemma `ScanFinds`.

**Grants** (`GrantProofs`).  `LastAnswerHolds` is not inductive: between a row's
write and the sweep of the metadata the two homes disagree.  The invariant adds
where each request is (`Places`), that what a locked section has read is what is
stored (`Fresh`), that before the sweep the row is as asked for (`RowIsRight`) and
that what a reconciliation is about to clear has its row (`Covered`).  Fresh rests
on the lock; the rest on the guards of the SQL statements, which must hold against
docs-backend, who takes no lock.

**Access** (in `GrantProofs`).  The gate and the panel are functions of the two homes of
grants, so their properties follow from types and from `GrantInvariant` for every set
of users, of sessions and of cookies: the strongest of the credentials presented decides,
and what the panel lists is what the gate grants.

**The binding cache** (in `GrantProofs`).  A probe is younger than its timeout and
what it brings was said since it began; an entry ends at most a lifetime and a
probe after octo-server last said it.

**The readers of a tag** (`TagProofs`).  The tokenizer, the two attribute walkers and
the scan for the closing slash are tables driven by the characters; `StatesPass` says that
the recursion of the model runs through them.  The tokenizer is related to each of the
others by a set of pairs of states (`Walking`, `Slashing`) that every character keeps
which a tag may have there (`Coupled`): the name ends at a space or a slash and no
attribute's name begins with `=`.  Without either hypothesis the readers do disagree.  By
induction over the text they run in step (`InStep`), so names begin at the same places and
the last slash closes the tag for both (`TagTextsReadAlike`, tags of any length).  That
every tag an author writes is such a one is the invariant `TextIsWritten`.

**What the stamper writes** (also `TagProofs`).  That the published tags are texts of
tags too takes an inductive invariant that says where the name of the identity may stand.
`Author` is what `IsDocument` allows: it stands only where an attribute's name begins, and
the text without its identities is still the text of a tag.  `Stamper` is what remains after
a stamping: at every place the name of the identity goes on to be a longer name, or is
followed by `="`, one character, a quote and then a space, a slash or the end (`Shaped`).
`AttributeAt` computes what the walker finds at such a place and how far `stripAIDAttribute`
cuts, from the states the walker passes through.  From it follow that taking out the
identities of a tag of either kind leaves one of the `Stamper`'s (`StrippedIsFine`: what was
not taken out keeps its neighbours, `NextPicked`); that `stripAllAIDs`' extra space changes
nothing (`CleanedIsFine`); that writing an identity, before the last spaces or before the
slash, leaves such a tag (`StampedTagIsFine`, `InjectedTagIsFine`); and that a fragment
without identities is one (`PlainIsFine`).  The scan of elements only ever returns texts of
tags of the document and places in it (`ElementsTyped`), and `Rewrite` puts fine texts in
their places (`RewrittenPage`); so every published version is a document of fine tags, over
characters that now include the identities, and its index lists identities
(`PublishedIsFine`).  `ReadersAgree` is `OneReading` for all pieces, letters, fragments
and any number of publishes and replacements.  It assumes of the constants only that authors
and clients write texts of tags (`WritingAssumption`) and that a fragment is in the domain of
`IsDocument`, as an author's text is when it is published (`FragmentAssumption`; TLC
evaluates both on every instance).

**The round trip of an identity** (also `TagProofs`).  For a tag of any length in which
the name of the identity is at most a part of longer names (`Bare`), `StampedIsFound` says
that `ElementByAID`'s pattern finds in the stamped tag the identity that was written and no
other, and `StampIsUndone` that `stripAIDAttribute` gives back the tag that was stamped.  Both
follow from the place of the identity, behind the last character that is neither a space nor
the closing slash (`Borne`); the second needs that the walker is outside a value there
(`PlaceIsOutside`), hence that the tag ends, does not end where a value is expected and has no
name that begins with `=`.  Without the second hypothesis `alt= ` would take the identity for
its value.  `StampedReadsAsBare` compares what the code reads besides: up to the place of the
identity the walkers are in the same states in both tags (`WalkedAlike`), behind it they are in
none of a name or a value, so each run of states ends at the same character and every attribute
has the same name, value and end (`RunsAlike`, `SameAttribute`).  Hence the stamped tag has the
attributes of the bare one and the identity, opts in and names its encoding like it, closes
itself exactly if its slash counted when it was stamped (`StampedIsSound`), and is again a tag
of which all this holds (`Sound`).

**The scan of elements** (`ArtifactProofs`).  The step from a tag to a document is that
`scanOpenTags` does the same with two texts whose tags differ in an identity.  Two elements
are `Twins` if they agree in place, end, tag, namespace, whether they were left and whether
they are an integration point; two open tags are alike if both close themselves or neither
does, and both name their encoding alike.  Every operation of the scan (`PopForeign`,
`CloseAt`, `PushElement`, raw text, comments) keeps two stacks of twins in step (`PieceAlike`), so by induction over the pieces two such
texts have the same elements (`TwinScans`).  A second induction says what a scan finds at all:
each element is an open tag of the text with its tag and its attributes, in the order of the
text (`ElementsFound`), which is what `Rewrite` needs in order not to write twice into one tag
(`RewrittenEach`).

**The round trip of a document** (also `ArtifactProofs`).  A text is plain if none of its
elements bears an identity and their tags are `Sound` (`PlainText`).  Its harvest, and then
the stamped text, are related to it piece by piece (`PlainIsStamped`), the scans by
`TwinScans`; so from a stamped text exactly what was stamped is taken out (`StampedIsClean`),
and what a reader harvests there is the index (`StampedIsServed`).  Stamping a stamped text is
therefore the identity (`StampingIsIdempotent`), and stamping keeps the elements
(`StampingKeepsTheElements`).  These three hold of every plain text of any size.

For the state machine the inductive invariant is that a published version *is* what stamping
makes of some plain text, text and index (`EditedRoundTrip`).  It needs two hypotheses about
texts that nobody has stamped yet, both defined in `ArtifactProperties`.
`AuthorStandsApart`: taking the author's own identities out of a document changes no element
and leaves a document that the readers agree about.  This is not true of every text of
`IsDocument`: an attribute may be glued behind an identity
(`<annotation-xml x=y data-odoc-aid="..."encoding=text/html>`), and `stripAIDAttribute` then
makes it a part of the value before it.  `EditsStandApart`: the same of the text that a
replacement leads to, and the root's pinned identity is the one its content has in its place
(`ReplaceElementAuthorized` asks only that one element of the new text has it; that it is the
root depends on the fragment being read there as it is read alone).  Under both
`PublishedIndexIsServed`, `ServedTextIsStable` and `PublishingKeepsTheTree` prove
`IndexIsServed`, `RestampIsStable` and `StampingKeepsTheTree` for any number of publishes and
replacements.  Neither hypothesis is used up by the theorems: an author who writes no identity
satisfies the first (`PlainAuthorStandsApart`), without replacements the second is not needed
(`UneditedRoundTrip`), and in the `stamp` instance, where authors do write identities and
elements are replaced, both hold in every reachable state (TLC evaluates them when they are
added to the `INVARIANTS` of `MCStamp.cfg`).  The fragment of finding 5 does not stand apart,
which is why `stamp_replace` may refute `ReplacementIsPublished`.

**A replacement** (also `ArtifactProofs`).  `ReplacementIsInPlace` proves
`ReplacementIsPublished` under the same two hypotheses, for any base, element and fragment.
What is published is related to the base in four steps.

1. *Meaning.*  The attributes of a tag are the same before its identity is taken out, after it
   and when another one is written (`CleanedReadsAlike`, from `StampedReadsAsBare`), so
   publishing keeps them in every piece (`PublishingKeepsTheMeaning`).
2. *The injected identity.*  The text that is stamped is base and fragment spliced
   (`JoinedFits`) with an identity in one tag (`ReplacedBears`); that tag is read like the one
   without (`BearingReadsAlike`).  The published text therefore has the meanings and the tree
   of the plain splice.
3. *The root.*  The root stands behind the same pieces as the element it replaces, so the scan
   makes an element of it (`StillElement`).  It is stamped with the pinned identity
   (`TextWasPinned`), and only one entry of the index has that identity (the check of
   `ReplaceElementAuthorized`), so it is the only artifact that bears it (`PinnedIsTheBearer`).
4. *The others.*  The identity of an element is the hash of what it contains once identities
   are taken out (`StampedBearsHash`).  Before the replaced element both texts are scanned alike
   (`BeginningsScanAlike`), behind it whatever is read there as before also ends comments and
   raw text as before (`FollowingStands`, an induction over the mode of two scans); so the
   identities that are taken out are the same ones (`StandingIsCleaned`), contents and hashes
   agree (`AgainSameHash`), and so do the identities (`EditKeepsOthers`).  For an element before
   the replaced one this needs that no element ends before its own tag (`EndsBehind`).

`ReplacementIsPublished` promises the last only where what stands outside of the element is read
on (`ReadsOn`).  That is a condition and not a theorem: a fragment that takes the place of an
element which is never closed, or whose tag ends foreign content, may put what follows into
another namespace; TLC shows it with the unclosed alphabet of `MCStamp`.  The root is claimed to
be the only *artifact* with its identity.  Raw text is not an artifact: a tag that ends foreign
content may make a `<title>` that follows swallow a stamped tag, whose characters then hold an
identity that nobody harvests.

| Theorem | Property |
|---|---|
| `LockInvariant`, `TypeCorrect`, `LockExcludes`, `MapStaysBounded`, `MemoryImplementsLocker` | `IInv`, `TypeOK`, `MutualExclusion`, `MapBoundedByRequests`, `ImplementsLocker` |
| `EntriesAreUnique`, `CountsAreExact` | one entry per key, exact waiter counts (proved only) |
| `AdvisoryTypes`, `AdvisoryExcludes`, `DatabaseImplementsLocker` | `AdvisoryTypeOK`, `HashExcludes`, `AdvisoryImplementsLocker` |
| `OrderedLog` | (a result of general use) |
| `CommentTypesHold` | stored comments are well formed and stamped (proved only) |
| `IdsAreUnique`, `NothingAckedIsLost`, `DeletionIsForGood` | `UniqueIds`, `NoAckedEventLost`, `DeletedForGood` |
| `PastIsStable`, `PublishingIsNonDestructive` | `PastContentStable`, `PublishIsNonDestructive` |
| `PublishedAnchorsResolve`, `ReactingToRepliesToggles` | `AnchorsResolve`, `ReplyReactToggles` |
| `GroundInvariant`, `TypeCorrect` | `Ground`, `TypeOK` (with the bound on registration attempts) |
| `AcknowledgedPublishesStay`, `ResolvedVersionIsFresh`, `ReplacementLosesNothing` | `AckedVersionsKept`, `AutoVersionIsFresh`, `NoLostUpdate` |
| `DraftIsKept`, `IdentityIsKept` | `DraftKept`, `IdentityKept` |
| `RegistrationStaysCurrent`, `RemovalIsTwoSided`, `RemovalIsComplete` | `RegistrationIsCurrent`, `NoOneSidedDelete`, `MetadataGoesLast` |
| `AssetInvariant`, `AssetTypes` | `IInv`, `TypeOK` of `AssetGC` (proved only) |
| `CollectorSparesOwnReferences`, `CollectorSparesVersions`, `PassIsComplete`, `RegistryIsServed` | `OwnReferenceKept`, `VersionReferenceKept`, `PassCollects`, `ListedIsServed` |
| `GrantInvariant`, `GrantTypes` | `IInv`, `GrantsTypeOK` (proved only) |
| `LastAnswerIsInForce`, `AdminsStay`, `ReconciliationIsLossless` | `LastAnswerHolds`, `AdminIsKept`, `ReconcileLosesNothing` |
| `AccessFollowsGrants`, `LinksLead` | `AccessIsAsGranted`, `LinkLeadsToPage` |
| `StalenessIsBounded` | `AnswersAreRecent` |
| `TagTextsReadAlike` | `ReadAlike`, for every text of a tag (proved only) |
| `StrippedIsFine`, `StampedTagIsFine` | what taking out and writing an identity leave (results of general use) |
| `ReadersAgree` | `OneReading` |
| `StampedIsFound`, `StampIsUndone` | a written identity is found, and taken out again without a trace (proved only) |
| `StampedReadsAsBare` | a stamped tag has the attributes of the bare one and the identity, and closes alike (proved only) |
| `StampingIsIdempotent`, `StampingKeepsTheElements`, `StampedIsServed` | the same of whole texts, for every plain text (proved only) |
| `PublishingKeepsTheMeaning` | the attributes of every tag, for every text that stands apart (proved only) |
| `PublishedIndexIsServed`, `ServedTextIsStable`, `PublishingKeepsTheTree`, `ReplacementIsInPlace` | `IndexIsServed`, `RestampIsStable`, `StampingKeepsTheTree`, `ReplacementIsPublished`, where texts stand apart |
| `UneditedRoundTrip`, `PlainAuthorStandsApart` | the first three until an element is replaced; an author without identities stands apart (proved only) |

**Only model-checked**: liveness (`NoStarvation`, `LockIsServed`,
`LockIsReleased`, `RegistrationEnds`), which needs fairness and ENABLED.  `IndexIsServed`,
`RestampIsStable`, `StampingKeepsTheTree` and `ReplacementIsPublished` are proved under the
two hypotheses above and checked without them.

## 6. What is not modelled

* Document titles, group and thread ids, creation times; renaming; listings.
* Sign-in, tokens, the one-shot bootstrap: checks of a request that keep no state
  of their own.  The gate of the first draft of a slug (`capability.go:425`) is
  left out; in `DocLifecycle` a request has passed its gate when it is `Ask`ed,
  except that comments and uploads need a document.
* The stores below their contract.  A metadata or blob call is atomic and may
  fail; `DeleteDoc` may fail half-way.  In the S3 store an answer to
  `DeleteObjects` may carry errors for single keys that are not looked at, so a
  deletion may report success and leave objects; the model takes the contract of
  the interface.  SQL, paging and keys are left out.
* A connection that is lost while `fn` runs.  The database then frees the lock and
  `fn` goes on; the code relies on this not happening, and so does the model.
* docs-backend beyond a row for a slug and the member table; that its deletion
  after a removal may overtake a later registration is listed as a hazard.
* What becomes of the comments when their wipe, the last step of a removal, fails: the
  step is modelled, but nothing says what should hold then (it is a listed hazard), and
  `MetadataGoesLast` leaves the comments out.
* The collector's residual race: a document that begins to name another slug's
  asset after the scan may lose it, as the comment on `GCAssets` says.
  `OwnReferenceKept` and `VersionReferenceKept` state what is promised instead.
* Comments of the format before events, migrated when first read.
* Of stamping: tags that are never closed, letter case, what a replacement may
  contain besides its root, rendering, hash collisions, random ids.
* Asset sizes, content types and signatures; the identity cache of octoidentity.
* The webhook, pages, export, the overlay, commands, configuration.

## 7. Findings

1. **A third reaction to a comment does nothing** (`comments_toggle`).  The id of
   a reaction on a comment is made of kind, emoji and login, and `DedupEvents`
   keeps one event per id at the place of the first.  After add, remove, add the
   log reads add, remove.  Reactions to replies have unique ids and do toggle.
2. **A version is immutable only if nobody names it** (`doc_immutable`).  A publish
   with an explicit version that exists replaces its text, while the documents
   call versions write-once.
3. **An upload can outlive its document** (`doc_orphans`).  `AssetService.Put` does
   not look at the document again once it has the lock: when it waited for a
   removal, its asset row appears after the purge.
4. **A grant can fall between its two homes** (`grants_gap`).  `AddGrant` looks for
   the registration before it waits for the lock.  When the document is registered
   and its metadata grants are reconciled meanwhile, the grant is written to the
   metadata, which a registered document no longer consults.
5. **A replaced image can get another source** (`stamp_replace`).  For a fragment
   `<img src=x />` the identity is injected between the space and the slash; the
   next stamping takes it out with the spaces around it, and the slash that closed
   the tag ends up in the unquoted value.

## 8. Plan

Done, in this order: lock, comment log with its service, document life cycle,
database lock, assets and collector, grants with access and the binding cache,
stamping; proofs of every safety property, those of stamped documents where texts
stand apart.  What is left:

1. Registration composed with a later publish: the deletion in docs-backend runs
   in a goroutine of its own and may come after the re-registration of the slug.
2. Migration of legacy comments.
3. The checks on what a replacement may contain, and rendering.
4. Conditions on a fragment and on the element it replaces from which `EditsStandApart` and
   `ReadsOn` follow, as far as the code warrants them.
