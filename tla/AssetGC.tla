-------------------------------- MODULE AssetGC --------------------------------
(***************************************************************************)
(* The media assets of documents and their garbage collector:              *)
(* internal/service/asset.go, gc.go and handlers_assets.go.                *)
(*                                                                         *)
(* An asset is a blob and a registry row, written one after the other under *)
(* the lock of its slug.  GCAssets first collects, without any lock, the    *)
(* assets the texts of all documents name; then, slug by slug and under the *)
(* lock, it reads the slug's own texts again and deletes what nobody names  *)
(* and what is past the grace period.                                       *)
(*                                                                          *)
(* Atomicity: one step per store write, and one per read that is made       *)
(* without a lock.  Writers of documents hold their slug's lock for longer  *)
(* (DocLifecycle); here each is the one write that changes what is named.   *)
(***************************************************************************)
EXTENDS Integers, FiniteSets

CONSTANTS
    Slug, Sha,   \* documents; content addresses
    Client,      \* upload and delete requests in flight
    Gc,          \* the gc-assets command
    NoProc,      \* nobody holds the lock
    Uploads,     \* assets that clients upload: <<slug, address>>
    Ref,         \* places an address may have in a text: [sha, off, run]
    Width,       \* 64, the length of an address
    MaxSlide,    \* maxSlideRun: the longest run every window of which is read
    Grace,       \* the grace period
    MaxTime      \* bound: the last instant

Asset == Slug \X Sha
Never == -1      \* no registry row
Proc == Client \cup {Gc}
NoAsset == <<>>

ASSUME UploadAssumption == Uploads \subseteq Asset
ASSUME GcAssumption == Gc \notin Client /\ NoProc \notin Proc
\* An address lies within the run of hex digits it is a part of.
ASSUME RefAssumption ==
    \A r \in Ref : /\ r.sha \in Sha /\ r.run \in Nat
                  /\ r.off \in 0 .. r.run /\ r.off + Width <= r.run
ASSUME TimeAssumption == Width \in Nat \ {0} /\ Grace \in Nat /\ MaxTime \in Nat

VARIABLES
    onRecord,  \* slugs with a metadata row
    published, \* slug -> places in the texts of its versions
    draft,     \* slug -> places in its draft
    blob,      \* assets whose bytes are stored
    row,       \* asset -> the instant it was created, or Never
    now,       \* the clock
    holder,    \* slug -> who is inside its lock
    pc, at,    \* where each process is, and the asset it works on
    slugs,     \* GCAssets' assetSlugs that are still to be collected
    todo,      \* slugs the reference scan has still to read
    scanning,  \* the slug of which it has read the versions, not the draft
    refs,      \* GCAssets' referenced
    cutoff,    \* its now
    doomed,    \* assets of the current slug it is about to delete
    settled,   \* history: <<slug, place>> of a version since the pass began
    stale,     \* history: assets old and unnamed since the pass began
    torn       \* history: assets a failed deletion left a row of

docs    == <<onRecord, published, draft>>
gcVars  == <<slugs, todo, scanning, refs, cutoff, doomed>>
history == <<settled, stale>>
vars    == <<docs, blob, row, now, holder, pc, at, gcVars, history, torn>>

TypeOK ==
    /\ onRecord \subseteq Slug /\ slugs \subseteq Slug /\ todo \subseteq Slug
    /\ published \in [Slug -> SUBSET Ref] /\ draft \in [Slug -> SUBSET Ref]
    /\ blob \subseteq Asset /\ doomed \subseteq Asset
    /\ row \in [Asset -> 0 .. MaxTime \cup {Never}]
    /\ now \in 0 .. MaxTime /\ cutoff \in 0 .. MaxTime
    /\ holder \in [Slug -> Proc \cup {NoProc}]
    /\ pc \in [Proc -> {"idle", "putBlob", "putRow", "delBlob", "delRow",
                        "listMeta", "scan", "slug", "decide"}]
    /\ at \in [Proc -> Asset \cup {NoAsset}]
    /\ scanning \subseteq Slug /\ refs \subseteq Sha

-------------------------------------------------------------------------------
(* Which addresses a text names.                                           *)

\* scanInto: the offsets of the windows it reads of a run of hex digits.
Windows(run) ==
    LET all == {i \in 0 .. run : i + Width <= run}
    IN  IF run <= MaxSlide THEN all
        ELSE {i \in all : i % Width = 0} \cup {run - Width}

scanInto(text) == {r.sha : r \in {x \in text : x.off \in Windows(x.run)}}

\* What a reader of the text finds named in it, but for hex blobs no reference
\* is expected in.
Names(text) == {r.sha : r \in {x \in text : x.run <= MaxSlide}}

-------------------------------------------------------------------------------
Init ==
    /\ onRecord = {}
    /\ published = [s \in Slug |-> {}] /\ draft = [s \in Slug |-> {}]
    /\ blob = {} /\ row = [x \in Asset |-> Never] /\ now = 0
    /\ holder = [s \in Slug |-> NoProc]
    /\ pc = [p \in Proc |-> "idle"] /\ at = [p \in Proc |-> NoAsset]
    /\ slugs = {} /\ todo = {} /\ scanning = {} /\ refs = {} /\ cutoff = 0 /\ doomed = {}
    /\ settled = {} /\ stale = {} /\ torn = {}

Tick ==
    /\ now < MaxTime
    /\ now' = now + 1
    /\ UNCHANGED <<docs, blob, row, holder, pc, at, gcVars, history, torn>>

(* Documents change (DocLifecycle).                                        *)

\* The history of what has been there since the pass began.
Remember ==
    /\ settled' = {x \in settled : x[2] \in published'[x[1]] /\ x[1] \in onRecord'}
    /\ stale' = {x \in stale : \A s \in Slug : x[2] \notin {r.sha : r \in published'[s] \cup draft'[s]}}

\* PutDoc of a publish; the metadata follows, unless the request fails.
Publish(s, text) ==
    /\ holder[s] = NoProc
    /\ published' = [published EXCEPT ![s] = @ \cup text]
    /\ onRecord' \in {onRecord, onRecord \cup {s}}
    /\ UNCHANGED draft

SaveDraft(s, text) ==
    /\ holder[s] = NoProc
    /\ draft' = [draft EXCEPT ![s] = text]
    /\ onRecord' \in {onRecord, onRecord \cup {s}}
    /\ UNCHANGED published

\* The text of the draft is a version before the draft is deleted.
Promote(s) ==
    /\ holder[s] = NoProc
    /\ draft[s] # {}
    /\ published' = [published EXCEPT ![s] = @ \cup draft[s]]
    /\ draft' = [draft EXCEPT ![s] = {}]
    /\ onRecord' = onRecord \cup {s}

Document ==
    /\ \E s \in Slug : (\E r \in Ref : Publish(s, {r}) \/ SaveDraft(s, {r})) \/ Promote(s)
    /\ Remember
    /\ UNCHANGED <<blob, row, now, holder, pc, at, gcVars, torn>>

\* Remove purges the texts, the assets and the rows.
Remove(s) ==
    /\ holder[s] = NoProc
    /\ published[s] # {} \/ draft[s] # {}
    /\ published' = [published EXCEPT ![s] = {}]
    /\ draft' = [draft EXCEPT ![s] = {}]
    /\ onRecord' = onRecord \ {s}
    /\ blob' = {x \in blob : x[1] # s}
    /\ row' = [x \in Asset |-> IF x[1] = s THEN Never ELSE row[x]]
    /\ torn' = {x \in torn : x[1] # s}
    /\ Remember
    /\ UNCHANGED <<now, holder, pc, at, gcVars>>

-------------------------------------------------------------------------------
(* Uploads and deletions.                                                  *)

Goto(p, step) == pc' = [pc EXCEPT ![p] = step]
Lock(s, p) == holder[s] = NoProc /\ holder' = [holder EXCEPT ![s] = p]
Unlock(s) == holder' = [holder EXCEPT ![s] = NoProc]

\* Put and Delete take the slug's lock.
handleUploadAsset(p, x) ==
    /\ pc[p] = "idle"
    /\ Lock(x[1], p)
    /\ at' = [at EXCEPT ![p] = x]
    /\ Goto(p, "putBlob")
    /\ UNCHANGED <<docs, blob, row, now, gcVars, history, torn>>

handleDeleteAsset(p, x) ==
    /\ pc[p] = "idle"
    /\ Lock(x[1], p)
    /\ at' = [at EXCEPT ![p] = x]
    /\ Goto(p, "delBlob")
    /\ UNCHANGED <<docs, blob, row, now, gcVars, history, torn>>

\* (Mutant: the bytes are not stored again when the row is there.)
PutBlobOnce(p) ==
    /\ pc[p] = "putBlob"
    /\ blob' = IF row[at[p]] = Never THEN blob \cup {at[p]} ELSE blob
    /\ torn' = torn \ {at[p]}
    /\ Goto(p, "putRow")
    /\ UNCHANGED <<docs, row, now, holder, at, gcVars, history>>

PutBlob(p) ==
    /\ pc[p] = "putBlob"
    /\ blob' = blob \cup {at[p]}
    /\ torn' = torn \ {at[p]}
    /\ Goto(p, "putRow")
    /\ UNCHANGED <<docs, row, now, holder, at, gcVars, history>>

\* PutAssetMeta is an upsert that keeps the instant of the first upload.
PutRow(p) ==
    /\ pc[p] = "putRow"
    /\ row' = [row EXCEPT ![at[p]] = IF @ = Never THEN now ELSE @]
    /\ stale' = IF row[at[p]] = Never THEN stale \ {at[p]} ELSE stale
    /\ Unlock(at[p][1])
    /\ at' = [at EXCEPT ![p] = NoAsset]
    /\ Goto(p, "idle")
    /\ UNCHANGED <<docs, blob, now, gcVars, settled, torn>>

\* deleteLocked: the bytes, then the row.
DeleteBlob(p) ==
    /\ pc[p] = "delBlob"
    /\ blob' = blob \ {at[p]}
    /\ Goto(p, "delRow")
    /\ UNCHANGED <<docs, row, now, holder, at, gcVars, history, torn>>

\* The collector goes on with the slug, a request leaves.
DeleteRow(p) ==
    /\ pc[p] = "delRow"
    /\ row' = [row EXCEPT ![at[p]] = Never]
    /\ torn' = torn \ {at[p]}
    /\ at' = [at EXCEPT ![p] = NoAsset]
    /\ IF p = Gc THEN Goto(p, "decide") /\ UNCHANGED holder
                 ELSE Goto(p, "idle") /\ Unlock(at[p][1])
    /\ UNCHANGED <<docs, blob, now, gcVars, history>>

\* Get serves an asset that has a row and bytes.
Served(x) == row[x] # Never /\ x \in blob

-------------------------------------------------------------------------------
(* GCAssets.                                                               *)

\* (Mutant: the slugs of documents are collected, not those with assets.)
ListDocumentSlugs == {s \in onRecord : \E a \in Sha : row[<<s, a>>] # Never}

ListAssetSlugs == {s \in Slug : \E a \in Sha : row[<<s, a>>] # Never}

\* The present, when the command starts.
Cutoff == now

WithinGrace(x, t) == t - row[x] < Grace

Unnamed(x) == \A s \in Slug : x[2] \notin {r.sha : r \in published[s] \cup draft[s]}

gcAssets ==
    /\ pc[Gc] = "idle"
    /\ slugs' = ListAssetSlugs
    /\ cutoff' = Cutoff
    /\ refs' = {}
    /\ settled' = {y \in onRecord \X Ref : y[2] \in published[y[1]]}
    /\ stale' = {x \in Asset : row[x] # Never /\ ~WithinGrace(x, now) /\ Unnamed(x)}
    /\ Goto(Gc, "listMeta")
    /\ UNCHANGED <<docs, blob, row, now, holder, at, todo, scanning, doomed, torn>>

\* (Mutant: the documents without assets are not scanned.)
ToScanAssets == slugs

\* allReferencedSHAs: the documents, and the slugs that have assets.
ToScan == onRecord \cup slugs

ListMeta ==
    /\ pc[Gc] = "listMeta"
    /\ todo' = ToScan
    /\ Goto(Gc, "scan")
    /\ UNCHANGED <<docs, blob, row, now, holder, at, slugs, scanning, refs, cutoff, doomed, history, torn>>

\* scanSlugInto, without the lock: ListVersions and their texts ...
ScanVersions(s) ==
    /\ pc[Gc] = "scan"
    /\ s \in todo /\ scanning = {}
    /\ refs' = refs \cup scanInto(published[s])
    /\ scanning' = {s}
    /\ UNCHANGED <<docs, blob, row, now, holder, pc, at, slugs, todo, cutoff, doomed, history, torn>>

\* ... then GetDraft.
ScanDraft(s) ==
    /\ pc[Gc] = "scan"
    /\ scanning = {s}
    /\ refs' = refs \cup scanInto(draft[s])
    /\ scanning' = {}
    /\ todo' = todo \ {s}
    /\ UNCHANGED <<docs, blob, row, now, holder, pc, at, slugs, cutoff, doomed, history, torn>>

Scanned ==
    /\ pc[Gc] = "scan"
    /\ todo = {}
    /\ Goto(Gc, "slug")
    /\ UNCHANGED <<docs, blob, row, now, holder, at, gcVars, history, torn>>

\* (Mutant: what the lock-free scan found is enough.)
DoomedBySnapshot(s) ==
    {x \in Asset : x[1] = s /\ row[x] # Never /\ x[2] \notin refs /\ ~WithinGrace(x, cutoff)}

\* gcSlug's decision, over the slug's own texts read again under the lock.
Doomed(s) ==
    LET fresh == scanInto(published[s]) \cup scanInto(draft[s])
    IN  {x \in Asset : /\ x[1] = s /\ row[x] # Never
                       /\ x[2] \notin refs \cup fresh
                       /\ ~WithinGrace(x, cutoff)}

gcSlug(s) ==
    /\ pc[Gc] = "slug"
    /\ s \in slugs
    /\ Lock(s, Gc)
    /\ slugs' = slugs \ {s}
    /\ doomed' = Doomed(s)
    /\ scanning' = {s}
    /\ Goto(Gc, "decide")
    /\ UNCHANGED <<docs, blob, row, now, at, todo, refs, cutoff, history, torn>>

NextDoomed ==
    /\ pc[Gc] = "decide"
    /\ \E x \in doomed :
          /\ at' = [at EXCEPT ![Gc] = x]
          /\ doomed' = doomed \ {x}
    /\ Goto(Gc, "delBlob")
    /\ UNCHANGED <<docs, blob, row, now, holder, slugs, todo, scanning, refs, cutoff, history, torn>>

LeaveSlug ==
    /\ pc[Gc] = "decide"
    /\ doomed = {}
    /\ \E s \in scanning : Unlock(s)
    /\ scanning' = {}
    /\ Goto(Gc, "slug")
    /\ UNCHANGED <<docs, blob, row, now, at, slugs, todo, refs, cutoff, doomed, history, torn>>

Forget == refs' = {} /\ cutoff' = 0 /\ settled' = {} /\ stale' = {}

PassEnds ==
    /\ pc[Gc] = "slug"
    /\ slugs = {}
    /\ Goto(Gc, "idle")
    /\ Forget
    /\ UNCHANGED <<docs, blob, row, now, holder, at, slugs, todo, scanning, doomed, torn>>

\* A store call fails or the process is killed: the lock is given back, nothing
\* is undone, and a pass stops.
Fail(p) ==
    /\ pc[p] # "idle"
    /\ Goto(p, "idle")
    /\ holder' = [s \in Slug |-> IF holder[s] = p THEN NoProc ELSE holder[s]]
    /\ torn' = IF pc[p] = "delRow" /\ row[at[p]] # Never THEN torn \cup {at[p]} ELSE torn
    /\ at' = [at EXCEPT ![p] = NoAsset]
    /\ IF p = Gc THEN slugs' = {} /\ todo' = {} /\ scanning' = {} /\ doomed' = {} /\ Forget
                 ELSE UNCHANGED <<gcVars, history>>
    /\ UNCHANGED <<docs, blob, row, now>>

Collector ==
    \/ gcAssets \/ ListMeta \/ Scanned \/ NextDoomed \/ LeaveSlug \/ PassEnds
    \/ \E s \in Slug : ScanVersions(s) \/ ScanDraft(s) \/ gcSlug(s)

Next ==
    \/ Tick \/ Document \/ (\E s \in Slug : Remove(s))
    \/ \E p \in Client, x \in Uploads : handleUploadAsset(p, x) \/ handleDeleteAsset(p, x)
    \/ \E p \in Proc : PutBlob(p) \/ PutRow(p) \/ DeleteBlob(p) \/ DeleteRow(p) \/ Fail(p)
    \/ Collector

Spec == Init /\ [][Next]_vars

-------------------------------------------------------------------------------
Collects(x) == pc[Gc] = "delBlob" /\ pc'[Gc] = "delRow" /\ at[Gc] = x

\* The collector deletes no asset that a text of its own slug names at that
\* moment, whatever was published, drafted or promoted during the pass (gc.go:
\* "this closes the common same-slug race").
OwnReferenceKept ==
    [][\A x \in Asset : Collects(x) => x[2] \notin Names(published[x[1]] \cup draft[x[1]])]_vars

\* Nor one that a version of any document on record has named since the pass
\* began (gc.go: references are resolved globally).
VersionReferenceKept ==
    [][\A x \in Asset : Collects(x) => x[2] \notin Names({y[2] : y \in settled})]_vars

\* A pass that goes through has collected every asset that was old and unnamed
\* when it began and has stayed so, with or without a document on record.
PassCollects ==
    [][pc[Gc] = "slug" /\ pc'[Gc] = "idle" /\ slugs = {} => \A x \in stale : row[x] = Never]_vars

\* What the registry lists can be fetched, except while it is deleted or after
\* a deletion that failed half-way, until it is uploaded or deleted again.
ListedIsServed ==
    \A x \in Asset : row[x] # Never =>
        Served(x) \/ x \in torn \/ \E p \in Proc : pc[p] = "delRow" /\ at[p] = x
===============================================================================
