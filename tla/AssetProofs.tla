------------------------------ MODULE AssetProofs ------------------------------
(***************************************************************************)
(* Theorems about AssetGC: the collector deletes nothing that is named, and *)
(* leaves nothing that was not, for any number of slugs, requests and       *)
(* assets.  The invariant comes in five parts, each inductive next to the   *)
(* parts before it: types, locks, what is doomed, what has been scanned and *)
(* what is due.                                                             *)
(***************************************************************************)
EXTENDS AssetGC, TLAPS

Types ==
    /\ TypeOK
    /\ settled \subseteq Slug \X Ref /\ stale \subseteq Asset

Requesting == {"putBlob", "putRow", "delBlob", "delRow"}
Collecting == {"decide", "delBlob", "delRow"}

\* Whoever writes about an asset is inside its slug's lock; the collector is
\* inside the lock of the slug it collects.
Locks ==
    /\ \A p \in Client : pc[p] \in Requesting \cup {"idle"}
    /\ pc[Gc] \notin {"putBlob", "putRow"}
    /\ \A p \in Proc : pc[p] \in Requesting => at[p] \in Asset /\ holder[at[p][1]] = p
    /\ pc[Gc] \in Collecting => /\ \A s \in scanning : holder[s] = Gc
                                /\ \A x \in doomed : x[1] \in scanning
                                /\ pc[Gc] # "decide" => at[Gc][1] \in scanning
    /\ pc[Gc] = "scan" => scanning \subseteq todo
    /\ pc[Gc] \notin Collecting \cup {"scan"} => scanning = {}

\* What the collector is about to delete.
Target == doomed \cup {x \in {at[Gc]} : pc[Gc] = "delBlob"}

Safe ==
    pc[Gc] \in Collecting =>
        \A x \in Target : x[2] \notin refs \cup Names(published[x[1]] \cup draft[x[1]])

\* A place that a version has named since the pass began is still to be read, or
\* its address has been found.
Found(y) == y[2].run <= MaxSlide => y[2].sha \in refs

Scanning ==
    /\ \A y \in settled : y[1] \in onRecord /\ y[2] \in published[y[1]]
    /\ pc[Gc] = "idle" => settled = {} /\ stale = {}
    /\ pc[Gc] = "scan" => \A y \in settled : y[1] \in todo \ scanning \/ Found(y)
    /\ pc[Gc] \in Collecting \cup {"slug"} => \A y \in settled : Found(y)

\* An asset that is due has no row, or is of a slug that is to come, or is about
\* to be deleted.
Coming(x) ==
    \/ row[x] = Never
    \/ x[1] \in slugs
    \/ pc[Gc] \in Collecting /\ x \in doomed
    \/ pc[Gc] \in {"delBlob", "delRow"} /\ x = at[Gc]

Due ==
    \A x \in stale : /\ Unnamed(x) /\ x[2] \notin refs
                     /\ row[x] = Never \/ ~WithinGrace(x, cutoff)
                     /\ Coming(x)

\* Bytes are stored before the row, and by no one else in between.
Stored ==
    /\ \A p \in Proc : pc[p] = "putRow" => at[p] \in blob
    /\ ListedIsServed

-------------------------------------------------------------------------------
(* Reading a text.                                                         *)

\* scanInto finds every address that is named in the text.
LEMMA ScanFinds ==
    ASSUME NEW text \in SUBSET Ref
    PROVE  Names(text) \subseteq scanInto(text)
  BY RefAssumption DEF Names, scanInto, Windows

\* And nothing that is not in it.
LEMMA ScanFindsOnly ==
    ASSUME NEW text
    PROVE  scanInto(text) \subseteq {r.sha : r \in text}
  BY DEF scanInto

-------------------------------------------------------------------------------
LEMMA TypesInit == Init => Types
  BY GcAssumption, TimeAssumption DEF Init, Types, TypeOK, Proc, Asset

LEMMA TypesStep ==
    ASSUME Types, Locks, [Next]_vars
    PROVE  Types'
  <1> USE GcAssumption, TimeAssumption, RefAssumption
      DEF Types, TypeOK, Locks, Requesting, docs, gcVars, history, Goto
  <1>1. CASE Tick
    BY <1>1 DEF Tick
  <1>2. CASE Document
    <2>1. published' \in [Slug -> SUBSET Ref] /\ draft' \in [Slug -> SUBSET Ref] /\ onRecord' \subseteq Slug
      BY <1>2 DEF Document, Publish, SaveDraft, Promote
    <2> QED BY <1>2, <2>1 DEF Document, Remember
  <1>3. ASSUME NEW s \in Slug, Remove(s) PROVE Types'
    <2>1. published' \in [Slug -> SUBSET Ref] /\ draft' \in [Slug -> SUBSET Ref] /\ onRecord' \subseteq Slug
      BY <1>3 DEF Remove
    <2>2. row' \in [Asset -> 0 .. MaxTime \cup {Never}] /\ blob' \subseteq Asset
      BY <1>3 DEF Remove
    <2> QED BY <1>3, <2>1, <2>2 DEF Remove, Remember
  <1>4. ASSUME NEW p \in Client, NEW x \in Asset, handleUploadAsset(p, x) \/ handleDeleteAsset(p, x)
        PROVE  Types'
    BY <1>4 DEF handleUploadAsset, handleDeleteAsset, Lock, Proc, Asset
  <1>5. ASSUME NEW p \in Proc, PutBlob(p) PROVE Types'
    BY <1>5 DEF PutBlob
  <1>6. ASSUME NEW p \in Proc, PutRow(p) PROVE Types'
    BY <1>6 DEF PutRow, Unlock
  <1>7. ASSUME NEW p \in Proc, DeleteBlob(p) PROVE Types'
    BY <1>7 DEF DeleteBlob
  <1>8. ASSUME NEW p \in Proc, DeleteRow(p) PROVE Types'
    BY <1>8 DEF DeleteRow, Unlock
  <1>9. ASSUME NEW p \in Proc, Fail(p) PROVE Types'
    BY <1>9 DEF Fail, Forget
  <1>10. CASE gcAssets
    BY <1>10 DEF gcAssets, ListAssetSlugs, Cutoff
  <1>11. CASE ListMeta
    BY <1>11 DEF ListMeta, ToScan
  <1>12. ASSUME NEW s \in Slug, ScanVersions(s) \/ ScanDraft(s) PROVE Types'
    <2>1. scanInto(published[s]) \subseteq Sha /\ scanInto(draft[s]) \subseteq Sha
      BY DEF scanInto
    <2> QED BY <1>12, <2>1 DEF ScanVersions, ScanDraft
  <1>13. ASSUME NEW s \in Slug, gcSlug(s) PROVE Types'
    BY <1>13 DEF gcSlug, Lock, Doomed, Proc
  <1>14. CASE Scanned \/ NextDoomed \/ LeaveSlug \/ PassEnds
    BY <1>14 DEF Scanned, NextDoomed, LeaveSlug, Unlock, PassEnds, Forget
  <1>15. CASE UNCHANGED vars
    BY <1>15 DEF vars
  <1> QED
    BY <1>1, <1>2, <1>3, <1>4, <1>5, <1>6, <1>7, <1>8, <1>9, <1>10, <1>11, <1>12, <1>13,
       <1>14, <1>15, UploadAssumption DEF Next, Collector

LEMMA LocksInit == Init => Locks
  BY GcAssumption DEF Init, Locks, Requesting, Collecting, Proc

LEMMA LocksStep ==
    ASSUME Types, Locks, [Next]_vars
    PROVE  Locks'
  <1> USE GcAssumption DEF Types, TypeOK, Locks, Requesting, Collecting, gcVars, Goto, Proc
  <1>1. CASE Tick \/ Document \/ \E s \in Slug : Remove(s)
    BY <1>1 DEF Tick, Document, Remove
  <1>2. ASSUME NEW p \in Client, NEW x \in Asset, handleUploadAsset(p, x) \/ handleDeleteAsset(p, x)
        PROVE  Locks'
    <2>1. x[1] \in Slug /\ holder[x[1]] = NoProc /\ holder' = [holder EXCEPT ![x[1]] = p]
      BY <1>2 DEF handleUploadAsset, handleDeleteAsset, Lock, Asset
    <2> QED BY <1>2, <2>1 DEF handleUploadAsset, handleDeleteAsset, Asset
  <1>3. ASSUME NEW p \in Proc, PutBlob(p) \/ DeleteBlob(p) PROVE Locks'
    BY <1>3 DEF PutBlob, DeleteBlob
  <1>4. ASSUME NEW p \in Proc, PutRow(p) PROVE Locks'
    <2>1. at[p] \in Asset /\ holder[at[p][1]] = p /\ p # Gc
      BY <1>4 DEF PutRow
    <2>2. \A q \in Proc \ {p} : pc[q] \in Requesting => at[q][1] # at[p][1]
      BY <2>1
    <2> QED BY <1>4, <2>1, <2>2 DEF PutRow, Unlock, Asset
  <1>5. ASSUME NEW p \in Proc, DeleteRow(p) PROVE Locks'
    <2>1. at[p] \in Asset /\ holder[at[p][1]] = p
      BY <1>5 DEF DeleteRow
    <2>2. \A q \in Proc \ {p} : pc[q] \in Requesting => at[q][1] # at[p][1]
      BY <2>1
    <2>3. CASE p = Gc
      BY <1>5, <2>3 DEF DeleteRow, Asset
    <2>4. CASE p # Gc
      <3>1. at[p][1] \in Slug /\ holder' = [holder EXCEPT ![at[p][1]] = NoProc]
        BY <1>5, <2>1, <2>4 DEF DeleteRow, Unlock, Asset
      <3>2. \A s \in scanning : pc[Gc] \in Collecting => s # at[p][1]
        BY <2>1, <2>4
      <3>3. UNCHANGED gcVars /\ \A q \in Proc \ {p} : pc'[q] = pc[q] /\ at'[q] = at[q]
        BY <1>5, <2>4 DEF DeleteRow
      <3>4. pc'[p] = "idle"
        BY <1>5, <2>4 DEF DeleteRow
      <3> QED BY <2>1, <2>2, <2>4, <3>1, <3>2, <3>3, <3>4
    <2> QED BY <2>3, <2>4
  <1>6. ASSUME NEW p \in Proc, Fail(p) PROVE Locks'
    BY <1>6 DEF Fail, Asset
  <1>7. CASE gcAssets \/ ListMeta \/ Scanned \/ PassEnds
    BY <1>7 DEF gcAssets, ListMeta, Scanned, PassEnds
  <1>8. ASSUME NEW s \in Slug, ScanVersions(s) \/ ScanDraft(s) PROVE Locks'
    BY <1>8 DEF ScanVersions, ScanDraft
  <1>9. ASSUME NEW s \in Slug, gcSlug(s) PROVE Locks'
    BY <1>9 DEF gcSlug, Lock, Doomed, Asset
  <1>10. CASE NextDoomed
    BY <1>10 DEF NextDoomed
  <1>11. CASE LeaveSlug
    BY <1>11 DEF LeaveSlug, Unlock, Asset
  <1>12. CASE UNCHANGED vars
    BY <1>12 DEF vars
  <1> QED
    BY <1>1, <1>2, <1>3, <1>4, <1>5, <1>6, <1>7, <1>8, <1>9, <1>10, <1>11, <1>12,
       UploadAssumption DEF Next, Collector

-------------------------------------------------------------------------------
(* What is doomed is named nowhere.                                        *)

LEMMA SafeInit == Init => Safe
  BY GcAssumption DEF Init, Safe, Collecting, Proc

LEMMA SafeStep ==
    ASSUME Types, Locks, Safe, [Next]_vars
    PROVE  Safe'
  <1> USE GcAssumption DEF Types, TypeOK, Locks, Safe, Target, Requesting, Collecting, docs, gcVars, Goto, Proc
  <1> DEFINE Same(s) == published'[s] = published[s] /\ draft'[s] = draft[s]
  <1>a. ASSUME refs' = refs, Target' \subseteq Target, pc'[Gc] \in Collecting => pc[Gc] \in Collecting,
               \A s \in Slug : holder[s] # NoProc => Same(s)
        PROVE  Safe'
    <2> SUFFICES ASSUME pc'[Gc] \in Collecting, NEW x \in Target'
                 PROVE  x[2] \notin refs' \cup Names(published'[x[1]] \cup draft'[x[1]])
      BY DEF Safe
    <2>1. x \in Target /\ pc[Gc] \in Collecting
      BY <1>a
    <2>2. x[2] \notin refs \cup Names(published[x[1]] \cup draft[x[1]])
      BY <2>1
    <2>3. x[1] \in Slug /\ holder[x[1]] # NoProc
      BY <2>1
    <2> QED BY <1>a, <2>2, <2>3
  <1> HIDE DEF Safe
  <1>1. CASE Tick
    BY <1>1, <1>a DEF Tick
  <1>2. CASE Document
    <2>1. \A s \in Slug : holder[s] # NoProc => Same(s)
      BY <1>2 DEF Document, Publish, SaveDraft, Promote
    <2>2. UNCHANGED <<refs, doomed, pc, at>>
      BY <1>2 DEF Document
    <2> QED BY <2>1, <2>2, <1>a
  <1>3. ASSUME NEW s \in Slug, Remove(s) PROVE Safe'
    <2>1. \A t \in Slug : holder[t] # NoProc => Same(t)
      BY <1>3 DEF Remove
    <2>2. UNCHANGED <<refs, doomed, pc, at>>
      BY <1>3 DEF Remove
    <2> QED BY <2>1, <2>2, <1>a
  <1>4. ASSUME NEW p \in Client, NEW x \in Asset, handleUploadAsset(p, x) \/ handleDeleteAsset(p, x)
        PROVE  Safe'
    <2>1. UNCHANGED <<docs, gcVars>> /\ pc'[Gc] = pc[Gc] /\ at'[Gc] = at[Gc]
      BY <1>4 DEF handleUploadAsset, handleDeleteAsset
    <2> QED BY <2>1, <1>a
  <1>5. ASSUME NEW p \in Proc, PutBlob(p) \/ PutRow(p) \/ DeleteBlob(p) \/ DeleteRow(p) PROVE Safe'
    <2>1. UNCHANGED <<docs, gcVars>>
      BY <1>5 DEF PutBlob, PutRow, DeleteBlob, DeleteRow
    <2>2. Target' \subseteq Target /\ (pc'[Gc] \in Collecting => pc[Gc] \in Collecting)
      BY <1>5, <2>1 DEF PutBlob, PutRow, DeleteBlob, DeleteRow
    <2> QED BY <2>1, <2>2, <1>a
  <1>6. ASSUME NEW p \in Proc, Fail(p) PROVE Safe'
    <2>1. CASE p = Gc
      BY <1>6, <2>1 DEF Fail, Safe
    <2>2. CASE p # Gc
      <3>1. UNCHANGED <<docs, gcVars>> /\ pc'[Gc] = pc[Gc] /\ at'[Gc] = at[Gc]
        BY <1>6, <2>2 DEF Fail
      <3> QED BY <3>1, <1>a
    <2> QED BY <2>1, <2>2
  <1>7. CASE gcAssets \/ ListMeta \/ Scanned \/ PassEnds \/ LeaveSlug
    BY <1>7 DEF gcAssets, ListMeta, Scanned, PassEnds, LeaveSlug, Safe
  <1>8. ASSUME NEW s \in Slug, ScanVersions(s) \/ ScanDraft(s) PROVE Safe'
    BY <1>8 DEF ScanVersions, ScanDraft, Safe
  <1>9. ASSUME NEW s \in Slug, gcSlug(s) PROVE Safe'
    <2>1. Names(published[s] \cup draft[s]) \subseteq scanInto(published[s]) \cup scanInto(draft[s])
      <3>1. Names(published[s]) \subseteq scanInto(published[s]) /\ Names(draft[s]) \subseteq scanInto(draft[s])
        BY ScanFinds
      <3> QED BY <3>1 DEF Names
    <2> QED BY <1>9, <2>1 DEF gcSlug, Doomed, Safe
  <1>10. CASE NextDoomed
    <2>1. UNCHANGED <<docs, refs>> /\ pc[Gc] = "decide" /\ Target' \subseteq Target
      BY <1>10 DEF NextDoomed
    <2> QED BY <2>1, <1>a
  <1>11. CASE UNCHANGED vars
    BY <1>11, <1>a DEF vars
  <1> QED
    BY <1>1, <1>2, <1>3, <1>4, <1>5, <1>6, <1>7, <1>8, <1>9, <1>10, <1>11, UploadAssumption
    DEF Next, Collector

-------------------------------------------------------------------------------
(* What has been named since the pass began has been found.                *)

LEMMA ScanningInit == Init => Scanning
  BY GcAssumption DEF Init, Scanning, Collecting, Proc

LEMMA ScanningStep ==
    ASSUME Types, Locks, Scanning, [Next]_vars
    PROVE  Scanning'
  <1> USE GcAssumption DEF Types, TypeOK, Locks, Scanning, Requesting, Collecting, Found, docs, gcVars, history, Goto, Proc
  <1>1. CASE Tick
    BY <1>1 DEF Tick
  <1>2. CASE Document
    BY <1>2 DEF Document, Remember
  <1>3. ASSUME NEW s \in Slug, Remove(s) PROVE Scanning'
    BY <1>3 DEF Remove, Remember
  <1>4. ASSUME NEW p \in Client, NEW x \in Asset, handleUploadAsset(p, x) \/ handleDeleteAsset(p, x)
        PROVE  Scanning'
    BY <1>4 DEF handleUploadAsset, handleDeleteAsset
  <1>5. ASSUME NEW p \in Proc, PutBlob(p) \/ PutRow(p) \/ DeleteBlob(p) \/ DeleteRow(p)
        PROVE  Scanning'
    BY <1>5 DEF PutBlob, PutRow, DeleteBlob, DeleteRow
  <1>6. ASSUME NEW p \in Proc, Fail(p) PROVE Scanning'
    BY <1>6 DEF Fail, Forget
  <1>7. CASE gcAssets
    BY <1>7 DEF gcAssets
  <1>8. CASE ListMeta
    BY <1>8 DEF ListMeta, ToScan
  <1>9. ASSUME NEW s \in Slug, ScanVersions(s) PROVE Scanning'
    <2>1. \A y \in settled : y[1] = s /\ y[2].run <= MaxSlide => y[2].sha \in refs'
      <3>1. Names(published[s]) \subseteq refs'
        BY <1>9, ScanFinds DEF ScanVersions
      <3> QED BY <3>1 DEF Names
    <2>2. refs \subseteq refs' /\ todo' = todo /\ scanning' = {s} /\ scanning = {}
      BY <1>9 DEF ScanVersions
    <2>3. UNCHANGED <<docs, pc, settled, stale>> /\ pc[Gc] = "scan"
      BY <1>9 DEF ScanVersions
    <2> QED BY <2>1, <2>2, <2>3
  <1>10. ASSUME NEW s \in Slug, ScanDraft(s) PROVE Scanning'
    <2>1. refs \subseteq refs' /\ todo' = todo \ {s} /\ scanning' = {} /\ scanning = {s}
      BY <1>10 DEF ScanDraft
    <2>2. UNCHANGED <<docs, pc, settled, stale>> /\ pc[Gc] = "scan"
      BY <1>10 DEF ScanDraft
    <2> QED BY <2>1, <2>2
  <1>11. CASE Scanned
    BY <1>11 DEF Scanned
  <1>12. ASSUME NEW s \in Slug, gcSlug(s) PROVE Scanning'
    BY <1>12 DEF gcSlug
  <1>13. CASE NextDoomed \/ LeaveSlug \/ PassEnds
    BY <1>13 DEF NextDoomed, LeaveSlug, PassEnds, Forget
  <1>14. CASE UNCHANGED vars
    BY <1>14 DEF vars
  <1> QED
    BY <1>1, <1>2, <1>3, <1>4, <1>5, <1>6, <1>7, <1>8, <1>9, <1>10, <1>11, <1>12, <1>13,
       <1>14, UploadAssumption DEF Next, Collector

-------------------------------------------------------------------------------
(* What is due is collected.                                               *)

LEMMA DueInit == Init => Due
  BY DEF Init, Due

LEMMA DueStep ==
    ASSUME Types, Locks, Scanning, Due, [Next]_vars
    PROVE  Due'
  <1> USE GcAssumption DEF Types, TypeOK, Due, Coming, Unnamed, Collecting, docs, gcVars, history, Goto, Proc
  <1>1. CASE Tick
    BY <1>1 DEF Tick, WithinGrace
  <1>2. CASE Document
    BY <1>2 DEF Document, Remember, WithinGrace
  <1>3. ASSUME NEW s \in Slug, Remove(s) PROVE Due'
    BY <1>3 DEF Remove, Remember, WithinGrace
  <1>4. ASSUME NEW p \in Client, NEW x \in Asset, handleUploadAsset(p, x) \/ handleDeleteAsset(p, x)
        PROVE  Due'
    BY <1>4 DEF handleUploadAsset, handleDeleteAsset, WithinGrace
  <1>5. ASSUME NEW p \in Proc, PutBlob(p) \/ DeleteBlob(p) PROVE Due'
    BY <1>5 DEF PutBlob, DeleteBlob, WithinGrace, Locks
  <1>6. ASSUME NEW p \in Proc, PutRow(p) PROVE Due'
    BY <1>6 DEF PutRow, WithinGrace, Locks
  <1>7. ASSUME NEW p \in Proc, DeleteRow(p) PROVE Due'
    BY <1>7 DEF DeleteRow, WithinGrace, Locks, Requesting
  <1>8. ASSUME NEW p \in Proc, Fail(p) PROVE Due'
    BY <1>8 DEF Fail, Forget, WithinGrace
  <1>9. CASE gcAssets
    BY <1>9 DEF gcAssets, ListAssetSlugs, Cutoff, WithinGrace, Asset
  <1>10. CASE ListMeta \/ Scanned
    BY <1>10 DEF ListMeta, Scanned, WithinGrace
  <1>11. ASSUME NEW s \in Slug, ScanVersions(s) \/ ScanDraft(s) PROVE Due'
    <2>1. refs' \subseteq refs \cup {r.sha : r \in published[s] \cup draft[s]}
      BY <1>11, ScanFindsOnly DEF ScanVersions, ScanDraft
    <2>2. UNCHANGED <<docs, row, pc, at, slugs, doomed, cutoff, stale>>
      BY <1>11 DEF ScanVersions, ScanDraft
    <2> QED BY <2>1, <2>2 DEF WithinGrace
  <1>12. ASSUME NEW s \in Slug, gcSlug(s) PROVE Due'
    <2>1. \A x \in stale : x[2] \notin refs \cup scanInto(published[s]) \cup scanInto(draft[s])
      BY ScanFindsOnly
    <2>2. \A x \in stale : x[1] = s /\ row[x] # Never => x \in doomed'
      BY <1>12, <2>1 DEF gcSlug, Doomed
    <2>3. /\ UNCHANGED <<docs, row, at, refs, cutoff, stale>>
          /\ slugs' = slugs \ {s} /\ pc[Gc] = "slug" /\ pc'[Gc] = "decide"
      BY <1>12 DEF gcSlug
    <2> QED BY <2>2, <2>3 DEF WithinGrace
  <1>13. CASE NextDoomed
    BY <1>13 DEF NextDoomed, WithinGrace
  <1>14. CASE LeaveSlug
    BY <1>14 DEF LeaveSlug, WithinGrace
  <1>15. CASE PassEnds
    BY <1>15 DEF PassEnds, Forget, WithinGrace
  <1>16. CASE UNCHANGED vars
    BY <1>16 DEF vars, WithinGrace
  <1> QED
    BY <1>1, <1>2, <1>3, <1>4, <1>5, <1>6, <1>7, <1>8, <1>9, <1>10, <1>11, <1>12, <1>13,
       <1>14, <1>15, <1>16, UploadAssumption DEF Next, Collector

-------------------------------------------------------------------------------
(* What is listed can be fetched.                                          *)

LEMMA StoredInit == Init => Stored
  BY GcAssumption DEF Init, Stored, ListedIsServed, Proc

LEMMA StoredStep ==
    ASSUME Types, Locks, Stored, [Next]_vars
    PROVE  Stored'
  <1> USE GcAssumption DEF Types, TypeOK, Locks, Requesting, Stored, ListedIsServed, Served, docs, gcVars, history, Goto, Proc
  <1>1. CASE Tick \/ Document
    BY <1>1 DEF Tick, Document
  <1>2. ASSUME NEW s \in Slug, Remove(s) PROVE Stored'
    <2>1. \A p \in Proc : pc[p] \in Requesting => at[p][1] # s
      BY <1>2 DEF Remove
    <2> QED BY <1>2, <2>1 DEF Remove
  <1>3. ASSUME NEW p \in Client, NEW x \in Asset, handleUploadAsset(p, x) \/ handleDeleteAsset(p, x)
        PROVE  Stored'
    BY <1>3 DEF handleUploadAsset, handleDeleteAsset
  <1>4. ASSUME NEW p \in Proc, PutBlob(p) PROVE Stored'
    BY <1>4 DEF PutBlob
  <1>5. ASSUME NEW p \in Proc, PutRow(p) PROVE Stored'
    BY <1>5 DEF PutRow
  <1>6. ASSUME NEW p \in Proc, DeleteBlob(p) PROVE Stored'
    <2>1. at[p] \in Asset /\ holder[at[p][1]] = p
      BY <1>6 DEF DeleteBlob
    <2>2. \A q \in Proc \ {p} : pc[q] = "putRow" => at[q] # at[p]
      BY <2>1
    <2> QED BY <1>6, <2>1, <2>2 DEF DeleteBlob
  <1>7. ASSUME NEW p \in Proc, DeleteRow(p) PROVE Stored'
    BY <1>7 DEF DeleteRow
  <1>8. ASSUME NEW p \in Proc, Fail(p) PROVE Stored'
    BY <1>8 DEF Fail
  <1>9. CASE gcAssets \/ ListMeta \/ Scanned \/ LeaveSlug \/ PassEnds
    BY <1>9 DEF gcAssets, ListMeta, Scanned, LeaveSlug, PassEnds
  <1>10. ASSUME NEW s \in Slug, ScanVersions(s) \/ ScanDraft(s) \/ gcSlug(s) PROVE Stored'
    BY <1>10 DEF ScanVersions, ScanDraft, gcSlug
  <1>11. CASE NextDoomed
    BY <1>11 DEF NextDoomed
  <1>12. CASE UNCHANGED vars
    BY <1>12 DEF vars
  <1> QED
    BY <1>1, <1>2, <1>3, <1>4, <1>5, <1>6, <1>7, <1>8, <1>9, <1>10, <1>11, <1>12,
       UploadAssumption DEF Next, Collector

-------------------------------------------------------------------------------
(* Theorems.                                                               *)

IInv == Types /\ Locks /\ Safe /\ Scanning /\ Due /\ Stored

\* The inductive invariant: who writes about an asset holds its slug's lock, what
\* is doomed is named nowhere, what was named has been found, what is due is still
\* to come (gc.go, asset.go).
THEOREM AssetInvariant == Spec => []IInv
  <1>1. Init => IInv
    BY TypesInit, LocksInit, SafeInit, ScanningInit, DueInit, StoredInit DEF IInv
  <1>2. IInv /\ [Next]_vars => IInv'
    BY TypesStep, LocksStep, SafeStep, ScanningStep, DueStep, StoredStep DEF IInv
  <1> QED BY <1>1, <1>2, PTL DEF Spec

\* Every variable keeps its type: rows have an instant within the bound, nobody
\* but a request or the collector holds a lock.
THEOREM AssetTypes == Spec => []TypeOK
  <1>1. IInv => TypeOK
    BY DEF IInv, Types
  <1> QED BY <1>1, AssetInvariant, PTL

\* Whatever is published, drafted or promoted during a pass, the collector deletes
\* no bytes that a text of their own slug names at that moment (gc.go, gcSlug's
\* second scan under the lock).
THEOREM CollectorSparesOwnReferences == Spec => OwnReferenceKept
  <1>1. IInv /\ [Next]_vars =>
          [\A x \in Asset : Collects(x) => x[2] \notin Names(published[x[1]] \cup draft[x[1]])]_vars
    BY DEF IInv, Safe, Target, Collecting, Collects
  <1> QED BY <1>1, AssetInvariant, PTL DEF Spec, OwnReferenceKept

\* Nor bytes that a version of any document has named since the pass began
\* (gc.go, allReferencedSHAs).
THEOREM CollectorSparesVersions == Spec => VersionReferenceKept
  <1>1. IInv /\ [Next]_vars =>
          [\A x \in Asset : Collects(x) => x[2] \notin Names({y[2] : y \in settled})]_vars
    <2> SUFFICES ASSUME IInv, NEW x \in Asset, Collects(x)
                 PROVE  x[2] \notin Names({y[2] : y \in settled})
      OBVIOUS
    <2>1. \A y \in settled : Found(y)
      BY DEF IInv, Scanning, Collecting, Collects
    <2>2. Names({y[2] : y \in settled}) \subseteq refs
      BY <2>1 DEF Found, Names
    <2>3. x[2] \notin refs
      BY DEF IInv, Safe, Target, Collecting, Collects
    <2> QED BY <2>2, <2>3
  <1> QED BY <1>1, AssetInvariant, PTL DEF Spec, VersionReferenceKept

\* A pass that goes through leaves no asset that was old and unnamed when it began
\* and has been since.
THEOREM PassIsComplete == Spec => PassCollects
  <1>1. IInv /\ [Next]_vars =>
          [pc[Gc] = "slug" /\ pc'[Gc] = "idle" /\ slugs = {} => \A x \in stale : row[x] = Never]_vars
    BY DEF IInv, Due, Coming, Collecting
  <1> QED BY <1>1, AssetInvariant, PTL DEF Spec, PassCollects

\* An asset of the registry has its bytes, but for a deletion under way or one that
\* failed half-way (asset.go: bytes first, then the row).
THEOREM RegistryIsServed == Spec => []ListedIsServed
  <1>1. IInv => ListedIsServed
    BY DEF IInv, Stored
  <1> QED BY <1>1, AssetInvariant, PTL
===============================================================================
