------------------------------- MODULE Reconcile -------------------------------
(***************************************************************************)
(* Publish-time re-anchoring of one comment (internal/core/reconcile.go):  *)
(* given the anchor a comment has in the version being published and the   *)
(* artifacts stamped in its HTML, which anchor to record, if any.          *)
(*                                                                         *)
(* An anchor is [kind, aid, label, fp, head, reason]: aid stands for the   *)
(* aid field and for the one written into the selector, fp for the         *)
(* fingerprint's tag, head for the nearest heading, case-folded; "" is     *)
(* absent.  Text quotes and the page position are not in the record:       *)
(* nothing here reads them.  An artifact is [aid, tag, heading, legacy].   *)
(***************************************************************************)
EXTENDS Integers, Sequences, FiniteSets

CONSTANT Lower    \* strings.ToLower, on the labels and tags in use

\* The words that the records of the comment modules are filled with: strings,
\* as every literal is, which the provers are not told.
Words ==
    {"", "none", "element", "lost", "no_candidate", "ambiguous_aid", "fingerprint_mismatch",
     "open", "applied", "partial", "question", "odoc-agent", "reconcile", "created",
     "anchor_changed", "marked_applied", "marked_open", "deleted", "reaction_added",
     "reaction_removed", "reply_added", "reply_deleted", "reply_reaction_added",
     "reply_reaction_removed"}
ASSUME WordsAssumption == Words \subseteq STRING

AnchorRecord ==
    [kind : STRING, aid : STRING, label : STRING, fp : STRING, head : STRING, reason : STRING]
ArtifactRecord == [aid : STRING, tag : STRING, heading : STRING, legacy : SUBSET STRING]

\* A nil anchor.
NoAnchor == [kind |-> "none", aid |-> "", label |-> "", fp |-> "", head |-> "", reason |-> ""]

\* What a publish knows about the artifact the author pinned: the artifact
\* replaced through the element editor, and the aid it is renamed to.
PinRecord == [aid : STRING, tag : STRING, canonical : STRING, migrating : BOOLEAN]
NoPin == [aid |-> "", tag |-> "", canonical |-> "", migrating |-> FALSE]

knownAid(a) == IF a.kind = "element" THEN a.aid ELSE ""

ByAID(aids, x) == {i \in DOMAIN aids : aids[i].aid = x}
ByLegacyAID(aids, x) == {i \in DOMAIN aids : x \in aids[i].legacy}
Only(S) == CHOOSE i \in S : TRUE

\* The one artifact with the right tag under the right heading or, when none
\* is, the one with the right tag; "" when there is no single candidate.
findRebindAid(a, aids) ==
    LET wantTag == IF a.fp # "" THEN a.fp ELSE Lower[a.label]
        tagged  == {i \in DOMAIN aids : wantTag \in {"", aids[i].tag}}
        matches == {i \in tagged : a.head \in {"", aids[i].heading}}
    IN  IF Cardinality(matches) = 1 THEN aids[Only(matches)].aid
        ELSE IF matches = {} /\ Cardinality(tagged) = 1 THEN aids[Only(tagged)].aid
        ELSE ""

\* Each of the following is the sequence of anchors to record: one, or none.
lostAnchor(a, reason) ==
    IF a.kind = "lost" /\ a.reason = reason THEN <<>>
    ELSE <<[a EXCEPT !.kind = "lost", !.aid = "", !.reason = reason]>>

nextAnchor(a, aids) ==
    LET aid == findRebindAid(a, aids)
        label == IF a.label # "" THEN a.label ELSE IF a.fp # "" THEN a.fp ELSE "element"
    IN  IF aid # ""
        THEN <<[a EXCEPT !.kind = "element", !.aid = aid, !.label = label, !.reason = ""]>>
        ELSE IF a.kind = "lost" THEN <<>>
        ELSE <<[a EXCEPT !.kind = "lost", !.aid = "", !.reason = "no_candidate"]>>

anchorMatchesArtifact(a, x) == a.fp = "" \/ x.tag = Lower[a.fp]

migratedAnchor(a, aids, pin) ==
    LET to == ByAID(aids, pin.canonical)
    IN  IF /\ pin.canonical \notin {"", pin.aid}
           /\ a.kind = "element" /\ knownAid(a) = pin.aid
           /\ Cardinality(to) = 1 /\ aids[Only(to)].tag = pin.tag
        THEN <<[a EXCEPT !.aid = pin.canonical, !.label = pin.tag, !.fp = pin.tag]>>
        ELSE <<>>

pinnedAnchor(a, aids, pin) ==
    LET at == ByAID(aids, pin.aid)
    IN  IF /\ pin.aid # "" /\ pin.tag # "" /\ knownAid(a) = pin.aid
           /\ Cardinality(at) = 1 /\ aids[Only(at)].tag = pin.tag
        THEN <<[a EXCEPT !.label = pin.tag, !.fp = pin.tag]>>
        ELSE <<>>

canonicalAliasAnchor(a, x) ==
    <<[a EXCEPT !.kind = "element", !.aid = x.aid,
                !.label = IF a.label = "" THEN x.tag ELSE a.label]>>

\* Mutant: an aid that is still in the document is taken as it is.
ResolveAIDBlindly(a, aids) == <<>>

\* The anchor's aid is still in the document, as an aid or as a legacy alias.
ResolveAID(a, aids) ==
    LET direct == ByAID(aids, a.aid)
        alias  == ByLegacyAID(aids, a.aid)
        found  == direct \cup alias
        why    == IF Cardinality(found) > 1 THEN "ambiguous_aid" ELSE "fingerprint_mismatch"
        fits   == Cardinality(found) = 1 /\ anchorMatchesArtifact(a, aids[Only(found)])
    IN  IF direct # {} /\ alias # {} THEN lostAnchor(a, "ambiguous_aid")
        ELSE IF fits /\ direct # {} THEN <<>>
        ELSE IF fits THEN canonicalAliasAnchor(a, aids[Only(found)])
        ELSE lostAnchor(a, why)

\* reconcileComment for an alive comment whose anchor is a.
reconcileAnchor(a, aids, pin) ==
    LET migrated  == migratedAnchor(a, aids, pin)
        refreshed == pinnedAnchor(a, aids, pin)
        aid       == knownAid(a)
        present   == aid # "" /\ ByAID(aids, aid) \cup ByLegacyAID(aids, aid) # {}
    IN  IF a.kind \notin {"element", "lost"} THEN <<>>
        ELSE IF a.kind = "lost" /\ pin.migrating THEN <<>>
        ELSE IF migrated # <<>> THEN migrated
        ELSE IF refreshed # <<>> THEN refreshed
        ELSE IF present THEN ResolveAID(a, aids)
        ELSE nextAnchor(a, aids)
===============================================================================
