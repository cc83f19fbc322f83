--------------------------- MODULE CommentProperties ---------------------------
(***************************************************************************)
(* What the comment log promises its readers, over CommentService.         *)
(***************************************************************************)
EXTENDS CommentService

\* The versions a reader may ask for.
Readable == (1 .. MaxVersion) \cup {VersionLatest}

\* Ids name one comment each, though a publish may carry local comments that
\* were already merged, or carry one twice (ops.go: opPublishMerge, have).
UniqueIds ==
    \A i, j \in DOMAIN comments : comments[i].id = comments[j].id => i = j

\* The read-apply-write of two requests never loses an event one of them was
\* told 200 for; compaction and merging keep it too (comment.go: "making
\* read->apply->write atomic").
NoAckedEventLost == acked \subseteq Logged(comments)

\* The step in which a request's result is stored, seen from its handler: the
\* comments it keeps are those of both lists with the same place.
Stores(p) == pc[p] = "writing" /\ pc'[p] = "idle" /\ comments' # comments
Kept == DOMAIN comments \cap DOMAIN comments'

\* What a snapshot shows apart from reactions: one made again in a later
\* version has the eid of the earlier one and takes its place in the log.
Content(s) ==
    [anchor |-> s.anchor, status |-> s.status, appliedIn |-> s.appliedIn,
     deleted |-> s.deleted,
     replies |-> [i \in DOMAIN s.replies |-> <<s.replies[i].id, s.replies[i].verdict>>]]

\* Nothing that is stamped with version v changes what readers of an earlier
\* version see of a comment's anchor, status, replies or deletion
\* (docs/ARCHITECTURE.md: reading "as of version N" folds at_version <= N).
PastContentStable ==
    [][\A p \in Proc : Stores(p) /\ req[p].kind # "wipe" =>
         \A i \in Kept, w \in 1 .. MaxVersion :
            w < req[p].v => Content(SnapshotAt(comments[i], w)) = Content(SnapshotAt(comments'[i], w))]_vars

\* A publish touches nothing of the comments that are there but their anchors,
\* and those only from its version on: the merge is non-destructive and
\* compaction is invisible (comment.go:170, events.go:124).
PublishIsNonDestructive ==
    [][\A p \in Proc : Stores(p) /\ req[p].kind = "publish" =>
         /\ DOMAIN comments \subseteq DOMAIN comments'
         /\ \A i \in DOMAIN comments, w \in Readable :
               LET old == SnapshotAt(comments[i], w)
                   new == SnapshotAt(comments'[i], w)
               IN  new = IF w < req[p].v THEN old ELSE [old EXCEPT !.anchor = new.anchor]]_vars

\* After a publish no comment visible in the new version points at an artifact
\* that is not in it or has another tag: it is bound again or lost.  One that
\* points where it pointed before points at a single artifact: a reused aid is not
\* guessed (docs/ARCHITECTURE.md:197).  (One that is bound again by its heading may
\* get an aid that identical artifacts share.)
AnchorsResolve ==
    [][\A p \in Proc : Write(p) /\ req[p].kind = "publish" =>
         \A i \in DOMAIN comments' :
            LET v    == req[p].v
                a    == SnapshotAt(comments'[i], v).anchor
                here == ByAID(req[p].aids, a.aid)
            IN  AliveAt(comments'[i], v) /\ a.kind = "element" =>
                   /\ \E x \in here : anchorMatchesArtifact(a, req[p].aids[x])
                   /\ i \in DOMAIN comments /\ knownAid(SnapshotAt(comments[i], v).anchor) = a.aid
                          => Cardinality(here) = 1]_vars

\* A comment that is deleted for the readers of a version stays deleted for
\* them, whatever is appended later: re-anchored, resolved, reacted to, merged
\* or published over.
DeletedForGood ==
    [][\A i \in Kept, w \in Readable :
         /\ comments[i].id = comments'[i].id
         /\ SnapshotAt(comments[i], w).deleted
         => SnapshotAt(comments'[i], w).deleted]_comments

\* The request of p has flipped its author's reaction on the comment or, when
\* rid is not 0, on that reply.
Flips(p, rid(_)) ==
    \A i \in Kept :
        i \in Host(list[p], req[p]) =>
            LET mark == <<req[p].emoji, req[p].by>>
                had  == mark \in reactionsOf(SnapshotAt(comments[i], req[p].v), rid(i))
                has  == mark \in reactionsOf(SnapshotAt(comments'[i], req[p].v), rid(i))
            IN  has # had

ShownAt(i, rid, v) == HasReply(SnapshotAt(comments[i], v), rid)

\* Reacting to a reply that is visible at the version flips the reaction, however
\* often it was made and taken back before: the events of replies have ids of
\* their own, which deduplication keeps apart (comment.go:128, events.go:23).
ReplyReactToggles ==
    [][\A p \in Proc : Stores(p) /\ req[p].kind = "react" =>
         \A i \in Host(list[p], req[p]) :
            ShownAt(i, req[p].target, req[p].v) => Flips(p, LAMBDA j : req[p].target)]_vars

\* The same for a reaction on a comment, as comment.go:128 says: "React toggles an
\* emoji reaction on a comment or reply".
CommentReactToggles ==
    [][\A p \in Proc : pc[p] = "writing" /\ pc'[p] = "idle" /\ comments' # comments
                       /\ req[p].kind = "react" /\ IndexOf(list[p], req[p].target) # {} =>
            Flips(p, LAMBDA j : 0)]_vars
===============================================================================
