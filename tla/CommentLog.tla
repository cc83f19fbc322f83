------------------------------ MODULE CommentLog ------------------------------
(***************************************************************************)
(* The comment event log: internal/core/events.go, fold.go and ops.go.     *)
(*                                                                         *)
(* A comment is an append-only log of events, each stamped with the        *)
(* document version it was made on; what a reader of version v sees is the *)
(* fold of the events up to v.  Text, timestamps and wording are left out. *)
(* An event is [kind, atv, eid, by, emoji, rid, anchor, verdict, reset]:   *)
(* by is its author, rid the reply it concerns (ids are numbers); "" and 0 *)
(* are absent.  Reactions are a set of <<emoji, login>>.                  *)
(***************************************************************************)
EXTENDS Reconcile, Subsequences

CONSTANTS
    VersionLatest,   \* math.MaxInt: "fold everything"
    AgentEmoji       \* agentStatusEmoji: the emoji of a verdict

\* An event id: what the code writes into it.  n is the draw of the process-wide
\* counter: a sequence, the first number in it is that of the request that drew it.
EIDRecord == [kind : STRING, emoji : STRING, by : STRING, atv : Nat, n : Seq(Nat)]
EventRecord ==
    [kind : STRING, atv : Nat, eid : EIDRecord, by : STRING, emoji : STRING, rid : Nat,
     anchor : AnchorRecord, verdict : STRING, reset : BOOLEAN]
\* The empty eid of an event that has not been stamped.
NoEID == [kind |-> "", emoji |-> "", by |-> "", atv |-> 0, n |-> <<>>]

Event(kind, v) ==
    [kind |-> kind, atv |-> v, eid |-> NoEID, by |-> "", emoji |-> "", rid |-> 0,
     anchor |-> NoAnchor, verdict |-> "", reset |-> FALSE]

\* Mutant: reactions on replies get a deterministic id as well.
EventEIDForReplies(e, n) ==
    CASE e.kind \in {"reply_reaction_added", "reply_reaction_removed"} ->
            [NoEID EXCEPT !.kind = e.kind, !.emoji = e.emoji, !.by = e.by]
      [] OTHER -> [NoEID EXCEPT !.kind = e.kind, !.n = n]

\* Naturally idempotent events have an id made of their content; the others a
\* unique one, drawn from the process-wide counter.
EventEID(e, n) ==
    CASE e.kind \in {"reaction_added", "reaction_removed"} ->
            [NoEID EXCEPT !.kind = e.kind, !.emoji = e.emoji, !.by = e.by]
      [] e.kind \in {"marked_applied", "marked_open", "deleted"} ->
            [NoEID EXCEPT !.kind = e.kind, !.atv = e.atv]
      [] OTHER -> [NoEID EXCEPT !.kind = e.kind, !.n = n]

\* Request m drew the number in the event's id.
DrawnBy(e, m) == e.eid.n # <<>> /\ e.eid.n[1] = m

\* An event in the store is stamped; one that arrives from outside is stamped, by
\* this same code, or not at all.
StampedEvent == {e \in EventRecord : e.eid = EventEID(e, e.eid.n)}
ArrivingEvent == {e \in EventRecord : e.eid \in {NoEID, EventEID(e, e.eid.n)}}
StoredComment == [id : Nat, author : STRING, createdIn : Nat, events : Seq(StampedEvent)]
ArrivingComment == [id : Nat, author : STRING, createdIn : Nat, events : Seq(ArrivingEvent)]

Stamp(e, n) == IF e.eid = NoEID THEN [e EXCEPT !.eid = EventEID(e, n)] ELSE e

\* AppendEvent for several events, each with a draw of its own.
AppendEvents(c, evs, n) ==
    [c EXCEPT !.events = @ \o [i \in DOMAIN evs |-> Stamp(evs[i], Append(n, i))]]

SameEID(s, i) == {j \in DOMAIN s : s[j].eid = s[i].eid}
Latest(S) == CHOOSE i \in S : \A j \in S : j <= i

\* One event per eid: the last one written, at the place of the first.
FirstOfEID(s) == {i \in DOMAIN s : \A j \in SameEID(s, i) : i <= j}
DedupEvents(s) ==
    Subsequence([i \in DOMAIN s |-> s[Latest(SameEID(s, i))]], FirstOfEID(s))

CompactComments(list) ==
    [i \in DOMAIN list |-> [list[i] EXCEPT !.events = DedupEvents(@)]]

\* orderedEvents: dedup, then a stable sort by version.
Place(d, i) == Cardinality({j \in DOMAIN d : \/ d[j].atv < d[i].atv
                                             \/ d[j].atv = d[i].atv /\ j <= i})
orderedEvents(s) ==
    LET d == DedupEvents(s)
    IN  [k \in DOMAIN d |-> d[CHOOSE i \in DOMAIN d : Place(d, i) = k]]

-------------------------------------------------------------------------------
(* The fold.                                                               *)

emptySnapshot ==
    [anchor |-> NoAnchor, status |-> "open", appliedIn |-> 0, deleted |-> FALSE,
     verdict |-> "", reactions |-> {}, replies |-> <<>>]

HasReply(snap, rid) == \E i \in DOMAIN snap.replies : snap.replies[i].id = rid

\* Mutant: re-anchoring revives a deleted comment.
applyContentEventReviving(snap, e) ==
    [snap EXCEPT !.anchor = e.anchor, !.deleted = FALSE]

applyContentEvent(snap, e) ==
    CASE e.kind = "anchor_changed" /\ e.reset ->
            [snap EXCEPT !.anchor = e.anchor, !.status = "open", !.appliedIn = 0]
      [] OTHER -> [snap EXCEPT !.anchor = e.anchor]

applyStatusEvent(snap, e) ==
    CASE e.kind = "marked_applied" ->
            [snap EXCEPT !.status = "applied", !.appliedIn = e.atv, !.verdict = "applied"]
      [] e.kind = "marked_open" ->
            [snap EXCEPT !.status = "open", !.appliedIn = 0, !.verdict = e.verdict]
      [] e.kind = "deleted" -> [snap EXCEPT !.deleted = TRUE]

applyReaction(set, e, added) ==
    IF e.kind = added THEN set \cup {<<e.emoji, e.by>>} ELSE set \ {<<e.emoji, e.by>>}

addReply(snap, e) ==
    [snap EXCEPT !.replies = Append(@, [id |-> e.rid, author |-> e.by, verdict |-> e.verdict,
                                        deleted |-> FALSE, reactions |-> {}])]

\* An event about a reply that is not there is ignored.
touchReply(r, e) ==
    IF r.id # e.rid THEN r
    ELSE IF e.kind = "reply_deleted" THEN [r EXCEPT !.deleted = TRUE]
    ELSE [r EXCEPT !.reactions = applyReaction(r.reactions, e, "reply_reaction_added")]

applyReplyEvent(snap, e) ==
    IF e.kind = "reply_added" THEN addReply(snap, e)
    ELSE [snap EXCEPT !.replies = [i \in DOMAIN snap.replies |-> touchReply(snap.replies[i], e)]]

applyCommentEvent(snap, e) ==
    CASE e.kind \in {"created", "anchor_changed"} -> applyContentEvent(snap, e)
      [] e.kind \in {"marked_applied", "marked_open", "deleted"} -> applyStatusEvent(snap, e)
      [] e.kind \in {"reaction_added", "reaction_removed"} ->
            [snap EXCEPT !.reactions = applyReaction(@, e, "reaction_added")]
      [] OTHER -> applyReplyEvent(snap, e)

\* An event whose version is not finite is in no version.
Shows(e, v) == e.atv <= v /\ e.atv # VersionLatest

replay(c, v) ==
    LET evs == orderedEvents(c.events)
        upto[n \in 0 .. Len(evs)] ==
            IF n = 0 THEN emptySnapshot
            ELSE IF Shows(evs[n], v) THEN applyCommentEvent(upto[n - 1], evs[n])
            ELSE upto[n - 1]
    IN  upto[Len(evs)]

\* The agent's verdict shows as a reaction of the agent; deleted replies go.
finalize(snap) ==
    [snap EXCEPT
        !.reactions = IF snap.verdict = "" THEN @
                      ELSE @ \cup {<<AgentEmoji[snap.verdict], "odoc-agent">>},
        !.replies = Subsequence(@, {i \in DOMAIN @ : ~@[i].deleted})]

\* A comment that did not exist at v has no snapshot (nil).
ExistsAt(c, v) == c.events # <<>> /\ c.createdIn <= v
SnapshotAt(c, v) == finalize(replay(c, v))
AliveAt(c, v) == ExistsAt(c, v) /\ ~SnapshotAt(c, v).deleted

-------------------------------------------------------------------------------
(* The operations of ops.go on a comment list.  Each takes the list as it   *)
(* was read and returns the one to store; an operation whose target is not  *)
(* found answers 404 and stores nothing.                                    *)

IndexOf(list, id) == {i \in DOMAIN list : list[i].id = id}

\* FindHost: the comment with this id or, failing that, the one that has a
\* reply with this id.
ReplyHosts(list, id) ==
    {i \in DOMAIN list : \E k \in DOMAIN list[i].events :
        list[i].events[k].kind = "reply_added" /\ list[i].events[k].rid = id}

FirstOf(S) == CHOOSE i \in S : \A j \in S : i <= j

FindHost(list, id) == IF IndexOf(list, id) # {} THEN IndexOf(list, id) ELSE ReplyHosts(list, id)
NamesReply(list, id) == IndexOf(list, id) = {} /\ ReplyHosts(list, id) # {}

NewComment(id, by, anchor, v, n) ==
    AppendEvents([id |-> id, author |-> by, createdIn |-> v, events |-> <<>>],
                 <<[Event("created", v) EXCEPT !.anchor = anchor]>>, n)

opCreate(list, op, n) == Append(list, NewComment(op.id, op.by, op.anchor, op.v, n))

opReplyEvents(op) ==
    <<[Event("reply_added", op.v) EXCEPT !.rid = op.id, !.by = op.by]>>

\* Mutant: a re-anchoring is stamped with version 1 instead of its version.
opPatchAnchorEventsUnversioned(op) ==
    <<[Event("anchor_changed", 1) EXCEPT !.anchor = op.anchor, !.reset = TRUE, !.by = op.by]>>

opPatchAnchorEvents(op) ==
    <<[Event("anchor_changed", op.v) EXCEPT !.anchor = op.anchor, !.reset = TRUE, !.by = op.by]>>

opDeleteEvents(list, op) ==
    IF NamesReply(list, op.target)
    THEN <<[Event("reply_deleted", op.v) EXCEPT !.rid = op.target, !.by = op.by]>>
    ELSE <<[Event("deleted", op.v) EXCEPT !.by = op.by]>>

\* The reactions a reader of the version sees on the target of a reaction.
reactionsOf(snap, rid) ==
    IF rid = 0 THEN snap.reactions
    ELSE UNION {snap.replies[i].reactions : i \in {j \in DOMAIN snap.replies : snap.replies[j].id = rid}}

opReactEvents(list, host, op) ==
    LET rid  == IF NamesReply(list, op.target) THEN op.target ELSE 0
        had  == <<op.emoji, op.by>> \in reactionsOf(SnapshotAt(host, op.v), rid)
        kind == IF rid = 0 THEN (IF had THEN "reaction_removed" ELSE "reaction_added")
                ELSE (IF had THEN "reply_reaction_removed" ELSE "reply_reaction_added")
    IN  <<[Event(kind, op.v) EXCEPT !.emoji = op.emoji, !.by = op.by, !.rid = rid]>>

\* agentReplyEvents of handlers_agent.go, applied through opRawEvents.
agentReplyEvents(op) ==
    LET reply == [Event("reply_added", op.v) EXCEPT !.rid = op.id, !.by = "odoc-agent",
                                                    !.verdict = op.verdict]
        mark(kind) == [Event(kind, op.v) EXCEPT !.by = "odoc-agent", !.verdict = op.verdict]
    IN  CASE op.verdict = "applied" -> <<reply, mark("marked_applied")>>
          [] op.verdict \in {"partial", "question"} -> <<reply, mark("marked_open")>>
          [] OTHER -> <<reply>>

\* Mutant: a re-anchoring is stamped with the version the comment was made on.
reconcileCommentEarly(c, op, n) ==
    IF ~AliveAt(c, op.v) THEN c
    ELSE LET next == reconcileAnchor(SnapshotAt(c, op.v).anchor, op.aids, op.pin)
         IN  AppendEvents(c, [i \in DOMAIN next |->
                 [Event("anchor_changed", c.createdIn) EXCEPT !.anchor = next[i]]], n)

\* reconcileAnchors: one comment at a time, at the published version.
reconcileComment(c, op, n) ==
    IF ~AliveAt(c, op.v) THEN c
    ELSE LET next == reconcileAnchor(SnapshotAt(c, op.v).anchor, op.aids, op.pin)
         IN  AppendEvents(c, [i \in DOMAIN next |->
                 [Event("anchor_changed", op.v) EXCEPT !.anchor = next[i], !.by = "reconcile"]], n)

\* Mutant: local comments are added whether or not they are there already.
opPublishMergeAll(list, op, n) == CompactComments(list \o op.locals)

\* Merging local comments: the first one of each id the list lacks is added
\* as it is, its unstamped events stamped.
NewLocals(list, locals) ==
    {i \in DOMAIN locals : /\ IndexOf(list, locals[i].id) = {}
                           /\ \A j \in IndexOf(locals, locals[i].id) : i <= j}

StampedLocals(locals, n) ==
    [i \in DOMAIN locals |->
        AppendEvents([locals[i] EXCEPT !.events = <<>>], locals[i].events, Append(n, i))]

MergeLocals(list, locals, n) ==
    list \o Subsequence(StampedLocals(locals, n), NewLocals(list, locals))

opPublishMerge(list, op, n) ==
    LET merged == MergeLocals(list, op.locals, Append(n, 0))
    IN  CompactComments([i \in DOMAIN merged |-> reconcileComment(merged[i], op, Append(n, i))])
===============================================================================
